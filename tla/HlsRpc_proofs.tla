---------------------------- MODULE HlsRpc_proofs ----------------------------
(***************************************************************************)
(* Proof that getFaucet keeps its cap, for every value of the constants.  *)
(*                                                                         *)
(* A user's holdings (balance plus receivable) change only when the node  *)
(* imports a grant: a receive moves value from receivable to balance.     *)
(* The faucet's chain grows one grant at a time, and a grant is imported  *)
(* only on the head it was built on, so the only grants that can still be *)
(* imported are those numbered head[Faucet] + 1.  The invariant says that *)
(* each of those goes to a user within the cap, and that a call between   *)
(* its two awaits that built on the current head summed at least the     *)
(* receivables the user has now, so its cap check sees the holdings.     *)
(***************************************************************************)
EXTENDS HlsRpc, SequenceTheorems, TLAPS

Holdings(u) == balance[u] + receivable[u]

\* The blocks in the import queue are well formed.
QueueTyped ==
    \A i \in 1..Len(importQueue) :
        \/ importQueue[i].kind = "grant" /\ importQueue[i].chain = Faucet
        \/ importQueue[i].kind = "receive" /\ importQueue[i].chain \in Users

\* No grant in the queue is numbered past the next faucet block, and the
\* next faucet block, if granted, goes to a user within the cap.
LiveGrantsWithinCap ==
    \A i \in 1..Len(importQueue) :
        importQueue[i].kind = "grant" =>
            /\ importQueue[i].number <= head[Faucet] + 1
            /\ importQueue[i].number = head[Faucet] + 1
                  => Holdings(importQueue[i].to) <= Cap

\* A call past its first await built on a faucet head no later than the
\* current one; if on the current one, it has summed at least what the
\* user has receivable now.
PendingGrantsSeeReceivables ==
    \A r \in FaucetRequests :
        faucetReq[r].pc = "gas" =>
            /\ faucetReq[r].parent <= head[Faucet]
            /\ faucetReq[r].parent = head[Faucet]
                  => receivable[faucetReq[r].addr] <= faucetReq[r].recv

IInv ==
    /\ TypeOK
    /\ QueueTyped
    /\ FaucetCapRespected
    /\ LiveGrantsWithinCap
    /\ PendingGrantsSeeReceivables

\* The queue after a step holds only blocks it held before.
SubQueue ==
    /\ importQueue' \in Seq(Blocks)
    /\ \A i \in 1..Len(importQueue') :
          \E j \in 1..Len(importQueue) : importQueue'[i] = importQueue[j]

-----------------------------------------------------------------------------
(* Lemmas about the import queue.                                          *)

\* Removing the head of the queue keeps the rest.
LEMMA TailIsSubQueue ==
    ASSUME importQueue \in Seq(Blocks), importQueue # << >>,
           importQueue' = Tail(importQueue)
    PROVE  SubQueue
<1>1. /\ importQueue' \in Seq(Blocks)
      /\ Len(importQueue') = Len(importQueue) - 1
      /\ \A i \in 1..Len(importQueue') : importQueue'[i] = importQueue[i + 1]
  BY HeadTailProperties
<1>2. Len(importQueue) \in Nat
  BY LenProperties
<1>3. QED
  BY <1>1, <1>2 DEF SubQueue

-----------------------------------------------------------------------------
(* Each kind of step keeps IInv.                                           *)

\* A step of getFaucet that broadcasts nothing: a call past its first await
\* either is as it was, or has just read the faucet head and the receivables.
LEMMA FaucetReqStep ==
    ASSUME IInv, UNCHANGED <<head, balance, receivable, importQueue, rawReq>>,
           faucetReq' \in [FaucetRequests -> FaucetStates],
           \A r \in FaucetRequests : faucetReq'[r].pc = "gas" =>
              \/ faucetReq'[r] = faucetReq[r]
              \/ /\ faucetReq'[r].parent = head[Faucet]
                 /\ faucetReq'[r].recv = receivable[faucetReq'[r].addr]
    PROVE  IInv'
<1>1. TypeOK'
  BY DEF IInv, TypeOK
<1>2. QueueTyped' /\ FaucetCapRespected' /\ LiveGrantsWithinCap'
  BY DEF IInv, QueueTyped, FaucetCapRespected, LiveGrantsWithinCap, Holdings
<1>3. PendingGrantsSeeReceivables'
  <2> SUFFICES ASSUME NEW r \in FaucetRequests, faucetReq'[r].pc = "gas"
               PROVE  /\ faucetReq'[r].parent <= head'[Faucet]
                      /\ faucetReq'[r].parent = head'[Faucet]
                            => receivable'[faucetReq'[r].addr] <= faucetReq'[r].recv
    BY DEF PendingGrantsSeeReceivables
  <2>1. head[Faucet] \in Nat /\ \A u \in Users : receivable[u] \in Nat
    BY DEF IInv, TypeOK, Chains
  <2>2. faucetReq'[r].addr \in Users
    BY DEF FaucetStates
  <2>3. CASE faucetReq'[r] = faucetReq[r]
    BY <2>3 DEF IInv, PendingGrantsSeeReceivables
  <2>4. CASE /\ faucetReq'[r].parent = head[Faucet]
             /\ faucetReq'[r].recv = receivable[faucetReq'[r].addr]
    BY <2>1, <2>2, <2>4
  <2>5. QED
    BY <2>3, <2>4
<1>4. QED
  BY <1>1, <1>2, <1>3 DEF IInv

\* A step of sendRawBlock: at most a receive block of a user's chain is
\* broadcast.
LEMMA RawStep ==
    ASSUME IInv, UNCHANGED <<head, balance, receivable, faucetReq>>,
           rawReq' \in [RawRequests -> RawStates],
           \/ importQueue' = importQueue
           \/ \E c \in Users, n \in Nat :
                 importQueue' = Append(importQueue,
                    [chain |-> c, number |-> n, kind |-> "receive", to |-> c])
    PROVE  IInv'
<1>1. importQueue \in Seq(Blocks)
  BY DEF IInv, TypeOK
<1>2. CASE importQueue' = importQueue
  BY <1>2 DEF IInv, TypeOK, QueueTyped, FaucetCapRespected, LiveGrantsWithinCap,
              PendingGrantsSeeReceivables, Holdings
<1>3. CASE \E c \in Users, n \in Nat :
              importQueue' = Append(importQueue,
                 [chain |-> c, number |-> n, kind |-> "receive", to |-> c])
  <2>1. PICK c \in Users, n \in Nat :
              importQueue' = Append(importQueue,
                 [chain |-> c, number |-> n, kind |-> "receive", to |-> c])
    BY <1>3
  <2> DEFINE b == [chain |-> c, number |-> n, kind |-> "receive", to |-> c]
  <2>2. b \in Blocks
    BY DEF Blocks, Chains
  <2>3. /\ importQueue' \in Seq(Blocks)
        /\ Len(importQueue') = Len(importQueue) + 1
        /\ \A i \in 1..Len(importQueue) : importQueue'[i] = importQueue[i]
        /\ importQueue'[Len(importQueue) + 1] = b
    BY <1>1, <2>1, <2>2, AppendProperties
  <2>4. Len(importQueue) \in Nat
    BY <1>1, LenProperties
  <2>5. TypeOK'
    BY <2>3 DEF IInv, TypeOK
  <2>6. QueueTyped'
    BY <2>3, <2>4 DEF IInv, QueueTyped
  <2>7. LiveGrantsWithinCap'
    BY <2>3, <2>4 DEF IInv, LiveGrantsWithinCap, Holdings
  <2>8. FaucetCapRespected' /\ PendingGrantsSeeReceivables'
    BY DEF IInv, FaucetCapRespected, PendingGrantsSeeReceivables, Holdings
  <2>9. QED
    BY <2>5, <2>6, <2>7, <2>8 DEF IInv
<1>4. QED
  BY <1>2, <1>3

\* A step that only drops blocks from the queue.
LEMMA DropStep ==
    ASSUME IInv, UNCHANGED <<head, balance, receivable, faucetReq, rawReq>>,
           SubQueue
    PROVE  IInv'
<1>1. TypeOK'
  BY DEF IInv, TypeOK, SubQueue
<1>2. QueueTyped' /\ LiveGrantsWithinCap'
  BY Zenon DEF IInv, QueueTyped, LiveGrantsWithinCap, SubQueue, Holdings
<1>3. QED
  BY <1>1, <1>2 DEF IInv, FaucetCapRespected, PendingGrantsSeeReceivables, Holdings

\* A user's chain receives its receivables: value moves from receivable to
\* balance, and the faucet's head stays.
LEMMA ReceiveStep ==
    ASSUME IInv, NEW c \in Users,
           head' = [head EXCEPT ![c] = @ + 1],
           balance' = [balance EXCEPT ![c] = @ + receivable[c]],
           receivable' = [receivable EXCEPT ![c] = 0],
           UNCHANGED <<faucetReq, rawReq>>, SubQueue
    PROVE  IInv'
<1> USE HlsAssumption
<1>1. /\ head \in [Chains -> Nat] /\ balance \in [Chains -> Int]
      /\ receivable \in [Users -> Nat]
  BY DEF IInv, TypeOK
<1>2. head'[Faucet] = head[Faucet]
  BY <1>1 DEF Chains
<1>3. \A u \in Users : /\ balance'[u] + receivable'[u] = balance[u] + receivable[u]
                        /\ receivable'[u] <= receivable[u]
  BY <1>1 DEF Chains
<1>4. TypeOK'
  <2>1. c \in Chains
    BY DEF Chains
  <2>2. receivable[c] \in Nat /\ balance[c] \in Int /\ head[c] \in Nat
    BY <1>1, <2>1
  <2>3. head' \in [Chains -> Nat] /\ balance' \in [Chains -> Int]
        /\ receivable' \in [Users -> Nat]
    BY <1>1, <2>1, <2>2
  <2>4. QED
    BY <2>3 DEF IInv, TypeOK, SubQueue
<1>5. QueueTyped'
  BY Zenon DEF IInv, QueueTyped, SubQueue
<1>6. FaucetCapRespected'
  BY <1>3 DEF IInv, FaucetCapRespected, Holdings
<1>7. LiveGrantsWithinCap'
  <2> SUFFICES ASSUME NEW i \in 1..Len(importQueue'), importQueue'[i].kind = "grant"
               PROVE  /\ importQueue'[i].number <= head'[Faucet] + 1
                      /\ importQueue'[i].number = head'[Faucet] + 1
                            => balance'[importQueue'[i].to]
                               + receivable'[importQueue'[i].to] <= Cap
    BY DEF LiveGrantsWithinCap, Holdings
  <2>1. PICK j \in 1..Len(importQueue) : importQueue'[i] = importQueue[j]
    BY DEF SubQueue
  <2>2. importQueue[j].to \in Users
    <3>1. importQueue \in Seq(Blocks)
      BY DEF IInv, TypeOK
    <3>2. importQueue[j] \in Blocks
      BY <3>1, ElementOfSeq
    <3>3. QED
      BY <3>2 DEF Blocks
  <2>3. /\ importQueue[j].number <= head[Faucet] + 1
        /\ importQueue[j].number = head[Faucet] + 1
              => Holdings(importQueue[j].to) <= Cap
    BY <2>1 DEF IInv, LiveGrantsWithinCap
  <2>4. QED
    BY <1>2, <1>3, <2>1, <2>2, <2>3 DEF Holdings
<1>8. PendingGrantsSeeReceivables'
  <2> SUFFICES ASSUME NEW r \in FaucetRequests, faucetReq[r].pc = "gas"
               PROVE  /\ faucetReq[r].parent <= head'[Faucet]
                      /\ faucetReq[r].parent = head'[Faucet]
                            => receivable'[faucetReq[r].addr] <= faucetReq[r].recv
    BY DEF PendingGrantsSeeReceivables
  <2>1. faucetReq[r].addr \in Users /\ faucetReq[r].recv \in Nat
    BY DEF IInv, TypeOK, FaucetStates
  <2>2. /\ faucetReq[r].parent <= head[Faucet]
        /\ faucetReq[r].parent = head[Faucet]
              => receivable[faucetReq[r].addr] <= faucetReq[r].recv
    BY DEF IInv, PendingGrantsSeeReceivables
  <2>3. QED
    BY <1>1, <1>2, <1>3, <2>1, <2>2
<1>9. QED
  BY <1>4, <1>5, <1>6, <1>7, <1>8 DEF IInv

\* getFaucet broadcasts its grant after the cap check passed.
LEMMA GrantBroadcastStep ==
    ASSUME IInv, NEW r \in FaucetRequests, faucetReq[r].pc = "gas",
           balance[faucetReq[r].addr] + faucetReq[r].recv <= Cap,
           importQueue' = Append(importQueue, GrantBlock(r)),
           faucetReq' = [faucetReq EXCEPT ![r].pc = "done"],
           UNCHANGED <<head, balance, receivable, rawReq>>
    PROVE  IInv'
<1> USE HlsAssumption
<1> DEFINE a == faucetReq[r].addr
           g == GrantBlock(r)
<1>1. /\ head \in [Chains -> Nat] /\ balance \in [Chains -> Int]
      /\ receivable \in [Users -> Nat] /\ importQueue \in Seq(Blocks)
      /\ faucetReq \in [FaucetRequests -> FaucetStates]
  BY DEF IInv, TypeOK
<1>2. a \in Users /\ faucetReq[r].parent \in Nat /\ faucetReq[r].recv \in Nat
  BY <1>1 DEF FaucetStates
<1>3. g \in Blocks /\ g.kind = "grant" /\ g.chain = Faucet /\ g.to = a
      /\ g.number = faucetReq[r].parent + 1
  BY <1>2 DEF GrantBlock, Blocks, Chains
<1>4. /\ importQueue' \in Seq(Blocks)
      /\ Len(importQueue') = Len(importQueue) + 1
      /\ \A i \in 1..Len(importQueue) : importQueue'[i] = importQueue[i]
      /\ importQueue'[Len(importQueue) + 1] = g
  BY <1>1, <1>3, AppendProperties
<1>5. Len(importQueue) \in Nat
  BY <1>1, LenProperties
\* The new grant is numbered at most one past the faucet head, and if it
\* is the next faucet block, its user is within the cap.
<1>6. /\ g.number <= head[Faucet] + 1
      /\ g.number = head[Faucet] + 1 => Holdings(a) <= Cap
  <2>1. /\ faucetReq[r].parent <= head[Faucet]
        /\ faucetReq[r].parent = head[Faucet] => receivable[a] <= faucetReq[r].recv
    BY DEF IInv, PendingGrantsSeeReceivables
  <2>2. head[Faucet] \in Nat /\ balance[a] \in Int /\ receivable[a] \in Nat
    BY <1>1, <1>2 DEF Chains
  <2>3. g.number <= head[Faucet] + 1
    BY <1>2, <1>3, <2>1, <2>2
  <2>4. g.number = head[Faucet] + 1 => faucetReq[r].parent = head[Faucet]
    <3>1. /\ g.number = faucetReq[r].parent + 1
          /\ faucetReq[r].parent \in Nat /\ head[Faucet] \in Nat
      BY <1>2, <1>3, <2>2
    <3>. QED  BY ONLY <3>1
  <2>5. faucetReq[r].parent = head[Faucet] => Holdings(a) <= Cap
    BY <1>2, <2>1, <2>2 DEF Holdings
  <2>6. QED
    BY ONLY <2>3, <2>4, <2>5
<1>7. TypeOK'
  <2>1. faucetReq' \in [FaucetRequests -> FaucetStates]
    BY <1>1 DEF FaucetStates
  <2>2. QED
    BY <1>4, <2>1 DEF IInv, TypeOK
<1>8. QueueTyped'
  BY <1>3, <1>4, <1>5 DEF IInv, QueueTyped
<1>9. LiveGrantsWithinCap'
  <2> SUFFICES ASSUME NEW i \in 1..Len(importQueue'), importQueue'[i].kind = "grant"
               PROVE  /\ importQueue'[i].number <= head[Faucet] + 1
                      /\ importQueue'[i].number = head[Faucet] + 1
                            => Holdings(importQueue'[i].to) <= Cap
    BY DEF LiveGrantsWithinCap, Holdings
  <2>1. CASE i \in 1..Len(importQueue)
    BY <1>4, <2>1 DEF IInv, LiveGrantsWithinCap
  <2>2. CASE i = Len(importQueue) + 1
    BY <1>3, <1>4, <1>6, <2>2
  <2>3. QED
    BY <1>4, <1>5, <2>1, <2>2
<1>10. FaucetCapRespected'
  BY DEF IInv, FaucetCapRespected
<1>11. PendingGrantsSeeReceivables'
  BY <1>1 DEF IInv, PendingGrantsSeeReceivables
<1>12. QED
  BY <1>7, <1>8, <1>9, <1>10, <1>11 DEF IInv

\* The node imports the next faucet block: the faucet's head moves on, so
\* every other grant in the queue and every call built on the old head can
\* no longer be imported.
LEMMA GrantImportStep ==
    ASSUME IInv, importQueue # << >>,
           Head(importQueue).kind = "grant",
           Importable(Head(importQueue)),
           head' = [head EXCEPT ![Head(importQueue).chain] = @ + 1],
           balance' = [balance EXCEPT ![Faucet] = @ - Grant],
           receivable' = [receivable EXCEPT ![Head(importQueue).to] = @ + Grant],
           importQueue' = Tail(importQueue),
           UNCHANGED <<faucetReq, rawReq>>
    PROVE  IInv'
<1> USE HlsAssumption
<1> DEFINE b == Head(importQueue)
           t == b.to
<1>1. /\ head \in [Chains -> Nat] /\ balance \in [Chains -> Int]
      /\ receivable \in [Users -> Nat] /\ importQueue \in Seq(Blocks)
  BY DEF IInv, TypeOK
<1>2. Len(importQueue) \in Nat /\ Len(importQueue) >= 1
  BY <1>1, LenProperties, EmptySeq
<1>3. b = importQueue[1] /\ b \in Blocks
  BY <1>1, <1>2, HeadTailProperties
<1>4. b.chain = Faucet /\ t \in Users
  <2>1. 1 \in 1..Len(importQueue)
    BY <1>2
  <2>2. QED
    BY <1>3, <2>1 DEF IInv, QueueTyped, Blocks
<1>5. b.number = head[Faucet] + 1
  BY <1>4 DEF Importable
<1>6. Holdings(t) <= Cap
  <2>1. 1 \in 1..Len(importQueue)
    BY <1>2
  <2>2. QED
    BY <1>3, <1>5, <2>1 DEF IInv, LiveGrantsWithinCap
<1>7. SubQueue
  BY <1>1, TailIsSubQueue
<1>8. /\ head' = [head EXCEPT ![Faucet] = @ + 1]
      /\ head'[Faucet] = head[Faucet] + 1
      /\ \A u \in Users : u # t => balance'[u] + receivable'[u] = Holdings(u)
      /\ balance'[t] + receivable'[t] = Holdings(t) + Grant
  <2>1. Faucet \in Chains /\ t \in Chains /\ t # Faucet
    BY <1>4 DEF Chains
  <2>2. head' = [head EXCEPT ![Faucet] = @ + 1]
    BY <1>4
  <2>3. head'[Faucet] = head[Faucet] + 1
    BY <1>1, <2>1, <2>2
  <2>4. \A u \in Users : balance'[u] = balance[u]
    BY <1>1, <2>1 DEF Chains
  <2>5. \A u \in Users : u # t => receivable'[u] = receivable[u]
    BY <1>1, <1>4
  <2>6. receivable'[t] = receivable[t] + Grant
    BY <1>1, <1>4
  <2>7. balance[t] \in Int /\ receivable[t] \in Nat /\ Grant \in Nat
    BY <1>1, <1>4, <2>1
  <2>8. balance'[t] + receivable'[t] = Holdings(t) + Grant
    BY <2>1, <2>4, <2>6, <2>7 DEF Holdings
  <2>9. QED
    BY <2>2, <2>3, <2>4, <2>5, <2>8 DEF Holdings
<1>9. TypeOK'
  <2>1. head' \in [Chains -> Nat]
    <3>1. Faucet \in Chains
      BY DEF Chains
    <3>2. head' = [head EXCEPT ![Faucet] = @ + 1]
      BY <1>8
    <3>3. head \in [Chains -> Nat] /\ head[Faucet] + 1 \in Nat
      BY <1>1, <3>1
    <3>4. QED
      BY <3>2, <3>3
  <2>2. balance' \in [Chains -> Int]
    BY <1>1 DEF Chains
  <2>3. receivable' \in [Users -> Nat]
    BY <1>1, <1>4
  <2>4. QED
    BY <1>7, <2>1, <2>2, <2>3 DEF IInv, TypeOK, SubQueue
<1>10. QueueTyped'
  BY <1>7, Zenon DEF IInv, QueueTyped, SubQueue
<1>11. FaucetCapRespected'
  <2> SUFFICES ASSUME NEW u \in Users PROVE balance'[u] + receivable'[u] <= Cap + Grant
    BY DEF FaucetCapRespected
  <2>1. Holdings(u) <= Cap + Grant /\ Holdings(u) \in Int
    BY <1>1 DEF IInv, FaucetCapRespected, Holdings, Chains
  <2>2. QED
    BY <1>6, <1>8, <2>1
\* No grant left in the queue is the next faucet block any more.
<1>12. LiveGrantsWithinCap'
  <2> SUFFICES ASSUME NEW i \in 1..Len(importQueue'), importQueue'[i].kind = "grant"
               PROVE  /\ importQueue'[i].number <= head'[Faucet] + 1
                      /\ importQueue'[i].number = head'[Faucet] + 1
                            => balance'[importQueue'[i].to] + receivable'[importQueue'[i].to] <= Cap
    BY DEF LiveGrantsWithinCap, Holdings
  <2>1. PICK j \in 1..Len(importQueue) : importQueue'[i] = importQueue[j]
    BY <1>7 DEF SubQueue
  <2>2. importQueue[j].number <= head[Faucet] + 1
    BY <2>1 DEF IInv, LiveGrantsWithinCap
  <2>3. importQueue[j] \in Blocks
    BY <1>1, ElementOfSeq
  <2>4. importQueue[j].number \in Nat /\ head[Faucet] \in Nat
    BY <1>1, <2>3 DEF Blocks, Chains
  <2>5. importQueue'[i].number <= head'[Faucet] /\ importQueue'[i].number \in Nat
    BY <1>8, <2>1, <2>2, <2>4
  <2>6. head'[Faucet] \in Nat
    BY <1>8, <2>4
  <2>7. QED
    BY ONLY <2>5, <2>6
\* No call between its awaits is built on the new head.
<1>13. PendingGrantsSeeReceivables'
  <2> SUFFICES ASSUME NEW r \in FaucetRequests, faucetReq[r].pc = "gas"
               PROVE  /\ faucetReq[r].parent <= head'[Faucet]
                      /\ faucetReq[r].parent = head'[Faucet]
                            => receivable'[faucetReq[r].addr] <= faucetReq[r].recv
    BY DEF PendingGrantsSeeReceivables
  <2>1. faucetReq[r].parent <= head[Faucet]
    BY DEF IInv, PendingGrantsSeeReceivables
  <2>2. head[Faucet] \in Nat /\ faucetReq[r].parent \in Nat
    BY <1>1 DEF Chains, IInv, TypeOK, FaucetStates
  <2>3. QED
    BY ONLY <1>8, <2>1, <2>2
<1>14. QED
  BY <1>9, <1>10, <1>11, <1>12, <1>13 DEF IInv

-----------------------------------------------------------------------------
(* The actions of Next.                                                    *)

\* A getFaucet call that fails.
LEMMA FaucetFailStep ==
    ASSUME IInv, NEW r \in FaucetRequests, FaucetFail(r)
    PROVE  IInv'
<1>1. faucetReq \in [FaucetRequests -> FaucetStates]
  BY DEF IInv, TypeOK
<1>2. faucetReq' \in [FaucetRequests -> FaucetStates]
  BY <1>1 DEF FaucetFail, FaucetStates
<1>3. \A s \in FaucetRequests : faucetReq'[s].pc = "gas" => faucetReq'[s] = faucetReq[s]
  BY <1>1 DEF FaucetFail
<1>4. QED
  BY <1>2, <1>3, FaucetReqStep DEF FaucetFail

\* Every step of a getFaucet call.
LEMMA FaucetActionsStep ==
    ASSUME IInv, NEW r \in FaucetRequests,
           \/ \E a \in Users : FaucetCall(r, a)
           \/ FaucetSynced(r)
           \/ FaucetGrant(r)
    PROVE  IInv'
<1> DEFINE a == faucetReq[r].addr
<1>1. faucetReq \in [FaucetRequests -> FaucetStates]
  BY DEF IInv, TypeOK
<1>2. CASE \E u \in Users : FaucetCall(r, u)
  <2>1. PICK u \in Users : FaucetCall(r, u)
    BY <1>2
  <2>2. faucetReq' \in [FaucetRequests -> FaucetStates]
    BY <1>1, <2>1 DEF FaucetCall, FaucetStates
  <2>3. faucetReq'[r].pc = "sync"
    <3>1. faucetReq'[r] = [faucetReq[r] EXCEPT !.pc = "sync", !.addr = u]
      BY <1>1, <2>1 DEF FaucetCall
    <3>2. faucetReq[r] \in FaucetStates
      BY <1>1
    <3>3. QED
      BY <3>1, <3>2 DEF FaucetStates
  <2>4. \A s \in FaucetRequests \ {r} : faucetReq'[s] = faucetReq[s]
    BY <1>1, <2>1 DEF FaucetCall
  <2>5. QED
    BY <2>1, <2>2, <2>3, <2>4, FaucetReqStep DEF FaucetCall
<1>3. CASE FaucetSynced(r)
  <2>1. CASE FaucetFail(r)
    BY <2>1, FaucetFailStep
  <2>2. CASE /\ faucetReq' = [faucetReq EXCEPT ![r].pc = "gas",
                                               ![r].recv = receivable[a],
                                               ![r].parent = head[Faucet]]
             /\ UNCHANGED <<head, balance, receivable, importQueue, rawReq>>
    <3>1. receivable[a] \in Nat /\ head[Faucet] \in Nat
      BY <1>1 DEF IInv, TypeOK, FaucetStates, Chains
    <3>2. faucetReq' \in [FaucetRequests -> FaucetStates]
      BY <1>1, <2>2, <3>1 DEF FaucetStates
    <3>3. faucetReq'[r].addr = a
      BY <1>1, <2>2
    <3>4. \A s \in FaucetRequests : faucetReq'[s].pc = "gas" =>
             \/ faucetReq'[s] = faucetReq[s]
             \/ /\ faucetReq'[s].parent = head[Faucet]
                /\ faucetReq'[s].recv = receivable[faucetReq'[s].addr]
      BY <1>1, <2>2, <3>3
    <3>5. QED
      BY <2>2, <3>2, <3>4, FaucetReqStep
  <2>3. QED
    BY <1>3, <2>1, <2>2 DEF FaucetSynced
<1>4. CASE FaucetGrant(r)
  <2>1. CASE FaucetFail(r)
    BY <2>1, FaucetFailStep
  <2>2. CASE /\ faucetReq[r].pc = "gas"
             /\ balance[a] + faucetReq[r].recv <= Cap
             /\ importQueue' = Append(importQueue, GrantBlock(r))
             /\ faucetReq' = [faucetReq EXCEPT ![r].pc = "done"]
             /\ UNCHANGED <<head, balance, receivable, rawReq>>
    BY <2>2, GrantBroadcastStep
  <2>3. QED
    BY <1>4, <2>1, <2>2 DEF FaucetGrant
<1>5. QED
  BY <1>2, <1>3, <1>4

\* Every step of a sendRawBlock call.
LEMMA RawActionsStep ==
    ASSUME IInv, NEW q \in RawRequests,
           \/ \E c \in Users, n \in 1..MaxHeight, inWindow \in BOOLEAN :
                 RawCall(q, c, n, inWindow)
           \/ RawSynced(q)
           \/ RawQueueChecked(q)
           \/ RawBroadcast(q)
    PROVE  IInv'
<1> USE HlsAssumption
<1>1. rawReq \in [RawRequests -> RawStates]
  BY DEF IInv, TypeOK
<1>2. ASSUME NEW label \in {"sync", "queue", "gas", "done", "error"},
             rawReq' = [rawReq EXCEPT ![q].pc = label],
             UNCHANGED <<head, balance, receivable, importQueue, faucetReq>>
      PROVE  IInv'
  <2>1. rawReq' \in [RawRequests -> RawStates]
    BY <1>1, <1>2 DEF RawStates
  <2>2. QED
    BY <1>2, <2>1, RawStep
<1>3. RawFail(q) => IInv'
  BY <1>2 DEF RawFail
<1>4. CASE \E c \in Users, n \in 1..MaxHeight, inWindow \in BOOLEAN :
              RawCall(q, c, n, inWindow)
  <2>1. PICK c \in Users, n \in 1..MaxHeight, inWindow \in BOOLEAN :
              RawCall(q, c, n, inWindow)
    BY <1>4
  <2>2. CASE rawReq' = [rawReq EXCEPT ![q] = [pc |-> "sync", chain |-> c, number |-> n]]
             /\ UNCHANGED <<head, balance, receivable, importQueue, faucetReq>>
    <3>1. rawReq' \in [RawRequests -> RawStates]
      BY <1>1, <2>2 DEF RawStates
    <3>2. QED
      BY <2>2, <3>1, RawStep
  <2>3. QED
    BY <1>3, <2>1, <2>2 DEF RawCall
<1>5. CASE RawSynced(q) \/ RawQueueChecked(q)
  BY <1>2, <1>3, <1>5 DEF RawSynced, RawQueueChecked, RawAdvance
<1>6. CASE RawBroadcast(q)
  <2>1. CASE /\ importQueue' = Append(importQueue,
                   [chain |-> rawReq[q].chain, number |-> rawReq[q].number,
                    kind |-> "receive", to |-> rawReq[q].chain])
             /\ rawReq' = [rawReq EXCEPT ![q].pc = "done"]
             /\ UNCHANGED <<head, balance, receivable, faucetReq>>
    <3>1. rawReq[q].chain \in Users /\ rawReq[q].number \in Nat
      BY <1>1 DEF RawStates
    <3>2. rawReq' \in [RawRequests -> RawStates]
      BY <1>1, <2>1 DEF RawStates
    <3>3. QED
      BY <2>1, <3>1, <3>2, RawStep
  <2>2. QED
    BY <1>3, <1>6, <2>1 DEF RawBroadcast
<1>7. QED
  BY <1>4, <1>5, <1>6

\* The node imports the head of the queue, or drops it.
LEMMA ImportBlockStep ==
    ASSUME IInv, ImportBlock
    PROVE  IInv'
<1> DEFINE b == Head(importQueue)
<1>1. importQueue \in Seq(Blocks) /\ importQueue # << >>
  BY DEF IInv, TypeOK, ImportBlock
<1>2. SubQueue
  BY <1>1, TailIsSubQueue DEF ImportBlock
<1>3. b = importQueue[1] /\ b \in Blocks /\ 1 \in 1..Len(importQueue)
  <2>1. Len(importQueue) \in Nat /\ Len(importQueue) >= 1
    BY <1>1, LenProperties, EmptySeq
  <2>2. QED
    BY <1>1, <2>1, HeadTailProperties
<1>4. CASE ~Importable(b)
  BY <1>2, <1>4, DropStep DEF ImportBlock
<1>5. CASE Importable(b) /\ b.kind = "grant"
  <2>1. /\ head' = [head EXCEPT ![b.chain] = @ + 1]
        /\ balance' = [balance EXCEPT ![Faucet] = @ - Grant]
        /\ receivable' = [receivable EXCEPT ![b.to] = @ + Grant]
    BY <1>5 DEF ImportBlock, Apply
  <2>2. QED
    BY <1>1, <1>5, <2>1, GrantImportStep DEF ImportBlock
<1>6. CASE Importable(b) /\ b.kind = "receive"
  <2>1. b.chain \in Users
    BY <1>3, <1>6 DEF IInv, QueueTyped
  <2>2. /\ head' = [head EXCEPT ![b.chain] = @ + 1]
        /\ balance' = [balance EXCEPT ![b.chain] = @ + receivable[b.chain]]
        /\ receivable' = [receivable EXCEPT ![b.chain] = 0]
    BY <1>6 DEF ImportBlock, Apply
  <2>3. QED
    BY <1>2, <2>1, <2>2, ReceiveStep DEF ImportBlock
<1>7. QED
  BY <1>3, <1>4, <1>5, <1>6 DEF Blocks

\* A peer's block on a user's chain.
LEMMA PeerBlockStep ==
    ASSUME IInv, NEW c \in Users, PeerBlock(c)
    PROVE  IInv'
<1>1. SubQueue
  <2>1. importQueue \in Seq(Blocks) /\ importQueue' = importQueue
    BY DEF IInv, TypeOK, PeerBlock
  <2>2. QED
    BY <2>1 DEF SubQueue
<1>2. /\ head' = [head EXCEPT ![c] = @ + 1]
      /\ balance' = [balance EXCEPT ![c] = @ + receivable[c]]
      /\ receivable' = [receivable EXCEPT ![c] = 0]
      /\ UNCHANGED <<faucetReq, rawReq>>
  BY DEF PeerBlock, Apply
<1>3. QED
  BY <1>1, <1>2, ReceiveStep

-----------------------------------------------------------------------------
LEMMA InitIInv == Init => IInv
<1> USE HlsAssumption
<1> SUFFICES ASSUME Init PROVE IInv
  OBVIOUS
<1>1. (CHOOSE u \in Users : TRUE) \in Users
  OBVIOUS
<1>2. TypeOK
  <2>1. balance \in [Chains -> Int]
    <3>1. balance \in [Chains -> {FaucetStart} \cup UserStart]
      BY DEF Init
    <3>2. {FaucetStart} \cup UserStart \subseteq Int
      <4>1. FaucetStart \in Nat /\ UserStart \subseteq 0..Cap /\ Cap \in Nat
        BY HlsAssumption
      <4>2. QED
        BY <4>1
    <3>3. QED
      BY <3>1, <3>2
  <2>2. faucetReq \in [FaucetRequests -> FaucetStates]
    BY <1>1 DEF Init, FaucetStates
  <2>3. rawReq \in [RawRequests -> RawStates]
    BY <1>1 DEF Init, RawStates
  <2>4. QED
    BY <2>1, <2>2, <2>3 DEF Init, TypeOK
<1>3. FaucetCapRespected
  <2> SUFFICES ASSUME NEW u \in Users PROVE balance[u] + receivable[u] <= Cap + Grant
    BY DEF FaucetCapRespected
  <2>1. balance[u] \in 0..Cap /\ receivable[u] = 0
    BY DEF Init
  <2>2. QED
    BY <2>1
<1>4. QED
  BY <1>2, <1>3 DEF Init, IInv, QueueTyped, LiveGrantsWithinCap,
                    PendingGrantsSeeReceivables

LEMMA NextIInv == IInv /\ [Next]_vars => IInv'
<1> SUFFICES ASSUME IInv, [Next]_vars PROVE IInv'
  OBVIOUS
<1>1. CASE \E r \in FaucetRequests :
              \/ \E a \in Users : FaucetCall(r, a)
              \/ FaucetSynced(r)
              \/ FaucetGrant(r)
  BY <1>1, FaucetActionsStep
<1>2. CASE \E q \in RawRequests :
              \/ \E c \in Users, n \in 1..MaxHeight, inWindow \in BOOLEAN :
                    RawCall(q, c, n, inWindow)
              \/ RawSynced(q)
              \/ RawQueueChecked(q)
              \/ RawBroadcast(q)
  BY <1>2, RawActionsStep
<1>3. CASE ImportBlock
  BY <1>3, ImportBlockStep
<1>4. CASE \E c \in Users : PeerBlock(c)
  BY <1>4, PeerBlockStep
<1>5. CASE UNCHANGED vars
  BY <1>5 DEF vars, IInv, TypeOK, QueueTyped, FaucetCapRespected,
              LiveGrantsWithinCap, PendingGrantsSeeReceivables, Holdings
<1>6. QED
  BY <1>1, <1>2, <1>3, <1>4, <1>5 DEF Next

\* getFaucet's cap (hls.py, lines 756-757): however the calls, the sends of
\* raw blocks and the node's imports interleave, no user ever holds more
\* than Cap plus one grant, for every value of the constants.
THEOREM FaucetCapHolds == Spec => []FaucetCapRespected
<1>1. IInv => FaucetCapRespected
  BY DEF IInv
<1>2. QED
  BY InitIInv, NextIInv, <1>1, PTL DEF Spec

\* getFaucet, sendRawBlock and the node's imports keep every variable of
\* its type: heads and receivable amounts stay natural numbers, balances
\* integers, the import queue a list of blocks, and each call one of its
\* states.
THEOREM HlsRpcTypeCorrect == Spec => []TypeOK
<1>1. IInv => TypeOK
  BY DEF IInv
<1>2. QED
  BY InitIInv, NextIInv, <1>1, PTL DEF Spec

=============================================================================
