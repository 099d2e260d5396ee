---------------------------- MODULE Applier_proofs ----------------------------
(***************************************************************************)
(* Proofs about the block transaction applier (Applier.tla): lemmas on the *)
(* separation of a send list into its normal transactions and its          *)
(* computation calls, the inductive invariant of apply_all_transactions    *)
(* and its validation, and the two safety properties the run applier_inv   *)
(* checks, for every block, receive computations and state nonce.          *)
(***************************************************************************)
EXTENDS Applier, SequenceTheorems, WellFoundedInduction, TLAPS

-----------------------------------------------------------------------------
(* The separation.                                                         *)

\* The first computation call of a send list exists: the least position
\* that holds one or is past the end, found by the well-foundedness of <.
LEMMA FirstComputationCallProps ==
    ASSUME NEW s \in Seq(Tx)
    PROVE  /\ FirstComputationCall(s) \in 1..(Len(s) + 1)
           /\ FirstComputationCall(s) <= Len(s) => s[FirstComputationCall(s)].comp
           /\ \A l \in 1..(FirstComputationCall(s) - 1) : ~s[l].comp
<1> DEFINE T == {k \in 1..(Len(s) + 1) : k = Len(s) + 1 \/ s[k].comp}
           IsFirst(k) == /\ k <= Len(s) => s[k].comp
                         /\ \A l \in 1..(k - 1) : ~s[l].comp
<1>1. Len(s) \in Nat
  BY LenProperties
<1>2. T \subseteq Nat /\ T # {}
  BY <1>1
<1>3. PICK x \in T : \A y \in T : ~(<<y, x>> \in OpToRel(<, Nat))
  BY <1>2, NatLessThanWellFounded, WFMin
<1>4. IsFirst(x)
  <2>1. x <= Len(s) => s[x].comp
    BY <1>1
  <2>2. ASSUME NEW l \in 1..(x - 1), s[l].comp
        PROVE  FALSE
    <3>1. l \in T /\ <<l, x>> \in OpToRel(<, Nat)
      BY <1>1, <2>2 DEF OpToRel
    <3>. QED  BY <3>1, <1>3
  <2>. QED  BY <2>1, <2>2
<1>5. \E k \in 1..(Len(s) + 1) : IsFirst(k)
  BY <1>4
<1>. QED  BY <1>5 DEF FirstComputationCall

\* The normal transactions followed by the computation calls are the list.
LEMMA SeparationConcat ==
    ASSUME NEW s \in Seq(Tx)
    PROVE  /\ NormalTxs(s) \in Seq(Tx)
           /\ ComputationTxs(s) \in Seq(Tx)
           /\ Len(NormalTxs(s)) = FirstComputationCall(s) - 1
           /\ Len(ComputationTxs(s)) = Len(s) - FirstComputationCall(s) + 1
           /\ \A k \in 1..Len(NormalTxs(s)) : NormalTxs(s)[k] = s[k]
           /\ \A k \in 1..Len(ComputationTxs(s)) :
                  ComputationTxs(s)[k] = s[FirstComputationCall(s) + k - 1]
           /\ NormalTxs(s) \o ComputationTxs(s) = s
<1> DEFINE f == FirstComputationCall(s)
<1>1. f \in 1..(Len(s) + 1) /\ Len(s) \in Nat
  BY FirstComputationCallProps, LenProperties
<1>2. \A k \in 1..Len(s) : s[k] \in Tx
  BY ElementOfSeq
<1>3. /\ SubSeq(s, 1, f - 1) \in Seq(Tx)
      /\ Len(SubSeq(s, 1, f - 1)) = f - 1
      /\ \A k \in 1..(f - 1) : SubSeq(s, 1, f - 1)[k] = s[k]
  BY <1>1, <1>2, SubSeqProperties
<1>4. /\ SubSeq(s, f, Len(s)) \in Seq(Tx)
      /\ Len(SubSeq(s, f, Len(s))) = Len(s) - f + 1
      /\ \A k \in 1..(Len(s) - f + 1) : SubSeq(s, f, Len(s))[k] = s[f + k - 1]
  BY <1>1, <1>2, SubSeqProperties
<1>5. SubSeq(s, 1, f - 1) \o SubSeq(s, f, Len(s)) = s
  <2>0. \A m \in 1..(Len(s) + 1) : \A k \in (m - 1)..Len(s) : \A n \in k..Len(s) :
            SubSeq(s, m, k) \o SubSeq(s, k + 1, n) = SubSeq(s, m, n)
    BY ConcatAdjacentSubSeq
  <2>1. SubSeq(s, 1, f - 1) \o SubSeq(s, (f - 1) + 1, Len(s)) = SubSeq(s, 1, Len(s))
    <3>1. 1 \in 1..(Len(s) + 1) /\ f - 1 \in 0..Len(s) /\ Len(s) \in (f - 1)..Len(s)
      BY <1>1
    <3>. QED  BY <3>1, <2>0
  <2>. QED  BY <2>1, <1>1, SubSeqFull
<1>. QED  BY <1>3, <1>4, <1>5 DEF NormalTxs, ComputationTxs

\* A list is empty exactly when its length is 0.
LEMMA NonEmptyLen ==
    ASSUME NEW S, NEW s \in Seq(S)
    PROVE  /\ Len(s) \in Nat
           /\ s = <<>> <=> Len(s) = 0
<1>1. Len(s) \in Nat /\ DOMAIN s = 1..Len(s)
  BY LenProperties
<1>2. s = <<>> => Len(s) = 0
  BY EmptySeq
<1>3. Len(s) = 0 => s = <<>>
  BY <1>1, EmptySeq, SeqEqual
<1>. QED  BY <1>1, <1>2, <1>3

\* An ordered list with a computation call ends with one
\* (contains_computation_calls reads only the last transaction).
LEMMA OrderedEndsWithCall ==
    ASSUME NEW s \in Seq(Tx), Ordered(s), ComputationTxs(s) # <<>>
    PROVE  ContainsComputationCalls(s)
<1> DEFINE f == FirstComputationCall(s)
<1>1. f \in 1..(Len(s) + 1) /\ (f <= Len(s) => s[f].comp) /\ Len(s) \in Nat
  BY FirstComputationCallProps, LenProperties
<1>2. f <= Len(s)
  BY <1>1, SeparationConcat
<1>3. s[Len(s)].comp
  <2>1. CASE f = Len(s)
    BY <1>1, <1>2, <2>1
  <2>2. CASE f < Len(s)
    BY <1>1, <1>2, <2>2 DEF Ordered
  <2>. QED  BY <1>1, <1>2, <2>1, <2>2
<1>4. s # <<>>
  BY <1>1, <1>2, NonEmptyLen
<1>. QED  BY <1>3, <1>4 DEF ContainsComputationCalls

\* The nonce the computation calls start from is a natural number, for
\* every list of send transactions.
LEMMA NonceForComputationCallsNat ==
    ASSUME NEW s \in Seq(Tx), stateNonce \in Nat
    PROVE  NonceForComputationCalls(s) \in Nat
<1> DEFINE f == FirstComputationCall(s)
<1>1. f \in 1..(Len(s) + 1) /\ Len(s) \in Nat /\ (s # <<>> => Len(s) # 0)
  BY FirstComputationCallProps, NonEmptyLen
<1>2. \A k \in 1..Len(s) : s[k].nonce \in Nat
  <2> SUFFICES ASSUME NEW k \in 1..Len(s) PROVE s[k].nonce \in Nat
    OBVIOUS
  <2>1. s[k] \in Tx  BY ElementOfSeq
  <2>. QED  BY <2>1 DEF Tx
<1>3. CASE s = <<>>
  BY <1>3 DEF NonceForComputationCalls
<1>4. CASE s # <<>> /\ ~ContainsComputationCalls(s)
  BY <1>1, <1>2, <1>4 DEF NonceForComputationCalls, NextNonceAfterNormalTxs
<1>5. CASE s # <<>> /\ ContainsComputationCalls(s) /\ NormalTxs(s) # <<>>
  <2>1. Len(NormalTxs(s)) = f - 1 /\ Len(NormalTxs(s)) # 0
    BY <1>5, SeparationConcat, NonEmptyLen
  <2>2. f - 1 \in 1..Len(s) /\ f - 1 \in 1..Len(NormalTxs(s))
    BY <1>1, <2>1
  <2>3. NormalTxs(s)[f - 1] = s[f - 1]
    BY <2>2, SeparationConcat
  <2>. QED  BY <1>2, <1>5, <2>1, <2>2, <2>3 DEF NonceForComputationCalls, NextNonceAfterNormalTxs
<1>6. CASE s # <<>> /\ ContainsComputationCalls(s) /\ NormalTxs(s) = <<>>
  <2>1. f = 1
    BY <1>1, <1>6, SeparationConcat, NonEmptyLen
  <2>2. Len(ComputationTxs(s)) = Len(s) /\ 1 \in 1..Len(s)
    BY <1>1, <1>6, <2>1, SeparationConcat
  <2>3. ComputationTxs(s)[1] = s[1]
    BY <2>1, <2>2, SeparationConcat
  <2>. QED  BY <1>2, <1>6, <2>2, <2>3 DEF NonceForComputationCalls, NextNonceAfterNormalTxs
<1>. QED  BY <1>3, <1>4, <1>5, <1>6

\* Lines 320-325 accept exactly the block's computation calls equal to the
\* synthesized ones.
LEMMA SameCallsEqual ==
    ASSUME NEW a \in Seq(Tx), NEW b \in Seq(Tx), SameComputationCalls(a, b)
    PROVE  a = b
BY SeqEqual DEF SameComputationCalls

\* Appending the transaction numbered next keeps a list consecutive.
LEMMA ConsecutiveAppend ==
    ASSUME NEW a \in Seq(Tx), NEW n \in Nat, NEW t \in Tx,
           ConsecutiveFrom(a, n), t.nonce = n + Len(a)
    PROVE  ConsecutiveFrom(Append(a, t), n)
BY AppendProperties DEF ConsecutiveFrom

\* A consecutive list followed by one that continues it is consecutive.
LEMMA ConsecutiveConcat ==
    ASSUME NEW a \in Seq(Tx), NEW b \in Seq(Tx), NEW n \in Nat,
           ConsecutiveFrom(a, n), ConsecutiveFrom(b, n + Len(a))
    PROVE  ConsecutiveFrom(a \o b, n)
<1>1. Len(a) \in Nat /\ Len(b) \in Nat
  BY LenProperties
<1>2. /\ Len(a \o b) = Len(a) + Len(b)
      /\ \A k \in 1..(Len(a) + Len(b)) :
            (a \o b)[k] = IF k <= Len(a) THEN a[k] ELSE b[k - Len(a)]
  BY ConcatProperties
<1>. QED  BY <1>1, <1>2 DEF ConsecutiveFrom

\* When the block's normal transactions take consecutive nonces from n and
\* it ends in computation calls, get_nonce_for_computation_calls numbers
\* the calls from the nonce after the last normal transaction.
LEMMA NonceAfterConsecutiveNormals ==
    ASSUME NEW s \in Seq(Tx), NEW n \in Nat,
           Ordered(s), ComputationTxs(s) # <<>>, NormalTxs(s) # <<>>,
           ConsecutiveFrom(NormalTxs(s), n)
    PROVE  NonceForComputationCalls(s) = n + Len(NormalTxs(s))
<1> DEFINE N == NormalTxs(s)
<1>1. N \in Seq(Tx) /\ Len(N) \in Nat /\ Len(N) # 0
  BY SeparationConcat, NonEmptyLen
<1>2. N[Len(N)].nonce = n + Len(N) - 1
  BY <1>1 DEF ConsecutiveFrom
<1>3. ContainsComputationCalls(s) /\ s # <<>>
  BY OrderedEndsWithCall DEF ContainsComputationCalls
<1>. QED  BY <1>1, <1>2, <1>3 DEF NonceForComputationCalls, NextNonceAfterNormalTxs

-----------------------------------------------------------------------------
(* The inductive invariant.  Besides the types, it says where the loops    *)
(* are, that the counter is unset only while nothing was synthesized, that *)
(* once set it numbers the synthesized calls consecutively from the nonce *)
(* get_nonce_for_computation_calls gave, which send list ran, and what the *)
(* validation established.                                                  *)

\* The start nonce of the computation calls, for the block being applied.
StartNonce == NonceForComputationCalls(block)

ApplierInv ==
    /\ TypeOK
    /\ receives \in Seq(ReceiveComputation)
    /\ i \in 1..(Len(receives) + 1)
    /\ pc = "emit" => /\ i \in 1..Len(receives)
                      /\ j \in 1..Len(receives[i].msgs)
                      /\ counter # NoNonce
    /\ counter = NoNonce => synthesized = <<>>
    /\ counter # NoNonce => /\ counter = StartNonce + Len(synthesized)
                            /\ ConsecutiveFrom(synthesized, StartNonce)
    /\ pc \in {"applied", "valid"} =>
          sendList = IF synthesized = <<>> THEN block
                     ELSE NormalTxs(block) \o synthesized
    /\ pc = "valid" => /\ Ordered(block)
                       /\ SameComputationCalls(ComputationTxs(block), synthesized)

\* Steps that leave the block and the chain's nonce leave the start nonce.
LEMMA StartNonceUnchanged ==
    ASSUME block' = block, stateNonce' = stateNonce
    PROVE  StartNonce' = StartNonce
BY DEF StartNonce, NonceForComputationCalls, NextNonceAfterNormalTxs,
       ContainsComputationCalls, NormalTxs, ComputationTxs, FirstComputationCall

LEMMA InitApplierInv == Init => ApplierInv
<1> SUFFICES ASSUME Init PROVE ApplierInv
  OBVIOUS
<1>1. block \in Seq(Tx) /\ receives \in Seq(ReceiveComputation) /\ stateNonce \in Nat
  BY ApplierAssumption, ApplierInputsAssumption DEF Init
<1>2. Len(receives) \in Nat
  BY <1>1, LenProperties
<1>3. <<>> \in Seq(Tx)
  BY EmptySeq
<1>. QED  BY <1>1, <1>2, <1>3, ApplierAssumption DEF Init, ApplierInv, TypeOK

\* The invariant gives ValidatedExecutionMatchesBlock: the send list a
\* validated block ran is the block.
LEMMA InvExecutionMatchesBlock == ApplierInv => ValidatedExecutionMatchesBlock
<1> SUFFICES ASSUME ApplierInv, pc = "valid" PROVE sendList = block
  BY DEF ValidatedExecutionMatchesBlock
<1>1. block \in Seq(Tx) /\ synthesized \in Seq(Tx)
  BY DEF ApplierInv, TypeOK
<1>2. ComputationTxs(block) = synthesized
  BY <1>1, SeparationConcat, SameCallsEqual DEF ApplierInv
<1>3. NormalTxs(block) \o ComputationTxs(block) = block
  BY <1>1, SeparationConcat
<1>. QED  BY <1>2, <1>3 DEF ApplierInv

\* The invariant gives ValidatedNoncesContinueNormalTxs.
LEMMA InvNoncesContinue == ApplierInv => ValidatedNoncesContinueNormalTxs
<1> SUFFICES ASSUME ApplierInv, pc = "valid", NormalTxs(block) # <<>>,
                    ConsecutiveFrom(NormalTxs(block), stateNonce)
             PROVE  ConsecutiveFrom(sendList, stateNonce)
  BY DEF ValidatedNoncesContinueNormalTxs
<1>1. block \in Seq(Tx) /\ synthesized \in Seq(Tx) /\ stateNonce \in Nat
  BY DEF ApplierInv, TypeOK
<1>2. ComputationTxs(block) = synthesized /\ NormalTxs(block) \in Seq(Tx)
  BY <1>1, SeparationConcat, SameCallsEqual DEF ApplierInv
<1>3. CASE synthesized = <<>>
  <2>1. sendList = NormalTxs(block) \o <<>>
    BY <1>1, <1>2, <1>3, SeparationConcat DEF ApplierInv
  <2>. QED  BY <2>1, <1>2, ConcatEmptySeq
<1>4. CASE synthesized # <<>>
  <2>1. sendList = NormalTxs(block) \o synthesized
    BY <1>4 DEF ApplierInv
  <2>2. ConsecutiveFrom(synthesized, StartNonce)
    BY <1>4 DEF ApplierInv
  <2>3. StartNonce = stateNonce + Len(NormalTxs(block))
    BY <1>1, <1>2, <1>4, NonceAfterConsecutiveNormals DEF ApplierInv, StartNonce
  <2>. QED  BY <1>1, <1>2, <2>1, <2>2, <2>3, ConsecutiveConcat
<1>. QED  BY <1>3, <1>4

\* _apply_all_receive_transactions starts the scan at the first receive
\* computation.
LEMMA ApplyReceiveStep ==
    ASSUME ApplierInv, ApplyReceiveTransactions
    PROVE  ApplierInv'
<1>1. Len(receives) \in Nat
  BY LenProperties DEF ApplierInv
<1>2. /\ UNCHANGED <<block, receives, stateNonce, j, counter, synthesized, sendList>>
      /\ pc' = "scan" /\ i' = 1
  BY DEF ApplyReceiveTransactions
<1>3. StartNonce' = StartNonce
  BY <1>2, StartNonceUnchanged
<1>4. TypeOK'
  BY <1>2 DEF ApplierInv, TypeOK
<1>. QED  BY <1>1, <1>2, <1>3, <1>4 DEF ApplierInv

\* One iteration of the loop over the receive computations.
LEMMA ScanStep ==
    ASSUME ApplierInv, ScanReceiveComputation
    PROVE  ApplierInv'
<1> DEFINE rc == receives[i]
<1>1. /\ i \in 1..Len(receives) /\ Len(receives) \in Nat
      /\ rc \in ReceiveComputation
  BY LenProperties, ElementOfSeq DEF ApplierInv, ScanReceiveComputation
<1>2. UNCHANGED <<block, receives, stateNonce, synthesized, sendList>> /\ pc = "scan"
  BY DEF ScanReceiveComputation
<1>3. StartNonce' = StartNonce
  BY <1>2, StartNonceUnchanged
<1>4. CASE /\ rc.hasData /\ ~rc.isError /\ rc.msgs # <<>>
           /\ IF counter # NoNonce
              THEN pc' = "emit" /\ UNCHANGED counter
              ELSE IF NonceDerivationRaises(block)
                   THEN pc' = "rejected" /\ UNCHANGED counter
                   ELSE pc' = "emit" /\ counter' = NonceForComputationCalls(block)
           /\ j' = 1
           /\ UNCHANGED i
  <2>1. rc.msgs \in Seq(CallMessage) /\ Len(rc.msgs) \in Nat /\ Len(rc.msgs) # 0
    BY <1>1, <1>4, NonEmptyLen DEF ReceiveComputation
  <2>2. j' \in 1..Len(receives'[i'].msgs)
    BY <1>2, <1>4, <2>1
  <2>3. CASE counter # NoNonce
    BY <1>1, <1>2, <1>3, <1>4, <2>2, <2>3 DEF ApplierInv, TypeOK
  <2>4. CASE counter = NoNonce /\ NonceDerivationRaises(block)
    BY <1>1, <1>2, <1>3, <1>4, <2>4 DEF ApplierInv, TypeOK
  <2>5. CASE counter = NoNonce /\ ~NonceDerivationRaises(block)
    <3>1. counter' = StartNonce /\ synthesized' = <<>> /\ pc' = "emit"
      BY <1>2, <1>4, <2>5 DEF ApplierInv, StartNonce
    <3>2. StartNonce \in Nat
      BY NonceForComputationCallsNat DEF ApplierInv, TypeOK, StartNonce
    <3>3. ConsecutiveFrom(<<>>, StartNonce) /\ Len(<<>>) = 0
      BY DEF ConsecutiveFrom
    <3>. QED  BY <1>1, <1>2, <1>3, <1>4, <2>2, <3>1, <3>2, <3>3, ApplierAssumption
              DEF ApplierInv, TypeOK
  <2>. QED  BY <2>3, <2>4, <2>5
<1>5. CASE /\ ~(rc.hasData /\ ~rc.isError /\ rc.msgs # <<>>)
           /\ i' = i + 1
           /\ UNCHANGED <<pc, j, counter>>
  <2>1. TypeOK'
    BY <1>1, <1>2, <1>5 DEF ApplierInv, TypeOK
  <2>. QED  BY <1>1, <1>2, <1>3, <1>5, <2>1 DEF ApplierInv
<1>. QED  BY <1>4, <1>5 DEF ScanReceiveComputation

\* One iteration of the loop over a computation's external call messages.
LEMMA EmitStep ==
    ASSUME ApplierInv, EmitComputationCallTx
    PROVE  ApplierInv'
<1> DEFINE msgs == receives[i].msgs
           msg == msgs[j]
           t == [comp |-> TRUE, nonce |-> counter, payload |-> msg.payload]
<1>1. /\ pc = "emit" /\ i \in 1..Len(receives) /\ j \in 1..Len(msgs)
      /\ counter \in Nat /\ Len(receives) \in Nat
  BY LenProperties DEF ApplierInv, TypeOK, EmitComputationCallTx
<1>2. receives[i] \in ReceiveComputation
  BY <1>1, ElementOfSeq DEF ApplierInv
<1>3. msgs \in Seq(CallMessage) /\ Len(msgs) \in Nat
  BY <1>2, LenProperties DEF ReceiveComputation
<1>4. msg \in CallMessage
  BY <1>1, <1>3, ElementOfSeq
<1>5. t \in Tx
  BY <1>1, <1>4 DEF Tx, CallMessage
<1>6. UNCHANGED <<block, receives, stateNonce, sendList>>
  BY DEF EmitComputationCallTx
<1>7. StartNonce' = StartNonce
  BY <1>6, StartNonceUnchanged
<1>8. CASE /\ ~CreateCallValid(msg, counter)
           /\ pc' = "rejected"
           /\ UNCHANGED <<i, j, counter, synthesized>>
  BY <1>1, <1>6, <1>7, <1>8 DEF ApplierInv, TypeOK
<1>9. CASE /\ CreateCallValid(msg, counter)
           /\ synthesized' = Append(synthesized, t)
           /\ counter' = counter + 1
           /\ IF j = Len(msgs)
              THEN pc' = "scan" /\ i' = i + 1 /\ j' = 1
              ELSE UNCHANGED <<pc, i>> /\ j' = j + 1
  <2>1. synthesized \in Seq(Tx) /\ counter # NoNonce
    BY <1>1 DEF ApplierInv, TypeOK
  <2>2. /\ counter = StartNonce + Len(synthesized)
        /\ ConsecutiveFrom(synthesized, StartNonce)
        /\ StartNonce \in Nat
    BY <2>1, NonceForComputationCallsNat DEF ApplierInv, TypeOK, StartNonce
  <2>3. /\ synthesized' \in Seq(Tx)
        /\ Len(synthesized') = Len(synthesized) + 1
        /\ ConsecutiveFrom(synthesized', StartNonce)
    BY <1>5, <1>9, <2>1, <2>2, AppendProperties, ConsecutiveAppend
  <2>4. counter' \in Nat /\ counter' # NoNonce /\ counter' = StartNonce' + Len(synthesized')
    BY <1>1, <1>7, <1>9, <2>2, <2>3, LenProperties, ApplierAssumption
  <2>5. pc' \in {"scan", "emit"}
    BY <1>1, <1>9
  <2>6. i' \in 1..(Len(receives') + 1) /\ j' \in Nat
    BY <1>1, <1>6, <1>9
  <2>7. pc' = "emit" => /\ i' \in 1..Len(receives')
                        /\ j' \in 1..Len(receives'[i'].msgs)
    BY <1>1, <1>3, <1>6, <1>9
  <2>8. TypeOK'
    BY <1>6, <2>3, <2>4, <2>5, <2>6 DEF ApplierInv, TypeOK
  <2>. QED  BY <1>6, <1>7, <2>3, <2>4, <2>5, <2>6, <2>7, <2>8 DEF ApplierInv
<1>. QED  BY <1>8, <1>9 DEF EmitComputationCallTx

\* Lines 209-217: the send list is chosen.
LEMMA ApplySendStep ==
    ASSUME ApplierInv, ApplySendTransactions
    PROVE  ApplierInv'
<1>1. block \in Seq(Tx) /\ synthesized \in Seq(Tx)
  BY DEF ApplierInv, TypeOK
<1>2. NormalTxs(block) \o synthesized \in Seq(Tx)
  BY <1>1, SeparationConcat, ConcatProperties
<1>3. /\ UNCHANGED <<block, receives, stateNonce, i, j, counter, synthesized>>
      /\ pc = "scan"
  BY DEF ApplySendTransactions
<1>4. StartNonce' = StartNonce
  BY <1>3, StartNonceUnchanged
<1>5. sendList' \in Seq(Tx) /\ pc' \in {"rejected", "applied"}
  BY <1>1, <1>2 DEF ApplySendTransactions, ApplierInv, TypeOK
<1>6. TypeOK'
  BY <1>3, <1>5 DEF ApplierInv, TypeOK
<1>7. pc' \in {"applied", "valid"} =>
        sendList' = IF synthesized' = <<>> THEN block'
                    ELSE NormalTxs(block') \o synthesized'
  BY <1>3 DEF ApplySendTransactions
<1>. QED  BY <1>3, <1>4, <1>5, <1>6, <1>7 DEF ApplierInv

\* Lines 307-325: the validation against the block.
LEMMA ValidateStep ==
    ASSUME ApplierInv, ValidateComputationCallTxs
    PROVE  ApplierInv'
<1>1. /\ UNCHANGED <<block, receives, stateNonce, i, j, counter, synthesized, sendList>>
      /\ pc = "applied"
      /\ pc' = IF Ordered(block) /\ SameComputationCalls(ComputationTxs(block), synthesized)
               THEN "valid" ELSE "rejected"
  BY DEF ValidateComputationCallTxs
<1>2. StartNonce' = StartNonce
  BY <1>1, StartNonceUnchanged
<1>3. TypeOK'
  BY <1>1 DEF ApplierInv, TypeOK
<1>. QED  BY <1>1, <1>2, <1>3 DEF ApplierInv

LEMMA NextApplierInv == ApplierInv /\ [Next]_vars => ApplierInv'
<1> SUFFICES ASSUME ApplierInv, [Next]_vars PROVE ApplierInv'
  OBVIOUS
<1>1. CASE UNCHANGED vars
  BY <1>1 DEF vars, ApplierInv, TypeOK, StartNonce, NonceForComputationCalls,
     NextNonceAfterNormalTxs, ContainsComputationCalls, NormalTxs,
     ComputationTxs, FirstComputationCall, Ordered, SameComputationCalls,
     ConsecutiveFrom
<1>. QED  BY <1>1, ApplyReceiveStep, ScanStep, EmitStep, ApplySendStep,
             ValidateStep DEF Next
-----------------------------------------------------------------------------
(* Theorems.                                                               *)

\* apply_all_transactions and the validation keep every variable of its
\* type: the counter is unset or a natural number, the send lists are lists
\* of send transactions.
THEOREM ApplierTypeCorrect == Spec => []TypeOK
<1>1. ApplierInv => TypeOK
  BY DEF ApplierInv
<1>. QED  BY <1>1, InitApplierInv, NextApplierInv, PTL DEF Spec

\* A block that passes validate_computation_call_send_transactions_against_block
\* is exactly the send list apply_all_transactions executed, whatever the
\* block, the receive computations and the chain's nonce: the normal
\* transactions it separated followed by the computation calls it made.
THEOREM ExecutionMatchesBlockHolds == Spec => []ValidatedExecutionMatchesBlock
BY InitApplierInv, NextApplierInv, InvExecutionMatchesBlock, PTL DEF Spec

\* When a validated block's normal transactions take the chain's next
\* nonces, the computation calls get_nonce_for_computation_calls and the
\* counter number continue them without a gap or a repeat.
THEOREM NoncesContinueHolds == Spec => []ValidatedNoncesContinueNormalTxs
BY InitApplierInv, NextApplierInv, InvNoncesContinue, PTL DEF Spec
====
