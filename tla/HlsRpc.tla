------------------------------- MODULE HlsRpc -------------------------------
(***************************************************************************)
(* The two hls_ RPC handlers that make blocks: getFaucet and sendRawBlock  *)
(* (src/helios/rpc/modules/hls.py).  Both are coroutines of one event     *)
(* loop: a handler runs without interruption from one await to the next,  *)
(* so each action below is one such segment, and other handlers and the  *)
(* node run in between.  Neither handler imports anything: each ends by   *)
(* broadcasting a NewBlockEvent, and the node's block import, outside     *)
(* src/, appends the block to its chain later if it still extends the     *)
(* canonical head.                                                         *)
(*                                                                         *)
(* A chain is abstracted to the number of its canonical head, a value to  *)
(* whole ether, a block to the chain it extends, its number, and what it   *)
(* moves: a faucet grant (a send transaction of the faucet's chain) or a  *)
(* block that receives everything receivable on the user's chain.         *)
(***************************************************************************)
EXTENDS Integers, Sequences

CONSTANTS
    Faucet,          \* the faucet's chain address (FAUCET_PRIVATE_KEY)
    Users,           \* chain addresses of the users
    FaucetRequests,  \* concurrent getFaucet calls
    RawRequests,     \* concurrent sendRawBlock calls
    FaucetEnabled,   \* ENABLE_FAUCET and a non-empty FAUCET_PRIVATE_KEY
    PauseBalance,    \* to_wei(2, 'ether'): the faucet pauses at or below it
    Cap,             \* to_wei(5, 'ether'): the most an account may hold
    Grant,           \* to_wei(1, 'ether'): what one grant sends
    MaxImportQueue,  \* MAX_ALLOWED_LENGTH_BLOCK_IMPORT_QUEUE
    MaxHeight,       \* bound on the block numbers a client or a peer sends
    FaucetStart,     \* the faucet's balance at the start
    UserStart        \* the balances a user may start with

ASSUME HlsAssumption ==
    /\ {PauseBalance, Cap, Grant, MaxImportQueue, MaxHeight, FaucetStart} \subseteq Nat
    /\ UserStart \subseteq 0..Cap
    /\ FaucetEnabled \in BOOLEAN
    /\ Faucet \notin Users
    /\ Users # {}

VARIABLES
    head,         \* canonical head number of every chain
    balance,      \* account balances
    receivable,   \* value of the receivable transactions of every user
    importQueue,  \* NewBlockEvents broadcast and not yet imported, in order
    faucetReq,    \* the state of every getFaucet call
    rawReq        \* the state of every sendRawBlock call

vars == <<head, balance, receivable, importQueue, faucetReq, rawReq>>

Chains == {Faucet} \cup Users

Blocks == [chain: Chains, number: Nat, kind: {"grant", "receive"}, to: Users]

\* A getFaucet call: its label, chain_address, total_receivable and the
\* faucet head its chain_object builds the queue block on.
FaucetStates == [pc: {"idle", "sync", "gas", "done", "error"}, addr: Users,
                 recv: Nat, parent: Nat]

\* A sendRawBlock call: its label and the block it carries.
RawStates == [pc: {"idle", "sync", "queue", "gas", "done", "error"},
              chain: Users, number: Nat]

-----------------------------------------------------------------------------
(* getFaucet, lines 716-774.                                               *)

\* A BaseRPCError ends the call.
FaucetFail(r) ==
    /\ faucetReq' = [faucetReq EXCEPT ![r].pc = "error"]
    /\ UNCHANGED <<head, balance, receivable, importQueue, rawReq>>

\* The call starts and awaits CurrentSyncStageRequest (lines 716-720).
FaucetCall(r, a) ==
    /\ faucetReq[r].pc = "idle"
    /\ faucetReq' = [faucetReq EXCEPT ![r].pc = "sync", ![r].addr = a]
    /\ UNCHANGED <<head, balance, receivable, importQueue, rawReq>>

\* Lines 721-750: the node may still be syncing, or the faucet be off; the
\* chain object is made on the faucet's head, total_receivable summed and
\* the faucet's balance checked; then AverageNetworkMinGasPriceRequest.
FaucetSynced(r) ==
    LET a == faucetReq[r].addr
    IN  /\ faucetReq[r].pc = "sync"
        /\ \/ FaucetFail(r)   \* still syncing, or no faucet key configured
           \/ /\ FaucetEnabled /\ balance[Faucet] <= PauseBalance
              /\ FaucetFail(r)
           \/ /\ FaucetEnabled /\ balance[Faucet] > PauseBalance
              /\ faucetReq' = [faucetReq EXCEPT ![r].pc = "gas",
                                                ![r].recv = receivable[a],
                                                ![r].parent = head[Faucet]]
              /\ UNCHANGED <<head, balance, receivable, importQueue, rawReq>>

\* Mutant of GrantBlock: the queue block is rebuilt on the faucet's head
\* when the transaction is signed.
GrantBlockAtSigning(r) ==
    [chain |-> Faucet, number |-> head[Faucet] + 1, kind |-> "grant",
     to |-> faucetReq[r].addr]

\* The queue block of create_and_sign_transaction_for_queue_block and
\* import_current_queue_block: one grant on the chain object's head.
GrantBlock(r) ==
    [chain |-> Faucet, number |-> faucetReq[r].parent + 1, kind |-> "grant",
     to |-> faucetReq[r].addr]

\* Lines 751-774: the cap check on the balance now and the receivables
\* summed before the await, then the block is broadcast.
FaucetGrant(r) ==
    LET a == faucetReq[r].addr
    IN  /\ faucetReq[r].pc = "gas"
        /\ \/ balance[a] + faucetReq[r].recv > Cap /\ FaucetFail(r)
           \/ /\ balance[a] + faucetReq[r].recv <= Cap
              /\ importQueue' = Append(importQueue, GrantBlock(r))
              /\ faucetReq' = [faucetReq EXCEPT ![r].pc = "done"]
              /\ UNCHANGED <<head, balance, receivable, rawReq>>

-----------------------------------------------------------------------------
(* sendRawBlock, lines 485-560.                                            *)

RawFail(q) ==
    /\ rawReq' = [rawReq EXCEPT ![q].pc = "error"]
    /\ UNCHANGED <<head, balance, receivable, importQueue, faucetReq>>

RawAdvance(q, label) ==
    /\ rawReq' = [rawReq EXCEPT ![q].pc = label]
    /\ UNCHANGED <<head, balance, receivable, importQueue, faucetReq>>

\* Lines 485-527: decode the block; the timestamp checks (inWindow); the
\* block must not replace the canonical head and its parent must be
\* canonical; then CurrentSyncStageRequest.
RawCall(q, c, n, inWindow) ==
    /\ rawReq[q].pc = "idle"
    /\ \/ ~inWindow /\ RawFail(q)
       \/ inWindow /\ head[c] >= n /\ RawFail(q)
       \/ inWindow /\ n # 0 /\ n - 1 > head[c] /\ RawFail(q)
       \/ /\ inWindow /\ n = head[c] + 1
          /\ rawReq' = [rawReq EXCEPT ![q] = [pc |-> "sync", chain |-> c, number |-> n]]
          /\ UNCHANGED <<head, balance, receivable, importQueue, faucetReq>>

\* Lines 528-535: still syncing, or BlockImportQueueLengthRequest.
RawSynced(q) ==
    /\ rawReq[q].pc = "sync"
    /\ RawFail(q) \/ RawAdvance(q, "queue")

\* Lines 536-549: the import queue is too long, or the block's gas price is
\* below the local minimum; then AverageNetworkMinGasPriceRequest.
RawQueueChecked(q) ==
    /\ rawReq[q].pc = "queue"
    /\ \/ Len(importQueue) > MaxImportQueue /\ RawFail(q)
       \/ Len(importQueue) <= MaxImportQueue /\ (RawFail(q) \/ RawAdvance(q, "gas"))

\* Lines 550-560: below the network's minimum gas price, or broadcast.
RawBroadcast(q) ==
    /\ rawReq[q].pc = "gas"
    /\ \/ RawFail(q)
       \/ /\ importQueue' = Append(importQueue,
                 [chain |-> rawReq[q].chain, number |-> rawReq[q].number,
                  kind |-> "receive", to |-> rawReq[q].chain])
          /\ rawReq' = [rawReq EXCEPT ![q].pc = "done"]
          /\ UNCHANGED <<head, balance, receivable, faucetReq>>

-----------------------------------------------------------------------------
(* The node, outside src/: it imports the broadcast blocks in order, and   *)
(* a block that no longer extends its chain's head is dropped.  Blocks of *)
(* the users' chains also arrive from peers.                               *)

\* What a block that extends the head does to the balances.
Apply(b) ==
    IF b.kind = "grant"
    THEN /\ balance' = [balance EXCEPT ![Faucet] = @ - Grant]
         /\ receivable' = [receivable EXCEPT ![b.to] = @ + Grant]
    ELSE /\ balance' = [balance EXCEPT ![b.chain] = @ + receivable[b.chain]]
         /\ receivable' = [receivable EXCEPT ![b.chain] = 0]

Importable(b) ==
    /\ b.number = head[b.chain] + 1
    /\ b.kind = "grant" => balance[Faucet] >= Grant

ImportBlock ==
    /\ importQueue # <<>>
    /\ LET b == Head(importQueue)
       IN  IF Importable(b)
           THEN head' = [head EXCEPT ![b.chain] = @ + 1] /\ Apply(b)
           ELSE UNCHANGED <<head, balance, receivable>>
    /\ importQueue' = Tail(importQueue)
    /\ UNCHANGED <<faucetReq, rawReq>>

\* A user's next block, sent to another node, receives its receivables.
PeerBlock(c) ==
    /\ head[c] < MaxHeight
    /\ head' = [head EXCEPT ![c] = @ + 1]
    /\ Apply([chain |-> c, number |-> head[c] + 1, kind |-> "receive", to |-> c])
    /\ UNCHANGED <<importQueue, faucetReq, rawReq>>

-----------------------------------------------------------------------------
Init ==
    /\ head = [c \in Chains |-> 0]
    /\ balance \in {f \in [Chains -> {FaucetStart} \cup UserStart] :
                      f[Faucet] = FaucetStart /\ \A u \in Users : f[u] \in UserStart}
    /\ receivable = [u \in Users |-> 0]
    /\ importQueue = <<>>
    /\ faucetReq = [r \in FaucetRequests |->
                      [pc |-> "idle", addr |-> CHOOSE u \in Users : TRUE,
                       recv |-> 0, parent |-> 0]]
    /\ rawReq = [q \in RawRequests |->
                   [pc |-> "idle", chain |-> CHOOSE u \in Users : TRUE, number |-> 0]]

Next ==
    \/ \E r \in FaucetRequests :
          \/ \E a \in Users : FaucetCall(r, a)
          \/ FaucetSynced(r)
          \/ FaucetGrant(r)
    \/ \E q \in RawRequests :
          \/ \E c \in Users, n \in 1..MaxHeight, inWindow \in BOOLEAN :
                RawCall(q, c, n, inWindow)
          \/ RawSynced(q)
          \/ RawQueueChecked(q)
          \/ RawBroadcast(q)
    \/ ImportBlock
    \/ \E c \in Users : PeerBlock(c)

Spec == Init /\ [][Next]_vars

-----------------------------------------------------------------------------
(* Properties.                                                             *)

TypeOK ==
    /\ head \in [Chains -> Nat]
    /\ balance \in [Chains -> Int]
    /\ receivable \in [Users -> Nat]
    /\ importQueue \in Seq(Blocks)
    /\ faucetReq \in [FaucetRequests -> FaucetStates]
    /\ rawReq \in [RawRequests -> RawStates]

\* The faucet's cap ("The selected account already has the maximum allowed
\* HLS from the faucet"): no account that starts within the cap is ever
\* granted past it, although getFaucet sums the receivables before one
\* await and reads the balance after it, other calls run in between, and
\* the node imports their grants at any time.
FaucetCapRespected ==
    \A u \in Users : balance[u] + receivable[u] <= Cap + Grant

\* sendRawBlock never broadcasts a block that would replace a block of the
\* canonical chain ("You are attempting to replace an existing block"): the
\* block still extends the head when it goes out.
RawBroadcastExtendsHead ==
    [][\A q \in RawRequests :
         (rawReq[q].pc = "gas" /\ rawReq'[q].pc = "done")
            => rawReq[q].number > head[rawReq[q].chain]]_vars

=============================================================================
