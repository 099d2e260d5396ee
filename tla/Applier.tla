------------------------------- MODULE Applier -------------------------------
(***************************************************************************)
(* The block transaction applier of the Photon VM                          *)
(* (src/hvm/vm/forks/photon/__init__.py): apply_all_transactions followed   *)
(* by validate_computation_call_send_transactions_against_block, as a block *)
(* import runs them.                                                       *)
(*                                                                         *)
(* The receive transactions have already run; what the applier reads of   *)
(* their computations is whether they carried data, whether they erred and *)
(* the external call messages their computation tree collected.  From      *)
(* those it synthesizes computation-call send transactions, numbered by    *)
(* one counter, decides the send list to execute, executes it, and then    *)
(* checks the block's own computation-call transactions against the ones   *)
(* it made.                                                                *)
(*                                                                         *)
(* A transaction is [comp, nonce, payload]: created_by_computation, its    *)
(* nonce, and every other field (to, value, data, gas, code address...)    *)
(* abstracted to one payload value.  Signatures are left out: the          *)
(* validation compares everything but them.                                *)
(***************************************************************************)
EXTENDS Integers, Sequences

CONSTANTS
    ChainAddress,    \* block.header.chain_address
    Payloads,        \* abstract contents of a message or transaction
    StateNonces,     \* possible account_db.get_nonce(chain_address)
    Blocks,          \* possible block.transactions (send transactions)
    ReceiveResults,  \* possible receive computations, in block order
    NoNonce          \* current_nonce_for_computation_calls = None

ASSUME ApplierAssumption ==
    /\ StateNonces \subseteq Nat
    /\ NoNonce \notin Nat

VARIABLES
    block,          \* block.transactions
    receives,       \* receive_computations
    stateNonce,     \* nonce of this chain in the account db
    pc,             \* where apply_all_transactions and the validation are
    i, j,           \* loop indices: receive computation, call message
    counter,        \* current_nonce_for_computation_calls
    synthesized,    \* computation_call_send_transactions
    sendList        \* the send transactions executed

vars == <<block, receives, stateNonce, pc, i, j, counter, synthesized, sendList>>

Tx == [comp: BOOLEAN, nonce: Nat, payload: Payloads]

\* generate_contract_address(chain_address, nonce): collision-free, so
\* modelled as the pair it hashes.
ContractAddress(nonce) == <<ChainAddress, nonce>>

\* An external call message and a receive computation, as the applier
\* reads them.
CallMessage == [isCreate: BOOLEAN, payload: Payloads, nonce: Nat,
                createAddress: {ChainAddress} \X Nat]
ReceiveComputation == [hasData: BOOLEAN, isError: BOOLEAN, msgs: Seq(CallMessage)]

\* Blocks hold send transactions, receive computations carry call messages.
ASSUME ApplierInputsAssumption ==
    /\ Blocks \subseteq Seq(Tx)
    /\ ReceiveResults \subseteq Seq(ReceiveComputation)

-----------------------------------------------------------------------------
(* Helpers on send-transaction lists.                                      *)

\* separate_normal_transactions_and_computation_calls raises ValidationError
\* exactly when a normal transaction follows a computation-call one.
Ordered(txs) ==
    \A k, l \in 1..Len(txs) : k < l /\ txs[k].comp => txs[l].comp

\* The position of the first computation call, Len(txs) + 1 if there is
\* none: the least position that holds one or is past the end.
FirstComputationCall(txs) ==
    CHOOSE k \in 1..(Len(txs) + 1) :
        /\ k <= Len(txs) => txs[k].comp
        /\ \A l \in 1..(k - 1) : ~txs[l].comp

\* The two lists separate_normal_transactions_and_computation_calls
\* returns.  Its loop appends each transaction to one list by
\* created_by_computation and raises on a normal one after a call, so on a
\* list it returns for (Ordered) the normal transactions are those before
\* the first call and the computation calls are the rest.
NormalTxs(txs) == SubSeq(txs, 1, FirstComputationCall(txs) - 1)
ComputationTxs(txs) == SubSeq(txs, FirstComputationCall(txs), Len(txs))

\* contains_computation_calls
ContainsComputationCalls(txs) == txs # <<>> /\ txs[Len(txs)].comp

\* Mutant of NextNonceAfterNormalTxs: the last normal nonce, not one past it.
NextNonceAfterNormalTxsOffByOne(txs) ==
    IF ~ContainsComputationCalls(txs) THEN txs[Len(txs)].nonce
    ELSE IF NormalTxs(txs) # <<>>
         THEN NormalTxs(txs)[Len(NormalTxs(txs))].nonce
         ELSE ComputationTxs(txs)[1].nonce

\* get_next_nonce_after_normal_transactions (txs non-empty, and Ordered
\* when its last transaction is a computation call)
NextNonceAfterNormalTxs(txs) ==
    IF ~ContainsComputationCalls(txs) THEN txs[Len(txs)].nonce + 1
    ELSE IF NormalTxs(txs) # <<>>
         THEN NormalTxs(txs)[Len(NormalTxs(txs))].nonce + 1
         ELSE ComputationTxs(txs)[1].nonce

\* Mutant of NonceForComputationCalls: the chain's nonce whatever the block
\* already holds.
NonceForComputationCallsFromState(txs) == stateNonce

\* get_nonce_for_computation_calls
NonceForComputationCalls(txs) ==
    IF txs = <<>> THEN stateNonce ELSE NextNonceAfterNormalTxs(txs)

\* The call of get_nonce_for_computation_calls raises: the separation it
\* makes when the list ends in a computation call finds disorder.
NonceDerivationRaises(txs) == ContainsComputationCalls(txs) /\ ~Ordered(txs)

\* validate_create_call
CreateCallValid(msg, nonce) ==
    ~msg.isCreate \/ (msg.nonce = nonce /\ msg.createAddress = ContractAddress(nonce))

-----------------------------------------------------------------------------
(* apply_all_transactions                                                  *)

\* _apply_all_receive_transactions: the receive computations are inputs.
ApplyReceiveTransactions ==
    /\ pc = "receive"
    /\ pc' = "scan"
    /\ i' = 1
    /\ UNCHANGED <<block, receives, stateNonce, j, counter, synthesized, sendList>>

\* One iteration of the loop over receive_computations (lines 127-145): a
\* computation with data, no error and external call messages gets the
\* counter, computed the first time it is needed.
ScanReceiveComputation ==
    /\ pc = "scan"
    /\ i <= Len(receives)
    /\ LET rc == receives[i] IN
       \/ /\ rc.hasData /\ ~rc.isError /\ rc.msgs # <<>>
          /\ IF counter # NoNonce
             THEN pc' = "emit" /\ UNCHANGED counter
             ELSE IF NonceDerivationRaises(block)
                  THEN pc' = "rejected" /\ UNCHANGED counter
                  ELSE pc' = "emit" /\ counter' = NonceForComputationCalls(block)
          /\ j' = 1
          /\ UNCHANGED i
       \/ /\ ~(rc.hasData /\ ~rc.isError /\ rc.msgs # <<>>)
          /\ i' = i + 1
          /\ UNCHANGED <<pc, j, counter>>
    /\ UNCHANGED <<block, receives, stateNonce, synthesized, sendList>>

\* One iteration of the loop over external_call_messages (lines 147-189):
\* validate a create, build and sign the transaction, bump the counter.
EmitComputationCallTx ==
    /\ pc = "emit"
    /\ LET msgs == receives[i].msgs
           msg  == msgs[j]
       IN  \/ /\ ~CreateCallValid(msg, counter)
              /\ pc' = "rejected"
              /\ UNCHANGED <<i, j, counter, synthesized>>
           \/ /\ CreateCallValid(msg, counter)
              /\ synthesized' = Append(synthesized,
                     [comp |-> TRUE, nonce |-> counter, payload |-> msg.payload])
              /\ counter' = counter + 1
              /\ IF j = Len(msgs)
                 THEN pc' = "scan" /\ i' = i + 1 /\ j' = 1
                 ELSE UNCHANGED <<pc, i>> /\ j' = j + 1
    /\ UNCHANGED <<block, receives, stateNonce, sendList>>

\* Lines 209-217: choose the send list and execute it.
ApplySendTransactions ==
    /\ pc = "scan"
    /\ i > Len(receives)
    /\ \/ /\ synthesized # <<>>
          /\ ~Ordered(block)
          /\ pc' = "rejected"
          /\ UNCHANGED sendList
       \/ /\ synthesized # <<>>
          /\ Ordered(block)
          /\ sendList' = NormalTxs(block) \o synthesized
          /\ pc' = "applied"
       \/ /\ synthesized = <<>>
          /\ sendList' = block
          /\ pc' = "applied"
    /\ UNCHANGED <<block, receives, stateNonce, i, j, counter, synthesized>>

-----------------------------------------------------------------------------
(* validate_computation_call_send_transactions_against_block               *)

\* Mutant of SameComputationCalls: the count check of line 320 is dropped.
SameComputationCallsNoCount(blockComps, local) ==
    \A k \in 1..Len(blockComps) : k <= Len(local) /\ blockComps[k] = local[k]

\* Lines 320-325: same count, and each pair equal but for the signature
\* (ensure_computation_call_send_transactions_are_equal).
SameComputationCalls(blockComps, local) ==
    /\ Len(blockComps) = Len(local)
    /\ \A k \in 1..Len(blockComps) : blockComps[k] = local[k]

ValidateComputationCallTxs ==
    /\ pc = "applied"
    /\ pc' = IF Ordered(block) /\ SameComputationCalls(ComputationTxs(block), synthesized)
             THEN "valid" ELSE "rejected"
    /\ UNCHANGED <<block, receives, stateNonce, i, j, counter, synthesized, sendList>>

-----------------------------------------------------------------------------
Init ==
    /\ block \in Blocks
    /\ receives \in ReceiveResults
    /\ stateNonce \in StateNonces
    /\ pc = "receive"
    /\ i = 1
    /\ j = 1
    /\ counter = NoNonce
    /\ synthesized = <<>>
    /\ sendList = <<>>

Next ==
    \/ ApplyReceiveTransactions
    \/ ScanReceiveComputation
    \/ EmitComputationCallTx
    \/ ApplySendTransactions
    \/ ValidateComputationCallTxs

Spec == Init /\ [][Next]_vars

-----------------------------------------------------------------------------
(* Properties.                                                             *)

TypeOK ==
    /\ block \in Seq(Tx)
    /\ stateNonce \in Nat
    /\ pc \in {"receive", "scan", "emit", "applied", "valid", "rejected"}
    /\ i \in Nat /\ j \in Nat
    /\ counter \in Nat \cup {NoNonce}
    /\ synthesized \in Seq(Tx)
    /\ sendList \in Seq(Tx)

\* Nonces of a list run consecutively from n.
ConsecutiveFrom(txs, n) == \A k \in 1..Len(txs) : txs[k].nonce = n + k - 1

\* A block that passes validation is exactly what was executed: the send
\* list apply_all_transactions ran (its normal transactions followed by the
\* computation calls it synthesized) is the block's own send list.  It
\* fails if the validation lets the block carry computation calls other
\* than the ones the local VM made.
ValidatedExecutionMatchesBlock == pc = "valid" => sendList = block

\* A validated block whose normal send transactions take the chain's next
\* nonces has computation calls that continue them: together the executed
\* send transactions take consecutive nonces from the chain's nonce
\* (get_nonce_for_computation_calls and the counter of lines 138-189).
ValidatedNoncesContinueNormalTxs ==
    (pc = "valid" /\ NormalTxs(block) # <<>> /\ ConsecutiveFrom(NormalTxs(block), stateNonce))
        => ConsecutiveFrom(sendList, stateNonce)

\* Section 4.2 step 3 of the spec: the applier fails a block whose normal
\* send transactions do not all precede its computation calls.  The code
\* separates the list only when it synthesized transactions (line 209-210);
\* otherwise it executes the block's list as it is.
AppliedSendListOrdered == pc \in {"applied", "valid"} => Ordered(sendList)

\* The computation calls a validated block carries take the chain's next
\* nonces.  For a block with no normal transaction the derivation takes
\* the first nonce from the block itself (line 289), so the validation
\* accepts computation calls whose nonces the chain never reached.
ValidatedNoncesFollowChain ==
    (pc = "valid" /\ ConsecutiveFrom(NormalTxs(block), stateNonce))
        => ConsecutiveFrom(sendList, stateNonce)

-----------------------------------------------------------------------------
(* Refinement of Synthesis.  While the loops run the abstract computation  *)
(* is running; once the send list is chosen it is done with the            *)
(* synthesized list; a ValidationError anywhere rejects it.                *)

SynthPhase ==
    CASE pc \in {"receive", "scan", "emit"} -> "running"
      [] pc \in {"applied", "valid"}        -> "done"
      [] pc = "rejected"                    -> "rejected"

SynthOut == IF pc \in {"applied", "valid"} THEN synthesized ELSE <<>>

Synth == INSTANCE Synthesis WITH phase <- SynthPhase, out <- SynthOut

\* apply_all_transactions runs in one thread with no waits: it keeps
\* taking steps until it returns or raises.
FairSpec == Spec /\ WF_vars(Next)

\* apply_all_transactions implements the synthesis specification: the
\* two nested loops over receive computations and their external call
\* messages, with the lazily computed counter, end, and when they end
\* without a ValidationError they have produced exactly one computation
\* call per message of every computation with data and no error, in
\* order, numbered consecutively from the nonce of step 2a.
SynthesisRefined == Synth!Spec

=============================================================================
