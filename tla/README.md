# TLA+ models of the Helios call dispatcher, block transaction applier and block-making RPC handlers

This directory holds TLA+ models of the transaction-execution core of
py-helios-node. They are checked with TLC, and some properties are proved
with TLAPS. Every definition is translated from the Python source under
`src/`. `PROJECT.json` maps each definition to the lines it models.

## The system

The repository's core is a node of a ledger in which every account owns a
chain. Value moves between chains in two phases: a send transaction on one
chain, then a receive transaction on the other. Two components make up the
core:

- **The call dispatcher** (`src/hvm/vm/logic/call.py`) executes the
  CALL-family opcodes for a running computation.
  - It charges gas under the rules of the fork.
  - CALL and SURROGATECALL do not run the callee. `Call.__call__` hands the
    child message back to the VM through `apply_external_call_message` and
    pushes 1.
  - CALLCODE and DELEGATECALL run the child computation in process
    (`BaseCall.__call__`).
  - STATICCALL always raises (`StaticCallHelios`).
- **The block transaction applier** (`src/hvm/vm/forks/photon/__init__.py`,
  `apply_all_transactions`) runs a block.
  - It first runs the receive transactions.
  - For every receive computation that carried data, did not err and
    collected external call messages, it synthesizes one *computation-call*
    send transaction per message. These are numbered by a single counter.
  - The counter starts at `get_nonce_for_computation_calls(block)`.
  - It then executes the send list: the block's normal transactions
    followed by the synthesized ones.
  - `validate_computation_call_send_transactions_against_block` then checks
    that the block carries exactly the computation calls the local VM made.

A third part sits at the node's edge:

- **The block-making RPC handlers** (`src/helios/rpc/modules/hls.py`).
  - `getFaucet` sends one ether from the node's faucet chain to a user's
    chain, unless the user's balance plus receivable is over 5 ether.
  - `sendRawBlock` accepts a block signed by a client and checks that it
    extends its chain's canonical head.
  - Both are coroutines on one event loop. Each awaits the event bus two or
    three times, and each ends by broadcasting a `NewBlockEvent`. The
    node's block import, outside `src/`, imports the block later.

The two core components interact through the external call messages. The
messages that `CallOpcodes` appends to `externalMsgs` are what `Applier`
reads as `receives[i].msgs`.

The other files under `src/` are outside this core:

- The read-only handlers of `hls.py`.
- `trinity/main.py`: process bootstrap.
- `mining.py`: a test proof-of-work helper.
- `hp2p/events.py`: event data classes.
- The tests.

## Modules

| Module | Models | Source |
|---|---|---|
| `CallOpcodes` | one computation executing CALL-family opcodes | `call.py` |
| `MC_CallOpcodes` | TLC instance of it | |
| `CallOpcodes_proofs` | TLAPS proofs about `CallOpcodes` | |
| `Applier` | `apply_all_transactions` and the computation-call validation | `photon/__init__.py` |
| `MC_Applier` | TLC instance of it, with enumerated blocks and receive results | |
| `Applier_proofs` | TLAPS proofs of the two validation properties | |
| `Synthesis` | abstract specification of the synthesized transactions, which `Applier` refines | spec 4.2 |
| `HlsRpc` | `getFaucet` and `sendRawBlock`, with concurrent calls and the node's import | `hls.py` |
| `MC_HlsRpc` | TLC instance of it | |
| `HlsRpc_proofs` | TLAPS proofs of the faucet cap and of type correctness | |

### CallOpcodes

The state of `CallOpcodes`:

- `gas`: `get_gas_remaining()`.
- `status`: `"running"` or the name of the exception raised.
- `results`: the 0/1 values pushed.
- `externalMsgs`: the messages passed to `apply_external_call_message`.
- `children`: the messages run by `apply_child_computation`.
- `deferredGas`: the gas attached to `externalMsgs`, summed.
- `fork`, `ctx` and `startGas`: fixed per behaviour.

There is one action per opcode.

- `Call` and `SurrogateCall` are `DeferredCall`, the model of
  `Call.__call__`. Its checks are a tuple in code order:
  1. the base cost;
  2. the Byzantium write protection;
  3. memory;
  4. forbidden-on-send;
  5. forbidden-in-surrogate;
  6. the EIP150 extra gas;
  7. `child_msg_gas < GAS_TX`;
  8. the fee.

  `RaisesAt(checks, k)` says check k is the first to fail. A raise leaves
  the gas the code had when it raised. When every check passes, the call
  either rejects (insufficient funds or stack too deep: the child gas comes
  back and 0 is pushed) or defers the message and pushes 1.
- `CallCode` and `DelegateCall` are `InProcessCall`, the model of
  `BaseCall.__call__`. The child's outcome (success, revert or burn) and its
  unused gas are a nondeterministic choice.
- `StaticCall` raises `AttemptedToAccessExternalStorage` before any gas is
  charged.

The gas rules follow the class hierarchy.

- Fork `"Frontier"` uses `BaseCall.compute_msg_gas` (`FlatMsgGas`).
- `"EIP150"` and later forks use `compute_eip150_msg_gas` (`EIP150MsgGas`,
  with `MaxChildGasEIP150`).
- `"EIP161"` and `"Byzantium"` change the new-account rule (`CallExtraGas`).
- `SurrogateCall` derives from the base `Call`, so it always uses the flat
  rule and the Frontier new-account rule.
- DELEGATECALL on the flat rule forwards exactly the requested gas.

Memory, stack and call data are abstracted to the gas that memory extension
costs.

### Applier

The state of `Applier`:

- `block`: the block's send transactions, each `[comp, nonce, payload]`.
- `receives`: the receive computations. Each holds `hasData`, `isError`
  and `msgs`.
- `stateNonce`: the chain's nonce.
- `counter`: `current_nonce_for_computation_calls`.
- `synthesized`: `computation_call_send_transactions`.
- `sendList`: the list executed.
- `pc`, `i` and `j`: the position in the two loops.

The actions follow the code in order:

1. `ApplyReceiveTransactions`.
2. `ScanReceiveComputation`: one iteration of the outer loop. It computes
   the counter lazily, and the separation inside the nonce derivation may
   raise.
3. `EmitComputationCallTx`: one iteration of the inner loop, with
   `validate_create_call`.
4. `ApplySendTransactions`: lines 209-217.
5. `ValidateComputationCallTxs`.

A transaction's fields other than `created_by_computation` and the nonce
are abstracted to one payload value. The validation compares everything but
the signature, so the payload stands for exactly what it compares.

`separate_normal_transactions_and_computation_calls` is modelled by where
it cuts the list. `FirstComputationCall` is the position of the first
computation call, or one past the end. `NormalTxs` is the list before it
and `ComputationTxs` the rest. The code's loop files each transaction by
kind and raises on a normal transaction after a call. So on every list
it returns for (`Ordered`), the two forms agree, and the model reads the
separation only under `Ordered`. `MC_Applier` checks the agreement on
every block of the instance against the filter form (`SelectSeq`), in the
assumption `SeparationMatchesLoop`. The cut form is the one TLAPS can
reason about.

`ApplierInputsAssumption` gives the inputs their types: a block is a list
of transactions, and a receive computation carries call messages whose
payloads are in `Payloads`.

### Synthesis

`Synthesis` is the abstract specification of what the applier promises
about the transactions it synthesizes. It has no loops. In one step it
either fails, or it outputs the list `Expected`. That list has one
computation-call transaction for each external call message of the
receive computations that carried data and did not err. The order is
discovery order. The nonces count up from `StartNonce`.

`StartNonce` reads spec section 4.2a the way the code does:

- an empty send list starts at the state nonce;
- otherwise it starts one past the last normal transaction;
- a list of computation calls only starts at its first nonce.

The spec's wording leaves the last case open. Finding 3 shows what
follows from that reading.

`Applier` maps onto it as follows. `SynthPhase` is `"running"` while the
applier is in its loops, `"done"` at `"applied"` or `"valid"`, and
`"rejected"` otherwise. `SynthOut` is `synthesized` once the applier is
done.

The abstract `Spec` takes weak fairness of `Finish` only. Fairness of its
whole `Next` would force a `Fail` after `"done"`. The concrete `FairSpec`
takes `WF_vars(Next)`. The code justifies that: `apply_all_transactions`
is one thread with no waits, and it always moves to its next step.

### HlsRpc

A handler runs without interruption from one await to the next, so each
action of `HlsRpc` is one such segment. Other calls and the node run in
between. The state of `HlsRpc`:

- `head`: the canonical head number of every chain.
- `balance` and `receivable`: each account's balance and the value of its
  receivable transactions, in whole ether.
- `importQueue`: the `NewBlockEvent`s broadcast and not yet imported, in
  order.
- `faucetReq`: each `getFaucet` call. It records its label (`pc`),
  `chain_address`, `total_receivable`, and the faucet head that its
  `chain_object` was made on (line 733).
- `rawReq`: each `sendRawBlock` call, with its label and its block.

The actions of `getFaucet`:

- `FaucetCall`: the call starts and awaits the sync stage.
- `FaucetSynced`: the sync and configuration checks, the faucet's pause
  check, then `total_receivable` is summed and the call awaits the gas
  price.
- `FaucetGrant`: the cap check on the balance now plus the receivables
  summed before the await. On success a grant is queued, built on the head
  read at line 733 (`GrantBlock`).

The actions of `sendRawBlock`:

- `RawCall`: the timestamp window (`inWindow`), the canonical-head check
  and the parent check, then the sync-stage await.
- `RawSynced`: the sync check, then the queue-length await.
- `RawQueueChecked`: the queue-length check and the local minimum gas,
  then the network gas price await.
- `RawBroadcast`: the network gas check, then the broadcast.

`RawFail` and `FaucetFail` model the `BaseRPCError`s.

The node is environment; its code is not in this repository.

- `ImportBlock` takes the head of the queue. It imports the block if the
  block extends its chain's head and, for a grant, if the faucet can pay.
  Otherwise it drops the block.
- `PeerBlock` is a user's block that arrives from a peer and receives the
  user's receivables.
- A grant moves `Grant` from the faucet's balance into the user's
  receivable. A receive block moves the user's receivable into the user's
  balance.

Gas prices, timestamps and signatures are abstracted to the branch they
choose. The block is abstracted to its chain, its number and what it moves.

## Runs

| Run | cfg | Expect | Checks |
|---|---|---|---|
| callopcodes_gas | `MC_CallOpcodes.cfg` | pass | `GasAccounted`, `SixtyFourthRule` |
| callopcodes_overcommit | `MC_CallOpcodes_overcommit.cfg` | violation | `DeferredValueCovered` |
| applier_validation | `MC_Applier.cfg` | pass | `ValidatedExecutionMatchesBlock`, `ValidatedNoncesContinueNormalTxs` |
| applier_ordering | `MC_Applier_ordering.cfg` | violation | `AppliedSendListOrdered` |
| applier_nonce | `MC_Applier_nonce.cfg` | violation | `ValidatedNoncesFollowChain` |
| applier_synthesis | `MC_Applier_synthesis.cfg` | pass | `SynthesisRefined` |
| hlsrpc_faucet | `MC_HlsRpc.cfg` | pass | `FaucetCapRespected` |
| hlsrpc_stale_head | `MC_HlsRpc_race.cfg` | violation | `RawBroadcastExtendsHead` |

- **GasAccounted**: `gas + deferredGas <= msg.gas`. The CALL family never
  mints gas. This is broken by a stipend given without its GAS_CALLVALUE
  fee, or by child gas returned that was never charged.
- **SixtyFourthRule** (an action property): on the EIP150 forks, a
  deferred CALL's gas is at most 63/64 of what was left after the extra gas,
  plus the stipend.
- **ValidatedExecutionMatchesBlock**: a block that passes validation
  executed exactly its own send list.
- **ValidatedNoncesContinueNormalTxs**: when the block's normal
  transactions take the chain's next nonces, the executed send list takes
  consecutive nonces from the chain's nonce.
- **SynthesisRefined**: `FairSpec` implements `Synthesis!Spec` under the
  mapping above. The applier synthesizes exactly the expected list and
  never changes it afterwards. Every run also ends, in `"done"` or in
  `"rejected"`.
- **FaucetCapRespected**: every user's balance plus receivable stays
  within `Cap + Grant`. `getFaucet` passes a user at exactly the cap, and
  the grant then adds one. Two concurrent calls for one user may both pass
  the cap check before either grant is imported. The cap still holds
  because both grants are built on the same faucet head, so the node
  imports at most one of them.
- **RawBroadcastExtendsHead** (an action property): `sendRawBlock` only
  broadcasts a block that extends its chain's head.

Each property of a passing run has a mutant in `PROJECT.json`: an operator
defined just before the definition it replaces, which makes the property
fail. The mutants are:

- a stipend added whether or not value moves;
- the 63/64 cap left out;
- the count check of the validation dropped;
- the next nonce off by one;
- the computation-call counter started from the state nonce instead of
  the block's nonces;
- the faucet's queue block rebuilt on the faucet head at signing time
  (`GrantBlockAtSigning`). Then two grants built one after the other
  import one after the other, and the cap breaks.

### Bounds

**MC_CallOpcodes**

- Accounts: three model values. One exists, one exists but is empty, one
  is absent. This covers every branch of both new-account rules.
- Forks: all four.
- Start gas: 30000 and 80000.
- Gas requests: 21000 and 79000. These are below and above the 63/64 cap,
  and below and above the gas left.
- Values: 0, 60 and 150, against a balance of 100.
- Memory costs: 0 and 40000. 40000 makes the memory check fail.
- Depths: 0 and 1024. 1024 is the stack limit.
- Contexts: every receive, execute-on-send and surrogate flag.
- `MaxOps = 2`: two opcodes per computation. This is what an over-commit
  or a gas leak across opcodes needs.
- Static contexts: only `FALSE`. Helios never creates a static child,
  because STATICCALL raises.
- The run reaches 374,907 states in about 30 seconds.

**MC_Applier**

- Blocks: every send list of up to three transactions over normal and
  computation-call kinds.
  - Normal transactions take consecutive nonces from the state nonce 3.
  - Computation calls take nonces 3 to 5 and one of two payloads.
- Receive results: lists of up to two receive computations. They are drawn
  from a set that has every branch of the loop: no data, an error, no
  messages, one or two call messages, and good and bad creates.
- The run starts from 44,400 initial states and reaches 250,694 states in
  about 3 seconds.

**MC_HlsRpc**

- Chains: the faucet and two users. The users start with 4 or 5 ether,
  the cap is 5 and a grant is 1, so a single grant reaches the bound.
- The faucet starts with 4 ether and pauses at 2, so two grants can be
  imported one after the other. A user at 4 who got the first grant is at
  the cap, so the cap check at line 756 is what refuses the second call.
  A mutant without that check breaks `FaucetCapRespected`. After two
  grants, the next call sees the pause.
- Two `getFaucet` calls, which is what a double grant needs. They are
  symmetric. One `sendRawBlock` call.
- `MaxImportQueue = 1`, so the queue-length check can fail.
- Block numbers up to `MaxHeight = 2`, so a peer block can overtake a raw
  block.
- The passing run reaches 86,932 distinct states.

`CHECK_DEADLOCK FALSE` is set in all of these cfgs.

- A computation stops after its opcodes.
- `apply_all_transactions` ends in `"valid"` or `"rejected"`.

- The RPC calls end in `"done"` or `"error"`, and no new call starts.

None of these systems is meant to run forever. The HlsRpc properties are
safety properties, so no fairness is assumed there.

## Findings

1. **Deferred value is not reserved** (`call.py:228`). Each CALL compares
   its value with the balance but debits nothing. Two CALLs of 60 against a
   balance of 100 both succeed (`DeferredValueCovered` is violated). The
   shortfall surfaces only when the computation-call transactions run.
2. **Ordering is checked only when calls were synthesized**
   (`photon/__init__.py:209-214`). A block whose normal transaction follows
   a computation call is executed as it is (`AppliedSendListOrdered` is
   violated). The later validation rejects it, but only after it ran.
3. **The nonce comes from the block itself** (`photon/__init__.py:289`).
   For a block of computation calls only, the first nonce is the block's
   own. The validation therefore accepts nonces the chain never reached
   (`ValidatedNoncesFollowChain` is violated). Whether such a block is
   rejected depends on the per-transaction nonce check, which is outside
   `src/`.

4. **`sendRawBlock`'s head check goes stale** (`hls.py:508`). The
   handler refuses a block that would replace a canonical block, and then
   awaits the event bus three times. It broadcasts the block afterwards
   without looking again. A peer block imported meanwhile makes it
   broadcast a block that replaces the new head, and it returns `True`
   (`RawBroadcastExtendsHead` is violated by RawCall, PeerBlock,
   RawBroadcast).

A latent defect is not reachable in Helios, so no run shows it.
`StaticCall.get_call_params` returns 11 items where `Call.__call__` unpacks
12, and calls `stack_pop_ints()` without `num_items`. `StaticCallHelios`
overrides `__call__`, so this code never runs.

## Proofs

`CallOpcodes_proofs` proves three theorems for every value of the
constants, under `GasConstantsAssumption`:

- `TypeCorrect`: `Spec => []TypeOK`. This includes that every deferred
  message is a well-formed `DeferredMsgs` record.
- `GasNeverMinted`: `Spec => []GasAccounted`.
- `SixtyFourthRuleHolds`: `Spec => SixtyFourthRule`. This is an action
  property, proved from `Inv` step by step.

`GasConstantsAssumption` requires the following:

- The gas constants and the operand sets are natural numbers.
- `GAS_CALLSTIPEND <= GAS_CALLVALUE`.
- The static flags are Booleans.
- The forks are the four rule sets.

The inductive invariant is `Inv == TypeOK /\ GasAccounted`. `GasAccounted`
alone is not inductive, because it needs the gas values to be naturals. The
argument rests on a few lemmas:

- `CallExtraGasCoversStipend` and `FlatMsgGasCovered` /
  `EIP150MsgGasCovered` show that every gas rule returns a child gas no
  larger than the fee it charges. A stipend is added only when value moves,
  and then the fee includes `GAS_CALLVALUE >= GAS_CALLSTIPEND`.
- `RaiseInv`: an opcode that raises keeps at most the gas it found. Each
  check's gas is `gas`, `gas - base` or `gas - base - mem`, and the earlier
  checks that passed make these naturals.
- `SettleInv`: an opcode that passes its checks either gets back none or
  all of the child gas, or moves the child gas into `deferredGas`.
- `FeeLeavesRoom` gives the arithmetic that joins these.
- `DeferredCallInv` and `InProcessCallInv` combine them for the two opcode
  bodies.
- `NextInv` splits the step by opcode.

The argument for `SixtyFourthRuleHolds`:

- Only a CALL appends a message whose code address is `NoAddress`.
  SURROGATECALL names an account, and the other opcodes leave
  `externalMsgs` alone (`InProcessCallKeepsMsgs`). The typing of
  `externalMsgs` in `TypeOK` is what makes "the list grew by one" false
  for those steps.
- For a CALL, the checks that passed give `extra <= avail <= gas`.
- `EIP150MsgGasCapped` bounds the child gas by
  `max_child_gas_eip150(avail - extra)` plus the stipend.
- `MaxChildMonotone` carries that bound to `gas - extra`.

`HlsRpc_proofs` proves `FaucetCapHolds`: `Spec => []FaucetCapRespected`,
for any number of users and concurrent calls, under `HlsAssumption`. That
assumption says:

- The amounts are naturals.
- Users start within the cap.
- The faucet is not a user.
- There is at least one user.

`FaucetCapRespected` alone is not inductive. A call between its awaits
may hold a stale `total_receivable`, and a queued grant may not have been
imported yet. The inductive invariant `IInv` adds four conjuncts:

- `TypeOK`.
- `QueueTyped`: a queued grant is on the faucet's chain, and a receive
  block is on a user's chain.
- `LiveGrantsWithinCap`: no queued grant is numbered past
  `head[Faucet] + 1`. A grant numbered `head[Faucet] + 1`, the only kind
  the node can still import, goes to a user whose holdings are within
  `Cap`.
- `PendingGrantsSeeReceivables`: a call between its awaits was built on a
  head no later than the current one. If it was built on the current head,
  it summed at least the receivables its user has now.

The proof has one lemma per kind of step:

- `GrantBroadcastStep`: the new grant is numbered `parent + 1`. If it is
  the next faucet block, the cap check saw the current holdings.
- `GrantImportStep`: importing a grant moves the faucet head on. Every
  other queued grant, and every call built on the old head, becomes dead.
- `ReceiveStep`, `DropStep`, `FaucetReqStep` and `RawStep`: steps that do
  not change any holdings.
- `NextIInv` combines them.

The proof also rests on an assumption about code outside this repository:
the queue block is built on the head that `chain_object` read at line 733.
The mutant `GrantBlockAtSigning` shows that the cap depends on it.

`Applier_proofs` proves three theorems for every block, list of receive
computations and chain nonce, under `ApplierAssumption` and
`ApplierInputsAssumption`:

- `ExecutionMatchesBlockHolds`: `Spec => []ValidatedExecutionMatchesBlock`.
- `NoncesContinueHolds`: `Spec => []ValidatedNoncesContinueNormalTxs`.
- `ApplierTypeCorrect`: `Spec => []TypeOK`.

Neither property is inductive: both talk about `"valid"` only, and what
makes them true is set up three steps earlier. The inductive invariant
`ApplierInv` adds the following:

- The types, including the receive computations, and where the loop
  indices can be. In `"emit"`, `i` and `j` point at a message and the
  counter is set.
- The counter is unset only while nothing has been synthesized.
- Once set, the counter equals the start nonce (`StartNonce`, what
  `get_nonce_for_computation_calls` returns for the block) plus the number
  of synthesized calls. The synthesized calls take consecutive nonces from
  that start nonce.
- Once the send list is chosen, it is the block when nothing was
  synthesized, and otherwise the block's normal transactions followed by
  the synthesized calls.
- A validated block is `Ordered`, and its computation calls equal the
  synthesized ones.

`ApplierInv` was model-checked on `MC_Applier` (250,694 states) before it
was proved. The proof rests on lemmas about the separation:

- `FirstComputationCallProps`: the position exists. It is the least
  element of a non-empty set of naturals, by `WFMin` and
  `NatLessThanWellFounded`.
- `SeparationConcat`: the normal transactions followed by the computation
  calls give back the list. This uses `ConcatAdjacentSubSeq`.
- `OrderedEndsWithCall`: an ordered list with a computation call ends with
  one, which is the only thing `contains_computation_calls` reads.
- `NonceAfterConsecutiveNormals`: for such a list, when its normal
  transactions are consecutive from `n`, the calls start at
  `n + Len(NormalTxs)`.
- `SameCallsEqual`, `ConsecutiveAppend` and `ConsecutiveConcat`.

There is one step lemma per action. `ValidatedExecutionMatchesBlock`
follows from `SeparationConcat` and `SameCallsEqual`.
`ValidatedNoncesContinueNormalTxs` also needs `NonceAfterConsecutiveNormals`
and `ConsecutiveConcat`.

`HlsRpc_proofs` also proves `HlsRpcTypeCorrect`: `Spec => []TypeOK`, from
the same `IInv`.

What is only model-checked:

- The refinement `SynthesisRefined`. `Synthesis` collects the messages
  with `FlattenSeq`, a recursive function. Showing that the loops build
  the same list needs its unfolding at every length, which is induction
  over data. The library's theorems for that take an operator parameter,
  which the installed provers cannot instantiate.
- Termination of the applier, which is part of `SynthesisRefined`.
  Liveness is out of TLAPS's reach.
- The violations.

## Not modelled yet, and the plan

Later work will add the following:

- **Receivable ledger** (`save_recievable_transactions`,
  `apply_receipt_to_header`): duplicate receivable entries, refund entries,
  and the receipt order (send-then-receive) against the header order
  (receive-then-send).
- **Producer and validator composition**: a queue block built by one node
  (synthesized transactions appended) and imported by another. The property
  is that an honest block is accepted.
- **The other RPC handlers**: read-only queries and formatting.

Out of TLC's and TLAPS's reach, or of no interest:

- Hashing and signatures.
- RLP encoding.
- Process bootstrap.
- The proof-of-work helper.
- Event data classes.
- The node's block import queue, outside `src/`. The queue-length check of
  `sendRawBlock` (line 536) is stale in the same way as its head check. No
  bound of the node's queue is in this repository to state a property
  against.
- The tests.
