----------------------------- MODULE CallOpcodes -----------------------------
(***************************************************************************)
(* The CALL-family opcodes of the Helios VM (src/hvm/vm/logic/call.py),    *)
(* executed one after the other by a single computation.                   *)
(*                                                                         *)
(*  - CALL and SURROGATECALL (Call.__call__) never run the callee: the     *)
(*    child message is handed back to the VM (apply_external_call_message) *)
(*    and later becomes a computation-call send transaction.               *)
(*  - CALLCODE and DELEGATECALL (BaseCall.__call__) run the child          *)
(*    computation in process; its outcome is a nondeterministic choice.    *)
(*  - STATICCALL (StaticCallHelios) always raises.                         *)
(*                                                                         *)
(* Gas rules follow the class hierarchy: fork "Frontier" is the base       *)
(* classes, "EIP150" adds the 63/64 cap, "EIP161" the dead-account rule    *)
(* for CALL and "Byzantium" (CallByzantium, CallHelios) the write          *)
(* protection.  SurrogateCall derives from the base Call, so it always     *)
(* uses the flat gas rule and the Frontier new-account rule.               *)
(*                                                                         *)
(* Memory, stack and call data are abstracted to the gas that extending    *)
(* memory costs.  An exception ends the computation: status becomes the    *)
(* exception's name and no further opcode runs.                            *)
(***************************************************************************)
EXTENDS Integers, Sequences

CONSTANTS
    GasCallStipend,     \* constants.GAS_CALLSTIPEND
    GasCallValue,       \* constants.GAS_CALLVALUE
    GasNewAccount,      \* constants.GAS_NEWACCOUNT
    GasTx,              \* constants.GAS_TX, the least gas of a CALL child
    CallBaseCost,       \* the opcode's gas_cost (GAS_CALL_EIP150)
    StackDepthLimit,    \* constants.STACK_DEPTH_LIMIT
    Accounts,           \* addresses a call may name
    ExistingAccounts,   \* account_db.account_exists
    EmptyAccounts,      \* account_db.account_is_empty
    NoAddress,          \* code_address None
    Balance,            \* balance of this_chain_address
    Forks,              \* the gas-rule sets the computation may run under
    StartGas,           \* possible msg.gas of the computation
    Depths,             \* possible msg.depth of the computation
    StaticContexts,     \* possible msg.is_static of the computation
    GasRequests,        \* gas operands popped from the stack
    Values,             \* value operands popped from the stack
    MemoryCosts,        \* gas that extend_memory may consume
    MaxOps              \* bound on the opcodes one computation executes

ASSUME GasConstantsAssumption ==
    /\ {GasCallStipend, GasCallValue, GasNewAccount, GasTx,
        CallBaseCost, StackDepthLimit, Balance, MaxOps} \subseteq Nat
    /\ GasCallStipend <= GasCallValue
    /\ StartGas \subseteq Nat /\ Depths \subseteq Nat
    /\ GasRequests \subseteq Nat /\ Values \subseteq Nat
    /\ MemoryCosts \subseteq Nat
    /\ StaticContexts \subseteq BOOLEAN
    /\ NoAddress \notin Accounts
    /\ Forks \subseteq {"Frontier", "EIP150", "EIP161", "Byzantium"}

VARIABLES
    fork,          \* gas-rule set of the running VM
    ctx,           \* msg and transaction_context flags of the computation
    startGas,      \* msg.gas the computation started with
    gas,           \* computation.get_gas_remaining()
    status,        \* "running" or the name of the exception raised
    results,       \* the 0/1 results pushed on the stack, in order
    externalMsgs,  \* messages passed to apply_external_call_message
    children,      \* child messages run in process by apply_child_computation
    deferredGas,   \* gas attached to the messages of externalMsgs, summed
    ops            \* opcodes executed so far

vars == <<fork, ctx, startGas, gas, status, results, externalMsgs,
          children, deferredGas, ops>>

Contexts == [isReceive: BOOLEAN, txExecuteOnSend: BOOLEAN,
             isSurrogateCall: BOOLEAN, isStatic: StaticContexts,
             depth: Depths, value: Values]

\* The messages apply_external_call_message receives.
DeferredMsgs == [gas: Nat, value: Values, to: Accounts,
                 codeAddress: Accounts \cup {NoAddress},
                 executeOnSend: BOOLEAN, isStatic: StaticContexts]

Errors == {"OutOfGas", "WriteProtection", "ForbiddenOperationForExecutingOnSend",
           "ForbiddenOperationForSurrogateCall", "AttemptedToAccessExternalStorage"}

-----------------------------------------------------------------------------
(* Gas rules.                                                              *)

\* max_child_gas_eip150
MaxChildGasEIP150(g) == g - (g \div 64)

IsEIP150(f) == f \in {"EIP150", "EIP161", "Byzantium"}

ValueFee(value) == IF value # 0 THEN GasCallValue ELSE 0

\* Call.compute_msg_extra_gas (Frontier, EIP150) and CallEIP161's override
CallExtraGas(f, to, value) ==
    LET newAccount ==
          IF f \in {"EIP161", "Byzantium"}
          THEN (to \notin ExistingAccounts \/ to \in EmptyAccounts) /\ value # 0
          ELSE to \notin ExistingAccounts
    IN  ValueFee(value) + (IF newAccount THEN GasNewAccount ELSE 0)

\* Mutant of FlatMsgGas: the stipend is added whether or not value moves.
FlatMsgGasStipendAlways(req, extra, value, stipend) ==
    <<req + stipend, req + extra>>

\* BaseCall.compute_msg_gas: <<child_msg_gas, total_fee>>
FlatMsgGas(req, extra, value, stipend) ==
    <<req + (IF value # 0 THEN stipend ELSE 0), req + extra>>

\* Mutant of EIP150MsgGas: the requested gas is forwarded without the cap.
EIP150MsgGasUncapped(avail, req, extra, value, stipend) ==
    <<req + (IF value # 0 THEN stipend ELSE 0), req + extra>>

\* compute_eip150_msg_gas, for remaining gas avail (avail >= extra)
EIP150MsgGas(avail, req, extra, value, stipend) ==
    LET g == IF req <= MaxChildGasEIP150(avail - extra)
             THEN req ELSE MaxChildGasEIP150(avail - extra)
    IN  <<g + (IF value # 0 THEN stipend ELSE 0), g + extra>>

\* The checks an opcode makes, in the order the code makes them: a check is
\* [fails |-> ..., err |-> exception, gas |-> gas left when it raises].
\* Check k raises when it fails and every earlier one passed.
RaisesAt(checks, k) ==
    checks[k].fails /\ \A l \in 1..(k - 1) : ~checks[l].fails
Passes(checks) == \A k \in 1..Len(checks) : ~checks[k].fails

\* An opcode raises: the computation stops with the exception.
Raise(c) ==
    /\ status' = c.err
    /\ gas' = c.gas
    /\ UNCHANGED <<results, externalMsgs, children, deferredGas>>

\* The pre-call check on funds and depth failed: return the child's gas
\* and push 0 (both BaseCall.__call__ and Call.__call__).
Reject(afterFee, childGas) ==
    /\ gas' = afterFee + childGas
    /\ results' = Append(results, 0)
    /\ UNCHANGED <<status, externalMsgs, children, deferredGas>>

StackTooDeep == ctx.depth + 1 > StackDepthLimit

Running == status = "running" /\ ops < MaxOps

-----------------------------------------------------------------------------
(* CALL and SURROGATECALL: Call.__call__.  surrogate selects the           *)
(* SurrogateCall parameters and gas rules, codeAddress and executeOnSend   *)
(* are its extra operands.                                                 *)
DeferredCall(surrogate, req, value, to, mem, codeAddress, executeOnSend) ==
    LET afterBase == gas - CallBaseCost
        avail     == afterBase - mem
        extra     == IF surrogate THEN CallExtraGas("Frontier", to, value)
                                  ELSE CallExtraGas(fork, to, value)
        eip150    == ~surrogate /\ IsEIP150(fork)
        msgGas    == IF eip150
                     THEN EIP150MsgGas(avail, req, extra, value, GasCallStipend)
                     ELSE FlatMsgGas(req, extra, value, GasCallStipend)
        childGas  == msgGas[1]
        fee       == msgGas[2]
        checks    == <<
          [fails |-> gas < CallBaseCost, err |-> "OutOfGas", gas |-> gas],
          [fails |-> ~surrogate /\ fork = "Byzantium" /\ ctx.isStatic /\ value # 0,
           err |-> "WriteProtection", gas |-> afterBase],
          [fails |-> afterBase < mem, err |-> "OutOfGas", gas |-> afterBase],
          [fails |-> ~ctx.isReceive /\ ctx.txExecuteOnSend,
           err |-> "ForbiddenOperationForExecutingOnSend", gas |-> avail],
          [fails |-> ctx.isSurrogateCall,
           err |-> "ForbiddenOperationForSurrogateCall", gas |-> avail],
          [fails |-> eip150 /\ avail < extra, err |-> "OutOfGas", gas |-> avail],
          [fails |-> childGas < GasTx, err |-> "OutOfGas", gas |-> avail],
          [fails |-> avail < fee, err |-> "OutOfGas", gas |-> avail] >>
    IN  \/ \E k \in 1..Len(checks) : RaisesAt(checks, k) /\ Raise(checks[k])
        \/ /\ Passes(checks)
           /\ UNCHANGED status
           /\ \/ /\ value > Balance \/ StackTooDeep
                 /\ Reject(avail - fee, childGas)
              \/ /\ value <= Balance /\ ~StackTooDeep
                 /\ gas' = avail - fee
                 /\ externalMsgs' = Append(externalMsgs,
                        [gas |-> childGas, value |-> value, to |-> to,
                         codeAddress |-> codeAddress,
                         executeOnSend |-> executeOnSend,
                         isStatic |-> ctx.isStatic])
                 /\ deferredGas' = deferredGas + childGas
                 /\ results' = Append(results, 1)
                 /\ UNCHANGED children

\* CALL (CallHelios, and Call/CallEIP150/CallEIP161 in the earlier forks)
Call ==
    /\ Running
    /\ \E req \in GasRequests, value \in Values, to \in Accounts, mem \in MemoryCosts :
          DeferredCall(FALSE, req, value, to, mem, NoAddress, FALSE)
    /\ ops' = ops + 1
    /\ UNCHANGED <<fork, ctx, startGas>>

\* SURROGATECALL
SurrogateCall ==
    /\ Running
    /\ \E req \in GasRequests, value \in Values, to \in Accounts, mem \in MemoryCosts,
          codeAddress \in Accounts, executeOnSend \in BOOLEAN :
          DeferredCall(TRUE, req, value, to, mem, codeAddress, executeOnSend)
    /\ ops' = ops + 1
    /\ UNCHANGED <<fork, ctx, startGas>>

-----------------------------------------------------------------------------
(* CALLCODE and DELEGATECALL: BaseCall.__call__.  Neither transfers value  *)
(* (should_transfer_value is False), so only the depth check can reject.   *)
(* The child computation ends in success, in a revert (gas returned) or in *)
(* an error that burns its gas, and leaves 0 or all of its gas unused.     *)
InProcessCall(op, req, value, mem, extra, stipend) ==
    LET afterBase == gas - CallBaseCost
        avail     == afterBase - mem
        msgGas    == IF IsEIP150(fork)
                     THEN EIP150MsgGas(avail, req, extra, value, stipend)
                     ELSE IF op = "DELEGATECALL" THEN <<req, req>>
                     ELSE FlatMsgGas(req, extra, value, stipend)
        childGas  == msgGas[1]
        fee       == msgGas[2]
        checks    == <<
          [fails |-> gas < CallBaseCost, err |-> "OutOfGas", gas |-> gas],
          [fails |-> afterBase < mem, err |-> "OutOfGas", gas |-> afterBase],
          [fails |-> IsEIP150(fork) /\ avail < extra, err |-> "OutOfGas", gas |-> avail],
          [fails |-> avail < fee, err |-> "OutOfGas", gas |-> avail] >>
    IN  \/ \E k \in 1..Len(checks) : RaisesAt(checks, k) /\ Raise(checks[k])
        \/ /\ Passes(checks)
           /\ UNCHANGED status
           /\ \/ /\ StackTooDeep
                 /\ Reject(avail - fee, childGas)
              \/ /\ ~StackTooDeep
                 /\ children' = Append(children,
                        [op |-> op, gas |-> childGas, value |-> value])
                 /\ \E outcome \in {"success", "revert", "burn"},
                       unused \in {0, childGas} :
                       /\ results' = Append(results, IF outcome = "success" THEN 1 ELSE 0)
                       /\ gas' = avail - fee + (IF outcome = "burn" THEN 0 ELSE unused)
                 /\ UNCHANGED <<externalMsgs, deferredGas>>

\* CALLCODE (CallCode, CallCodeEIP150): value charged GAS_CALLVALUE, stipend given
CallCode ==
    /\ Running
    /\ \E req \in GasRequests, value \in Values, mem \in MemoryCosts :
          InProcessCall("CALLCODE", req, value, mem, ValueFee(value), GasCallStipend)
    /\ ops' = ops + 1
    /\ UNCHANGED <<fork, ctx, startGas>>

\* DELEGATECALL (DelegateCall, DelegateCallEIP150): msg.value, no fee, no stipend
DelegateCall ==
    /\ Running
    /\ \E req \in GasRequests, mem \in MemoryCosts :
          InProcessCall("DELEGATECALL", req, ctx.value, mem, 0, 0)
    /\ ops' = ops + 1
    /\ UNCHANGED <<fork, ctx, startGas>>

\* STATICCALL (StaticCallHelios): raises before charging anything
StaticCall ==
    /\ Running
    /\ Raise([err |-> "AttemptedToAccessExternalStorage", gas |-> gas])
    /\ ops' = ops + 1
    /\ UNCHANGED <<fork, ctx, startGas>>

-----------------------------------------------------------------------------
Init ==
    /\ fork \in Forks
    /\ ctx \in Contexts
    /\ startGas \in StartGas
    /\ gas = startGas
    /\ status = "running"
    /\ results = <<>>
    /\ externalMsgs = <<>>
    /\ children = <<>>
    /\ deferredGas = 0
    /\ ops = 0

Next == Call \/ SurrogateCall \/ CallCode \/ DelegateCall \/ StaticCall

Spec == Init /\ [][Next]_vars

-----------------------------------------------------------------------------
(* Properties.                                                             *)

TypeOK ==
    /\ fork \in Forks
    /\ ctx \in Contexts
    /\ startGas \in Nat
    /\ gas \in Nat
    /\ status \in {"running"} \cup Errors
    /\ results \in Seq({0, 1})
    /\ externalMsgs \in Seq(DeferredMsgs)
    /\ deferredGas \in Nat
    /\ ops \in 0..MaxOps

\* Gas is never minted by the CALL family: what the computation has left plus
\* the gas attached to every message it deferred to a computation-call
\* transaction never exceeds msg.gas.  It fails if a stipend or a child's
\* unused gas comes back without its GAS_CALLVALUE fee having been charged
\* (compute_msg_gas, compute_eip150_msg_gas, the return_gas calls).
GasAccounted == gas + deferredGas <= startGas

\* A step that defers a CALL message (a SURROGATECALL names a code address)
\* under EIP150 or later forwards at most all but one 64th of the gas left
\* after the extra fee (compute_eip150_msg_gas), plus the stipend.
CallWithinSixtyFourth ==
    (IsEIP150(fork) /\ Len(externalMsgs') = Len(externalMsgs) + 1
     /\ externalMsgs'[Len(externalMsgs')].codeAddress = NoAddress)
    => LET m == externalMsgs'[Len(externalMsgs')]
       IN  m.gas <= MaxChildGasEIP150(gas - CallExtraGas(fork, m.to, m.value))
                    + (IF m.value # 0 THEN GasCallStipend ELSE 0)

\* Under EIP150 and later, no CALL ever gives its child message more than
\* 63/64 of the gas its caller could spare (compute_eip150_msg_gas with
\* max_child_gas_eip150), whatever the caller asks for.
SixtyFourthRule == [][CallWithinSixtyFourth]_vars

\* The value of the deferred messages, summed.
DeferredValue ==
    LET sum[i \in 0..Len(externalMsgs)] ==
            IF i = 0 THEN 0 ELSE sum[i - 1] + externalMsgs[i].value
    IN  sum[Len(externalMsgs)]

\* The spec (4.1 step 5 and the scenario of 8) says a CALL whose value the
\* sender's balance cannot cover is rejected, and that after a successful
\* CALL of 50 from a balance of 100 the sender holds 50.  Call.__call__
\* compares each value with the balance alone and does not debit it, so the
\* messages it defers may together promise more than the balance.
DeferredValueCovered == DeferredValue <= Balance

=============================================================================
