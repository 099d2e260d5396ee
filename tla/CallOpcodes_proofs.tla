-------------------------- MODULE CallOpcodes_proofs --------------------------
(***************************************************************************)
(* Proofs about CallOpcodes for every value of the constants: the type     *)
(* invariant, and that the CALL family never mints gas (GasAccounted).     *)
(*                                                                         *)
(* The argument: every gas rule returns a child gas no larger than the fee *)
(* it charges, because a stipend is only added when value moves and a      *)
(* value transfer is charged GAS_CALLVALUE >= GAS_CALLSTIPEND.  An opcode  *)
(* that raises leaves at most the gas it found; one that rejects gives back *)
(* the child gas it charged as fee; one that defers moves the child gas    *)
(* from gas to deferredGas; one that runs a child gets back at most the     *)
(* child gas.  None of these raises gas + deferredGas.                     *)
(***************************************************************************)
EXTENDS CallOpcodes, TLAPS

Inv == TypeOK /\ GasAccounted

-----------------------------------------------------------------------------
(* The gas rules.                                                          *)

\* The value fee pays for the stipend.
LEMMA ValueFeeCoversStipend ==
    ASSUME NEW value \in Nat
    PROVE  /\ ValueFee(value) \in Nat
           /\ value # 0 => GasCallStipend <= ValueFee(value)
BY GasConstantsAssumption DEF ValueFee

\* So does the extra gas of a CALL, under any fork's rules.
LEMMA CallExtraGasCoversStipend ==
    ASSUME NEW f, NEW to, NEW value \in Nat
    PROVE  /\ CallExtraGas(f, to, value) \in Nat
           /\ value # 0 => GasCallStipend <= CallExtraGas(f, to, value)
BY ValueFeeCoversStipend, GasConstantsAssumption DEF CallExtraGas

\* BaseCall.compute_msg_gas never gives the child more than it charges.
LEMMA FlatMsgGasCovered ==
    ASSUME NEW req \in Nat, NEW extra \in Nat, NEW value \in Nat,
           NEW stipend \in Nat, value # 0 => stipend <= extra
    PROVE  /\ FlatMsgGas(req, extra, value, stipend)[1] \in Nat
           /\ FlatMsgGas(req, extra, value, stipend)[2] \in Nat
           /\ FlatMsgGas(req, extra, value, stipend)[1]
                 <= FlatMsgGas(req, extra, value, stipend)[2]
BY DEF FlatMsgGas

\* Neither does compute_eip150_msg_gas, when the extra gas is available.
LEMMA EIP150MsgGasCovered ==
    ASSUME NEW avail \in Nat, NEW req \in Nat, NEW extra \in Nat,
           NEW value \in Nat, NEW stipend \in Nat,
           extra <= avail, value # 0 => stipend <= extra
    PROVE  /\ EIP150MsgGas(avail, req, extra, value, stipend)[1] \in Nat
           /\ EIP150MsgGas(avail, req, extra, value, stipend)[2] \in Nat
           /\ EIP150MsgGas(avail, req, extra, value, stipend)[1]
                 <= EIP150MsgGas(avail, req, extra, value, stipend)[2]
BY DEF EIP150MsgGas, MaxChildGasEIP150

\* The gas left after the fee, plus the child gas, is at most the gas.
LEMMA FeeLeavesRoom ==
    ASSUME NEW avail \in Nat, NEW fee \in Nat, NEW childGas \in Nat,
           NEW g \in Nat, ~(avail < fee), childGas <= fee, avail <= g
    PROVE  avail - fee \in Nat /\ (avail - fee) + childGas <= g
OBVIOUS

-----------------------------------------------------------------------------
(* The opcodes preserve Inv.                                               *)

\* What every opcode step must establish: the step counter and the
\* constant parts are handled here, once.
LEMMA StepInv ==
    ASSUME Inv, Running, ops' = ops + 1, UNCHANGED <<fork, ctx, startGas>>,
           gas' \in Nat, status' \in {"running"} \cup Errors,
           results' \in Seq({0, 1}), deferredGas' \in Nat,
           externalMsgs' \in Seq(DeferredMsgs),
           gas' + deferredGas' <= startGas
    PROVE  Inv'
<1>1. ops' \in 0..MaxOps
  BY GasConstantsAssumption DEF Inv, TypeOK, Running
<1>2. QED
  BY <1>1, Zenon DEF Inv, TypeOK, GasAccounted

\* An opcode that raises with at most the gas it found keeps Inv.
LEMMA RaiseInv ==
    ASSUME Inv, Running, ops' = ops + 1, UNCHANGED <<fork, ctx, startGas>>,
           NEW c, c.gas \in Nat, c.gas <= gas, c.err \in Errors, Raise(c)
    PROVE  Inv'
<1>1. /\ gas \in Nat /\ startGas \in Nat /\ gas + deferredGas <= startGas /\ deferredGas \in Nat
      /\ results \in Seq({0, 1}) /\ externalMsgs \in Seq(DeferredMsgs)
  BY DEF Inv, TypeOK, GasAccounted
<1>2. /\ gas' \in Nat /\ gas' + deferredGas' <= startGas
      /\ status' \in {"running"} \cup Errors
      /\ results' \in Seq({0, 1}) /\ deferredGas' \in Nat
      /\ externalMsgs' \in Seq(DeferredMsgs)
  BY <1>1 DEF Raise
<1>3. QED
  BY <1>2, StepInv

\* An opcode that passes its checks keeps Inv: it charged fee, leaving
\* left, and then either pushes a result and gets back none or all of the
\* child gas, or defers the child gas to an external message.
LEMMA SettleInv ==
    ASSUME Inv, Running, ops' = ops + 1, UNCHANGED <<fork, ctx, startGas>>,
           NEW left \in Nat, NEW childGas \in Nat, left + childGas <= gas,
           NEW r \in {0, 1}, results' = Append(results, r), status' = status,
           externalMsgs' \in Seq(DeferredMsgs),
           \/ gas' \in {left, left + childGas} /\ deferredGas' = deferredGas
           \/ gas' = left /\ deferredGas' = deferredGas + childGas
    PROVE  Inv'
<1>1. /\ gas \in Nat /\ startGas \in Nat /\ gas + deferredGas <= startGas /\ deferredGas \in Nat
      /\ results \in Seq({0, 1}) /\ status \in {"running"} \cup Errors
  BY DEF Inv, TypeOK, GasAccounted
<1>2. results' \in Seq({0, 1})
  BY <1>1
<1>3. gas' \in Nat /\ deferredGas' \in Nat /\ gas' + deferredGas' <= startGas
  BY <1>1
<1>4. QED
  BY <1>1, <1>2, <1>3, StepInv, Zenon

\* CALL and SURROGATECALL (Call.__call__).
LEMMA DeferredCallInv ==
    ASSUME Inv, Running,
           NEW surrogate \in BOOLEAN, NEW req \in GasRequests,
           NEW value \in Values, NEW to \in Accounts, NEW mem \in MemoryCosts,
           NEW codeAddress \in Accounts \cup {NoAddress},
           NEW executeOnSend \in BOOLEAN,
           DeferredCall(surrogate, req, value, to, mem, codeAddress, executeOnSend),
           ops' = ops + 1, UNCHANGED <<fork, ctx, startGas>>
    PROVE  Inv'
<1> DEFINE afterBase == gas - CallBaseCost
           avail     == afterBase - mem
           extra     == IF surrogate THEN CallExtraGas("Frontier", to, value)
                                     ELSE CallExtraGas(fork, to, value)
           eip150    == ~surrogate /\ IsEIP150(fork)
           msgGas    == IF eip150
                        THEN EIP150MsgGas(avail, req, extra, value, GasCallStipend)
                        ELSE FlatMsgGas(req, extra, value, GasCallStipend)
           childGas  == msgGas[1]
           fee       == msgGas[2]
           checks    == <<
             [fails |-> gas < CallBaseCost, err |-> "OutOfGas", gas |-> gas],
             [fails |-> ~surrogate /\ fork = "Byzantium" /\ ctx.isStatic /\ value # 0,
              err |-> "WriteProtection", gas |-> afterBase],
             [fails |-> afterBase < mem, err |-> "OutOfGas", gas |-> afterBase],
             [fails |-> ~ctx.isReceive /\ ctx.txExecuteOnSend,
              err |-> "ForbiddenOperationForExecutingOnSend", gas |-> avail],
             [fails |-> ctx.isSurrogateCall,
              err |-> "ForbiddenOperationForSurrogateCall", gas |-> avail],
             [fails |-> eip150 /\ avail < extra, err |-> "OutOfGas", gas |-> avail],
             [fails |-> childGas < GasTx, err |-> "OutOfGas", gas |-> avail],
             [fails |-> avail < fee, err |-> "OutOfGas", gas |-> avail] >>
<1> USE GasConstantsAssumption
<1> HIDE DEF checks
<1>0. gas \in Nat /\ mem \in Nat /\ req \in Nat /\ value \in Nat
  BY DEF Inv, TypeOK
<1>9. externalMsgs \in Seq(DeferredMsgs) /\ ctx.isStatic \in StaticContexts
  BY DEF Inv, TypeOK, Contexts
<1>1. extra \in Nat /\ (value # 0 => GasCallStipend <= extra)
  BY <1>0, CallExtraGasCoversStipend DEF extra
<1>2. CASE \E k \in 1..Len(checks) : RaisesAt(checks, k) /\ Raise(checks[k])
  <2>1. PICK k \in 1..8 : RaisesAt(checks, k) /\ Raise(checks[k])
    BY <1>2 DEF checks
  <2>2. checks[k].gas \in Nat /\ checks[k].gas <= gas /\ checks[k].err \in Errors
    <3>1. k = 1 \/ k = 2 \/ k = 3 \/ k = 4 \/ k = 5 \/ k = 6 \/ k = 7 \/ k = 8
      OBVIOUS
    <3>2. /\ checks[1].fails <=> gas < CallBaseCost
          /\ checks[3].fails <=> afterBase < mem
      BY DEF checks
    <3>3. k >= 2 => afterBase \in Nat
      <4>1. k >= 2 => ~checks[1].fails
        BY <2>1 DEF RaisesAt
      <4>2. QED
        BY <1>0, <3>2, <4>1 DEF afterBase
    <3>4. k >= 4 => avail \in Nat
      <4>1. k >= 4 => ~checks[3].fails
        BY <2>1 DEF RaisesAt
      <4>2. QED
        BY <1>0, <3>2, <3>3, <4>1 DEF avail
    <3>6. afterBase <= gas /\ avail <= afterBase
      BY <1>0 DEF afterBase, avail
    <3>7. /\ checks[1].gas = gas
          /\ checks[2].gas = afterBase /\ checks[3].gas = afterBase
          /\ checks[4].gas = avail /\ checks[5].gas = avail
          /\ checks[6].gas = avail /\ checks[7].gas = avail
          /\ checks[8].gas = avail
      BY DEF checks
    <3>8. checks[k].err \in Errors
      <4>1. /\ checks[1].err = "OutOfGas" /\ checks[2].err = "WriteProtection"
            /\ checks[3].err = "OutOfGas"
            /\ checks[4].err = "ForbiddenOperationForExecutingOnSend"
            /\ checks[5].err = "ForbiddenOperationForSurrogateCall"
            /\ checks[6].err = "OutOfGas" /\ checks[7].err = "OutOfGas"
            /\ checks[8].err = "OutOfGas"
        BY DEF checks
      <4>2. QED
        BY <3>1, <4>1, Zenon DEF Errors
    <3>9. checks[k].gas \in Nat /\ checks[k].gas <= gas
      <4>1. CASE k = 1
        BY <1>0, <3>7, <4>1
      <4>2. CASE k \in 2..3
        <5>1. afterBase \in Nat /\ afterBase <= gas
          BY <1>0, <3>3, <3>6, <4>2
        <5>2. checks[k].gas = afterBase
          <6>1. k = 2 \/ k = 3
            BY <4>2
          <6>2. QED
            BY <3>7, <6>1, Zenon
        <5>3. QED
          BY <5>1, <5>2, Zenon
      <4>3. CASE k \in 4..8
        <5>1. avail \in Nat /\ avail <= gas
          BY <1>0, <3>3, <3>4, <3>6, <4>3
        <5>2. checks[k].gas = avail
          <6>1. k = 4 \/ k = 5 \/ k = 6 \/ k = 7 \/ k = 8
            BY <4>3
          <6>2. QED
            BY <3>7, <6>1, Zenon
        <5>3. QED
          BY <5>1, <5>2, Zenon
      <4>4. QED
        BY <4>1, <4>2, <4>3
    <3>5. QED
      BY <3>8, <3>9
  <2>3. QED
    BY <2>1, <2>2, RaiseInv, Zenon
<1>3. CASE Passes(checks) /\ UNCHANGED status
          /\ \/ /\ value > Balance \/ StackTooDeep
                /\ Reject(avail - fee, childGas)
             \/ /\ value <= Balance /\ ~StackTooDeep
                /\ gas' = avail - fee
                /\ externalMsgs' = Append(externalMsgs,
                       [gas |-> childGas, value |-> value, to |-> to,
                        codeAddress |-> codeAddress,
                        executeOnSend |-> executeOnSend,
                        isStatic |-> ctx.isStatic])
                /\ deferredGas' = deferredGas + childGas
                /\ results' = Append(results, 1)
                /\ UNCHANGED children
  <2>0. /\ ~(gas < CallBaseCost) /\ ~(afterBase < mem)
        /\ ~(eip150 /\ avail < extra) /\ ~(avail < fee)
    <3>1. \A l \in 1..8 : ~checks[l].fails
      BY <1>3 DEF Passes, checks
    <3>2. ~checks[1].fails /\ ~checks[3].fails /\ ~checks[6].fails /\ ~checks[8].fails
      <4>1. 1 \in 1..8 /\ 3 \in 1..8 /\ 6 \in 1..8 /\ 8 \in 1..8
        OBVIOUS
      <4>2. QED
        BY <3>1, <4>1, Zenon
    <3>3. /\ checks[1].fails <=> gas < CallBaseCost
          /\ checks[3].fails <=> afterBase < mem
          /\ checks[6].fails <=> (eip150 /\ avail < extra)
          /\ checks[8].fails <=> avail < fee
      BY DEF checks
    <3>4. QED
      BY <3>2, <3>3
  <2>1. afterBase \in Nat /\ avail \in Nat /\ avail <= gas
    BY <1>0, <2>0 DEF afterBase, avail
  <2>2. childGas \in Nat /\ fee \in Nat /\ childGas <= fee
    <3>1. CASE eip150
      <4>1. extra <= avail
        BY <1>1, <2>0, <2>1, <3>1
      <4>2. QED
        BY <1>0, <1>1, <2>1, <3>1, <4>1, EIP150MsgGasCovered DEF childGas, fee, msgGas
    <3>2. CASE ~eip150
      BY <1>0, <1>1, <3>2, FlatMsgGasCovered DEF childGas, fee, msgGas
    <3>3. QED
      BY <3>1, <3>2
  <2>3. avail - fee \in Nat /\ (avail - fee) + childGas <= gas
    BY <1>0, <2>0, <2>1, <2>2, FeeLeavesRoom, Zenon
  <2>4. CASE value > Balance \/ StackTooDeep
    <3>1. /\ gas' = (avail - fee) + childGas /\ results' = Append(results, 0)
          /\ status' = status /\ deferredGas' = deferredGas
          /\ externalMsgs' \in Seq(DeferredMsgs)
      BY <1>9, <1>3, <2>4 DEF Reject
    <3>2. QED
      BY <2>2, <2>3, <3>1, SettleInv, Zenon
  <2>5. CASE ~(value > Balance \/ StackTooDeep)
    <3>1. /\ gas' = avail - fee /\ results' = Append(results, 1)
          /\ status' = status /\ deferredGas' = deferredGas + childGas
      BY <1>3, <2>5
    <3>3. externalMsgs' \in Seq(DeferredMsgs)
      <4>1. [gas |-> childGas, value |-> value, to |-> to,
             codeAddress |-> codeAddress, executeOnSend |-> executeOnSend,
             isStatic |-> ctx.isStatic] \in DeferredMsgs
        BY <1>0, <1>9, <2>2 DEF DeferredMsgs
      <4>2. externalMsgs' = Append(externalMsgs,
                [gas |-> childGas, value |-> value, to |-> to,
                 codeAddress |-> codeAddress, executeOnSend |-> executeOnSend,
                 isStatic |-> ctx.isStatic])
        BY <1>3, <2>5, Zenon
      <4>3. QED
        BY <1>9, <4>1, <4>2
    <3>4. QED
      BY <2>2, <2>3, <3>1, <3>3, SettleInv, Zenon
  <2>6. QED
    BY <2>4, <2>5
<1>4. QED
  BY <1>2, <1>3 DEF DeferredCall, afterBase, avail, extra, eip150, msgGas,
                    childGas, fee, checks

\* CALLCODE and DELEGATECALL (BaseCall.__call__), for any fee and
\* stipend such that moving value is charged at least the stipend.
LEMMA InProcessCallInv ==
    ASSUME Inv, Running,
           NEW op, NEW req \in Nat, NEW value \in Nat, NEW mem \in Nat,
           NEW extra \in Nat, NEW stipend \in Nat, value # 0 => stipend <= extra,
           InProcessCall(op, req, value, mem, extra, stipend),
           ops' = ops + 1, UNCHANGED <<fork, ctx, startGas>>
    PROVE  Inv'
<1> DEFINE afterBase == gas - CallBaseCost
           avail     == afterBase - mem
           msgGas    == IF IsEIP150(fork)
                        THEN EIP150MsgGas(avail, req, extra, value, stipend)
                        ELSE IF op = "DELEGATECALL" THEN <<req, req>>
                        ELSE FlatMsgGas(req, extra, value, stipend)
           childGas  == msgGas[1]
           fee       == msgGas[2]
           checks    == <<
             [fails |-> gas < CallBaseCost, err |-> "OutOfGas", gas |-> gas],
             [fails |-> afterBase < mem, err |-> "OutOfGas", gas |-> afterBase],
             [fails |-> IsEIP150(fork) /\ avail < extra, err |-> "OutOfGas", gas |-> avail],
             [fails |-> avail < fee, err |-> "OutOfGas", gas |-> avail] >>
<1> USE GasConstantsAssumption
<1> HIDE DEF checks
<1>0. gas \in Nat
  BY DEF Inv, TypeOK
<1>9. externalMsgs \in Seq(DeferredMsgs)
  BY DEF Inv, TypeOK
<1>1. CASE \E k \in 1..Len(checks) : RaisesAt(checks, k) /\ Raise(checks[k])
  <2>1. PICK k \in 1..4 : RaisesAt(checks, k) /\ Raise(checks[k])
    BY <1>1 DEF checks
  <2>2. checks[k].gas \in Nat /\ checks[k].gas <= gas /\ checks[k].err \in Errors
    <3>1. k = 1 \/ k = 2 \/ k = 3 \/ k = 4
      OBVIOUS
    <3>2. /\ checks[1].fails <=> gas < CallBaseCost
          /\ checks[2].fails <=> afterBase < mem
      BY DEF checks
    <3>3. k >= 2 => afterBase \in Nat
      <4>1. k >= 2 => ~checks[1].fails
        BY <2>1 DEF RaisesAt
      <4>2. QED
        BY <1>0, <3>2, <4>1 DEF afterBase
    <3>4. k >= 3 => avail \in Nat
      <4>1. k >= 3 => ~checks[2].fails
        BY <2>1 DEF RaisesAt
      <4>2. QED
        BY <1>0, <3>2, <3>3, <4>1 DEF avail
    <3>5. afterBase <= gas /\ avail <= afterBase
      BY <1>0 DEF afterBase, avail
    <3>6. /\ checks[1].gas = gas /\ checks[2].gas = afterBase
          /\ checks[3].gas = avail /\ checks[4].gas = avail
          /\ checks[1].err = "OutOfGas" /\ checks[2].err = "OutOfGas"
          /\ checks[3].err = "OutOfGas" /\ checks[4].err = "OutOfGas"
      BY DEF checks
    <3>7. checks[k].err \in Errors
      BY <3>1, <3>6, Zenon DEF Errors
    <3>8. checks[k].gas \in Nat /\ checks[k].gas <= gas
      BY <1>0, <3>1, <3>3, <3>4, <3>5, <3>6
    <3>9. QED
      BY <3>7, <3>8
  <2>3. QED
    BY <2>1, <2>2, RaiseInv, Zenon
<1>2. CASE Passes(checks) /\ UNCHANGED status
           /\ \/ /\ StackTooDeep
                 /\ Reject(avail - fee, childGas)
              \/ /\ ~StackTooDeep
                 /\ children' = Append(children,
                        [op |-> op, gas |-> childGas, value |-> value])
                 /\ \E outcome \in {"success", "revert", "burn"},
                       unused \in {0, childGas} :
                       /\ results' = Append(results, IF outcome = "success" THEN 1 ELSE 0)
                       /\ gas' = avail - fee + (IF outcome = "burn" THEN 0 ELSE unused)
                 /\ UNCHANGED <<externalMsgs, deferredGas>>
  <2>0. /\ ~(gas < CallBaseCost) /\ ~(afterBase < mem)
        /\ ~(IsEIP150(fork) /\ avail < extra) /\ ~(avail < fee)
    <3>1. \A l \in 1..4 : ~checks[l].fails
      BY <1>2 DEF Passes, checks
    <3>2. ~checks[1].fails /\ ~checks[2].fails /\ ~checks[3].fails /\ ~checks[4].fails
      <4>1. 1 \in 1..4 /\ 2 \in 1..4 /\ 3 \in 1..4 /\ 4 \in 1..4
        OBVIOUS
      <4>2. QED
        BY <3>1, <4>1, Zenon
    <3>3. /\ checks[1].fails <=> gas < CallBaseCost
          /\ checks[2].fails <=> afterBase < mem
          /\ checks[3].fails <=> (IsEIP150(fork) /\ avail < extra)
          /\ checks[4].fails <=> avail < fee
      BY DEF checks
    <3>4. QED
      BY <3>2, <3>3
  <2>1. afterBase \in Nat /\ avail \in Nat /\ avail <= gas
    BY <1>0, <2>0 DEF afterBase, avail
  <2>2. childGas \in Nat /\ fee \in Nat /\ childGas <= fee
    <3>1. CASE IsEIP150(fork)
      <4>1. extra <= avail
        BY <2>0, <2>1, <3>1
      <4>2. QED
        BY <2>1, <3>1, <4>1, EIP150MsgGasCovered DEF childGas, fee, msgGas
    <3>2. CASE ~IsEIP150(fork) /\ op = "DELEGATECALL"
      BY <3>2 DEF childGas, fee, msgGas
    <3>3. CASE ~IsEIP150(fork) /\ op # "DELEGATECALL"
      BY <3>3, FlatMsgGasCovered DEF childGas, fee, msgGas
    <3>4. QED
      BY <3>1, <3>2, <3>3
  <2>3. avail - fee \in Nat /\ (avail - fee) + childGas <= gas
    BY <1>0, <2>0, <2>1, <2>2, FeeLeavesRoom, Zenon
  <2>4. CASE StackTooDeep
    <3>1. /\ gas' = (avail - fee) + childGas /\ results' = Append(results, 0)
          /\ status' = status /\ deferredGas' = deferredGas
          /\ externalMsgs' \in Seq(DeferredMsgs)
      BY <1>9, <1>2, <2>4 DEF Reject
    <3>2. QED
      BY <2>2, <2>3, <3>1, SettleInv, Zenon
  <2>5. CASE ~StackTooDeep
    <3>1. PICK outcome \in {"success", "revert", "burn"}, unused \in {0, childGas} :
               /\ results' = Append(results, IF outcome = "success" THEN 1 ELSE 0)
               /\ gas' = avail - fee + (IF outcome = "burn" THEN 0 ELSE unused)
      BY <1>2, <2>5
    <3>2. status' = status /\ deferredGas' = deferredGas
          /\ externalMsgs' \in Seq(DeferredMsgs)
      BY <1>9, <1>2, <2>5
    <3>3. gas' \in {avail - fee, (avail - fee) + childGas}
      <4>1. CASE outcome = "burn"
        BY <2>3, <3>1, <4>1
      <4>2. CASE outcome # "burn" /\ unused = 0
        BY <2>3, <3>1, <4>2
      <4>3. CASE outcome # "burn" /\ unused = childGas
        BY <3>1, <4>3
      <4>4. QED
        BY <4>1, <4>2, <4>3
    <3>4. (IF outcome = "success" THEN 1 ELSE 0) \in {0, 1}
      OBVIOUS
    <3>5. QED
      BY <2>2, <2>3, <3>1, <3>2, <3>3, <3>4, SettleInv, Zenon
  <2>6. QED
    BY <2>4, <2>5
<1>3. QED
  BY <1>1, <1>2 DEF InProcessCall, afterBase, avail, msgGas, childGas, fee, checks

-----------------------------------------------------------------------------
(* CALL under EIP150 forwards at most 63/64 of the gas left.               *)

\* max_child_gas_eip150 grows with the gas it is given.
LEMMA MaxChildMonotone ==
    ASSUME NEW a \in Nat, NEW b \in Nat, a <= b
    PROVE  /\ MaxChildGasEIP150(a) \in Int
           /\ MaxChildGasEIP150(a) <= MaxChildGasEIP150(b)
BY DEF MaxChildGasEIP150

\* compute_eip150_msg_gas caps the child gas at max_child_gas_eip150 of the
\* gas left after the extra fee, plus the stipend.
LEMMA EIP150MsgGasCapped ==
    ASSUME NEW avail \in Nat, NEW req \in Nat, NEW extra \in Nat,
           NEW value, NEW stipend \in Nat, extra <= avail
    PROVE  EIP150MsgGas(avail, req, extra, value, stipend)[1]
             <= MaxChildGasEIP150(avail - extra) + (IF value # 0 THEN stipend ELSE 0)
BY DEF EIP150MsgGas, MaxChildGasEIP150

\* A bound carried over a larger cap.
LEMMA BoundTransfers ==
    ASSUME NEW a \in Int, NEW b \in Int, NEW c \in Int, NEW d \in Int,
           a <= b + d, b <= c
    PROVE  a <= c + d
OBVIOUS

\* Call.__call__ appends at most the message it builds to externalMsgs.
LEMMA DeferredCallSixtyFourth ==
    ASSUME Inv,
           NEW surrogate \in BOOLEAN, NEW req \in GasRequests,
           NEW value \in Values, NEW to \in Accounts, NEW mem \in MemoryCosts,
           NEW codeAddress \in Accounts \cup {NoAddress}, NEW executeOnSend,
           surrogate => codeAddress \in Accounts,
           DeferredCall(surrogate, req, value, to, mem, codeAddress, executeOnSend)
    PROVE  CallWithinSixtyFourth
<1> DEFINE afterBase == gas - CallBaseCost
           avail     == afterBase - mem
           extra     == IF surrogate THEN CallExtraGas("Frontier", to, value)
                                     ELSE CallExtraGas(fork, to, value)
           eip150    == ~surrogate /\ IsEIP150(fork)
           msgGas    == IF eip150
                        THEN EIP150MsgGas(avail, req, extra, value, GasCallStipend)
                        ELSE FlatMsgGas(req, extra, value, GasCallStipend)
           childGas  == msgGas[1]
           fee       == msgGas[2]
           checks    == <<
             [fails |-> gas < CallBaseCost, err |-> "OutOfGas", gas |-> gas],
             [fails |-> ~surrogate /\ fork = "Byzantium" /\ ctx.isStatic /\ value # 0,
              err |-> "WriteProtection", gas |-> afterBase],
             [fails |-> afterBase < mem, err |-> "OutOfGas", gas |-> afterBase],
             [fails |-> ~ctx.isReceive /\ ctx.txExecuteOnSend,
              err |-> "ForbiddenOperationForExecutingOnSend", gas |-> avail],
             [fails |-> ctx.isSurrogateCall,
              err |-> "ForbiddenOperationForSurrogateCall", gas |-> avail],
             [fails |-> eip150 /\ avail < extra, err |-> "OutOfGas", gas |-> avail],
             [fails |-> childGas < GasTx, err |-> "OutOfGas", gas |-> avail],
             [fails |-> avail < fee, err |-> "OutOfGas", gas |-> avail] >>
           rec       == [gas |-> childGas, value |-> value, to |-> to,
                         codeAddress |-> codeAddress,
                         executeOnSend |-> executeOnSend,
                         isStatic |-> ctx.isStatic]
<1> USE GasConstantsAssumption
<1> HIDE DEF checks
<1>0. gas \in Nat /\ mem \in Nat /\ req \in Nat /\ value \in Nat
  BY DEF Inv, TypeOK
<1>1. externalMsgs \in Seq(DeferredMsgs)
  BY DEF Inv, TypeOK
<1>2. extra \in Nat /\ (value # 0 => GasCallStipend <= extra)
  BY <1>0, CallExtraGasCoversStipend DEF extra
\* A step that leaves externalMsgs alone does not defer a message.
<1>3. externalMsgs' = externalMsgs => CallWithinSixtyFourth
  BY <1>1 DEF CallWithinSixtyFourth
<1>4. CASE \E k \in 1..Len(checks) : RaisesAt(checks, k) /\ Raise(checks[k])
  BY <1>3, <1>4, Zenon DEF Raise
<1>5. CASE Passes(checks) /\ (value > Balance \/ StackTooDeep)
           /\ Reject(avail - fee, childGas)
  BY <1>3, <1>5 DEF Reject
<1>6. CASE Passes(checks) /\ externalMsgs' = Append(externalMsgs, rec)
  <2>1. SUFFICES ASSUME IsEIP150(fork), codeAddress = NoAddress
                 PROVE  childGas <= MaxChildGasEIP150(gas - CallExtraGas(fork, to, value))
                                    + (IF value # 0 THEN GasCallStipend ELSE 0)
    <3>2. /\ rec.gas = childGas /\ rec.to = to /\ rec.value = value
          /\ rec.codeAddress = codeAddress
      OBVIOUS
    <3>0. externalMsgs' = Append(externalMsgs, rec)
      BY <1>6, Zenon
    <3> HIDE DEF rec
    <3>1. /\ Len(externalMsgs') = Len(externalMsgs) + 1
          /\ externalMsgs'[Len(externalMsgs')] = rec
      BY <1>1, <3>0
    <3>3. QED
      BY <3>1, <3>2 DEF CallWithinSixtyFourth
  <2>2. ~surrogate /\ eip150 /\ extra = CallExtraGas(fork, to, value)
    BY <2>1
  <2>3. ~(gas < CallBaseCost) /\ ~(afterBase < mem) /\ ~(eip150 /\ avail < extra)
    <3>1. \A l \in 1..8 : ~checks[l].fails
      BY <1>6 DEF Passes, checks
    <3>2. ~checks[1].fails /\ ~checks[3].fails /\ ~checks[6].fails
      <4>1. 1 \in 1..8 /\ 3 \in 1..8 /\ 6 \in 1..8
        OBVIOUS
      <4>2. QED
        BY <3>1, <4>1, Zenon
    <3>3. /\ checks[1].fails <=> gas < CallBaseCost
          /\ checks[3].fails <=> afterBase < mem
          /\ checks[6].fails <=> (eip150 /\ avail < extra)
      BY DEF checks
    <3>4. QED
      BY <3>2, <3>3
  <2>4. avail \in Nat /\ avail <= gas /\ extra <= avail
    BY <1>0, <1>2, <2>2, <2>3 DEF afterBase, avail
  <2>5. childGas <= MaxChildGasEIP150(avail - extra)
                    + (IF value # 0 THEN GasCallStipend ELSE 0)
    BY <1>0, <1>2, <2>2, <2>4, EIP150MsgGasCapped DEF childGas, msgGas
  <2>6. /\ MaxChildGasEIP150(avail - extra) \in Int
        /\ MaxChildGasEIP150(avail - extra) <= MaxChildGasEIP150(gas - extra)
    BY <1>0, <1>2, <2>4, MaxChildMonotone
  <2>7. MaxChildGasEIP150(gas - extra) \in Int
    BY <1>0, <1>2, <2>4 DEF MaxChildGasEIP150
  <2>8. childGas \in Int /\ (IF value # 0 THEN GasCallStipend ELSE 0) \in Int
    <3>1. childGas = EIP150MsgGas(avail, req, extra, value, GasCallStipend)[1]
      BY <2>2 DEF childGas, msgGas
    <3>2. EIP150MsgGas(avail, req, extra, value, GasCallStipend)[1] \in Nat
      BY <1>0, <1>2, <2>4, EIP150MsgGasCovered
    <3>3. QED
      BY <3>1, <3>2
  <2>9. childGas <= MaxChildGasEIP150(gas - extra)
                    + (IF value # 0 THEN GasCallStipend ELSE 0)
    BY <2>5, <2>6, <2>7, <2>8, BoundTransfers, Zenon
  <2>10. MaxChildGasEIP150(gas - extra)
           = MaxChildGasEIP150(gas - CallExtraGas(fork, to, value))
    BY <2>2
  <2>11. QED
    BY <2>9, <2>10, Zenon
<1>7. QED
  BY <1>4, <1>5, <1>6 DEF DeferredCall, afterBase, avail, extra, eip150, msgGas,
                          childGas, fee, checks, rec

\* BaseCall.__call__ never touches externalMsgs.
LEMMA InProcessCallKeepsMsgs ==
    ASSUME NEW op, NEW req, NEW value, NEW mem, NEW extra, NEW stipend,
           InProcessCall(op, req, value, mem, extra, stipend)
    PROVE  externalMsgs' = externalMsgs
BY Zenon DEF InProcessCall, Raise, Reject

\* Every step, or a stutter, satisfies CallWithinSixtyFourth.
LEMMA NextSixtyFourth == Inv /\ [Next]_vars => [CallWithinSixtyFourth]_vars
<1> SUFFICES ASSUME Inv, [Next]_vars PROVE CallWithinSixtyFourth
  OBVIOUS
<1> USE GasConstantsAssumption
<1>0. externalMsgs' = externalMsgs => CallWithinSixtyFourth
  <2>1. externalMsgs \in Seq(DeferredMsgs)
    BY DEF Inv, TypeOK
  <2>2. QED
    BY <2>1 DEF CallWithinSixtyFourth
<1>1. CASE Call
  <2>1. PICK req \in GasRequests, value \in Values, to \in Accounts,
             mem \in MemoryCosts :
               DeferredCall(FALSE, req, value, to, mem, NoAddress, FALSE)
    BY <1>1 DEF Call
  <2>2. NoAddress \in Accounts \cup {NoAddress} /\ FALSE \in BOOLEAN
    OBVIOUS
  <2>3. QED
    BY <2>1, <2>2, DeferredCallSixtyFourth, Zenon
<1>2. CASE SurrogateCall
  <2>1. PICK req \in GasRequests, value \in Values, to \in Accounts,
             mem \in MemoryCosts, codeAddress \in Accounts,
             executeOnSend \in BOOLEAN :
               DeferredCall(TRUE, req, value, to, mem, codeAddress, executeOnSend)
    BY <1>2 DEF SurrogateCall
  <2>2. codeAddress \in Accounts \cup {NoAddress} /\ TRUE \in BOOLEAN
    OBVIOUS
  <2>3. QED
    BY <2>1, <2>2, DeferredCallSixtyFourth, Zenon
<1>3. CASE CallCode \/ DelegateCall
  BY <1>0, <1>3, InProcessCallKeepsMsgs, Zenon DEF CallCode, DelegateCall
<1>4. CASE StaticCall
  BY <1>0, <1>4 DEF StaticCall, Raise
<1>5. CASE UNCHANGED vars
  BY <1>0, <1>5 DEF vars
<1>6. QED
  BY <1>1, <1>2, <1>3, <1>4, <1>5 DEF Next

-----------------------------------------------------------------------------
(* The theorems.                                                           *)

\* Inv holds initially and every opcode, or a stutter, keeps it.
LEMMA InitInv == Init => Inv
BY GasConstantsAssumption DEF Init, Inv, TypeOK, GasAccounted

LEMMA NextInv == Inv /\ [Next]_vars => Inv'
<1> SUFFICES ASSUME Inv, [Next]_vars PROVE Inv'
  OBVIOUS
<1> USE GasConstantsAssumption
<1>1. CASE Call
  BY <1>1, DeferredCallInv DEF Call
<1>2. CASE SurrogateCall
  <2>1. PICK req \in GasRequests, value \in Values, to \in Accounts,
             mem \in MemoryCosts, codeAddress \in Accounts,
             executeOnSend \in BOOLEAN :
               DeferredCall(TRUE, req, value, to, mem, codeAddress, executeOnSend)
    BY <1>2 DEF SurrogateCall
  <2>2. codeAddress \in Accounts \cup {NoAddress} /\ TRUE \in BOOLEAN
    OBVIOUS
  <2>3. Running /\ ops' = ops + 1 /\ UNCHANGED <<fork, ctx, startGas>>
    BY <1>2 DEF SurrogateCall
  <2>4. QED
    BY <2>1, <2>2, <2>3, DeferredCallInv, Zenon
<1>3. CASE CallCode
  <2>1. PICK req \in GasRequests, value \in Values, mem \in MemoryCosts :
               InProcessCall("CALLCODE", req, value, mem, ValueFee(value), GasCallStipend)
    BY <1>3 DEF CallCode
  <2>2. ValueFee(value) \in Nat /\ (value # 0 => GasCallStipend <= ValueFee(value))
    BY ValueFeeCoversStipend
  <2>3. QED
    BY <1>3, <2>1, <2>2, InProcessCallInv DEF CallCode
<1>4. CASE DelegateCall
  <2>1. ctx.value \in Nat
    BY DEF Inv, TypeOK, Contexts
  <2>2. PICK req \in GasRequests, mem \in MemoryCosts :
               InProcessCall("DELEGATECALL", req, ctx.value, mem, 0, 0)
    BY <1>4 DEF DelegateCall
  <2>3. QED
    BY <1>4, <2>1, <2>2, InProcessCallInv DEF DelegateCall
<1>5. CASE StaticCall
  <2>1. gas \in Nat
    BY DEF Inv, TypeOK
  <2>2. QED
    BY <1>5, <2>1, RaiseInv DEF StaticCall, Errors
<1>6. CASE UNCHANGED vars
  BY <1>6 DEF vars, Inv, TypeOK, GasAccounted
<1>7. QED
  BY <1>1, <1>2, <1>3, <1>4, <1>5, <1>6 DEF Next

\* Type correctness of the CALL-family model, for every value of the
\* constants.
THEOREM TypeCorrect == Spec => []TypeOK
<1>1. Inv => TypeOK
  BY DEF Inv
<1>2. QED
  BY InitInv, NextInv, <1>1, PTL DEF Spec

\* The CALL family never mints gas: the gas a computation has left plus the
\* gas of every message Call.__call__ deferred never exceeds msg.gas, under
\* every fork's rules, whatever gas, value and memory cost the operands ask
\* for (compute_msg_gas, compute_eip150_msg_gas, the return_gas calls).
THEOREM GasNeverMinted == Spec => []GasAccounted
<1>1. Inv => GasAccounted
  BY DEF Inv
<1>2. QED
  BY InitInv, NextInv, <1>1, PTL DEF Spec

\* Under EIP150 and later no CALL gives its deferred message more than all
\* but one 64th of the gas its caller has left after the extra fee, plus
\* the stipend, whatever gas operand it pops (Call.__call__ with
\* compute_eip150_msg_gas and max_child_gas_eip150).
THEOREM SixtyFourthRuleHolds == Spec => SixtyFourthRule
<1>1. Spec => []Inv
  BY InitInv, NextInv, PTL DEF Spec
<1>2. QED
  BY <1>1, NextSixtyFourth, PTL DEF Spec, SixtyFourthRule

=============================================================================
