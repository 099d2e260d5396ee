------------------------------ MODULE Synthesis ------------------------------
(***************************************************************************)
(* What the block transaction applier promises of the computation-call     *)
(* send transactions it synthesizes (spec section 4.2, step 2 and the      *)
(* "deterministic nonce assignment" property of section 8), stated without *)
(* its loops: in one step it either fails, or produces one transaction per *)
(* external call message of the receive computations that carried data    *)
(* and did not err, in discovery order, numbered consecutively from the    *)
(* starting nonce.  Two nodes that run it on the same block therefore      *)
(* produce the same list.                                                  *)
(*                                                                         *)
(* block, receives and stateNonce are the inputs and never change; phase   *)
(* is "running", "done" or "rejected", out the synthesized list.           *)
(***************************************************************************)
EXTENDS Integers, Sequences, SequencesExt

VARIABLES block, receives, stateNonce, phase, out

vars == <<block, receives, stateNonce, phase, out>>

\* A receive computation whose external call messages become transactions.
Qualifies(rc) == rc.hasData /\ ~rc.isError

\* Every such message, in the order the computations were executed.
Messages ==
    FlattenSeq([k \in 1..Len(receives) |->
                  IF Qualifies(receives[k]) THEN receives[k].msgs ELSE <<>>])

\* Step 2a: the state nonce for an empty send list; one past the last
\* normal transaction's nonce; for a list of computation-created
\* transactions only, the nonce of the first of them.
StartNonce ==
    LET normals == {k \in 1..Len(block) : ~block[k].comp}
    IN  IF block = <<>> THEN stateNonce
        ELSE IF normals = {}
             THEN block[1].nonce
             ELSE block[Max(normals)].nonce + 1

\* The list step 2b builds.
Expected ==
    [k \in 1..Len(Messages) |->
        [comp |-> TRUE, nonce |-> StartNonce + k - 1,
         payload |-> Messages[k].payload]]

Init == phase = "running" /\ out = <<>>

Finish ==
    /\ phase = "running"
    /\ phase' = "done"
    /\ out' = Expected
    /\ UNCHANGED <<block, receives, stateNonce>>

\* A validation error, before or after the transactions were produced.
Fail ==
    /\ phase # "rejected"
    /\ phase' = "rejected"
    /\ out' = <<>>
    /\ UNCHANGED <<block, receives, stateNonce>>

Next == Finish \/ Fail

\* The applier is a single-threaded loop that always ends: it does not
\* stay running forever.
Spec == Init /\ [][Next]_vars /\ WF_vars(Finish)

=============================================================================
