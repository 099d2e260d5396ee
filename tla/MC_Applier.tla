----------------------------- MODULE MC_Applier -----------------------------
(* A small instance of Applier.  The chain's nonce is 3.  A block has up   *)
(* to three send transactions in any order of normal (n) and computation   *)
(* (c) ones; its normal ones take the nonces 3, 4, 5 in turn, as the send  *)
(* transaction checks require, while its computation calls carry any nonce *)
(* of 3..5 and any payload, as a peer may send them.  Up to two receive    *)
(* computations each end without data, in error, with calls, or with a     *)
(* create whose nonce or address may be wrong.                             *)
EXTENDS Applier, FiniteSets

CONSTANTS p1, p2, pUser

MC_Payloads == {p1, p2, pUser}
MC_StateNonce == 3
MC_StateNonces == {MC_StateNonce}
CompNonces == {3, 4, 5}

Shapes == UNION {[1..n -> {"n", "c"}] : n \in 0..3}
NormalsBefore(sh, k) == Cardinality({l \in 1..(k - 1) : sh[l] = "n"})
BlockOf(sh, cn, pl) ==
    [k \in DOMAIN sh |->
        IF sh[k] = "n"
        THEN [comp |-> FALSE, nonce |-> MC_StateNonce + NormalsBefore(sh, k), payload |-> pUser]
        ELSE [comp |-> TRUE, nonce |-> cn[k], payload |-> pl[k]]]
MC_Blocks ==
    UNION {{BlockOf(sh, cn, pl) : cn \in [DOMAIN sh -> CompNonces],
                                  pl \in [DOMAIN sh -> {p1, p2}]} : sh \in Shapes}

CallMsg(p) == [isCreate |-> FALSE, payload |-> p, nonce |-> 0,
               createAddress |-> ContractAddress(0)]
CreateMsg(n, good) == [isCreate |-> TRUE, payload |-> p1, nonce |-> n,
                       createAddress |-> ContractAddress(IF good THEN n ELSE n + 1)]
Rc(data, err, msgs) == [hasData |-> data, isError |-> err, msgs |-> msgs]
RCs ==
    {Rc(FALSE, FALSE, <<CallMsg(p1)>>), Rc(TRUE, TRUE, <<CallMsg(p1)>>),
     Rc(TRUE, FALSE, <<>>), Rc(TRUE, FALSE, <<CallMsg(p1)>>),
     Rc(TRUE, FALSE, <<CallMsg(p2)>>), Rc(TRUE, FALSE, <<CallMsg(p1), CallMsg(p2)>>),
     Rc(TRUE, FALSE, <<CreateMsg(4, FALSE)>>)}
    \cup {Rc(TRUE, FALSE, <<CreateMsg(n, TRUE)>>) : n \in CompNonces}
MC_ReceiveResults ==
    {<<>>} \cup {<<r>> : r \in RCs} \cup {<<r1, r2>> : r1, r2 \in RCs}

\* On every list the separation returns for, its two lists are what the
\* loop of lines 267-274 builds: the transactions of each kind, in order.
ASSUME SeparationMatchesLoop ==
    \A b \in MC_Blocks :
        Ordered(b) =>
            /\ NormalTxs(b) = SelectSeq(b, LAMBDA t : ~t.comp)
            /\ ComputationTxs(b) = SelectSeq(b, LAMBDA t : t.comp)
=============================================================================
