------------------------------ MODULE MC_HlsRpc ------------------------------
(* Two getFaucet calls and one sendRawBlock call against two users.  The  *)
(* faucet's start balance and pause level are set in the cfg; a user      *)
(* starts at or one below the cap of 5.  A peer may add two blocks to a   *)
(* user's chain.                                                           *)
EXTENDS HlsRpc, TLC

CONSTANTS f, u1, u2, r1, r2, q1

MCUsers == {u1, u2}
MCFaucetRequests == {r1, r2}
MCRawRequests == {q1}

\* getFaucet calls are interchangeable.
Symmetry == Permutations(MCFaucetRequests)
====
