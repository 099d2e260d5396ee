--------------------------- MODULE MC_CallOpcodes ---------------------------
(* A small instance of CallOpcodes: three addresses (one live, one existing *)
(* but empty, one absent), a balance that covers one call of 60 but not    *)
(* two, and the gas constants of the Helios forks.                         *)
EXTENDS CallOpcodes

CONSTANTS a_live, a_empty, a_absent

MC_Accounts == {a_live, a_empty, a_absent}
MC_Existing == {a_live, a_empty}
MC_Empty == {a_empty}
MC_Forks == {"Frontier", "EIP150", "EIP161", "Byzantium"}
MC_StartGas == {30000, 80000}
MC_Depths == {0, 1024}
MC_GasRequests == {21000, 79000}
MC_Values == {0, 60, 150}
MC_MemoryCosts == {0, 40000}
=============================================================================
