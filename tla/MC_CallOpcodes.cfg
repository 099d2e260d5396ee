CONSTANTS
    a_live = a_live
    a_empty = a_empty
    a_absent = a_absent
    NoAddress = NoAddress
    Accounts <- MC_Accounts
    ExistingAccounts <- MC_Existing
    EmptyAccounts <- MC_Empty
    Forks <- MC_Forks
    StartGas <- MC_StartGas
    Depths <- MC_Depths
    GasRequests <- MC_GasRequests
    Values <- MC_Values
    MemoryCosts <- MC_MemoryCosts
    StaticContexts = {FALSE}
    GasCallStipend = 2300
    GasCallValue = 9000
    GasNewAccount = 25000
    GasTx = 21000
    CallBaseCost = 700
    StackDepthLimit = 1024
    Balance = 100
    MaxOps = 2
SPECIFICATION Spec
\* A computation executes a bounded sequence of opcodes and then stops.
CHECK_DEADLOCK FALSE
INVARIANTS GasAccounted
PROPERTIES SixtyFourthRule
