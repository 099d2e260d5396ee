CONSTANTS
    p1 = p1
    p2 = p2
    pUser = pUser
    ChainAddress = ChainAddress
    NoNonce = NoNonce
    Payloads <- MC_Payloads
    StateNonces <- MC_StateNonces
    Blocks <- MC_Blocks
    ReceiveResults <- MC_ReceiveResults
SPECIFICATION Spec
\* apply_all_transactions and the validation return or raise: every
\* behaviour ends in "valid" or "rejected".
CHECK_DEADLOCK FALSE
INVARIANT AppliedSendListOrdered
