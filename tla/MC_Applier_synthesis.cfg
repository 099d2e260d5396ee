CONSTANTS
    p1 = p1
    p2 = p2
    pUser = pUser
    ChainAddress = ChainAddress
    NoNonce = NoNonce
    Payloads <- MC_Payloads
    StateNonces <- MC_StateNonces
    Blocks <- MC_Blocks
    ReceiveResults <- MC_ReceiveResults
SPECIFICATION FairSpec
\* apply_all_transactions returns or raises: every behaviour ends in
\* "valid" or "rejected".
CHECK_DEADLOCK FALSE
PROPERTIES SynthesisRefined
