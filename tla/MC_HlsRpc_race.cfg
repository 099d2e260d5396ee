CONSTANTS
    f = f
    Faucet <- f
    u1 = u1
    u2 = u2
    r1 = r1
    r2 = r2
    q1 = q1
    Users <- MCUsers
    FaucetRequests <- MCFaucetRequests
    RawRequests <- MCRawRequests
    FaucetEnabled = TRUE
    PauseBalance = 2
    Cap = 5
    Grant = 1
    MaxImportQueue = 1
    MaxHeight = 2
    FaucetStart = 3
    UserStart = {4, 5}
SPECIFICATION Spec

\* Every call ends, and the node stops once the queue is empty and the
\* peers have sent MaxHeight blocks: the model is meant to stop.
CHECK_DEADLOCK FALSE
PROPERTIES RawBroadcastExtendsHead
