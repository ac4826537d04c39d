SPECIFICATION Spec
CONSTANTS
    s1 = s1
    s2 = s2
    s3 = s3
    r1 = r1
    r2 = r2
    Sends = {s1, s2, s3}
    Ports = {"p", "q"}
    Receivers = {r1, r2}
    Addresses = {"a1", "a2", "b1"}
    Host <- MCHost
    Reply <- MCReply
    Target <- MCTarget
    None = None
    Rested = TRUE
    MaxOffers <- MCOffers
    MaxPasses <- MCPasses
INVARIANTS HearsItsReceiver CompletedThere SessionsApart
CHECK_DEADLOCK FALSE
