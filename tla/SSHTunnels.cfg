\* Three threads, two of which want the same tunnel.
CONSTANTS
    c1 = c1
    c2 = c2
    c3 = c3
    Callers = {c1, c2, c3}
    Wants <- SameAndOther
    MaxTunnels = 2
SPECIFICATION Spec
CHECK_DEADLOCK FALSE
INVARIANTS
    OneTunnelPerConfig
    OpenWhileUsed
    UsageIsCounted
PROPERTIES
    WaitingIsServed
    JoinsReturn
