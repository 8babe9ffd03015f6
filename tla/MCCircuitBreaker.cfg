\* Four requests on one adapter; 25 s and 30 s become the same two ticks.
CONSTANTS
    Callers = {c1, c2, c3, c4}
    Threshold = 3
    Cooldown = 2
    CallDeadline = 2
SPECIFICATION FairSpec
INVARIANTS
    BreakerSafety
    ProbeRunsAlone
PROPERTY Recovers
