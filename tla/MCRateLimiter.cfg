\* Three requests, one more than the limit, in two minutes of two ticks: a
\* minute can fill, be repeated into, and be reached from the one before.
\* Three ticks after the last arrival every key has gone.
CONSTANTS
    Requests = {r1, r2, r3}
    Limit = 2
    Window = 2
    MaxTries = 2
    MaxNow = 5
SPECIFICATION RateFairSpec
INVARIANT RateSafety
PROPERTY CountsEnd
\* Time stops at MaxNow.
CHECK_DEADLOCK FALSE
