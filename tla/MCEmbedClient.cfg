\* Three callers and three texts for a cache of two; the call is one tick shorter
\* than the cooldown, as 25 s is shorter than 30 s.
SPECIFICATION Spec
CONSTANTS
    Callers = {c1, c2, c3}
    Texts = {t1, t2, t3}
    NoText = NoText
    Capacity = 2
    TTL = 1
    Threshold = 2
    OpenDuration = 2
    CallTimeout = 1
INVARIANTS
    CacheSafety
    BreakerSafety
PROPERTY Recovers
