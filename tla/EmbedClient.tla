---------------------------- MODULE EmbedClient -----------------------------
(***************************************************************************)
(* The client of the embedding service (internal/embed/client.go) with its *)
(* circuit breaker (circuit_breaker.go), under callers that embed texts at *)
(* the same time: the cache is asked, then the breaker, then the service;  *)
(* a vector is stored in the cache and then reported to the breaker, under *)
(* two different locks.                                                    *)
(*                                                                         *)
(* In HalfOpen this breaker lets every caller through.  A failure counts   *)
(* on top of those before the opening, so that one is enough to open it    *)
(* again, and every failure starts the cooldown anew.                      *)
(***************************************************************************)
EXTENDS LRUCache

CONSTANTS
    Callers,        \* the goroutines that call Embed
    NoText,         \* stands for the text of no call
    Threshold,      \* failureThreshold (3)
    OpenDuration,   \* openDuration (30 s), in ticks
    CallTimeout     \* the timeout of the HTTP client (25 s), in ticks

ASSUME EmbedAssumption ==
    /\ Threshold \in Nat \ {0}
    /\ {OpenDuration, CallTimeout} \subseteq Nat
    /\ CallTimeout < OpenDuration
    /\ NoText \notin Texts

VARIABLES
    state,          \* closed, open or halfOpen
    failures,       \* the failures in a row; counted up to Threshold
    sinceOpened,    \* the time since openedAt; counted up to OpenDuration
    call,           \* per caller: where its call of Embed is
    probes          \* history: the callers let through in this HalfOpen

breakerVars == <<state, failures, sinceOpened, probes>>
vars == <<cacheVars, breakerVars, call>>

States == {"closed", "open", "halfOpen"}
CallPhases == {"none", "missed", "calling", "stored"}
Call == [phase : CallPhases, text : Texts \cup {NoText}, age : 0..CallTimeout]
NoCall == [phase |-> "none", text |-> NoText, age |-> 0]

Calling(c) == call[c].phase = "calling"
InFlight == {c \in Callers : call[c].phase \in {"calling", "stored"}}

Becomes(c, next) == call' = [call EXCEPT ![c] = next]

Init ==
    /\ CacheInit
    /\ state = "closed" /\ failures = 0 /\ sinceOpened = 0
    /\ call = [c \in Callers |-> NoCall]
    /\ probes = {}

(* The cache has it. *)
EmbedHit(c, t) ==
    /\ call[c] = NoCall
    /\ Hit(t)
    /\ UNCHANGED <<breakerVars, call>>

EmbedMiss(c, t) ==
    /\ call[c] = NoCall
    /\ Miss(t)
    /\ Becomes(c, [phase |-> "missed", text |-> t, age |-> 0])
    /\ UNCHANGED breakerVars

Start(c) == Becomes(c, [call[c] EXCEPT !.phase = "calling"])

Elapsed == sinceOpened = OpenDuration

AllowClosed(c) ==
    /\ call[c].phase = "missed" /\ state = "closed"
    /\ Start(c)
    /\ UNCHANGED <<cacheVars, breakerVars>>

AllowProbe(c) ==
    /\ call[c].phase = "missed"
    /\ state = "halfOpen" \/ (state = "open" /\ Elapsed)
    /\ state' = "halfOpen"
    /\ probes' = probes \cup {c}
    /\ Start(c)
    /\ UNCHANGED <<cacheVars, failures, sinceOpened>>

(* Slip: a rejected call is recorded as a failure. *)
RejectRecorded(c) ==
    /\ call[c].phase = "missed" /\ state = "open" /\ ~Elapsed
    /\ sinceOpened' = 0
    /\ Becomes(c, NoCall)
    /\ UNCHANGED <<cacheVars, state, failures, probes>>

Reject(c) ==
    /\ call[c].phase = "missed" /\ state = "open" /\ ~Elapsed
    /\ Becomes(c, NoCall)
    /\ UNCHANGED <<cacheVars, breakerVars>>

(* Slip: the cooldown begins with the first failure that opens. *)
RecordFailureKeepsOpening ==
    /\ failures' = IF failures < Threshold THEN failures + 1 ELSE failures
    /\ IF failures' >= Threshold
       THEN /\ state' = "open" /\ probes' = {}
            /\ sinceOpened' = IF state = "closed" THEN 0 ELSE sinceOpened
       ELSE UNCHANGED <<state, sinceOpened, probes>>

RecordFailure ==
    /\ failures' = IF failures < Threshold THEN failures + 1 ELSE failures
    /\ IF failures' >= Threshold
       THEN state' = "open" /\ sinceOpened' = 0 /\ probes' = {}
       ELSE UNCHANGED <<state, sinceOpened, probes>>

(* No answer in time, a refusal, a status other than 200, or no JSON. *)
Fail(c) ==
    /\ Calling(c)
    /\ RecordFailure
    /\ Becomes(c, NoCall)
    /\ UNCHANGED cacheVars

Store(c) ==
    /\ Calling(c)
    /\ Put(call[c].text)
    /\ Becomes(c, [NoCall EXCEPT !.phase = "stored"])
    /\ UNCHANGED breakerVars

(* RecordSuccess closes the breaker in any state: also in Open, when a call
   from before the opening succeeds. *)
Succeed(c) ==
    /\ call[c].phase = "stored"
    /\ failures' = 0
    /\ state' = "closed" /\ probes' = {}
    /\ Becomes(c, NoCall)
    /\ UNCHANGED <<cacheVars, sinceOpened>>

(* A call ends by its timeout; what comes after its last byte takes no time. *)
Tick ==
    /\ \A c \in Callers :
          /\ call[c].phase # "stored"
          /\ Calling(c) => call[c].age < CallTimeout
    /\ CacheAges
    /\ sinceOpened' = IF Elapsed THEN sinceOpened ELSE sinceOpened + 1
    /\ call' = [c \in Callers |->
                    IF Calling(c) THEN [call[c] EXCEPT !.age = @ + 1] ELSE call[c]]
    /\ UNCHANGED <<state, failures, probes>>

Allow(c) == AllowClosed(c) \/ AllowProbe(c) \/ Reject(c)
End(c) == Fail(c) \/ Store(c) \/ Succeed(c)

Next ==
    \/ Tick
    \/ \E c \in Callers :
          \/ \E t \in Texts : EmbedHit(c, t) \/ EmbedMiss(c, t)
          \/ Allow(c) \/ End(c)

(* Time passes, and a call that was begun goes on and ends. *)
Spec ==
    /\ Init /\ [][Next]_vars
    /\ WF_vars(Tick)
    /\ \A c \in Callers : WF_vars(Allow(c)) /\ WF_vars(End(c))
-----------------------------------------------------------------------------
BreakerTypeOK ==
    /\ state \in States /\ failures \in 0..Threshold
    /\ sinceOpened \in 0..OpenDuration
    /\ call \in [Callers -> Call]
    /\ probes \subseteq Callers

TypeOK == CacheTypeOK /\ BreakerTypeOK

(* The breaker is closed exactly while fewer than Threshold calls in a row have
   failed, whatever calls from before the opening report later
   (circuit_breaker.go:93, 105). *)
ClosedBelowThreshold == state = "closed" <=> failures < Threshold

(* In HalfOpen every call under way was let through after the cooldown: the
   result that closes or opens the breaker is never an old one, because the
   HTTP client gives up before the cooldown is over (client.go:33,
   circuit_breaker.go:23). *)
HalfOpenHearsProbesOnly == state = "halfOpen" => InFlight \subseteq probes

(* A probe is answered, or times out, and ends HalfOpen. *)
HalfOpenResolves == state = "halfOpen" ~> state # "halfOpen"

(* Late failures start the cooldown anew, but cannot do so for ever. *)
CooldownEnds == state = "open" ~> (Elapsed \/ state # "open")

(* The cache of embeddings in one: types, the map and the list agree, and the
   order is that of use (lru_cache.go:37-85). *)
CacheSafety ==
    /\ TypeOK
    /\ CacheAgrees
    /\ LastUsedFirst

(* The breaker in one: its types, closed exactly below the threshold, and in
   HalfOpen no result of a call from before the opening
   (circuit_breaker.go:71-107). *)
BreakerSafety ==
    /\ BreakerTypeOK
    /\ ClosedBelowThreshold
    /\ HalfOpenHearsProbesOnly

(* The breaker never stays open or half open for good (circuit_breaker.go:71-98). *)
Recovers == HalfOpenResolves /\ CooldownEnds
=============================================================================
