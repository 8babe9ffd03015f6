---------------------------- MODULE RateLimiter ----------------------------
(***************************************************************************)
(* The rate limiter in front of every /v1 route                            *)
(* (internal/security/ratelimit.go): requests of one API key, on any       *)
(* number of gateways with the same clock, count themselves in a Redis key *)
(* per minute.  The script INCRs and EXPIREs in one step, but its caller   *)
(* waits 100 ms only, go-redis sends a command again when its connection   *)
(* breaks, and a command may be run after its caller has given up.         *)
(*                                                                         *)
(* Time is counted in ticks, Window of them to a minute; 100 ms are less   *)
(* than one tick, so a caller waits through at most one.                   *)
(***************************************************************************)
EXTENDS Naturals, FiniteSets

CONSTANTS
    Requests,       \* the requests of one API key
    Limit,          \* RateLimitPerMin (60)
    Window,         \* WindowSeconds (60), in ticks
    MaxTries,       \* how often go-redis sends a command (4)
    MaxNow          \* bound: the last tick

ASSUME RateAssumption ==
    /\ IsFiniteSet(Requests)
    /\ Limit \in Nat /\ MaxTries \in Nat \ {0}
    /\ Window \in Nat \ {0, 1} /\ MaxNow \in Nat /\ MaxNow > Window

VARIABLES
    now,            \* the clock, in ticks
    key,            \* per minute: caw:rate:{api_key}:{window_ts}
    request,        \* per request: how far it got, its minute and its clock
    late,           \* the requests whose command Redis may run yet
    wasted          \* history, per minute: runs of the script nobody heard of

rateVars == <<now, key, request, late, wasted>>

Minute(t) == t \div Window
Minutes == 0..Minute(MaxNow)
NoKey == [count |-> 0, expires |-> 0]
NewRequest == [phase |-> "new", minute |-> 0, since |-> 0, tries |-> 0]
Ends == {"admitted", "limited", "unanswered"}

Asking(r) == request[r].phase = "asking"

RateInit ==
    /\ now = 0
    /\ key = [w \in Minutes |-> NoKey]
    /\ request = [r \in Requests |-> NewRequest]
    /\ late = {}
    /\ wasted = [w \in Minutes |-> 0]

(* Slip: the key is gone one tick before its minute may be over. *)
IncrementBriefly(w) ==
    key' = [key EXCEPT ![w] =
        [count |-> @.count + 1,
         expires |-> IF @.count = 0 THEN now + Window - 1 ELSE @.expires]]

(* Slip: EXPIRE is a command of its own, and the second one is lost. *)
IncrementForever(w) ==
    key' = [key EXCEPT ![w] = [count |-> @.count + 1, expires |-> MaxNow + 1]]

(* INCR, and EXPIRE when the key is new. *)
Increment(w) ==
    key' = [key EXCEPT ![w] =
        [count |-> @.count + 1,
         expires |-> IF @.count = 0 THEN now + Window ELSE @.expires]]

Waste(w) == wasted' = [wasted EXCEPT ![w] = @ + 1]

(* The bound leaves every key the time to expire. *)
Arrive(r) ==
    /\ request[r].phase = "new"
    /\ now + Window < MaxNow
    /\ request' = [request EXCEPT ![r] =
           [phase |-> "asking", minute |-> Minute(now), since |-> now, tries |-> 1]]
    /\ UNCHANGED <<now, key, late, wasted>>

(* The clock is kept of those let through. *)
Settle(r, phase) ==
    request' = [request EXCEPT ![r] =
        [phase |-> phase, minute |-> @.minute,
         since |-> IF phase = "admitted" THEN now ELSE 0, tries |-> 0]]

(* The script, and its answer in time. *)
Run(r) ==
    LET w == request[r].minute IN
    /\ Asking(r)
    /\ Increment(w)
    /\ Settle(r, IF key[w].count + 1 > Limit THEN "limited" ELSE "admitted")
    /\ UNCHANGED <<now, late, wasted>>

(* The connection breaks before the script has run or after it; the client
   sends the command again as often as it may. *)
Break(r) ==
    /\ Asking(r)
    /\ \/ UNCHANGED <<key, wasted>>
       \/ Increment(request[r].minute) /\ Waste(request[r].minute)
    /\ \/ /\ request[r].tries < MaxTries
          /\ request' = [request EXCEPT ![r].tries = @ + 1]
       \/ /\ request[r].tries = MaxTries
          /\ Settle(r, "unanswered")
    /\ UNCHANGED <<now, late>>

(* The 100 ms are over: 429, and the command is on its way. *)
GiveUp(r) ==
    /\ Asking(r)
    /\ Settle(r, "unanswered")
    /\ late' = late \cup {r}
    /\ UNCHANGED <<now, key, wasted>>

RunLate(r) ==
    /\ r \in late
    /\ late' = late \ {r}
    /\ \/ now + Window <= MaxNow /\ Increment(request[r].minute) /\ Waste(request[r].minute)
       \/ UNCHANGED <<key, wasted>>                          \* it is lost
    /\ UNCHANGED <<now, request>>

(* Redis drops a key in the tick its TTL ends. *)
Expire(w) ==
    /\ key[w].count > 0 /\ key[w].expires = now
    /\ key' = [key EXCEPT ![w] = NoKey]
    /\ UNCHANGED <<now, request, late, wasted>>

RateTick ==
    /\ now < MaxNow
    /\ \A r \in Requests : Asking(r) => request[r].since = now
    /\ \A w \in Minutes : key[w].count > 0 => key[w].expires > now
    /\ now' = now + 1
    /\ UNCHANGED <<key, request, late, wasted>>

RateNext ==
    \/ RateTick
    \/ \E w \in Minutes : Expire(w)
    \/ \E r \in Requests : Arrive(r) \/ Run(r) \/ Break(r) \/ GiveUp(r) \/ RunLate(r)

RateSpec == RateInit /\ [][RateNext]_rateVars

(* A caller stops waiting, time passes, and Redis drops what has expired.
   That Redis runs a script is not promised. *)
RateFairSpec ==
    /\ RateSpec
    /\ WF_rateVars(RateTick)
    /\ \A w \in Minutes : WF_rateVars(Expire(w))
    /\ \A r \in Requests : WF_rateVars(GiveUp(r))

-----------------------------------------------------------------------------
(* Types; a key that is there has a time to go. *)
RateTypeOK ==
    /\ now \in 0..MaxNow
    /\ \A w \in Minutes :
           /\ key[w] = NoKey \/ (key[w].count > 0 /\ key[w].expires >= now)
           /\ wasted[w] \in Nat
    /\ request \in [Requests -> [phase : {"new", "asking"} \cup Ends,
                                 minute : Minutes, since : 0..MaxNow, tries : 0..MaxTries]]
    /\ late \subseteq {r \in Requests : request[r].phase = "unanswered"}

(* The requests that were let through in minute w, in that minute. *)
AdmittedIn(w) ==
    {r \in Requests : /\ request[r].phase = "admitted" /\ request[r].minute = w
                      /\ Minute(request[r].since) = w}

(* ratelimit.go:17-18: within a minute at most Limit requests of a key are let
   through, over all gateways and whatever is repeated, late or lost.  One that
   read the clock before the minute ended and ran its script after the key had
   gone comes on top. *)
AtMostLimit == \A w \in Minutes : Cardinality(AdmittedIn(w)) <= Limit

(* ratelimit.go:27: who is refused for the limit finds Limit counts of others
   in its minute, of which some may be wasted: runs of commands that were
   repeated, or whose caller had given up (line 56). *)
RefusedForCause ==
    \A r \in Requests : request[r].phase = "limited" =>
        Limit <= wasted[request[r].minute] +
                 Cardinality({q \in Requests \ {r} : /\ request[q].minute = request[r].minute
                                                     /\ request[q].phase \in {"admitted", "limited"}})

(* ratelimit.go:24-26: no count stays in Redis for good. *)
CountsEnd == \A w \in Minutes : key[w].count > 0 ~> key[w].count = 0

(* The limiter in one: types, at most Limit requests per minute let through, and
   nobody refused without Limit counts in its minute (ratelimit.go:17-27, 56). *)
RateSafety ==
    /\ RateTypeOK
    /\ AtMostLimit
    /\ RefusedForCause
=============================================================================
