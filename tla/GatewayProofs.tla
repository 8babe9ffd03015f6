--------------------------- MODULE GatewayProofs ----------------------------
(***************************************************************************)
(* Proofs about three parts of the gateway that stand alone: the circuit   *)
(* breaker (for any number of callers, any threshold, and any cooldown at  *)
(* least as long as the call deadline), the rate limiter (for any requests,*)
(* limit and number of tries) and the agent loop (for any inputs the model *)
(* may give, and any number of turns).                                     *)
(***************************************************************************)
EXTENDS CircuitBreaker, RateLimiter, AgentLoop, FiniteSetTheorems, SequenceTheorems, TLAPS

-----------------------------------------------------------------------------
(* The inductive invariant.  ProbeRunsAlone is not inductive by itself: a
   state in which an old call outlives the cooldown satisfies it, and
   AllowProbe leaves it.  OldCallsEndBeforeCooldown excludes such states. *)
BreakerInv ==
    /\ TypeOK
    /\ ProbeRunsAlone
    /\ HalfOpenHasItsProbe
    /\ ClosedBelowThreshold
    /\ OldCallsEndBeforeCooldown

(* The initial state of NewCircuitBreaker satisfies the invariant. *)
LEMMA BreakerStarts == Init => BreakerInv
  BY ThresholdAssumption, TimeAssumption
     DEF Init, BreakerInv, TypeOK, ProbeRunsAlone, HalfOpenHasItsProbe, ClosedBelowThreshold,
         OldCallsEndBeforeCooldown, States, Elapsed, Call, NoCall, InFlight, Probing

(* The ranges of the variables are kept by every step. *)
LEMMA BreakerType == TypeOK /\ [Next]_vars => TypeOK'
  <1> SUFFICES ASSUME TypeOK, [Next]_vars PROVE TypeOK'
    OBVIOUS
  <1> USE ThresholdAssumption, TimeAssumption DEF TypeOK, States, Elapsed
  <1>1. ASSUME NEW c \in Callers, NEW new \in Call, call' = [call EXCEPT ![c] = new]
        PROVE  call' \in [Callers -> Call]
    BY <1>1
  <1>2. 0 \in 0..CallDeadline /\ CallDeadline \in 0..CallDeadline
    OBVIOUS
  <1>3. CASE Tick
    <2>1. \A c \in Callers : InFlight(c) => call[c].budget - 1 \in 0..CallDeadline
      BY <1>3 DEF Tick, Call
    <2>2. call' \in [Callers -> Call]
      BY <1>3, <2>1 DEF Tick, Call
    <2>3. cooldownLeft' \in Elapsed..Cooldown
      BY <1>3 DEF Tick
    <2> QED
      BY <1>3, <2>2, <2>3 DEF Tick
  <1>4. ASSUME NEW c \in Callers, AllowClosed(c) \/ AllowProbe(c) PROVE TypeOK'
    <2>1. \A p \in BOOLEAN :
             [phase |-> "inflight", probe |-> p, budget |-> CallDeadline] \in Call
      BY <1>2, Zenon DEF Call
    <2>2. call' \in [Callers -> Call]
      BY <1>1, <1>4, <2>1 DEF AllowClosed, AllowProbe, Start
    <2> QED
      BY <1>4, <2>2 DEF AllowClosed, AllowProbe
  <1>5. ASSUME NEW c \in Callers, Reject(c) PROVE TypeOK'
    <2>1. [NoCall EXCEPT !.phase = "rejected"] \in Call
      BY <1>2, Zenon DEF Call, NoCall
    <2>2. call' \in [Callers -> Call]
      BY <1>1, <1>5, <2>1 DEF Reject
    <2> QED
      BY <1>5, <2>2 DEF Reject
  <1>6. ASSUME NEW c \in Callers, Succeed(c) \/ Fail(c) PROVE TypeOK'
    <2>1. NoCall \in Call
      BY <1>2, Zenon DEF Call, NoCall
    <2>2. call' \in [Callers -> Call]
      BY <1>1, <1>6, <2>1 DEF Succeed, Fail, End
    <2> QED
      BY <1>6, <2>2 DEF Succeed, RecordSuccess, Fail, RecordFailure
  <1>7. CASE UNCHANGED vars
    BY <1>7 DEF vars
  <1> QED
    BY <1>3, <1>4, <1>5, <1>6, <1>7 DEF Next

(* Every step of the breaker and of its callers keeps the invariant. *)
LEMMA BreakerKept == BreakerInv /\ [Next]_vars => BreakerInv'
  <1> SUFFICES ASSUME BreakerInv, [Next]_vars PROVE BreakerInv'
    OBVIOUS
  <1>1. TypeOK /\ TypeOK'
    BY BreakerType DEF BreakerInv
  <1> USE <1>1, ThresholdAssumption, TimeAssumption
      DEF TypeOK, States, Elapsed, Call, InFlight, Probing
  <1>2. CASE Tick
    <2>1. \A c \in Callers : /\ InFlight(c)' <=> InFlight(c)
                            /\ Probing(c)' <=> Probing(c)
      BY <1>2 DEF Tick
    <2>2. ProbeRunsAlone' /\ HalfOpenHasItsProbe' /\ ClosedBelowThreshold'
      BY <1>2, <2>1
         DEF Tick, BreakerInv, ProbeRunsAlone, HalfOpenHasItsProbe, ClosedBelowThreshold
    <2>3. OldCallsEndBeforeCooldown'
      BY <1>2, <2>1 DEF Tick, BreakerInv, OldCallsEndBeforeCooldown
    <2> QED
      BY <2>2, <2>3 DEF BreakerInv
  <1>3. ASSUME NEW c \in Callers, AllowClosed(c) PROVE BreakerInv'
    BY <1>3 DEF AllowClosed, Start, BreakerInv, ProbeRunsAlone, HalfOpenHasItsProbe,
                ClosedBelowThreshold, OldCallsEndBeforeCooldown
  <1>4. ASSUME NEW c \in Callers, AllowProbe(c) PROVE BreakerInv'
    <2>1. \A d \in Callers : ~InFlight(d)     \* nothing outlived the cooldown
      BY <1>4 DEF AllowProbe, BreakerInv, OldCallsEndBeforeCooldown
    <2>2. Probing(c)' /\ \A d \in Callers : InFlight(d)' => d = c
      BY <1>4, <2>1 DEF AllowProbe, Start
    <2> QED
      BY <1>4, <2>2 DEF AllowProbe, BreakerInv, ProbeRunsAlone, HalfOpenHasItsProbe,
                        ClosedBelowThreshold, OldCallsEndBeforeCooldown
  <1>5. ASSUME NEW c \in Callers, Reject(c) PROVE BreakerInv'
    <2>1. \A d \in Callers : /\ InFlight(d)' <=> InFlight(d)
                            /\ InFlight(d) => call'[d] = call[d]
      BY <1>5 DEF Reject, NoCall
    <2> QED
      BY <1>5, <2>1 DEF Reject, BreakerInv, ProbeRunsAlone, HalfOpenHasItsProbe,
                        ClosedBelowThreshold, OldCallsEndBeforeCooldown
  <1>6. ASSUME NEW c \in Callers, Succeed(c) \/ Fail(c) PROVE BreakerInv'
    <2>1. /\ ~InFlight(c)'
          /\ \A d \in Callers : d # c => call'[d] = call[d]
      BY <1>6 DEF Succeed, Fail, End, NoCall
    <2>2. ProbeRunsAlone'
      BY <2>1 DEF BreakerInv, ProbeRunsAlone
    <2>3. CASE Succeed(c)
      \* a success closes: if c is not the probe, there was none
      <3>1. \A d \in Callers : ~Probing(d)'
        BY <2>1, <2>3 DEF Succeed, BreakerInv, ProbeRunsAlone
      <3> QED
        BY <2>2, <2>3, <3>1 DEF Succeed, RecordSuccess, BreakerInv, HalfOpenHasItsProbe,
                                ClosedBelowThreshold, OldCallsEndBeforeCooldown
    <2>4. CASE Fail(c)
      <3>1. \A d \in Callers : ~Probing(d)'
        BY <2>1, <2>4 DEF Fail, BreakerInv, ProbeRunsAlone
      <3>2. state' # "HalfOpen"
        BY <2>1, <2>4 DEF Fail, RecordFailure, BreakerInv, ClosedBelowThreshold
      <3>3. HalfOpenHasItsProbe'
        BY <3>1, <3>2 DEF HalfOpenHasItsProbe
      <3>4. ClosedBelowThreshold'
        BY <2>4 DEF Fail, RecordFailure, BreakerInv, ClosedBelowThreshold
      <3>5. OldCallsEndBeforeCooldown'
        BY <2>1, <2>4 DEF Fail, RecordFailure, BreakerInv, OldCallsEndBeforeCooldown
      <3> QED
        BY <2>2, <3>3, <3>4, <3>5 DEF BreakerInv
    <2> QED
      BY <1>6, <2>3, <2>4
  <1>7. CASE UNCHANGED vars
    BY <1>7 DEF vars, BreakerInv, ProbeRunsAlone, HalfOpenHasItsProbe,
       ClosedBelowThreshold,
                OldCallsEndBeforeCooldown
  <1> QED
    BY <1>2, <1>3, <1>4, <1>5, <1>6, <1>7 DEF Next

(* The invariant holds in every reachable state. *)
THEOREM BreakerInvariance == Spec => []BreakerInv
  BY BreakerStarts, BreakerKept, PTL DEF Spec

(* Type correctness of the breaker and of its calls. *)
THEOREM TypeCorrect == Spec => []TypeOK
  BY BreakerInvariance, PTL DEF BreakerInv

(* A probing call is the only call in flight. *)
THEOREM ProbeIsAlone == Spec => []ProbeRunsAlone
  BY BreakerInvariance, PTL DEF BreakerInv

(* HalfOpen is never left without the call that will leave it. *)
THEOREM NoWedge == Spec => []HalfOpenHasItsProbe
  BY BreakerInvariance, PTL DEF BreakerInv

(* The counter of failures agrees with the state whatever late results do. *)
THEOREM CounterAgrees == Spec => []ClosedBelowThreshold
  BY BreakerInvariance, PTL DEF BreakerInv

(* The calls of before the trip have ended when the cooldown has. *)
THEOREM OldCallsEnd == Spec => []OldCallsEndBeforeCooldown
  BY BreakerInvariance, PTL DEF BreakerInv

(* The state invariants of the breaker together: what TLC checks as one. *)
THEOREM BreakerIsSafe == Spec => []BreakerSafety
  <1>1. BreakerInv => BreakerSafety
    BY DEF BreakerInv, BreakerSafety
  <1> QED
    BY <1>1, BreakerInvariance, PTL
-----------------------------------------------------------------------------
(* The rate limiter.  A key is created in its minute or later, so it outlives
   the minute: until that is over, whoever was let through in it is counted in
   the key.  And every count in a key is of a request that heard of it, or is a
   wasted one. *)

(* Minutes are whole, in order, and Window ticks long. *)
LEMMA MinuteType ==
    ASSUME NEW a \in Nat
    PROVE  /\ Minute(a) \in Nat /\ Minute(a + Window) = Minute(a) + 1
           /\ \A b \in Nat : a <= b => Minute(a) <= Minute(b)
  <1>1. Window \in Nat \ {0}
    BY RateAssumption
  <1>2. \A t \in Nat : /\ t \div Window \in Nat
                       /\ Window * (t \div Window) <= t /\ t < Window * (t \div Window) + Window
    BY <1>1
  <1>3. ASSUME NEW p \in Nat, NEW q \in Nat, p < q
        PROVE  Window * p + Window <= Window * q
    <2>1. PICK d \in Nat : q = p + 1 + d
      <3>1. q - p - 1 \in Nat /\ q = p + 1 + (q - p - 1)
        BY <1>3
      <3> QED
        BY <3>1
    <2>2. Window * q = Window * p + Window + Window * d
      BY <1>1, <2>1
    <2>3. Window * d \in Nat /\ Window * p \in Nat
      BY <1>1
    <2> QED
      BY <1>1, <2>2, <2>3
  <1>4. ASSUME NEW b \in Nat, a <= b PROVE Minute(a) <= Minute(b)
    <2> DEFINE p == a \div Window
               q == b \div Window
    <2>1. p \in Nat /\ q \in Nat /\ Window * p <= a /\ b < Window * q + Window
      BY <1>2
    <2>2. CASE q < p
      <3>1. Window * q + Window <= Window * p
        BY <1>3, <2>1, <2>2
      <3>2. Window * q \in Nat /\ Window * p \in Nat
        BY <1>1, <2>1
      <3> QED
        BY <1>1, <1>4, <2>1, <3>1, <3>2
    <2> QED
      BY <2>1, <2>2 DEF Minute
  <1>5. Minute(a + Window) = Minute(a) + 1
    BY <1>1 DEF Minute
  <1> QED
    BY <1>2, <1>4, <1>5 DEF Minute
RateKey == [count : Nat, expires : Nat]
RateRequest == [phase : {"new", "asking"} \union Ends,
                minute : Minutes, since : 0..MaxNow, tries : 0..MaxTries]

(* Those who heard of their count. *)
Heard(w) == {r \in Requests : /\ request[r].minute = w
                              /\ request[r].phase \in {"admitted", "limited"}}

RateTypes ==
    /\ now \in 0..MaxNow
    /\ key \in [Minutes -> RateKey]
    /\ wasted \in [Minutes -> Nat]
    /\ request \in [Requests -> RateRequest]
    /\ late \subseteq {r \in Requests : request[r].phase = "unanswered"}

(* A key with counts is not overdue, and stays to the end of its minute. *)
KeyLasts(w) ==
    IF key[w].count = 0 THEN key[w] = NoKey
    ELSE key[w].expires >= now /\ Minute(key[w].expires) > w

(* No request is of a minute to come. *)
Arrived(r) == request[r].minute <= Minute(now) /\ request[r].since <= now

RateInv ==
    /\ RateTypes
    /\ \A w \in Minutes : KeyLasts(w)
    /\ \A r \in Requests : Arrived(r)
    /\ Cardinality(AdmittedIn(Minute(now))) <= key[Minute(now)].count
    /\ AtMostLimit
    /\ \A w \in Minutes : key[w].count <= wasted[w] + Cardinality(Heard(w))
    /\ RefusedForCause

(* The clock is always in one of the minutes counted. *)
LEMMA MinuteOfNow ==
    ASSUME NEW t \in 0..MaxNow PROVE Minute(t) \in Minutes /\ Minute(t) \in Nat
  BY MinuteType, RateAssumption DEF Minutes

(* Any requests are finite in number. *)
LEMMA FewRequests ==
    ASSUME NEW S \in SUBSET Requests
    PROVE  IsFiniteSet(S) /\ Cardinality(S) \in Nat
  BY RateAssumption, FS_Subset, FS_CardinalityType

(* The script adds one to the key of a minute, which it may have to create, and
   then for Window ticks. *)
LEMMA Incrementing ==
    ASSUME RateTypes, \A v \in Minutes : KeyLasts(v), NEW w \in Minutes, w <= Minute(now),
           Increment(w)
    PROVE  /\ key' \in [Minutes -> RateKey]
           /\ key'[w].count = key[w].count + 1
           /\ \A v \in Minutes \ {w} : key'[v] = key[v]
           /\ \A v \in Minutes : now' = now => KeyLasts(v)'
  <1>1. now \in Nat /\ Window \in Nat /\ key[w] \in RateKey /\ w \in Nat
    <2>1. Minute(MaxNow) \in Nat
      BY RateAssumption, MinuteType
    <2> QED
      BY <2>1, RateAssumption DEF RateTypes, Minutes
  <1> DEFINE new == [count |-> key[w].count + 1,
                     expires |-> IF key[w].count = 0 THEN now + Window ELSE key[w].expires]
  <1>2. new \in RateKey
    BY <1>1 DEF RateKey
  <1>3. key' = [key EXCEPT ![w] = new]
    BY DEF Increment
  <1>4. new.count = key[w].count + 1 /\ new.count # 0 /\ key[w].count \in Nat
    BY <1>1 DEF RateKey
  <1>5. new.expires >= now /\ Minute(new.expires) > w
    <2>1. CASE key[w].count = 0
      BY <1>1, <2>1, MinuteType
    <2>2. CASE key[w].count # 0
      BY <2>2 DEF KeyLasts
    <2> QED
      BY <2>1, <2>2
  <1> HIDE DEF new
  <1>6. key' \in [Minutes -> RateKey] /\ key'[w] = new /\ \A v \in Minutes \ {w} : key'[v] = key[v]
    BY <1>2, <1>3 DEF RateTypes
  <1>7. ASSUME NEW v \in Minutes, now' = now PROVE KeyLasts(v)'
    <2>1. CASE v = w
      BY <1>4, <1>5, <1>6, <1>7, <2>1 DEF KeyLasts, Minute
    <2>2. CASE v # w
      BY <1>6, <1>7, <2>2 DEF KeyLasts, Minute
    <2> QED
      BY <2>1, <2>2
  <1> QED
    BY <1>4, <1>6, <1>7

(* The others in r's minute who heard of their count. *)
Peers(r) == {q \in Requests \ {r} : /\ request[q].minute = request[r].minute
                                    /\ request[q].phase \in {"admitted", "limited"}}
Cause(r) == request[r].phase = "limited" =>
               Limit <= wasted[request[r].minute] + Cardinality(Peers(r))

(* RefusedForCause, request by request. *)
LEMMA RefusedIsCause == RefusedForCause <=> \A r \in Requests : Cause(r)
  BY DEF RefusedForCause, Cause, Peers

(* A refusal keeps its cause: nobody who heard of a count takes it back. *)
LEMMA CauseKept ==
    ASSUME RateTypes, RateTypes', NEW q \in Requests, Cause(q), request'[q] = request[q],
           \A p \in Requests : request[p].phase \in {"admitted", "limited"} => request'[p] = request[p],
           \A w \in Minutes : wasted[w] <= wasted'[w]
    PROVE  Cause(q)'
  <1> SUFFICES ASSUME request'[q].phase = "limited"
               PROVE  Limit <= wasted'[request'[q].minute] + Cardinality(Peers(q)')
    BY DEF Cause
  <1>1. Peers(q) \subseteq Peers(q)'
    BY DEF Peers
  <1>2. IsFiniteSet(Peers(q)') /\ Cardinality(Peers(q)') \in Nat
    <2>1. Peers(q)' \in SUBSET Requests
      BY DEF Peers
    <2> QED
      BY <2>1, FewRequests
  <1>3. Cardinality(Peers(q)) <= Cardinality(Peers(q)')
    BY <1>1, <1>2, FS_Subset
  <1>4. Cardinality(Peers(q)) \in Nat
    <2>1. Peers(q) \in SUBSET Requests
      BY DEF Peers
    <2> QED
      BY <2>1, FewRequests
  <1>5. /\ request[q].minute \in Minutes
        /\ wasted[request[q].minute] \in Nat /\ wasted'[request[q].minute] \in Nat
    BY DEF RateTypes, RateRequest
  <1>6. Limit <= wasted[request[q].minute] + Cardinality(Peers(q))
    BY DEF Cause
  <1> QED
    BY <1>2, <1>3, <1>4, <1>5, <1>6, RateAssumption
(* A step after which the same requests have heard of their count: nothing is
   counted, or something is counted in vain. *)
LEMMA NobodyHears ==
    ASSUME RateInv, RateTypes', now' = now,
           \A q \in Requests :
               \/ request'[q] = request[q]
               \/ /\ request[q].phase \notin {"admitted", "limited"}
                  /\ request'[q].phase \notin {"admitted", "limited"}
                  /\ Arrived(q)',
           \/ UNCHANGED <<key, wasted>>
           \/ \E w \in Minutes : w <= Minute(now) /\ Increment(w) /\ Waste(w)
    PROVE  RateInv'
  <1>1. RateTypes /\ now \in Nat /\ Minute(now) \in Minutes
    BY MinuteOfNow, RateAssumption DEF RateInv, RateTypes
  <1>2. \A w : AdmittedIn(w)' = AdmittedIn(w)
    BY DEF AdmittedIn, Minute
  <1>3. \A w : Heard(w)' = Heard(w)
    BY DEF Heard
  <1>4. \A q \in Requests : Arrived(q)'
    BY DEF RateInv, Arrived, Minute
  <1> DEFINE InVain == \A w \in Minutes :
                          /\ key[w].count <= key'[w].count /\ wasted[w] <= wasted'[w]
                          /\ key'[w].count - key[w].count <= wasted'[w] - wasted[w]
  <1>5. (\A w \in Minutes : KeyLasts(w)') /\ InVain
    <2>1. CASE UNCHANGED <<key, wasted>>
      <3>1. \A w \in Minutes : key[w].count \in Nat /\ wasted[w] \in Nat
        BY <1>1 DEF RateTypes, RateKey
      <3> QED
        BY <2>1, <3>1 DEF RateInv, KeyLasts, Minute
    <2>2. ASSUME NEW w \in Minutes, w <= Minute(now), Increment(w), Waste(w)
          PROVE  (\A v \in Minutes : KeyLasts(v)') /\ InVain
      <3>1. /\ key'[w].count = key[w].count + 1
            /\ \A v \in Minutes \ {w} : key'[v] = key[v]
            /\ \A v \in Minutes : KeyLasts(v)'
        BY <1>1, <2>2, Incrementing DEF RateInv
      <3>2. wasted'[w] = wasted[w] + 1 /\ \A v \in Minutes \ {w} : wasted'[v] = wasted[v]
        BY <1>1, <2>2 DEF Waste, RateTypes
      <3>3. \A v \in Minutes : key[v].count \in Nat /\ wasted[v] \in Nat
        BY <1>1 DEF RateTypes, RateKey
      <3> QED
        BY <3>1, <3>2, <3>3
    <2> QED
      BY <2>1, <2>2
  <1>6. \A w \in Minutes : /\ key[w].count \in Nat /\ wasted[w] \in Nat
                           /\ key'[w].count \in Nat /\ wasted'[w] \in Nat
    BY <1>1 DEF RateTypes, RateKey
  <1>7. \A w \in Minutes : key'[w].count <= wasted'[w] + Cardinality(Heard(w)')
    <2>1. \A w \in Minutes : Cardinality(Heard(w)) \in Nat
      <3>1. \A w \in Minutes : Heard(w) \in SUBSET Requests
        BY DEF Heard
      <3> QED
        BY <3>1, FewRequests
    <2> QED
      BY <1>3, <1>5, <1>6, <2>1 DEF RateInv
  <1>8. Cardinality(AdmittedIn(Minute(now))') <= key'[Minute(now)].count
    <2>1. Cardinality(AdmittedIn(Minute(now))) \in Nat
      <3>1. AdmittedIn(Minute(now)) \in SUBSET Requests
        BY DEF AdmittedIn
      <3> QED
        BY <3>1, FewRequests
    <2> QED
      BY <1>1, <1>2, <1>5, <1>6, <2>1 DEF RateInv
  <1>9. \A w \in Minutes : Cardinality(AdmittedIn(w)') <= Limit
    BY <1>2 DEF RateInv, AtMostLimit
  <1>10. \A q \in Requests : Cause(q)'
    <2>1. \A q \in Requests : request'[q].phase = "limited" => request'[q] = request[q]
      OBVIOUS
    <2>2. \A q \in Requests : Cause(q)
      BY RefusedIsCause DEF RateInv
    <2> SUFFICES ASSUME NEW q \in Requests, request'[q] = request[q] PROVE Cause(q)'
      BY <2>1 DEF Cause
    <2> QED
      BY <1>1, <1>5, <2>2, CauseKept
  <1>11. RefusedForCause'
    BY <1>10 DEF RefusedForCause, Cause, Peers
  <1> QED
    BY <1>2, <1>3, <1>4, <1>5, <1>7, <1>8, <1>9, <1>11 DEF RateInv, AtMostLimit,
       AdmittedIn, Heard, Minute

(* The script answers: what it counted is heard of. *)
LEMMA RunKeeps == ASSUME RateInv, NEW r \in Requests, Run(r) PROVE RateInv'
  <1>1. request[r].minute \in Minutes
    BY DEF RateInv, RateTypes, RateRequest
  <1>2. PICK w \in Minutes : w = request[r].minute
    BY <1>1
  <1> DEFINE told == IF key[w].count + 1 > Limit THEN "limited" ELSE "admitted"
             new == [phase |-> told, minute |-> w,
                     since |-> IF told = "admitted" THEN now ELSE 0, tries |-> 0]
  <1>3. /\ RateTypes /\ now \in 0..MaxNow /\ now \in Nat /\ Minute(now) \in Minutes
        /\ w \in Minutes /\ w <= Minute(now) /\ request[r].phase = "asking" /\ now' = now
    BY <1>2, MinuteOfNow, RateAssumption DEF RateInv, RateTypes, RateRequest, Arrived,
       Run, Asking
  <1>4. /\ key' \in [Minutes -> RateKey] /\ key'[w].count = key[w].count + 1
        /\ \A v \in Minutes \ {w} : key'[v] = key[v]
        /\ \A v \in Minutes : KeyLasts(v)'
    BY <1>3, <1>2, Incrementing DEF RateInv, Run
  <1>5. new \in RateRequest
    BY <1>3, RateAssumption DEF RateRequest, Ends
  <1>6. request' = [request EXCEPT ![r] = new]
    BY <1>2 DEF Run, Settle
  <1>7. /\ new.phase \in {"admitted", "limited"} /\ new.minute = w /\ new.since <= now
        /\ (new.phase = "admitted" => new.since = now /\ key[w].count + 1 <= Limit)
        /\ (new.phase = "limited" => key[w].count + 1 > Limit)
        /\ key[w].count \in Nat
    BY <1>3, RateAssumption DEF RateTypes, RateKey
  <1> HIDE DEF new, told
  <1>8. /\ request' \in [Requests -> RateRequest] /\ request'[r] = new
        /\ \A q \in Requests \ {r} : request'[q] = request[q]
    BY <1>3, <1>5, <1>6 DEF RateTypes
  <1>9. RateTypes' /\ wasted' = wasted
    BY <1>4, <1>8, <1>3 DEF Run, RateTypes
  <1>10. \A q \in Requests : Arrived(q)'
    BY <1>3, <1>7, <1>8 DEF RateInv, Arrived, Minute
  <1>11. r \notin Heard(w) /\ Heard(w)' = Heard(w) \union {r}
        /\ \A v \in Minutes \ {w} : Heard(v)' = Heard(v)
    BY <1>3, <1>2, <1>7, <1>8 DEF Heard
  <1>12. \A v \in Minutes : /\ Cardinality(Heard(v)) \in Nat /\ Cardinality(AdmittedIn(v)) \in Nat
                           /\ key[v].count \in Nat /\ wasted[v] \in Nat
    <2>1. \A v \in Minutes : Heard(v) \in SUBSET Requests /\ AdmittedIn(v) \in SUBSET Requests
      BY DEF Heard, AdmittedIn
    <2> QED
      BY <1>3, <2>1, FewRequests DEF RateTypes, RateKey
  <1>13. Cardinality(Heard(w)') = Cardinality(Heard(w)) + 1
    <2>1. IsFiniteSet(Heard(w))
      <3>1. Heard(w) \in SUBSET Requests
        BY DEF Heard
      <3> QED
        BY <3>1, FewRequests
    <2> QED
      BY <1>11, <2>1, FS_AddElement
  <1>14. \A v \in Minutes : key'[v].count <= wasted'[v] + Cardinality(Heard(v)')
    <2>1. \A v \in Minutes : key[v].count <= wasted[v] + Cardinality(Heard(v))
      BY DEF RateInv
    <2>2. key'[w].count <= wasted'[w] + Cardinality(Heard(w)')
      BY <1>3, <1>4, <1>9, <1>12, <1>13, <2>1
    <2>3. ASSUME NEW v \in Minutes, v # w
          PROVE  key'[v].count <= wasted'[v] + Cardinality(Heard(v)')
      BY <1>4, <1>9, <1>11, <2>1, <2>3
    <2> QED
      BY <2>2, <2>3
  <1>15. /\ Cardinality(AdmittedIn(Minute(now))') <= key'[Minute(now)].count
         /\ \A v \in Minutes : Cardinality(AdmittedIn(v)') <= Limit
    <2>1. CASE new.phase = "admitted" /\ Minute(now) = w
      <3>1. r \notin AdmittedIn(w) /\ AdmittedIn(w)' = AdmittedIn(w) \union {r}
            /\ \A v \in Minutes \ {w} : AdmittedIn(v)' = AdmittedIn(v)
        BY <1>3, <1>2, <1>7, <1>8, <2>1 DEF AdmittedIn, Minute
      <3>2. IsFiniteSet(AdmittedIn(w))
        <4>1. AdmittedIn(w) \in SUBSET Requests
          BY DEF AdmittedIn
        <4> QED
          BY <4>1, FewRequests
      <3>3. Cardinality(AdmittedIn(w)') = Cardinality(AdmittedIn(w)) + 1
        BY <3>1, <3>2, FS_AddElement
      <3>4. Cardinality(AdmittedIn(w)) <= key[w].count
        BY <2>1 DEF RateInv
      <3>5. Cardinality(AdmittedIn(w)') <= key'[w].count /\ Cardinality(AdmittedIn(w)') <= Limit
        BY <1>3, <1>4, <1>7, <1>12, <2>1, <3>3, <3>4, RateAssumption
      <3>6. \A v \in Minutes : Cardinality(AdmittedIn(v)') <= Limit
        BY <3>1, <3>5 DEF RateInv, AtMostLimit
      <3>7. Cardinality(AdmittedIn(Minute(now))') <= key'[Minute(now)].count
        BY <1>3, <2>1, <3>5 DEF Minute
      <3> QED
        BY <3>6, <3>7
    <2>2. CASE ~(new.phase = "admitted" /\ Minute(now) = w)
      <3>1. \A v \in Minutes : AdmittedIn(v)' = AdmittedIn(v)
        BY <1>3, <1>2, <1>7, <1>8, <2>2 DEF AdmittedIn, Minute
      <3>2. key[Minute(now)].count <= key'[Minute(now)].count
        BY <1>3, <1>4, <1>12
      <3>3. key'[Minute(now)].count \in Nat
        BY <1>4, <1>3 DEF RateKey
      <3> QED
        BY <1>3, <1>12, <3>1, <3>2, <3>3 DEF RateInv, AtMostLimit
    <2> QED
      BY <2>1, <2>2
  <1>16. \A q \in Requests : Cause(q)'
    <2>1. \A q \in Requests : Cause(q)
      BY RefusedIsCause DEF RateInv
    <2>2. \A p \in Requests : request[p].phase \in {"admitted", "limited"} => request'[p] = request[p]
      BY <1>3, <1>8
    <2>3. \A v \in Minutes : wasted[v] <= wasted'[v]
      BY <1>9, <1>12
    <2>4. \A q \in Requests \ {r} : Cause(q)'
      BY <1>3, <1>8, <1>9, <2>1, <2>2, <2>3, CauseKept
    <2>5. ASSUME new.phase = "limited" PROVE Limit <= wasted[w] + Cardinality(Peers(r)')
      <3>1. Peers(r)' = Heard(w)
        BY <1>3, <1>7, <1>8 DEF Peers, Heard
      <3>2. key[w].count <= wasted[w] + Cardinality(Heard(w)) /\ key[w].count + 1 > Limit
        BY <1>3, <1>7, <2>5 DEF RateInv
      <3> QED
        BY <1>3, <1>12, <3>1, <3>2, RateAssumption
    <2>6. Cause(r)'
      BY <1>7, <1>8, <1>9, <2>5 DEF Cause
    <2> QED
      BY <2>4, <2>6
  <1>17. RefusedForCause'
    BY <1>16 DEF RefusedForCause, Cause, Peers
  <1> QED
    BY <1>3, <1>4, <1>9, <1>10, <1>14, <1>15, <1>17 DEF RateInv, AtMostLimit,
       AdmittedIn, Heard, Minute

(* Every step of requests, Redis and clock keeps the invariant. *)
LEMMA RateKept == RateInv /\ [RateNext]_rateVars => RateInv'
  <1> SUFFICES ASSUME RateInv, [RateNext]_rateVars PROVE RateInv'
    OBVIOUS
  <1>1. RateTypes /\ now \in 0..MaxNow /\ now \in Nat /\ Minute(now) \in Minutes
        /\ MaxNow \in Nat /\ Window \in Nat /\ MaxTries \in Nat \ {0}
    BY MinuteOfNow, RateAssumption DEF RateInv, RateTypes
  <1>2. \A r \in Requests : request[r] \in RateRequest /\ request[r].minute \in Minutes
                            /\ request[r].minute <= Minute(now)
    BY <1>1 DEF RateTypes, RateRequest, RateInv, Arrived
  <1>3. ASSUME NEW w \in Minutes, w <= Minute(now), Increment(w) \/ key' = key, now' = now
        PROVE  key' \in [Minutes -> RateKey]
    BY <1>3, <1>1, Incrementing DEF RateInv, RateTypes
  <1>4. ASSUME NEW r \in Requests, Arrive(r) PROVE RateInv'
    <2> DEFINE new == [phase |-> "asking", minute |-> Minute(now), since |-> now, tries |-> 1]
    <2>1. new \in RateRequest
      BY <1>1 DEF RateRequest
    <2>2. /\ request' = [request EXCEPT ![r] = new] /\ request[r].phase = "new"
          /\ UNCHANGED <<now, key, late, wasted>>
      BY <1>4 DEF Arrive
    <2>3. new.phase = "asking" /\ new.minute = Minute(now) /\ new.since = now
      OBVIOUS
    <2> HIDE DEF new
    <2>4. /\ request' \in [Requests -> RateRequest] /\ request'[r] = new
          /\ \A q \in Requests \ {r} : request'[q] = request[q]
      BY <1>1, <2>1, <2>2 DEF RateTypes
    <2>5. RateTypes'
      BY <1>1, <2>2, <2>4 DEF RateTypes
    <2>6. Arrived(r)'
      <3>1. Minute(now) \in Nat /\ Minute(now') = Minute(now) /\ now' = now
        BY <1>1, <2>2, MinuteOfNow
      <3> QED
        BY <1>1, <2>3, <2>4, <3>1 DEF Arrived
    <2> QED
      BY <2>2, <2>3, <2>4, <2>5, <2>6, NobodyHears
  <1>5. ASSUME NEW r \in Requests, Break(r) \/ GiveUp(r) PROVE RateInv'
    <2>1. request[r].phase = "asking" /\ now' = now
      BY <1>5 DEF Break, GiveUp, Asking
    <2>2. PICK new \in RateRequest :
             /\ request' = [request EXCEPT ![r] = new]
             /\ new.phase \in {"asking", "unanswered"} /\ new.minute = request[r].minute
             /\ new.since <= now
      <3>1. CASE Settle(r, "unanswered")
        <4> DEFINE new == [phase |-> "unanswered", minute |-> request[r].minute,
                           since |-> 0, tries |-> 0]
        <4>1. new \in RateRequest
          BY <1>1, <1>2 DEF RateRequest, Ends
        <4>2. request' = [request EXCEPT ![r] = new]
          BY <3>1 DEF Settle
        <4>3. new.phase = "unanswered" /\ new.minute = request[r].minute /\ new.since <= now
          BY <1>1
        <4> QED
          BY <4>1, <4>2, <4>3
      <3>2. CASE Break(r) /\ request[r].tries < MaxTries
                 /\ request' = [request EXCEPT ![r].tries = @ + 1]
        <4> DEFINE new == [request[r] EXCEPT !.tries = @ + 1]
        <4>1. new \in RateRequest /\ new.phase = "asking" /\ new.minute = request[r].minute
              /\ new.since = request[r].since
          BY <1>1, <1>2, <2>1, <3>2 DEF RateRequest
        <4>2. request' = [request EXCEPT ![r] = new]
          BY <3>2
        <4>3. request[r].since <= now
          BY DEF RateInv, Arrived
        <4> QED
          BY <4>1, <4>2, <4>3
      <3> QED
        BY <1>5, <3>1, <3>2 DEF Break, GiveUp
    <2>3. /\ request' \in [Requests -> RateRequest] /\ request'[r] = new
          /\ \A q \in Requests \ {r} : request'[q] = request[q]
      BY <1>1, <2>2 DEF RateTypes
    <2>4. \/ UNCHANGED <<key, wasted>>
          \/ \E w \in Minutes : w <= Minute(now) /\ Increment(w) /\ Waste(w)
      BY <1>5, <1>2 DEF Break, GiveUp
    <2>5. key' \in [Minutes -> RateKey] /\ wasted' \in [Minutes -> Nat]
      BY <1>1, <1>3, <2>1, <2>4 DEF Waste, RateTypes
    <2>6. late' \subseteq {q \in Requests : request'[q].phase = "unanswered"}
      <3>1. \A q \in late : q \in Requests /\ request'[q].phase = "unanswered"
        BY <1>1, <2>1, <2>3 DEF RateTypes
      <3>2. CASE Break(r)
        BY <3>1, <3>2 DEF Break
      <3>3. CASE GiveUp(r)
        <4>1. request'[r].phase = "unanswered"
          BY <1>1, <3>3 DEF GiveUp, Settle, RateTypes
        <4> QED
          BY <3>1, <3>3, <4>1 DEF GiveUp
      <3> QED
        BY <1>5, <3>2, <3>3
    <2>7. RateTypes'
      BY <1>1, <2>1, <2>3, <2>5, <2>6 DEF RateTypes
    <2>8. Arrived(r)'
      BY <1>2, <2>1, <2>2, <2>3 DEF Arrived, Minute
    <2> QED
      BY <2>1, <2>2, <2>3, <2>4, <2>7, <2>8, NobodyHears
  <1>6. ASSUME NEW r \in Requests, RunLate(r) PROVE RateInv'
    <2>1. \/ UNCHANGED <<key, wasted>>
          \/ \E w \in Minutes : w <= Minute(now) /\ Increment(w) /\ Waste(w)
      BY <1>6, <1>2 DEF RunLate
    <2>2. now' = now /\ request' = request /\ late' \subseteq late
      BY <1>6 DEF RunLate
    <2>3. key' \in [Minutes -> RateKey] /\ wasted' \in [Minutes -> Nat]
      BY <1>1, <1>3, <2>1, <2>2 DEF Waste, RateTypes
    <2>4. RateTypes'
      BY <1>1, <2>2, <2>3 DEF RateTypes
    <2> QED
      BY <2>1, <2>2, <2>4, NobodyHears
  <1>7. ASSUME NEW w \in Minutes, Expire(w) PROVE RateInv'
    <2>1. /\ key[w].count > 0 /\ key[w].expires = now /\ Minute(now) > w
          /\ UNCHANGED <<now, request, late, wasted>>
      BY <1>7, <1>1 DEF Expire, RateInv, KeyLasts, RateTypes, RateKey
    <2>2. NoKey \in RateKey /\ NoKey.count = 0
      BY DEF NoKey, RateKey
    <2>3. /\ key' \in [Minutes -> RateKey] /\ key'[w] = NoKey
          /\ \A v \in Minutes \ {w} : key'[v] = key[v]
      BY <1>7, <1>1, <2>2 DEF Expire, RateTypes
    <2>4. RateTypes'
      BY <1>1, <2>1, <2>3 DEF RateTypes
    <2>5. \A v \in Minutes : KeyLasts(v)'
      BY <2>1, <2>2, <2>3 DEF RateInv, KeyLasts, Minute
    <2>6. \A v : AdmittedIn(v)' = AdmittedIn(v) /\ Heard(v)' = Heard(v)
      BY <2>1 DEF AdmittedIn, Heard, Minute
    <2>7. \A v \in Minutes : key'[v].count <= wasted'[v] + Cardinality(Heard(v)')
      <3>1. Heard(w) \in SUBSET Requests
        BY DEF Heard
      <3>2. Cardinality(Heard(w)) \in Nat /\ wasted[w] \in Nat
        BY <1>1, <3>1, FewRequests DEF RateTypes
      <3> QED
        BY <2>1, <2>2, <2>3, <2>6, <3>2 DEF RateInv
    <2>8. Cardinality(AdmittedIn(Minute(now))') <= key'[Minute(now)].count
      BY <1>1, <2>1, <2>3, <2>6 DEF RateInv, Minutes
    <2>9. \A q \in Requests : Arrived(q)'
      BY <2>1 DEF RateInv, Arrived, Minute
    <2>10. RefusedForCause'
      BY <2>1 DEF RateInv, RefusedForCause
    <2> QED
      BY <2>1, <2>4, <2>5, <2>6, <2>7, <2>8, <2>9, <2>10
         DEF RateInv, AtMostLimit, AdmittedIn, Heard, Minute
  <1>8. CASE RateTick
    <2>1. /\ now' = now + 1 /\ now' \in 0..MaxNow /\ now' \in Nat
          /\ UNCHANGED <<key, request, late, wasted>>
          /\ \A w \in Minutes : key[w].count > 0 => key[w].expires > now
      BY <1>1, <1>8 DEF RateTick
    <2>2. Minute(now) <= Minute(now') /\ Minute(now') \in Minutes /\ Minute(now') \in Nat
          /\ Minute(now) \in Nat
      BY <1>1, <2>1, MinuteType, MinuteOfNow
    <2>3. RateTypes'
      BY <1>1, <2>1 DEF RateTypes
    <2>4. \A v \in Minutes : KeyLasts(v)'
      <3>1. \A v \in Minutes : key[v].count \in Nat /\ key[v].expires \in Nat
        BY <1>1 DEF RateTypes, RateKey
      <3> QED
        BY <1>1, <2>1, <3>1 DEF RateInv, KeyLasts, Minute
    <2>5. \A v : AdmittedIn(v)' = AdmittedIn(v) /\ Heard(v)' = Heard(v)
      BY <2>1 DEF AdmittedIn, Heard, Minute
    <2>6. \A q \in Requests : Arrived(q)'
      <3>1. \A q \in Requests : request[q].minute \in Int /\ request[q].since \in Int
        BY <1>1, <2>2, MinuteOfNow DEF RateTypes, RateRequest, Minutes
      <3>2. \A q \in Requests : request[q].minute <= Minute(now') /\ request[q].since <= now'
        BY <1>1, <2>1, <2>2, <3>1 DEF RateInv, Arrived
      <3> QED
        BY <2>1, <3>2 DEF Arrived, Minute
    <2>7. Cardinality(AdmittedIn(Minute(now'))) <= key[Minute(now')].count
      <3>1. CASE Minute(now') = Minute(now)
        BY <3>1 DEF RateInv
      <3>2. CASE Minute(now') # Minute(now)      \* a new minute
        <4>1. \A q \in Requests : request[q].since \in Nat /\ request[q].since <= now
          BY <1>1 DEF RateTypes, RateRequest, RateInv, Arrived
        <4>2. \A q \in Requests : Minute(request[q].since) <= Minute(now)
                                 /\ Minute(request[q].since) \in Nat
          BY <1>1, <4>1, MinuteType
        <4>3. AdmittedIn(Minute(now')) = {}
          BY <2>2, <3>2, <4>2 DEF AdmittedIn
        <4>4. key[Minute(now')].count \in Nat
          BY <1>1, <2>2 DEF RateTypes, RateKey
        <4> QED
          BY <4>3, <4>4, FS_EmptySet
      <3> QED
        BY <3>1, <3>2
    <2>8. RefusedForCause'
      BY <2>1 DEF RateInv, RefusedForCause
    <2> QED
      BY <2>1, <2>3, <2>4, <2>5, <2>6, <2>7, <2>8
         DEF RateInv, AtMostLimit, AdmittedIn, Heard, Minute
  <1>9. CASE UNCHANGED rateVars
    BY <1>9 DEF rateVars, RateInv, RateTypes, KeyLasts, Arrived, AtMostLimit,
       AdmittedIn, Heard,
                RefusedForCause, Minute
  <1> QED
    BY <1>4, <1>5, <1>6, <1>7, <1>8, <1>9, RunKeeps DEF RateNext

(* The invariant of the rate limiter, in every reachable state. *)
THEOREM RateInvariance == RateSpec => []RateInv
  <1>1. RateInit => RateInv
    <2> SUFFICES ASSUME RateInit PROVE RateInv
      OBVIOUS
    <2>1. MaxNow \in Nat /\ MaxTries \in Nat /\ 0 \in 0..MaxNow /\ 0 \in 0..MaxTries
      BY RateAssumption
    <2>2. 0 \in Minutes /\ Minute(0) \in Minutes /\ Minute(0) \in Nat
      BY <2>1, MinuteOfNow DEF Minutes
    <2>3. RateTypes
      BY <2>1, <2>2 DEF RateInit, RateTypes, NoKey, RateKey, NewRequest, RateRequest
    <2>4. \A w \in Minutes : KeyLasts(w) /\ key[w].count = 0 /\ wasted[w] = 0
      BY DEF RateInit, KeyLasts, NoKey
    <2>5. \A r \in Requests : Arrived(r) /\ request[r].phase = "new"
      BY <2>2 DEF RateInit, Arrived, NewRequest
    <2>6. \A w \in Minutes : AdmittedIn(w) = {} /\ Heard(w) = {}
      BY <2>5 DEF AdmittedIn, Heard
    <2>7. \A w \in Minutes : Cardinality(AdmittedIn(w)) = 0 /\ Cardinality(Heard(w)) = 0
      BY <2>6, FS_EmptySet
    <2>8. AtMostLimit /\ Cardinality(AdmittedIn(Minute(now))) <= key[Minute(now)].count
      BY <2>2, <2>4, <2>7, RateAssumption DEF AtMostLimit, RateInit
    <2> QED
      BY <2>3, <2>4, <2>5, <2>7, <2>8 DEF RateInv, RefusedForCause
  <1> QED
    BY <1>1, RateKept, PTL DEF RateSpec

(* Within a minute no more than Limit requests of a key are let through, over
   all gateways, whatever commands are sent again, run late or get lost; and a
   refusal for the limit has Limit counts behind it. *)
THEOREM RateIsSafe == RateSpec => []RateSafety
  <1>1. RateInv => RateSafety
    <2> SUFFICES ASSUME RateInv PROVE RateTypeOK
      BY DEF RateInv, RateSafety
    <2>1. \A w \in Minutes : key[w].count \in Nat
      BY DEF RateInv, RateTypes, RateKey
    <2>2. \A w \in Minutes : key[w] = NoKey \/ (key[w].count > 0 /\ key[w].expires >= now)
      BY <2>1 DEF RateInv, KeyLasts
    <2> QED
      BY <2>2 DEF RateInv, RateTypes, RateTypeOK, RateRequest
  <1> QED
    BY <1>1, RateInvariance, PTL
-----------------------------------------------------------------------------
(* The agent loop.  A command is under way from the reply that calls for it to
   the end of its step. *)
Executing == phase \in {"execute", "running", "held"}
Listening == outcome = "none" /\ ~Executing

AgentStepType == [tool : {"bash", "file"}, lines : SUBSET {"work", "done"}, fate : Fates]

PhaseInv ==
    /\ outcome = "none" <=> phase \in {"new", "refused", "generate", "panicked"} \/ Executing
    /\ outcome = "done" => steps # <<>>
    /\ phase = "done" /\ outcome # "error" => shown = steps

(* nudges counts the replies at the end that call for nothing. *)
NudgeInv ==
    /\ outcome = "none" => nudges <= 1
    /\ outcome = "text" => nudges = 2
    /\ Executing => nudges = 0 /\ Len(said) > 0
    /\ outcome # "done" =>
          /\ nudges <= Len(said)
          /\ \A k \in 1..Len(said) : k > Len(said) - nudges => said[k].call = NoInput
          /\ Len(said) > nudges => said[Len(said) - nudges].call # NoInput

(* lastCmd is the last call, and a call under way is the last thing said. *)
CallInv ==
    /\ \A k \in 1..Len(said) : said[k].call # NoInput => Len(calls) > 0
    /\ Executing => Len(calls) > 0 /\ calls[Len(calls)] = said[Len(said)].call
    /\ outcome # "done" => lastCmd = IF Len(calls) = 0 THEN 0 ELSE calls[Len(calls)].id

(* A DONE that was not believed stands before the first call, and a command with
   a DONE in it is not gone beyond. *)
Unbelieved(k) == said[k].done => \A j \in 1..k - 1 : said[j].call = NoInput
DoneInv ==
    /\ \A k \in 1..Len(said) : k < Len(said) \/ outcome = "none" => Unbelieved(k)
    /\ \A k \in 1..Len(said) :
          (k < Len(said) \/ Listening) /\ said[k].call # NoInput => ~SaysDone(said[k].call)

(* A command that was not started ends the conversation: the context is done. *)
NeverInv ==
    \A k \in 1..Len(steps) : steps[k].fate = "never" => k = Len(steps) /\ expired /\ ~Executing

(* Every call is executed before the model is asked again. *)
StepInv ==
    /\ \/ Len(calls) = Len(steps) + 1 /\ (Executing \/ outcome \in {"done", "stopped"})
       \/ Len(calls) = Len(steps) /\ ~Executing
    /\ \A k \in 1..Len(steps) :
          /\ "work" \in calls[k].lines => "work" \in steps[k].lines
          /\ steps[k].lines = {} => calls[k].lines = {}

AgentInv ==
    /\ AgentTypeOK
    /\ PhaseInv /\ NudgeInv /\ CallInv /\ DoneInv /\ NeverInv /\ StepInv
    /\ RepetitionEnds

(* Appending to a sequence, one fact at a time. *)
LEMMA OneMore ==
    ASSUME NEW S, NEW s \in Seq(S), NEW e \in S
    PROVE  /\ Append(s, e) \in Seq(S) /\ Append(s, e) # <<>>
           /\ Len(s) \in Nat /\ Len(Append(s, e)) = Len(s) + 1
           /\ Append(s, e)[Len(s) + 1] = e
           /\ \A k \in 1..Len(s) : Append(s, e)[k] = s[k]
  BY AppendProperties, LenProperties

(* The handler starts with nothing said. *)
LEMMA AgentStarts == AgentInit => AgentInv
  <1> SUFFICES ASSUME AgentInit PROVE AgentInv
    OBVIOUS
  <1>1. AgentTypeOK
    <2>1. 0 \in 0..MaxAgentSteps - 1
      BY AgentAssumption
    <2>2. \A S : <<>> \in Seq(S)
      OBVIOUS
    <2>3. slot \in BOOLEAN /\ expired \in BOOLEAN
      BY Zenon DEF AgentInit
    <2>4. nudges \in 0..2
      BY DEF AgentInit
    <2>5. {slot, expired} \subseteq BOOLEAN /\ nudges \in 0..2
      BY <2>3, <2>4
    <2>6. lastCmd \in {0} \cup {input.id : input \in Inputs}
      BY DEF AgentInit
    <2>7. said \in Seq(Reply) /\ calls \in Seq(Inputs)
      BY <2>2 DEF AgentInit
    <2>8. {steps, shown} \subseteq Seq([tool : {"bash", "file"},
                                     lines : SUBSET {"work", "done"}, fate : Fates])
      BY <2>2, Zenon DEF AgentInit
    <2> QED
      BY <2>1, <2>5, <2>6, <2>7, <2>8 DEF AgentInit, AgentTypeOK, Phases, Outcomes
  <1>2. Len(said) = 0 /\ Len(calls) = 0 /\ Len(steps) = 0 /\ ~Executing /\ outcome = "none"
    BY DEF AgentInit, Executing
  <1> QED
    BY <1>1, <1>2 DEF AgentInit, AgentInv, PhaseInv, NudgeInv, CallInv, DoneInv,
       NeverInv,
                      StepInv, RepetitionEnds

(* Steps that leave the conversation alone. *)
LEMMA QuietKeeps ==
    ASSUME AgentInv, UNCHANGED loopVars, Executing' <=> Executing, expired => expired',
           AgentTypeOK', PhaseInv'
    PROVE  AgentInv'
  <1>1. /\ said' = said /\ calls' = calls /\ steps' = steps /\ outcome' = outcome
        /\ nudges' = nudges /\ lastCmd' = lastCmd
    BY DEF loopVars
  <1>2. NudgeInv' /\ CallInv'
    BY <1>1 DEF AgentInv, NudgeInv, CallInv
  <1>3. DoneInv'
    BY <1>1 DEF AgentInv, DoneInv, Unbelieved, Listening
  <1>4. NeverInv'
    BY <1>1 DEF AgentInv, NeverInv
  <1>5. StepInv' /\ RepetitionEnds'
    BY <1>1 DEF AgentInv, StepInv, RepetitionEnds
  <1> QED
    BY <1>2, <1>3, <1>4, <1>5 DEF AgentInv

(* What is true while the model is listened to, and what a reply changes. *)
LEMMA Hearkening ==
    ASSUME AgentInv, NEW reply \in Reply, Hears(reply)
    PROVE  /\ outcome = "none" /\ ~Executing /\ Listening /\ ~expired /\ phase = "generate"
           /\ Len(calls) = Len(steps) /\ nudges \in 0..1
           /\ Len(said) \in Nat /\ Len(calls) \in Nat
           /\ said' \in Seq(Reply) /\ Len(said') = Len(said) + 1
           /\ said'[Len(said) + 1] = reply
           /\ \A k \in 1..Len(said) : said'[k] = said[k]
           /\ calls' \in Seq(Inputs)
           /\ reply.call = NoInput => calls' = calls
           /\ reply.call # NoInput =>
                 /\ reply.call \in Inputs /\ Len(calls') = Len(calls) + 1
                 /\ calls'[Len(calls) + 1] = reply.call
                 /\ \A k \in 1..Len(calls) : calls'[k] = calls[k]
  <1>1. said \in Seq(Reply) /\ calls \in Seq(Inputs) /\ nudges \in 0..2
    BY DEF AgentInv, AgentTypeOK
  <1>2. phase = "generate" /\ ~expired /\ ~Executing
    BY DEF Hears, Executing
  <1>3. outcome = "none"
    BY <1>2 DEF AgentInv, PhaseInv
  <1>4. Len(calls) = Len(steps) /\ nudges \in 0..1
    BY <1>1, <1>2, <1>3 DEF AgentInv, StepInv, NudgeInv
  <1>5. /\ said' \in Seq(Reply) /\ Len(said') = Len(said) + 1 /\ Len(said) \in Nat
        /\ said'[Len(said) + 1] = reply /\ \A k \in 1..Len(said) : said'[k] = said[k]
    BY <1>1, OneMore DEF Hears
  <1>6. Len(calls) \in Nat
    BY <1>1, LenProperties
  <1>7. CASE reply.call = NoInput
    BY <1>1, <1>2, <1>3, <1>4, <1>5, <1>6, <1>7 DEF Hears, Listening
  <1>8. CASE reply.call # NoInput
    <2>1. reply.call \in Inputs
      BY <1>8 DEF Reply
    <2>2. calls' = Append(calls, reply.call)
      BY <1>8 DEF Hears
    <2>3. /\ calls' \in Seq(Inputs) /\ Len(calls') = Len(calls) + 1
          /\ calls'[Len(calls) + 1] = reply.call
          /\ \A k \in 1..Len(calls) : calls'[k] = calls[k]
      BY <1>1, <2>1, <2>2, OneMore
    <2> QED
      BY <1>2, <1>3, <1>4, <1>5, <1>6, <1>8, <2>1, <2>3 DEF Listening
  <1> QED
    BY <1>7, <1>8

(* The steps are those of the calls so far, whatever is heard. *)
LEMMA HeardSteps ==
    ASSUME AgentInv, NEW reply \in Reply, Hears(reply), UNCHANGED <<steps, expired>>
    PROVE  /\ NeverInv'
           /\ \A k \in 1..Len(steps) : /\ "work" \in calls'[k].lines => "work" \in steps'[k].lines
                                       /\ steps'[k].lines = {} => calls'[k].lines = {}
           /\ \A k \in 1..Len(calls) - 1 : calls[k].id # calls[k + 1].id
  <1>1. \A k \in 1..Len(steps) : steps[k].fate # "never"
    BY Hearkening DEF AgentInv, NeverInv
  <1>2. \A k \in 1..Len(steps) : calls'[k] = calls[k]
    BY Hearkening
  <1>3. \A k \in 1..Len(calls) - 1 : calls[k].id # calls[k + 1].id
    BY Hearkening DEF AgentInv, RepetitionEnds
  <1> QED
    BY <1>1, <1>2, <1>3 DEF NeverInv, AgentInv, StepInv

(* A DONE that is not believed comes before any call. *)
LEMMA HeardDone ==
    ASSUME AgentInv, NEW reply \in Reply, Hears(reply)
    PROVE  /\ \A k \in 1..Len(said) : Unbelieved(k)'
           /\ ~Believed(reply) => \A k \in 1..Len(said') : Unbelieved(k)'
           /\ \A k \in 1..Len(said) : said'[k].call # NoInput => ~SaysDone(said'[k].call)
  <1>1. ASSUME NEW k \in 1..Len(said) PROVE Unbelieved(k)'
    <2>1. Unbelieved(k) /\ \A j \in 1..k : said'[j] = said[j]
      BY Hearkening DEF AgentInv, DoneInv
    <2> QED
      BY <2>1, Hearkening DEF Unbelieved
  <1>2. ASSUME ~Believed(reply), reply.done, NEW j \in 1..Len(said)
        PROVE  said'[j].call = NoInput
    <2>1. Len(calls) = 0
      BY <1>2, Hearkening DEF Believed
    <2> QED
      BY <2>1, Hearkening DEF AgentInv, CallInv
  <1>3. ASSUME ~Believed(reply), NEW k \in 1..Len(said') PROVE Unbelieved(k)'
    <2>1. CASE k = Len(said) + 1
      BY <1>2, <1>3, <2>1, Hearkening DEF Unbelieved
    <2> QED
      BY <1>1, <1>3, <2>1, Hearkening
  <1>4. \A k \in 1..Len(said) : said'[k].call # NoInput => ~SaysDone(said'[k].call)
    BY Hearkening DEF AgentInv, DoneInv
  <1> QED
    BY <1>1, <1>3, <1>4

(* The types, and what the phases say, through a reply and through a step. *)
LEMMA HearingType ==
    ASSUME AgentInv, NEW reply \in Reply,
           Finishes(reply) \/ Answers(reply) \/ Repeats(reply) \/ Calls(reply)
    PROVE  AgentTypeOK' /\ PhaseInv'
  <1>1. Hears(reply) /\ UNCHANGED <<slot, expired, steps, shown>>
    BY DEF Finishes, Answers, Repeats, Calls
  <1>2. said' \in Seq(Reply) /\ calls' \in Seq(Inputs) /\ nudges \in 0..1
    BY <1>1, Hearkening
  <1>3. nudges' \in 0..2
    BY <1>2 DEF Finishes, Answers, Repeats, Calls
  <1>4. lastCmd' \in {0} \cup {input.id : input \in Inputs}
    <2>1. CASE Calls(reply)
      BY <1>1, <2>1, Hearkening DEF Calls
    <2>2. CASE ~Calls(reply)
      BY <2>2 DEF Finishes, Answers, Repeats, AgentInv, AgentTypeOK
    <2> QED
      BY <2>1, <2>2
  <1>5. turn' \in 0..MaxAgentSteps - 1
    BY AgentAssumption
       DEF Finishes, Answers, Repeats, Calls, Stop, NextTurn, AgentInv, AgentTypeOK
  <1>6. /\ outcome' \in Outcomes /\ phase' \in Phases
        /\ outcome' = "none" <=> phase' \in {"generate", "execute"}
        /\ phase' # "done" /\ phase' # "new" /\ phase' # "refused"
        /\ phase' # "running" /\ phase' # "held" /\ phase' # "panicked"
        /\ outcome' = "done" => steps # <<>>
    BY <1>1, Hearkening
       DEF Finishes, Believed, Answers, Repeats, Calls, Stop, NextTurn, Outcomes, Phases
  <1>7. AgentTypeOK'
    BY <1>1, <1>2, <1>3, <1>4, <1>5, <1>6 DEF AgentInv, AgentTypeOK
  <1> QED
    BY <1>1, <1>6, <1>7 DEF PhaseInv, Executing

(* A DONE that is believed ends the loop. *)
LEMMA FinishKeeps ==
    ASSUME AgentInv, NEW reply \in Reply, Finishes(reply) PROVE AgentInv'
  <1>1. Hears(reply) /\ UNCHANGED <<expired, steps>> /\ outcome' = "done" /\ phase' = "answer"
    BY DEF Finishes, Stop
  <1>2. ~Executing' /\ ~Listening'
    BY <1>1 DEF Executing, Listening
  <1>3. AgentTypeOK' /\ PhaseInv'
    BY HearingType
  <1>4. NudgeInv'
    BY <1>1, <1>2 DEF NudgeInv
  <1>5. CallInv'
    BY <1>1, <1>2, Hearkening DEF CallInv, AgentInv
  <1>6. DoneInv'
    BY <1>1, <1>2, Hearkening, HeardDone DEF DoneInv
  <1>7. NeverInv' /\ StepInv'
    BY <1>1, <1>2, Hearkening, HeardSteps DEF StepInv
  <1>8. RepetitionEnds'
    BY <1>1, Hearkening, HeardSteps DEF RepetitionEnds
  <1> QED
    BY <1>3, <1>4, <1>5, <1>6, <1>7, <1>8 DEF AgentInv

(* A reply without a call: one more nudge, or the end. *)
LEMMA AnswerKeeps ==
    ASSUME AgentInv, NEW reply \in Reply, Answers(reply) PROVE AgentInv'
  <1>1. /\ Hears(reply) /\ ~Believed(reply) /\ reply.call = NoInput
        /\ UNCHANGED <<expired, steps, lastCmd>> /\ nudges' = nudges + 1
    BY DEF Answers
  <1>2. /\ ~Executing' /\ outcome' \in {"none", "text", "exhausted"}
        /\ outcome' = "none" => nudges' <= 1
        /\ outcome' = "text" => nudges' >= 2
    BY <1>1, Hearkening DEF Answers, Stop, NextTurn, Executing
  <1>3. AgentTypeOK' /\ PhaseInv'
    BY HearingType
  <1>4. NudgeInv'
    <2>1. /\ nudges \in 0..1 /\ nudges <= Len(said)
          /\ \A k \in 1..Len(said) : k > Len(said) - nudges => said[k].call = NoInput
          /\ Len(said) > nudges => said[Len(said) - nudges].call # NoInput
      BY <1>1, Hearkening DEF AgentInv, NudgeInv
    <2>2. nudges' <= Len(said') /\ Len(said') - nudges' = Len(said) - nudges
      BY <1>1, <2>1, Hearkening
    <2>3. \A k \in 1..Len(said') : k > Len(said') - nudges' => said'[k].call = NoInput
      BY <1>1, <2>1, <2>2, Hearkening
    <2>4. Len(said') > nudges' => said'[Len(said') - nudges'].call # NoInput
      BY <1>1, <2>1, <2>2, Hearkening
    <2>5. (outcome' = "none" => nudges' <= 1) /\ (outcome' = "text" => nudges' = 2)
      BY <1>1, <1>2, <2>1
    <2> QED
      BY <1>2, <2>2, <2>3, <2>4, <2>5 DEF NudgeInv
  <1>5. CallInv'
    BY <1>1, <1>2, Hearkening DEF CallInv, AgentInv
  <1>6. DoneInv'
    BY <1>1, <1>2, Hearkening, HeardDone DEF DoneInv
  <1>7. NeverInv' /\ StepInv'
    BY <1>1, <1>2, Hearkening, HeardSteps DEF StepInv
  <1>8. RepetitionEnds'
    BY <1>1, <1>2, Hearkening, HeardSteps DEF RepetitionEnds
  <1> QED
    BY <1>3, <1>4, <1>5, <1>6, <1>7, <1>8 DEF AgentInv

(* A call like the last one ends the loop. *)
LEMMA RepeatKeeps ==
    ASSUME AgentInv, NEW reply \in Reply, Repeats(reply) PROVE AgentInv'
  <1>1. /\ Hears(reply) /\ ~Believed(reply) /\ reply.call # NoInput
        /\ UNCHANGED <<expired, steps, lastCmd>> /\ nudges' = 0
        /\ outcome' = "stopped" /\ phase' = "answer" /\ reply.call.id = lastCmd
    BY DEF Repeats, Stop
  <1>2. ~Executing' /\ ~Listening'
    BY <1>1 DEF Executing, Listening
  <1>3. AgentTypeOK' /\ PhaseInv'
    BY HearingType
  <1>4. NudgeInv'
    BY <1>1, <1>2, Hearkening DEF NudgeInv
  <1>5. CallInv'
    BY <1>1, <1>2, Hearkening DEF CallInv, AgentInv
  <1>6. DoneInv'
    BY <1>1, <1>2, Hearkening, HeardDone DEF DoneInv
  <1>7. NeverInv' /\ StepInv'
    BY <1>1, <1>2, Hearkening, HeardSteps DEF StepInv
  <1>8. RepetitionEnds'
    <2>1. reply.call.id # 0
      BY <1>1, Hearkening, AgentAssumption DEF Input
    <2>2. Len(calls) > 0 /\ calls[Len(calls)].id = lastCmd
      BY <1>1, <2>1, Hearkening DEF AgentInv, CallInv
    <2>3. /\ Len(calls') - 1 = Len(calls)
          /\ calls'[Len(calls)].id = calls'[Len(calls) + 1].id
      BY <1>1, <2>2, Hearkening
    <2>4. \A k \in 1..Len(calls) - 1 : calls'[k].id # calls'[k + 1].id
      BY <1>1, Hearkening, HeardSteps
    <2> QED
      BY <1>1, <2>2, <2>3, <2>4, Hearkening DEF RepetitionEnds
  <1> QED
    BY <1>3, <1>4, <1>5, <1>6, <1>7, <1>8 DEF AgentInv

(* A call unlike the last one is about to be executed. *)
LEMMA CallKeeps ==
    ASSUME AgentInv, NEW reply \in Reply, Calls(reply) PROVE AgentInv'
  <1>1. /\ Hears(reply) /\ ~Believed(reply) /\ reply.call # NoInput
        /\ UNCHANGED <<expired, steps, outcome>> /\ nudges' = 0
        /\ phase' = "execute" /\ reply.call.id # lastCmd /\ lastCmd' = reply.call.id
    BY DEF Calls
  <1>2. Executing' /\ ~Listening' /\ outcome' = "none"
    BY <1>1, Hearkening DEF Executing, Listening
  <1>3. AgentTypeOK' /\ PhaseInv'
    BY HearingType
  <1>4. NudgeInv'
    BY <1>1, <1>2, Hearkening DEF NudgeInv
  <1>5. CallInv'
    BY <1>1, <1>2, Hearkening DEF CallInv, AgentInv
  <1>6. DoneInv'
    BY <1>1, <1>2, Hearkening, HeardDone DEF DoneInv
  <1>7. NeverInv' /\ StepInv'
    BY <1>1, <1>2, Hearkening, HeardSteps DEF StepInv
  <1>8. RepetitionEnds'
    <2>1. Len(calls) > 0 => calls[Len(calls)].id = lastCmd
      BY <1>1, Hearkening DEF AgentInv, CallInv
    <2>2. \A k \in 1..Len(calls) : calls'[k].id # calls'[k + 1].id
      BY <1>1, <2>1, Hearkening, HeardSteps
    <2> QED
      BY <1>1, <1>2, <2>2, Hearkening DEF RepetitionEnds
  <1> QED
    BY <1>3, <1>4, <1>5, <1>6, <1>7, <1>8 DEF AgentInv

(* The call under way is the last one, and its lines stay but for a DONE. *)
LEMMA UnderWay ==
    ASSUME AgentInv, Executing
    PROVE  /\ outcome = "none" /\ ~Listening /\ nudges = 0 /\ Len(said) \in Nat \ {0}
           /\ Len(steps) \in Nat /\ Len(calls) = Len(steps) + 1
           /\ Current \in Inputs /\ Current = calls[Len(calls)] /\ Current # NoInput
           /\ \A k \in 1..Len(steps) : steps[k].fate # "never"
           /\ \A k \in 1..Len(calls) - 1 : calls[k].id # calls[k + 1].id
  <1>1. said \in Seq(Reply) /\ calls \in Seq(Inputs) /\ nudges = 0 /\ Len(said) > 0
    BY DEF AgentInv, AgentTypeOK, NudgeInv
  <1>2. outcome = "none"
    BY DEF AgentInv, PhaseInv
  <1>3. Len(calls) > 0 /\ Current = calls[Len(calls)]
    BY DEF AgentInv, CallInv, Current
  <1>4. Len(said) \in Nat /\ Len(calls) \in Nat /\ calls[Len(calls)] \in Inputs
    BY <1>1, <1>3, LenProperties, ElementOfSeq
  <1>5. Len(calls) = Len(steps) + 1
    BY <1>2 DEF AgentInv, StepInv
  <1>6. Len(steps) \in Nat
    BY LenProperties DEF AgentInv, AgentTypeOK
  <1>7. \A k \in 1..Len(steps) : steps[k].fate # "never"
    BY DEF AgentInv, NeverInv
  <1>8. \A k \in 1..Len(calls) - 1 : calls[k].id # calls[k + 1].id
    BY <1>2, <1>4 DEF AgentInv, RepetitionEnds
  <1> QED
    BY <1>1, <1>2, <1>3, <1>4, <1>5, <1>6, <1>7, <1>8, AgentAssumption DEF Listening

(* Cleaning takes only a DONE away, and never all there is. *)
LEMMA Cleaning ==
    ASSUME NEW input \in Inputs, NEW fate \in Fates
    PROVE  /\ Executed(Clean(input), fate) \in AgentStepType
           /\ Executed(Clean(input), fate).fate = fate
           /\ "work" \in input.lines => "work" \in Executed(Clean(input), fate).lines
           /\ Executed(Clean(input), fate).lines = {} => input.lines = {}
  <1>1. input \in Input
    BY AgentAssumption
  <1>2. CASE input.field = "command" /\ input.lines \ {"done"} # {}
    <2>1. Clean(input) = [input EXCEPT !.lines = input.lines \ {"done"}]
      BY <1>2 DEF Clean
    <2> QED
      BY <1>1, <1>2, <2>1 DEF Input, Executed, AgentStepType
  <1>3. CASE ~(input.field = "command" /\ input.lines \ {"done"} # {})
    <2>1. Clean(input) = input
      BY <1>3 DEF Clean
    <2> QED
      BY <1>1, <2>1 DEF Input, Executed, AgentStepType
  <1> QED
    BY <1>2, <1>3

(* The end of a command, whatever became of it. *)
LEMMA StepKeeps ==
    ASSUME AgentInv, Executing, NEW fate \in Fates, fate = "never" => expired, StepEnds(fate)
    PROVE  AgentInv'
  <1>1. PICK step : step = Executed(Clean(Current), fate)
    OBVIOUS
  <1>2. /\ step \in AgentStepType /\ step.fate = fate
        /\ "work" \in Current.lines => "work" \in step.lines
        /\ step.lines = {} => Current.lines = {}
    BY <1>1, UnderWay, Cleaning
  <1>3. /\ steps' = Append(steps, step)
        /\ UNCHANGED <<slot, expired, nudges, lastCmd, shown, said, calls>>
    BY <1>1 DEF StepEnds
  <1>4. steps \in Seq(AgentStepType) /\ shown \in Seq(AgentStepType)
    BY DEF AgentInv, AgentTypeOK, AgentStepType
  <1>5. /\ steps' \in Seq(AgentStepType) /\ steps' # <<>> /\ Len(steps') = Len(steps) + 1
        /\ steps'[Len(steps) + 1] = step /\ \A k \in 1..Len(steps) : steps'[k] = steps[k]
    BY <1>2, <1>3, <1>4, OneMore
  <1>6. /\ outcome' \in {"none", "done", "exhausted"} /\ phase' \in {"generate", "answer"}
        /\ outcome' = "none" <=> phase' = "generate"
        /\ SaysDone(Current) => outcome' = "done"
        /\ turn' \in 0..MaxAgentSteps - 1
    BY UnderWay, AgentAssumption DEF StepEnds, Stop, NextTurn, AgentInv, AgentTypeOK
  <1>7. ~Executing'
    BY <1>6 DEF Executing
  <1>8. AgentTypeOK' /\ PhaseInv'
    <2>1. AgentTypeOK'
      BY <1>3, <1>4, <1>5, <1>6 DEF AgentInv, AgentTypeOK, AgentStepType, Outcomes,
         Phases
    <2> QED
      BY <1>5, <1>6, <1>7, <2>1 DEF PhaseInv
  <1>9. NudgeInv'
    BY <1>3, <1>6, <1>7, UnderWay DEF AgentInv, NudgeInv
  <1>10. CallInv'
    BY <1>3, <1>7, UnderWay DEF AgentInv, CallInv
  <1>11. DoneInv'
    <2>1. \A k \in 1..Len(said) : Unbelieved(k) /\ Unbelieved(k)' = Unbelieved(k)
      BY <1>3, UnderWay DEF AgentInv, DoneInv, Unbelieved
    <2>2. outcome' = "none" => ~SaysDone(said[Len(said)].call)
      BY <1>6 DEF Current
    <2>3. \A k \in 1..Len(said) : (k < Len(said) \/ outcome' = "none") /\ said[k].call # NoInput
                                     => ~SaysDone(said[k].call)
      BY <2>2, UnderWay DEF AgentInv, DoneInv
    <2> QED
      BY <1>3, <2>1, <2>3, UnderWay DEF DoneInv, Listening
  <1>12. NeverInv'
    BY <1>2, <1>3, <1>5, <1>7, UnderWay DEF NeverInv
  <1>13. StepInv'
    BY <1>2, <1>3, <1>5, <1>7, UnderWay DEF AgentInv, StepInv
  <1>14. RepetitionEnds'
    BY <1>3, <1>6, UnderWay DEF RepetitionEnds
  <1> QED
    BY <1>8, <1>9, <1>10, <1>11, <1>12, <1>13, <1>14 DEF AgentInv

(* Every step of the handler and of its commands keeps the invariant. *)
LEMMA AgentKept == AgentInv /\ [AgentNext]_agentVars => AgentInv'
  <1> SUFFICES ASSUME AgentInv, [AgentNext]_agentVars PROVE AgentInv'
    OBVIOUS
  <1>1. ASSUME NEW reply \in Reply,
               Finishes(reply) \/ Answers(reply) \/ Repeats(reply) \/ Calls(reply)
        PROVE  AgentInv'
    BY <1>1, FinishKeeps, AnswerKeeps, RepeatKeeps, CallKeeps
  <1>2. CASE GenerateFails
    <2>1. /\ phase = "generate" /\ phase' = "answer" /\ outcome' = "error"
          /\ UNCHANGED <<slot, expired, nudges, lastCmd, steps, shown, said, calls, turn>>
      BY <1>2 DEF GenerateFails, Stop
    <2>2. ~Executing /\ ~Executing' /\ ~Listening' /\ outcome = "none" /\ Listening
      BY <2>1 DEF Executing, Listening, AgentInv, PhaseInv
    <2>3. AgentTypeOK'
      BY <2>1 DEF AgentInv, AgentTypeOK, Phases, Outcomes
    <2>4. PhaseInv' /\ NudgeInv'
      BY <2>1, <2>2 DEF AgentInv, PhaseInv, NudgeInv
    <2>5. CallInv'
      BY <2>1, <2>2 DEF AgentInv, CallInv
    <2>6. DoneInv'
      BY <2>1, <2>2 DEF AgentInv, DoneInv, Unbelieved
    <2>7. NeverInv' /\ StepInv'
      BY <2>1, <2>2 DEF AgentInv, NeverInv, StepInv
    <2>8. RepetitionEnds'
      BY <2>1, <2>2 DEF AgentInv, RepetitionEnds
    <2> QED
      BY <2>3, <2>4, <2>5, <2>6, <2>7, <2>8 DEF AgentInv
  <1>3. CASE ExecuteFile \/ BashRefuses \/ BashIsLate \/ BashEnds \/ BashIsKilled \/ HoldEnds
    <2>1. /\ Executing
          /\ \E fate \in Fates : (fate = "never" => expired) /\ StepEnds(fate)
      BY <1>3 DEF ExecuteFile, BashRefuses, BashIsLate, BashEnds, BashIsKilled,
         HoldEnds,
                  Executing, Fates
    <2> QED
      BY <2>1, StepKeeps
  <1>4. CASE Begin \/ NoChoices \/ BashStarts \/ PipeIsHeld \/ FileIsHeld
    <2>1. /\ UNCHANGED loopVars /\ UNCHANGED <<expired, shown>>
          /\ Executing' <=> Executing
          /\ slot' \in BOOLEAN /\ phase' \in Phases
          /\ phase # "done" /\ phase' # "done" /\ phase # "answer" /\ phase' # "answer"
      BY <1>4 DEF Begin, NoChoices, BashStarts, PipeIsHeld, FileIsHeld, Executing, Phases, AgentInv,
         AgentTypeOK
    <2>2. AgentTypeOK'
      BY <2>1 DEF AgentInv, AgentTypeOK, loopVars
    <2>3. PhaseInv'
      BY <2>1, <2>2 DEF AgentInv, PhaseInv, loopVars, AgentTypeOK, Phases, Executing
    <2> QED
      BY <2>1, <2>2, <2>3, QuietKeeps
  <1>5. CASE DeadlinePasses
    <2>1. /\ UNCHANGED loopVars /\ UNCHANGED <<phase, slot, shown>> /\ expired'
          /\ Executing' <=> Executing
      BY <1>5 DEF DeadlinePasses, Executing
    <2>2. AgentTypeOK'
      <3>1. expired' = TRUE
        BY <1>5 DEF DeadlinePasses
      <3> QED
        BY <2>1, <3>1 DEF AgentInv, AgentTypeOK, loopVars
    <2>3. PhaseInv'
      BY <2>1 DEF AgentInv, PhaseInv, loopVars
    <2> QED
      BY <2>1, <2>2, <2>3, QuietKeeps
  <1>6. CASE Respond
    <2>1. /\ UNCHANGED loopVars /\ expired' = expired /\ slot' = FALSE
          /\ phase = "answer" /\ phase' = "done"
          /\ shown' = IF outcome = "error" THEN <<>> ELSE steps
          /\ Executing' <=> Executing
      BY <1>6 DEF Respond, Executing
    <2>2. AgentTypeOK'
      <3>1. shown' \in Seq(AgentStepType) /\ steps \in Seq(AgentStepType)
        BY <2>1 DEF AgentInv, AgentTypeOK, AgentStepType
      <3> QED
        BY <2>1, <3>1 DEF AgentInv, AgentTypeOK, loopVars, AgentStepType, Phases
    <2>3. PhaseInv'
      BY <2>1 DEF AgentInv, PhaseInv, loopVars, Executing
    <2> QED
      BY <2>1, <2>2, <2>3, QuietKeeps
  <1>7. CASE UNCHANGED agentVars
    <2>1. /\ UNCHANGED loopVars /\ UNCHANGED <<phase, slot, expired, shown>>
          /\ Executing' <=> Executing
      BY <1>7 DEF agentVars, loopVars, Executing
    <2>2. AgentTypeOK' /\ PhaseInv'
      BY <2>1 DEF AgentInv, AgentTypeOK, PhaseInv, loopVars
    <2> QED
      BY <2>1, <2>2, QuietKeeps
  <1> QED
    BY <1>1, <1>2, <1>3, <1>4, <1>5, <1>6, <1>7 DEF AgentNext, Serve, Hearing

(* Every reachable state satisfies the invariant. *)
THEOREM AgentInvariance == AgentSpec => []AgentInv
  BY AgentStarts, AgentKept, PTL DEF AgentSpec

(* The loop ends after two texts in a row, at a repetition, at a DONE, or behind a
   command that was never started, and for no other reason that looks like one of
   them (agentic_executor.go:77-140), however many turns it may take. *)
THEOREM AgentIsSafe == AgentSpec => []AgentSafety
  <1>1. ASSUME AgentInv PROVE AgentSafety
    <2>1. TextEndsTwoTurns
      <3>1. Len(said) \in Nat
        BY <1>1, LenProperties DEF AgentInv, AgentTypeOK
      <3> QED
        BY <1>1, <3>1 DEF AgentInv, NudgeInv, TextEndsTwoTurns
    <2>2. DoneIsTheEnd
      BY <1>1 DEF AgentInv, PhaseInv, DoneInv, Unbelieved, DoneIsTheEnd
    <2>3. OnlyTheLastNeverStarted
      BY <1>1 DEF AgentInv, NeverInv, OnlyTheLastNeverStarted
    <2> QED
      BY <1>1, <2>1, <2>2, <2>3 DEF AgentInv, AgentSafety
  <1> QED
    BY <1>1, AgentInvariance, PTL

(* The steps are the calls of the model, each once, in its order and with its work;
   an answer that is no error shows them all (agentic_executor.go:93, 115, 124). *)
THEOREM StepsAreReported == AgentSpec => []ReportIsTheWork
  <1>1. ASSUME AgentInv PROVE ReportIsTheWork
    <2>1. Len(calls) \in Nat /\ Len(steps) \in Nat
      BY <1>1, LenProperties DEF AgentInv, AgentTypeOK
    <2> QED
      BY <1>1, <2>1 DEF AgentInv, PhaseInv, StepInv, ReportIsTheWork, Executing
  <1> QED
    BY <1>1, AgentInvariance, PTL
=============================================================================
