--------------------------- MODULE CircuitBreaker ---------------------------
(***************************************************************************)
(* The circuit breaker every inference adapter keeps in front of its      *)
(* backend (internal/adapter/circuit_breaker.go), together with the       *)
(* concurrent calls that drive it (Generate and Stream of ollama.go,      *)
(* llamacpp.go, bitnet.go and vllm.go, which all have the same shape):    *)
(*                                                                        *)
(*    if !cb.Allow() { return ErrCircuitOpen }                            *)
(*    ctx = WithTimeout(ctx, 25 s); call the backend                      *)
(*    on error cb.RecordFailure() else cb.RecordSuccess()                 *)
(*                                                                        *)
(* The three methods of the breaker run under its mutex, so each is one   *)
(* step; between Allow and Record a call is in flight and other calls,    *)
(* and time, go on.                                                       *)
(*                                                                        *)
(* Time is kept as what is left: budget[c] is what remains of the 25 s    *)
(* context of call c, and cooldownLeft is openUntil - now.  Allow tests   *)
(* now.After(openUntil), which is strict, so the cooldown is over at -1.  *)
(* Kept this way time needs no bound.                                     *)
(***************************************************************************)
EXTENDS Integers

CONSTANTS
    Callers,        \* the requests that may use one adapter at the same time
    Threshold,      \* consecutive failures that trip the breaker (3)
    Cooldown,       \* time the breaker stays open (30 s), in ticks
    CallDeadline    \* the deadline of one backend call (25 s), in ticks

ASSUME ThresholdAssumption == Threshold \in Nat \ {0}
ASSUME TimeAssumption ==
    /\ Cooldown \in Nat
    /\ CallDeadline \in Nat \ {0}
    /\ CallDeadline <= Cooldown     \* 25 s against 30 s

VARIABLES
    state,          \* "Closed", "Open" or "HalfOpen"
    failures,       \* failures since the last success, see RecordFailure
    cooldownLeft,   \* openUntil - now, -1 once now is after openUntil
    call            \* per caller: its phase, the state that admitted it, its time left

vars == <<state, failures, cooldownLeft, call>>

States == {"Closed", "Open", "HalfOpen"}
Elapsed == -1

Call == [phase  : {"idle", "inflight", "rejected"},
         probe  : BOOLEAN,              \* Allow said "this call is the probe"
         budget : 0..CallDeadline]

NoCall == [phase |-> "idle", probe |-> FALSE, budget |-> 0]

InFlight(c) == call[c].phase = "inflight"
Probing(c) == InFlight(c) /\ call[c].probe

Init ==
    /\ state = "Closed"
    /\ failures = 0
    /\ cooldownLeft = Elapsed
    /\ call = [c \in Callers |-> NoCall]

-----------------------------------------------------------------------------
(* Allow, and the start of the call it admits.                              *)
(*                                                                         *)
(* A definition marked "Slip" is no part of the specification: it is what  *)
(* an easy mistake in the Go code would turn the next definition into.     *)

Start(c, isProbe) ==
    call' = [call EXCEPT ![c] =
                [phase |-> "inflight", probe |-> isProbe, budget |-> CallDeadline]]

AllowClosed(c) ==
    /\ ~InFlight(c)
    /\ state = "Closed"
    /\ Start(c, FALSE)
    /\ UNCHANGED <<state, failures, cooldownLeft>>

(* Slip: !now.Before(openUntil) instead of now.After(openUntil). *)
AllowProbeAtTheInstant(c) ==
    /\ ~InFlight(c)
    /\ state = "Open"
    /\ cooldownLeft <= 0
    /\ state' = "HalfOpen"
    /\ Start(c, TRUE)
    /\ UNCHANGED <<failures, cooldownLeft>>

AllowProbe(c) ==
    /\ ~InFlight(c)
    /\ state = "Open"
    /\ cooldownLeft = Elapsed
    /\ state' = "HalfOpen"
    /\ Start(c, TRUE)
    /\ UNCHANGED <<failures, cooldownLeft>>

(* Slip: a rejection is recorded as a failure of the backend. *)
RejectRecorded(c) ==
    /\ ~InFlight(c)
    /\ state = "Open" /\ cooldownLeft # Elapsed
    /\ call' = [call EXCEPT ![c] = [NoCall EXCEPT !.phase = "rejected"]]
    /\ cooldownLeft' = Cooldown
    /\ UNCHANGED <<state, failures>>

(* ErrCircuitOpen, in Open before the cooldown is over and in HalfOpen. *)
Reject(c) ==
    /\ ~InFlight(c)
    /\ \/ state = "Open" /\ cooldownLeft # Elapsed
       \/ state = "HalfOpen"
    /\ call' = [call EXCEPT ![c] = [NoCall EXCEPT !.phase = "rejected"]]
    /\ UNCHANGED <<state, failures, cooldownLeft>>

-----------------------------------------------------------------------------
(* The end of a call. *)

(* RecordSuccess closes the breaker whatever its state is; openUntil stays. *)
RecordSuccess ==
    /\ state' = "Closed"
    /\ failures' = 0
    /\ UNCHANGED cooldownLeft

(* Slip: == for >=. *)
RecordFailureOnlyAtThreshold ==
    /\ failures' = IF failures < Threshold THEN failures + 1 ELSE failures
    /\ IF failures + 1 = Threshold
       THEN state' = "Open" /\ cooldownLeft' = Cooldown
       ELSE UNCHANGED <<state, cooldownLeft>>

(* RecordFailure.  The counter is only ever compared with the threshold, so
   it is kept saturated there. *)
RecordFailure ==
    /\ failures' = IF failures < Threshold THEN failures + 1 ELSE failures
    /\ IF failures + 1 >= Threshold
       THEN state' = "Open" /\ cooldownLeft' = Cooldown
       ELSE UNCHANGED <<state, cooldownLeft>>

End(c) == call' = [call EXCEPT ![c] = NoCall]

(* The backend answered within the deadline. *)
Succeed(c) ==
    /\ InFlight(c)
    /\ RecordSuccess
    /\ End(c)

(* A transport error, a bad status, an undecodable body, or the deadline. *)
Fail(c) ==
    /\ InFlight(c)
    /\ RecordFailure
    /\ End(c)

-----------------------------------------------------------------------------
(* One tick.  The context of a call ends it at its deadline, so no tick      *)
(* passes while a call has nothing left.                                     *)
Tick ==
    /\ \A c \in Callers : InFlight(c) => call[c].budget > 0
    /\ \/ cooldownLeft # Elapsed
       \/ \E c \in Callers : InFlight(c)
    /\ cooldownLeft' = IF cooldownLeft = Elapsed THEN Elapsed ELSE cooldownLeft - 1
    /\ call' = [c \in Callers |->
                  IF InFlight(c) THEN [call[c] EXCEPT !.budget = @ - 1] ELSE call[c]]
    /\ UNCHANGED <<state, failures>>

Next ==
    \/ Tick
    \/ \E c \in Callers :
          \/ AllowClosed(c)
          \/ AllowProbe(c)
          \/ Reject(c)
          \/ Succeed(c)
          \/ Fail(c)

Spec == Init /\ [][Next]_vars

(* Time passes and every admitted call ends: the 25 s context sees to both.  *)
(* Nothing obliges a client to call.                                         *)
FairSpec ==
    /\ Spec
    /\ WF_vars(Tick)
    /\ \A c \in Callers : WF_vars(Succeed(c) \/ Fail(c))

-----------------------------------------------------------------------------
TypeOK ==
    /\ state \in States
    /\ failures \in 0..Threshold
    /\ cooldownLeft \in Elapsed..Cooldown
    /\ call \in [Callers -> Call]

(* While a probe is out it is the only call the backend sees: not only no
   second probe, but no call left over from before the breaker tripped
   (Allow, "exactly one probe is allowed").  It rests on the call deadline
   being no longer than the cooldown. *)
ProbeRunsAlone ==
    \A p \in Callers : Probing(p) => \A c \in Callers : InFlight(c) => c = p

(* HalfOpen rejects everyone, so it must never be without the probe whose
   result leaves it: otherwise the adapter is off for good. *)
HalfOpenHasItsProbe ==
    state = "HalfOpen" <=> \E p \in Callers : Probing(p)

(* Between trips the counter stays below the threshold and it is not reset
   on the way to HalfOpen: one failed probe is enough to trip again, and a
   call that fails late cannot leave the breaker closed with a full count. *)
ClosedBelowThreshold == (state = "Closed") <=> (failures < Threshold)

(* What ProbeRunsAlone needs to be inductive: a call admitted before the trip
   ends before the cooldown does. *)
OldCallsEndBeforeCooldown ==
    state = "Open" =>
        \A c \in Callers : InFlight(c) => call[c].budget <= cooldownLeft

(* A probe always resolves. *)
HalfOpenResolves == state = "HalfOpen" ~> state # "HalfOpen"

(* Calls that fail late re-arm the cooldown, but only as many as were in
   flight at the trip: the cooldown always comes to an end. *)
CooldownEnds == state = "Open" ~> (cooldownLeft = Elapsed \/ state # "Open")

(* The state invariants of the breaker in one: its types, HalfOpen exactly while
   its probe is out (circuit_breaker.go:58-66), the counter below the threshold
   exactly while it is closed (:72-88), and no call from before a trip left when
   the cooldown is over (:87). *)
BreakerSafety ==
    /\ TypeOK
    /\ HalfOpenHasItsProbe
    /\ ClosedBelowThreshold
    /\ OldCallsEndBeforeCooldown

(* The breaker never stays open or half open for good: the cooldown ends and
   the probe comes back, whatever calls from before the trip still report
   (circuit_breaker.go:48-89). *)
Recovers == HalfOpenResolves /\ CooldownEnds
=============================================================================
