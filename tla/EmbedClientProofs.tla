------------------------- MODULE EmbedClientProofs --------------------------
(***************************************************************************)
(* Proofs about EmbedClient: its breaker, for any number of callers, any   *)
(* threshold and any cooldown longer than the timeout of a call, and its   *)
(* cache, for any texts, capacity and time to live.                        *)
(***************************************************************************)
EXTENDS EmbedClient, FiniteSetTheorems, SequenceTheorems, TLAPS

(* While the breaker is open, a call under way is at least as old as the
   opening: so none is left when the cooldown is over. *)
OldCallsInOpen ==
    state = "open" =>
        \A c \in InFlight :
            IF Calling(c) THEN call[c].age >= sinceOpened ELSE ~Elapsed

(* The inductive invariant.  HalfOpenHearsProbesOnly is lost by AllowProbe in a
   state where an old call outlived the cooldown; OldCallsInOpen excludes it. *)
IInv ==
    /\ BreakerTypeOK
    /\ ClosedBelowThreshold
    /\ HalfOpenHearsProbesOnly
    /\ OldCallsInOpen

(* A new client is closed and has no call under way. *)
LEMMA InitInvariant == Init => IInv
  BY EmbedAssumption
     DEF Init, IInv, BreakerTypeOK, ClosedBelowThreshold, HalfOpenHearsProbesOnly,
         OldCallsInOpen, States, CallPhases, Call, NoCall, InFlight, Calling, Elapsed

(* A step of one caller changes its own call only. *)
LEMMA BecomesCall ==
    ASSUME BreakerTypeOK, NEW c \in Callers, NEW next \in Call, Becomes(c, next)
    PROVE  /\ call' \in [Callers -> Call]
           /\ call'[c] = next
           /\ \A d \in Callers \ {c} : call'[d] = call[d]
  BY DEF BreakerTypeOK, Becomes

(* Every step of the client keeps the invariant. *)
LEMMA StepInvariant == IInv /\ [Next]_vars => IInv'
  <1> SUFFICES ASSUME IInv, [Next]_vars PROVE IInv'
    OBVIOUS
  <1> USE EmbedAssumption
  <1>1. /\ BreakerTypeOK
        /\ state \in States /\ failures \in 0..Threshold
        /\ sinceOpened \in 0..OpenDuration
        /\ call \in [Callers -> Call] /\ probes \subseteq Callers
    BY DEF IInv, BreakerTypeOK
  <1>2. NoCall \in Call /\ [NoCall EXCEPT !.phase = "stored"] \in Call
    BY DEF NoCall, Call, CallPhases
  <1>3. \A c \in Callers : [call[c] EXCEPT !.phase = "calling"] \in Call
    BY <1>1 DEF Call, CallPhases
  <1>4. CASE Tick
    <2>1. \A c \in Callers :
             /\ call[c].phase # "stored"
             /\ Calling(c) => call[c].age < CallTimeout
             /\ call[c].age \in 0..CallTimeout
      BY <1>1, <1>4 DEF Tick, Call
    <2>2. call' = [c \in Callers |->
                     IF Calling(c) THEN [call[c] EXCEPT !.age = @ + 1] ELSE call[c]]
      BY <1>4 DEF Tick
    <2>3. \A c \in Callers : Calling(c) => call[c].age + 1 \in 0..CallTimeout
      BY <2>1
    <2>4. call' \in [Callers -> Call]
      <3>1. ASSUME NEW c \in Callers PROVE call'[c] \in Call
        <4>1. CASE Calling(c)
          <5>1. call'[c] = [call[c] EXCEPT !.age = @ + 1]
            BY <2>2, <4>1
          <5>2. call[c] \in Call /\ call[c].age + 1 \in 0..CallTimeout
            BY <1>1, <2>3, <4>1
          <5> QED
            BY <5>1, <5>2 DEF Call
        <4>2. CASE ~Calling(c)
          BY <1>1, <2>2, <4>2
        <4> QED
          BY <4>1, <4>2
      <3> QED
        BY <2>2, <3>1
    <2>5. \A c \in Callers :
             /\ call'[c].phase = call[c].phase
             /\ Calling(c) => call'[c].age = call[c].age + 1
      BY <1>1, <2>2 DEF Call
    <2>6. InFlight' = InFlight /\ \A c \in Callers : Calling(c)' = Calling(c)
      BY <2>5 DEF InFlight, Calling
    <2>7. sinceOpened' \in 0..OpenDuration /\ sinceOpened' <= sinceOpened + 1
      BY <1>1, <1>4 DEF Tick, Elapsed
    <2>8. OldCallsInOpen'
      <3> SUFFICES ASSUME state = "open", NEW c \in InFlight
                   PROVE  Calling(c) /\ call'[c].age >= sinceOpened'
        BY <1>4, <2>5, <2>6 DEF OldCallsInOpen, Tick, InFlight, Calling
      <3>1. Calling(c) /\ c \in Callers
        BY <2>1 DEF InFlight, Calling
      <3>2. call[c].age >= sinceOpened
        BY <3>1 DEF IInv, OldCallsInOpen
      <3>3. call'[c].age = call[c].age + 1
        BY <2>5, <3>1
      <3>4. call[c].age \in Nat /\ sinceOpened \in Nat /\ sinceOpened' \in Nat
        BY <1>1, <2>1, <2>7, <3>1
      <3> QED
        BY <2>7, <3>1, <3>2, <3>3, <3>4
    <2> QED
      BY <1>1, <1>4, <2>4, <2>6, <2>7, <2>8
         DEF Tick, IInv, BreakerTypeOK, ClosedBelowThreshold, HalfOpenHearsProbesOnly
  <1>5. ASSUME NEW c \in Callers, NEW t \in Texts, EmbedHit(c, t) PROVE IInv'
    BY <1>5 DEF EmbedHit, breakerVars, IInv, BreakerTypeOK, ClosedBelowThreshold,
                HalfOpenHearsProbesOnly, OldCallsInOpen, InFlight, Calling, Elapsed
  <1>6. ASSUME NEW c \in Callers, NEW t \in Texts, EmbedMiss(c, t) PROVE IInv'
    <2>1. [phase |-> "missed", text |-> t, age |-> 0] \in Call
      BY DEF Call, CallPhases
    <2>2. /\ call' \in [Callers -> Call] /\ call'[c].phase = "missed"
          /\ \A d \in Callers \ {c} : call'[d] = call[d]
      BY <1>1, <1>6, <2>1, BecomesCall DEF EmbedMiss
    <2>3. call[c].phase = "none"
      BY <1>6 DEF EmbedMiss, NoCall
    <2> QED
      BY <1>1, <1>6, <2>2, <2>3
         DEF EmbedMiss, breakerVars, IInv, BreakerTypeOK, ClosedBelowThreshold,
             HalfOpenHearsProbesOnly, OldCallsInOpen, InFlight, Calling, Elapsed
  <1>7. ASSUME NEW c \in Callers, AllowClosed(c) PROVE IInv'
    <2>1. /\ call' \in [Callers -> Call]
          /\ \A d \in Callers \ {c} : call'[d] = call[d]
      BY <1>1, <1>7, <1>3, BecomesCall DEF AllowClosed, Start
    <2> QED
      BY <1>1, <1>7, <2>1
         DEF AllowClosed, breakerVars, IInv, BreakerTypeOK, ClosedBelowThreshold,
             HalfOpenHearsProbesOnly, OldCallsInOpen
  <1>8. ASSUME NEW c \in Callers, AllowProbe(c) PROVE IInv'
    <2>1. /\ call' \in [Callers -> Call]
          /\ \A d \in Callers \ {c} : call'[d] = call[d]
      BY <1>1, <1>8, <1>3, BecomesCall DEF AllowProbe, Start
    <2>2. InFlight \subseteq probes
      <3>1. CASE state = "halfOpen"
        BY <3>1 DEF IInv, HalfOpenHearsProbesOnly
      <3>2. CASE state = "open" /\ Elapsed    \* nothing outlived the cooldown
        <4> SUFFICES ASSUME NEW d \in InFlight PROVE FALSE
          OBVIOUS
        <4>1. Calling(d) /\ call[d].age >= sinceOpened
          BY <3>2 DEF IInv, OldCallsInOpen
        <4>2. call[d].age \in 0..CallTimeout
          BY <1>1 DEF InFlight, Call
        <4> QED
          BY <1>1, <3>2, <4>1, <4>2 DEF Elapsed
      <3> QED
        BY <1>8, <3>1, <3>2 DEF AllowProbe
    <2>3. InFlight' \subseteq probes'
      BY <1>8, <2>1, <2>2 DEF AllowProbe, InFlight
    <2>4. failures >= Threshold
      BY <1>1, <1>8 DEF AllowProbe, IInv, ClosedBelowThreshold
    <2> QED
      BY <1>1, <1>8, <2>1, <2>3, <2>4
         DEF AllowProbe, IInv, BreakerTypeOK, States, ClosedBelowThreshold,
             HalfOpenHearsProbesOnly, OldCallsInOpen
  <1>9. ASSUME NEW c \in Callers, Reject(c) PROVE IInv'
    <2>1. /\ call' \in [Callers -> Call] /\ call'[c] = NoCall
          /\ \A d \in Callers \ {c} : call'[d] = call[d]
      BY <1>1, <1>9, <1>2, BecomesCall DEF Reject
    <2> QED
      BY <1>1, <1>9, <2>1
         DEF Reject, NoCall, breakerVars, IInv, BreakerTypeOK, ClosedBelowThreshold,
             HalfOpenHearsProbesOnly, OldCallsInOpen, InFlight, Calling, Elapsed
  <1>10. ASSUME NEW c \in Callers, Fail(c) PROVE IInv'
    <2>1. /\ call' \in [Callers -> Call] /\ call'[c] = NoCall
          /\ \A d \in Callers \ {c} : call'[d] = call[d]
      BY <1>1, <1>10, <1>2, BecomesCall DEF Fail
    <2>2. CASE failures' >= Threshold     \* it opens; every call is old enough
      <3>1. /\ state' = "open" /\ sinceOpened' = 0 /\ probes' = {}
            /\ failures' \in 0..Threshold
        BY <1>1, <1>10, <2>2 DEF Fail, RecordFailure
      <3>2. \A d \in Callers : call'[d].age \in 0..CallTimeout
        BY <2>1 DEF Call
      <3> QED
        BY <2>1, <2>2, <3>1, <3>2
           DEF IInv, BreakerTypeOK, States, ClosedBelowThreshold,
               HalfOpenHearsProbesOnly, OldCallsInOpen, InFlight, Elapsed
    <2>3. CASE ~(failures' >= Threshold)  \* then it is closed, and stays so
      <3>1. UNCHANGED <<state, sinceOpened, probes>> /\ failures' \in 0..Threshold
        BY <1>1, <1>10, <2>3 DEF Fail, RecordFailure
      <3>2. state = "closed"
        BY <1>1, <1>10, <2>3 DEF Fail, RecordFailure, IInv, ClosedBelowThreshold
      <3> QED
        BY <1>1, <2>1, <2>3, <3>1, <3>2
           DEF IInv, BreakerTypeOK, ClosedBelowThreshold, HalfOpenHearsProbesOnly,
               OldCallsInOpen
    <2> QED
      BY <2>2, <2>3
  <1>11. ASSUME NEW c \in Callers, Store(c) PROVE IInv'
    <2>1. /\ call' \in [Callers -> Call] /\ call'[c].phase = "stored"
          /\ \A d \in Callers \ {c} : call'[d] = call[d]
      BY <1>1, <1>11, <1>2, BecomesCall DEF Store, NoCall
    <2>2. InFlight' = InFlight /\ c \in InFlight /\ Calling(c)
      BY <1>11, <2>1 DEF Store, InFlight, Calling
    <2>3. state = "open" => ~Elapsed
      <3>1. call[c].age \in 0..CallTimeout
        BY <1>1 DEF Call
      <3> QED
        BY <1>1, <2>2, <3>1 DEF IInv, OldCallsInOpen, Elapsed
    <2>4. OldCallsInOpen'
      BY <1>1, <1>11, <2>1, <2>2, <2>3
         DEF Store, breakerVars, IInv, OldCallsInOpen, Calling, Elapsed, InFlight
    <2> QED
      BY <1>1, <1>11, <2>1, <2>2, <2>4
         DEF Store, breakerVars, IInv, BreakerTypeOK, ClosedBelowThreshold,
             HalfOpenHearsProbesOnly
  <1>12. ASSUME NEW c \in Callers, Succeed(c) PROVE IInv'
    <2>1. call' \in [Callers -> Call]
      BY <1>1, <1>12, <1>2, BecomesCall DEF Succeed
    <2> QED
      BY <1>1, <1>12, <2>1
         DEF Succeed, IInv, BreakerTypeOK, States, ClosedBelowThreshold,
             HalfOpenHearsProbesOnly, OldCallsInOpen
  <1>13. CASE UNCHANGED vars
    BY <1>13 DEF vars, breakerVars, IInv, BreakerTypeOK, ClosedBelowThreshold,
                 HalfOpenHearsProbesOnly, OldCallsInOpen, InFlight, Calling, Elapsed
  <1> QED
    BY <1>4, <1>5, <1>6, <1>7, <1>8, <1>9, <1>10, <1>11, <1>12, <1>13 DEF Next, Allow,
       End

(* The invariant holds in every reachable state. *)
THEOREM EmbedInvariance == Spec => []IInv
  BY InitInvariant, StepInvariant, PTL DEF Spec

(* The breaker is closed exactly while the failures in a row are below the
   threshold. *)
THEOREM ClosedCounts == Spec => []ClosedBelowThreshold
  BY EmbedInvariance, PTL DEF IInv

(* Only probes report to a breaker in HalfOpen. *)
THEOREM ProbesDecide == Spec => []HalfOpenHearsProbesOnly
  BY EmbedInvariance, PTL DEF IInv

(* The state invariants of the breaker together: what TLC checks as one. *)
THEOREM BreakerIsSafe == Spec => []BreakerSafety
  <1>1. IInv => BreakerSafety
    BY DEF IInv, BreakerSafety
  <1> QED
    BY <1>1, EmbedInvariance, PTL

-----------------------------------------------------------------------------
(* The cache: for any texts, any capacity and any time to live.  Its three
   operations take one entry out of the list or put one in front; what is known
   of the list is kept by each of the two. *)

Keys(s) == {s[i].key : i \in 1..Len(s)}
OnePerKey(s) == \A i, j \in 1..Len(s) : s[i].key = s[j].key => i = j
ByUse(s) == \A i, j \in 1..Len(s) : i < j => s[i].idle <= s[j].idle

(* The list without its entry at p. *)
IsWithout(t, s, p) ==
    /\ t \in Seq(Entry) /\ Len(t) = Len(s) - 1
    /\ \A i \in 1..Len(t) : t[i] = s[IF i < p THEN i ELSE i + 1]

(* An entry taken out leaves the others in their order. *)
LEMMA TakingOut ==
    ASSUME NEW s \in Seq(Entry), NEW p \in 1..Len(s), NEW t, IsWithout(t, s, p),
           OnePerKey(s), ByUse(s)
    PROVE  OnePerKey(t) /\ ByUse(t) /\ Keys(t) = Keys(s) \ {s[p].key}
  <1> DEFINE Old(i) == IF i < p THEN i ELSE i + 1
  <1>1. Len(s) \in Nat /\ Len(t) = Len(s) - 1 /\ p \in Nat
    BY LenProperties DEF IsWithout
  <1>2. \A i \in 1..Len(t) : t[i] = s[Old(i)] /\ Old(i) \in 1..Len(s) /\ Old(i) # p
    BY <1>1 DEF IsWithout
  <1>3. \A i, j \in 1..Len(t) : (Old(i) = Old(j) => i = j) /\ (i < j => Old(i) < Old(j))
    BY <1>1
  <1>4. OnePerKey(t)
    BY <1>2, <1>3 DEF OnePerKey
  <1>5. ByUse(t)
    BY <1>2, <1>3 DEF ByUse
  <1>6. Keys(t) \subseteq Keys(s) \ {s[p].key}
    BY <1>2 DEF Keys, OnePerKey
  <1>7. ASSUME NEW i \in 1..Len(s), s[i].key # s[p].key PROVE s[i].key \in Keys(t)
    <2>1. i # p
      BY <1>7
    <2>2. PICK j \in 1..Len(t) : Old(j) = i
      <3>1. CASE i < p
        BY <1>1, <3>1
      <3>2. CASE i > p
        <4>1. i - 1 \in 1..Len(t) /\ Old(i - 1) = i
          BY <1>1, <3>2
        <4> QED
          BY <4>1
      <3> QED
        BY <1>1, <2>1, <3>1, <3>2
    <2> QED
      BY <1>2, <2>2 DEF Keys
  <1> QED
    BY <1>4, <1>5, <1>6, <1>7 DEF Keys

(* An entry just used goes in front of all others. *)
LEMMA PuttingInFront ==
    ASSUME NEW s \in Seq(Entry), NEW e \in Entry, e.idle = 0, e.key \notin Keys(s),
           OnePerKey(s), ByUse(s)
    PROVE  /\ <<e>> \o s \in Seq(Entry) /\ Len(<<e>> \o s) = Len(s) + 1
           /\ OnePerKey(<<e>> \o s) /\ ByUse(<<e>> \o s)
           /\ Keys(<<e>> \o s) = Keys(s) \union {e.key}
  <1>1. Len(s) \in Nat /\ <<e>> \in Seq(Entry) /\ Len(<<e>>) = 1
    BY LenProperties
  <1> DEFINE t == <<e>> \o s
  <1>2. /\ t \in Seq(Entry) /\ Len(t) = Len(s) + 1
        /\ \A i \in 1..(Len(s) + 1) : t[i] = IF i <= 1 THEN <<e>>[i] ELSE s[i - 1]
    BY <1>1, ConcatProperties
  <1>3. t[1] = e
    BY <1>1, <1>2
  <1>4. \A i \in 2..Len(t) : t[i] = s[i - 1] /\ i - 1 \in 1..Len(s)
    BY <1>1, <1>2
  <1>5. \A i \in 1..Len(s) : i + 1 \in 2..Len(t) /\ t[i + 1] = s[i]
    BY <1>1, <1>2
  <1>6. \A i \in 1..Len(s) : s[i].key \in Keys(s) /\ s[i].idle \in Nat
    <2>1. \A i \in 1..Len(s) : s[i] \in Entry
      BY ElementOfSeq
    <2> QED
      BY <2>1, CacheAssumption DEF Keys, Entry, Ages
  <1>7. \A i \in 1..Len(t) : i = 1 \/ i \in 2..Len(t)
    BY <1>1, <1>2
  <1>8. 1 \in 1..Len(t) /\ 2..Len(t) \subseteq 1..Len(t)
    BY <1>1, <1>2
  <1> HIDE DEF t
  <1>9. OnePerKey(t)
    <2> SUFFICES ASSUME NEW i \in 1..Len(t), NEW j \in 1..Len(t), t[i].key = t[j].key
                 PROVE  i = j
      BY DEF OnePerKey
    <2>1. CASE i \in 2..Len(t) /\ j \in 2..Len(t)
      BY <1>4, <2>1 DEF OnePerKey
    <2>2. CASE i = 1 \/ j = 1
      BY <1>7, <1>3, <1>4, <1>6, <2>2
    <2> QED
      BY <1>7, <2>1, <2>2
  <1>10. ByUse(t)
    <2> SUFFICES ASSUME NEW i \in 1..Len(t), NEW j \in 1..Len(t), i < j
                 PROVE  t[i].idle <= t[j].idle
      BY DEF ByUse
    <2>1. j \in 2..Len(t)
      BY <1>1, <1>2
    <2>2. CASE i = 1
      BY <1>3, <1>4, <1>6, <2>1, <2>2
    <2>3. CASE i \in 2..Len(t)
      <3>1. i - 1 < j - 1
        OBVIOUS
      <3> QED
        BY <1>4, <2>1, <2>3, <3>1 DEF ByUse
    <2> QED
      BY <1>7, <2>2, <2>3
  <1>11. Keys(t) = Keys(s) \union {e.key}
    <2>1. Keys(t) \subseteq Keys(s) \union {e.key}
      BY <1>7, <1>3, <1>4 DEF Keys
    <2>2. e.key \in Keys(t)
      BY <1>8, <1>3 DEF Keys
    <2>3. \A i \in 1..Len(s) : s[i].key \in Keys(t)
      BY <1>8, <1>5 DEF Keys
    <2> QED
      BY <2>1, <2>2, <2>3 DEF Keys
  <1> QED
    BY <1>2, <1>9, <1>10, <1>11 DEF t

(* As many entries as keys. *)
LEMMA KeysCount ==
    ASSUME NEW s \in Seq(Entry), OnePerKey(s)
    PROVE  Cardinality(Keys(s)) = Len(s)
  <1> DEFINE f == [i \in 1..Len(s) |-> s[i].key]
  <1>1. Len(s) \in Nat
    BY LenProperties
  <1>2. f \in Bijection(1..Len(s), Keys(s))
    BY DEF OnePerKey, Keys, Bijection, Injection, Surjection, IsInjective
  <1>3. ExistsBijection(1..Len(s), Keys(s))
    BY <1>2 DEF ExistsBijection
  <1> QED
    BY <1>1, <1>3, FS_CountingElements

ListInv ==
    /\ list \in Seq(Entry) /\ OnePerKey(list) /\ ByUse(list)
    /\ items = Keys(list)
    /\ Len(list) <= Capacity

(* Place finds the element, and Without is the list without it. *)
LEMMA Finding ==
    ASSUME ListInv, NEW k \in items
    PROVE  /\ Place(k) \in 1..Len(list) /\ list[Place(k)].key = k
           /\ ElementOf(k) \in Entry /\ ElementOf(k).key = k
  <1>1. \E i \in 1..Len(list) : list[i].key = k
    BY DEF ListInv, Keys
  <1>2. Place(k) \in 1..Len(list) /\ list[Place(k)].key = k
    BY <1>1 DEF Place
  <1> QED
    BY <1>2, ElementOfSeq DEF ListInv, ElementOf

(* list.Remove with delete from the map: both forget the same text. *)
LEMMA Removing ==
    ASSUME ListInv, NEW k \in Texts
    PROVE  /\ Without(k) \in Seq(Entry) /\ OnePerKey(Without(k)) /\ ByUse(Without(k))
           /\ Keys(Without(k)) = items \ {k}
           /\ Len(Without(k)) = IF k \in items THEN Len(list) - 1 ELSE Len(list)
  <1>1. CASE k \in items
    <2> DEFINE p == Place(k)
    <2>1. list \in Seq(Entry) /\ p \in 1..Len(list) /\ list[p].key = k
      BY <1>1, Finding DEF ListInv
    <2>2. Len(list) \in Nat /\ \A i \in 1..Len(list) : list[i] \in Entry
      BY <2>1, LenProperties, ElementOfSeq
    <2> HIDE DEF p
    <2> DEFINE u == SubSeq(list, 1, p - 1)
               v == SubSeq(list, p + 1, Len(list))
    <2>3. u \in Seq(Entry) /\ Len(u) = p - 1 /\ \A i \in 1..(p - 1) : u[i] = list[i]
      BY <2>1, <2>2, SubSeqProperties
    <2>4. /\ v \in Seq(Entry) /\ Len(v) = Len(list) - p
          /\ \A i \in 1..(Len(list) - p) : v[i] = list[p + i]
      BY <2>1, <2>2, SubSeqProperties
    <2>5. Without(k) = u \o v
      BY <1>1 DEF Without, RemoveAt, p
    <2> HIDE DEF u, v
    <2>6. /\ u \o v \in Seq(Entry) /\ Len(u \o v) = Len(list) - 1
          /\ \A i \in 1..(Len(list) - 1) : (u \o v)[i] = IF i < p THEN u[i] ELSE v[i - p + 1]
      <3>1. /\ u \o v \in Seq(Entry) /\ Len(u \o v) = Len(u) + Len(v)
            /\ \A i \in 1..Len(u) + Len(v) : (u \o v)[i] = IF i <= Len(u) THEN u[i] ELSE v[i - Len(u)]
        BY <2>3, <2>4, ConcatProperties
      <3> QED
        BY <2>1, <2>2, <2>3, <2>4, <3>1
    <2>7. \A i \in 1..(Len(list) - 1) : (u \o v)[i] = list[IF i < p THEN i ELSE i + 1]
      BY <2>1, <2>2, <2>3, <2>4, <2>6
    <2>8. IsWithout(Without(k), list, p)
      BY <2>5, <2>6, <2>7 DEF IsWithout
    <2>9. OnePerKey(Without(k)) /\ ByUse(Without(k)) /\ Keys(Without(k)) = Keys(list) \ {list[p].key}
      BY <2>1, <2>8, TakingOut DEF ListInv
    <2> QED
      BY <1>1, <2>1, <2>8, <2>9 DEF ListInv, IsWithout
  <1>2. CASE k \notin items
    BY <1>2 DEF Without, ListInv
  <1> QED
    BY <1>1, <1>2

(* The entry behind all others goes. *)
LEMMA Evicting ==
    ASSUME ListInv, Len(list) >= Capacity
    PROVE  /\ Front(list) \in Seq(Entry) /\ OnePerKey(Front(list)) /\ ByUse(Front(list))
           /\ Keys(Front(list)) = items \ {Last(list).key}
           /\ Len(Front(list)) = Len(list) - 1
  <1>1. list \in Seq(Entry) /\ Len(list) \in Nat \ {0} /\ \A i \in 1..Len(list) : list[i] \in Entry
    BY LenProperties, ElementOfSeq, CacheAssumption DEF ListInv
  <1> DEFINE n == Len(list)
             t == SubSeq(list, 1, n - 1)
  <1>2. t \in Seq(Entry) /\ Len(t) = n - 1 /\ \A i \in 1..(n - 1) : t[i] = list[i]
    <2>1. n \in Int /\ n - 1 \in Int /\ 1 \in Int /\ \A i \in 1..(n - 1) : list[i] \in Entry
      BY <1>1
    <2>2. /\ t \in Seq(Entry) /\ Len(t) = IF 1 <= n - 1 THEN n - 1 - 1 + 1 ELSE 0
          /\ \A i \in 1..n - 1 - 1 + 1 : t[i] = list[1 + i - 1]
      BY <2>1, SubSeqProperties
    <2>3. n \in Nat \ {0} /\ n - 1 - 1 + 1 = n - 1
      BY <1>1
    <2> HIDE DEF t, n
    <2>4. Len(t) = n - 1
      BY <2>2, <2>3
    <2>5. \A i \in 1..(n - 1) : t[i] = list[i]
      BY <2>2, <2>3
    <2> QED
      BY <2>2, <2>4, <2>5
  <1>3. Front(list) = t /\ Last(list) = list[n] /\ n \in 1..Len(list)
    BY <1>1 DEF Front, Last
  <1> HIDE DEF t
  <1>4. IsWithout(t, list, n)
    BY <1>1, <1>2 DEF IsWithout
  <1> HIDE DEF n
  <1>5. OnePerKey(t) /\ ByUse(t) /\ Keys(t) = Keys(list) \ {list[n].key}
    BY <1>1, <1>3, <1>4, TakingOut DEF ListInv
  <1> QED
    BY <1>2, <1>3, <1>5 DEF ListInv, n

(* A call asks for one of the texts, and stores what it asked for. *)
AsksForTexts ==
    \A c \in Callers : call[c].phase \in {"missed", "calling"} => call[c].text \in Texts
CacheInv == ListInv /\ AsksForTexts

(* An entry as Set makes it. *)
LEMMA FreshType ==
    ASSUME NEW k \in Texts
    PROVE  Fresh(k) \in Entry /\ Fresh(k).key = k /\ Fresh(k).idle = 0
  BY CacheAssumption DEF Fresh, Entry, Ages

(* A hit moves its entry to the front. *)
LEMMA HitKeeps == ASSUME ListInv, NEW k \in Texts, Hit(k) PROVE ListInv'
  <1>1. k \in items
    BY DEF Hit, Cached
  <1> DEFINE e == [ElementOf(k) EXCEPT !.idle = 0]
  <1>2. e \in Entry /\ e.key = k /\ e.idle = 0
    BY <1>1, Finding, CacheAssumption DEF Entry, Ages
  <1>3. list' = <<e>> \o Without(k) /\ items' = items
    BY DEF Hit
  <1> HIDE DEF e
  <1>4. /\ list' \in Seq(Entry) /\ Len(list') = Len(list)
        /\ OnePerKey(list') /\ ByUse(list') /\ Keys(list') = items
    <2>1. /\ Without(k) \in Seq(Entry) /\ OnePerKey(Without(k)) /\ ByUse(Without(k))
          /\ Keys(Without(k)) = items \ {k} /\ Len(Without(k)) = Len(list) - 1
      BY <1>1, Removing
    <2>2. /\ list' \in Seq(Entry) /\ Len(list') = Len(Without(k)) + 1
          /\ OnePerKey(list') /\ ByUse(list') /\ Keys(list') = Keys(Without(k)) \union {k}
      BY <1>2, <1>3, <2>1, PuttingInFront
    <2>3. Len(list) \in Nat
      BY LenProperties DEF ListInv
    <2> QED
      BY <1>1, <2>1, <2>2, <2>3
  <1> QED
    BY <1>3, <1>4 DEF ListInv

(* A miss takes an expired entry out of list and map. *)
LEMMA MissKeeps == ASSUME ListInv, NEW k \in Texts, Miss(k) PROVE ListInv'
  <1>1. list' = Without(k) /\ items' = items \ {k}
    BY DEF Miss
  <1>2. Len(list') <= Capacity
    <2>1. Len(list) \in Nat
      BY LenProperties DEF ListInv
    <2> QED
      BY <1>1, <2>1, Removing, CacheAssumption DEF ListInv
  <1>3. list' \in Seq(Entry) /\ OnePerKey(list') /\ ByUse(list') /\ Keys(list') = items'
    BY <1>1, Removing
  <1> QED
    BY <1>2, <1>3 DEF ListInv

(* Set replaces the entry of its text, or evicts the last one for it. *)
LEMMA PutKeeps == ASSUME ListInv, NEW k \in Texts, Put(k) PROVE ListInv'
  <1>1. Len(list) \in Nat /\ Capacity \in Nat /\ Len(list) <= Capacity
    BY LenProperties, CacheAssumption DEF ListInv
  <1>2. Fresh(k) \in Entry /\ Fresh(k).key = k /\ Fresh(k).idle = 0
    BY FreshType
  <1> DEFINE Good == /\ list' \in Seq(Entry) /\ OnePerKey(list') /\ ByUse(list')
                     /\ items' = Keys(list') /\ Len(list') <= Capacity
  <1>3. CASE k \in items
    <2>1. list' = <<Fresh(k)>> \o Without(k) /\ items' = items
      BY <1>3 DEF Put
    <2>2. /\ Without(k) \in Seq(Entry) /\ OnePerKey(Without(k)) /\ ByUse(Without(k))
          /\ Keys(Without(k)) = items \ {k} /\ Len(Without(k)) = Len(list) - 1
      BY <1>3, Removing
    <2>3. /\ list' \in Seq(Entry) /\ Len(list') = Len(Without(k)) + 1
          /\ OnePerKey(list') /\ ByUse(list') /\ Keys(list') = Keys(Without(k)) \union {k}
      BY <1>2, <2>1, <2>2, PuttingInFront
    <2>4. Keys(list') = items /\ Len(list') <= Capacity
      BY <1>3, <1>1, <2>2, <2>3
    <2> QED
      BY <2>1, <2>3, <2>4 DEF ListInv
  <1>4. CASE k \notin items /\ Len(list) >= Capacity
    <2>1. list' = <<Fresh(k)>> \o Front(list) /\ items' = (items \ {Last(list).key}) \union {k}
      BY <1>4 DEF Put
    <2>2. Good
      BY <1>4, <1>1, <1>2, <2>1, Evicting, PuttingInFront
    <2> QED
      BY <2>2 DEF ListInv
  <1>5. CASE k \notin items /\ ~(Len(list) >= Capacity)
    <2>1. list' = <<Fresh(k)>> \o list /\ items' = items \union {k}
      BY <1>5 DEF Put
    <2>2. Good
      BY <1>5, <1>1, <1>2, <2>1, PuttingInFront DEF ListInv
    <2> QED
      BY <2>2 DEF ListInv
  <1> QED
    BY <1>3, <1>4, <1>5

(* Time makes all entries older alike, up to where the count stops. *)
LEMMA AgesKeep == ASSUME ListInv, CacheAges PROVE ListInv'
  <1>1. /\ list \in Seq(Entry) /\ Len(list) \in Nat /\ TTL \in Nat
        /\ \A i \in 1..Len(list) : list[i] \in Entry
    BY LenProperties, ElementOfSeq, CacheAssumption DEF ListInv
  <1>2. /\ list' = [i \in 1..Len(list) |->
                      [list[i] EXCEPT !.age = Older(@), !.idle = Older(@)]]
        /\ items' = items
    BY DEF CacheAges
  <1>3. \A n \in Ages : Older(n) \in Ages
    BY <1>1 DEF Ages, Older
  <1>4. \A i \in 1..Len(list) :
          /\ list'[i] \in Entry /\ list'[i].key = list[i].key
          /\ list'[i].idle = Older(list[i].idle)
    BY <1>1, <1>2, <1>3 DEF Entry
  <1>5. list' \in Seq(Entry) /\ Len(list') = Len(list)
    <2>1. list' \in [1..Len(list) -> Entry]
      BY <1>2, <1>4
    <2> QED
      BY <1>1, <2>1
  <1>6. OnePerKey(list') /\ Keys(list') = Keys(list)
    BY <1>4, <1>5 DEF OnePerKey, Keys, ListInv
  <1>7. ByUse(list')
    <2> SUFFICES ASSUME NEW i \in 1..Len(list), NEW j \in 1..Len(list), i < j
                 PROVE  Older(list[i].idle) <= Older(list[j].idle)
      BY <1>4, <1>5 DEF ByUse
    <2>1. list[i].idle \in Ages /\ list[j].idle \in Ages /\ list[i].idle <= list[j].idle
      BY <1>1 DEF ListInv, ByUse, Entry
    <2> QED
      BY <1>1, <2>1 DEF Ages, Older
  <1> QED
    BY <1>2, <1>5, <1>6, <1>7 DEF ListInv

(* Every step of the client keeps the cache. *)
LEMMA CacheKept == BreakerTypeOK /\ CacheInv /\ [Next]_vars => CacheInv'
  <1> SUFFICES ASSUME BreakerTypeOK, ListInv, AsksForTexts, [Next]_vars
               PROVE  ListInv' /\ AsksForTexts'
    BY DEF CacheInv
  <1>1. call \in [Callers -> Call]
    BY DEF BreakerTypeOK
  <1>2. ASSUME UNCHANGED cacheVars PROVE ListInv'
    BY <1>2 DEF cacheVars, ListInv
  <1>3. ASSUME NEW c \in Callers, NEW next, Becomes(c, next),
               next.phase \in {"missed", "calling"} => next.text \in Texts
        PROVE  AsksForTexts'
    BY <1>1, <1>3 DEF Becomes, AsksForTexts
  <1>4. CASE Tick
    <2>1. \A c \in Callers : call'[c].phase = call[c].phase /\ call'[c].text = call[c].text
      BY <1>1, <1>4 DEF Tick, Call
    <2> QED
      BY <1>4, <2>1, AgesKeep DEF Tick, AsksForTexts
  <1>5. ASSUME NEW c \in Callers, NEW t \in Texts, EmbedHit(c, t)
        PROVE  ListInv' /\ AsksForTexts'
    BY <1>5, HitKeeps DEF EmbedHit, AsksForTexts
  <1>6. ASSUME NEW c \in Callers, NEW t \in Texts, EmbedMiss(c, t)
        PROVE  ListInv' /\ AsksForTexts'
    BY <1>3, <1>6, MissKeeps DEF EmbedMiss
  <1>7. ASSUME NEW c \in Callers, AllowClosed(c) \/ AllowProbe(c)
        PROVE  ListInv' /\ AsksForTexts'
    <2>1. call[c].phase = "missed" /\ call[c] \in Call /\ Start(c) /\ UNCHANGED cacheVars
      BY <1>1, <1>7 DEF AllowClosed, AllowProbe
    <2>2. [call[c] EXCEPT !.phase = "calling"].text = call[c].text
      BY <2>1 DEF Call
    <2> QED
      BY <1>2, <1>3, <2>1, <2>2 DEF Start, AsksForTexts
  <1>8. ASSUME NEW c \in Callers, Reject(c) \/ Fail(c) \/ Succeed(c)
        PROVE  ListInv' /\ AsksForTexts'
    BY <1>2, <1>3, <1>8 DEF Reject, Fail, Succeed, NoCall
  <1>9. ASSUME NEW c \in Callers, Store(c) PROVE ListInv' /\ AsksForTexts'
    <2>1. call[c].text \in Texts
      BY <1>9 DEF Store, Calling, AsksForTexts
    <2> QED
      BY <1>3, <1>9, <2>1, PutKeeps DEF Store, NoCall
  <1>10. CASE UNCHANGED vars
    BY <1>2, <1>10 DEF vars, AsksForTexts
  <1> QED
    BY <1>4, <1>5, <1>6, <1>7, <1>8, <1>9, <1>10 DEF Next, Allow, End

(* The cache is what its comment promises: one entry per text, the map and the
   list agree, no more entries than fit, and the least recently used one is
   the one that goes; also when two calls embed the same text at once and both
   store it. *)
THEOREM CacheIsSafe == Spec => []CacheSafety
  <1>1. Init => CacheInv
    <2> SUFFICES ASSUME Init PROVE CacheInv
      OBVIOUS
    <2>1. list = <<>> /\ items = {} /\ list \in Seq(Entry) /\ Len(list) = 0
      BY EmptySeq DEF Init, CacheInit
    <2>2. ListInv
      BY <2>1, CacheAssumption DEF ListInv, OnePerKey, ByUse, Keys
    <2>3. AsksForTexts
      BY DEF Init, AsksForTexts, NoCall
    <2> QED
      BY <2>2, <2>3 DEF CacheInv
  <1>2. IInv /\ CacheInv => CacheSafety
    <2> SUFFICES ASSUME IInv, CacheInv PROVE CacheSafety
      OBVIOUS
    <2>1. list \in Seq(Entry) /\ OnePerKey(list) /\ items = Keys(list)
      BY DEF CacheInv, ListInv
    <2>2. Cardinality(items) = Len(list)
      BY <2>1, KeysCount
    <2>3. items \subseteq Texts
      <3>1. \A i \in 1..Len(list) : list[i] \in Entry
        BY <2>1, ElementOfSeq
      <3> QED
        BY <2>1, <3>1 DEF Keys, Entry
    <2> QED
      BY <2>1, <2>2, <2>3
         DEF IInv, CacheInv, ListInv, ByUse, Keys, CacheSafety, TypeOK, CacheTypeOK,
             CacheAgrees, LastUsedFirst
  <1>3. IInv => BreakerTypeOK
    BY DEF IInv
  <1> QED
    BY <1>1, <1>2, <1>3, EmbedInvariance, CacheKept, PTL DEF Spec
=============================================================================
