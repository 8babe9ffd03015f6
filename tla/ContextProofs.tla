--------------------------- MODULE ContextProofs ----------------------------
(***************************************************************************)
(* The compression of a conversation: proofs about ContextManager for any  *)
(* requests, any messages, sizes and limits.                               *)
(***************************************************************************)
EXTENDS ContextManager, FiniteSetTheorems, SequenceTheorems, WellFoundedInduction, TLAPS

Phase(r) == request[r].phase
How(r) == request[r].how
SessionKept == UNCHANGED sessionVars

(* What a step of a request can do to the lock, to the session and to its own
   phase and messages. *)
StandsAside(r) ==                       \* Load, TryLock, Poll, Reread, Crash
    /\ ~Working(r) /\ ~Working(r)'
    /\ SessionKept /\ lock' \in {lock, TRUE} /\ (calm' => calm)
    /\ Phase(r)' = "setnx" => Mine(r)' = list
Wins(r) ==                              \* TryLock
    /\ At(r, "setnx") /\ ~lock
    /\ Phase(r)' = "reload" /\ Mine(r)' = Mine(r) /\ lock' = TRUE
    /\ SessionKept /\ calm' = calm
Begins(r) ==                            \* Reload
    /\ At(r, "reload")
    /\ Phase(r)' = "compress"
    /\ (Mine(r)' = list /\ calm' = calm) \/ (Mine(r)' = Mine(r) /\ ~calm')
    /\ SessionKept /\ lock' = lock
Leaves(r) ==                            \* Reload, CompressHistory, Crash
    /\ Working(r)
    /\ \/ (At(r, "reload") \/ At(r, "compress")) /\ Phase(r)' = "unlock" /\ (calm' => calm)
       \/ Phase(r)' = "error" /\ ~calm'
    /\ SessionKept /\ lock' = lock
Summarises(r) ==                        \* CompressHistory
    /\ At(r, "compress")
    /\ Phase(r)' = "del"
    /\ \E size \in SummarySizes : Mine(r)' = <<Summary(Covered(Mine(r)), size)>>
    /\ SessionKept /\ lock' = lock /\ calm' = calm
Deletes(r) ==                           \* WriteDel
    /\ At(r, "del")
    /\ \/ list' = <<>> /\ Phase(r)' = "push" /\ Mine(r)' = Mine(r) /\ calm' = calm
       \/ list' \in {list, <<>>} /\ Phase(r)' = "unlock" /\ ~calm'
    /\ UNCHANGED <<sent, untrimmed>> /\ lock' = lock
Writes(r) ==                            \* WritePush
    /\ At(r, "push")
    /\ Phase(r)' = "unlock"
    /\ (list' = list \o Mine(r) /\ calm' = calm) \/ (list' = list /\ ~calm')
    /\ UNCHANGED <<sent, untrimmed>> /\ lock' = lock
StartsOver(r) ==                        \* ResendWrite
    /\ At(r, "push")
    /\ Phase(r)' = "del" /\ Mine(r)' = Mine(r) /\ ~calm'
    /\ list' \in {list, list \o Mine(r)}
    /\ UNCHANGED <<sent, untrimmed>> /\ lock' = lock
FreesTwice(r) ==                        \* ResendUnlock
    /\ At(r, "unlock") /\ Phase(r)' = "unlock" /\ strays' = strays + 1
    /\ lock' = FALSE /\ ~calm'
    /\ SessionKept
Frees(r) ==                             \* Unlock
    /\ At(r, "unlock")
    /\ Phase(r)' = "returned"
    /\ (lock' = FALSE /\ calm' = calm) \/ (lock' = lock /\ ~calm')
    /\ SessionKept

(* What a request does, by itself or not. *)
Acts(r) == Step(r) \/ ResendWrite(r) \/ ResendUnlock(r) \/ Crash(r)

Kind(r) ==
    \/ StandsAside(r) \/ Wins(r) \/ Begins(r) \/ Leaves(r)
    \/ Summarises(r) \/ Deletes(r) \/ Writes(r) \/ Frees(r)
    \/ StartsOver(r) \/ FreesTwice(r)

(* Every request is a record. *)
Shape ==
    /\ DOMAIN request = Requests
    /\ \A r \in Requests : request[r] = [phase |-> request[r].phase,
                                         msgs |-> request[r].msgs,
                                         how |-> request[r].how]
Others(r) == \A q \in Requests \ {r} : request'[q] = request[q]

(* Goto changes the phase, Answer all of a request. *)
LEMMA Going ==
    ASSUME Shape, NEW r \in Requests, NEW p, Goto(r, p)
    PROVE  /\ Shape' /\ Others(r) /\ Phase(r)' = p /\ Mine(r)' = Mine(r)
           /\ How(r)' = How(r)
  <1>1. request'[r] = [phase |-> p, msgs |-> request[r].msgs, how |-> request[r].how]
    BY DEF Shape, Goto
  <1>2. Others(r) /\ DOMAIN request' = Requests
    BY DEF Shape, Goto, Others
  <1> QED
    BY <1>1, <1>2 DEF Shape, Others, Phase, Mine, How

(* A request that answers changes itself only. *)
LEMMA Answering ==
    ASSUME Shape, NEW r \in Requests, NEW p, NEW h, NEW m, Answer(r, p, h, m)
    PROVE  /\ Shape' /\ Others(r) /\ Phase(r)' = p /\ Mine(r)' = m
           /\ How(r)' = h
  <1>1. request'[r] = [phase |-> p, msgs |-> m, how |-> h]
    BY DEF Shape, Answer
  <1>2. Others(r) /\ DOMAIN request' = Requests
    BY DEF Shape, Answer, Others
  <1> QED
    BY <1>1, <1>2 DEF Shape, Others, Phase, Mine, How

(* A request that loads the list changes itself only. *)
LEMMA Loading ==
    ASSUME Shape, NEW r \in Requests, NEW p,
           request' = [request EXCEPT ![r].phase = p, ![r].msgs = list]
    PROVE  /\ Shape' /\ Others(r) /\ Phase(r)' = p /\ Mine(r)' = list
           /\ How(r)' = How(r)
  <1>1. request'[r] = [phase |-> p, msgs |-> list, how |-> request[r].how]
    <2>1. r \in DOMAIN request
      BY DEF Shape
    <2>2. request[r] \in [phase : {request[r].phase}, msgs : {request[r].msgs},
                          how : {request[r].how}]
      BY DEF Shape
    <2> QED
      BY <2>1, <2>2
  <1>2. Others(r) /\ DOMAIN request' = Requests
    BY DEF Shape, Others
  <1> QED
    BY <1>1, <1>2 DEF Shape, Others, Phase, Mine, How

(* Every step of a request is one of the ten. *)
LEMMA StepKinds ==
    ASSUME Shape, NEW r \in Requests, Acts(r)
    PROVE  Shape' /\ Others(r) /\ Kind(r)
  <1> USE DEF At, Working, Owner, Phase, SessionKept, sessionVars, Fine, Fault
  <1>1. CASE Load(r)
    BY <1>1, Going, Answering, Loading DEF Load, Kind, StandsAside
  <1>2. CASE TryLock(r)
    <2>1. CASE ~lock /\ lock' = TRUE /\ Goto(r, "reload") /\ Fine
      BY <1>2, <2>1, Going DEF TryLock, Kind, Wins
    <2>2. CASE lock /\ UNCHANGED lock /\ Goto(r, "poll") /\ Fine
      BY <1>2, <2>2, Going DEF TryLock, Kind, StandsAside
    <2>3. CASE Fault /\ lock' \in {lock, TRUE} /\ Truncate(r, "returned")
      <3>1. Answer(r, "returned", "truncated", HardTruncate(Mine(r)))
        BY <2>3 DEF Truncate
      <3>2. Shape' /\ Others(r) /\ Phase(r)' = "returned"
        BY <3>1, Answering
      <3> QED
        BY <1>2, <2>3, <3>2 DEF TryLock, Kind, StandsAside
    <2>4. CASE Fault /\ ~lock /\ lock' = TRUE /\ Goto(r, "poll")
      BY <1>2, <2>4, Going DEF TryLock, Kind, StandsAside
    <2> QED
      BY <1>2, <2>1, <2>2, <2>3, <2>4 DEF TryLock
  <1>3. CASE Reload(r)
    BY <1>3, Going, Answering, Loading DEF Reload, Kind, Begins, Leaves
  <1>4. CASE CompressHistory(r)
    BY <1>4, Answering DEF CompressHistory, Truncate, Kind, Summarises, Leaves
  <1>5. CASE WriteDel(r)
    BY <1>5, Going DEF WriteDel, Kind, Deletes
  <1>6. CASE WritePush(r)
    BY <1>6, Going DEF WritePush, Kind, Writes
  <1>7. CASE Unlock(r)
    BY <1>7, Going DEF Unlock, Kind, Frees
  <1>8. CASE Poll(r)
    BY <1>8, Going, Answering DEF Poll, Truncate, Kind, StandsAside
  <1>9. CASE Reread(r)
    BY <1>9, Answering DEF Reread, Truncate, Kind, StandsAside
  <1>10. CASE Crash(r)
    BY <1>10, Going DEF Crash, Kind, StandsAside, Leaves
  <1>11. CASE ResendWrite(r)
    BY <1>11, Going DEF ResendWrite, Kind, StartsOver
  <1>12. CASE ResendUnlock(r)
    BY <1>12 DEF ResendUnlock, Stray, Kind, FreesTwice, Others, Shape
  <1> QED
    BY <1>1, <1>2, <1>3, <1>4, <1>5, <1>6, <1>7, <1>8, <1>9, <1>10, <1>11, <1>12 DEF Step, Acts

(* A request loses the lock too early by a DEL that is sent again only. *)
LEMMA StrayKinds ==
    ASSUME Shape, NEW r \in Requests, Acts(r) PROVE FreesTwice(r) \/ strays' = strays
  <1>1. ASSUME ResendUnlock(r) PROVE FreesTwice(r)
    BY <1>1 DEF ResendUnlock, Stray, Fault, FreesTwice, At, Phase, SessionKept
  <1> QED
    BY <1>1 DEF Acts, Step, ResendWrite, Crash

(* At first there is a request record for each request. *)
LEMMA ShapeStarts == Init => Shape
  BY DEF Init, Shape, NewRequest

(* No step loses or adds a request. *)
LEMMA ShapeKept == Shape /\ [Next]_vars => Shape'
  <1> SUFFICES ASSUME Shape, [Next]_vars PROVE Shape'
    OBVIOUS
  <1>1. ASSUME NEW r \in Requests, Acts(r) PROVE Shape'
    BY <1>1, StepKinds
  <1>2. ASSUME UNCHANGED request PROVE Shape'
    BY <1>2 DEF Shape
  <1> QED
    BY <1>1, <1>2 DEF Next, Acts, Save, Expire, vars

-----------------------------------------------------------------------------
(* The lock.  Not only the owners of OneCompressor count, but also whoever is
   about to unlock, and the lock itself when it is free: its DEL frees whatever
   lock there is, and who has lost it may be followed by another. *)

Workers == {r \in Requests : Working(r)}
Vacancy == IF lock THEN 0 ELSE 1
LockInv ==
    /\ Shape
    /\ strays \in Nat /\ (calm => strays = 0)
    /\ Cardinality(Workers) + Vacancy <= 1 + strays

(* As long as nothing interferes there is one at work, and it has the lock. *)
Alone ==
    /\ \A r \in Requests : Working(r) => lock
    /\ \A r, s \in Requests : Working(r) /\ Working(s) => r = s

(* There are finitely many requests, and so there are of those at work. *)
LEMMA WorkersCount == IsFiniteSet(Workers) /\ Cardinality(Workers) \in Nat
  <1>1. Workers \in SUBSET Requests
    BY DEF Workers
  <1> QED
    BY <1>1, ContextAssumption, FS_Subset, FS_CardinalityType

(* The count of the lock says who is alone. *)
LEMMA CalmAlone == LockInv /\ calm => Alone
  <1> SUFFICES ASSUME LockInv, calm PROVE Alone
    OBVIOUS
  <1>1. Cardinality(Workers) + Vacancy <= 1
    BY DEF LockInv
  <1>2. ASSUME NEW r \in Requests, Working(r) PROVE Cardinality(Workers \ {r}) = 0 /\ lock
    <2>1. r \in Workers
      BY <1>2 DEF Workers
    <2>2. Cardinality(Workers \ {r}) = Cardinality(Workers) - 1 /\ IsFiniteSet(Workers \ {r})
      BY <2>1, WorkersCount, FS_RemoveElement
    <2>3. Cardinality(Workers \ {r}) \in Nat
      BY <2>2, FS_CardinalityType
    <2>4. Vacancy \in {0, 1} /\ (Vacancy = 0 => lock)
      BY DEF Vacancy
    <2> QED
      BY <1>1, <2>2, <2>3, <2>4, WorkersCount
  <1>3. ASSUME NEW r \in Requests, NEW s \in Requests, Working(r), Working(s) PROVE r = s
    <2>1. Workers \ {r} = {}
      BY <1>2, <1>3, WorkersCount, FS_RemoveElement, FS_EmptySet
    <2> QED
      BY <1>3, <2>1 DEF Workers
  <1> QED
    BY <1>2, <1>3 DEF Alone

(* Every step keeps the count: whoever begins to work fills the vacancy, whoever
   ends leaves at most one, and a lock that goes alone is a stray. *)
LEMMA LockKept == LockInv /\ [Next]_vars => LockInv'
  <1> DEFINE Count == Cardinality(Workers) + Vacancy <= 1 + strays
             Calm == calm => strays = 0
  <1> SUFFICES ASSUME LockInv, [Next]_vars PROVE strays' \in Nat /\ Calm' /\ Count'
    BY ShapeKept DEF LockInv
  <1>1. strays \in Nat /\ Calm /\ Count /\ Shape
    BY DEF LockInv
  <1>2. /\ Vacancy \in {0, 1} /\ (lock => Vacancy = 0) /\ (~lock => Vacancy = 1)
        /\ Vacancy' \in {0, 1} /\ (lock' => Vacancy' = 0)
        /\ (lock' = lock \/ lock' = TRUE => Vacancy' <= Vacancy)
    BY DEF Vacancy
  <1>3. Cardinality(Workers) \in Nat /\ IsFiniteSet(Workers)
    BY WorkersCount
  <1>4. ASSUME NEW r \in Requests, Acts(r) PROVE strays' \in Nat /\ Calm' /\ Count'
    <2>1. Kind(r) /\ \A q \in Requests \ {r} : Working(q)' <=> Working(q)
      BY <1>1, <1>4, StepKinds DEF Others, Working, Owner, At
    <2>2. FreesTwice(r) \/ strays' = strays
      BY <1>1, <1>4, StrayKinds
    <2>2a. calm' => calm
      BY <2>1 DEF Kind, StandsAside, Wins, Begins, Leaves, Summarises,
         Deletes, Writes, Frees, StartsOver, FreesTwice
    <2>3. strays' \in Nat /\ Calm'
      BY <1>1, <2>2, <2>2a DEF FreesTwice
    <2>4. CASE StandsAside(r)
      <3>1. Workers' = Workers
        BY <2>1, <2>4 DEF StandsAside, Workers
      <3>2. Vacancy' <= Vacancy /\ strays' = strays
        BY <1>2, <2>2, <2>4 DEF StandsAside, FreesTwice, Working
      <3> QED
        BY <1>1, <1>2, <1>3, <2>3, <3>1, <3>2
    <2>5. CASE Wins(r)
      <3>1. ~Working(r) /\ Working(r)'
        BY <2>5 DEF Wins, Working, Owner, At, Phase
      <3>2. Workers' = Workers \union {r} /\ r \notin Workers
        BY <2>1, <3>1 DEF Workers
      <3>3. Cardinality(Workers') = Cardinality(Workers) + 1
        BY <1>3, <3>2, FS_AddElement
      <3>4. Vacancy = 1 /\ Vacancy' = 0 /\ strays' = strays
        BY <1>2, <2>2, <2>5 DEF Wins, FreesTwice, At
      <3> QED
        BY <1>1, <1>3, <2>3, <3>3, <3>4
    <2>6. CASE /\ Working(r) /\ lock' = lock
               /\ ~FreesTwice(r)
      <3>1. Workers' = Workers \/ Workers' = Workers \ {r}
        BY <2>1, <2>6 DEF Workers
      <3>2. Workers' \in SUBSET Workers
        BY <3>1
      <3>3. Cardinality(Workers') <= Cardinality(Workers) /\ Cardinality(Workers') \in Nat
        BY <1>3, <3>2, FS_Subset, FS_CardinalityType
      <3>4. Vacancy' <= Vacancy /\ strays' = strays
        BY <1>2, <2>2, <2>6
      <3> QED
        BY <1>1, <1>2, <1>3, <2>3, <3>3, <3>4
    <2>7. CASE Frees(r)
      <3>1. ~Working(r)' /\ Working(r)
        BY <2>7 DEF Frees, Phase, Working, Owner, At
      <3>2. Workers' = Workers \ {r} /\ r \in Workers
        BY <2>1, <3>1 DEF Workers
      <3>3. Cardinality(Workers') = Cardinality(Workers) - 1
        BY <1>3, <3>2, FS_RemoveElement
      <3>4. strays' = strays
        BY <2>2, <2>7 DEF Frees, FreesTwice
      <3> QED
        BY <1>1, <1>2, <1>3, <2>3, <3>3, <3>4
    <2>8. CASE FreesTwice(r)
      <3>1. Working(r)' /\ Working(r)
        BY <2>8 DEF FreesTwice, Phase, Working, Owner, At
      <3>2. Workers' = Workers
        BY <2>1, <3>1 DEF Workers
      <3>3. strays' = strays + 1
        BY <2>8 DEF FreesTwice
      <3> QED
        BY <1>1, <1>2, <1>3, <2>3, <3>2, <3>3
    <2>9. Begins(r) \/ Leaves(r) \/ Summarises(r) \/ Deletes(r) \/ Writes(r) \/ StartsOver(r)
            => Working(r) /\ lock' = lock /\ ~FreesTwice(r)
      BY DEF Begins, Leaves, Summarises, Deletes, Writes, StartsOver, FreesTwice, Working, Owner,
         At, Phase
    <2> QED
      BY <2>1, <2>4, <2>5, <2>6, <2>7, <2>8, <2>9 DEF Kind
  <1>5. ASSUME UNCHANGED <<lock, request, strays>>, calm' => calm
        PROVE  strays' \in Nat /\ Calm' /\ Count'
    <2>1. Workers' = Workers /\ Vacancy' = Vacancy
      BY <1>5 DEF Workers, Vacancy, Working, Owner, At
    <2> QED
      BY <1>1, <1>5, <2>1
  <1>6. CASE Save
    BY <1>5, <1>6 DEF Save
  <1>7. CASE Expire
    <2>1. Workers' = Workers /\ Vacancy = 0 /\ ~calm'
      BY <1>2, <1>7 DEF Expire, Workers, Working, Owner, At
    <2>2. CASE Workers = {} /\ strays' = strays
      <3>1. Cardinality(Workers') = 0
        BY <2>1, <2>2, FS_EmptySet
      <3> QED
        BY <1>1, <1>2, <2>1, <2>2, <3>1
    <2>3. CASE strays' = strays + 1
      BY <1>1, <1>2, <1>3, <2>1, <2>3
    <2> QED
      BY <1>7, <2>2, <2>3 DEF Expire, Stray, Workers
  <1>8. CASE UNCHANGED vars
    BY <1>5, <1>8 DEF vars
  <1> QED
    BY <1>4, <1>6, <1>7, <1>8 DEF Next, Acts

(* The invariant of the lock, in every reachable state. *)
THEOREM LockInvariance == Spec => []LockInv
  <1>1. Init => LockInv
    <2> SUFFICES ASSUME Init PROVE LockInv
      OBVIOUS
    <2>1. Workers = {} /\ Vacancy = 1 /\ strays = 0
      BY DEF Init, Workers, Vacancy, Working, Owner, At, NewRequest
    <2>2. Cardinality(Workers) = 0
      BY <2>1, FS_EmptySet
    <2> QED
      BY <2>1, <2>2, ShapeStarts DEF LockInv
  <1> QED
    BY <1>1, LockKept, PTL DEF Spec

(* Of any number of requests no more summarise and replace the history at once
   than one and one for each time the lock went too early, by its TTL or by a DEL
   that was sent again, whatever else fails, crashes or gives up. *)
THEOREM CompressesAlone == Spec => []OneCompressor
  <1>1. LockInv => OneCompressor
    <2> SUFFICES ASSUME LockInv PROVE OneCompressor
      OBVIOUS
    <2>1. {r \in Requests : Owner(r)} \in SUBSET Workers
      BY DEF Workers, Working
    <2>2. /\ Cardinality({r \in Requests : Owner(r)}) <= Cardinality(Workers)
          /\ Cardinality({r \in Requests : Owner(r)}) \in Nat
      BY <2>1, WorkersCount, FS_Subset, FS_CardinalityType
    <2>3. Vacancy \in Nat /\ strays \in Nat /\ Cardinality(Workers) + Vacancy <= 1 + strays
      BY DEF LockInv, Vacancy
    <2> QED
      BY <2>2, <2>3, WorkersCount DEF OneCompressor
  <1> QED
    BY <1>1, LockInvariance, PTL

-----------------------------------------------------------------------------
(* The session: what its list holds, and what a request that is on its way to
   the write-back carries. *)

Carries(r) ==
    /\ Phase(r) \in {"setnx", "reload", "compress", "del", "push"} => Mine(r) \in Seq(Entry)
    /\ Phase(r) \in {"del", "push"} =>
          \E covers \in SUBSET Msgs, size \in Nat : Mine(r) = <<Summary(covers, size)>>

DataInv == SessionTypeOK /\ \A r \in Requests : Carries(r)

(* What a history tells is told by its parts. *)
LEMMA CoveredEmpty == Covered(<<>>) = {}
  BY EmptySeq DEF Covered

(* What one entry tells about. *)
LEMMA CoveredOne ==
    ASSUME NEW e \in Entry PROVE Covered(<<e>>) = e.covers
  BY DEF Covered

(* Two histories in a row tell what each of them tells. *)
LEMMA CoveredConcat ==
    \A h, t \in Seq(Entry) : Covered(h \o t) = Covered(h) \union Covered(t)
  <1> SUFFICES ASSUME NEW h \in Seq(Entry), NEW t \in Seq(Entry)
               PROVE  Covered(h \o t) = Covered(h) \union Covered(t)
    OBVIOUS
  <1>1. Len(h) \in Nat /\ Len(t) \in Nat
    BY LenProperties
  <1>2. /\ Len(h \o t) = Len(h) + Len(t)
        /\ \A i \in 1..(Len(h) + Len(t)) : (h \o t)[i] = IF i <= Len(h) THEN h[i] ELSE t[i - Len(h)]
    BY ConcatProperties
  <1>3. Covered(h \o t) \subseteq Covered(h) \union Covered(t)
    <2> SUFFICES ASSUME NEW i \in 1..(Len(h) + Len(t))
                 PROVE  (h \o t)[i].covers \subseteq Covered(h) \union Covered(t)
      BY <1>2 DEF Covered
    <2>1. CASE i <= Len(h)
      BY <1>1, <1>2, <2>1 DEF Covered
    <2>2. CASE ~(i <= Len(h))
      <3>1. i - Len(h) \in 1..Len(t) /\ (h \o t)[i] = t[i - Len(h)]
        BY <1>1, <1>2, <2>2
      <3> QED
        BY <3>1 DEF Covered
    <2> QED
      BY <2>1, <2>2
  <1>4. Covered(h) \subseteq Covered(h \o t)
    <2> SUFFICES ASSUME NEW i \in 1..Len(h) PROVE h[i].covers \subseteq Covered(h \o t)
      BY DEF Covered
    <2>1. i \in 1..Len(h \o t) /\ (h \o t)[i] = h[i]
      BY <1>1, <1>2
    <2> QED
      BY <2>1 DEF Covered
  <1>5. Covered(t) \subseteq Covered(h \o t)
    <2> SUFFICES ASSUME NEW i \in 1..Len(t) PROVE t[i].covers \subseteq Covered(h \o t)
      BY DEF Covered
    <2>1. Len(h) + i \in 1..Len(h \o t) /\ (h \o t)[Len(h) + i] = t[i]
      BY <1>1, <1>2
    <2> QED
      BY <2>1 DEF Covered
  <1> QED
    BY <1>3, <1>4, <1>5

(* A history tells about messages only. *)
LEMMA CoveredType == ASSUME NEW h \in Seq(Entry) PROVE Covered(h) \in SUBSET Msgs
  <1>1. \A k \in 1..Len(h) : h[k] \in Entry
    BY ElementOfSeq
  <1> QED
    BY <1>1 DEF Covered, Entry

(* A message as SaveMessage appends it tells about itself. *)
LEMMA PlainType == ASSUME NEW m \in Msgs PROVE Plain(m) \in Entry /\ Plain(m).covers = {m}
  BY SessionAssumption DEF Plain, Entry

(* A summary is an entry, and a history of its own. *)
LEMMA SummaryType ==
    ASSUME NEW covers \in SUBSET Msgs, NEW size \in Nat
    PROVE  /\ Summary(covers, size) \in Entry /\ Summary(covers, size).covers = covers
           /\ Summary(covers, size).summary = TRUE
           /\ <<Summary(covers, size)>> \in Seq(Entry)
  BY DEF Summary, Entry

(* The cut keeps a history, and one that is short enough as it is. *)
LEMMA NewestType ==
    ASSUME NEW h \in Seq(Entry)
    PROVE  Newest(h) \in Seq(Entry) /\ (Len(h) <= MaxMsgs \/ Len(Newest(h)) = MaxMsgs)
  <1>1. Len(h) \in Nat /\ MaxMsgs \in Nat \ {0}
    BY LenProperties, SessionAssumption
  <1>2. CASE Len(h) <= MaxMsgs
    BY <1>2 DEF Newest
  <1>3. CASE ~(Len(h) <= MaxMsgs)
    <2>1. Newest(h) = SubSeq(h, Len(h) - MaxMsgs + 1, Len(h))
      BY <1>3 DEF Newest
    <2>2. SubSeq(h, Len(h) - MaxMsgs + 1, Len(h)) \in Seq(Entry)
          /\ Len(SubSeq(h, Len(h) - MaxMsgs + 1, Len(h))) = MaxMsgs
      BY <1>1, <1>3, SubSeqProperties
    <2> QED
      BY <2>1, <2>2
  <1> QED
    BY <1>2, <1>3

(* Every step keeps the types of the list and of what is carried. *)
LEMMA DataKept == Shape /\ DataInv /\ [Next]_vars => DataInv'
  <1> SUFFICES ASSUME Shape, DataInv, [Next]_vars PROVE DataInv'
    OBVIOUS
  <1>1. <<>> \in Seq(Entry)
    BY EmptySeq
  <1>2. list \in Seq(Entry) /\ SessionTypeOK /\ \A r \in Requests : Carries(r)
    BY DEF DataInv, SessionTypeOK
  <1>3. ASSUME NEW r \in Requests, Acts(r) PROVE DataInv'
    <2>1. Kind(r) /\ \A q \in Requests \ {r} : Phase(q)' = Phase(q) /\ Mine(q)' = Mine(q)
      BY <1>3, StepKinds DEF Others, Phase, Mine
    <2>2. \A q \in Requests \ {r} : Carries(q)'
      BY <1>2, <2>1 DEF Carries
    <2>3. sent' = sent /\ untrimmed' = untrimmed
      BY <2>1 DEF Kind, StandsAside, Wins, Begins, Leaves, Summarises, Deletes, Writes,
         Frees, StartsOver, FreesTwice, SessionKept, sessionVars
    <2>4. CASE StandsAside(r) \/ Leaves(r) \/ Frees(r) \/ FreesTwice(r)
      <3>1. list' = list /\ Carries(r)'
        BY <1>2, <2>4 DEF StandsAside, Leaves, Frees, FreesTwice, SessionKept, sessionVars,
           Carries, Working, Owner, At, Phase
      <3> QED
        BY <1>2, <2>2, <2>3, <3>1 DEF DataInv, SessionTypeOK
    <2>5. CASE Wins(r) \/ Begins(r)
      <3>1. list' = list /\ Carries(r)'
        BY <1>2, <2>5 DEF Wins, Begins, SessionKept, sessionVars, Carries, At, Phase
      <3> QED
        BY <1>2, <2>2, <2>3, <3>1 DEF DataInv, SessionTypeOK
    <2>6. CASE Summarises(r)
      <3>1. Covered(Mine(r)) \in SUBSET Msgs
        BY <1>2, <2>6, CoveredType DEF Summarises, Carries, At, Phase
      <3>2. PICK size \in Nat : Mine(r)' = <<Summary(Covered(Mine(r)), size)>>
        BY <2>6, ContextAssumption DEF Summarises
      <3>3. Mine(r)' \in Seq(Entry)
        BY <3>1, <3>2, SummaryType
      <3>4. Carries(r)'
        BY <3>1, <3>2, <3>3 DEF Carries
      <3>5. list' = list
        BY <2>6 DEF Summarises, SessionKept, sessionVars
      <3> QED
        BY <1>2, <2>2, <2>3, <3>4, <3>5 DEF DataInv, SessionTypeOK
    <2>7. CASE Deletes(r)
      <3>1. list' \in Seq(Entry)
        BY <1>2, <1>1, <2>7 DEF Deletes
      <3>2. Carries(r)'
        BY <1>2, <2>7 DEF Deletes, Carries, At, Phase
      <3> QED
        BY <1>2, <2>2, <2>3, <3>1, <3>2 DEF DataInv, SessionTypeOK
    <2>8. CASE Writes(r)
      <3>1. Mine(r) \in Seq(Entry)
        BY <1>2, <2>8 DEF Writes, Carries, At, Phase
      <3>2. list' \in Seq(Entry)
        BY <1>2, <2>8, <3>1, ConcatProperties DEF Writes
      <3>3. Carries(r)'
        BY <2>8 DEF Writes, Carries
      <3> QED
        BY <1>2, <2>2, <2>3, <3>2, <3>3 DEF DataInv, SessionTypeOK
    <2>9. CASE StartsOver(r)
      <3>1. Mine(r) \in Seq(Entry)
        BY <1>2, <2>9 DEF StartsOver, Carries, At, Phase
      <3>2. list' \in Seq(Entry)
        BY <1>2, <2>9, <3>1, ConcatProperties DEF StartsOver
      <3>3. Carries(r)'
        BY <1>2, <2>9 DEF StartsOver, Carries, At, Phase
      <3> QED
        BY <1>2, <2>2, <2>3, <3>2, <3>3 DEF DataInv, SessionTypeOK
    <2> QED
      BY <2>1, <2>4, <2>5, <2>6, <2>7, <2>8, <2>9 DEF Kind
  <1>4. CASE Save
    <2>1. UNCHANGED request /\ ((\E m \in Msgs : Push(m)) \/ Trim)
      BY <1>4 DEF Save
    <2>2. \A r \in Requests : Carries(r)'
      BY <1>2, <2>1 DEF Carries, Phase, Mine
    <2>3. list' \in Seq(Entry)
      <3>1. ASSUME NEW m \in Msgs, Push(m) PROVE list' \in Seq(Entry)
        <4>1. Append(list, Plain(m)) \in Seq(Entry)
          BY <1>2, PlainType, AppendProperties
        <4> QED
          BY <3>1, <4>1 DEF Push
      <3>2. CASE Trim
        <4>1. Newest(list) \in Seq(Entry)
          BY <1>2, NewestType
        <4> QED
          BY <3>2, <4>1 DEF Trim
      <3> QED
        BY <2>1, <3>1, <3>2
    <2>4. sent' \in [Msgs -> Nat] /\ untrimmed' \in Nat
      BY <1>2, <2>1 DEF Push, Trim, SessionTypeOK
    <2> QED
      BY <2>2, <2>3, <2>4 DEF DataInv, SessionTypeOK
  <1>5. CASE Expire \/ UNCHANGED vars
    BY <1>5, <1>2 DEF Expire, vars, sessionVars, DataInv, SessionTypeOK, Carries, Phase,
       Mine
  <1> QED
    BY <1>3, <1>4, <1>5 DEF Next, Acts

(* The types of the session and of what is carried, in every reachable state. *)
THEOREM DataInvariance == Spec => [](Shape /\ DataInv)
  <1>1. Init => Shape /\ DataInv
    <2> SUFFICES ASSUME Init PROVE DataInv
      BY ShapeStarts
    <2>1. SessionTypeOK
      BY EmptySeq DEF Init, SessionInit, SessionTypeOK
    <2>2. \A r \in Requests : Carries(r)
      BY DEF Init, Carries, Phase, NewRequest
    <2> QED
      BY <2>1, <2>2 DEF DataInv
  <1> QED
    BY <1>1, ShapeKept, DataKept, PTL DEF Spec

-----------------------------------------------------------------------------
(* Nothing is lost.  A request that compresses has read all that was saved; one
   that is about to write back tells all of it. *)

Complete(r) == Compressing(r) => Saved \subseteq Covered(Mine(r))
KeepInv == calm => NothingLost /\ \A r \in Requests : Complete(r)

(* What the requests are about to append: that of the one at work, if any. *)
LEMMA PendingOfOne ==
    ASSUME NEW req, NEW r \in Requests, \A s \in Requests : req[s].phase = "push" => s = r
    PROVE  UNION {Covered(req[q].msgs) : q \in {s \in Requests : req[s].phase = "push"}}
             = IF req[r].phase = "push" THEN Covered(req[r].msgs) ELSE {}
  <1>1. CASE req[r].phase = "push"
    <2>1. {s \in Requests : req[s].phase = "push"} = {r}
      BY <1>1
    <2> QED
      BY <1>1, <2>1
  <1>2. CASE req[r].phase # "push"
    <2>1. {s \in Requests : req[s].phase = "push"} = {}
      BY <1>2
    <2> QED
      BY <1>2, <2>1
  <1> QED
    BY <1>1, <1>2

(* While nothing interferes, every step keeps what was saved told by somebody. *)
LEMMA KeepKept == LockInv /\ DataInv /\ KeepInv /\ [Next]_vars => KeepInv'
  <1> SUFFICES ASSUME LockInv, DataInv, KeepInv, [Next]_vars, calm'
               PROVE  Saved' \subseteq Covered(list)' \union Pending' /\ \A r \in Requests : Complete(r)'
    BY DEF KeepInv, NothingLost
  <1>1. ASSUME NEW r \in Requests, Acts(r)
        PROVE  Saved' \subseteq Covered(list)' \union Pending' /\ \A q \in Requests : Complete(q)'
    <2>1. Kind(r) /\ \A q \in Requests \ {r} : request'[q] = request[q]
      BY <1>1, StepKinds DEF LockInv, Others
    <2>2. calm /\ sent' = sent
      BY <2>1 DEF Kind, StandsAside, Wins, Begins, Leaves, Summarises, Deletes, Writes,
         Frees, StartsOver, FreesTwice, SessionKept, sessionVars
    <2>3. Alone /\ Saved \subseteq Covered(list) \union Pending
          /\ (\A q \in Requests : Complete(q)) /\ Saved' = Saved
      BY <2>2, CalmAlone DEF KeepInv, NothingLost, Saved
    <2>4. \A q \in Requests \ {r} : Complete(q)'
      BY <2>1, <2>3 DEF Complete, Compressing, At, Mine
    <2>5. CASE StandsAside(r)
      <3>1. ~At(r, "push") /\ ~At(r, "push")' /\ ~Compressing(r)'
        BY <2>5 DEF StandsAside, Working, Owner, At, Compressing
      <3>2. Pending' = Pending
        <4>1. {s \in Requests : At(s, "push")}' = {s \in Requests : At(s, "push")}
          BY <2>1, <3>1 DEF At
        <4>2. \A s \in {q \in Requests : At(q, "push")} : Mine(s)' = Mine(s)
          BY <2>1, <3>1 DEF Mine
        <4>3. \A s \in {q \in Requests : At(q, "push")} : Covered(Mine(s))' = Covered(Mine(s))
          BY <4>2 DEF Covered
        <4> QED
          BY <4>1, <4>3 DEF Pending
      <3>3. list' = list /\ Complete(r)'
        BY <2>5, <3>1 DEF StandsAside, SessionKept, sessionVars, Complete
      <3> QED
        BY <2>3, <2>4, <3>2, <3>3 DEF Covered
    <2>6. ASSUME ~StandsAside(r)
          PROVE  /\ Pending = IF At(r, "push") THEN Covered(Mine(r)) ELSE {}
                 /\ Pending' = IF At(r, "push")' THEN Covered(Mine(r))' ELSE {}
      <3>1. \A s \in Requests \ {r} : ~Working(s)
        <4>1. Working(r) \/ ~lock
          BY <2>1, <2>6 DEF Kind, Wins, Begins, Leaves, Summarises, Deletes, Writes,
         Frees, StartsOver, FreesTwice,
                            Working, Owner, At
        <4> QED
          BY <2>3, <4>1 DEF Alone
      <3>2. \A s \in Requests : At(s, "push") => s = r
        BY <3>1 DEF Working, Owner, At
      <3>3. \A s \in Requests : At(s, "push")' => s = r
        BY <2>1, <3>2 DEF At
      <3>4. Pending = IF At(r, "push") THEN Covered(Mine(r)) ELSE {}
        BY <3>2, PendingOfOne DEF Pending, At, Mine
      <3>5. Pending' = IF At(r, "push")' THEN Covered(Mine(r))' ELSE {}
        BY <3>3, PendingOfOne DEF Pending, At, Mine, Covered
      <3> QED
        BY <3>4, <3>5
    <2>7. CASE Wins(r) \/ Leaves(r) \/ Frees(r)
      <3>1. /\ ~StandsAside(r) /\ ~At(r, "push") /\ ~At(r, "push")'
            /\ ~Compressing(r)' /\ list' = list
        BY <2>7 DEF Wins, Leaves, Frees, StandsAside, Working, Owner, At, Phase,
           Compressing,
                    SessionKept, sessionVars
      <3>2. Complete(r)' /\ Covered(list)' = Covered(list)
        BY <3>1 DEF Complete, Covered
      <3> QED
        BY <2>3, <2>4, <2>6, <3>1, <3>2
    <2>8. CASE Begins(r)
      <3>1. /\ ~StandsAside(r) /\ ~At(r, "push") /\ ~At(r, "push")'
            /\ list' = list /\ Mine(r)' = list
        BY <2>8 DEF Begins, StandsAside, Working, Owner, At, Phase, SessionKept, sessionVars
      <3>2. Covered(list)' = Covered(list) /\ Covered(Mine(r))' = Covered(list)
        BY <3>1 DEF Covered
      <3>3. Complete(r)'
        BY <2>3, <2>6, <3>1, <3>2 DEF Complete
      <3> QED
        BY <2>3, <2>4, <2>6, <3>1, <3>2, <3>3
    <2>9. CASE Summarises(r)
      <3>1. /\ ~StandsAside(r) /\ ~At(r, "push") /\ ~At(r, "push")' /\ list' = list
        BY <2>9 DEF Summarises, StandsAside, Working, Owner, At, Phase, SessionKept, sessionVars
      <3>2. PICK size \in Nat : Mine(r)' = <<Summary(Covered(Mine(r)), size)>>
        BY <2>9, ContextAssumption DEF Summarises
      <3>3. Covered(Mine(r)) \in SUBSET Msgs
        BY <2>9, CoveredType DEF DataInv, Carries, Summarises, At, Phase
      <3>4. Covered(Mine(r))' = Covered(Mine(r))
        <4>1. Covered(<<Summary(Covered(Mine(r)), size)>>) = Covered(Mine(r))
          BY <3>3, SummaryType, CoveredOne
        <4> QED
          BY <3>2, <4>1 DEF Covered
      <3>5. Complete(r)' /\ Covered(list)' = Covered(list)
        BY <2>3, <2>9, <3>1, <3>4 DEF Complete, Compressing, Summarises, Covered
      <3> QED
        BY <2>3, <2>4, <2>6, <3>1, <3>5
    <2>10. CASE Deletes(r)
      <3>1. /\ ~StandsAside(r) /\ At(r, "push")' /\ Mine(r)' = Mine(r)
            /\ ~Compressing(r)' /\ Compressing(r)
        BY <2>10 DEF Deletes, StandsAside, Working, Owner, At, Phase, Compressing
      <3>2. Covered(Mine(r))' = Covered(Mine(r)) /\ Saved \subseteq Covered(Mine(r))
        BY <2>3, <3>1 DEF Complete, Covered
      <3> QED
        BY <2>3, <2>4, <2>6, <3>1, <3>2 DEF Complete
    <2>11. CASE Writes(r)
      <3>1. /\ ~StandsAside(r) /\ At(r, "push") /\ ~At(r, "push")' /\ ~Compressing(r)'
            /\ list' = list \o Mine(r)
        BY <2>11 DEF Writes, StandsAside, Working, Owner, At, Phase, Compressing
      <3>2. list \in Seq(Entry) /\ Mine(r) \in Seq(Entry)
        BY <2>11 DEF DataInv, SessionTypeOK, Carries, Writes, At, Phase
      <3>3. Covered(list)' = Covered(list) \union Covered(Mine(r))
        <4>1. Covered(list \o Mine(r)) = Covered(list) \union Covered(Mine(r))
          BY <3>2, CoveredConcat
        <4> QED
          BY <3>1, <4>1 DEF Covered
      <3> QED
        BY <2>3, <2>4, <2>6, <3>1, <3>3 DEF Complete
    <2> QED
      BY <2>1, <2>5, <2>7, <2>8, <2>9, <2>10, <2>11 DEF Kind, StartsOver, FreesTwice
  <1>2. CASE Save
    <2>1. calm /\ request' = request /\ Pending' = Pending
      <3>1. request' = request
        BY <1>2 DEF Save
      <3>2. calm
        BY <1>2 DEF Save
      <3>3. Pending' = Pending
        BY <3>1 DEF Pending, At, Mine, Covered
      <3> QED
        BY <3>1, <3>2, <3>3
    <2>2. Saved \subseteq Covered(list) \union Pending /\ \A q \in Requests : Complete(q)
      BY <2>1 DEF KeepInv, NothingLost
    <2>3. ASSUME NEW m \in Msgs, Push(m), ~\E q \in Requests : Compressing(q)
          PROVE  Saved' \subseteq Covered(list)' \union Pending' /\ \A q \in Requests : Complete(q)'
      <3>1. \A q \in Requests : Complete(q)'
        BY <2>1, <2>3 DEF Complete, Compressing, At
      <3>2. Saved' \subseteq Saved \union {m}
        BY <2>3 DEF Push, Saved, DataInv, SessionTypeOK
      <3>3. Covered(list)' = Covered(list) \union {m}
        <4>1. /\ list \in Seq(Entry) /\ Plain(m) \in Entry /\ Plain(m).covers = {m}
              /\ <<Plain(m)>> \in Seq(Entry)
          BY PlainType DEF DataInv, SessionTypeOK
        <4>2. Append(list, Plain(m)) = list \o <<Plain(m)>>
          BY <4>1, AppendIsConcat
        <4>3. Covered(list \o <<Plain(m)>>) = Covered(list) \union Covered(<<Plain(m)>>)
          BY <4>1, CoveredConcat
        <4>4. Covered(<<Plain(m)>>) = {m}
          BY <4>1, CoveredOne
        <4> QED
          BY <2>3, <4>2, <4>3, <4>4 DEF Push, Covered
      <3> QED
        BY <2>1, <2>2, <3>1, <3>2, <3>3
    <2>4. CASE Trim /\ list' = list
      <3>1. Saved' = Saved /\ Covered(list)' = Covered(list)
        BY <2>4 DEF Trim, Saved, Covered, DataInv, SessionTypeOK
      <3>2. \A q \in Requests : Complete(q)'
        BY <2>1, <2>2, <3>1 DEF Complete, Compressing, At, Mine, Covered
      <3> QED
        BY <2>1, <2>2, <3>1, <3>2
    <2> QED
      BY <1>2, <2>3, <2>4 DEF Save
  <1>3. ~Expire
    BY DEF Expire
  <1>4. CASE UNCHANGED vars
    BY <1>4 DEF vars, sessionVars, KeepInv, NothingLost, Complete, Compressing, At,
       Mine, Covered,
                Pending, Saved
  <1> QED
    BY <1>1, <1>2, <1>3, <1>4 DEF Next, Acts

(* What was saved is told by the list, or by the summary about to be appended,
   until something fails, the cap cuts a message off, the lock lapses or a
   message comes during a compression. *)
THEOREM NothingIsLost == Spec => []NothingLost
  <1>1. Init => KeepInv
    BY DEF Init, SessionInit, KeepInv, NothingLost, Saved, Complete, Compressing, At,
       NewRequest
  <1>2. KeepInv => NothingLost
    BY DEF KeepInv, NothingLost
  <1> QED
    BY <1>1, <1>2, LockInvariance, DataInvariance, KeepKept, PTL DEF Spec

-----------------------------------------------------------------------------
(* The cap.  Only messages count, and only a SaveMessage adds one. *)

Messages(h) == {k \in 1..Len(h) : ~h[k].summary}

(* A history has no more plain messages than entries. *)
LEMMA MessagesCount ==
    ASSUME NEW h \in Seq(Entry)
    PROVE  /\ IsFiniteSet(Messages(h)) /\ Cardinality(Messages(h)) \in Nat
           /\ Cardinality(Messages(h)) <= Len(h)
  <1>1. Len(h) \in Nat
    BY LenProperties
  <1>2. IsFiniteSet(1..Len(h)) /\ Cardinality(1..Len(h)) = Len(h)
    BY <1>1, FS_Interval
  <1>3. Messages(h) \in SUBSET (1..Len(h))
    BY DEF Messages
  <1> QED
    BY <1>2, <1>3, FS_Subset, FS_CardinalityType

(* Every step keeps the cap: a push raises what it allows by one. *)
LEMMA CapKept == Shape /\ DataInv /\ CapIsEnforced /\ [Next]_vars => CapIsEnforced'
  <1> DEFINE Within == Cardinality(Messages(list)) <= MaxMsgs + untrimmed
  <1> SUFFICES ASSUME Shape, DataInv, Within, [Next]_vars PROVE Within'
    BY DEF CapIsEnforced, Messages
  <1>1. list \in Seq(Entry) /\ Len(list) \in Nat /\ MaxMsgs \in Nat \ {0}
    BY LenProperties, SessionAssumption DEF DataInv, SessionTypeOK
  <1>2. untrimmed \in Nat
    BY DEF DataInv, SessionTypeOK
  <1>3. Cardinality(Messages(list)) \in Nat
    BY <1>1, MessagesCount
  <1>4. ASSUME UNCHANGED <<list, untrimmed>> PROVE Within'
    BY <1>4 DEF Messages
  <1>5. ASSUME NEW r \in Requests, Acts(r) PROVE Within'
    <2>1. Kind(r)
      BY <1>5, StepKinds
    <2>1a. untrimmed' = untrimmed
      BY <2>1 DEF Kind, StandsAside, Wins, Begins, Leaves, Summarises, Deletes, Writes,
         Frees, StartsOver, FreesTwice, SessionKept, sessionVars
    <2>2. CASE Deletes(r) /\ list' = <<>>
      <3>1. Messages(list') = {}
        BY <2>2, EmptySeq DEF Messages
      <3>2. Cardinality(Messages(list')) = 0
        BY <3>1, FS_EmptySet
      <3> QED
        BY <1>1, <1>2, <2>1a, <3>1, <3>2
    <2>3. CASE At(r, "push") /\ list' = list \o Mine(r)
      <3>1. PICK covers \in SUBSET Msgs, size \in Nat : Mine(r) = <<Summary(covers, size)>>
        BY <2>3 DEF DataInv, Carries, At, Phase
      <3>2. /\ Mine(r) \in Seq(Entry) /\ Len(Mine(r)) = 1
            /\ Mine(r)[1].summary = TRUE
        <4>1. PICK e \in Entry : e = Summary(covers, size) /\ e.summary = TRUE
          BY <3>1, SummaryType
        <4>2. Mine(r) = <<e>>
          BY <3>1, <4>1
        <4> QED
          BY <4>1, <4>2
      <3>3. /\ Len(list') = Len(list) + 1 /\ list'[Len(list) + 1].summary = TRUE
            /\ \A k \in 1..Len(list) : list'[k] = list[k]
        <4>1. PICK t \in Seq(Entry) : t = Mine(r) /\ Len(t) = 1 /\ t[1].summary = TRUE
          BY <3>2
        <4>2. /\ Len(list \o t) = Len(list) + 1
              /\ \A k \in 1..(Len(list) + 1) :
                    (list \o t)[k] = IF k <= Len(list) THEN list[k] ELSE t[k - Len(list)]
          <5>1. /\ Len(list \o t) = Len(list) + Len(t)
                /\ \A k \in 1..(Len(list) + Len(t)) :
                      (list \o t)[k] = IF k <= Len(list) THEN list[k] ELSE t[k - Len(list)]
            BY <1>1, ConcatProperties
          <5> QED
            BY <4>1, <5>1
        <4>3. (list \o t)[Len(list) + 1] = t[1]
          BY <1>1, <4>2
        <4> QED
          BY <1>1, <2>3, <4>1, <4>2, <4>3
      <3>4. Messages(list') = Messages(list)
        BY <1>1, <3>3 DEF Messages
      <3> QED
        BY <2>1a, <3>4
    <2>5. \/ list' = list
          \/ Deletes(r) /\ list' = <<>>
          \/ At(r, "push") /\ list' = list \o Mine(r)
      BY <2>1 DEF Kind, StandsAside, Wins, Begins, Leaves, Summarises, Deletes, Writes,
         Frees, StartsOver, FreesTwice, SessionKept, sessionVars
    <2> QED
      BY <1>4, <2>2, <2>3, <2>1a, <2>5
  <1>6. ASSUME NEW m \in Msgs, Push(m) PROVE Within'
    <2>1. Plain(m) \in Entry /\ Plain(m).summary = FALSE
      BY PlainType DEF Plain
    <2>2. /\ Len(list') = Len(list) + 1 /\ list'[Len(list) + 1] = Plain(m)
          /\ \A k \in 1..Len(list) : list'[k] = list[k]
      BY <1>6, <1>1, <2>1, AppendProperties DEF Push
    <2>3. Messages(list') = Messages(list) \union {Len(list) + 1} /\ Len(list) + 1 \notin Messages(list)
      BY <1>1, <2>1, <2>2 DEF Messages
    <2>4. untrimmed' = untrimmed + 1
      BY <1>6 DEF Push
    <2>5. IsFiniteSet(Messages(list)) /\ Cardinality(Messages(list)) \in Nat
      BY <1>1, MessagesCount
    <2>6. Cardinality(Messages(list')) = Cardinality(Messages(list)) + 1
      BY <2>3, <2>5, FS_AddElement
    <2> QED
      BY <1>1, <1>2, <2>4, <2>5, <2>6
  <1>7. CASE Trim
    <2>1. list' = Newest(list) /\ Newest(list) \in Seq(Entry) /\ Len(Newest(list)) \in Nat
      BY <1>7, <1>1, NewestType, LenProperties DEF Trim
    <2>2. Len(list') <= MaxMsgs
      <3>1. CASE Len(list) <= MaxMsgs
        BY <2>1, <3>1 DEF Newest
      <3>2. CASE ~(Len(list) <= MaxMsgs)
        BY <1>1, <2>1, <3>2, NewestType
      <3> QED
        BY <3>1, <3>2
    <2>3. Cardinality(Messages(list')) \in Nat /\ Cardinality(Messages(list')) <= Len(list')
      BY <2>1, MessagesCount
    <2>4. untrimmed' \in Nat
      BY <1>2, <1>7 DEF Trim
    <2> QED
      BY <1>1, <2>1, <2>2, <2>3, <2>4
  <1> QED
    BY <1>4, <1>5, <1>6, <1>7 DEF Next, Acts, Save, Expire, vars, sessionVars

(* The cap of the list holds up to the SaveMessages between their RPUSH and
   their LTRIM, however many callers save and compress at the same time. *)
THEOREM CapHolds == Spec => []CapIsEnforced
  <1>1. Init => CapIsEnforced
    <2> SUFFICES ASSUME Init PROVE CapIsEnforced
      OBVIOUS
    <2>1. list = <<>> /\ list \in Seq(Entry) /\ Len(list) = 0
      BY EmptySeq DEF Init, SessionInit
    <2>2. Cardinality(Messages(list)) <= 0 /\ Cardinality(Messages(list)) \in Nat
      BY <2>1, MessagesCount
    <2>3. untrimmed = 0
      BY DEF Init, SessionInit
    <2> QED
      BY <2>2, <2>3, SessionAssumption DEF CapIsEnforced, Messages
  <1> QED
    BY <1>1, DataInvariance, CapKept, PTL DEF Spec

(* The stored conversation is within its cap and, as long as nothing interferes,
   complete. *)
THEOREM ConversationIsKept == Spec => []SessionIsKept
  BY CapHolds, NothingIsLost, PTL DEF SessionIsKept

-----------------------------------------------------------------------------
(* What a request answers with.  The sums are a recursive function, of which
   the provers see only the first equation: it is enough, since truncation
   compares sums and never splits one. *)

(* An empty history weighs nothing. *)
LEMMA TokensOfNothing == Tokens(<<>>) = 0
  <1> DEFINE Body(f) == [s \in SUBSET {} |->
        IF s = {} THEN 0
        ELSE LET x == CHOOSE x \in s : TRUE IN (<<>>[x]).size + f[s \ {x}]]
  <1>1. DOMAIN <<>> = {}
    OBVIOUS
  <1>2. Tokens(<<>>) = (CHOOSE f : f = Body(f))[{}]
    BY <1>1 DEF Tokens, FoldSeq, FoldFunction, FoldFunctionOnSet, MapThenFoldSet
  <1>3. \E f : f = Body(f)
    <2> DEFINE zero == [s \in SUBSET {} |-> 0]
    <2>1. zero = Body(zero)
      OBVIOUS
    <2> QED
      BY <2>1
  <1>4. (CHOOSE f : f = Body(f)) = Body(CHOOSE f : f = Body(f))
    BY <1>3
  <1> QED
    BY <1>2, <1>4

(* The end of a history is a history, and no longer. *)
LEMMA SuffixType ==
    ASSUME NEW h \in Seq(Entry), NEW t \in Suffixes(h)
    PROVE  t \in Seq(Entry) /\ Len(t) \in 0..Len(h)
  <1>1. Len(h) \in Nat /\ \A k \in 1..Len(h) : h[k] \in Entry
    BY LenProperties, ElementOfSeq
  <1>2. CASE t = <<>>
    BY <1>1, <1>2, EmptySeq
  <1>3. CASE t # <<>>
    <2>1. PICK k \in 1..Len(h) : t = SubSeq(h, k, Len(h))
      BY <1>3 DEF Suffixes
    <2>2. t \in Seq(Entry) /\ Len(t) = Len(h) - k + 1
      BY <1>1, <2>1, SubSeqProperties
    <2> QED
      BY <1>1, <2>2
  <1> QED
    BY <1>2, <1>3

(* HardTruncate: there is a longest suffix within the target, whatever the
   messages weigh, so that the loop over the history ends with one. *)
LEMMA TruncationFits ==
    ASSUME NEW h \in Seq(Entry)
    PROVE  /\ HardTruncate(h) \in Seq(Entry) /\ Tokens(HardTruncate(h)) <= Target
           /\ \A u \in Suffixes(h) : Tokens(u) <= Target => Len(u) <= Len(HardTruncate(h))
  <1> DEFINE Fitting == {u \in Suffixes(h) : Tokens(u) <= Target}
             Missing == {n \in Nat : \E u \in Fitting : n = Len(h) - Len(u)}
  <1>1. Len(h) \in Nat /\ \A u \in Fitting : Len(u) \in 0..Len(h)
    BY LenProperties, SuffixType
  <1>2. <<>> \in Fitting
    BY TokensOfNothing, ContextAssumption DEF Suffixes
  <1>3. Missing # {} /\ Missing \subseteq Nat
    <2>1. Len(h) - Len(<<>>) \in Nat
      BY <1>1, <1>2
    <2> QED
      BY <1>2, <2>1
  <1>4. PICK n \in Missing : \A k \in Missing : ~(<<k, n>> \in OpToRel(<, Nat))
    BY <1>3, NatLessThanWellFounded, WFMin
  <1>5. \A k \in Missing : ~(k < n)
    BY <1>3, <1>4 DEF OpToRel
  <1>6. PICK t \in Fitting : n = Len(h) - Len(t)
    BY <1>4
  <1>7. \A u \in Fitting : Len(u) <= Len(t)
    <2> SUFFICES ASSUME NEW u \in Fitting PROVE Len(u) <= Len(t)
      OBVIOUS
    <2>1. Len(h) - Len(u) \in Missing
      BY <1>1
    <2>2. ~(Len(h) - Len(u) < n)
      BY <1>5, <2>1
    <2> QED
      BY <1>1, <1>6, <2>2
  <1>8. /\ HardTruncate(h) \in Suffixes(h) /\ Tokens(HardTruncate(h)) <= Target
        /\ \A u \in Suffixes(h) : Tokens(u) <= Target => Len(u) <= Len(HardTruncate(h))
    BY <1>6, <1>7 DEF HardTruncate
  <1> QED
    BY <1>8, SuffixType

RequestType == [phase : Phases, msgs : Seq(Entry), how : Hows]

(* A request knows how it came by its history, and has answered with nothing
   while it may still load another one. *)
Within(q) ==
    /\ q.phase \in {"new", "setnx", "reload"} => q.how = "none"
    /\ q.how = "whole" => ~TooLong(q.msgs)
    /\ q.how = "truncated" => Tokens(q.msgs) <= Target

BoundInv ==
    /\ SessionTypeOK
    /\ lock \in BOOLEAN /\ calm \in BOOLEAN /\ resends \in Nat /\ strays \in Nat
    /\ request \in [Requests -> RequestType]
    /\ \A r \in Requests : Within(request[r])

(* The bound on the answers includes the shape of the requests. *)
LEMMA BoundShape == BoundInv => Shape
  BY DEF BoundInv, Shape, RequestType

(* The three ways to change a request keep what is known of it. *)
LEMMA GoingOn ==
    ASSUME BoundInv, NEW r \in Requests, NEW p \in Phases, Goto(r, p),
           Phase(r) \in {"new", "setnx"} \/ p \notin {"new", "setnx", "reload"}
    PROVE  request' \in [Requests -> RequestType] /\ \A q \in Requests : Within(request'[q])
  <1>1. request' \in [Requests -> RequestType]
    BY DEF BoundInv, RequestType, Goto
  <1>2. Others(r) /\ Phase(r)' = p /\ Mine(r)' = Mine(r) /\ How(r)' = How(r)
    BY BoundShape, Going
  <1>3. \A q \in Requests \ {r} : Within(request'[q])
    BY <1>2 DEF BoundInv, Others
  <1>4. Within(request'[r])
    BY <1>2 DEF BoundInv, Within, Phase, Mine, How
  <1> QED
    BY <1>1, <1>3, <1>4

(* An answer that is itself within the bound. *)
LEMMA AnsweringWith ==
    ASSUME BoundInv, NEW r \in Requests, NEW p \in Phases \ {"new", "setnx", "reload"},
           NEW h \in Hows, NEW m \in Seq(Entry), Answer(r, p, h, m),
           h = "whole" => ~TooLong(m), h = "truncated" => Tokens(m) <= Target
    PROVE  request' \in [Requests -> RequestType] /\ \A q \in Requests : Within(request'[q])
  <1>1. request' \in [Requests -> RequestType]
    BY DEF BoundInv, RequestType, Answer
  <1>2. Others(r) /\ Phase(r)' = p /\ Mine(r)' = m /\ How(r)' = h
    BY BoundShape, Answering
  <1>3. \A q \in Requests \ {r} : Within(request'[q])
    BY <1>2 DEF BoundInv, Others
  <1>4. Within(request'[r])
    BY <1>2 DEF Within, Phase, Mine, How
  <1> QED
    BY <1>1, <1>3, <1>4

(* A list that is loaded is not an answer yet. *)
LEMMA LoadingList ==
    ASSUME BoundInv, NEW r \in Requests, NEW p \in {"setnx", "compress"},
           Phase(r) \in {"new", "reload"},
           request' = [request EXCEPT ![r].phase = p, ![r].msgs = list]
    PROVE  request' \in [Requests -> RequestType] /\ \A q \in Requests : Within(request'[q])
  <1>1. Others(r) /\ Phase(r)' = p /\ Mine(r)' = list /\ How(r)' = How(r)
    BY BoundShape, Loading
  <1>2. request' \in [Requests -> RequestType]
    <2>1. \A q \in Requests : request[q] \in RequestType
      BY DEF BoundInv
    <2>2. [request[r] EXCEPT !.phase = p, !.msgs = list] \in RequestType
      BY <2>1 DEF BoundInv, SessionTypeOK, RequestType, Phases
    <2> QED
      BY <2>2 DEF BoundInv
  <1>3. \A q \in Requests \ {r} : Within(request'[q])
    BY <1>1 DEF BoundInv, Others
  <1>4. Within(request'[r])
    BY <1>1 DEF BoundInv, Within, Phase, Mine, How
  <1> QED
    BY <1>2, <1>3, <1>4

(* A truncated history is within the bound. *)
LEMMA Truncating ==
    ASSUME BoundInv, NEW r \in Requests, NEW p \in {"returned", "unlock"}, Truncate(r, p)
    PROVE  request' \in [Requests -> RequestType] /\ \A q \in Requests : Within(request'[q])
  <1>1. Mine(r) \in Seq(Entry)
    BY DEF BoundInv, RequestType, Mine
  <1>2. HardTruncate(Mine(r)) \in Seq(Entry) /\ Tokens(HardTruncate(Mine(r))) <= Target
    BY <1>1, TruncationFits
  <1> QED
    BY <1>2, AnsweringWith DEF Truncate, Phases, Hows

(* Every step of LoadAndManage keeps its answers within the bound. *)
LEMMA BoundKept == BoundInv /\ DataInv /\ DataInv' /\ [Next]_vars => BoundInv'
  <1> SUFFICES ASSUME BoundInv, DataInv, SessionTypeOK', [Next]_vars PROVE BoundInv'
    BY DEF DataInv
  <1> DEFINE Goal == /\ request' \in [Requests -> RequestType]
                     /\ \A q \in Requests : Within(request'[q])
  <1>1. list \in Seq(Entry)
    BY DEF BoundInv, SessionTypeOK
  <1>2. ASSUME NEW r \in Requests, Acts(r)
        PROVE  /\ Goal /\ lock' \in BOOLEAN /\ calm' \in BOOLEAN
               /\ (resends \in Nat /\ strays \in Nat)'
    <2>1. Mine(r) \in Seq(Entry)
      BY DEF BoundInv, RequestType, Mine
    <2>2. lock' \in BOOLEAN /\ calm' \in BOOLEAN
      BY <1>2 DEF Step, Load, TryLock, Reload, CompressHistory, WriteDel, WritePush,
         Unlock, Poll, Reread, Acts, ResendWrite, ResendUnlock, Crash, Fine, Fault, BoundInv
    <2>10. (resends \in Nat /\ strays \in Nat)'
      BY <1>2 DEF Acts, Step, ResendWrite, ResendUnlock, Stray, Crash, BoundInv
    <2>3. CASE Load(r)
      <3>1. CASE Goto(r, "error")
        BY <2>2, <2>10, <3>1, GoingOn DEF Phases
      <3>2. CASE ~TooLong(list) /\ Answer(r, "returned", "whole", list)
        BY <2>2, <2>10, <1>1, <3>2, AnsweringWith DEF Phases, Hows
      <3>3. CASE request' = [request EXCEPT ![r].phase = "setnx", ![r].msgs = list]
        BY <2>2, <2>10, <2>3, <3>3, LoadingList DEF Load, At, Phase
      <3> QED
        BY <2>2, <2>10, <2>3, <3>1, <3>2, <3>3 DEF Load
    <2>4. CASE TryLock(r)
      <3>1. Phase(r) = "setnx"
        BY <2>4 DEF TryLock, At, Phase
      <3>2. CASE Goto(r, "reload")
        BY <2>2, <2>10, <3>1, <3>2, GoingOn DEF Phases
      <3>3. CASE Goto(r, "poll")
        BY <2>2, <2>10, <3>3, GoingOn DEF Phases
      <3>4. CASE Truncate(r, "returned")
        BY <2>2, <2>10, <3>4, Truncating
      <3> QED
        BY <2>2, <2>10, <2>4, <3>2, <3>3, <3>4 DEF TryLock
    <2>5. CASE Reload(r)
      <3>1. CASE Goto(r, "compress")
        BY <2>2, <2>10, <3>1, GoingOn DEF Phases
      <3>2. CASE ~TooLong(list) /\ Answer(r, "unlock", "whole", list)
        BY <2>2, <2>10, <1>1, <3>2, AnsweringWith DEF Phases, Hows
      <3>3. CASE request' = [request EXCEPT ![r].phase = "compress", ![r].msgs = list]
        BY <2>2, <2>10, <2>5, <3>3, LoadingList DEF Reload, At, Phase
      <3> QED
        BY <2>2, <2>10, <2>5, <3>1, <3>2, <3>3 DEF Reload
    <2>6. CASE CompressHistory(r)
      <3>1. CASE Truncate(r, "unlock")
        BY <2>2, <2>10, <3>1, Truncating
      <3>2. ASSUME NEW size \in SummarySizes,
                   Answer(r, "del", "summary", <<Summary(Covered(Mine(r)), size)>>)
            PROVE  Goal
        <4>1. <<Summary(Covered(Mine(r)), size)>> \in Seq(Entry)
          BY <2>1, CoveredType, SummaryType, ContextAssumption
        <4> QED
          BY <3>2, <4>1, AnsweringWith DEF Phases, Hows
      <3> QED
        BY <2>2, <2>10, <2>6, <3>1, <3>2 DEF CompressHistory
    <2>7. CASE WriteDel(r) \/ WritePush(r) \/ Unlock(r) \/ Crash(r) \/ ResendWrite(r)
      <3>1. \E p \in {"del", "push", "unlock", "returned", "error"} : Goto(r, p)
        BY <2>7 DEF WriteDel, WritePush, Unlock, Crash, ResendWrite
      <3>2. Goal
        BY <3>1, GoingOn DEF Phases
      <3> QED
        BY <2>2, <2>10, <3>2
    <2>8. CASE Poll(r)
      <3>1. CASE Goto(r, "reread")
        BY <2>2, <2>10, <3>1, GoingOn DEF Phases
      <3>2. CASE Truncate(r, "returned")
        BY <2>2, <2>10, <3>2, Truncating
      <3> QED
        BY <2>2, <2>10, <2>8, <3>1, <3>2 DEF Poll
    <2>9. CASE Reread(r)
      <3>1. CASE ~TooLong(list) /\ Answer(r, "returned", "whole", list)
        BY <2>2, <2>10, <1>1, <3>1, AnsweringWith DEF Phases, Hows
      <3>2. CASE Truncate(r, "returned")
        BY <2>2, <2>10, <3>2, Truncating
      <3> QED
        BY <2>2, <2>10, <2>9, <3>1, <3>2 DEF Reread
    <2>11. CASE ResendUnlock(r)
      BY <2>2, <2>10, <2>11 DEF ResendUnlock, BoundInv
    <2> QED
      BY <1>2, <2>2, <2>10, <2>3, <2>4, <2>5, <2>6, <2>7, <2>8, <2>9, <2>11 DEF Step, Acts
  <1>3. ASSUME request' = request PROVE Goal
    BY <1>3 DEF BoundInv
  <1>4. CASE Save
    <2>1. /\ request' = request /\ lock' = lock /\ calm' \in BOOLEAN
          /\ (resends \in Nat /\ strays \in Nat)'
      BY <1>4 DEF Save, BoundInv
    <2> QED
      BY <1>3, <2>1 DEF BoundInv
  <1>5. CASE Expire \/ UNCHANGED vars
    <2>1. /\ request' = request /\ lock' \in BOOLEAN /\ calm' \in BOOLEAN
          /\ (resends \in Nat /\ strays \in Nat)'
      <3>1. CASE Expire
        <4>1. strays' = strays \/ strays' = strays + 1
          BY <3>1 DEF Expire, Stray
        <4>2. request' = request /\ resends' = resends /\ lock' = FALSE /\ calm' = FALSE
          BY <3>1 DEF Expire
        <4>3. (resends \in Nat /\ strays \in Nat)'
          BY <4>1, <4>2 DEF BoundInv
        <4>4. lock' \in BOOLEAN /\ calm' \in BOOLEAN
          BY <4>2
        <4> QED
          BY <4>2, <4>3, <4>4
      <3>2. CASE UNCHANGED vars
        BY <3>2 DEF vars, BoundInv
      <3> QED
        BY <1>5, <3>1, <3>2
    <2> QED
      BY <1>3, <2>1 DEF BoundInv
  <1> QED
    BY <1>2, <1>4, <1>5 DEF Next, Acts, BoundInv

(* No request goes on with a history of CompressionThreshold tokens that was
   not summarised, and a truncated one fits the target, on every way out of
   LoadAndManage: winner, loser, failed write-back, lock error. *)
THEOREM ContextIsSafe == Spec => []ContextSafety
  <1>1. Init => BoundInv
    <2> SUFFICES ASSUME Init PROVE BoundInv
      OBVIOUS
    <2>1. SessionTypeOK /\ request = [r \in Requests |-> NewRequest]
      BY EmptySeq DEF Init, SessionInit, SessionTypeOK
    <2>2. NewRequest \in RequestType
      BY EmptySeq DEF NewRequest, RequestType, Phases, Hows
    <2>3. \A r \in Requests : Within(request[r])
      BY <2>1 DEF Within, NewRequest
    <2> QED
      BY <2>1, <2>2, <2>3 DEF Init, BoundInv
  <1>2. BoundInv => ContextSafety
    BY DEF BoundInv, Within, Mine, ContextSafety, TypeOK, ContextIsBounded, RequestType
  <1> QED
    BY <1>1, <1>2, DataInvariance, BoundKept, PTL DEF Spec
=============================================================================
