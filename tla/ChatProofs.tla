----------------------------- MODULE ChatProofs -----------------------------
(***************************************************************************)
(* Proofs about Chat: the worker pool and the semantic cache under         *)
(* concurrent requests, and then the session under LoadAndTrim,            *)
(* SaveMessage and DELETE; for any finite set of requests, any pool, any   *)
(* capacity of the cache, any relation of similarity, any messages and any *)
(* budget, with calls that fail in any way.                                *)
(***************************************************************************)
EXTENDS Chat, SequenceTheorems, FiniteSetTheorems, TLAPS

Request == [phase : Phases, emb : BOOLEAN, summary : Seq(Entry),
            answer : Requests \cup {NoRequest}]

(* TypeOK without the range of sem, which the count of the slots gives. *)
DataTypeOK ==
    /\ SessionTypeOK
    /\ {entries, stored} \subseteq Seq(CacheEntry)
    /\ request \in [Requests -> Request]

(* What stands in the cache is filed under the question its request asked. *)
FiledRightly == \A k \in 1..Len(stored) : stored[k].embedding = Asks[stored[k].answer]

(* What a request saw in the cache and did not take was not similar. *)
SawNothingSimilar ==
    \A r \in Requests : \A e \in seen[r] : <<Asks[r], e.embedding>> \notin Near

(* The inductive invariants: of the types and the pool, and, on top of them,
   of the cache. *)
PoolInv == DataTypeOK /\ sem \in 0..PoolSize /\ SlotsMatch
CacheInv ==
    /\ CacheIsTheNewest
    /\ FiledRightly
    /\ SawNothingSimilar
    /\ seen \in [Requests -> SUBSET CacheEntry]
    /\ AnswerFitsQuestion

-----------------------------------------------------------------------------
(* What the updates of the requests' records do to their phases and answers. *)

PhaseSet(r, p) ==
    \A q \in Requests : request'[q].phase = IF q = r THEN p ELSE request[q].phase
AnswerSet(r, a) ==
    \A q \in Requests : request'[q].answer = IF q = r THEN a ELSE request[q].answer
SameAnswers == \A q \in Requests : request'[q].answer = request[q].answer

(* A request goes from one phase to another. *)
LEMMA GotoEffect ==
    ASSUME DataTypeOK, NEW r \in Requests, NEW p \in Phases, Goto(r, p)
    PROVE  request' \in [Requests -> Request] /\ PhaseSet(r, p) /\ SameAnswers
  BY DEF DataTypeOK, Request, Goto, PhaseSet, SameAnswers

(* A request has its answer. *)
LEMMA AnswerEffect ==
    ASSUME DataTypeOK, NEW r \in Requests, NEW p \in Phases, NEW a \in Requests,
           Answer(r, a, p)
    PROVE  request' \in [Requests -> Request] /\ PhaseSet(r, p) /\ AnswerSet(r, a)
  BY DEF DataTypeOK, Request, Answer, PhaseSet, AnswerSet

(* A request leaves the session behind. *)
LEMMA ProceedEffect ==
    ASSUME DataTypeOK, NEW r \in Requests, Proceed(r)
    PROVE  request' \in [Requests -> Request] /\ PhaseSet(r, "generate") /\ SameAnswers
  <1>1. "generate" \in Phases /\ <<>> \in Seq(Entry)
    BY DEF Phases
  <1> QED
    BY <1>1 DEF DataTypeOK, Request, Proceed, PhaseSet, SameAnswers

(* A request has written its summary. *)
LEMMA SummaryEffect ==
    ASSUME DataTypeOK, NEW r \in Requests, Summarised(r)
    PROVE  request' \in [Requests -> Request] /\ PhaseSet(r, "del") /\ SameAnswers
  <1>1. PICK size \in SummarySizes :
            request' = [request EXCEPT ![r].phase = "del",
                                       ![r].summary = <<Summary({}, size)>>]
    BY DEF Summarised
  <1>2. <<Summary({}, size)>> \in Seq(Entry)
    BY ChatAssumption DEF Summary, Entry
  <1>3. "del" \in Phases
    BY DEF Phases
  <1> QED
    BY <1>1, <1>2, <1>3 DEF DataTypeOK, Request, PhaseSet, SameAnswers

(* A request has looked in the cache in vain. *)
LEMMA MissEffect ==
    ASSUME DataTypeOK, NEW r \in Requests, LookupMiss(r)
    PROVE  request' \in [Requests -> Request] /\ PhaseSet(r, AfterLookup(r)) /\ SameAnswers
  <1>1. AfterLookup(r) \in Phases
    BY DEF Phases, AfterLookup
  <1> QED
    BY <1>1 DEF LookupMiss, DataTypeOK, Request, PhaseSet, SameAnswers

-----------------------------------------------------------------------------
(* The session's list stays a list of entries. *)

(* LTRIM keeps entries. *)
LEMMA NewestType == ASSUME list \in Seq(Entry) PROVE Newest(list) \in Seq(Entry)
  BY SessionAssumption DEF Newest

(* So does DEL: nothing is a list of entries. *)
LEMMA EmptyType == <<>> \in Seq(Entry)
  OBVIOUS

(* A message is an entry. *)
LEMMA PlainType == \A m \in Msgs : Plain(m) \in Entry
  BY SessionAssumption DEF Plain, Entry

(* SaveMessage keeps the types. *)
LEMMA SaveType ==
    ASSUME SessionTypeOK, (\E m \in Msgs : Push(m)) \/ Trim
    PROVE  SessionTypeOK'
  <1>1. ASSUME NEW m \in Msgs, Push(m) PROVE SessionTypeOK'
    BY <1>1, PlainType DEF Push, SessionTypeOK
  <1>2. CASE Trim
    BY <1>2, NewestType DEF Trim, SessionTypeOK
  <1> QED
    BY <1>1, <1>2

(* Storing an answer keeps the types. *)
LEMMA StoreType ==
    ASSUME {entries, stored} \subseteq Seq(CacheEntry), NEW r \in Requests, Store(Asks[r], r)
    PROVE  {entries, stored}' \subseteq Seq(CacheEntry)
  <1> DEFINE e == [embedding |-> Asks[r], answer |-> r]
             rest == IF Len(entries) >= CacheSize THEN Tail(entries) ELSE entries
  <1>1. e \in CacheEntry
    BY ChatAssumption DEF CacheEntry
  <1>2. rest \in Seq(CacheEntry)
    BY CacheAssumption
  <1>3. entries' = Append(rest, e) /\ stored' = Append(stored, e)
    BY DEF Store
  <1> HIDE DEF e, rest
  <1> QED
    BY <1>1, <1>2, <1>3

-----------------------------------------------------------------------------
(* What a step can do to the pool, and to the cache: the actions are many,
   these are few. *)

TakesSlot(r) ==
    /\ request[r].phase = "new" /\ sem < PoolSize
    /\ sem' = sem + 1
    /\ PhaseSet(r, "lookup")
TurnsAway(r) ==
    /\ request[r].phase = "new" /\ sem = PoolSize
    /\ sem' = sem
    /\ PhaseSet(r, "refused")
Works(r) ==
    /\ Holds(r)
    /\ sem' = sem
    /\ \E p \in Phases \ {"new", "refused", "returned"} : PhaseSet(r, p)
GivesBack(r) ==
    /\ Holds(r)
    /\ sem' = sem - 1
    /\ PhaseSet(r, "returned")
PoolStep(r) == TakesSlot(r) \/ TurnsAway(r) \/ Works(r) \/ GivesBack(r)

SameCache == UNCHANGED <<entries, stored, seen>>
TakesCached(r) ==
    /\ SameCache
    /\ \E k \in 1..Len(entries) : Found(k, Asks[r]) /\ AnswerSet(r, entries[k].answer)
Misses(r) ==
    /\ UNCHANGED <<entries, stored>>
    /\ NotFound(Asks[r])
    /\ seen' = [seen EXCEPT ![r] = {entries[k] : k \in 1..Len(entries)}]
    /\ SameAnswers
TakesOwn(r) == SameCache /\ AnswerSet(r, r)
Stores(r) == Store(Asks[r], r) /\ UNCHANGED seen /\ SameAnswers
CacheStep(r) == TakesCached(r) \/ Misses(r) \/ TakesOwn(r) \/ Stores(r)
CacheIdle == SameCache /\ SameAnswers

(* What a step of request r does. *)
Effect(r) == DataTypeOK' /\ PoolStep(r) /\ (CacheStep(r) \/ CacheIdle)

(* Acquire. *)
LEMMA AcquireEffect ==
    ASSUME DataTypeOK, NEW r \in Requests, Acquire(r)
    PROVE  Effect(r)
  <1>1. CASE sem < PoolSize /\ sem' = sem + 1 /\ Goto(r, "lookup")
    <2>1. request' \in [Requests -> Request] /\ PhaseSet(r, "lookup") /\ SameAnswers
      BY <1>1, GotoEffect DEF Phases
    <2> QED
      BY <1>1, <2>1 DEF Acquire, At, DataTypeOK, SessionTypeOK, sessionVars, cacheVars, histories,
                        Effect, PoolStep, TakesSlot, CacheIdle, SameCache
  <1>2. CASE sem = PoolSize /\ UNCHANGED sem /\ Goto(r, "refused")
    <2>1. request' \in [Requests -> Request] /\ PhaseSet(r, "refused") /\ SameAnswers
      BY <1>2, GotoEffect DEF Phases
    <2> QED
      BY <1>2, <2>1 DEF Acquire, At, DataTypeOK, SessionTypeOK, sessionVars, cacheVars, histories,
                        Effect, PoolStep, TurnsAway, CacheIdle, SameCache
  <1> QED
    BY <1>1, <1>2 DEF Acquire

(* A step of a request at work that leaves cache and answers alone. *)
LEMMA WorkEffect ==
    ASSUME DataTypeOK, NEW r \in Requests, Holds(r), sem' = sem,
           NEW p \in Phases \ {"new", "refused", "returned"}, PhaseSet(r, p),
           request' \in [Requests -> Request], SameAnswers,
           SessionTypeOK', UNCHANGED cacheVars, UNCHANGED seen
    PROVE  Effect(r)
  BY DEF DataTypeOK, cacheVars, Effect, PoolStep, Works, CacheIdle, SameCache

(* The steps of chatComplete around the cache. *)
LEMMA LookupEffect ==
    ASSUME DataTypeOK, NEW r \in Requests, LookupHit(r) \/ LookupMiss(r) \/ EmbedFails(r)
    PROVE  Effect(r)
  <1> USE DEF At, Holds, sessionVars, cacheVars, histories
  <1>p. AfterLookup(r) \in Phases \ {"new", "refused", "returned"}
    BY DEF AfterLookup, Phases
  <1>t. ASSUME UNCHANGED <<list, sent, untrimmed>> PROVE SessionTypeOK'
    BY <1>t DEF DataTypeOK, SessionTypeOK
  <1>1. CASE LookupHit(r)
    <2>1. PICK k \in 1..Len(entries) :
              Found(k, Asks[r]) /\ Answer(r, entries[k].answer, "return")
      BY <1>1 DEF LookupHit
    <2>2. entries[k].answer \in Requests
      <3>1. entries \in Seq(CacheEntry)
        BY DEF DataTypeOK
      <3>2. entries[k] \in CacheEntry
        BY <3>1, <2>1
      <3> QED
        BY <3>2 DEF CacheEntry
    <2>3. /\ request' \in [Requests -> Request]
          /\ PhaseSet(r, "return")
          /\ AnswerSet(r, entries[k].answer)
      BY <2>1, <2>2, AnswerEffect DEF Phases
    <2>4. TakesCached(r)
      BY <1>1, <2>1, <2>3 DEF LookupHit, TakesCached, SameCache
    <2>5. Works(r)
      BY <1>1, <2>3 DEF LookupHit, Works, Phases
    <2>6. DataTypeOK'
      BY <1>1, <1>t, <2>3 DEF LookupHit, DataTypeOK
    <2> QED
      BY <2>4, <2>5, <2>6 DEF Effect, PoolStep, CacheStep
  <1>2. CASE LookupMiss(r)
    <2>1. request' \in [Requests -> Request] /\ PhaseSet(r, AfterLookup(r)) /\ SameAnswers
      BY <1>2, MissEffect
    <2>2. Misses(r)
      BY <1>2, <2>1 DEF LookupMiss, Misses
    <2>3. Works(r)
      BY <1>2, <1>p, <2>1 DEF LookupMiss, Works
    <2>4. DataTypeOK'
      BY <1>2, <1>t, <2>1 DEF LookupMiss, DataTypeOK
    <2> QED
      BY <2>2, <2>3, <2>4 DEF Effect, PoolStep, CacheStep
  <1>3. CASE EmbedFails(r)
    <2>1. request' \in [Requests -> Request] /\ PhaseSet(r, AfterLookup(r)) /\ SameAnswers
      BY <1>3, <1>p, GotoEffect DEF EmbedFails
    <2> QED
      BY <1>3, <1>p, <1>t, <2>1, WorkEffect DEF EmbedFails
  <1> QED
    BY <1>1, <1>2, <1>3

(* The steps of LoadAndTrim. *)
LEMMA TrimEffect ==
    ASSUME DataTypeOK, NEW r \in Requests,
           \/ LoadHistory(r) \/ Summarise(r) \/ WriteDel(r) \/ WritePush(r) \/ WriteTrim(r)
    PROVE  Effect(r)
  <1> USE DEF At, Holds, sessionVars, cacheVars, histories
  <1>0. PICK p \in {"summarise", "del", "push", "trim", "generate"} :
            request' \in [Requests -> Request] /\ PhaseSet(r, p) /\ SameAnswers
    <2>1. ASSUME NEW p \in {"summarise", "del", "push", "trim", "generate"}, Goto(r, p)
          PROVE  request' \in [Requests -> Request] /\ PhaseSet(r, p) /\ SameAnswers
      BY <2>1, GotoEffect DEF Phases
    <2> QED
      BY <2>1, ProceedEffect, SummaryEffect
         DEF LoadHistory, Trims, Summarise, WriteDel, Removed, WritePush, WriteTrim
  <1>1. SessionTypeOK'
    <2>1. request[r].summary \in Seq(Entry)
      BY DEF DataTypeOK, Request
    <2>2. list' \in Seq(Entry)
      <3>1. CASE LoadHistory(r) \/ Summarise(r)
        BY <3>1 DEF LoadHistory, Summarise, DataTypeOK, SessionTypeOK
      <3>2. CASE WriteDel(r)
        BY <3>2, EmptyType DEF WriteDel, Removed, DataTypeOK, SessionTypeOK
      <3>3. CASE WritePush(r)
        <4> DEFINE w == request[r].summary
        <4>1. list \in Seq(Entry) /\ w \in Seq(Entry)
          BY <2>1 DEF DataTypeOK, SessionTypeOK
        <4> HIDE DEF w
        <4>3. list \o w \in Seq(Entry)
          BY <4>1
        <4>4. (list \o w) \o w \in Seq(Entry)
          BY <4>1, <4>3
        <4>2. list' \in {list, list \o w, (list \o w) \o w}
          BY <3>3 DEF WritePush, w
        <4> QED
          BY <4>1, <4>2, <4>3, <4>4
      <3>4. CASE WriteTrim(r)
        BY <3>4, NewestType DEF WriteTrim, DataTypeOK, SessionTypeOK
      <3> QED
        BY <3>1, <3>2, <3>3, <3>4
    <2>3. sent' = sent /\ untrimmed' = untrimmed
      BY DEF LoadHistory, Summarise, WriteDel, WritePush, WriteTrim
    <2> QED
      BY <2>2, <2>3 DEF DataTypeOK, SessionTypeOK
  <1>2. Holds(r) /\ sem' = sem /\ UNCHANGED cacheVars /\ UNCHANGED seen
    BY DEF LoadHistory, Summarise, WriteDel, WritePush, WriteTrim
  <1>3. p \in Phases \ {"new", "refused", "returned"}
    BY DEF Phases
  <1> QED
    BY <1>0, <1>1, <1>2, <1>3, WorkEffect

(* The answer of the model, its storing, and the Release. *)
LEMMA AnswerStepEffect ==
    ASSUME DataTypeOK, NEW r \in Requests, Generate(r) \/ StoreAnswer(r) \/ Return(r)
    PROVE  Effect(r)
  <1> USE DEF At, Holds, sessionVars, cacheVars, histories
  <1>t. ASSUME UNCHANGED <<list, sent, untrimmed>> PROVE SessionTypeOK'
    BY <1>t DEF DataTypeOK, SessionTypeOK
  <1>1. CASE Generate(r)
    <2>1. CASE Goto(r, "return")
      <3>1. request' \in [Requests -> Request] /\ PhaseSet(r, "return") /\ SameAnswers
        BY <2>1, GotoEffect DEF Phases
      <3> QED
        BY <1>1, <1>t, <3>1, WorkEffect DEF Generate, Phases
    <2>2. CASE Answer(r, r, IF request[r].emb THEN "store" ELSE "return")
      <3>1. PICK p \in {"store", "return"} : Answer(r, r, p)
        BY <2>2
      <3>2. request' \in [Requests -> Request] /\ PhaseSet(r, p) /\ AnswerSet(r, r)
        BY <3>1, AnswerEffect DEF Phases
      <3>3. Works(r)
        BY <1>1, <3>2 DEF Generate, Works, Phases
      <3>4. TakesOwn(r)
        BY <1>1, <3>2 DEF Generate, TakesOwn, SameCache
      <3>5. DataTypeOK'
        BY <1>1, <1>t, <3>2 DEF Generate, DataTypeOK
      <3> QED
        BY <3>3, <3>4, <3>5 DEF Effect, PoolStep, CacheStep
    <2> QED
      BY <1>1, <2>1, <2>2 DEF Generate
  <1>2. CASE StoreAnswer(r)
    <2>1. request' \in [Requests -> Request] /\ PhaseSet(r, "return") /\ SameAnswers
      BY <1>2, GotoEffect DEF StoreAnswer, Phases
    <2>2. {entries, stored}' \subseteq Seq(CacheEntry)
      BY <1>2, StoreType DEF StoreAnswer, DataTypeOK
    <2>3. DataTypeOK'
      BY <1>2, <1>t, <2>1, <2>2 DEF StoreAnswer, DataTypeOK
    <2>4. Works(r)
      BY <1>2, <2>1 DEF StoreAnswer, Works, Phases
    <2>5. Stores(r)
      BY <1>2, <2>1 DEF StoreAnswer, Stores
    <2> QED
      BY <2>3, <2>4, <2>5 DEF Effect, PoolStep, CacheStep
  <1>3. CASE Return(r)
    <2>1. request' \in [Requests -> Request] /\ PhaseSet(r, "returned") /\ SameAnswers
      BY <1>3, GotoEffect DEF Return, Phases
    <2>2. GivesBack(r)
      BY <1>3, <2>1 DEF Return, GivesBack
    <2>3. DataTypeOK'
      BY <1>3, <1>t, <2>1 DEF Return, DataTypeOK
    <2> QED
      BY <1>3, <2>1, <2>2, <2>3 DEF Return, Effect, PoolStep, CacheIdle, SameCache
  <1> QED
    BY <1>1, <1>2, <1>3

(* Every step of the system is that of one request, or leaves pool, cache and
   answers alone. *)
LEMMA StepEffect ==
    ASSUME DataTypeOK, [Next]_chatVars
    PROVE  \/ \E r \in Requests : Effect(r)
           \/ DataTypeOK' /\ UNCHANGED <<sem, request, entries, stored, seen>>
  <1>1. ASSUME Save
        PROVE  DataTypeOK' /\ UNCHANGED <<sem, request, entries, stored, seen>>
    BY <1>1, SaveType DEF Save, DataTypeOK, cacheVars
  <1>2. ASSUME DeleteSession
        PROVE  DataTypeOK' /\ UNCHANGED <<sem, request, entries, stored, seen>>
    <2>1. SessionTypeOK'
      BY <1>2, EmptyType DEF DeleteSession, DataTypeOK, SessionTypeOK
    <2> QED
      BY <1>2, <2>1 DEF DeleteSession, DataTypeOK, cacheVars
  <1>3. ASSUME NEW r \in Requests, Acquire(r) \/ Serve(r) PROVE Effect(r)
    BY <1>3, AcquireEffect, LookupEffect, TrimEffect, AnswerStepEffect DEF Serve
  <1>4. CASE UNCHANGED chatVars
    BY <1>4 DEF chatVars, sessionVars, cacheVars, DataTypeOK, SessionTypeOK
  <1> QED
    BY <1>1, <1>2, <1>3, <1>4 DEF Next

-----------------------------------------------------------------------------
(* The pool. *)

(* Only requests hold slots, so there are finitely many holders. *)
LEMMA HoldersFinite == IsFiniteSet(Holders) /\ Cardinality(Holders) \in Nat
  BY ChatAssumption, FS_Subset, FS_CardinalityType DEF Holders

(* No slot is taken at the start. *)
LEMMA PoolInit == Init => PoolInv
  <1> SUFFICES ASSUME Init PROVE PoolInv
    OBVIOUS
  <1>1. Holders = {}
    BY DEF Init, Holders, Holds, NewRequest
  <1>2. sem = Cardinality(Holders) /\ sem \in 0..PoolSize
    BY <1>1, FS_EmptySet, ChatAssumption DEF Init
  <1>3. NewRequest \in Request
    BY EmptyType DEF NewRequest, Request, Phases
  <1>4. DataTypeOK
    BY <1>3, EmptyType DEF Init, SessionInit, CacheInit, DataTypeOK, SessionTypeOK
  <1> QED
    BY <1>2, <1>4 DEF PoolInv, SlotsMatch

(* Every step keeps the count of the slots right. *)
LEMMA PoolKept == PoolInv /\ [Next]_chatVars => PoolInv'
  <1> SUFFICES ASSUME PoolInv, [Next]_chatVars PROVE PoolInv'
    OBVIOUS
  <1> USE ChatAssumption DEF SlotsMatch
  <1>f. IsFiniteSet(Holders) /\ Cardinality(Holders) \in Nat
    BY HoldersFinite
  <1>1. ASSUME NEW r \in Requests, DataTypeOK', TakesSlot(r) PROVE PoolInv'
    <2>1. r \notin Holders /\ Holders' = Holders \cup {r}
      BY <1>1 DEF TakesSlot, PhaseSet, Holders, Holds
    <2>2. Cardinality(Holders') = Cardinality(Holders) + 1
      BY <2>1, <1>f, FS_AddElement
    <2> QED
      BY <1>1, <2>2 DEF TakesSlot, PoolInv
  <1>2. ASSUME NEW r \in Requests, DataTypeOK', TurnsAway(r) \/ Works(r) PROVE PoolInv'
    <2>1. Holders' = Holders
      BY <1>2 DEF TurnsAway, Works, PhaseSet, Holders, Holds
    <2> QED
      BY <1>2, <2>1 DEF TurnsAway, Works, PoolInv
  <1>3. ASSUME NEW r \in Requests, DataTypeOK', GivesBack(r) PROVE PoolInv'
    <2>1. r \in Holders /\ Holders' = Holders \ {r}
      BY <1>3 DEF GivesBack, PhaseSet, Holders, Holds
    <2>2. Cardinality(Holders') = Cardinality(Holders) - 1
      BY <2>1, <1>f, FS_RemoveElement
    <2>3. Cardinality(Holders') \in Nat
      BY <2>1, <1>f, FS_RemoveElement, FS_CardinalityType
    <2> QED
      BY <1>3, <2>2, <2>3 DEF GivesBack, PoolInv
  <1>4. ASSUME DataTypeOK', UNCHANGED <<sem, request>> PROVE PoolInv'
    <2>1. Holders' = Holders
      BY <1>4 DEF Holders, Holds
    <2> QED
      BY <1>4, <2>1 DEF PoolInv
  <1> QED
    BY <1>1, <1>2, <1>3, <1>4, StepEffect DEF PoolInv, Effect, PoolStep

(* The types and the count of the slots, in every reachable state. *)
THEOREM PoolInvariance == Spec => []PoolInv
  BY PoolInit, PoolKept, PTL DEF Spec

(* Type correctness of the session, the cache, the pool and the requests. *)
THEOREM TypeCorrect == Spec => []TypeOK
  <1>1. PoolInv => TypeOK
    BY DEF PoolInv, DataTypeOK, TypeOK, Request
  <1> QED
    BY <1>1, PoolInvariance, PTL

(* chatComplete loses no slot and gives none back twice, with or without a
   cached answer, a history and errors. *)
THEOREM SlotsAccounted == Spec => []SlotsMatch
  BY PoolInvariance, PTL DEF PoolInv

(* The holders of the abstract pool are the requests at work. *)
LEMMA ViewHolding == ASSUME PoolInv PROVE Pool!Holding = Holders
  BY DEF PoolInv, DataTypeOK, Request, Phases, Pool!Holding, PoolView, Holders, Holds

(* The instance counts its holders as this module does. *)
LEMMA SameCount == \A S : Pool!Cardinality(S) = Cardinality(S)
  BY DEF Pool!Cardinality, Cardinality

(* Whatever a step does to the slots is a step of the pool, or none. *)
LEMMA PoolRefined == ASSUME PoolInv, [Next]_chatVars PROVE [Pool!Next]_PoolView
  <1> USE DEF PoolView, Holds, PhaseSet
  <1>h. sem = Pool!Cardinality(Pool!Holding)
    BY ViewHolding, SameCount DEF PoolInv, SlotsMatch
  <1>1. ASSUME NEW r \in Requests, TakesSlot(r) PROVE Pool!Acquire(r)
    BY <1>1, <1>h DEF TakesSlot, Pool!Acquire, PoolInv
  <1>2. ASSUME NEW r \in Requests, TurnsAway(r) PROVE Pool!Refuse(r)
    BY <1>2, <1>h DEF TurnsAway, Pool!Refuse
  <1>3. ASSUME NEW r \in Requests, GivesBack(r) PROVE Pool!Release(r)
    BY <1>3 DEF GivesBack, Pool!Release
  <1>4. ASSUME NEW r \in Requests, Works(r) PROVE UNCHANGED PoolView
    BY <1>4 DEF Works
  <1>5. ASSUME UNCHANGED request PROVE UNCHANGED PoolView
    BY <1>5
  <1> QED
    BY <1>1, <1>2, <1>3, <1>4, <1>5, StepEffect DEF PoolInv, Effect, PoolStep, Pool!Next

(* chatComplete implements WorkerPool. *)
THEOREM PoolImplemented == Spec => ImplementsPool
  <1>1. Init => Pool!Init
    BY DEF Init, Pool!Init, PoolView, Holds, NewRequest
  <1> QED
    BY <1>1, PoolRefined, PoolInvariance, PTL DEF Spec, ImplementsPool, Pool!Spec

-----------------------------------------------------------------------------
(* The semantic cache. *)

(* The cache is a part of what was stored. *)
LEMMA EntryWasStored ==
    ASSUME DataTypeOK, CacheIsTheNewest, NEW k \in 1..Len(entries)
    PROVE  \E j \in 1..Len(stored) : entries[k] = stored[j]
  <1>1. Len(entries) \in Nat /\ Len(stored) \in Nat /\ Len(entries) <= Len(stored)
    BY CacheAssumption DEF DataTypeOK, CacheIsTheNewest
  <1>2. Len(stored) - Len(entries) + k \in 1..Len(stored)
    BY <1>1
  <1> QED
    BY <1>2 DEF CacheIsTheNewest

(* Storing keeps the newest: the oldest entry makes room. *)
LEMMA StoreKeepsNewest ==
    ASSUME DataTypeOK, CacheIsTheNewest, NEW r \in Requests, Store(Asks[r], r)
    PROVE  CacheIsTheNewest'
  <1> DEFINE e == [embedding |-> Asks[r], answer |-> r]
             n == Len(entries)
             s == Len(stored)
             rest == IF n >= CacheSize THEN Tail(entries) ELSE entries
             m == IF n >= CacheSize THEN n - 1 ELSE n
  <1>1. e \in CacheEntry
    BY ChatAssumption DEF CacheEntry
  <1>2. entries \in Seq(CacheEntry) /\ stored \in Seq(CacheEntry)
    BY DEF DataTypeOK
  <1>3. n \in Nat /\ s \in Nat /\ CacheSize \in Nat \ {0}
    BY <1>2, CacheAssumption
  <1>4. n = (IF s < CacheSize THEN s ELSE CacheSize)
    BY DEF CacheIsTheNewest
  <1>5. \A k \in 1..n : entries[k] = stored[s - n + k]
    BY DEF CacheIsTheNewest
  <1>6. entries' = Append(rest, e) /\ stored' = Append(stored, e)
    BY DEF Store
  <1>7. /\ rest \in Seq(CacheEntry) /\ Len(rest) = m
        /\ \A k \in 1..m : rest[k] = stored[s - m + k]
    <2>1. CASE n >= CacheSize
      <3>1. entries # <<>>
        BY <1>3, <2>1
      <3>2. /\ Tail(entries) \in Seq(CacheEntry) /\ Len(Tail(entries)) = n - 1
            /\ \A k \in 1..(n - 1) : Tail(entries)[k] = entries[k + 1]
        BY <3>1, <1>2, HeadTailProperties, Zenon
      <3>3. \A k \in 1..(n - 1) : entries[k + 1] = stored[s - (n - 1) + k]
        <4>1. TAKE k \in 1..(n - 1)
        <4>2. k + 1 \in 1..n /\ s - n + (k + 1) = s - (n - 1) + k
          BY <1>3
        <4> QED
          BY <1>5, <4>2
      <3> QED
        BY <2>1, <3>2, <3>3
    <2>2. CASE ~(n >= CacheSize)
      BY <1>2, <1>5, <2>2
    <2> QED
      BY <2>1, <2>2
  <1>8. m \in Nat /\ m + 1 = (IF s + 1 < CacheSize THEN s + 1 ELSE CacheSize) /\ m <= s
    BY <1>3, <1>4
  <1> HIDE DEF e, rest, m, n
  <1>9. /\ Len(entries') = m + 1 /\ entries'[m + 1] = e
        /\ \A k \in 1..m : entries'[k] = rest[k]
    BY <1>1, <1>6, <1>7, AppendProperties
  <1>10. /\ Len(stored') = s + 1 /\ stored'[s + 1] = e
         /\ \A k \in 1..s : stored'[k] = stored[k]
    BY <1>1, <1>2, <1>6, AppendProperties
  <1> HIDE DEF s
  <1>11. ASSUME NEW k \in 1..(m + 1)
         PROVE  entries'[k] = stored'[(s + 1) - (m + 1) + k]
    <2>1. CASE k = m + 1
      <3>1. (s + 1) - (m + 1) + k = s + 1
        BY <2>1, <1>3, <1>8
      <3> QED
        BY <2>1, <3>1, <1>9, <1>10
    <2>2. CASE k \in 1..m
      <3>1. (s + 1) - (m + 1) + k = s - m + k /\ s - m + k \in 1..s
        BY <2>2, <1>3, <1>8
      <3> QED
        BY <2>2, <3>1, <1>7, <1>9, <1>10
    <2> QED
      BY <1>8, <2>1, <2>2
  <1> QED
    BY <1>8, <1>9, <1>10, <1>11 DEF CacheIsTheNewest

(* Storing files an answer under the question its request asked. *)
LEMMA StoreFilesRightly ==
    ASSUME DataTypeOK, FiledRightly, NEW r \in Requests, Store(Asks[r], r)
    PROVE  FiledRightly'
  <1> DEFINE e == [embedding |-> Asks[r], answer |-> r]
  <1>1. e \in CacheEntry /\ stored \in Seq(CacheEntry)
    BY ChatAssumption DEF CacheEntry, DataTypeOK
  <1>2. stored' = Append(stored, e)
    BY DEF Store
  <1>3. e.embedding = Asks[e.answer]
    OBVIOUS
  <1> HIDE DEF e
  <1>4. /\ Len(stored') = Len(stored) + 1 /\ stored'[Len(stored) + 1] = e
        /\ \A k \in 1..Len(stored) : stored'[k] = stored[k]
    BY <1>1, <1>2, AppendProperties
  <1>5. Len(stored) \in Nat
    BY <1>1
  <1> QED
    BY <1>3, <1>4, <1>5 DEF FiledRightly

(* The cache is empty at the start and nobody has an answer. *)
LEMMA CacheStarts == Init => CacheInv
  <1> SUFFICES ASSUME Init PROVE CacheInv
    OBVIOUS
  <1>1. Len(entries) = 0 /\ Len(stored) = 0
    BY DEF Init, CacheInit
  <1>2. CacheIsTheNewest /\ FiledRightly
    BY <1>1, CacheAssumption DEF CacheIsTheNewest, FiledRightly
  <1>3. AnswerFitsQuestion
    BY ChatAssumption DEF Init, NewRequest, AnswerFitsQuestion
  <1> QED
    BY <1>2, <1>3 DEF Init, CacheInv, SawNothingSimilar

(* Every step keeps the cache as it should be. *)
LEMMA CacheKept ==
    ASSUME PoolInv, CacheInv, [Next]_chatVars
    PROVE  CacheInv'
  <1> USE DEF PoolInv, CacheInv
  <1>a. ASSUME UNCHANGED <<entries, stored>> PROVE CacheIsTheNewest' /\ FiledRightly'
    BY <1>a DEF CacheIsTheNewest, FiledRightly
  <1>s. ASSUME UNCHANGED seen PROVE SawNothingSimilar' /\ seen' \in [Requests -> SUBSET CacheEntry]
    BY <1>s DEF SawNothingSimilar
  <1>i. ASSUME SameAnswers PROVE AnswerFitsQuestion'
    BY <1>i DEF SameAnswers, AnswerFitsQuestion
  <1>1. ASSUME NEW r \in Requests, TakesCached(r) PROVE CacheInv'
    <2>1. PICK k \in 1..Len(entries) : Found(k, Asks[r]) /\ AnswerSet(r, entries[k].answer)
      BY <1>1 DEF TakesCached
    <2>2. PICK j \in 1..Len(stored) : entries[k] = stored[j]
      BY EntryWasStored
    <2>3. entries[k].embedding = Asks[entries[k].answer]
      BY <2>2 DEF FiledRightly
    <2>4. <<Asks[r], Asks[entries[k].answer]>> \in Near
      BY <2>1, <2>3 DEF Found, Similar
    <2>5. AnswerFitsQuestion'
      BY <2>1, <2>4 DEF AnswerSet, AnswerFitsQuestion
    <2> QED
      BY <1>1, <1>a, <1>s, <2>5 DEF TakesCached, SameCache
  <1>2. ASSUME NEW r \in Requests, Misses(r) PROVE CacheInv'
    <2> DEFINE new == {entries[k] : k \in 1..Len(entries)}
    <2>1. new \subseteq CacheEntry
      BY DEF DataTypeOK
    <2>2. \A e \in new : <<Asks[r], e.embedding>> \notin Near
      BY <1>2 DEF Misses, NotFound, Similar
    <2>3. seen' = [seen EXCEPT ![r] = new]
      BY <1>2 DEF Misses
    <2> HIDE DEF new
    <2>4. SawNothingSimilar' /\ seen' \in [Requests -> SUBSET CacheEntry]
      BY <2>1, <2>2, <2>3 DEF SawNothingSimilar
    <2> QED
      BY <1>2, <1>a, <1>i, <2>4 DEF Misses
  <1>3. ASSUME NEW r \in Requests, TakesOwn(r) PROVE CacheInv'
    <2>1. AnswerFitsQuestion'
      BY <1>3 DEF TakesOwn, AnswerSet, AnswerFitsQuestion
    <2> QED
      BY <1>3, <1>a, <1>s, <2>1 DEF TakesOwn, SameCache
  <1>4. ASSUME NEW r \in Requests, Stores(r) PROVE CacheInv'
    BY <1>4, <1>s, <1>i, StoreKeepsNewest, StoreFilesRightly DEF Stores
  <1>5. ASSUME CacheIdle PROVE CacheInv'
    BY <1>5, <1>a, <1>s, <1>i DEF CacheIdle, SameCache
  <1>6. ASSUME UNCHANGED <<sem, request, entries, stored, seen>> PROVE CacheInv'
    <2>1. SameAnswers
      BY <1>6 DEF SameAnswers
    <2> QED
      BY <1>6, <1>a, <1>s, <1>i, <2>1
  <1> QED
    BY <1>1, <1>2, <1>3, <1>4, <1>5, <1>6, StepEffect DEF Effect, CacheStep

(* The invariant of the cache, in every reachable state. *)
THEOREM CacheInvariance == Spec => [](PoolInv /\ CacheInv)
  BY PoolInit, PoolKept, CacheStarts, CacheKept, PTL DEF Spec

(* The cache holds what was stored last, in order, up to its capacity. *)
THEOREM NewestKept == Spec => []CacheIsTheNewest
  BY CacheInvariance, PTL DEF CacheInv

(* An answer that is served to another request was generated for a question
   similar to its own. *)
THEOREM AnswersFit == Spec => []AnswerFitsQuestion
  BY CacheInvariance, PTL DEF CacheInv

(* A question is answered again only if its answer was not there to be seen. *)
THEOREM AnsweredOnce == Spec => []AnsweredTwiceOnlyAtOnce
  <1>1. PoolInv /\ CacheInv => AnsweredTwiceOnlyAtOnce
    <2> SUFFICES ASSUME PoolInv, CacheInv, NEW i \in 1..Len(stored), NEW j \in 1..Len(stored),
                        stored[i] \in seen[stored[j].answer]
                 PROVE  <<stored[i].embedding, stored[j].embedding>> \notin Near
      BY DEF AnsweredTwiceOnlyAtOnce
    <2>1. stored[j] \in CacheEntry
      BY DEF PoolInv, DataTypeOK
    <2>2. stored[j].answer \in Requests
      BY <2>1 DEF CacheEntry
    <2>3. <<stored[j].embedding, stored[i].embedding>> \notin Near
      BY <2>2 DEF CacheInv, FiledRightly, SawNothingSimilar
    <2> QED
      BY <2>3, CacheAssumption
  <1> QED
    BY <1>1, CacheInvariance, PTL

(* The state invariants of the requests together: what TLC checks as one. *)
THEOREM ChatIsSafe == Spec => []ChatSafety
  BY TypeCorrect, SlotsAccounted, NewestKept, AnswersFit, PTL DEF ChatSafety
-----------------------------------------------------------------------------
(* The session. *)

(* Who is about to delete the session has read all of it, if nobody raced. *)
ReadBeforeDel ==
    ~raced => \A r \in Requests :
        request[r].phase \in {"summarise", "del"} => Covered(list) \subseteq read[r]

(* The inductive invariant: DeletesWhatItRead needs what the deleters have read. *)
SessionInv == DOMAIN read = Requests /\ DeletesWhatItRead /\ ReadBeforeDel

-----------------------------------------------------------------------------
(* What a step does to the session, in three kinds. *)

(* The session is left alone; whoever will delete it has read it. *)
Looks(r) ==
    /\ UNCHANGED <<list, unread, raced>> /\ DOMAIN read' = Requests
    /\ \A q \in Requests \ {r} : request'[q].phase = request[q].phase /\ read'[q] = read[q]
    /\ request'[r].phase \in {"summarise", "del"} =>
           raced \/ Covered(list) \subseteq read'[r]

(* LoadAndTrim replaces the session: a race for all who have read it. *)
Replaces(r) ==
    /\ UNCHANGED read
    /\ unread' = unread \/ (~raced' => unread' = {})
    /\ raced' = (raced \/ Trimming \ {r} # {})
    /\ \A q \in Requests \ {r} : request'[q].phase = request[q].phase
    /\ request'[r].phase \notin {"summarise", "del"}

(* Somebody else is at work on it. *)
Others ==
    /\ UNCHANGED <<request, read, unread>>
    /\ raced' = (raced \/ Trimming # {})

(* SaveMessage and DELETE. *)
LEMMA OthersEffect == Save \/ DeleteSession => Others
  BY DEF Save, DeleteSession, Race, Others

(* Only LoadAndTrim works on the session; everything else looks at most. *)
LEMMA LooksEffect ==
    ASSUME DataTypeOK, SessionInv, NEW r \in Requests,
           \/ Acquire(r) \/ LookupHit(r) \/ LookupMiss(r) \/ EmbedFails(r)
           \/ LoadHistory(r) \/ Summarise(r)
           \/ Generate(r) \/ StoreAnswer(r) \/ Return(r)
    PROVE  Looks(r)
  <1> USE DEF DataTypeOK, Request, At, sessionVars, histories
  <1>1. ASSUME UNCHANGED <<list, unread, raced, read>>,
               \/ \E p \in Phases \ {"summarise", "del"} : Goto(r, p)
               \/ \E p \in Phases \ {"summarise", "del"}, a \in Requests : Answer(r, a, p)
               \/ Proceed(r)
               \/ LookupMiss(r)
        PROVE  Looks(r)
    <2>1. DOMAIN read' = Requests
      BY <1>1 DEF SessionInv
    <2>2. /\ \A q \in Requests \ {r} : request'[q].phase = request[q].phase
          /\ request'[r].phase \notin {"summarise", "del"}
      <3>1. ASSUME NEW p \in Phases \ {"summarise", "del"}, PhaseSet(r, p)
            PROVE  /\ \A q \in Requests \ {r} : request'[q].phase = request[q].phase
                   /\ request'[r].phase \notin {"summarise", "del"}
        BY <3>1 DEF PhaseSet
      <3>2. "generate" \in Phases /\ AfterLookup(r) \in Phases \ {"summarise", "del"}
        BY DEF Phases, AfterLookup
      <3> QED
        BY <1>1, <3>1, <3>2, GotoEffect, AnswerEffect, ProceedEffect, MissEffect
    <2> QED
      BY <1>1, <2>1, <2>2 DEF Looks
  <1>p. {"lookup", "refused", "store", "return", "returned", "load", "generate"}
            \subseteq Phases \ {"summarise", "del"}
    BY DEF Phases
  <1>2. CASE Acquire(r)
    BY <1>2, <1>p, <1>1 DEF Acquire
  <1>3. CASE LookupHit(r)
    <2>1. PICK k \in 1..Len(entries) : Answer(r, entries[k].answer, "return")
      BY <1>3 DEF LookupHit
    <2>2. entries[k].answer \in Requests
      <3>1. entries \in Seq(CacheEntry)
        OBVIOUS
      <3>2. entries[k] \in CacheEntry
        BY <3>1, <2>1
      <3> QED
        BY <3>2 DEF CacheEntry
    <2> QED
      BY <1>3, <1>p, <2>1, <2>2, <1>1 DEF LookupHit
  <1>4. CASE LookupMiss(r)
    BY <1>4, <1>1 DEF LookupMiss
  <1>5. CASE EmbedFails(r)
    BY <1>5, <1>p, <1>1 DEF EmbedFails, AfterLookup
  <1>6. CASE LoadHistory(r)
    <2>1. CASE Proceed(r) /\ UNCHANGED read
      BY <1>6, <2>1, <1>1 DEF LoadHistory
    <2>2. CASE Trims(r, list)
      <3>1. PhaseSet(r, "summarise")
        BY <2>2, GotoEffect DEF Trims, Phases
      <3>2. /\ DOMAIN read' = Requests /\ read'[r] = Covered(list)
            /\ \A q \in Requests \ {r} : read'[q] = read[q]
        BY <2>2 DEF Trims, SessionInv
      <3>3. UNCHANGED <<list, unread, raced>>
        BY <1>6 DEF LoadHistory
      <3> QED
        BY <3>1, <3>2, <3>3 DEF Looks, PhaseSet
    <2> QED
      BY <1>6, <2>1, <2>2 DEF LoadHistory
  <1>7. CASE Summarise(r)
    <2>1. CASE Proceed(r)
      BY <1>7, <2>1, <1>1 DEF Summarise
    <2>2. CASE Summarised(r)
      <3>1. PhaseSet(r, "del")
        BY <2>2, SummaryEffect
      <3>2. raced \/ Covered(list) \subseteq read[r]
        BY <1>7 DEF Summarise, SessionInv, ReadBeforeDel
      <3>3. UNCHANGED <<list, unread, raced, read>>
        BY <1>7 DEF Summarise
      <3> QED
        BY <3>1, <3>2, <3>3 DEF Looks, PhaseSet, SessionInv
    <2> QED
      BY <1>7, <2>1, <2>2 DEF Summarise
  <1>8. CASE Generate(r)
    BY <1>8, <1>p, <1>1 DEF Generate
  <1>9. CASE StoreAnswer(r) \/ Return(r)
    BY <1>9, <1>p, <1>1 DEF StoreAnswer, Return
  <1> QED
    BY <1>2, <1>3, <1>4, <1>5, <1>6, <1>7, <1>8, <1>9

(* The write-back of LoadAndTrim. *)
LEMMA ReplacesEffect ==
    ASSUME DataTypeOK, SessionInv, NEW r \in Requests,
           WriteDel(r) \/ WritePush(r) \/ WriteTrim(r)
    PROVE  Replaces(r)
  <1> USE DEF DataTypeOK, Request, At
  <1>1. UNCHANGED read /\ raced' = (raced \/ Trimming \ {r} # {})
    BY DEF WriteDel, WritePush, WriteTrim, RaceOf
  <1>2. /\ \A q \in Requests \ {r} : request'[q].phase = request[q].phase
        /\ request'[r].phase \notin {"summarise", "del"}
    <2>1. PhaseSet(r, "push") \/ PhaseSet(r, "trim") \/ PhaseSet(r, "generate")
      BY GotoEffect, ProceedEffect DEF WriteDel, WritePush, WriteTrim, Phases
    <2> QED
      BY <2>1 DEF PhaseSet
  <1>3. CASE WriteDel(r) /\ Removed(r)
    <2>1. ASSUME ~raced' PROVE unread' = {}
      <3>1. Covered(list) \subseteq read[r] /\ unread = {}
        BY <1>1, <1>3, <2>1 DEF WriteDel, SessionInv, ReadBeforeDel, DeletesWhatItRead
      <3> QED
        BY <1>3, <3>1 DEF Removed
    <2> QED
      BY <1>1, <1>2, <2>1 DEF Replaces
  <1>4. CASE UNCHANGED unread
    BY <1>1, <1>2, <1>4 DEF Replaces
  <1> QED
    BY <1>3, <1>4 DEF WriteDel, WritePush, WriteTrim

-----------------------------------------------------------------------------
(* The invariant of the session. *)

(* At the start there is nothing to lose. *)
LEMMA SessionStarts == Init => SessionInv
  BY DEF Init, NewRequest, SessionInv, DeletesWhatItRead, ReadBeforeDel

(* Every step keeps it. *)
LEMMA SessionKept ==
    ASSUME PoolInv, SessionInv, [Next]_chatVars
    PROVE  SessionInv'
  <1>0. DataTypeOK /\ SessionInv
    BY DEF PoolInv
  <1> USE DEF SessionInv
  <1>1. ASSUME NEW r \in Requests, Looks(r) PROVE SessionInv'
    <2>1. Covered(list') = Covered(list)
      BY <1>1 DEF Looks
    <2>2. DeletesWhatItRead' /\ DOMAIN read' = Requests
      BY <1>1 DEF Looks, DeletesWhatItRead
    <2>3. ReadBeforeDel'
      BY <1>1, <2>1 DEF Looks, ReadBeforeDel
    <2> QED
      BY <2>2, <2>3
  <1>2. ASSUME NEW r \in Requests, Replaces(r) PROVE SessionInv'
    <2>1. DeletesWhatItRead' /\ DOMAIN read' = Requests
      BY <1>2 DEF Replaces, DeletesWhatItRead
    <2>2. ReadBeforeDel'
      BY <1>2 DEF Replaces, ReadBeforeDel, Trimming
    <2> QED
      BY <2>1, <2>2
  <1>3. ASSUME Others PROVE SessionInv'
    <2>1. DeletesWhatItRead' /\ DOMAIN read' = Requests
      BY <1>3 DEF Others, DeletesWhatItRead
    <2>2. ReadBeforeDel'
      BY <1>3 DEF Others, ReadBeforeDel, Trimming
    <2> QED
      BY <2>1, <2>2
  <1>4. CASE UNCHANGED chatVars
    BY <1>4 DEF chatVars, sessionVars, Covered, DeletesWhatItRead, ReadBeforeDel
  <1>5. ASSUME NEW r \in Requests, Acquire(r) \/ Serve(r) PROVE SessionInv'
    BY <1>0, <1>1, <1>2, <1>5, LooksEffect, ReplacesEffect DEF Serve
  <1> QED
    BY <1>3, <1>4, <1>5, OthersEffect DEF Next

(* The invariant of the session, in every reachable state. *)
THEOREM SessionInvariance == Spec => [](PoolInv /\ SessionInv)
  BY PoolInit, PoolKept, SessionStarts, SessionKept, PTL DEF Spec

(* As long as nobody interferes, LoadAndTrim deletes only what it has read. *)
THEOREM OnlyReadIsDeleted == Spec => []DeletesWhatItRead
  BY SessionInvariance, PTL DEF SessionInv
=============================================================================
