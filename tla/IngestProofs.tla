---------------------------- MODULE IngestProofs ----------------------------
(***************************************************************************)
(* Proofs about Ingest: the queue with its workers, and then what Qdrant,  *)
(* PostgreSQL, the status of a document and the version of its domain say  *)
(* about each other; for any documents, chunks, domains and workers, with  *)
(* any calls that fail and any crashes.                                    *)
(***************************************************************************)
EXTENDS Ingest, SequenceTheorems, TLAPS

Worker == [phase : Phases, entry : EntryIds \cup {NoEntry}, next : Nat \ {0}]

(* The queue.  An entry stays pending while a worker has it in hand, so it has
   one worker at most and is handed out once.  As long as an XADD can be sent
   again, the entries it has made have smaller numbers than the next one. *)
QueueInv ==
    /\ client \in [Docs -> {"new", "added", "accepted", "refused"}]
    /\ stream \in Seq(EntryIds) /\ delivered \in 0..Len(stream)
    /\ resends \in 0..MaxResends
    /\ worker \in [Workers -> Worker]
    /\ \A i, j \in 1..Len(stream) : stream[i] = stream[j] => i = j
    /\ \A e \in Entries : client[e.doc] = "new" => e.no < resends
    /\ pending \subseteq Delivered
    /\ \A w \in Workers : ~At(w, "idle") => worker[w].entry \in pending
    /\ \A v, w \in Workers :
          ~At(v, "idle") /\ ~At(w, "idle") /\ v # w => worker[v].entry # worker[w].entry

-----------------------------------------------------------------------------
(* What a step does to the queue, in a few kinds. *)

Others(w) == \A v \in Workers \ {w} : worker'[v] = worker[v]

Resends == resends' \in 0..MaxResends /\ resends <= resends'

Posts(d) ==
    /\ client' \in [Docs -> {"new", "added", "accepted", "refused"}] /\ Resends
    /\ \A c \in Docs : client'[c] = "new" => client[c] = "new"
    /\ \/ /\ client[d] = "new" /\ stream' = Append(stream, NewEntry(d))
          /\ client'[d] = "new" => resends < resends'
       \/ UNCHANGED stream
    /\ UNCHANGED <<delivered, pending, worker>>

Takes(w) ==
    LET e == stream[delivered + 1] IN
    /\ At(w, "idle") /\ delivered < Len(stream)
    /\ delivered' = delivered + 1 /\ pending' = pending \cup {e}
    /\ \/ worker' \in [Workers -> Worker] /\ worker'[w] = NewJob(e) /\ Others(w)
       \/ UNCHANGED worker
    /\ UNCHANGED <<client, stream, resends>>

Continues(w) ==
    /\ ~At(w, "idle") /\ ~At(w, "idle")' /\ Resends
    /\ worker' \in [Workers -> Worker] /\ worker'[w].entry = worker[w].entry /\ Others(w)
    /\ UNCHANGED <<client, stream, delivered, pending>>

Ends(w) ==
    /\ ~At(w, "idle")
    /\ worker' \in [Workers -> Worker] /\ worker'[w] = Idle /\ Others(w)
    /\ pending' = pending \/ (At(w, "ack") /\ pending' = pending \ {worker[w].entry})
    /\ UNCHANGED <<client, stream, resends, delivered>>

(* A command that is sent again, or not. *)
LEMMA ResendsEffect ==
    ASSUME resends \in 0..MaxResends, Once \/ Again
    PROVE  Resends
  BY StoreAssumption DEF Once, Again, Resends

(* What Goto does to the workers. *)
LEMMA GotoEffect ==
    ASSUME worker \in [Workers -> Worker], NEW w \in Workers, NEW p \in Phases, Goto(w, p)
    PROVE  /\ worker' \in [Workers -> Worker] /\ Others(w)
           /\ worker'[w].phase = p /\ worker'[w].entry = worker[w].entry
           /\ worker'[w].next = worker[w].next
  BY DEF Worker, Goto, Others

(* What Release does to the workers. *)
LEMMA ReleaseEffect ==
    ASSUME worker \in [Workers -> Worker], NEW w \in Workers, Release(w)
    PROVE  worker' \in [Workers -> Worker] /\ Others(w) /\ worker'[w] = Idle
  <1>1. Idle \in Worker
    BY DEF Idle, NoEntry, Worker, Phases
  <1> QED
    BY <1>1 DEF Release, Others

(* What a written chunk does to its worker. *)
LEMMA AdvanceEffect ==
    ASSUME worker \in [Workers -> Worker], NEW w \in Workers,
           worker' = [worker EXCEPT
                ![w].phase = IF LastChunk(w) THEN "bump" ELSE "point",
                ![w].next = IF LastChunk(w) THEN @ ELSE @ + 1]
    PROVE  /\ worker' \in [Workers -> Worker] /\ Others(w) /\ worker'[w].entry = worker[w].entry
           /\ LastChunk(w) => worker'[w].phase = "bump" /\ worker'[w].next = worker[w].next
           /\ ~LastChunk(w) => worker'[w].phase = "point" /\ worker'[w].next = worker[w].next + 1
  <1>1. CASE LastChunk(w)
    BY <1>1 DEF Worker, Others, Phases
  <1>2. CASE ~LastChunk(w)
    BY <1>2 DEF Worker, Others, Phases
  <1> QED
    BY <1>1, <1>2

(* An entry that is taken becomes a job. *)
LEMMA NewJobType == \A e \in EntryIds : NewJob(e) \in Worker
  BY DEF NewJob, Worker, Phases

(* The clients. *)
LEMMA ClientKind ==
    ASSUME QueueInv, NEW d \in Docs, AddToStream(d) \/ SetPending(d)
    PROVE  Posts(d)
  <1>1. client' \in [Docs -> {"new", "added", "accepted", "refused"}]
    BY DEF QueueInv, AddToStream, SetPending
  <1>2. \A c \in Docs : client'[c] = "new" => client[c] = "new"
    BY DEF QueueInv, AddToStream, SetPending
  <1>3. Resends
    BY ResendsEffect DEF QueueInv, AddToStream, SetPending
  <1>4. CASE AddToStream(d)
    <2>1. stream' = stream \/ stream' = Append(stream, NewEntry(d))
      BY <1>4 DEF AddToStream
    <2>2. client'[d] = "new" => resends < resends'
      BY <1>4 DEF AddToStream, QueueInv, Again
    <2> QED
      BY <1>1, <1>2, <1>3, <1>4, <2>1, <2>2 DEF AddToStream, Posts
  <1>5. CASE SetPending(d)
    BY <1>1, <1>2, <1>3, <1>5 DEF SetPending, Posts
  <1> QED
    BY <1>4, <1>5

(* XREADGROUP. *)
LEMMA TakeKind ==
    ASSUME QueueInv, NEW w \in Workers, Take(w)
    PROVE  Takes(w)
  <1> DEFINE e == stream[delivered + 1]
  <1>1. e \in EntryIds
    BY DEF QueueInv, Take
  <1>2. ASSUME worker' = [worker EXCEPT ![w] = NewJob(e)]
        PROVE  worker' \in [Workers -> Worker] /\ worker'[w] = NewJob(e) /\ Others(w)
    BY <1>1, <1>2, NewJobType DEF QueueInv, Others
  <1> QED
    BY <1>2 DEF Take, Takes

(* A worker whose command is sent again stays where it is. *)
LEMMA StaysKind ==
    ASSUME QueueInv, NEW w \in Workers, ~At(w, "idle"), Again,
           UNCHANGED <<client, stream, delivered, pending, worker>>
    PROVE  Continues(w)
  BY ResendsEffect DEF QueueInv, Continues, Others, At

(* The steps of processJob, and a dead letter that is sent again. *)
LEMMA WorkKind ==
    ASSUME QueueInv, NEW w \in Workers,
           \/ StartProcessing(w) \/ EmbedChunks(w) \/ UpsertPoint(w)
           \/ UpsertChunk(w) \/ BumpVersion(w) \/ SetIndexed(w)
    PROVE  Continues(w)
  <1>1. ASSUME NEW p \in Phases \ {"idle"}, ~At(w, "idle"), Goto(w, p), Once,
               UNCHANGED <<client, stream, delivered, pending>>
        PROVE  Continues(w)
    BY <1>1, GotoEffect, ResendsEffect DEF QueueInv, Continues, At
  <1>2. {"embed", "point", "row", "done", "ack", "failed", "hung"} \subseteq Phases \ {"idle"}
    BY DEF Phases
  <1>3. CASE EmbedChunks(w)
    BY <1>1, <1>3, <1>2 DEF EmbedChunks, At, queueVars, Once
  <1>4. CASE UpsertPoint(w)
    BY <1>1, <1>4, <1>2 DEF UpsertPoint, At, queueVars, Once
  <1>5. CASE UpsertChunk(w)
    <2>1. CASE Goto(w, "failed") \/ Goto(w, "hung")
      BY <1>1, <1>5, <1>2, <2>1 DEF UpsertChunk, At, queueVars, Once
    <2>2. CASE worker' = [worker EXCEPT
                ![w].phase = IF LastChunk(w) THEN "bump" ELSE "point",
                ![w].next = IF LastChunk(w) THEN @ ELSE @ + 1]
      <3>1. Resends
        BY <1>5, ResendsEffect DEF UpsertChunk, queueVars, QueueInv, Once
      <3> QED
        BY <1>5, <2>2, <3>1, AdvanceEffect DEF QueueInv, UpsertChunk, Continues, At, queueVars
    <2> QED
      BY <1>5, <2>1, <2>2 DEF UpsertChunk
  <1>6. CASE StartProcessing(w) \/ BumpVersion(w) \/ SetIndexed(w)
    <2>1. CASE Again /\ UNCHANGED worker
      BY <1>6, <2>1, StaysKind DEF StartProcessing, BumpVersion, SetIndexed, At
    <2>2. CASE Once
      BY <1>1, <1>6, <1>2, <2>2 DEF StartProcessing, BumpVersion, SetIndexed, At, Again, Once,
                                    QueueInv
    <2> QED
      BY <1>6, <2>1, <2>2 DEF StartProcessing, BumpVersion, SetIndexed
  <1> QED
    BY <1>3, <1>4, <1>5, <1>6

(* The ends of a job. *)
LEMMA EndKind ==
    ASSUME QueueInv, NEW w \in Workers, Ack(w) \/ (DeadLetter(w) /\ Release(w)) \/ Crash(w)
    PROVE  Ends(w)
  <1>1. DeadLetter(w) /\ Release(w) => Once
    <2> SUFFICES ASSUME DeadLetter(w), Release(w), ~Once PROVE FALSE
      OBVIOUS
    <2>1. UNCHANGED worker /\ At(w, "failed")
      BY DEF DeadLetter
    <2>2. worker'[w] = Idle
      BY ReleaseEffect DEF QueueInv
    <2> QED
      BY <2>1, <2>2 DEF Idle, At
  <1> QED
    BY <1>1, ReleaseEffect DEF QueueInv, Ack, DeadLetter, Crash, Ends, At, queueVars, Once

(* A dead letter that is sent again. *)
LEMMA LetterKind ==
    ASSUME QueueInv, NEW w \in Workers, DeadLetter(w)
    PROVE  Release(w) \/ (Again /\ UNCHANGED worker /\ Continues(w))
  BY StaysKind DEF DeadLetter, At

(* Every step is one of these. *)
LEMMA StepKinds ==
    ASSUME QueueInv, [Next]_vars
    PROVE  \/ \E d \in Docs : Posts(d)
           \/ \E w \in Workers : Takes(w) \/ Continues(w) \/ Ends(w)
           \/ UNCHANGED <<client, stream, resends, delivered, pending, worker>>
  <1>1. ASSUME UNCHANGED vars
        PROVE  UNCHANGED <<client, stream, resends, delivered, pending, worker>>
    BY <1>1 DEF vars, queueVars
  <1> QED
    BY <1>1, ClientKind, TakeKind, WorkKind, EndKind, LetterKind DEF Next, ClientStep, WorkerStep

-----------------------------------------------------------------------------
(* The queue. *)

(* Nothing is queued at the start. *)
LEMMA QueueStarts == Init => QueueInv
  <1>1. Idle \in Worker
    BY DEF Idle, NoEntry, Worker, Phases
  <1> QED
    BY <1>1, StoreAssumption DEF Init, QueueInv, Entries, Delivered, At, Idle

(* What the next entry is not: handed out before, or in hand. *)
LEMMA NextIsNew ==
    ASSUME QueueInv, delivered < Len(stream)
    PROVE  stream[delivered + 1] \in Entries \ (Delivered \cup Held)
  <1>1. Held \subseteq Delivered
    BY DEF QueueInv, Held
  <1>2. stream[delivered + 1] \in Entries \ Delivered
    BY DEF QueueInv, Entries, Delivered
  <1> QED
    BY <1>1, <1>2

(* What becomes of the stream when a document is posted. *)
LEMMA PostEffect ==
    ASSUME QueueInv, NEW d \in Docs, Posts(d)
    PROVE  /\ stream' \in Seq(EntryIds) /\ delivered \in 0..Len(stream')
           /\ \A i, j \in 1..Len(stream') : stream'[i] = stream'[j] => i = j
           /\ Delivered' = Delivered
           /\ \/ Entries' = Entries
              \/ NewEntry(d) \in EntryIds \ Entries /\ Entries' = Entries \cup {NewEntry(d)}
           /\ \A e \in Entries' : client'[e.doc] = "new" => e.no < resends'
  <1>1. /\ stream \in Seq(EntryIds) /\ Len(stream) \in Nat /\ delivered \in 0..Len(stream)
        /\ resends \in 0..MaxResends /\ resends' \in Nat /\ resends <= resends'
    BY StoreAssumption DEF QueueInv, Posts, Resends
  <1>2. \A e \in Entries : e \in EntryIds
    BY <1>1 DEF Entries
  <1>3. ASSUME NEW e \in Entries, client'[e.doc] = "new" PROVE e.no < resends'
    <2>1. e.doc \in Docs /\ e.no \in Nat
      BY <1>2 DEF EntryIds
    <2>2. e.no < resends
      BY <1>3, <2>1 DEF QueueInv, Posts
    <2> QED
      BY <1>1, <2>1, <2>2
  <1>4. CASE UNCHANGED stream
    BY <1>1, <1>3, <1>4 DEF QueueInv, Posts, Entries, Delivered
  <1>5. CASE /\ client[d] = "new" /\ stream' = Append(stream, NewEntry(d))
             /\ client'[d] = "new" => resends < resends'
    <2>1. NewEntry(d) \in EntryIds \ Entries
      <3>1. NewEntry(d) \in EntryIds /\ NewEntry(d).doc = d /\ NewEntry(d).no = resends
        BY <1>1 DEF NewEntry, EntryIds
      <3>2. NewEntry(d) \in Entries => resends < resends
        BY <1>5, <3>1 DEF QueueInv
      <3> QED
        BY <1>1, <3>1, <3>2
    <2> DEFINE e == NewEntry(d)
    <2>2. e.doc = d /\ e.no = resends
      BY DEF NewEntry
    <2> HIDE DEF e
    <2>3. /\ Len(stream') = Len(stream) + 1 /\ stream'[Len(stream) + 1] = e
          /\ \A k \in 1..Len(stream) : stream'[k] = stream[k]
          /\ stream' \in Seq(EntryIds)
      BY <1>1, <1>5, <2>1, AppendProperties DEF e
    <2>4. Entries' = Entries \cup {e}
      BY <1>1, <2>3 DEF Entries
    <2>5. Delivered' = Delivered
      BY <1>1, <2>3 DEF Delivered, Posts
    <2>6. ASSUME NEW i \in 1..Len(stream'), NEW j \in 1..Len(stream'), stream'[i] = stream'[j]
          PROVE  i = j
      <3>1. \A k \in 1..Len(stream) : stream'[k] # e
        BY <2>1, <2>3 DEF Entries, e
      <3> QED
        BY <1>1, <2>3, <2>6, <3>1 DEF QueueInv
    <2>7. \A f \in Entries' : client'[f.doc] = "new" => f.no < resends'
      BY <1>3, <1>5, <2>2, <2>4
    <2> QED
      BY <1>1, <2>1, <2>3, <2>4, <2>5, <2>6, <2>7 DEF e
  <1> QED
    BY <1>4, <1>5 DEF Posts

(* What becomes of the entries that were handed out when one more is. *)
LEMMA TakeEffect ==
    ASSUME QueueInv, NEW w \in Workers, Takes(w)
    PROVE  /\ delivered' \in 0..Len(stream) /\ Entries' = Entries
           /\ stream[delivered + 1] \in EntryIds
           /\ Delivered' = Delivered \cup {stream[delivered + 1]}
           /\ stream[delivered + 1] \in Entries \ (Delivered \cup Held)
  <1>1. Len(stream) \in Nat /\ delivered \in 0..Len(stream) /\ delivered < Len(stream)
    BY DEF QueueInv, Takes
  <1>2. delivered' = delivered + 1 /\ stream' = stream
    BY DEF Takes
  <1>3. 1..(delivered + 1) = (1..delivered) \cup {delivered + 1}
    BY <1>1
  <1> QED
    BY <1>1, <1>2, <1>3, NextIsNew DEF QueueInv, Entries, Delivered

(* Every step keeps the queue in order. *)
LEMMA QueueKept == QueueInv /\ [Next]_vars => QueueInv'
  <1> SUFFICES ASSUME QueueInv, [Next]_vars PROVE QueueInv'
    OBVIOUS
  <1> USE DEF At
  <1>1. ASSUME NEW d \in Docs, Posts(d) PROVE QueueInv'
    BY <1>1, PostEffect DEF QueueInv, Posts, Resends
  <1>2. ASSUME NEW w \in Workers, Takes(w) PROVE QueueInv'
    <2> DEFINE e == stream[delivered + 1]
    <2>1. /\ delivered' \in 0..Len(stream) /\ Entries' = Entries /\ e \in EntryIds
          /\ Delivered' = Delivered \cup {e} /\ e \notin Held
      BY <1>2, TakeEffect
    <2>2. pending' = pending \cup {e} /\ UNCHANGED <<client, stream, resends>>
      BY <1>2 DEF Takes
    <2>3. worker' \in [Workers -> Worker]
      BY <1>2 DEF Takes, QueueInv
    <2>4. \A v \in Workers : worker'[v].phase # "idle" =>
              worker'[v] = worker[v] \/ (v = w /\ worker'[v].entry = e)
      BY <1>2 DEF Takes, Others, NewJob
    <2>5. \A v \in Workers : worker[v].phase # "idle" => worker[v].entry # e
      BY <2>1 DEF Held
    <2> HIDE DEF e
    <2>6. /\ \A v \in Workers : worker'[v].phase # "idle" => worker'[v].entry \in pending'
          /\ \A u, v \in Workers : /\ worker'[u].phase # "idle" /\ worker'[v].phase # "idle"
                                   /\ u # v
                                   => worker'[u].entry # worker'[v].entry
      BY <2>2, <2>4, <2>5 DEF QueueInv
    <2>7. pending' \subseteq Delivered'
      BY <2>1, <2>2 DEF QueueInv
    <2> QED
      BY <2>1, <2>2, <2>3, <2>6, <2>7 DEF QueueInv
  <1>3. ASSUME NEW w \in Workers, Continues(w) PROVE QueueInv'
    <2>1. \A v \in Workers : worker'[v].phase # "idle" =>
              worker[v].phase # "idle" /\ worker'[v].entry = worker[v].entry
      BY <1>3 DEF Continues, Others
    <2>2. Entries' = Entries /\ Delivered' = Delivered
      BY <1>3 DEF Continues, Entries, Delivered
    <2>3. \A f \in Entries' : client'[f.doc] = "new" => f.no < resends'
      <3>1. /\ \A f \in Entries : f.no \in Nat
            /\ resends \in Nat /\ resends' \in Nat /\ resends <= resends'
        <4>1. \A k \in 1..Len(stream) : stream[k] \in EntryIds
          BY DEF QueueInv
        <4>2. \A f \in Entries : f.no \in Nat
          BY <4>1, StoreAssumption DEF Entries, EntryIds
        <4> QED
          BY <1>3, <4>2, StoreAssumption DEF QueueInv, Continues, Resends
      <3> QED
        BY <1>3, <2>2, <3>1 DEF QueueInv, Continues
    <2> QED
      BY <1>3, <2>1, <2>2, <2>3 DEF Continues, QueueInv, Resends
  <1>4. ASSUME NEW w \in Workers, Ends(w) PROVE QueueInv'
    <2>1. \A v \in Workers : worker'[v].phase # "idle" => v # w /\ worker'[v] = worker[v]
      BY <1>4 DEF Ends, Others, Idle
    <2>2. Entries' = Entries /\ Delivered' = Delivered
      BY <1>4 DEF Ends, Entries, Delivered
    <2>3. \A v \in Workers : worker'[v].phase # "idle" => worker'[v].entry \in pending'
      BY <1>4, <2>1 DEF Ends, QueueInv
    <2>4. pending' \subseteq Delivered'
      BY <1>4, <2>2 DEF Ends, QueueInv
    <2> QED
      BY <1>4, <2>1, <2>2, <2>3, <2>4 DEF Ends, QueueInv
  <1>5. ASSUME UNCHANGED <<client, stream, resends, delivered, pending, worker>> PROVE QueueInv'
    BY <1>5 DEF QueueInv, Entries, Delivered
  <1> QED
    BY <1>1, <1>2, <1>3, <1>4, <1>5, StepKinds

(* The invariant of the queue, in every reachable state. *)
THEOREM QueueInvariance == Spec => []QueueInv
  BY QueueStarts, QueueKept, PTL DEF Spec

(* An entry of the stream has at most one attempt, by one worker, whatever
   crashes and whatever answers are lost. *)
THEOREM AttemptedOnce == Spec => OneAttempt
  <1>1. ASSUME QueueInv, [Next]_vars, NEW w \in Workers, At(w, "idle"), ~At(w, "idle")'
        PROVE  worker'[w].entry \notin Delivered \cup Held
    <2>1. ASSUME NEW v \in Workers, Takes(v)
          PROVE  worker'[w].entry \notin Delivered \cup Held
      <3>1. v = w /\ worker'[w].entry = stream[delivered + 1]
        BY <1>1, <2>1 DEF Takes, Others, NewJob, At
      <3> QED
        BY <1>1, <2>1, <3>1, TakeEffect
    <2>2. ASSUME NEW v \in Workers, Continues(v) \/ Ends(v) PROVE FALSE
      BY <1>1, <2>2 DEF Continues, Ends, Others, Idle, At
    <2>3. ASSUME UNCHANGED worker PROVE FALSE
      BY <1>1, <2>3 DEF At
    <2> QED
      BY <1>1, <2>1, <2>2, <2>3, StepKinds DEF Posts
  <1>2. QueueInv /\ [Next]_vars =>
            [\A w \in Workers : At(w, "idle") /\ ~At(w, "idle")' =>
                 worker'[w].entry \notin Delivered \union Held]_vars
    BY <1>1
  <1> QED
    BY <1>2, QueueInvariance, PTL DEF Spec, OneAttempt

-----------------------------------------------------------------------------
(* The life of a job. *)

(* A job is in one of its five places. *)
LEMMA Places ==
    ASSUME QueueInv, NEW e \in EntryIds
    PROVE  /\ Held \subseteq pending /\ pending \subseteq Delivered /\ Delivered \subseteq Entries
           /\ e \notin Entries => JobOf(e) = "absent"
           /\ e \in Entries /\ e \notin Delivered => JobOf(e) = "queued"
           /\ e \in Held => JobOf(e) = "running"
           /\ e \in Delivered /\ e \notin pending => JobOf(e) = "done"
           /\ e \in pending /\ e \notin Held => JobOf(e) = "abandoned"
  <1>1. Held \subseteq pending /\ pending \subseteq Delivered /\ Delivered \subseteq Entries
    BY DEF QueueInv, Held, Delivered, Entries
  <1> QED
    BY <1>1 DEF JobOf

(* The same, after a step. *)
LEMMA PlacesAfter ==
    ASSUME QueueInv', NEW e \in EntryIds
    PROVE  /\ e \notin Entries' => JobOf(e)' = "absent"
           /\ e \in Entries' /\ e \notin Delivered' => JobOf(e)' = "queued"
           /\ e \in Held' => JobOf(e)' = "running"
           /\ e \in Delivered' /\ e \notin pending' => JobOf(e)' = "done"
           /\ e \in pending' /\ e \notin Held' => JobOf(e)' = "abandoned"
  <1>1. Held' \subseteq pending' /\ pending' \subseteq Delivered' /\ Delivered' \subseteq Entries'
    BY DEF QueueInv, Held, Delivered, Entries
  <1> QED
    BY <1>1 DEF JobOf

(* Where a job is depends on these sets only. *)
LEMMA SamePlace ==
    ASSUME QueueInv, QueueInv', NEW e \in EntryIds,
           e \in Entries <=> e \in Entries', e \in Delivered <=> e \in Delivered',
           e \in Held <=> e \in Held', e \in pending <=> e \in pending'
    PROVE  JobOf(e)' = JobOf(e)
  BY Places, PlacesAfter

(* A step moves one job at most, and only forward. *)
LEMMA JobMoves ==
    ASSUME QueueInv, QueueInv', NEW e \in EntryIds,
           \A f \in EntryIds \ {e} : JobOf(f)' = JobOf(f),
           \/ JobOf(e) = "absent" /\ JobOf(e)' = "queued"
           \/ JobOf(e) = "queued" /\ JobOf(e)' \in {"running", "abandoned"}
           \/ JobOf(e) = "running" /\ JobOf(e)' \in {"done", "abandoned"}
           \/ JobOf(e)' = JobOf(e)
    PROVE  [Lifecycle!Next]_jobs
  <1>1. ASSUME NEW p, JobOf(e)' = p PROVE jobs' = [jobs EXCEPT ![e] = p]
    BY <1>1 DEF jobs
  <1>2. jobs[e] = JobOf(e)
    BY DEF jobs
  <1>3. JobOf(e)' = JobOf(e) => jobs' = jobs
    BY DEF jobs
  <1> QED
    BY <1>1, <1>2, <1>3
       DEF Lifecycle!Next, Lifecycle!Post, Lifecycle!Take, Lifecycle!Finish,
           Lifecycle!Abandon, Lifecycle!Lose, Lifecycle!Become

(* Whatever a step does to the queue is a step in the life of a job, or none. *)
LEMMA LifecycleRefined ==
    ASSUME QueueInv, QueueInv', [Next]_vars
    PROVE  [Lifecycle!Next]_jobs
  <1>1. ASSUME NEW d \in Docs, Posts(d)
        PROVE  [Lifecycle!Next]_jobs
    <2>1. Delivered' = Delivered /\ pending' = pending /\ Held' = Held
      BY <1>1, PostEffect DEF Posts, Held, At
    <2>2. CASE Entries' = Entries
      <3>1. \A f \in EntryIds : JobOf(f)' = JobOf(f)
        BY <2>1, <2>2, SamePlace
      <3> QED
        BY <3>1 DEF jobs
    <2>3. ASSUME NEW e \in EntryIds \ Entries, Entries' = Entries \cup {e}
          PROVE  [Lifecycle!Next]_jobs
      <3>1. e \notin Delivered'
        BY <2>1, <2>3, Places
      <3>2. JobOf(e) = "absent" /\ JobOf(e)' = "queued"
        BY <2>3, <3>1, Places, PlacesAfter
      <3>3. \A f \in EntryIds \ {e} : JobOf(f)' = JobOf(f)
        BY <2>1, <2>3, SamePlace
      <3> QED
        BY <3>2, <3>3, JobMoves
    <2> QED
      BY <1>1, <2>2, <2>3, PostEffect
  <1>2. ASSUME NEW w \in Workers, Takes(w)
        PROVE  [Lifecycle!Next]_jobs
    <2>1. PICK e \in EntryIds : e = stream[delivered + 1]
      BY <1>2, TakeEffect
    <2>2. /\ e \in EntryIds /\ Entries' = Entries /\ Delivered' = Delivered \cup {e}
          /\ e \in Entries \ (Delivered \cup Held)
      BY <1>2, <2>1, TakeEffect
    <2>3. pending' = pending \cup {e}
      BY <1>2, <2>1 DEF Takes
    <2>4. Held' = Held \/ Held' = Held \cup {e}
      <3>1. CASE UNCHANGED worker
        BY <3>1 DEF Held, At
      <3>2. CASE worker'[w] = NewJob(e) /\ Others(w)
        <4>1. At(w, "idle") /\ ~At(w, "idle")' /\ worker'[w].entry = e
          BY <1>2, <3>2 DEF Takes, NewJob, At, Job
        <4>2. \A v \in Workers \ {w} : (At(v, "idle")' <=> At(v, "idle")) /\ worker'[v].entry = worker[v].entry
          BY <3>2 DEF Others, At, Job
        <4> QED
          BY <4>1, <4>2 DEF Held
      <3> QED
        BY <1>2, <2>1, <3>1, <3>2 DEF Takes
    <2>5. \A f \in EntryIds \ {e} : JobOf(f)' = JobOf(f)
      BY <2>2, <2>3, <2>4, SamePlace
    <2>6. JobOf(e) = "queued"
      BY <2>2, Places
    <2>7. JobOf(e)' \in {"running", "abandoned"}
      BY <2>2, <2>3, <2>4, PlacesAfter
    <2> QED
      BY <2>2, <2>5, <2>6, <2>7, JobMoves
  <1>3. ASSUME NEW w \in Workers, Continues(w)
        PROVE  [Lifecycle!Next]_jobs
    <2>1. \A v \in Workers : (At(v, "idle")' <=> At(v, "idle")) /\ worker'[v].entry = worker[v].entry
      BY <1>3 DEF Continues, Others, At, Job
    <2>2. /\ Entries' = Entries /\ Delivered' = Delivered /\ pending' = pending
          /\ Held' = Held
      BY <1>3, <2>1 DEF Continues, Entries, Delivered, Held
    <2>3. \A f \in EntryIds : JobOf(f)' = JobOf(f)
      BY <2>2, SamePlace
    <2> QED
      BY <2>3 DEF jobs
  <1>4. ASSUME NEW w \in Workers, Ends(w)
        PROVE  [Lifecycle!Next]_jobs
    <2>1. PICK e \in EntryIds : e = worker[w].entry
      <3>1. \A k \in 1..delivered : stream[k] \in EntryIds
        BY DEF QueueInv
      <3> QED
        BY <1>4, <3>1 DEF Ends, QueueInv, Delivered
    <2>2. e \in Held /\ e \in pending
      BY <1>4, <2>1 DEF Ends, QueueInv, Held
    <2>3. /\ Entries' = Entries /\ Delivered' = Delivered
          /\ pending' = pending \/ pending' = pending \ {e}
      BY <1>4, <2>1 DEF Ends, Entries, Delivered
    <2>4. Held' = Held \ {e}
      <3>1. At(w, "idle")' /\ ~At(w, "idle")
        BY <1>4 DEF Ends, Idle, At
      <3>2. \A v \in Workers \ {w} : (At(v, "idle")' <=> At(v, "idle")) /\ worker'[v].entry = worker[v].entry
        BY <1>4 DEF Ends, Others, At, Job
      <3>3. \A v \in Workers \ {w} : ~At(v, "idle") => worker[v].entry # e
        BY <2>1, <3>1 DEF QueueInv
      <3> QED
        BY <2>1, <3>1, <3>2, <3>3 DEF Held
    <2>5. \A f \in EntryIds \ {e} : JobOf(f)' = JobOf(f)
      BY <2>3, <2>4, SamePlace
    <2>6. JobOf(e) = "running"
      BY <2>2, Places
    <2>7. JobOf(e)' \in {"done", "abandoned"}
      BY <2>2, <2>3, <2>4, Places, PlacesAfter
    <2> QED
      BY <2>2, <2>5, <2>6, <2>7, JobMoves
  <1>5. ASSUME UNCHANGED <<client, stream, resends, delivered, pending, worker>>
        PROVE  [Lifecycle!Next]_jobs
    <2>1. \A f \in EntryIds : JobOf(f)' = JobOf(f)
      BY <1>5, SamePlace DEF Entries, Delivered, Held, At
    <2> QED
      BY <2>1 DEF jobs
  <1> QED
    BY <1>1, <1>2, <1>3, <1>4, <1>5, StepKinds

(* Ingest implements JobLifecycle: a job waits, is attempted at most once, and
   ends acknowledged or abandoned, for good. *)
THEOREM LifecycleImplemented == Spec => ImplementsLifecycle
  <1>1. Init => Lifecycle!Init
    <2> SUFFICES ASSUME Init PROVE Lifecycle!Init
      OBVIOUS
    <2>1. Entries = {}
      BY DEF Init, Entries
    <2>2. \A e \in EntryIds : JobOf(e) = "absent"
      BY <2>1, QueueStarts, Places
    <2> QED
      BY <2>2 DEF Lifecycle!Init, jobs
  <1>2. QueueInv /\ QueueInv' /\ [Next]_vars => [Lifecycle!Next]_jobs
    BY LifecycleRefined
  <1> QED
    BY <1>1, <1>2, QueueInvariance, PTL DEF Spec, ImplementsLifecycle, Lifecycle!Spec

-----------------------------------------------------------------------------
(* The stores. *)

DataTypeOK ==
    /\ points \subseteq PointIds /\ rows \subseteq Rows
    /\ dlq \subseteq [entry : EntryIds, retry : 1..MaxRetries]
    /\ status \in [Docs -> Statuses]
    /\ version \in [Domains -> Nat]
    /\ rowAt \in [Docs -> Nat] /\ bumpAt \in [Docs -> Nat]

Stored(d, i) == HasHash(Chunks[d][i]) /\ HasPoint(<<d, i>>)

(* What the work of w says about its document: what was written before this
   step of processJob is there, by this attempt or by another one. *)
Progress(w) ==
    LET d == Job(w)
        n == worker[w].next
    IN  ~At(w, "idle") =>
        /\ n \in 1..Len(Chunks[d])
        /\ worker[w].phase \in {"start", "embed"} => n = 1
        /\ worker[w].phase \in {"start", "embed", "point", "row"} =>
               \A i \in 1..(n - 1) : Stored(d, i)
        /\ worker[w].phase \in {"row", "bump"} => ValidDomain(d)
        /\ At(w, "row") => HasPoint(<<d, n>>)
        /\ At(w, "bump") => Complete(d)
        /\ worker[w].phase \in {"done", "ack"} => bumpAt[d] # 0

(* A document's first INCR comes when all of it is stored.  Nobody writes a row
   for it any more, because all of its content is there. *)
BumpsComeLast == \A d \in Docs : bumpAt[d] # 0 => Complete(d) /\ bumpAt[d] > rowAt[d]

(* The invariant of the stores. *)
StoreInv ==
    /\ DataTypeOK
    /\ RowsHavePoints
    /\ \A d \in Docs : rowAt[d] <= DomainVersion(d)
    /\ BumpsComeLast
    /\ \A d \in Docs : status[d] = "indexed" \/ Acked(d) => bumpAt[d] # 0
    /\ \A w \in Workers : Progress(w)

-----------------------------------------------------------------------------
(* What all steps have in common. *)

(* The stores only grow, and a version once made is not forgotten. *)
Grows ==
    /\ rows \subseteq rows' /\ points \subseteq points'
    /\ \A d \in Docs : bumpAt[d] # 0 => bumpAt'[d] # 0

(* What is stored stays. *)
LEMMA StoredStays ==
    ASSUME Grows, NEW d, NEW i, Stored(d, i)
    PROVE  Stored(d, i)'
  BY DEF Grows, Stored, HasHash, HasPoint

(* What is complete stays complete. *)
LEMMA CompleteStays ==
    ASSUME Grows, NEW d, Complete(d)
    PROVE  Complete(d)'
  BY DEF Grows, Complete, HasHash, HasPoint

(* A job in hand is an entry of a document. *)
LEMMA JobIsDoc ==
    ASSUME QueueInv, NEW w \in Workers, ~At(w, "idle")
    PROVE  /\ Job(w) \in Docs /\ worker[w].entry \in EntryIds
           /\ worker[w].entry \in pending /\ worker[w].entry \in Delivered
  <1>1. \A k \in 1..delivered : stream[k] \in EntryIds
    BY DEF QueueInv
  <1>2. worker[w].entry \in EntryIds /\ worker[w].entry \in pending /\ worker[w].entry \in Delivered
    BY <1>1 DEF QueueInv, Delivered
  <1> QED
    BY <1>2 DEF Job, EntryIds

(* The others' work is not touched. *)
LEMMA ProgressStays ==
    ASSUME QueueInv, Grows, NEW v \in Workers, worker'[v] = worker[v], Progress(v)
    PROVE  Progress(v)'
  <1> SUFFICES ASSUME ~At(v, "idle") PROVE Progress(v)'
    BY DEF Progress, At
  <1>1. PICK d \in Docs : d = Job(v)
    BY JobIsDoc
  <1>2. Job(v)' = d
    BY <1>1 DEF Job
  <1>3. bumpAt[d] # 0 => bumpAt'[d] # 0
    BY DEF Grows
  <1>4. Complete(d) => Complete(d)'
    BY CompleteStays
  <1>5. \A i : Stored(d, i) => Stored(d, i)'
    BY StoredStays
  <1>6. \A i : HasPoint(<<d, i>>) => HasPoint(<<d, i>>)'
    BY DEF Grows, HasPoint
  <1> QED
    BY <1>1, <1>2, <1>3, <1>4, <1>5, <1>6 DEF Progress, At, ValidDomain

(* What is left to show of a step of w. *)
LEMMA WorkKeeps ==
    ASSUME QueueInv, StoreInv, NEW w \in Workers,
           ~At(w, "idle"), Grows, Others(w), UNCHANGED <<stream, delivered>>,
           pending' \in {pending, pending \ {worker[w].entry}},
           DataTypeOK', RowsHavePoints', \A c \in Docs : rowAt'[c] <= DomainVersion(c)',
           BumpsComeLast', Progress(w)',
           \A c \in Docs : status'[c] = "indexed" => bumpAt'[c] # 0,
           worker[w].entry \notin pending' => bumpAt'[Job(w)] # 0
    PROVE  StoreInv'
  <1>1. Delivered' = Delivered
    BY DEF Delivered
  <1>2. \A v \in Workers : Progress(v)'
    BY ProgressStays DEF StoreInv, Others
  <1>3. ASSUME NEW c \in Docs, Acked(c)' PROVE bumpAt'[c] # 0
    <2>1. PICK e \in Delivered \ pending' : e.doc = c
      BY <1>1, <1>3 DEF Acked
    <2>2. CASE e \in pending
      BY <2>1, <2>2 DEF Job
    <2>3. CASE e \notin pending
      BY <2>1, <2>3 DEF Acked, StoreInv, Grows
    <2> QED
      BY <2>2, <2>3
  <1> QED
    BY <1>2, <1>3 DEF StoreInv

(* A step that writes no data. *)
LEMMA QuietKeeps ==
    ASSUME QueueInv, StoreInv, NEW w \in Workers, NEW d \in Docs, d = Job(w),
           ~At(w, "idle"), Others(w), UNCHANGED <<stream, delivered>>,
           pending' \in {pending, pending \ {worker[w].entry}},
           UNCHANGED <<version, histVars, storeVars>>,
           dlq' \subseteq [entry : EntryIds, retry : 1..MaxRetries],
           NEW s \in Statuses, status' \in {status, [status EXCEPT ![d] = s]},
           Progress(w)',
           s = "indexed" \/ worker[w].entry \notin pending' => bumpAt[d] # 0
    PROVE  StoreInv'
  <1> USE DEF histVars, storeVars
  <1>1. Grows /\ RowsHavePoints' /\ \A c \in Docs : rowAt'[c] <= DomainVersion(c)'
    BY DEF Grows, StoreInv, RowsHavePoints, HasPoint, DomainVersion, ValidDomain
  <1>2. DataTypeOK'
    BY DEF StoreInv, DataTypeOK
  <1>3. BumpsComeLast'
    BY <1>1, CompleteStays DEF StoreInv, BumpsComeLast
  <1>4. \A c \in Docs : status'[c] = "indexed" => bumpAt'[c] # 0
    BY DEF StoreInv, DataTypeOK
  <1> QED
    BY <1>1, <1>2, <1>3, <1>4, WorkKeeps

-----------------------------------------------------------------------------
(* The steps of a worker. *)

(* The steps of processJob before it writes. *)
LEMMA BeginKeeps ==
    ASSUME QueueInv, StoreInv, NEW w \in Workers, StartProcessing(w) \/ EmbedChunks(w)
    PROVE  StoreInv'
  <1>1. PICK d \in Docs : d = Job(w)
    BY JobIsDoc DEF StartProcessing, EmbedChunks, At
  <1>2. /\ Continues(w) /\ ~At(w, "idle") /\ worker[w].entry \in pending
        /\ worker[w].next = 1 /\ 1 \in 1..Len(Chunks[d])
    BY <1>1, WorkKind, JobIsDoc DEF Continues, StoreInv, Progress, StartProcessing,
       EmbedChunks, At
  <1>3. /\ worker'[w].phase \in {"start", "embed", "point", "failed"}
        /\ Job(w)' = d /\ worker'[w].next = 1
    <2>1. \E p \in {"embed", "point", "failed"} : Goto(w, p) \/ (At(w, "start") /\ UNCHANGED worker)
      BY DEF StartProcessing, EmbedChunks
    <2> QED
      BY <1>1, <1>2, <2>1, GotoEffect DEF QueueInv, Phases, At, Job
  <1>4. /\ status' \in {status, [status EXCEPT ![d] = "processing"]}
        /\ UNCHANGED <<dlq, version, histVars, storeVars>>
    BY <1>1 DEF StartProcessing, EmbedChunks, SetStatus, queueVars
  <1>5. Progress(w)'
    BY <1>2, <1>3 DEF Progress, At
  <1>6. "processing" \in Statuses /\ dlq' \subseteq [entry : EntryIds, retry : 1..MaxRetries]
    BY <1>4 DEF Statuses, StoreInv, DataTypeOK
  <1> QED
    BY <1>1, <1>2, <1>4, <1>5, <1>6, QuietKeeps DEF Continues

(* The final status. *)
LEMMA IndexedKeeps ==
    ASSUME QueueInv, StoreInv, NEW w \in Workers, SetIndexed(w)
    PROVE  StoreInv'
  <1>1. PICK d \in Docs : d = Job(w)
    BY JobIsDoc DEF SetIndexed, At
  <1>2. /\ Continues(w) /\ ~At(w, "idle") /\ worker[w].next \in 1..Len(Chunks[d])
        /\ bumpAt[d] # 0
    BY <1>1, WorkKind DEF Continues, StoreInv, Progress, SetIndexed, At
  <1>3. /\ worker'[w].phase \in {"done", "ack", "failed"}
        /\ Job(w)' = d /\ worker'[w].next = worker[w].next
    <2>1. \E p \in {"ack", "failed"} : Goto(w, p) \/ (At(w, "done") /\ UNCHANGED worker)
      BY DEF SetIndexed
    <2> QED
      BY <1>1, <2>1, GotoEffect DEF QueueInv, Phases, At, Job
  <1>4. /\ status' \in {status, [status EXCEPT ![d] = "indexed"]}
        /\ UNCHANGED <<dlq, version, histVars, storeVars>>
    BY <1>1 DEF SetIndexed, SetStatus
  <1>5. Progress(w)'
    BY <1>2, <1>3, <1>4 DEF Progress, At, histVars
  <1>6. "indexed" \in Statuses /\ dlq' \subseteq [entry : EntryIds, retry : 1..MaxRetries]
    BY <1>4 DEF Statuses, StoreInv, DataTypeOK
  <1> QED
    BY <1>1, <1>2, <1>4, <1>5, <1>6, QuietKeeps DEF Continues

(* The ends of a job. *)
LEMMA EndKeeps ==
    ASSUME QueueInv, StoreInv, NEW w \in Workers, Ack(w) \/ DeadLetter(w) \/ Crash(w)
    PROVE  StoreInv'
  <1>1. PICK d \in Docs : d = Job(w)
    BY JobIsDoc DEF Ack, DeadLetter, Crash, At
  <1>2. /\ ~At(w, "idle") /\ worker[w].entry \in pending /\ worker[w].entry \in EntryIds
        /\ worker[w].entry.doc = d
    BY <1>1, JobIsDoc DEF Ack, DeadLetter, Crash, At, Job
  <1>3. Ends(w) \/ (At(w, "failed") /\ UNCHANGED <<worker, stream, delivered, pending>>)
    BY EndKind, LetterKind DEF Ack, DeadLetter, Crash
  <1>4. UNCHANGED <<version, histVars, storeVars>>
    BY DEF Ack, DeadLetter, Crash
  <1>5. /\ dlq' \subseteq [entry : EntryIds, retry : 1..MaxRetries]
        /\ status' \in {status, [status EXCEPT ![d] = "failed"]}
    <2>1. CASE Ack(w) \/ Crash(w)
      BY <2>1 DEF Ack, Crash, queueVars, StoreInv, DataTypeOK
    <2>2. CASE DeadLetter(w)
      <3>1. CASE SendToDLQ(worker[w].entry)
        BY <1>2, <3>1, IngestAssumption
           DEF SendToDLQ, RetryCount, SetStatus, StoreInv, DataTypeOK
      <3>2. CASE UNCHANGED <<dlq, status>>
        BY <3>2 DEF StoreInv, DataTypeOK
      <3> QED
        BY <2>2, <3>1, <3>2 DEF DeadLetter
    <2> QED
      BY <2>1, <2>2
  <1>6. "failed" \in Statuses
    BY DEF Statuses
  <1>7. Others(w) /\ UNCHANGED <<stream, delivered>>
    BY <1>3 DEF Ends, Others
  <1>8. Progress(w)'
    <2>1. CASE Ends(w)
      BY <2>1 DEF Ends, Idle, Progress, At
    <2>2. CASE UNCHANGED worker
      <3>1. Grows
        BY <1>4 DEF Grows, histVars, storeVars
      <3> QED
        BY <2>2, <3>1, ProgressStays DEF StoreInv
    <2> QED
      BY <1>3, <2>1, <2>2
  <1>9. /\ pending' \in {pending, pending \ {worker[w].entry}}
        /\ worker[w].entry \notin pending' => At(w, "ack")
    BY <1>2, <1>3 DEF Ends
  <1>10. At(w, "ack") => bumpAt[d] # 0
    BY <1>1 DEF StoreInv, Progress, At
  <1> QED
    BY <1>1, <1>2, <1>4, <1>5, <1>6, <1>7, <1>8, <1>9, <1>10, QuietKeeps

(* The point of a chunk. *)
LEMMA PointKeeps ==
    ASSUME QueueInv, StoreInv, NEW w \in Workers, UpsertPoint(w)
    PROVE  StoreInv'
  <1>1. PICK d \in Docs, n \in Nat, e \in EntryIds :
            d = Job(w) /\ n = worker[w].next /\ e = worker[w].entry
    BY JobIsDoc DEF UpsertPoint, At, QueueInv, Worker
  <1>2. /\ Continues(w) /\ ~At(w, "idle") /\ n \in 1..Len(Chunks[d])
        /\ \A i \in 1..(n - 1) : Stored(d, i)
    BY <1>1, WorkKind DEF Continues, StoreInv, Progress, UpsertPoint, At
  <1>3. e.doc = d /\ e \in pending
    BY <1>1, <1>2, JobIsDoc DEF Job
  <1>4. <<e, n>> \in PointIds /\ ChunkOf(<<e, n>>) = <<d, n>>
    BY <1>2, <1>3 DEF PointIds, ChunkOf
  <1>5. /\ points' \in {points, points \cup {<<e, n>>}}
        /\ UNCHANGED <<queueVars, status, version, histVars, rows>>
    BY <1>1 DEF UpsertPoint, PutPoint, Point
  <1>6. Grows /\ RowsHavePoints' /\ \A c \in Docs : rowAt'[c] <= DomainVersion(c)'
    BY <1>5 DEF Grows, StoreInv, RowsHavePoints, HasPoint, DomainVersion, ValidDomain, histVars
  <1>7. DataTypeOK' /\ BumpsComeLast'
    <2>1. DataTypeOK'
      BY <1>4, <1>5 DEF StoreInv, DataTypeOK, histVars, queueVars
    <2>2. BumpsComeLast'
      BY <1>5, <1>6, CompleteStays DEF StoreInv, BumpsComeLast, histVars
    <2> QED
      BY <2>1, <2>2
  <1>8. Progress(w)'
    <2>1. \A i \in 1..(n - 1) : Stored(d, i)'
      BY <1>2, <1>6, StoredStays
    <2>2. CASE ValidDomain(d) /\ points' = points \cup {<<e, n>>} /\ Goto(w, "row")
      <3>1. worker'[w].phase = "row" /\ Job(w)' = d /\ worker'[w].next = n
        BY <1>1, <2>2, GotoEffect DEF QueueInv, Phases, Job
      <3>2. HasPoint(<<d, n>>)'
        BY <1>4, <2>2 DEF HasPoint
      <3> QED
        BY <1>2, <2>1, <2>2, <3>1, <3>2 DEF Progress, At, ValidDomain
    <2>3. ASSUME NEW p \in {"failed", "hung"}, Goto(w, p) PROVE Progress(w)'
      <3>1. worker'[w].phase = p /\ Job(w)' = d /\ worker'[w].next = n
        BY <1>1, <2>3, GotoEffect DEF QueueInv, Phases, Job
      <3> QED
        BY <1>2, <3>1 DEF Progress, At
    <2> QED
      BY <1>1, <2>2, <2>3 DEF UpsertPoint, PutPoint, Point
  <1>9. \A c \in Docs : status'[c] = "indexed" => bumpAt'[c] # 0
    BY <1>5 DEF StoreInv, histVars
  <1> QED
    BY <1>1, <1>2, <1>3, <1>5, <1>6, <1>7, <1>8, <1>9, WorkKeeps DEF Continues, queueVars

(* The row of a chunk. *)
LEMMA RowKeeps ==
    ASSUME QueueInv, StoreInv, NEW w \in Workers, UpsertChunk(w)
    PROVE  StoreInv'
  <1>1. PICK d \in Docs, n \in Nat : d = Job(w) /\ n = worker[w].next
    BY JobIsDoc DEF UpsertChunk, At, QueueInv, Worker
  <1>2. /\ Continues(w) /\ ~At(w, "idle") /\ worker[w].entry \in pending
        /\ n \in 1..Len(Chunks[d]) /\ \A i \in 1..(n - 1) : Stored(d, i)
        /\ ValidDomain(d) /\ HasPoint(<<d, n>>)
    BY <1>1, WorkKind, JobIsDoc DEF Continues, StoreInv, Progress, UpsertChunk, At
  <1>3. /\ Row(<<d, n>>) \in Rows /\ Row(<<d, n>>).chunk = <<d, n>>
        /\ Row(<<d, n>>).hash = Chunks[d][n]
    BY <1>2 DEF Row, Rows, ChunkIds, HashOf
  <1>4. /\ rows' = rows \/ PutRow(<<d, n>>)
        /\ rowAt' = IF rows' = rows THEN rowAt ELSE [rowAt EXCEPT ![d] = DomainVersion(d)]
        /\ UNCHANGED <<queueVars, status, version, bumpAt, points>>
    BY <1>1 DEF UpsertChunk, Chunk
  <1>5. /\ rows' \in {rows, rows \cup {Row(<<d, n>>)}}
        /\ HasHash(Chunks[d][n]) => rows' = rows
    BY <1>4 DEF PutRow, HashOf
  <1>6. Grows
    BY <1>4, <1>5 DEF Grows
  <1>7. RowsHavePoints'
    BY <1>2, <1>3, <1>4, <1>5 DEF StoreInv, RowsHavePoints, HasPoint
  <1>8. DomainVersion(d) \in Nat /\ \A c \in Docs : DomainVersion(c)' = DomainVersion(c)
    BY <1>2, <1>4 DEF DomainVersion, ValidDomain, StoreInv, DataTypeOK
  <1>9. DataTypeOK' /\ \A c \in Docs : rowAt'[c] <= DomainVersion(c)'
    BY <1>3, <1>4, <1>5, <1>8 DEF StoreInv, DataTypeOK, queueVars
  <1>10. BumpsComeLast'
    <2>1. ASSUME NEW c \in Docs, bumpAt'[c] # 0
          PROVE  Complete(c)' /\ bumpAt'[c] > rowAt'[c]
      <3>1. Complete(c) /\ bumpAt[c] > rowAt[c]
        BY <1>4, <2>1 DEF StoreInv, BumpsComeLast
      <3>2. c = d => rows' = rows
        BY <1>2, <1>5, <3>1 DEF Complete
      <3>3. rowAt'[c] = rowAt[c]
        BY <1>4, <3>2 DEF StoreInv, DataTypeOK
      <3> QED
        BY <1>4, <1>6, <3>1, <3>3, CompleteStays
    <2> QED
      BY <2>1 DEF BumpsComeLast
  <1>11. Progress(w)'
    <2>1. \A i \in 1..(n - 1) : Stored(d, i)'
      BY <1>2, <1>6, StoredStays
    <2>2. CASE /\ PutRow(<<d, n>>)
               /\ worker' = [worker EXCEPT
                    ![w].phase = IF LastChunk(w) THEN "bump" ELSE "point",
                    ![w].next = IF LastChunk(w) THEN @ ELSE @ + 1]
      <3>1. Stored(d, n)'
        <4>1. HasHash(Chunks[d][n])'
          BY <1>3, <2>2 DEF PutRow, HasHash, HashOf
        <4>2. HasPoint(<<d, n>>)'
          BY <1>2, <1>4 DEF HasPoint
        <4> QED
          BY <4>1, <4>2 DEF Stored
      <3>2. CASE LastChunk(w)
        <4>1. worker'[w].phase = "bump" /\ Job(w)' = d /\ worker'[w].next = n
          BY <1>1, <2>2, <3>2, AdvanceEffect DEF QueueInv, Job
        <4>2. n = Len(Chunks[d])
          BY <1>1, <3>2 DEF LastChunk
        <4>3. \A i \in 1..Len(Chunks[d]) : Stored(d, i)'
          <5>1. \A i \in 1..Len(Chunks[d]) : i \in 1..(n - 1) \/ i = n
            BY <1>2, <4>2
          <5> QED
            BY <2>1, <3>1, <5>1
        <4>4. Complete(d)'
          BY <4>3 DEF Complete, Stored
        <4> QED
          BY <1>2, <4>1, <4>4 DEF Progress, At, ValidDomain
      <3>3. CASE ~LastChunk(w)
        <4>1. worker'[w].phase = "point" /\ Job(w)' = d /\ worker'[w].next = n + 1
          BY <1>1, <2>2, <3>3, AdvanceEffect DEF QueueInv, Job
        <4>2. n # Len(Chunks[d]) /\ Len(Chunks[d]) \in Nat
          BY <1>1, <3>3, StoreAssumption DEF LastChunk
        <4>3. n + 1 \in 1..Len(Chunks[d]) /\ n + 1 - 1 = n
          BY <1>2, <4>2
        <4>4. \A i \in 1..n : Stored(d, i)'
          <5>1. \A i \in 1..n : i \in 1..(n - 1) \/ i = n
            BY <1>2
          <5> QED
            BY <2>1, <3>1, <5>1
        <4> QED
          BY <4>1, <4>3, <4>4 DEF Progress, At
      <3> QED
        BY <3>2, <3>3
    <2>3. ASSUME NEW p \in {"failed", "hung"}, Goto(w, p) PROVE Progress(w)'
      <3>1. worker'[w].phase = p /\ Job(w)' = d /\ worker'[w].next = n
        BY <1>1, <2>3, GotoEffect DEF QueueInv, Phases, Job
      <3> QED
        BY <1>2, <3>1 DEF Progress, At
    <2> QED
      BY <1>1, <2>2, <2>3 DEF UpsertChunk, Chunk
  <1>12. \A c \in Docs : status'[c] = "indexed" => bumpAt'[c] # 0
    BY <1>4 DEF StoreInv
  <1> QED
    BY <1>2, <1>4, <1>6, <1>7, <1>9, <1>10, <1>11, <1>12, WorkKeeps DEF Continues, queueVars

(* The version of the domain: the first INCR for a document is the one that
   counts. *)
LEMMA IncrEffect ==
    ASSUME StoreInv, NEW d \in Docs, ValidDomain(d), Incr(d), UNCHANGED <<rowAt, storeVars>>
    PROVE  /\ version' \in [Domains -> Nat] /\ bumpAt' \in [Docs -> Nat]
           /\ \A c \in Docs : DomainVersion(c) <= DomainVersion(c)'
           /\ \A c \in Docs \ {d} : bumpAt'[c] = bumpAt[c]
           /\ bumpAt[d] # 0 => bumpAt'[d] = bumpAt[d]
           /\ bumpAt'[d] # 0 /\ bumpAt'[d] > rowAt'[d]
  <1>1. PICK m \in Domains : m = DomainOf[d]
    BY DEF ValidDomain
  <1>2. /\ version \in [Domains -> Nat] /\ bumpAt \in [Docs -> Nat] /\ rowAt[d] \in Nat
        /\ rowAt[d] <= version[m] /\ version[m] \in Nat
    BY <1>1 DEF StoreInv, DataTypeOK, DomainVersion
  <1>3. /\ version' = [version EXCEPT ![m] = @ + 1]
        /\ bumpAt' = [bumpAt EXCEPT ![d] = IF @ = 0 THEN version[m] + 1 ELSE @]
    BY <1>1 DEF Incr
  <1>4. version' \in [Domains -> Nat] /\ bumpAt' \in [Docs -> Nat]
    BY <1>2, <1>3
  <1>5. \A c \in Docs : DomainVersion(c) <= DomainVersion(c)'
    BY <1>2, <1>3 DEF DomainVersion, ValidDomain
  <1>6. bumpAt[d] # 0 => bumpAt[d] > rowAt[d]
    BY DEF StoreInv, BumpsComeLast
  <1> QED
    BY <1>2, <1>3, <1>4, <1>5, <1>6

(* INCR and what follows it. *)
LEMMA BumpKeeps ==
    ASSUME QueueInv, StoreInv, NEW w \in Workers, BumpVersion(w)
    PROVE  StoreInv'
  <1>1. PICK d \in Docs : d = Job(w)
    BY JobIsDoc DEF BumpVersion, At
  <1>2. /\ Continues(w) /\ ~At(w, "idle") /\ worker[w].entry \in pending
        /\ worker[w].next \in 1..Len(Chunks[d]) /\ ValidDomain(d) /\ Complete(d)
    BY <1>1, WorkKind, JobIsDoc DEF Continues, StoreInv, Progress, BumpVersion, At
  <1>3. /\ Incr(d) \/ UNCHANGED <<version, bumpAt>>
        /\ UNCHANGED <<dlq, status, rowAt, storeVars>>
    BY <1>1 DEF BumpVersion
  <1>4. /\ version' \in [Domains -> Nat] /\ bumpAt' \in [Docs -> Nat]
        /\ \A c \in Docs : DomainVersion(c) <= DomainVersion(c)'
        /\ \A c \in Docs : bumpAt[c] # 0 => bumpAt'[c] = bumpAt[c]
        /\ \A c \in Docs : bumpAt'[c] # 0 => bumpAt[c] # 0 \/ (c = d /\ bumpAt'[d] > rowAt'[d])
        /\ Incr(d) => bumpAt'[d] # 0
    <2>1. CASE Incr(d)
      BY <1>2, <1>3, <2>1, IncrEffect
    <2>2. CASE UNCHANGED <<version, bumpAt>>
      <3>1. \A c \in Docs : DomainVersion(c)' = DomainVersion(c) /\ DomainVersion(c) \in Nat
        BY <2>2 DEF DomainVersion, ValidDomain, StoreInv, DataTypeOK
      <3>2. Incr(d) => bumpAt'[d] # 0
        BY <1>2, <1>3, IncrEffect
      <3> QED
        BY <2>2, <3>1, <3>2 DEF StoreInv, DataTypeOK
    <2> QED
      BY <1>3, <2>1, <2>2
  <1>5. Grows /\ RowsHavePoints'
    BY <1>3, <1>4 DEF Grows, storeVars, StoreInv, RowsHavePoints, HasPoint
  <1>6. DataTypeOK'
    BY <1>3, <1>4 DEF StoreInv, DataTypeOK, storeVars
  <1>7. \A c \in Docs : rowAt'[c] <= DomainVersion(c)'
    <2>1. \A c \in Docs : rowAt[c] \in Nat /\ DomainVersion(c) \in Nat /\ DomainVersion(c)' \in Nat
      BY <1>4 DEF StoreInv, DataTypeOK, DomainVersion, ValidDomain
    <2> QED
      BY <1>3, <1>4, <2>1 DEF StoreInv
  <1>8. BumpsComeLast'
    BY <1>2, <1>3, <1>4, <1>5, CompleteStays DEF StoreInv, BumpsComeLast
  <1>9. Progress(w)'
    <2>1. /\ Job(w)' = d /\ worker'[w].next = worker[w].next
          /\ worker'[w].phase = "failed" \/ (worker'[w].phase \in {"done", "bump"} /\ Incr(d))
      <3>1. \/ Goto(w, "failed") \/ (Goto(w, "done") /\ Incr(d))
            \/ UNCHANGED worker /\ Incr(d) /\ At(w, "bump")
        BY <1>1 DEF BumpVersion
      <3> QED
        BY <1>1, <3>1, GotoEffect DEF QueueInv, Phases, At, Job
    <2>2. Complete(d)'
      BY <1>2, <1>5, CompleteStays
    <2> QED
      BY <1>2, <1>4, <2>1, <2>2 DEF Progress, At, ValidDomain
  <1>10. \A c \in Docs : status'[c] = "indexed" => bumpAt'[c] # 0
    BY <1>3, <1>5 DEF StoreInv, Grows
  <1> QED
    BY <1>2, <1>5, <1>6, <1>7, <1>8, <1>9, <1>10, WorkKeeps DEF Continues

-----------------------------------------------------------------------------
(* The steps that are no work on a chunk. *)

(* What is left to show of a step that writes neither store nor version. *)
LEMMA AsideKeeps ==
    ASSUME QueueInv, StoreInv, UNCHANGED <<dlq, version, histVars, storeVars>>,
           status' \in [Docs -> Statuses],
           \A d \in Docs : status'[d] = "indexed" => status[d] = "indexed",
           \A d \in Docs : Acked(d)' => Acked(d),
           \A v \in Workers : Progress(v)'
    PROVE  StoreInv'
  <1> USE DEF histVars, storeVars
  <1>1. Grows /\ RowsHavePoints' /\ \A d \in Docs : rowAt'[d] <= DomainVersion(d)'
    BY DEF Grows, StoreInv, RowsHavePoints, HasPoint, DomainVersion, ValidDomain
  <1>2. DataTypeOK'
    BY DEF StoreInv, DataTypeOK
  <1>3. BumpsComeLast'
    BY <1>1, CompleteStays DEF StoreInv, BumpsComeLast
  <1> QED
    BY <1>1, <1>2, <1>3 DEF StoreInv

(* The next entry. *)
LEMMA TakeKeeps ==
    ASSUME QueueInv, StoreInv, NEW w \in Workers, Take(w)
    PROVE  StoreInv'
  <1>1. PICK e \in EntryIds : e = stream[delivered + 1]
    BY TakeKind, TakeEffect
  <1>2. Takes(w) /\ Delivered' = Delivered \cup {e} /\ pending' = pending \cup {e}
    BY <1>1, TakeKind, TakeEffect DEF Takes
  <1>3. UNCHANGED <<dlq, status, version, histVars, storeVars>>
    BY DEF Take
  <1>4. \A v \in Workers : Progress(v)'
    <2>1. Grows
      BY <1>3 DEF Grows, histVars, storeVars
    <2>2. ASSUME NEW v \in Workers, worker'[v] = worker[v] PROVE Progress(v)'
      BY <2>1, <2>2, ProgressStays DEF StoreInv
    <2>3. ASSUME worker'[w] = NewJob(e) PROVE Progress(w)'
      <3>1. /\ worker'[w].phase = "start" /\ Job(w)' = e.doc /\ worker'[w].next = 1
            /\ e.doc \in Docs
        BY <2>3 DEF NewJob, Job, EntryIds
      <3>2. 1 \in 1..Len(Chunks[e.doc])
        BY <3>1, StoreAssumption
      <3> QED
        BY <3>1, <3>2 DEF Progress, At
    <2> QED
      BY <1>1, <1>2, <2>2, <2>3 DEF Takes, Others
  <1>5. \A d \in Docs : Acked(d)' => Acked(d)
    BY <1>2 DEF Acked
  <1> QED
    BY <1>3, <1>4, <1>5, AsideKeeps DEF StoreInv, DataTypeOK

(* The clients write a status at most, and not this one. *)
LEMMA ClientKeeps ==
    ASSUME QueueInv, StoreInv, NEW d \in Docs, AddToStream(d) \/ SetPending(d)
    PROVE  StoreInv'
  <1>1. /\ UNCHANGED <<pending, dlq, version, worker, histVars, storeVars>>
        /\ status' \in {status, [status EXCEPT ![d] = "pending"]}
    BY DEF AddToStream, SetPending, SetStatus
  <1>2. Delivered' = Delivered
    BY ClientKind, PostEffect
  <1>3. /\ status' \in [Docs -> Statuses]
        /\ \A c \in Docs : status'[c] = "indexed" => status[c] = "indexed"
    BY <1>1 DEF StoreInv, DataTypeOK, Statuses
  <1>4. \A v \in Workers : Progress(v)'
    <2>1. Grows
      BY <1>1 DEF Grows, histVars, storeVars
    <2> QED
      BY <1>1, <2>1, ProgressStays DEF StoreInv
  <1>5. \A c \in Docs : Acked(c)' => Acked(c)
    BY <1>1, <1>2 DEF Acked
  <1> QED
    BY <1>1, <1>3, <1>4, <1>5, AsideKeeps

-----------------------------------------------------------------------------
(* The theorems. *)

(* The stores are empty at the start. *)
LEMMA StoreStarts == Init => StoreInv
  <1> SUFFICES ASSUME Init PROVE StoreInv
    OBVIOUS
  <1>1. DataTypeOK /\ RowsHavePoints
    BY DEF Init, StoreInit, DataTypeOK, RowsHavePoints, Statuses
  <1>2. \A d \in Docs : rowAt[d] <= DomainVersion(d)
    <2>1. \A d \in Docs : rowAt[d] = 0 /\ DomainVersion(d) = 0
      <3>1. \A m \in Domains : version[m] = 0
        BY DEF Init
      <3>2. \A d \in Docs : rowAt[d] = 0
        BY DEF Init
      <3> QED
        BY <3>1, <3>2 DEF DomainVersion, ValidDomain
    <2> QED
      BY <2>1, 0 <= 0, Zenon
  <1>3. Delivered = {} /\ \A d \in Docs : status[d] # "indexed" /\ bumpAt[d] = 0
    BY DEF Init, Delivered, None
  <1>4. \A w \in Workers : Progress(w)
    BY DEF Init, Progress, At, Idle
  <1> QED
    BY <1>1, <1>2, <1>3, <1>4 DEF StoreInv, BumpsComeLast, Acked

(* Every step keeps the stores and what is said about them in order. *)
LEMMA StoreKept ==
    ASSUME QueueInv, StoreInv, [Next]_vars
    PROVE  StoreInv'
  <1>1. ASSUME UNCHANGED vars PROVE StoreInv'
    <2> USE <1>1 DEF vars, queueVars
    <2>1. Grows
      BY DEF Grows, histVars, storeVars
    <2>2. \A v \in Workers : Progress(v)'
      BY <2>1, ProgressStays DEF StoreInv
    <2>3. \A d \in Docs : Acked(d)' => Acked(d)
      BY DEF Acked, Delivered
    <2> QED
      BY <2>2, <2>3, AsideKeeps DEF StoreInv, DataTypeOK
  <1> QED
    BY <1>1, BeginKeeps, IndexedKeeps, EndKeeps, PointKeeps, RowKeeps, BumpKeeps,
       TakeKeeps, ClientKeeps DEF Next, ClientStep, WorkerStep

(* The invariant of queue and stores, in every reachable state. *)
THEOREM StoreInvariance == Spec => [](QueueInv /\ StoreInv)
  BY QueueStarts, QueueKept, StoreStarts, StoreKept, PTL DEF Spec

(* The types of queue and data, together. *)
LEMMA StoredTypes ==
    ASSUME QueueInv, DataTypeOK
    PROVE  TypeOK
  <1>1. pending \subseteq EntryIds
    <2>1. \A k \in 1..delivered : stream[k] \in EntryIds
      BY DEF QueueInv
    <2> QED
      BY <2>1 DEF QueueInv, Delivered
  <1> QED
    BY <1>1 DEF QueueInv, DataTypeOK, TypeOK, Worker

(* Type correctness of the queue, the workers, the stores and the versions. *)
THEOREM TypeCorrect == Spec => []TypeOK
  BY StoreInvariance, StoredTypes, PTL DEF StoreInv

(* A document that is called indexed, or an entry of which was acknowledged,
   has all of its chunks in both stores. *)
THEOREM DocumentsComplete == Spec => []IndexedIsComplete
  <1>1. StoreInv => IndexedIsComplete
    BY DEF StoreInv, BumpsComeLast, IndexedIsComplete
  <1> QED
    BY <1>1, StoreInvariance, PTL

(* The version that such a document made first is newer than its last row. *)
THEOREM VersionComesLast == Spec => []IndexedAfterBump
  <1>1. StoreInv => IndexedAfterBump
    BY DEF StoreInv, BumpsComeLast, IndexedAfterBump
  <1> QED
    BY <1>1, StoreInvariance, PTL

(* Every row has its point. *)
THEOREM PointsComeFirst == Spec => []RowsHavePoints
  BY StoreInvariance, PTL DEF StoreInv

(* Types, version and status, points and rows: all that run `ingest` checks of the
   order of the writes. *)
THEOREM IngestIsSafe == Spec => []IngestSafety
  BY TypeCorrect, VersionComesLast, PointsComeFirst, PTL DEF IngestSafety

-----------------------------------------------------------------------------
(* Who takes "indexed" away. *)

Writing == {"start", "embed", "point", "row"}
Bumping == Writing \cup {"bump"}
InPhases(e, S) == \E w \in Workers : worker[w].phase \in S /\ worker[w].entry = e

(* A document whose version was bumped has an entry whose attempt is past its
   last row. *)
BumpedInv ==
    \A d \in Docs : bumpAt[d] # 0 => \E e \in Delivered : e.doc = d /\ ~InPhases(e, Writing)

(* An attempt that is past its last row, or past its INCR, does not go back. *)
LEMMA NeverBack ==
    ASSUME QueueInv, [Next]_vars, NEW S \in {Writing, Bumping}, NEW e \in Delivered,
           ~InPhases(e, S)
    PROVE  e \in Delivered' /\ ~InPhases(e, S)'
  <1> USE DEF Writing, Bumping, At
  <1>1. ASSUME NEW w \in Workers, Takes(w) PROVE e \in Delivered' /\ ~InPhases(e, S)'
    <2>1. PICK f : f = stream[delivered + 1]
      OBVIOUS
    <2>2. f # e /\ Delivered' = Delivered \cup {f}
      BY <1>1, <2>1, TakeEffect
    <2>3. \A v \in Workers : worker'[v] = worker[v] \/ worker'[v].entry = f
      BY <1>1, <2>1 DEF Takes, NewJob, Others
    <2> QED
      BY <2>2, <2>3 DEF InPhases
  <1>2. ASSUME UNCHANGED <<stream, delivered>>,
               NEW w \in Workers, Others(w), worker'[w].entry = worker[w].entry,
               worker'[w].phase \in S => worker[w].phase \in S
        PROVE  e \in Delivered' /\ ~InPhases(e, S)'
    BY <1>2 DEF Delivered, InPhases, Others
  <1>3. ASSUME UNCHANGED worker, Delivered' = Delivered PROVE e \in Delivered' /\ ~InPhases(e, S)'
    BY <1>3 DEF InPhases
  <1>4. ASSUME NEW w \in Workers, Ends(w) PROVE e \in Delivered' /\ ~InPhases(e, S)'
    <2>1. \A v \in Workers : worker'[v].phase \in S => worker'[v] = worker[v]
      BY <1>4 DEF Ends, Others, Idle
    <2> QED
      BY <1>4, <2>1 DEF Ends, InPhases, Delivered
  <1>5. ASSUME NEW w \in Workers,
               \/ StartProcessing(w) \/ EmbedChunks(w) \/ UpsertPoint(w)
               \/ UpsertChunk(w) \/ BumpVersion(w) \/ SetIndexed(w)
        PROVE  e \in Delivered' /\ ~InPhases(e, S)'
    <2>1. /\ Others(w) /\ worker'[w].entry = worker[w].entry
          /\ UNCHANGED <<stream, delivered>>
      BY <1>5, WorkKind DEF Continues
    <2>2. CASE StartProcessing(w) \/ EmbedChunks(w) \/ UpsertPoint(w) \/ UpsertChunk(w)
      BY <1>2, <2>1, <2>2 DEF StartProcessing, EmbedChunks, UpsertPoint, UpsertChunk
    <2>3. CASE BumpVersion(w) \/ SetIndexed(w)
      <3>1. Goto(w, "done") \/ Goto(w, "ack") \/ Goto(w, "failed") \/ UNCHANGED worker
        BY <2>3 DEF BumpVersion, SetIndexed
      <3>2. worker'[w].phase \notin S \/ worker'[w] = worker[w]
        BY <3>1, GotoEffect DEF QueueInv, Phases
      <3> QED
        BY <1>2, <2>1, <3>2
    <2> QED
      BY <1>5, <2>2, <2>3
  <1>6. ASSUME NEW d \in Docs, AddToStream(d) \/ SetPending(d)
        PROVE  e \in Delivered' /\ ~InPhases(e, S)'
    BY <1>3, <1>6, ClientKind, PostEffect DEF Posts
  <1>7. ASSUME NEW w \in Workers, Ack(w) \/ DeadLetter(w) \/ Crash(w)
        PROVE  e \in Delivered' /\ ~InPhases(e, S)'
    <2>1. Ends(w) \/ UNCHANGED <<worker, stream, delivered>>
      BY <1>7, EndKind, LetterKind DEF DeadLetter
    <2> QED
      BY <1>3, <1>4, <2>1 DEF Delivered
  <1>8. ASSUME UNCHANGED vars PROVE e \in Delivered' /\ ~InPhases(e, S)'
    BY <1>3, <1>8 DEF vars, queueVars, Delivered
  <1> QED
    BY <1>1, <1>5, <1>6, <1>7, <1>8, TakeKind DEF Next, ClientStep, WorkerStep

(* What the INCR of a document leaves behind. *)
LEMMA BumpedKept ==
    ASSUME QueueInv, QueueInv', StoreInv, BumpedInv, [Next]_vars
    PROVE  BumpedInv'
  <1>1. ASSUME NEW d \in Docs, bumpAt'[d] # 0, bumpAt[d] = 0
        PROVE  \E e \in Delivered' : e.doc = d /\ ~InPhases(e, Writing)'
    <2>1. PICK w \in Workers : BumpVersion(w) /\ Incr(Job(w))
      <3>1. bumpAt' # bumpAt
        BY <1>1
      <3> QED
        BY <3>1 DEF Next, ClientStep, WorkerStep, vars, histVars, AddToStream, SetPending,
           Take, StartProcessing, EmbedChunks, UpsertPoint, UpsertChunk, BumpVersion,
           SetIndexed, Ack, DeadLetter, Crash
    <2>2. PICK e : e = worker[w].entry
      OBVIOUS
    <2>3. d = Job(w) /\ e.doc = d /\ e \in Delivered /\ ~At(w, "idle")
      <3>1. Job(w) \in Docs /\ e \in Delivered /\ ~At(w, "idle")
        BY <2>1, <2>2, JobIsDoc DEF BumpVersion, At
      <3>2. d = Job(w)
        BY <1>1, <2>1, <3>1 DEF Incr, StoreInv, DataTypeOK
      <3> QED
        BY <2>2, <3>1, <3>2 DEF Job
    <2>4. ~InPhases(e, Writing)
      BY <2>1, <2>2 DEF InPhases, QueueInv, BumpVersion, At, Writing
    <2> QED
      BY <2>3, <2>4, NeverBack
  <1>2. ASSUME NEW d \in Docs, bumpAt[d] # 0
        PROVE  \E e \in Delivered' : e.doc = d /\ ~InPhases(e, Writing)'
    BY <1>2, NeverBack DEF BumpedInv
  <1> QED
    BY <1>1, <1>2 DEF BumpedInv

(* Once indexed, a status changes only because its enqueuer was late, or because the
   XADD of the document was sent again, as long as a first failure goes to the dead
   letters. *)
THEOREM IndexedStays ==
    ASSUME MaxRetries > 1
    PROVE  Spec => IndexedLostOnlyToLatecomers
  <1>1. Init => BumpedInv
    BY DEF Init, BumpedInv
  <1>2. Spec => []BumpedInv
    BY <1>1, BumpedKept, StoreInvariance, PTL DEF Spec
  <1>3. ASSUME QueueInv, StoreInv, BumpedInv, [Next]_vars, NEW d \in Docs,
               status[d] = "indexed", status'[d] # "indexed"
        PROVE  \/ client[d] = "added" /\ status'[d] = "pending"
               \/ SentTwice(d) /\ status'[d] = "processing"
    <2>1. \A c \in Docs, s \in Statuses :
              status' = [status EXCEPT ![c] = s] => c = d /\ status'[d] = s
      BY <1>3 DEF StoreInv, DataTypeOK
    <2>2. status' # status
      BY <1>3
    <2>3. ASSUME NEW c \in Docs, SetPending(c)
          PROVE  client[d] = "added" /\ status'[d] = "pending"
      BY <2>1, <2>2, <2>3 DEF SetPending, SetStatus, Statuses
    <2>4. ASSUME NEW w \in Workers, StartProcessing(w)
          PROVE  SentTwice(d) /\ status'[d] = "processing"
      <3>1. worker[w].entry \in Delivered /\ Job(w) \in Docs
        BY <1>3, <2>4, JobIsDoc DEF StartProcessing, At
      <3>2. Job(w) = d /\ status'[d] = "processing"
        BY <2>1, <2>2, <2>4, <3>1 DEF StartProcessing, SetStatus, Statuses
      <3>3. PICK e \in Delivered : e.doc = d /\ ~InPhases(e, Writing)
        BY <1>3 DEF StoreInv, BumpedInv
      <3>4. e # worker[w].entry
        BY <2>4, <3>3 DEF InPhases, StartProcessing, At, Writing
      <3>5. Delivered \subseteq Entries
        BY <1>3, Places DEF QueueInv, Delivered, Entries
      <3> QED
        BY <3>1, <3>2, <3>3, <3>4, <3>5 DEF SentTwice, Job
    <2>5. ASSUME NEW w \in Workers, SetIndexed(w) PROVE FALSE
      <3>1. Job(w) \in Docs
        BY <1>3, <2>5, JobIsDoc DEF SetIndexed, At
      <3> QED
        BY <1>3, <2>1, <2>2, <2>5, <3>1 DEF SetIndexed, SetStatus, Statuses
    <2>6. ASSUME NEW w \in Workers, DeadLetter(w) PROVE FALSE
      BY <2>2, <2>6, IngestAssumption DEF DeadLetter, SendToDLQ, RetryCount
    <2> QED
      BY <1>3, <2>2, <2>3, <2>4, <2>5, <2>6 DEF Next, ClientStep, WorkerStep, vars, queueVars,
         AddToStream, Take, EmbedChunks, UpsertPoint, UpsertChunk, BumpVersion, Ack, Crash
  <1>4. QueueInv /\ StoreInv /\ BumpedInv /\ [Next]_vars =>
            [\A d \in Docs : status[d] = "indexed" /\ status'[d] # "indexed" =>
                \/ client[d] = "added" /\ status'[d] = "pending"
                \/ SentTwice(d) /\ status'[d] = "processing"]_vars
    BY <1>3
  <1> QED
    BY <1>2, <1>4, StoreInvariance, PTL DEF Spec, IndexedLostOnlyToLatecomers
=============================================================================
