------------------------------- MODULE Ingest -------------------------------
(***************************************************************************)
(* The asynchronous ingest pipeline (internal/ingest): Enqueue puts a job  *)
(* on the Redis stream and then writes its status; IngestWorker.Run takes  *)
(* jobs through a consumer group, processJob writes their chunks to Qdrant *)
(* and PostgreSQL, bumps the domain's retrieval version and writes the     *)
(* final status; sendToDLQ takes the failures.                             *)
(*                                                                         *)
(* Every call to Redis, the embedding service, Qdrant or PostgreSQL is one *)
(* step and can fail, with or without having had its effect (a lost answer *)
(* looks the same).  go-redis sends a command again whose answer is lost   *)
(* (cmd/wrapper/main.go:33 leaves MaxRetries at its default of 3), which   *)
(* can have its effect twice.  The calls of Qdrant and PostgreSQL have no  *)
(* deadline (qdrant.go:46; worker.go:143, 156) and may never return.  A    *)
(* worker can crash between any two of its steps; the restarted pod        *)
(* resumes Run, which asks the group for new entries (">") only.           *)
(***************************************************************************)
EXTENDS ChunkStore

CONSTANTS
    Workers,        \* ingest-worker pods
    MaxRetries,     \* the 3 of sendToDLQ
    MayFail,        \* whether calls can fail on their own
    MayHang,        \* whether the calls of the stores can hang
    MayCrash        \* whether workers can crash

ASSUME IngestAssumption ==
    /\ MaxRetries \in Nat \ {0}
    /\ MayFail \in BOOLEAN
    /\ MayHang \in BOOLEAN
    /\ MayCrash \in BOOLEAN

VARIABLES
    client,         \* per document: how far its enqueuer got
    stream,         \* caw:ingest:stream, its entries in the order of XADD
    resends,        \* history: commands sent again so far, up to MaxResends
    delivered,      \* how many entries the group has handed out
    pending,        \* the group's pending entries list: handed out, not acknowledged
    dlq,            \* caw:ingest:dlq
    status,         \* caw:ingest:status:{id}
    version,        \* caw:retrieval:{domain}:version
    worker,         \* per worker: its phase, its entry, the next chunk
    rowAt,          \* history: the domain's version when a document last wrote a row
    bumpAt          \* history: the version a document's first INCR made, 0 before

queueVars == <<client, stream, resends, delivered, pending, dlq>>
histVars == <<rowAt, bumpAt>>
vars == <<queueVars, status, version, worker, histVars, storeVars>>

None == "none"
Phases == {"idle", "start", "embed", "point", "row", "bump", "done", "ack", "failed", "hung"}
Statuses == {None, "pending", "processing", "indexed", "failed"}

NoEntry == [doc |-> None, no |-> 0]
Job(w) == worker[w].entry.doc
Chunk(w) == <<Job(w), worker[w].next>>
Point(w) == <<worker[w].entry, worker[w].next>>
At(w, phase) == worker[w].phase = phase
Goto(w, phase) == worker' = [worker EXCEPT ![w].phase = phase]
Idle == [phase |-> "idle", entry |-> NoEntry, next |-> 1]
Release(w) == worker' = [worker EXCEPT ![w] = Idle]
SetStatus(d, s) == status' = [status EXCEPT ![d] = s]
DomainVersion(d) == IF ValidDomain(d) THEN version[DomainOf[d]] ELSE 0

Entries == {stream[k] : k \in 1..Len(stream)}
Delivered == {stream[k] : k \in 1..delivered}
Held == {worker[w].entry : w \in {v \in Workers : ~At(v, "idle")}}

Init ==
    /\ StoreInit
    /\ client = [d \in Docs |-> "new"]
    /\ stream = <<>>
    /\ resends = 0
    /\ delivered = 0
    /\ pending = {}
    /\ dlq = {}
    /\ status = [d \in Docs |-> None]
    /\ version = [m \in Domains |-> 0]
    /\ worker = [w \in Workers |-> Idle]
    /\ rowAt = [d \in Docs |-> 0]
    /\ bumpAt = [d \in Docs |-> 0]

-----------------------------------------------------------------------------
(* A command has had its effect and goes again.  XACK, XREADGROUP and the XADD
   of the dead letters need no such step: again, they change nothing more. *)
Once == UNCHANGED resends
Again == resends < MaxResends /\ resends' = resends + 1

(* Enqueue: XADD, then SET pending. *)

NewEntry(d) == [doc |-> d, no |-> resends]

AddToStream(d) ==
    /\ client[d] = "new"
    /\ \/ /\ stream' = Append(stream, NewEntry(d))
          /\ \/ Once /\ client' = [client EXCEPT ![d] = "added"]
             \/ Again /\ UNCHANGED client
       \/ /\ MayFail /\ Once
          /\ stream' \in {stream, Append(stream, NewEntry(d))}
          /\ client' = [client EXCEPT ![d] = "refused"]
    /\ UNCHANGED <<delivered, pending, dlq, status, version, worker, histVars, storeVars>>

SetPending(d) ==
    /\ client[d] = "added"
    /\ \/ /\ SetStatus(d, "pending")
          /\ \/ Once /\ client' = [client EXCEPT ![d] = "accepted"]
             \/ Again /\ UNCHANGED client
       \/ /\ MayFail /\ Once
          /\ SetStatus(d, "pending") \/ UNCHANGED status
          /\ client' = [client EXCEPT ![d] = "refused"]
    /\ UNCHANGED <<stream, delivered, pending, dlq, version, worker, histVars, storeVars>>

-----------------------------------------------------------------------------
(* Run and processJob. *)

NewJob(e) == [phase |-> "start", entry |-> e, next |-> 1]

(* Slip: entries that were handed out and never acknowledged come again. *)
TakeAgain(w) ==
    /\ At(w, "idle")
    /\ \E e \in pending \union (IF delivered < Len(stream) THEN {stream[delivered + 1]} ELSE {}) :
          /\ delivered' = IF e \in pending THEN delivered ELSE delivered + 1
          /\ pending' = pending \union {e}
          /\ worker' = [worker EXCEPT ![w] = NewJob(e)]
    /\ UNCHANGED <<client, stream, resends, dlq, status, version, histVars, storeVars>>

(* XREADGROUP with ">" and Count 1.  When its answer is lost the entry has
   been handed out all the same. *)
Take(w) ==
    LET e == stream[delivered + 1] IN
    /\ At(w, "idle")
    /\ delivered < Len(stream)
    /\ delivered' = delivered + 1
    /\ pending' = pending \union {e}
    /\ \/ worker' = [worker EXCEPT ![w] = NewJob(e)]
       \/ MayFail /\ UNCHANGED worker
    /\ UNCHANGED <<client, stream, resends, dlq, status, version, histVars, storeVars>>

StartProcessing(w) ==
    /\ At(w, "start")
    /\ \/ /\ SetStatus(Job(w), "processing")
          /\ (Once /\ Goto(w, "embed")) \/ (Again /\ UNCHANGED worker)
       \/ /\ MayFail /\ Once
          /\ SetStatus(Job(w), "processing") \/ UNCHANGED status
          /\ Goto(w, "failed")
    /\ UNCHANGED <<client, stream, delivered, pending, dlq, version, histVars, storeVars>>

(* All chunks are embedded before any is written, four at a time; wg.Wait
   makes it one step.  One failed chunk fails the job. *)
EmbedChunks(w) ==
    /\ At(w, "embed")
    /\ \/ Goto(w, "point")
       \/ MayFail /\ Goto(w, "failed")
    /\ UNCHANGED <<queueVars, status, version, histVars, storeVars>>

UpsertPoint(w) ==
    /\ At(w, "point")
    /\ \/ ValidDomain(Job(w)) /\ PutPoint(Point(w)) /\ Goto(w, "row")
       \/ /\ UNCHANGED points \/ (ValidDomain(Job(w)) /\ PutPoint(Point(w)))
          /\ \/ (MayFail \/ ~ValidDomain(Job(w))) /\ Goto(w, "failed")
             \/ MayHang /\ ValidDomain(Job(w)) /\ Goto(w, "hung")
    /\ UNCHANGED <<queueVars, status, version, histVars, rows>>

(* Slip: the loop over the chunks ends one early. *)
LastChunkTooEarly(w) == worker[w].next + 1 >= Len(Chunks[Job(w)])

LastChunk(w) == worker[w].next = Len(Chunks[Job(w)])

(* Slip: the error of pg.UpsertChunk is dropped. *)
UpsertChunkUnchecked(w) ==
    /\ At(w, "row")
    /\ PutRow(Chunk(w)) \/ UNCHANGED rows
    /\ rowAt' = IF rows' = rows THEN rowAt
                ELSE [rowAt EXCEPT ![Job(w)] = DomainVersion(Job(w))]
    /\ worker' = [worker EXCEPT ![w].phase = IF LastChunk(w) THEN "bump" ELSE "point",
                                ![w].next = IF LastChunk(w) THEN @ ELSE @ + 1]
    /\ UNCHANGED <<queueVars, status, version, bumpAt, points>>

UpsertChunk(w) ==
    /\ At(w, "row")
    /\ \/ /\ RowAccepted(Chunk(w))
          /\ PutRow(Chunk(w))
          /\ worker' = [worker EXCEPT
                ![w].phase = IF LastChunk(w) THEN "bump" ELSE "point",
                ![w].next = IF LastChunk(w) THEN @ ELSE @ + 1]
       \/ /\ UNCHANGED rows \/ (RowAccepted(Chunk(w)) /\ PutRow(Chunk(w)))
          /\ \/ (MayFail \/ ~RowAccepted(Chunk(w))) /\ Goto(w, "failed")
             \/ MayHang /\ Goto(w, "hung")
    /\ rowAt' = IF rows' = rows THEN rowAt
                ELSE [rowAt EXCEPT ![Job(w)] = DomainVersion(Job(w))]
    /\ UNCHANGED <<queueVars, status, version, bumpAt, points>>

Incr(d) ==
    /\ version' = [version EXCEPT ![DomainOf[d]] = @ + 1]
    /\ bumpAt' = [bumpAt EXCEPT ![d] = IF @ = 0 THEN version[DomainOf[d]] + 1 ELSE @]

(* Slip: the error of INCR is dropped. *)
BumpVersionUnchecked(w) ==
    /\ At(w, "bump")
    /\ Incr(Job(w)) \/ (MayFail /\ UNCHANGED <<version, bumpAt>>)
    /\ Goto(w, "done")
    /\ UNCHANGED <<queueVars, status, rowAt, storeVars>>

BumpVersion(w) ==
    /\ At(w, "bump")
    /\ \/ /\ Incr(Job(w))
          /\ (Once /\ Goto(w, "done")) \/ (Again /\ UNCHANGED worker)
       \/ /\ MayFail /\ Once
          /\ Incr(Job(w)) \/ UNCHANGED <<version, bumpAt>>
          /\ Goto(w, "failed")
    /\ UNCHANGED <<client, stream, delivered, pending, dlq, status, rowAt, storeVars>>

SetIndexed(w) ==
    /\ At(w, "done")
    /\ \/ /\ SetStatus(Job(w), "indexed")
          /\ (Once /\ Goto(w, "ack")) \/ (Again /\ UNCHANGED worker)
       \/ /\ MayFail /\ Once
          /\ SetStatus(Job(w), "indexed") \/ UNCHANGED status
          /\ Goto(w, "failed")
    /\ UNCHANGED <<client, stream, delivered, pending, dlq, version, histVars, storeVars>>

(* XACK; its error is dropped. *)
Ack(w) ==
    /\ At(w, "ack")
    /\ \/ pending' = pending \ {worker[w].entry}
       \/ MayFail /\ UNCHANGED pending
    /\ Release(w)
    /\ UNCHANGED <<client, stream, resends, delivered, dlq, status, version, histVars, storeVars>>

(* sendToDLQ with the retry count the job came with: Enqueue leaves it 0. *)
RetryCount(e) == 0

SendToDLQ(e) ==
    LET retry == RetryCount(e) + 1 IN
    IF retry >= MaxRetries
    THEN SetStatus(e.doc, "failed") /\ UNCHANGED dlq
    ELSE dlq' = dlq \union {[entry |-> e, retry |-> retry]} /\ UNCHANGED status

(* Slip: the worker does not go back to its loop. *)
DeadLetterAndHang(w) ==
    /\ At(w, "failed")
    /\ SendToDLQ(worker[w].entry)
    /\ UNCHANGED <<client, stream, resends, delivered, pending, version, worker, histVars, storeVars>>

(* No XACK follows, and the error of sendToDLQ is dropped. *)
DeadLetter(w) ==
    /\ At(w, "failed")
    /\ \/ /\ SendToDLQ(worker[w].entry)
          /\ (Once /\ Release(w)) \/ (Again /\ UNCHANGED worker)
       \/ /\ MayFail /\ Once
          /\ UNCHANGED <<dlq, status>>
          /\ Release(w)
    /\ UNCHANGED <<client, stream, delivered, pending, version, histVars, storeVars>>

Crash(w) ==
    /\ MayCrash
    /\ ~At(w, "idle")
    /\ Release(w)
    /\ UNCHANGED <<queueVars, status, version, histVars, storeVars>>

ClientStep == \E d \in Docs : AddToStream(d) \/ SetPending(d)

WorkerStep(w) ==
    \/ Take(w)
    \/ StartProcessing(w)
    \/ EmbedChunks(w)
    \/ UpsertPoint(w)
    \/ UpsertChunk(w)
    \/ BumpVersion(w)
    \/ SetIndexed(w)
    \/ Ack(w)
    \/ DeadLetter(w)

Next ==
    \/ ClientStep
    \/ \E w \in Workers : WorkerStep(w) \/ Crash(w)

Spec == Init /\ [][Next]_vars

(* A worker is a loop: it keeps moving, if not for the calls of the stores
   that hang, after which only a restart of the pod helps.  The calls of Redis
   and of the embedding service have timeouts.  An enqueuer that added its
   entry goes on to the status. *)
FairSpec ==
    /\ Spec
    /\ \A w \in Workers : WF_vars(WorkerStep(w))
    /\ \A d \in Docs : WF_vars(SetPending(d))

-----------------------------------------------------------------------------
TypeOK ==
    /\ points \subseteq PointIds
    /\ rows \subseteq Rows
    /\ client \in [Docs -> {"new", "added", "accepted", "refused"}]
    /\ stream \in Seq(EntryIds)
    /\ resends \in 0..MaxResends
    /\ delivered \in 0..Len(stream)
    /\ pending \subseteq EntryIds
    /\ dlq \subseteq [entry : EntryIds, retry : 1..MaxRetries]
    /\ status \in [Docs -> Statuses]
    /\ version \in [Domains -> Nat]
    /\ worker \in [Workers ->
          [phase : Phases, entry : EntryIds \union {NoEntry}, next : Nat \ {0}]]
    /\ rowAt \in [Docs -> Nat]
    /\ bumpAt \in [Docs -> Nat]

(* Every chunk of d is in PostgreSQL, under d or under the document that
   brought the same content first, and has a point of its own. *)
Complete(d) ==
    \A i \in 1..Len(Chunks[d]) : HasHash(Chunks[d][i]) /\ HasPoint(<<d, i>>)

Acked(d) == \E e \in Delivered \ pending : e.doc = d

(* processJob returns at the first error: a document reported as indexed, or
   whose entry was acknowledged, has all of its chunks in both stores. *)
IndexedIsComplete == \A d \in Docs : status[d] = "indexed" \/ Acked(d) => Complete(d)

(* INCR comes after the last write (worker.go:163), so a retriever that read
   the version before a document's rows cannot keep its answer once the
   document is reported as indexed. *)
IndexedAfterBump ==
    \A d \in Docs : status[d] = "indexed" \/ Acked(d) => bumpAt[d] > rowAt[d]

(* Qdrant first, then PostgreSQL: a row the full-text search can return always
   has its vector. *)
RowsHavePoints == \A r \in rows : HasPoint(r.chunk)

(* Only new entries are asked for: an entry has at most one attempt, made by
   one worker (worker.go:188-194).  A document may have several entries. *)
OneAttempt ==
    [][\A w \in Workers : At(w, "idle") /\ ~At(w, "idle")' =>
           worker'[w].entry \notin Delivered \union Held]_vars

SentTwice(d) == \E e, f \in Entries : e # f /\ e.doc = d /\ f.doc = d

(* Once indexed, a status changes only because its own enqueuer was late with
   "pending" (enqueue.go:44), or because the XADD was sent again and another
   attempt at the document begins (worker.go:84). *)
IndexedLostOnlyToLatecomers ==
    [][\A d \in Docs : status[d] = "indexed" /\ status'[d] # "indexed" =>
           \/ client[d] = "added" /\ status'[d] = "pending"
           \/ SentTwice(d) /\ status'[d] = "processing"]_vars

(* Crashes and failures stop neither the queue nor a worker: an entry of the
   stream is handed out, and whoever gets it does not keep it for ever, unless
   a call of a store hangs: its own worker's, or every worker's
   (worker.go:143-158).  The worker is what is freed; that the job is done is
   not said, as nobody takes up a job whose worker crashed. *)
Stuck(e) ==
    \/ \E w \in Workers : At(w, "hung") /\ worker[w].entry = e
    \/ \A w \in Workers : At(w, "hung")

JobsEnd ==
    \A e \in EntryIds : (e \in Entries ~> e \in Delivered \ Held) \/ <>[]Stuck(e)

(* The refinement: the life of a job, which is an entry of the stream, read off
   the stream and the workers. *)
JobOf(e) ==
    CASE e \notin Entries -> "absent"
      [] e \in Entries \ Delivered -> "queued"
      [] e \in Held -> "running"
      [] e \in Delivered \ (Held \union pending) -> "done"
      [] OTHER -> "abandoned"

jobs == [e \in EntryIds |-> JobOf(e)]

Lifecycle == INSTANCE JobLifecycle WITH Jobs <- EntryIds, job <- jobs
ImplementsLifecycle == Lifecycle!Spec

(* The order of the writes of a job, in one: types, the point before the row, and
   both before the version and the status (worker.go:126-167), whatever fails or
   crashes in between. *)
IngestSafety ==
    /\ TypeOK
    /\ IndexedAfterBump
    /\ RowsHavePoints
=============================================================================
