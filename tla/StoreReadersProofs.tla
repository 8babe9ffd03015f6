------------------------- MODULE StoreReadersProofs -------------------------
(***************************************************************************)
(* Proofs about the two readers of the stores that the ingest workers      *)
(* write: the reconciler, which also deletes, and retrieval, which keeps   *)
(* its answers.  Both run beside the workers without a lock; what is       *)
(* proved holds for any interleaving with them, any documents, domains,    *)
(* readers and pages, and any calls that fail.                             *)
(***************************************************************************)
EXTENDS Reconciler, Retrieval, IngestProofs, FiniteSetTheorems, WellFoundedInduction

-----------------------------------------------------------------------------
(* The reconciler.  It breaks the order "point before row" that StoreInv needs,
   so what the workers still respect beside it is stated anew: the point of a
   chunk is written in its turn, and once. *)

Written == points \cup purged

WritesInTurn(w) ==
    LET e == worker[w].entry
        n == worker[w].next
    IN  ~At(w, "idle") =>
        /\ n \in 1..Len(Chunks[e.doc])
        /\ worker[w].phase \in {"row", "bump"} => ValidDomain(e.doc)
        /\ worker[w].phase \in {"start", "embed", "point"} =>
               \A i \in 1..Len(Chunks[e.doc]) : <<e, i>> \in Written => i < n
        /\ At(w, "row") =>
               /\ <<e, n>> \in Written
               /\ \A i \in 1..Len(Chunks[e.doc]) : <<e, i>> \in Written => i <= n

WrittenInv ==
    /\ \A p \in Written : p[1] \in Delivered
    /\ \A w \in Workers : WritesInTurn(w)
    /\ \A p \in points : ValidDomain(p[1].doc)

Run == [phase : {"idle", "scroll", "lookup"}, todo : SUBSET Domains,
        domain : Domains \cup {None}, offset : Nat, next : Nat,
        page : SUBSET PointIds, orphans : SUBSET PointIds, old : SUBSET PointIds]

(* A point that was there when the run began, and still is, has a row, or the
   run has yet to look at it or to delete it. *)
Ahead(p) ==
    \/ DomainOf[p[1].doc] \in rec.todo
    \/ rec.phase = "scroll" /\ InDomain(p, rec.domain) /\ Rank[p] >= rec.offset
    \/ /\ rec.phase = "lookup" /\ InDomain(p, rec.domain)
       /\ p \in rec.page \cup rec.orphans \/ (rec.next # NoMore /\ Rank[p] >= rec.next)

CursorInv ==
    rec.phase # "idle" =>
        \A p \in rec.old : p \in Written /\ (p \in points => HasQdrantPoint(p) \/ Ahead(p))

(* The invariant of the stores beside the reconciler. *)
RecInv ==
    /\ DataTypeOK /\ rec \in Run /\ purged \subseteq PointIds /\ aborts \in 0..MaxAborts
    /\ WrittenInv
    /\ RowsHadPoints
    /\ CursorInv

(* What is left to show of a step of w: its own work.  No other worker has its
   entry. *)
LEMMA WorkInTurn ==
    ASSUME QueueInv, WrittenInv, NEW w \in Workers, ~At(w, "idle"), Others(w),
           UNCHANGED <<stream, delivered>>,
           Written \subseteq Written', Written' \subseteq Written \cup {Point(w)},
           \A p \in points' : ValidDomain(p[1].doc),
           WritesInTurn(w)'
    PROVE  WrittenInv'
  <1>1. Delivered' = Delivered
    BY DEF Delivered
  <1>2. ASSUME NEW p \in Written' PROVE p[1] \in Delivered'
    <2>1. p = Point(w) => p[1] \in Delivered
      BY JobIsDoc DEF Point
    <2> QED
      BY <1>1, <1>2, <2>1 DEF WrittenInv
  <1>3. ASSUME NEW v \in Workers \ {w} PROVE WritesInTurn(v)'
    <2>1. worker'[v] = worker[v]
      BY DEF Others
    <2>2. ~At(v, "idle") => worker[v].entry # worker[w].entry
      BY DEF QueueInv
    <2>3. ASSUME ~At(v, "idle"), NEW i, <<worker[v].entry, i>> \in Written'
          PROVE  <<worker[v].entry, i>> \in Written
      BY <2>2, <2>3 DEF Point
    <2>4. WritesInTurn(v)
      BY DEF WrittenInv
    <2> QED
      BY <2>1, <2>3, <2>4 DEF WritesInTurn, ValidDomain, At
  <1>4. \A p \in points' : ValidDomain(p[1].doc)'
    BY DEF ValidDomain
  <1> QED
    BY <1>2, <1>3, <1>4 DEF WrittenInv

(* The work of w that writes nothing. *)
LEMMA TurnStays ==
    ASSUME WrittenInv, NEW w \in Workers, UNCHANGED <<points, purged>>,
           worker'[w].entry = worker[w].entry, worker'[w].next = worker[w].next,
           ~At(w, "idle"),
           \/ worker'[w].phase = worker[w].phase
           \/ worker'[w].phase \in {"embed", "point"} /\ worker[w].phase \in {"start", "embed"}
           \/ worker'[w].phase \in {"done", "ack", "failed", "hung"}
    PROVE  WritesInTurn(w)'
  BY DEF WrittenInv, WritesInTurn, Written, ValidDomain, At

(* Every step of the workers and their clients keeps the chunks in turn. *)
LEMMA WritesStayInTurn ==
    ASSUME QueueInv, WrittenInv, [Next]_vars, UNCHANGED purged
    PROVE  WrittenInv'
  <1>1. ASSUME NEW d \in Docs, AddToStream(d) \/ SetPending(d) PROVE WrittenInv'
    <2>1. Delivered' = Delivered /\ UNCHANGED <<worker, points>>
      BY <1>1, ClientKind, PostEffect DEF AddToStream, SetPending, storeVars
    <2> QED
      BY <2>1 DEF WrittenInv, WritesInTurn, Written, At, ValidDomain
  <1>2. ASSUME NEW w \in Workers, Take(w) PROVE WrittenInv'
    <2>1. PICK e \in EntryIds : e = stream[delivered + 1]
      BY <1>2, TakeKind, TakeEffect
    <2>2. Takes(w) /\ Delivered' = Delivered \cup {e} /\ e \notin Delivered /\ UNCHANGED points
      BY <1>2, <2>1, TakeKind, TakeEffect DEF Take, storeVars
    <2>3. Written' = Written /\ \A i : <<e, i>> \notin Written
      BY <2>2 DEF WrittenInv, Written
    <2>4. ASSUME NEW v \in Workers, worker'[v] = worker[v] PROVE WritesInTurn(v)'
      BY <2>3, <2>4 DEF WrittenInv, WritesInTurn, At, ValidDomain
    <2>5. ASSUME worker'[w] = NewJob(e) PROVE WritesInTurn(w)'
      <3>1. worker'[w].phase = "start" /\ worker'[w].entry = e /\ worker'[w].next = 1
        BY <2>5 DEF NewJob
      <3>2. 1 \in 1..Len(Chunks[e.doc])
        BY StoreAssumption DEF EntryIds
      <3> QED
        BY <2>3, <3>1, <3>2 DEF WritesInTurn, At
    <2>6. \A v \in Workers : WritesInTurn(v)'
      BY <2>1, <2>2, <2>4, <2>5 DEF Takes, Others
    <2> QED
      BY <2>2, <2>3, <2>6 DEF WrittenInv, ValidDomain
  <1>3. ASSUME NEW w \in Workers,
               StartProcessing(w) \/ EmbedChunks(w) \/ BumpVersion(w) \/ SetIndexed(w)
        PROVE  WrittenInv'
    <2>1. Continues(w) /\ UNCHANGED points
      BY <1>3, WorkKind
         DEF StartProcessing, EmbedChunks, BumpVersion, SetIndexed, storeVars
    <2>2. \/ UNCHANGED worker
          \/ \E p \in {"embed", "point", "done", "ack", "failed"} :
                /\ Goto(w, p)
                /\ p \in {"embed", "point"} => worker[w].phase \in {"start", "embed"}
      BY <1>3 DEF StartProcessing, EmbedChunks, BumpVersion, SetIndexed, At
    <2>3. /\ worker'[w].entry = worker[w].entry /\ worker'[w].next = worker[w].next
          /\ \/ worker'[w].phase = worker[w].phase
             \/ worker'[w].phase \in {"embed", "point"} /\ worker[w].phase \in {"start", "embed"}
             \/ worker'[w].phase \in {"done", "ack", "failed", "hung"}
      BY <2>2, GotoEffect DEF QueueInv, Phases
    <2>4. WritesInTurn(w)'
      BY <2>1, <2>3, TurnStays DEF Continues
    <2>5. \A p \in points' : ValidDomain(p[1].doc)
      BY <2>1 DEF WrittenInv
    <2> QED
      BY <2>1, <2>4, <2>5, WorkInTurn DEF Continues, Written
  <1>4. ASSUME NEW w \in Workers, UpsertPoint(w) PROVE WrittenInv'
    <2>1. PICK e \in EntryIds, n \in Nat : e = worker[w].entry /\ n = worker[w].next
      BY <1>4, JobIsDoc DEF UpsertPoint, At, QueueInv, Worker
    <2>2. /\ Continues(w) /\ n \in 1..Len(Chunks[e.doc])
          /\ \A i \in 1..Len(Chunks[e.doc]) : <<e, i>> \in Written => i < n
      BY <1>4, <2>1, WorkKind DEF Continues, WrittenInv, WritesInTurn, UpsertPoint, At
    <2>3. /\ points' \in {points, points \cup {<<e, n>>}}
          /\ points' # points => ValidDomain(e.doc)
      BY <1>4, <2>1 DEF UpsertPoint, PutPoint, Point, Job
    <2>4. WritesInTurn(w)'
      <3>1. CASE ValidDomain(e.doc) /\ points' = points \cup {<<e, n>>} /\ Goto(w, "row")
        <4>1. worker'[w].phase = "row" /\ worker'[w].entry = e /\ worker'[w].next = n
          BY <2>1, <3>1, GotoEffect DEF QueueInv, Phases
        <4>2. <<e, n>> \in Written' /\ \A i \in 1..Len(Chunks[e.doc]) : <<e, i>> \in Written' => i <= n
          BY <2>2, <3>1 DEF Written
        <4> QED
          BY <2>2, <3>1, <4>1, <4>2 DEF WritesInTurn, At, ValidDomain
      <3>2. ASSUME NEW p \in {"failed", "hung"}, Goto(w, p) PROVE WritesInTurn(w)'
        <4>1. worker'[w].phase = p /\ worker'[w].entry = e /\ worker'[w].next = n
          BY <2>1, <3>2, GotoEffect DEF QueueInv, Phases
        <4> QED
          BY <2>2, <4>1 DEF WritesInTurn, At
      <3> QED
        BY <1>4, <2>1, <3>1, <3>2 DEF UpsertPoint, PutPoint, Point, Job
    <2>5. Written \subseteq Written' /\ Written' \subseteq Written \cup {Point(w)}
      BY <2>1, <2>3 DEF Written, Point
    <2>6. \A p \in points' : ValidDomain(p[1].doc)
      BY <2>3 DEF WrittenInv
    <2> QED
      BY <2>2, <2>4, <2>5, <2>6, WorkInTurn DEF Continues
  <1>5. ASSUME NEW w \in Workers, UpsertChunk(w) PROVE WrittenInv'
    <2>1. PICK e \in EntryIds, n \in Nat : e = worker[w].entry /\ n = worker[w].next
      BY <1>5, JobIsDoc DEF UpsertChunk, At, QueueInv, Worker
    <2>2. /\ Continues(w) /\ n \in 1..Len(Chunks[e.doc]) /\ ValidDomain(e.doc) /\ UNCHANGED points
          /\ \A i \in 1..Len(Chunks[e.doc]) : <<e, i>> \in Written => i <= n
      BY <1>5, <2>1, WorkKind DEF Continues, WrittenInv, WritesInTurn, UpsertChunk, At
    <2>3. Written' = Written /\ \A p \in points' : ValidDomain(p[1].doc)
      BY <2>2 DEF Written, WrittenInv
    <2>4. WritesInTurn(w)'
      <3>1. CASE worker' = [worker EXCEPT
                    ![w].phase = IF LastChunk(w) THEN "bump" ELSE "point",
                    ![w].next = IF LastChunk(w) THEN @ ELSE @ + 1]
        <4>1. CASE LastChunk(w)
          <5>1. worker'[w].phase = "bump" /\ worker'[w].entry = e /\ worker'[w].next = n
            BY <2>1, <3>1, <4>1, AdvanceEffect DEF QueueInv
          <5> QED
            BY <2>2, <5>1 DEF WritesInTurn, At, ValidDomain
        <4>2. CASE ~LastChunk(w)
          <5>1. worker'[w].phase = "point" /\ worker'[w].entry = e /\ worker'[w].next = n + 1
            BY <2>1, <3>1, <4>2, AdvanceEffect DEF QueueInv
          <5>2. n # Len(Chunks[e.doc]) /\ Len(Chunks[e.doc]) \in Nat
            BY <2>1, <4>2, StoreAssumption DEF LastChunk, Job, EntryIds
          <5>3. /\ n + 1 \in 1..Len(Chunks[e.doc])
                /\ \A i \in 1..Len(Chunks[e.doc]) : <<e, i>> \in Written' => i < n + 1
            BY <2>2, <2>3, <5>2
          <5> QED
            BY <5>1, <5>3 DEF WritesInTurn, At
        <4> QED
          BY <4>1, <4>2
      <3>2. ASSUME NEW p \in {"failed", "hung"}, Goto(w, p) PROVE WritesInTurn(w)'
        <4>1. worker'[w].phase = p /\ worker'[w].entry = e /\ worker'[w].next = n
          BY <2>1, <3>2, GotoEffect DEF QueueInv, Phases
        <4> QED
          BY <2>2, <4>1 DEF WritesInTurn, At
      <3> QED
        BY <1>5, <3>1, <3>2 DEF UpsertChunk
    <2> QED
      BY <2>2, <2>3, <2>4, WorkInTurn DEF Continues
  <1>6. ASSUME NEW w \in Workers, Ack(w) \/ DeadLetter(w) \/ Crash(w) PROVE WrittenInv'
    <2>1. UNCHANGED points /\ \A p \in points' : ValidDomain(p[1].doc)
      BY <1>6 DEF Ack, DeadLetter, Crash, storeVars, WrittenInv
    <2>2. Ends(w) \/ (Continues(w) /\ UNCHANGED worker)
      BY <1>6, EndKind, LetterKind DEF DeadLetter
    <2>3. Ends(w) => WritesInTurn(w)'
      BY DEF Ends, Idle, WritesInTurn, At
    <2>4. Continues(w) /\ UNCHANGED worker => WritesInTurn(w)'
      BY <2>1, TurnStays DEF Continues
    <2> QED
      BY <2>1, <2>2, <2>3, <2>4, WorkInTurn DEF Ends, Continues, Written
  <1>7. ASSUME UNCHANGED vars PROVE WrittenInv'
    BY <1>7 DEF vars, queueVars, storeVars, WrittenInv, WritesInTurn, Written,
       Delivered, At, ValidDomain
  <1> QED
    BY <1>1, <1>2, <1>3, <1>4, <1>5, <1>6, <1>7 DEF Next, ClientStep, WorkerStep

(* Every step of theirs keeps the types of the data. *)
LEMMA DataStays ==
    ASSUME QueueInv, DataTypeOK, WrittenInv, [Next]_vars
    PROVE  DataTypeOK'
  <1>1. ASSUME NEW d \in Docs, AddToStream(d) \/ SetPending(d) PROVE DataTypeOK'
    BY <1>1 DEF AddToStream, SetPending, SetStatus, DataTypeOK, Statuses, histVars,
       storeVars
  <1>2. ASSUME NEW w \in Workers, Take(w) \/ EmbedChunks(w) \/ Ack(w) \/ Crash(w)
        PROVE  DataTypeOK'
    BY <1>2 DEF Take, EmbedChunks, Ack, Crash, DataTypeOK, queueVars, histVars,
       storeVars
  <1>3. ASSUME NEW w \in Workers, StartProcessing(w) \/ SetIndexed(w) PROVE DataTypeOK'
    BY <1>3 DEF StartProcessing, SetIndexed, SetStatus, DataTypeOK, Statuses,
                queueVars, histVars, storeVars
  <1>4. ASSUME NEW w \in Workers, DeadLetter(w) PROVE DataTypeOK'
    <2>1. worker[w].entry \in EntryIds /\ worker[w].entry.doc \in Docs /\ "failed" \in Statuses
      BY <1>4, JobIsDoc DEF DeadLetter, At, Statuses, Job
    <2>2. CASE SendToDLQ(worker[w].entry)
      BY <1>4, <2>1, <2>2, IngestAssumption
         DEF DeadLetter, SendToDLQ, RetryCount, SetStatus, DataTypeOK, histVars, storeVars
    <2>3. CASE UNCHANGED <<dlq, status>>
      BY <1>4, <2>3 DEF DeadLetter, DataTypeOK, histVars, storeVars
    <2> QED
      BY <1>4, <2>2, <2>3 DEF DeadLetter
  <1>5. ASSUME NEW w \in Workers, UpsertPoint(w) PROVE DataTypeOK'
    <2>1. Point(w) \in PointIds
      BY <1>5, JobIsDoc DEF UpsertPoint, At, Point, PointIds, WrittenInv, WritesInTurn
    <2> QED
      BY <1>5, <2>1 DEF UpsertPoint, PutPoint, DataTypeOK, queueVars, histVars
  <1>6. ASSUME NEW w \in Workers, UpsertChunk(w) PROVE DataTypeOK'
    <2>1. Chunk(w) \in ChunkIds /\ DomainVersion(Job(w)) \in Nat
      <3>1. PICK d \in Docs : d = Job(w)
        BY <1>6, JobIsDoc DEF UpsertChunk, At
      <3>2. worker[w].next \in 1..Len(Chunks[d]) /\ ValidDomain(d)
        BY <1>6, <3>1 DEF UpsertChunk, At, WrittenInv, WritesInTurn, Job
      <3> QED
        BY <3>1, <3>2 DEF Chunk, ChunkIds, DomainVersion, ValidDomain, DataTypeOK
    <2>2. rows' \subseteq Rows
      BY <1>6, <2>1 DEF UpsertChunk, PutRow, Rows, DataTypeOK
    <2> QED
      BY <1>6, <2>1, <2>2 DEF UpsertChunk, DataTypeOK, queueVars
  <1>7. ASSUME NEW w \in Workers, BumpVersion(w) PROVE DataTypeOK'
    <2>1. PICK d \in Docs : d = Job(w) /\ ValidDomain(d)
      BY <1>7, JobIsDoc DEF BumpVersion, At, WrittenInv, WritesInTurn, Job
    <2>2. PICK m \in Domains : m = DomainOf[d]
      BY <2>1 DEF ValidDomain
    <2>3. CASE Incr(d)
      <3>1. version' \in [Domains -> Nat] /\ bumpAt' \in [Docs -> Nat]
        BY <2>2, <2>3 DEF Incr, DataTypeOK
      <3> QED
        BY <1>7, <3>1 DEF BumpVersion, DataTypeOK, storeVars
    <2>4. CASE UNCHANGED <<version, bumpAt>>
      BY <1>7, <2>4 DEF BumpVersion, DataTypeOK, storeVars
    <2> QED
      BY <1>7, <2>1, <2>3, <2>4 DEF BumpVersion
  <1>8. ASSUME UNCHANGED vars PROVE DataTypeOK'
    BY <1>8 DEF vars, queueVars, histVars, storeVars, DataTypeOK
  <1> QED
    BY <1>1, <1>2, <1>3, <1>4, <1>5, <1>6, <1>7, <1>8 DEF Next, ClientStep, WorkerStep

(* What their steps write: a point that never was there, or the row of a chunk
   whose point was written. *)
LEMMA WhatIsWritten ==
    ASSUME QueueInv, WrittenInv, [Next]_vars
    PROVE  /\ \A p \in points' \ points : p \notin Written
           /\ points \subseteq points'
           /\ rows \subseteq rows'
           /\ \A r \in rows' \ rows : \E p \in Written : ChunkOf(p) = r.chunk
  <1>1. ASSUME NEW w \in Workers, UpsertPoint(w)
        PROVE  \A p \in points' \ points : p \notin Written
    <2>1. Point(w) \notin Written
      BY <1>1 DEF UpsertPoint, At, Point, WrittenInv, WritesInTurn
    <2> QED
      BY <1>1, <2>1 DEF UpsertPoint, PutPoint
  <1>2. ASSUME NEW w \in Workers, UpsertChunk(w)
        PROVE  \A r \in rows' \ rows : \E p \in Written : ChunkOf(p) = r.chunk
    <2>1. Point(w) \in Written /\ ChunkOf(Point(w)) = Chunk(w)
      BY <1>2 DEF UpsertChunk, At, Point, Chunk, ChunkOf, Job, WrittenInv, WritesInTurn
    <2> QED
      BY <1>2, <2>1 DEF UpsertChunk, PutRow, Row
  <1> QED
    BY <1>1, <1>2
       DEF Next, ClientStep, WorkerStep, AddToStream, SetPending, Take, StartProcessing,
           EmbedChunks, UpsertPoint, PutPoint, UpsertChunk, PutRow, BumpVersion, SetIndexed,
           Ack, DeadLetter, Crash, vars, storeVars

(* The workers and their clients, beside a reconciler that waits. *)
LEMMA IngestKeepsRec ==
    ASSUME QueueInv, RecInv, Next, UNCHANGED recVars
    PROVE  RecInv'
  <1>1. DataTypeOK' /\ WrittenInv'
    BY DataStays, WritesStayInTurn DEF RecInv, recVars
  <1>2. Written \subseteq Written' /\ rows \subseteq rows'
    BY WhatIsWritten DEF RecInv, recVars, Written
  <1>3. RowsHadPoints'
    BY <1>2, WhatIsWritten DEF RecInv, RowsHadPoints, Written
  <1>4. CursorInv'
    <2>1. ASSUME NEW p \in Written, p \in points' PROVE p \in points
      BY <2>1, WhatIsWritten DEF RecInv
    <2>2. \A p : HasQdrantPoint(p) => HasQdrantPoint(p)'
      BY <1>2 DEF HasQdrantPoint
    <2>3. \A p : Ahead(p) => Ahead(p)'
      BY DEF Ahead, recVars
    <2> QED
      BY <1>2, <2>1, <2>2, <2>3 DEF RecInv, CursorInv, recVars
  <1> QED
    BY <1>1, <1>3, <1>4 DEF RecInv, recVars

-----------------------------------------------------------------------------
(* The points of a page come in the order of their ranks: a set of points that
   is not empty has a first. *)
LEMMA FirstPoint ==
    ASSUME NEW S \in SUBSET PointIds, S # {}
    PROVE  \E p \in S : Earlier(p, S) = {}
  <1> DEFINE T == {Rank[p] : p \in S}
  <1>1. T \subseteq Nat /\ T # {} /\ \A p \in S : Rank[p] \in Nat
    BY ReconcilerAssumption
  <1>2. PICK x \in T : \A y \in T : ~ (<<y, x>> \in OpToRel(<, Nat))
    BY <1>1, NatLessThanWellFounded, WFMin
  <1>3. \A y \in T : ~(y < x)
    BY <1>1, <1>2 DEF OpToRel
  <1> QED
    BY <1>3 DEF Earlier

(* The run goes on to another domain, whose points are all ahead, or is over. *)
LEMMA NextDomainEffect ==
    ASSUME NEW todo \in SUBSET Domains, NEW old \in SUBSET PointIds, NextDomain(todo, old)
    PROVE  /\ rec' \in Run
           /\ rec'.phase = "idle" => todo = {}
           /\ rec'.phase # "idle" =>
                  /\ rec'.old = old
                  /\ \A p \in PointIds : DomainOf[p[1].doc] \in todo => Ahead(p)'
  <1>1. CASE todo = {}
    BY <1>1 DEF NextDomain, NoRun, Run
  <1>2. ASSUME NEW m \in todo,
               rec' = [NoRun EXCEPT !.phase = "scroll", !.domain = m, !.todo = todo \ {m},
                                    !.old = old]
        PROVE  /\ rec' \in Run /\ rec'.phase = "scroll" /\ rec'.old = old
               /\ \A p \in PointIds : DomainOf[p[1].doc] \in todo => Ahead(p)'
    <2>1. /\ rec' \in Run /\ rec'.phase = "scroll" /\ rec'.old = old
          /\ rec'.offset = 0 /\ rec'.domain = m /\ rec'.todo = todo \ {m}
      BY <1>2 DEF NoRun, Run
    <2>2. \A p \in PointIds : Rank[p] >= 0
      BY ReconcilerAssumption
    <2> QED
      BY <2>1, <2>2 DEF Ahead, InDomain
  <1> QED
    BY <1>1, <1>2 DEF NextDomain

(* After a page, what was ahead is ahead, or was in the page and is deleted. *)
LEMMA NextPageEffect ==
    ASSUME rec \in Run, rec.phase = "lookup", rec.page = {}, NextPage
    PROVE  /\ rec' \in Run
           /\ \A p \in PointIds : Ahead(p) /\ p \notin rec.orphans =>
                  rec'.phase # "idle" /\ Ahead(p)'
           /\ rec'.phase # "idle" => rec'.old = rec.old
  <1>1. rec.todo \in SUBSET Domains /\ rec.next \in Nat /\ rec.old \in SUBSET PointIds
    BY DEF Run
  <1>2. CASE rec.next = NoMore
    <2>1. NextDomain(rec.todo, rec.old)
      BY <1>2 DEF NextPage
    <2>2. \A p : Ahead(p) /\ p \notin rec.orphans => DomainOf[p[1].doc] \in rec.todo
      BY <1>2 DEF Ahead
    <2>3. PICK todo \in SUBSET Domains, old \in SUBSET PointIds : todo = rec.todo /\ old = rec.old
      BY <1>1
    <2>4. NextDomain(todo, old)
      BY <2>1, <2>3
    <2>5. /\ rec' \in Run
          /\ rec'.phase = "idle" => todo = {}
          /\ rec'.phase # "idle" =>
                /\ rec'.old = old
                /\ \A p \in PointIds : DomainOf[p[1].doc] \in todo => Ahead(p)'
      BY <2>4, NextDomainEffect
    <2> QED
      BY <2>2, <2>3, <2>5
  <1>3. CASE rec.next # NoMore
    <2>1. rec' = [rec EXCEPT !.phase = "scroll", !.offset = rec.next, !.orphans = {}]
      BY <1>3 DEF NextPage
    <2>2. /\ rec' \in Run /\ rec'.phase = "scroll" /\ rec'.old = rec.old
          /\ rec'.offset = rec.next /\ rec'.domain = rec.domain /\ rec'.todo = rec.todo
      BY <1>1, <2>1 DEF Run
    <2> QED
      BY <2>2 DEF Ahead, InDomain
  <1> QED
    BY <1>2, <1>3

(* A page, and the cursor to the next one: between them they miss no point. *)
LEMMA ScrollEffect ==
    ASSUME DataTypeOK, rec \in Run, Scroll
    PROVE  /\ rec' \in Run /\ rec'.phase = "lookup" /\ rec'.old = rec.old
           /\ \A p \in points : Ahead(p) => Ahead(p)'
  <1> DEFINE rest == PointsFrom(rec.domain, rec.offset)
             page == {p \in rest : Cardinality(Earlier(p, rest)) < PageSize}
             after == rest \ page
             first == CHOOSE p \in after : Earlier(p, after) = {}
             next == IF after = {} THEN NoMore ELSE Rank[first]
  <1>1. rest \subseteq PointIds
    BY DEF PointsFrom, DataTypeOK
  <1>2. page \in SUBSET PointIds /\ after \in SUBSET PointIds /\ rest = page \cup after
    BY <1>1
  <1> HIDE DEF page, after
  <1>3. after # {} => first \in after /\ Earlier(first, after) = {}
    BY <1>2, FirstPoint
  <1>4. next \in Nat /\ \A p \in after : next # NoMore /\ Rank[p] >= next
    <2>1. CASE after = {}
      BY <2>1 DEF NoMore
    <2>2. CASE after # {}
      <3>1. next = Rank[first] /\ first \in PointIds /\ Earlier(first, after) = {}
        BY <1>2, <1>3, <2>2
      <3> HIDE DEF next, first
      <3>2. next \in Nat \ {0} /\ \A p \in after : Rank[p] \in Nat /\ ~(Rank[p] < next)
        BY <1>2, <3>1, ReconcilerAssumption DEF Earlier
      <3> QED
        BY <3>2 DEF NoMore
    <2> QED
      BY <2>1, <2>2
  <1>5. rec' = [rec EXCEPT !.phase = "lookup", !.page = page, !.next = next] /\ rec.phase = "scroll"
    BY DEF Scroll, page, after
  <1> HIDE DEF next
  <1>6. /\ rec' \in Run /\ rec'.phase = "lookup" /\ rec'.old = rec.old
        /\ rec'.todo = rec.todo /\ rec'.domain = rec.domain
        /\ rec'.page = page /\ rec'.next = next
    BY <1>2, <1>4, <1>5 DEF Run
  <1>7. ASSUME NEW p \in points, Ahead(p) PROVE Ahead(p)'
    <2>1. CASE DomainOf[p[1].doc] \in rec.todo
      BY <1>6, <2>1 DEF Ahead
    <2>2. CASE InDomain(p, rec.domain) /\ Rank[p] >= rec.offset
      <3>1. p \in page \/ p \in after
        BY <1>2, <2>2 DEF PointsFrom
      <3> QED
        BY <1>4, <1>6, <2>2, <3>1 DEF Ahead, InDomain
    <2> QED
      BY <1>5, <1>7, <2>1, <2>2 DEF Ahead
  <1> QED
    BY <1>6, <1>7

(* One answer of PostgreSQL: the point has a row, or will be deleted. *)
LEMMA LookupEffect ==
    ASSUME rec \in Run, Lookup
    PROVE  /\ rec' \in Run /\ rec'.phase = "lookup" /\ rec'.old = rec.old
           /\ \A p \in points : Ahead(p) => HasQdrantPoint(p) \/ Ahead(p)'
  <1>1. PICK q \in rec.page :
          rec' = [rec EXCEPT !.page = @ \ {q},
                             !.orphans = IF HasQdrantPoint(q) THEN @ ELSE @ \union {q}]
    BY DEF Lookup
  <1>2. /\ rec' \in Run /\ rec.phase = "lookup" /\ rec'.phase = "lookup" /\ rec'.old = rec.old
        /\ rec'.todo = rec.todo /\ rec'.domain = rec.domain /\ rec'.next = rec.next
        /\ rec'.page = rec.page \ {q}
        /\ rec'.orphans = IF HasQdrantPoint(q) THEN rec.orphans ELSE rec.orphans \union {q}
    BY <1>1 DEF Run, Lookup
  <1> QED
    BY <1>2 DEF Ahead, InDomain

(* The reconciler's steps that leave the stores alone. *)
LEMMA ReadingKeepsRec ==
    ASSUME RecInv, rec' \in Run, aborts' \in 0..MaxAborts, UNCHANGED <<vars, purged>>,
           rec'.phase # "idle" =>
               \A p \in rec'.old : p \in Written /\ (p \in points => HasQdrantPoint(p) \/ Ahead(p)')
    PROVE  RecInv'
  <1>1. CursorInv'
    BY DEF CursorInv, Written, HasQdrantPoint, vars, storeVars
  <1> QED
    BY <1>1 DEF RecInv, vars, queueVars, histVars, storeVars, DataTypeOK, WrittenInv,
       WritesInTurn, Written, Delivered, At, ValidDomain, RowsHadPoints

(* The deletion of a page's points: what was written is still accounted for. *)
LEMMA DeletingKeepsRec ==
    ASSUME RecInv, rec' \in Run, aborts' \in 0..MaxAborts,
           DropPoints(rec.orphans), purged' = purged \cup (rec.orphans \cap points),
           rec'.phase # "idle" =>
               /\ rec.phase # "idle" /\ rec'.old = rec.old
               /\ \A p \in PointIds : Ahead(p) /\ p \notin rec.orphans => Ahead(p)',
           UNCHANGED <<queueVars, status, version, worker, histVars, rows>>
    PROVE  RecInv'
  <1>1. Written' = Written /\ points' \subseteq points
    BY DEF DropPoints, Written
  <1>2. DataTypeOK' /\ purged' \subseteq PointIds
    BY DEF RecInv, DataTypeOK, DropPoints, queueVars, histVars
  <1>3. RowsHadPoints'
    BY <1>1 DEF RecInv, RowsHadPoints, Written
  <1>4. WrittenInv'
    BY <1>1 DEF RecInv, WrittenInv, WritesInTurn, Delivered, At, ValidDomain,
       queueVars
  <1>5. CursorInv'
    <2>1. ASSUME rec'.phase # "idle", NEW p \in rec'.old, p \in points'
          PROVE  HasQdrantPoint(p) \/ Ahead(p)'
      <3>1. p \in rec.old /\ p \in points /\ p \notin rec.orphans /\ p \in PointIds
        BY <1>1, <2>1 DEF DropPoints, RecInv, DataTypeOK
      <3> QED
        BY <2>1, <3>1 DEF RecInv, CursorInv
    <2>2. \A p : HasQdrantPoint(p) => HasQdrantPoint(p)'
      BY DEF HasQdrantPoint
    <2>3. rec'.phase # "idle" => \A p \in rec'.old : p \in Written'
      BY <1>1 DEF RecInv, CursorInv
    <2> QED
      BY <2>1, <2>2, <2>3 DEF CursorInv
  <1> QED
    BY <1>2, <1>3, <1>4, <1>5 DEF RecInv

(* Every step keeps the invariant. *)
LEMMA RecKept ==
    ASSUME QueueInv, RecInv, [RecNext]_recSystemVars
    PROVE  QueueInv' /\ RecInv'
  <1>1. QueueInv'
    <2>1. [Next]_vars \/ UNCHANGED <<client, stream, resends, delivered, pending, worker>>
      BY DEF RecNext, StartRun, RecStep, Scroll, Lookup, EndPage, AbortRun,
             recSystemVars, vars, queueVars
    <2> QED
      BY <2>1, QueueKept DEF QueueInv, Entries, Delivered, At
  <1>2. /\ aborts \in 0..MaxAborts /\ rec \in Run /\ DataTypeOK
        /\ points \subseteq Written /\ points \in SUBSET PointIds
    BY DEF RecInv, Written, DataTypeOK
  <1>3. CASE Next /\ UNCHANGED recVars
    BY <1>1, <1>3, IngestKeepsRec
  <1>4. CASE StartRun
    <2>1. NextDomain(Domains, points) /\ UNCHANGED <<vars, purged, aborts>>
      BY <1>4 DEF StartRun
    <2>2. \A p \in points : DomainOf[p[1].doc] \in Domains
      BY DEF RecInv, WrittenInv, ValidDomain
    <2>3. /\ rec' \in Run
          /\ rec'.phase # "idle" => rec'.old = points /\ \A p \in points : Ahead(p)'
      BY <1>2, <2>1, <2>2, NextDomainEffect
    <2> QED
      BY <1>1, <1>2, <2>1, <2>3, ReadingKeepsRec
  <1>5. CASE Scroll
    <2>1. /\ rec' \in Run /\ rec'.old = rec.old /\ rec.phase # "idle"
          /\ \A p \in points : Ahead(p) => Ahead(p)'
      BY <1>2, <1>5, ScrollEffect DEF Scroll
    <2> QED
      BY <1>1, <1>2, <1>5, <2>1, ReadingKeepsRec DEF Scroll, RecInv, CursorInv
  <1>6. CASE Lookup
    <2>1. /\ rec' \in Run /\ rec'.old = rec.old /\ rec.phase # "idle"
          /\ \A p \in points : Ahead(p) => HasQdrantPoint(p) \/ Ahead(p)'
      BY <1>2, <1>6, LookupEffect DEF Lookup
    <2> QED
      BY <1>1, <1>2, <1>6, <2>1, ReadingKeepsRec DEF Lookup, RecInv, CursorInv
  <1>7. CASE EndPage
    <2>1. /\ rec.phase = "lookup" /\ rec.page = {} /\ NextPage /\ aborts' = aborts
          /\ DropPoints(rec.orphans) /\ purged' = purged \cup (rec.orphans \cap points)
          /\ UNCHANGED <<queueVars, status, version, worker, histVars, rows>>
      BY <1>7 DEF EndPage
    <2>2. /\ rec' \in Run
          /\ \A p \in PointIds : Ahead(p) /\ p \notin rec.orphans => Ahead(p)'
          /\ rec'.phase # "idle" => rec'.old = rec.old
      BY <1>2, <2>1, NextPageEffect
    <2> QED
      BY <1>1, <1>2, <2>1, <2>2, DeletingKeepsRec
  <1>8. CASE AbortRun
    <2>1. rec' \in Run /\ rec'.phase = "idle" /\ aborts' \in 0..MaxAborts
      BY <1>2, <1>8, ReconcilerAssumption DEF AbortRun, NoRun, Run
    <2>2. CASE UNCHANGED <<points, purged>>
      BY <1>1, <1>8, <2>1, <2>2, ReadingKeepsRec DEF AbortRun, vars, storeVars
    <2>3. CASE DropPoints(rec.orphans) /\ purged' = purged \cup (rec.orphans \cap points)
      BY <1>1, <1>8, <2>1, <2>3, DeletingKeepsRec DEF AbortRun
    <2> QED
      BY <1>8, <2>2, <2>3 DEF AbortRun
  <1>9. CASE UNCHANGED recSystemVars
    <2>1. \A p : Ahead(p) => Ahead(p)'
      BY <1>9 DEF Ahead, recSystemVars, recVars
    <2> QED
      BY <1>1, <1>2, <1>9, <2>1, ReadingKeepsRec DEF recSystemVars, recVars, RecInv, CursorInv
  <1> QED
    BY <1>3, <1>4, <1>5, <1>6, <1>7, <1>8, <1>9 DEF RecNext, RecStep

(* Nothing is written, and no run under way, at the start. *)
LEMMA RecStarts == RecInit => QueueInv /\ RecInv
  <1> SUFFICES ASSUME RecInit PROVE QueueInv /\ RecInv
    OBVIOUS
  <1>1. QueueInv /\ DataTypeOK
    BY QueueStarts, StoreStarts DEF RecInit, StoreInv
  <1>2. Written = {} /\ rows = {} /\ purged = {}
    BY DEF RecInit, Init, StoreInit, Written
  <1>3. WrittenInv
    BY <1>2 DEF RecInit, Init, StoreInit, WrittenInv, WritesInTurn, At, Idle
  <1>4. rec \in Run /\ aborts \in 0..MaxAborts
    BY ReconcilerAssumption DEF RecInit, NoRun, Run
  <1> QED
    BY <1>1, <1>2, <1>3, <1>4 DEF RecInit, RecInv, NoRun, CursorInv, RowsHadPoints

(* The invariant of queue, stores and reconciler, in every reachable state. *)
THEOREM RecInvariance == RecSpec => [](QueueInv /\ RecInv)
  BY RecStarts, RecKept, PTL DEF RecSpec

(* A run that gets to its end has looked at every point there was when it began,
   whatever the workers add meanwhile, and wherever. *)
THEOREM RunsSkipNothing == RecSpec => RunSkipsNothing
  <1>1. ASSUME RecInv, EndPage, rec'.phase = "idle", NEW p \in rec.old \cap points'
        PROVE  HasQdrantPoint(p)
    <2>1. /\ rec.phase = "lookup" /\ rec.page = {} /\ NextPage /\ rec \in Run
          /\ p \in points /\ p \notin rec.orphans /\ p \in PointIds
      BY <1>1 DEF EndPage, DropPoints, RecInv, DataTypeOK
    <2>2. ~Ahead(p)
      BY <1>1, <2>1, NextPageEffect
    <2> QED
      BY <1>1, <2>1, <2>2 DEF RecInv, CursorInv
  <1>2. RecInv /\ [RecNext]_recSystemVars =>
            [EndPage /\ rec'.phase = "idle" =>
                \A p \in rec.old \intersect points' : HasQdrantPoint(p)]_recSystemVars
    BY <1>1
  <1> QED
    BY <1>2, RecInvariance, PTL DEF RecSpec, RunSkipsNothing

(* The stores beside the reconciler: types, and a row whose point is missing
   lost it to a run. *)
THEOREM ReconcilerIsSafe == RecSpec => []ReconcilerSafety
  <1>1. QueueInv /\ RecInv => ReconcilerSafety
    <2> SUFFICES ASSUME QueueInv, RecInv PROVE ReconcilerSafety
      OBVIOUS
    <2> QED
      BY StoredTypes DEF RecInv, ReconcilerSafety, RecTypeOK, Run
  <1> QED
    BY <1>1, RecInvariance, PTL

-----------------------------------------------------------------------------
(* Retrieval.  It only reads, so QueueInv and StoreInv hold beside it. *)

(* An attempt bumps the version of its domain once, and once more for each INCR
   that is sent again: the version counts the attempts that did. *)
Past == {e \in Delivered : ~InPhases(e, Bumping)}

VersionInv ==
    /\ Delivered \subseteq EntryIds /\ resends \in 0..MaxResends
    /\ \A m \in Domains : version[m] <= Cardinality(Past) + resends
    /\ \A d \in Docs : bumpAt[d] > 0 => Complete(d)

(* What one leg of an answer found of a document. *)
LegCovers(leg, answer, d) ==
    \A i \in 1..Len(Chunks[d]) :
        IF leg = "ann" THEN <<d, i>> \in answer.found["ann"]
        ELSE \E r \in rows :
                /\ r.hash = Chunks[d][i]
                /\ DomainOf[r.chunk[1]] = DomainOf[d] => r.chunk \in answer.found["fts"]

(* An answer about m: no leg has read ahead of the version, and each found what
   was ingested before it read, or was lost. *)
AnswerInv(answer, m) ==
    \A leg \in Legs :
        /\ answer.readAt[leg] <= version[m]
        /\ \A d \in Docs : IngestedBy(d, m, answer.readAt[leg]) =>
               leg \in answer.lost \/ LegCovers(leg, answer, d)

Reader == [phase : {"idle", "getKey", "get", "legs", "setKey", "set", "returned"},
           domain : Domains \cup {None}, key : Versions, running : SUBSET Legs,
           answer : Answers]

(* The invariant of readers and cache. *)
RetrievalInv ==
    /\ DataTypeOK /\ VersionInv
    /\ reader \in [Readers -> Reader] /\ lapses \in 0..MaxLapses
    /\ cache \subseteq [domain : Domains, version : Versions, answer : Answers]
    /\ \A r \in Readers : ~In(r, "idle") =>
           MyDomain(r) \in Domains /\ AnswerInv(reader[r].answer, MyDomain(r))
    /\ \A e \in cache : AnswerInv(e.answer, e.domain)

(* There are finitely many entries. *)
LEMMA EntriesAreFinite == IsFiniteSet(EntryIds) /\ Cardinality(EntryIds) \in Nat
  <1> DEFINE P == Docs \X (0..MaxResends)
             f == [x \in P |-> [doc |-> x[1], no |-> x[2]]]
  <1>1. IsFiniteSet(P)
    <2>1. IsFiniteSet(0..MaxResends)
      BY StoreAssumption, FS_Interval, SMT
    <2> QED
      BY <2>1, RetrievalAssumption, FS_Product
  <1>2. f \in Surjection(P, EntryIds)
    <2>1. f \in [P -> EntryIds]
      BY DEF EntryIds
    <2>2. ASSUME NEW e \in EntryIds PROVE \E x \in P : f[x] = e
      <3>1. <<e.doc, e.no>> \in P /\ e = [doc |-> e.doc, no |-> e.no]
        BY DEF EntryIds
      <3> QED
        BY <3>1
    <2> QED
      BY <2>1, <2>2 DEF Surjection
  <1> HIDE DEF P, f
  <1> QED
    BY <1>1, <1>2, FS_Surjection, FS_CardinalityType

(* The bound of the versions is a number. *)
LEMMA VersionsType == Versions \subseteq Nat /\ 0 \in Versions
  BY EntriesAreFinite, StoreAssumption DEF Versions

(* The counter of a domain is within the number of entries and resends. *)
LEMMA VersionBound ==
    ASSUME VersionInv, DataTypeOK, NEW m \in Domains
    PROVE  version[m] \in Versions
  <1>1. Past \in SUBSET EntryIds
    BY DEF VersionInv, Past
  <1>2. Cardinality(Past) \in Nat /\ Cardinality(Past) <= Cardinality(EntryIds)
    BY <1>1, EntriesAreFinite, FS_Subset, FS_CardinalityType
  <1>3. version[m] \in Nat /\ version[m] <= Cardinality(Past) + resends /\ resends \in 0..MaxResends
    BY DEF VersionInv, DataTypeOK
  <1> QED
    BY <1>2, <1>3, EntriesAreFinite, StoreAssumption DEF Versions

(* The workers' steps: the stores grow, the versions too, and a document is
   given a new number or keeps its own. *)
LEMMA IngestGrows ==
    ASSUME QueueInv, StoreInv, [Next]_vars
    PROVE  /\ Grows
           /\ \A m \in Domains : version[m] <= version'[m]
           /\ \/ UNCHANGED <<version, bumpAt>>
              \/ \E w \in Workers : BumpVersion(w) /\ Incr(Job(w))
  <1>1. DataTypeOK
    BY DEF StoreInv
  <1>3. \/ UNCHANGED <<version, bumpAt>>
        \/ \E w \in Workers : BumpVersion(w) /\ Incr(Job(w))
    BY DEF Next, ClientStep, WorkerStep, AddToStream, SetPending, Take, StartProcessing,
           EmbedChunks, UpsertPoint, UpsertChunk, BumpVersion, SetIndexed,
           Ack, DeadLetter, Crash, vars, histVars
  <1>4. \A m \in Domains : version[m] <= version'[m]
    BY <1>1, <1>3 DEF DataTypeOK, Incr
  <1>5. \A d \in Docs : bumpAt[d] # 0 => bumpAt'[d] # 0
    BY <1>1, <1>3 DEF DataTypeOK, Incr
  <1>6. rows \subseteq rows' /\ points \subseteq points'
    BY DEF Next, ClientStep, WorkerStep, AddToStream, SetPending, Take, StartProcessing,
           EmbedChunks, UpsertPoint, PutPoint, UpsertChunk, PutRow, BumpVersion, SetIndexed,
           Ack, DeadLetter, Crash, vars, storeVars
  <1> QED
    BY <1>3, <1>4, <1>5, <1>6 DEF Grows

(* Every step keeps the count of the versions. *)
LEMMA VersionKept ==
    ASSUME QueueInv, StoreInv, VersionInv, [Next]_vars
    PROVE  VersionInv'
  <1>1. QueueInv' /\ StoreInv' /\ DataTypeOK
    BY QueueKept, StoreKept DEF StoreInv
  <1>2. Delivered' \subseteq EntryIds /\ resends' \in 0..MaxResends
    <2>1. \A k \in 1..delivered' : stream'[k] \in EntryIds
      BY <1>1 DEF QueueInv
    <2> QED
      BY <1>1, <2>1 DEF QueueInv, Delivered
  <1>3. \A d \in Docs : bumpAt'[d] > 0 => Complete(d)'
    BY <1>1 DEF StoreInv, BumpsComeLast, DataTypeOK
  <1>4. Past \subseteq Past' /\ resends <= resends'
    <2>1. Past \subseteq Past'
      BY NeverBack DEF Past
    <2>2. resends <= resends'
      <3>1. resends \in Nat
        BY StoreAssumption DEF VersionInv
      <3> QED
        BY <3>1, StepKinds DEF Posts, Takes, Continues, Ends, Resends
    <2> QED
      BY <2>1, <2>2
  <1>5. /\ IsFiniteSet(Past) /\ IsFiniteSet(Past') /\ Cardinality(Past) <= Cardinality(Past')
        /\ Cardinality(Past) \in Nat /\ Cardinality(Past') \in Nat
        /\ resends \in Nat /\ resends' \in Nat
    <2>1. Past \subseteq EntryIds /\ Past' \subseteq EntryIds
      BY <1>2 DEF VersionInv, Past
    <2> QED
      BY <1>2, <1>4, <2>1, EntriesAreFinite, FS_Subset, FS_CardinalityType, StoreAssumption
         DEF VersionInv
  <1>6. CASE UNCHANGED <<version, bumpAt>>
    <2>1. \A m \in Domains : version'[m] <= Cardinality(Past') + resends'
      BY <1>1, <1>4, <1>5, <1>6 DEF VersionInv, DataTypeOK
    <2> QED
      BY <1>2, <1>3, <2>1 DEF VersionInv
  <1>7. ASSUME NEW w \in Workers, BumpVersion(w), Incr(Job(w)) PROVE VersionInv'
    <2>1. \A m \in Domains : version'[m] <= version[m] + 1
      BY <1>1, <1>7 DEF Incr, DataTypeOK
    <2>2. Cardinality(Past') + resends' >= Cardinality(Past) + resends + 1
      <3>1. CASE Again
        BY <1>4, <1>5, <3>1 DEF Again
      <3>2. ASSUME NEW p \in {"done", "failed"}, Goto(w, p)
            PROVE  Cardinality(Past') >= Cardinality(Past) + 1
        <4>1. PICK e : e = worker[w].entry
          OBVIOUS
        <4>2. e \in Delivered /\ worker[w].phase = "bump"
          BY <1>7, <4>1, JobIsDoc DEF BumpVersion, At
        <4>3. e \notin Past
          BY <4>1, <4>2 DEF Past, InPhases, Bumping
        <4>4. worker'[w].phase = p /\ Others(w) /\ Delivered' = Delivered
          BY <1>7, <3>2, GotoEffect DEF QueueInv, Phases, BumpVersion, Delivered
        <4>5. ASSUME NEW v \in Workers, worker'[v].phase \in Bumping, worker'[v].entry = e
              PROVE  FALSE
          <5>1. v # w /\ worker'[v] = worker[v]
            BY <4>4, <4>5 DEF Others, Bumping, Writing
          <5> QED
            BY <4>1, <4>2, <4>5, <5>1 DEF QueueInv, At, Bumping, Writing
        <4>6. e \in Past'
          BY <4>2, <4>4, <4>5 DEF Past, InPhases
        <4>7. /\ Cardinality(Past \cup {e}) = Cardinality(Past) + 1
              /\ Cardinality(Past \cup {e}) <= Cardinality(Past')
          BY <1>4, <1>5, <4>3, <4>6, FS_AddElement, FS_Subset
        <4> QED
          BY <1>5, <4>7
      <3> QED
        BY <1>4, <1>5, <1>7, <3>1, <3>2 DEF BumpVersion
    <2>3. \A m \in Domains : version'[m] <= Cardinality(Past') + resends'
      <3>1. \A m \in Domains : version[m] \in Nat /\ version'[m] \in Nat
        BY <1>1 DEF StoreInv, DataTypeOK
      <3> QED
        BY <1>5, <2>1, <2>2, <3>1 DEF VersionInv
    <2> QED
      BY <1>2, <1>3, <2>3 DEF VersionInv
  <1> QED
    BY <1>6, <1>7, IngestGrows

(* A document that is complete is found by either leg. *)
LEMMA CompleteIsFound ==
    ASSUME NEW d \in Docs, Complete(d), NEW leg \in Legs, NEW answer,
           answer.found[leg] = Search(leg, DomainOf[d])
    PROVE  LegCovers(leg, answer, d)
  <1>1. CASE leg = "ann"
    <2>1. ASSUME NEW i \in 1..Len(Chunks[d]) PROVE <<d, i>> \in answer.found["ann"]
      <3>1. PICK p \in points : ChunkOf(p) = <<d, i>>
        BY DEF Complete, HasPoint
      <3>2. p[1].doc = d
        BY <3>1 DEF ChunkOf
      <3> QED
        BY <1>1, <3>1, <3>2 DEF Search
    <2> QED
      BY <1>1, <2>1 DEF LegCovers
  <1>2. CASE leg = "fts"
    BY <1>2 DEF Complete, HasHash, LegCovers, Search
  <1> QED
    BY <1>1, <1>2 DEF Legs

(* An answer keeps what is said of it while the workers go on. *)
LEMMA AnswerStays ==
    ASSUME QueueInv, StoreInv, [Next]_vars, NEW m \in Domains, NEW answer \in Answers,
           AnswerInv(answer, m)
    PROVE  AnswerInv(answer, m)'
  <1>1. DataTypeOK /\ rows \subseteq rows' /\ version[m] <= version'[m]
    BY IngestGrows DEF StoreInv, Grows
  <1> SUFFICES ASSUME NEW leg \in Legs
               PROVE  /\ answer.readAt[leg] <= version'[m]
                      /\ \A d \in Docs : IngestedBy(d, m, answer.readAt[leg])' =>
                             leg \in answer.lost \/ LegCovers(leg, answer, d)'
    BY DEF AnswerInv
  <1>2. answer.readAt[leg] \in Nat /\ answer.readAt[leg] <= version[m]
    BY VersionsType DEF Answers, AnswerInv
  <1>3. version[m] \in Nat /\ version'[m] \in Nat
    BY <1>1, IngestGrows DEF DataTypeOK, Incr
  <1>4. ASSUME NEW d \in Docs, IngestedBy(d, m, answer.readAt[leg])'
        PROVE  IngestedBy(d, m, answer.readAt[leg])
    <2>1. CASE UNCHANGED bumpAt
      BY <1>4, <2>1 DEF IngestedBy
    <2>2. ASSUME NEW w \in Workers, Incr(Job(w)) PROVE IngestedBy(d, m, answer.readAt[leg])
      BY <1>1, <1>2, <1>4, <2>2 DEF IngestedBy, Incr, DataTypeOK
    <2> QED
      BY <2>1, <2>2, IngestGrows
  <1>5. ASSUME NEW d \in Docs, LegCovers(leg, answer, d) PROVE LegCovers(leg, answer, d)'
    BY <1>1, <1>5 DEF LegCovers
  <1> QED
    BY <1>1, <1>2, <1>4, <1>5, <1>3 DEF AnswerInv

(* An answer to begin with. *)
LEMMA NoAnswerType == NoAnswer \in Answers /\ \A leg \in Legs : NoAnswer.readAt[leg] = 0
  <1>1. 0 \in Versions
    BY VersionsType
  <1> QED
    BY <1>1 DEF NoAnswer, Answers

(* What one reader does leaves the others and the workers alone. *)
LEMMA ReaderKeeps ==
    ASSUME RetrievalInv, UNCHANGED vars, lapses' \in 0..MaxLapses, NEW r \in Readers,
           NEW s \in Reader, reader' = [reader EXCEPT ![r] = s],
           s.phase # "idle", s.domain \in Domains, AnswerInv(s.answer, s.domain),
           \/ UNCHANGED cache
           \/ \E v \in Versions, kept \in SUBSET cache :
                 cache' = kept \cup {Entry(s.domain, v, s.answer)}
    PROVE  RetrievalInv'
  <1> USE DEF vars, queueVars, histVars, storeVars
  <1>1. VersionInv' /\ DataTypeOK'
    BY DEF RetrievalInv, DataTypeOK, VersionInv, Past, InPhases, Complete, HasHash, HasPoint,
           Delivered
  <1>2. \A answer, m : AnswerInv(answer, m) <=> AnswerInv(answer, m)'
    BY DEF AnswerInv, IngestedBy, LegCovers
  <1>3. reader' \in [Readers -> Reader] /\ reader'[r] = s
    BY DEF RetrievalInv, Reader
  <1>4. \A q \in Readers \ {r} : reader'[q] = reader[q]
    BY DEF RetrievalInv
  <1>5. \A q \in Readers : ~In(q, "idle")' =>
           MyDomain(q)' \in Domains /\ AnswerInv(reader'[q].answer, MyDomain(q)')
    BY <1>3, <1>4 DEF RetrievalInv, In, MyDomain
  <1>6. /\ cache' \subseteq [domain : Domains, version : Versions, answer : Answers]
        /\ \A e \in cache' : AnswerInv(e.answer, e.domain)
    BY DEF RetrievalInv, Entry, Reader
  <1> QED
    BY <1>1, <1>2, <1>3, <1>5, <1>6 DEF RetrievalInv, Reader

(* Where a reader is, what it knows, and its steps. *)
LEMMA ReaderFacts ==
    ASSUME RetrievalInv, NEW r \in Readers
    PROVE  /\ reader \in [Readers -> Reader] /\ reader[r] \in Reader
           /\ lapses \in 0..MaxLapses /\ MaxLapses \in Nat
           /\ ~In(r, "idle") => /\ reader[r].domain \in Domains
                                /\ version[reader[r].domain] \in Versions
                                /\ AnswerInv(reader[r].answer, reader[r].domain)
  <1>1. DataTypeOK /\ VersionInv
    BY DEF RetrievalInv
  <1> QED
    BY <1>1, VersionBound, RetrievalAssumption
       DEF RetrievalInv, Reader, In, MyDomain

(* The lapses stay within their bound. *)
LEMMA LapseType ==
    ASSUME lapses \in 0..MaxLapses, MaxLapses \in Nat, Fine \/ Lapse
    PROVE  lapses' \in 0..MaxLapses
  BY DEF Fine, Lapse

(* A call begins. *)
LEMMA BeginKeepsAnswers ==
    ASSUME RetrievalInv, NEW r \in Readers, Begin(r)
    PROVE  RetrievalInv'
  <1>1. PICK m \in Domains :
          reader' = [reader EXCEPT ![r] = [NoReader EXCEPT !.phase = "getKey", !.domain = m]]
    BY DEF Begin
  <1> DEFINE s == [NoReader EXCEPT !.phase = "getKey", !.domain = m]
  <1>2. s \in Reader /\ s.phase = "getKey" /\ s.domain = m /\ s.answer = NoAnswer
    <2>1. 0 \in Versions
      BY VersionsType
    <2> QED
      BY <2>1, NoAnswerType DEF NoReader, Reader
  <1>3. AnswerInv(NoAnswer, m)
    <2>1. version[m] \in Nat
      BY DEF RetrievalInv, DataTypeOK
    <2> QED
      BY <2>1, NoAnswerType DEF AnswerInv, IngestedBy
  <1>4. UNCHANGED <<vars, cache>> /\ lapses' \in 0..MaxLapses
    BY ReaderFacts DEF Begin
  <1> HIDE DEF s
  <1> QED
    BY <1>1, <1>2, <1>3, <1>4, ReaderKeeps DEF s

(* A step that changes the phase of a reader, or its key. *)
LEMMA PhaseKeepsAnswers ==
    ASSUME RetrievalInv, NEW r \in Readers, ~In(r, "idle"), UNCHANGED <<vars, cache>>,
           lapses' \in 0..MaxLapses,
           NEW p \in {"get", "legs", "setKey", "set", "returned"},
           \/ reader' = [reader EXCEPT ![r].phase = p]
           \/ reader' = [reader EXCEPT ![r].phase = p, ![r].key = version[MyDomain(r)]]
    PROVE  RetrievalInv'
  <1>1. /\ reader \in [Readers -> Reader] /\ reader[r] \in Reader
        /\ version[reader[r].domain] \in Versions
        /\ reader[r].domain \in Domains /\ AnswerInv(reader[r].answer, reader[r].domain)
    BY ReaderFacts
  <1>2. PICK key \in Versions : reader' = [reader EXCEPT ![r].phase = p, ![r].key = key]
    <2>1. CASE reader' = [reader EXCEPT ![r].phase = p]
      BY <1>1, <2>1 DEF Reader
    <2> QED
      BY <1>1, <2>1 DEF MyDomain
  <1> DEFINE s == [reader[r] EXCEPT !.phase = p, !.key = key]
  <1>3. /\ s \in Reader /\ s.phase = p /\ s.domain = reader[r].domain
        /\ s.answer = reader[r].answer
    BY <1>1 DEF Reader
  <1>4. reader' = [reader EXCEPT ![r] = s]
    BY <1>1, <1>2 DEF Reader
  <1> HIDE DEF s
  <1> QED
    BY <1>1, <1>3, <1>4, ReaderKeeps

(* What a leg that comes back adds to an answer. *)
LEMMA FoundEffect ==
    ASSUME NEW a \in Answers, NEW leg \in Legs, NEW m,
           Search(leg, m) \subseteq ChunkIds, version[m] \in Versions
    PROVE  LET b == Found(a, leg, m)
           IN  /\ b \in Answers /\ b.lost = a.lost
               /\ b.found[leg] = Search(leg, m) /\ b.readAt[leg] = version[m]
               /\ \A other \in Legs \ {leg} :
                     b.readAt[other] = a.readAt[other] /\ b.found[other] = a.found[other]
  BY DEF Found, Answers

(* A leg comes back, or is lost. *)
LEMMA LegKeepsAnswers ==
    ASSUME RetrievalInv, NEW r \in Readers, NEW leg \in Legs, RunLeg(r, leg)
    PROVE  RetrievalInv'
  <1> DEFINE m == MyDomain(r)
             a == reader[r].answer
  <1>1. /\ reader \in [Readers -> Reader] /\ reader[r] \in Reader /\ a \in Answers
        /\ version[m] \in Versions /\ m \in Domains /\ AnswerInv(a, m)
    BY ReaderFacts DEF RunLeg, In, MyDomain, Reader
  <1>2. UNCHANGED <<vars, cache>> /\ lapses' \in 0..MaxLapses
    BY ReaderFacts, LapseType DEF RunLeg
  <1>3. ASSUME NEW b \in Answers, AnswerInv(b, m),
               reader' = [reader EXCEPT ![r].running = @ \ {leg}, ![r].answer = b]
        PROVE  RetrievalInv'
    <2> DEFINE s == [reader[r] EXCEPT !.running = @ \ {leg}, !.answer = b]
    <2>1. /\ s \in Reader /\ s.phase = "legs" /\ s.domain = m /\ s.answer = b
      BY <1>1, <1>3 DEF Reader, RunLeg, In, MyDomain
    <2>2. reader' = [reader EXCEPT ![r] = s]
      BY <1>1, <1>3 DEF Reader
    <2>3. s.phase # "idle" /\ s.domain \in Domains /\ AnswerInv(s.answer, s.domain)
      BY <1>1, <1>3, <2>1
    <2> HIDE DEF s
    <2> QED
      BY <1>2, <2>1, <2>2, <2>3, ReaderKeeps
  <1>4. CASE reader' = [reader EXCEPT ![r].running = @ \ {leg}, ![r].answer = Found(@, leg, m)]
    <2> DEFINE b == Found(a, leg, m)
    <2>1. Search(leg, m) \subseteq ChunkIds
      <3>1. \A p \in points : ChunkOf(p) \in ChunkIds
        <4>1. ASSUME NEW p \in PointIds PROVE ChunkOf(p) \in ChunkIds
          <5>1. PICK e \in EntryIds : p \in {<<e, i>> : i \in 1..Len(Chunks[e.doc])}
            BY DEF PointIds
          <5>2. PICK i \in 1..Len(Chunks[e.doc]) : p = <<e, i>>
            BY <5>1
          <5>3. e.doc \in Docs /\ ChunkOf(p) = <<e.doc, i>>
            BY <5>2 DEF EntryIds, ChunkOf
          <5> QED
            BY <5>3 DEF ChunkIds
        <4> QED
          BY <4>1 DEF RetrievalInv, DataTypeOK
      <3>2. \A q \in rows : q.chunk \in ChunkIds
        BY DEF RetrievalInv, DataTypeOK, Rows, Row
      <3> QED
        BY <3>1, <3>2 DEF Search
    <2>2. /\ b \in Answers /\ b.lost = a.lost
          /\ b.found[leg] = Search(leg, m) /\ b.readAt[leg] = version[m]
          /\ \A other \in Legs \ {leg} :
                b.readAt[other] = a.readAt[other] /\ b.found[other] = a.found[other]
      BY <1>1, <2>1, FoundEffect
    <2>3. reader' = [reader EXCEPT ![r].running = @ \ {leg}, ![r].answer = b]
      BY <1>1, <1>4 DEF Reader
    <2> HIDE DEF a, b, m
    <2>4. AnswerInv(b, m)
      <3>1. ASSUME NEW d \in Docs, IngestedBy(d, m, version[m]) PROVE LegCovers(leg, b, d)
        <4>1. Complete(d) /\ DomainOf[d] = m
          BY <1>1, <3>1 DEF RetrievalInv, DataTypeOK, VersionInv, IngestedBy
        <4> QED
          BY <2>2, <4>1, CompleteIsFound
      <3>2. ASSUME NEW other \in Legs \ {leg}, NEW d \in Docs, LegCovers(other, a, d)
            PROVE  LegCovers(other, b, d)
        BY <2>2, <3>2 DEF LegCovers, Legs
      <3>3. version[m] \in Nat
        BY <1>1, VersionsType
      <3> QED
        BY <1>1, <2>2, <3>1, <3>2, <3>3 DEF AnswerInv
    <2> QED
      BY <1>3, <2>2, <2>3, <2>4
  <1>5. CASE reader' = [reader EXCEPT ![r].running = @ \ {leg}, ![r].answer = Lost(@, leg)]
    <2> DEFINE b == Lost(a, leg)
    <2>1. b \in Answers /\ b.readAt = a.readAt /\ b.found = a.found /\ a.lost \subseteq b.lost
      BY <1>1 DEF Answers, Lost
    <2>2. reader' = [reader EXCEPT ![r].running = @ \ {leg}, ![r].answer = b]
      BY <1>1, <1>5 DEF Reader
    <2> HIDE DEF a, b, m
    <2>3. AnswerInv(b, m)
      BY <1>1, <2>1 DEF AnswerInv, LegCovers
    <2> QED
      BY <1>3, <2>1, <2>2, <2>3
  <1> QED
    BY <1>4, <1>5 DEF RunLeg

(* The cache is asked: a hit is an answer about the same domain. *)
LEMMA GetKeepsAnswers ==
    ASSUME RetrievalInv, NEW r \in Readers, Get(r)
    PROVE  RetrievalInv'
  <1>1. /\ ~In(r, "idle") /\ UNCHANGED <<vars, cache>> /\ lapses' \in 0..MaxLapses
    BY ReaderFacts, LapseType DEF Get, In
  <1>2. CASE reader' = [reader EXCEPT ![r].phase = "legs"]
    BY <1>1, <1>2, PhaseKeepsAnswers
  <1>3. ASSUME NEW e \in cache, SameKey(e, MyDomain(r), reader[r].key),
               reader' = [reader EXCEPT ![r].phase = "returned", ![r].answer = e.answer]
        PROVE  RetrievalInv'
    <2> DEFINE s == [reader[r] EXCEPT !.phase = "returned", !.answer = e.answer]
    <2>1. /\ reader \in [Readers -> Reader] /\ reader[r] \in Reader
          /\ reader[r].domain \in Domains /\ e.answer \in Answers
          /\ AnswerInv(e.answer, reader[r].domain)
      BY <1>1, <1>3, ReaderFacts DEF RetrievalInv, SameKey, MyDomain
    <2>2. /\ s \in Reader /\ s.phase = "returned" /\ s.domain = reader[r].domain
          /\ s.answer = e.answer
      BY <2>1 DEF Reader
    <2>3. reader' = [reader EXCEPT ![r] = s]
      BY <1>3, <2>1 DEF Reader
    <2> HIDE DEF s
    <2> QED
      BY <1>1, <2>1, <2>2, <2>3, ReaderKeeps
  <1> QED
    BY <1>2, <1>3 DEF Get

(* An answer is stored under the key that was made last. *)
LEMMA SetKeepsAnswers ==
    ASSUME RetrievalInv, NEW r \in Readers, Set(r)
    PROVE  RetrievalInv'
  <1> DEFINE s == [reader[r] EXCEPT !.phase = "returned"]
  <1>1. /\ reader \in [Readers -> Reader] /\ reader[r] \in Reader /\ reader[r].key \in Versions
        /\ reader[r].domain \in Domains /\ AnswerInv(reader[r].answer, reader[r].domain)
        /\ lapses' \in 0..MaxLapses
    BY ReaderFacts, LapseType DEF Set, In, Reader
  <1>2. /\ s \in Reader /\ s.phase = "returned" /\ s.domain = reader[r].domain
        /\ s.answer = reader[r].answer
    BY <1>1 DEF Reader
  <1>3. reader' = [reader EXCEPT ![r] = s] /\ UNCHANGED vars
    BY <1>1 DEF Set, Reader
  <1>4. \/ UNCHANGED cache
        \/ \E v \in Versions, kept \in SUBSET cache :
              cache' = kept \cup {Entry(s.domain, v, s.answer)}
    <2> DEFINE e == Entry(MyDomain(r), reader[r].key, reader[r].answer)
               kept == {f \in cache : ~SameKey(f, e.domain, e.version)}
    <2>1. cache' = kept \cup {e} \/ UNCHANGED cache
      BY DEF Set
    <2>2. kept \in SUBSET cache /\ e = Entry(s.domain, reader[r].key, s.answer)
      BY <1>2 DEF MyDomain
    <2> HIDE DEF s, e, kept
    <2> QED
      BY <1>1, <2>1, <2>2
  <1> HIDE DEF s
  <1> QED
    BY <1>1, <1>2, <1>3, <1>4, ReaderKeeps

(* An entry expires. *)
LEMMA ExpireKeepsAnswers ==
    ASSUME RetrievalInv, UNCHANGED <<vars, reader, lapses>>, cache' \subseteq cache
    PROVE  RetrievalInv'
  <1> USE DEF vars, queueVars, histVars, storeVars
  <1>1. VersionInv' /\ DataTypeOK'
    BY DEF RetrievalInv, DataTypeOK, VersionInv, Past, InPhases, Complete, HasHash, HasPoint,
           Delivered
  <1>2. \A answer, m : AnswerInv(answer, m) <=> AnswerInv(answer, m)'
    BY DEF AnswerInv, IngestedBy, LegCovers
  <1> QED
    BY <1>1, <1>2 DEF RetrievalInv, In, MyDomain

(* The workers and their clients, beside readers that wait. *)
LEMMA IngestKeepsAnswers ==
    ASSUME QueueInv, StoreInv, RetrievalInv, Next, UNCHANGED retrievalVars
    PROVE  RetrievalInv'
  <1>1. VersionInv'
    BY VersionKept DEF RetrievalInv
  <1>2. DataTypeOK'
    BY StoreKept DEF StoreInv
  <1>3. ASSUME NEW r \in Readers, ~In(r, "idle")
        PROVE  AnswerInv(reader[r].answer, MyDomain(r))'
    <2>1. PICK a \in Answers, m \in Domains : a = reader[r].answer /\ m = MyDomain(r)
      BY <1>3, ReaderFacts DEF Reader, MyDomain
    <2>2. AnswerInv(a, m)'
      BY <1>3, <2>1, AnswerStays DEF RetrievalInv
    <2> QED
      BY <2>1, <2>2 DEF AnswerInv, IngestedBy, LegCovers, MyDomain, retrievalVars
  <1>4. ASSUME NEW e \in cache PROVE AnswerInv(e.answer, e.domain)'
    BY <1>4, AnswerStays DEF RetrievalInv
  <1> QED
    BY <1>1, <1>2, <1>3, <1>4 DEF RetrievalInv, retrievalVars, In, MyDomain

(* Every step keeps the invariants. *)
LEMMA RetrievalKept ==
    ASSUME QueueInv, StoreInv, RetrievalInv, [RetrievalNext]_retrievalSystemVars
    PROVE  QueueInv' /\ StoreInv' /\ RetrievalInv'
  <1>1. QueueInv' /\ StoreInv'
    <2>1. [Next]_vars
      BY DEF RetrievalNext, Begin, ReaderStep, GetKey, Get, RunLeg, Merge, SetKey, Set,
         Expire,
             retrievalSystemVars
    <2> QED
      BY <2>1, QueueKept, StoreKept
  <1>2. CASE Next /\ UNCHANGED retrievalVars
    BY <1>1, <1>2, IngestKeepsAnswers
  <1>3. ASSUME NEW r \in Readers, Begin(r) \/ ReaderStep(r) PROVE RetrievalInv'
    <2>1. CASE GetKey(r) \/ Merge(r) \/ SetKey(r)
      <3>1. ~In(r, "idle") /\ UNCHANGED <<vars, cache>> /\ lapses' \in 0..MaxLapses
        BY <2>1, ReaderFacts, LapseType DEF GetKey, Merge, SetKey, In
      <3>2. \E p \in {"get", "legs", "setKey", "set", "returned"} :
               \/ reader' = [reader EXCEPT ![r].phase = p]
               \/ reader' = [reader EXCEPT ![r].phase = p, ![r].key = version[MyDomain(r)]]
        BY <2>1 DEF GetKey, Merge, SetKey
      <3> QED
        BY <3>1, <3>2, PhaseKeepsAnswers
    <2> QED
      BY <1>3, <2>1, BeginKeepsAnswers, GetKeepsAnswers, LegKeepsAnswers,
         SetKeepsAnswers
         DEF ReaderStep
  <1>4. ASSUME NEW m \in Domains, NEW v \in Versions, Expire(m, v) PROVE RetrievalInv'
    BY <1>4, ExpireKeepsAnswers DEF Expire
  <1>5. CASE UNCHANGED retrievalSystemVars
    BY <1>1, <1>5, ExpireKeepsAnswers DEF retrievalSystemVars, retrievalVars
  <1> QED
    BY <1>1, <1>2, <1>3, <1>4, <1>5 DEF RetrievalNext

(* Nothing is ingested, asked or cached at the start. *)
LEMMA RetrievalStarts == RetrievalInit => QueueInv /\ StoreInv /\ RetrievalInv
  <1> SUFFICES ASSUME RetrievalInit PROVE QueueInv /\ StoreInv /\ RetrievalInv
    OBVIOUS
  <1>1. QueueInv /\ StoreInv /\ DataTypeOK
    BY QueueStarts, StoreStarts DEF RetrievalInit, StoreInv
  <1>2. VersionInv
    <2>1. Delivered = {} /\ resends = 0 /\ Past = {}
      BY DEF RetrievalInit, Init, Delivered, Past
    <2>2. /\ \A d \in Docs : bumpAt[d] = 0
          /\ \A m \in Domains : version[m] = 0
      BY DEF RetrievalInit, Init
    <2> QED
      BY <2>1, <2>2, FS_EmptySet, StoreAssumption DEF VersionInv
  <1>3. NoReader \in Reader /\ NoReader.phase = "idle" /\ lapses \in 0..MaxLapses
    <2>1. 0 \in Versions
      BY VersionsType
    <2> QED
      BY <2>1, NoAnswerType, RetrievalAssumption DEF RetrievalInit, NoReader, Reader
  <1> QED
    BY <1>1, <1>2, <1>3 DEF RetrievalInit, RetrievalInv, In

(* The invariant of queue, stores, readers and cache, in every reachable state. *)
THEOREM RetrievalInvariance == RetrievalSpec => [](QueueInv /\ StoreInv /\ RetrievalInv)
  BY RetrievalStarts, RetrievalKept, PTL DEF RetrievalSpec

(* An entry whose legs read at the version it is stored under misses nothing
   that was ingested up to then. *)
THEOREM UnracedAnswersCurrent == RetrievalSpec => []UnracedEntryIsCurrent
  <1>1. RetrievalInv => UnracedEntryIsCurrent
    <2> SUFFICES ASSUME RetrievalInv, NEW e \in cache, NEW d \in Docs,
                        IngestedBy(d, e.domain, e.version),
                        \A leg \in Legs \ e.answer.lost : e.answer.readAt[leg] = e.version
                 PROVE  Covers(e.answer, d)
      BY DEF UnracedEntryIsCurrent
    <2>1. \A leg \in Legs : leg \in e.answer.lost \/ LegCovers(leg, e.answer, d)
      BY DEF RetrievalInv, AnswerInv
    <2> QED
      BY <2>1 DEF Legs, LegCovers, Covers
  <1> QED
    BY <1>1, RetrievalInvariance, PTL

(* The cache of answers: types, and what an unraced entry holds. *)
THEOREM RetrievalIsSafe == RetrievalSpec => []RetrievalSafety
  <1>1. QueueInv /\ RetrievalInv => RetrievalTypeOK
    BY StoredTypes DEF RetrievalInv, RetrievalTypeOK, Reader
  <1> QED
    BY <1>1, RetrievalInvariance, UnracedAnswersCurrent, PTL DEF RetrievalSafety
=============================================================================
