----------------------------- MODULE Reconciler -----------------------------
(***************************************************************************)
(* The reconciliation job (internal/ingest/reconciler.go) running beside   *)
(* the ingest workers.  For each domain it pages through the collection,   *)
(* asks PostgreSQL about one point at a time, and deletes the points of    *)
(* the page that have no row.  No lock keeps the workers out meanwhile.    *)
(***************************************************************************)
EXTENDS Ingest, FiniteSets

CONSTANTS
    PageSize,       \* the limit of ScrollPoints (100)
    Rank,           \* the order of the point UUIDs, in which Qdrant pages
    MaxAborts       \* bound of the checks: runs that end with an error

ASSUME ReconcilerAssumption ==
    /\ PageSize \in Nat \ {0}
    /\ MaxAborts \in Nat
    /\ Rank \in [PointIds -> Nat \ {0}]
    /\ \A p, q \in PointIds : Rank[p] = Rank[q] => p = q

VARIABLES
    rec,            \* the run of Reconcile under way
    purged,         \* history: points it has deleted
    aborts          \* history: runs that ended with an error, up to MaxAborts

recVars == <<rec, purged, aborts>>
recSystemVars == <<vars, recVars>>

NoRun == [phase |-> "idle", todo |-> {}, domain |-> None, offset |-> 0,
          page |-> {}, orphans |-> {}, next |-> 0,
          old |-> {}]       \* history: the points there were when the run began

RecInit == Init /\ rec = NoRun /\ purged = {} /\ aborts = 0

InDomain(p, m) == DomainOf[p[1].doc] = m

(* Slip: the cursor is taken for the last point of the page before. *)
PointsAfter(m, offset) == {p \in points : InDomain(p, m) /\ Rank[p] > offset}

PointsFrom(m, offset) == {p \in points : InDomain(p, m) /\ Rank[p] >= offset}
Earlier(p, S) == {q \in S : Rank[q] < Rank[p]}
NoMore == 0         \* an empty next_page_offset; 0 is also "from the start"

(* Begin the next domain, or return. *)
NextDomain(todo, old) ==
    IF todo = {} THEN rec' = NoRun
    ELSE \E m \in todo :
            rec' = [NoRun EXCEPT !.phase = "scroll", !.domain = m, !.todo = todo \ {m},
                                 !.old = old]

(* The end of a page (reconciler.go:66-69). *)
NextPage ==
    IF rec.next = NoMore THEN NextDomain(rec.todo, rec.old)
    ELSE rec' = [rec EXCEPT !.phase = "scroll", !.offset = rec.next, !.orphans = {}]

StartRun ==
    /\ rec.phase = "idle"
    /\ NextDomain(Domains, points)
    /\ UNCHANGED <<vars, purged, aborts>>

Scroll ==
    LET rest == PointsFrom(rec.domain, rec.offset)
        page == {p \in rest : Cardinality(Earlier(p, rest)) < PageSize}
        after == rest \ page
    IN
    /\ rec.phase = "scroll"
    /\ rec' = [rec EXCEPT
                 !.phase = "lookup",
                 !.page = page,
                 !.next = IF after = {} THEN NoMore
                          ELSE Rank[CHOOSE p \in after : Earlier(p, after) = {}]]
    /\ UNCHANGED <<vars, purged, aborts>>

Lookup ==
    /\ rec.phase = "lookup"
    /\ \E p \in rec.page :
          rec' = [rec EXCEPT !.page = @ \ {p},
                             !.orphans = IF HasQdrantPoint(p) THEN @ ELSE @ \union {p}]
    /\ UNCHANGED <<vars, purged, aborts>>

(* DeletePoints, when there is something to delete. *)
EndPage ==
    /\ rec.phase = "lookup"
    /\ rec.page = {}
    /\ DropPoints(rec.orphans)
    /\ purged' = purged \union (rec.orphans \intersect points)
    /\ NextPage
    /\ UNCHANGED <<queueVars, status, version, worker, histVars, rows, aborts>>

(* An error of Qdrant or PostgreSQL ends the whole run; a failed delete may
   have been carried out.  A run whose call never comes back (qdrant.go:46 sets
   no deadline) ends here as well, as far as the next run is concerned: the
   CronJob, by default, starts one beside it. *)
AbortRun ==
    /\ aborts < MaxAborts
    /\ aborts' = aborts + 1
    /\ rec.phase # "idle"
    /\ \/ UNCHANGED <<points, purged>>
       \/ /\ rec.phase = "lookup" /\ rec.page = {}
          /\ DropPoints(rec.orphans)
          /\ purged' = purged \union (rec.orphans \intersect points)
    /\ rec' = NoRun
    /\ UNCHANGED <<queueVars, status, version, worker, histVars, rows>>

RecStep == Scroll \/ Lookup \/ EndPage

RecNext ==
    \/ Next /\ UNCHANGED recVars
    \/ StartRun
    \/ RecStep
    \/ AbortRun

RecSpec == RecInit /\ [][RecNext]_recSystemVars

(* A run goes on as long as its calls come back, the CronJob starts the next
   one, and the workers move as in Ingest. *)
FairRecSpec ==
    /\ RecSpec
    /\ WF_recSystemVars(RecStep)
    /\ WF_recSystemVars(StartRun)
    /\ \A w \in Workers : WF_recSystemVars(WorkerStep(w) /\ UNCHANGED recVars)

-----------------------------------------------------------------------------
RecTypeOK ==
    /\ TypeOK
    /\ rec \in [phase : {"idle", "scroll", "lookup"}, todo : SUBSET Domains,
                domain : Domains \union {None}, offset : Nat, next : Nat,
                page : SUBSET PointIds, orphans : SUBSET PointIds, old : SUBSET PointIds]
    /\ purged \subseteq PointIds
    /\ aborts \in 0..MaxAborts

(* Beside the reconciler the order of the two writes still holds: every row
   had its point, and only the reconciler can have taken it away. *)
RowsHadPoints == \A r \in rows : \E p \in points \union purged : ChunkOf(p) = r.chunk

(* A run that gets to its end has looked at every point there was when it
   began: the cursor skips none, although workers add points on both sides of
   it and the run itself deletes the ones it stands on (reconciler.go:37-71). *)
RunSkipsNothing ==
    [][EndPage /\ rec'.phase = "idle" =>
           \A p \in rec.old \intersect points' : HasQdrantPoint(p)]_recSystemVars

(* A run ends although workers keep adding points behind and ahead of it. *)
RunEnds == (rec.phase # "idle") ~> (rec.phase = "idle")

(* A point whose document will write no row for it is cleaned up by some run
   (US-15): a crash between Qdrant and PostgreSQL leaks nothing for good. *)
Orphan(p) ==
    /\ p \in points
    /\ p[1] \in Delivered \ Held
    /\ \A r \in rows : r.chunk # ChunkOf(p)

OrphansAreCleaned == \A p \in PointIds : Orphan(p) ~> (p \notin points)

(* reconciler.go:24-25 and US-17: only points without a row are deleted.  The
   row's qdrant_point_id is never written, so every point looks like one. *)
LiveChunksSpared == \A r \in rows : HasPoint(r.chunk)

(* The stores beside the reconciler: types, and every row's point is there or
   was deleted by a run (reconciler.go:47-64). *)
ReconcilerSafety ==
    /\ RecTypeOK
    /\ RowsHadPoints

(* The reconciler does its work: runs end, and leave no orphan for good
   (reconciler.go:37-74). *)
Reconciles == RunEnds /\ OrphansAreCleaned
=============================================================================
