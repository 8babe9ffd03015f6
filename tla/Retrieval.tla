----------------------------- MODULE Retrieval ------------------------------
(***************************************************************************)
(* HybridRetriever.Retrieve and its RetrievalCache (internal/rag) reading  *)
(* what the ingest workers write.  The cache key holds the version of the  *)
(* domain, which is read from Redis each time a key is made: once to look  *)
(* the query up, and once more to store the answer.                        *)
(*                                                                         *)
(* There is one query per domain, and an answer is the set of chunks each  *)
(* leg found; ranking and the cut to five are left out.                    *)
(***************************************************************************)
EXTENDS Ingest, FiniteSets

CONSTANTS
    Readers,        \* concurrent calls of Retrieve
    MaxLapses       \* bound of the checks: failures of a leg (300 ms) or of Redis

ASSUME RetrievalAssumption == MaxLapses \in Nat /\ IsFiniteSet(Docs)

VARIABLES
    reader,         \* per reader: its phase and what it has read
    lapses,         \* history: failures so far, up to MaxLapses
    cache           \* the entries of caw:retrieval:{domain}:{query}:{version}

retrievalVars == <<reader, cache, lapses>>
retrievalSystemVars == <<vars, retrievalVars>>

Legs == {"ann", "fts"}

(* What the legs found, those that found nothing in time, and, as history,
   the version that was current when each leg read its store. *)
NoAnswer == [found |-> [leg \in Legs |-> {}], lost |-> {}, readAt |-> [leg \in Legs |-> 0]]
NoReader == [phase |-> "idle", domain |-> None, key |-> 0, running |-> Legs,
             answer |-> NoAnswer]

RetrievalInit ==
    /\ Init
    /\ reader = [r \in Readers |-> NoReader]
    /\ cache = {}
    /\ lapses = 0

Fine == UNCHANGED lapses
Lapse == lapses < MaxLapses /\ lapses' = lapses + 1

In(r, phase) == reader[r].phase = phase
MyDomain(r) == reader[r].domain

(* Qdrant's ANN search returns points; PostgreSQL's full text search, rows. *)
Search(leg, m) ==
    IF leg = "ann" THEN {ChunkOf(p) : p \in {q \in points : DomainOf[q[1].doc] = m}}
    ELSE {q.chunk : q \in {r \in rows : DomainOf[r.chunk[1]] = m}}

(* An attempt at an entry bumps the version once, and once more for each INCR
   that is sent again. *)
Versions == 0..(Cardinality(EntryIds) + MaxResends)
Entry(m, v, answer) == [domain |-> m, version |-> v, answer |-> answer]
SameKey(e, m, v) == e.domain = m /\ e.version = v

-----------------------------------------------------------------------------
Begin(r) ==
    /\ In(r, "idle") \/ In(r, "returned")
    /\ \E m \in Domains :
          reader' = [reader EXCEPT ![r] = [NoReader EXCEPT !.phase = "getKey", !.domain = m]]
    /\ UNCHANGED <<vars, cache, lapses>>

(* cacheKey: GET of the version counter.  An error counts as a miss. *)
GetKey(r) ==
    /\ In(r, "getKey")
    /\ \/ Fine /\ reader' = [reader EXCEPT ![r].phase = "get", ![r].key = version[MyDomain(r)]]
       \/ Lapse /\ reader' = [reader EXCEPT ![r].phase = "legs"]
    /\ UNCHANGED <<vars, cache>>

Get(r) ==
    LET hits == {e \in cache : SameKey(e, MyDomain(r), reader[r].key)} IN
    /\ In(r, "get")
    /\ \/ \E e \in hits :
             /\ Fine
             /\ reader' = [reader EXCEPT ![r].phase = "returned", ![r].answer = e.answer]
       \/ /\ (hits = {} /\ Fine) \/ Lapse
          /\ reader' = [reader EXCEPT ![r].phase = "legs"]
    /\ UNCHANGED <<vars, cache>>

(* The two goroutines.  An error or a timeout leaves the leg's results nil. *)
Found(answer, leg, m) ==
    [answer EXCEPT !.found[leg] = Search(leg, m), !.readAt[leg] = version[m]]
Lost(answer, leg) == [answer EXCEPT !.lost = @ \union {leg}]

RunLeg(r, leg) ==
    /\ In(r, "legs")
    /\ leg \in reader[r].running
    /\ \/ /\ Fine
          /\ reader' = [reader EXCEPT ![r].running = @ \ {leg},
                                      ![r].answer = Found(@, leg, MyDomain(r))]
       \/ /\ Lapse
          /\ reader' = [reader EXCEPT ![r].running = @ \ {leg}, ![r].answer = Lost(@, leg)]
    /\ UNCHANGED <<vars, cache>>

(* wg.Wait and RRFMerge.  An empty answer is not stored. *)
Merge(r) ==
    LET empty == \A leg \in Legs : reader[r].answer.found[leg] = {} IN
    /\ In(r, "legs")
    /\ reader[r].running = {}
    /\ reader' = [reader EXCEPT ![r].phase = IF empty THEN "returned" ELSE "setKey"]
    /\ UNCHANGED <<vars, cache, lapses>>

(* cache.Set makes its key anew. *)
SetKey(r) ==
    /\ In(r, "setKey")
    /\ \/ Fine /\ reader' = [reader EXCEPT ![r].phase = "set", ![r].key = version[MyDomain(r)]]
       \/ Lapse /\ reader' = [reader EXCEPT ![r].phase = "returned"]
    /\ UNCHANGED <<vars, cache>>

Set(r) ==
    LET e == Entry(MyDomain(r), reader[r].key, reader[r].answer) IN
    /\ In(r, "set")
    /\ \/ Fine /\ cache' = {f \in cache : ~SameKey(f, e.domain, e.version)} \union {e}
       \/ Lapse /\ UNCHANGED cache
    /\ reader' = [reader EXCEPT ![r].phase = "returned"]
    /\ UNCHANGED vars

(* Slip: an entry is stored without a TTL. *)
ExpireNever(m, v) == FALSE

(* The 60 s TTL of an entry. *)
Expire(m, v) ==
    /\ \E e \in cache : SameKey(e, m, v)
    /\ cache' = {e \in cache : ~SameKey(e, m, v)}
    /\ UNCHANGED <<vars, reader, lapses>>

ReaderStep(r) ==
    \/ GetKey(r)
    \/ Get(r)
    \/ \E leg \in Legs : RunLeg(r, leg)
    \/ Merge(r)
    \/ SetKey(r)
    \/ Set(r)

RetrievalNext ==
    \/ Next /\ UNCHANGED retrievalVars
    \/ \E r \in Readers : Begin(r) \/ ReaderStep(r)
    \/ \E m \in Domains, v \in Versions : Expire(m, v)

RetrievalSpec == RetrievalInit /\ [][RetrievalNext]_retrievalSystemVars

(* Legs have timeouts and Redis answers or fails; entries live for 60 s. *)
FairRetrievalSpec ==
    /\ RetrievalSpec
    /\ \A r \in Readers : WF_retrievalSystemVars(ReaderStep(r))
    /\ \A m \in Domains, v \in Versions : WF_retrievalSystemVars(Expire(m, v))

-----------------------------------------------------------------------------
Answers == [found : [Legs -> SUBSET ChunkIds], lost : SUBSET Legs, readAt : [Legs -> Versions]]

RetrievalTypeOK ==
    /\ TypeOK
    /\ reader \in [Readers ->
         [phase : {"idle", "getKey", "get", "legs", "setKey", "set", "returned"},
          domain : Domains \union {None}, key : Versions, running : SUBSET Legs,
          answer : Answers]]
    /\ lapses \in 0..MaxLapses
    /\ cache \subseteq [domain : Domains, version : Versions, answer : Answers]

(* The legs that answered found every chunk of d: as itself or, in PostgreSQL,
   as the row that already had its content.  When that row is of another
   domain, only the vector can be found. *)
Covers(answer, d) ==
    \A i \in 1..Len(Chunks[d]) :
        /\ "ann" \notin answer.lost => <<d, i>> \in answer.found["ann"]
        /\ "fts" \notin answer.lost =>
               \E r \in rows :
                  /\ r.hash = Chunks[d][i]
                  /\ DomainOf[r.chunk[1]] = DomainOf[d] => r.chunk \in answer.found["fts"]

IngestedBy(d, m, v) == DomainOf[d] = m /\ bumpAt[d] \in 1..v

(* Why the version works at all: an entry whose legs read their stores at the
   version it is stored under misses nothing that was ingested up to then,
   because a job writes all its chunks before it bumps the version. *)
UnracedEntryIsCurrent ==
    \A e \in cache : \A d \in Docs :
        /\ IngestedBy(d, e.domain, e.version)
        /\ \A leg \in Legs \ e.answer.lost : e.answer.readAt[leg] = e.version
        => Covers(e.answer, d)

(* US-22: "stale results are impossible after new ingestion".  An entry should
   cover every document whose ingestion its version counts. *)
Stale(e) == \E d \in Docs : IngestedBy(d, e.domain, e.version) /\ ~Covers(e.answer, d)
NothingStale == ~\E e \in cache : Stale(e)

(* It does not: Set reads the version again.  But the 60 s TTL bounds the damage: the
   last ingestion is followed by a time without stale entries. *)
StalenessEnds == <>[]NothingStale

(* The cache of answers: types, and nothing missing from an entry whose legs read
   at the version it is stored under (cache.go:35-75, retriever.go:66-160). *)
RetrievalSafety ==
    /\ RetrievalTypeOK
    /\ UnracedEntryIsCurrent
=============================================================================
