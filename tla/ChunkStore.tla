----------------------------- MODULE ChunkStore -----------------------------
(***************************************************************************)
(* The two stores an ingested document ends up in: the Qdrant collections  *)
(* (internal/memory/qdrant.go) and the chunks table of PostgreSQL          *)
(* (internal/memory/pg_store.go, pg_schema.go).  No transaction spans      *)
(* them.                                                                   *)
(*                                                                         *)
(* A chunk is named by its document and its position; its content only by  *)
(* its hash.  processJob draws a fresh UUID as the point id of a chunk, so *)
(* the same chunk has another point in every attempt at its document.  An  *)
(* entry of the stream has one attempt at most (Ingest!OneAttempt): a      *)
(* point is named by the entry and the position of the chunk.              *)
(***************************************************************************)
EXTENDS Naturals, Sequences

CONSTANTS
    Docs,           \* documents, by the UUID their enqueuer drew
    Domains,        \* the domains Qdrant and the schema accept (validDomains)
    DomainOf,       \* the domain each job names; need not be in Domains
    Chunks,         \* per document, the sequence of its chunks' content hashes
    Registered,     \* documents with a row in the documents table
    MaxResends,     \* bound of the checks: Redis commands go-redis sends again
    NoPoint         \* SQL NULL in qdrant_point_id

ChunkIds == UNION {{<<d, i>> : i \in 1..Len(Chunks[d])} : d \in Docs}
HashOf(id) == Chunks[id[1]][id[2]]

(* Enqueue adds one entry for a document, and one more each time its XADD is
   sent again: they are told apart by the number of resends before them. *)
EntryIds == [doc : Docs, no : 0..MaxResends]
PointIds == UNION {{<<e, i>> : i \in 1..Len(Chunks[e.doc])} : e \in EntryIds}
ChunkOf(p) == <<p[1].doc, p[2]>>

ASSUME StoreAssumption ==
    /\ Registered \subseteq Docs
    /\ DOMAIN DomainOf = Docs
    /\ DOMAIN Chunks = Docs
    /\ \A d \in Docs : Len(Chunks[d]) \in Nat \ {0}    \* chunkContent, worker.go:88-91
    /\ MaxResends \in Nat
    /\ NoPoint \notin PointIds

VARIABLES
    points,         \* ids of the points in the Qdrant collections
    rows            \* rows of the chunks table

storeVars == <<points, rows>>

(* What the INSERT of UpsertChunk stores: every column but qdrant_point_id. *)
Row(id) == [chunk |-> id, hash |-> HashOf(id), point |-> NoPoint]
Rows == {Row(id) : id \in ChunkIds}

StoreInit == points = {} /\ rows = {}

(* validateDomain, first thing in every call of the client. *)
ValidDomain(d) == DomainOf[d] \in Domains

HasHash(hash) == \E r \in rows : r.hash = hash
HasPoint(id) == \E p \in points : ChunkOf(p) = id

(* ON CONFLICT (content_hash) DO NOTHING comes first; otherwise the foreign
   key to documents and UNIQUE (document_id, chunk_index) can refuse the row. *)
RowAccepted(id) ==
    \/ HasHash(HashOf(id))
    \/ id[1] \in Registered /\ \A r \in rows : r.chunk # id

PutPoint(p) == points' = points \union {p}
PutRow(id) == rows' = IF HasHash(HashOf(id)) THEN rows ELSE rows \union {Row(id)}

(* Slip: points are deleted by document. *)
DropPointsOfDocuments(ids) == points' = {p \in points : \A q \in ids : q[1].doc # p[1].doc}

DropPoints(ids) == points' = points \ ids

(* Slip: the lookup goes by document. *)
HasPointOfDocument(p) == \E r \in rows : r.chunk[1] = p[1].doc

(* HasQdrantPoint: is there a row with this qdrant_point_id? *)
HasQdrantPoint(p) == \E r \in rows : r.point = p
=============================================================================
