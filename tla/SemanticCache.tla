--------------------------- MODULE SemanticCache ---------------------------
(***************************************************************************)
(* The semantic cache (internal/gateway/semantic_cache.go): a list of      *)
(* answers under the embedding of the question they answer, each method    *)
(* under the mutex.  What it is, for the requests, is in the relation      *)
(* Near: the pairs of questions whose cosine similarity is 0.95 or more.   *)
(* It holds of a question and itself, either way round, and is not         *)
(* transitive.                                                             *)
(***************************************************************************)
EXTENDS Naturals, Sequences

CONSTANTS
    Requests,       \* the requests that answers are generated for
    Questions,      \* the texts that are embedded
    Near,           \* similar pairs of them
    CacheSize       \* maxSize (256)

ASSUME CacheAssumption ==
    /\ Near \subseteq Questions \X Questions
    /\ \A p \in Near : <<p[2], p[1]>> \in Near
    /\ \A q \in Questions : <<q, q>> \in Near
    /\ CacheSize \in Nat \ {0}

VARIABLES
    entries,        \* SemanticCache.entries, the oldest first
    stored          \* history: everything that was stored, in order

cacheVars == <<entries, stored>>

CacheEntry == [embedding : Questions, answer : Requests]

CacheInit ==
    /\ entries = <<>>
    /\ stored = <<>>

Similar(k, q) == <<q, entries[k].embedding>> \in Near

(* Lookup: entry k is the first that is similar enough... *)
Found(k, q) == Similar(k, q) /\ \A j \in 1..(k - 1) : ~Similar(j, q)

(* Slip: only the newest entry is looked at. *)
NewestIsOther(q) == entries # <<>> => ~Similar(Len(entries), q)

(* ... or none is. *)
NotFound(q) == \A k \in 1..Len(entries) : ~Similar(k, q)

(* Store: the oldest entry makes room. *)
Store(q, answer) ==
    LET entry == [embedding |-> q, answer |-> answer] IN
    /\ entries' = Append(IF Len(entries) >= CacheSize THEN Tail(entries) ELSE entries, entry)
    /\ stored' = Append(stored, entry)

(* semantic_cache.go:43-44: the cache holds what was stored last, in order,
   and no more than maxSize of it. *)
CacheIsTheNewest ==
    /\ Len(entries) = IF Len(stored) < CacheSize THEN Len(stored) ELSE CacheSize
    /\ \A k \in 1..Len(entries) : entries[k] = stored[Len(stored) - Len(entries) + k]
=============================================================================
