------------------------------ MODULE LRUCache ------------------------------
(***************************************************************************)
(* The cache of embeddings (internal/embed/lru_cache.go): a list of        *)
(* entries, the last used one in front, and a map that finds the element   *)
(* of a key.  Each operation holds the mutex.  An entry lives TTL after it *)
(* was stored; being used does not prolong it.  The clock counts in ticks. *)
(***************************************************************************)
EXTENDS Naturals, FiniteSets, SequencesExt

CONSTANTS
    Texts,          \* the texts, which stand for their SHA-256
    Capacity,       \* capacity (1000)
    TTL             \* ttl (5 minutes), in ticks

ASSUME CacheAssumption ==
    /\ IsFiniteSet(Texts)
    /\ Capacity \in Nat \ {0}
    /\ TTL \in Nat

VARIABLES
    list,           \* list.List, the front first
    items           \* the keys of the map

cacheVars == <<list, items>>

(* age tells expiresAt: now - expiresAt + TTL.  idle is history: the time since
   the entry was last used. *)
Ages == 0..TTL + 1
Entry == [key : Texts, age : Ages, idle : Ages]
Fresh(k) == [key |-> k, age |-> 0, idle |-> 0]
Place(k) == CHOOSE i \in 1..Len(list) : list[i].key = k
ElementOf(k) == list[Place(k)]
Without(k) == IF k \in items THEN RemoveAt(list, Place(k)) ELSE list

CacheInit == list = <<>> /\ items = {}

Expired(k) == k \in items /\ ElementOf(k).age > TTL
Cached(k) == k \in items /\ ~Expired(k)

(* Get, and the entry is there. *)
Hit(k) ==
    /\ Cached(k)
    /\ list' = <<[ElementOf(k) EXCEPT !.idle = 0]>> \o Without(k)
    /\ UNCHANGED items

(* Get, and it is not, or has expired. *)
Miss(k) ==
    /\ ~Cached(k)
    /\ list' = Without(k)
    /\ items' = items \ {k}

(* Slip: the key is not looked up again before it is added. *)
PutTwice(k) ==
    LET rest == IF Len(list) >= Capacity THEN Front(list) ELSE list
    IN  /\ list' = <<Fresh(k)>> \o rest
        /\ items' = {rest[i].key : i \in 1..Len(rest)} \cup {k}

(* Set: another call may have stored the same text meanwhile; a new one takes
   the place of the oldest. *)
Put(k) ==
    IF k \in items
    THEN list' = <<Fresh(k)>> \o Without(k) /\ UNCHANGED items
    ELSE IF Len(list) >= Capacity
    THEN /\ list' = <<Fresh(k)>> \o Front(list)
         /\ items' = (items \ {Last(list).key}) \cup {k}
    ELSE list' = <<Fresh(k)>> \o list /\ items' = items \cup {k}

(* A tick of the clock. *)
Older(n) == IF n <= TTL THEN n + 1 ELSE n
CacheAges ==
    /\ list' = [i \in 1..Len(list) |->
                    [list[i] EXCEPT !.age = Older(@), !.idle = Older(@)]]
    /\ UNCHANGED items

CacheTypeOK == list \in Seq(Entry) /\ items \subseteq Texts

(* The map and the list hold the same keys, each once, and no more than fit,
   also when calls for one text end at the same time (lru_cache.go:62). *)
CacheAgrees ==
    /\ items = {list[i].key : i \in 1..Len(list)}
    /\ Cardinality(items) = Len(list)
    /\ Len(list) <= Capacity

(* No entry has been unused for longer than one behind it: what is evicted is
   the least recently used (lru_cache.go:53, 63, 71). *)
LastUsedFirst ==
    \A i, j \in 1..Len(list) : i < j => list[i].idle <= list[j].idle
=============================================================================
