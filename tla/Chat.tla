-------------------------------- MODULE Chat --------------------------------
(***************************************************************************)
(* Answers in one piece: chatComplete (internal/gateway/chat.go) with the  *)
(* worker pool, the semantic cache, HistoryManager.LoadAndTrim             *)
(* (internal/memory/history_manager.go) on one session, and the others who *)
(* work on that session: SaveMessage and DELETE /v1/sessions/:id.          *)
(*                                                                         *)
(* Each call to Redis or the model is a step, and each may fail; a write   *)
(* that fails may have been carried out.  Web augmentation, a stateless    *)
(* call, is in Pipeline.                                                   *)
(***************************************************************************)
EXTENDS SessionStore, SemanticCache

CONSTANTS
    Asks,           \* lastUserMessage of each request
    InSession,      \* the requests that name the session
    PoolSize,       \* WORKER_POOL_SIZE (10)
    Budget,         \* tokenBudget (2000)
    SummarySizes,   \* how long the model's summary may turn out
    MaxDeletes,     \* bound: DELETEs by the client
    MaxFaults       \* bound: calls that fail

NoRequest == "nobody"       \* the answer is an error or not there yet

ASSUME ChatAssumption ==
    /\ NoRequest \notin Requests
    /\ Asks \in [Requests -> Questions]
    /\ InSession \subseteq Requests
    /\ {PoolSize, Budget, MaxDeletes, MaxFaults} \subseteq Nat
    /\ IsFiniteSet(Requests)
    /\ SummarySizes \subseteq Nat

VARIABLES
    sem,            \* WorkerPool.sem: slots taken
    request,        \* per request: its phase, whether it has an embedding,
                    \* what it writes back, whose answer it returns
    faults, deletes,
    seen,           \* history, per request: what was in the cache when it looked
    read,           \* history, per request: the messages it loaded to summarise
    unread,         \* history: what LoadAndTrim removed without reading it
    raced           \* history: the session changed under a LoadAndTrim

chatVars == <<sessionVars, cacheVars, sem, request, faults, deletes,
              seen, read, unread, raced>>
histories == <<seen, read, unread, raced>>

NewRequest == [phase |-> "new", emb |-> FALSE, summary |-> <<>>, answer |-> NoRequest]
Phases == {"new", "refused", "lookup", "load", "summarise", "del", "push", "trim",
           "generate", "store", "return", "returned"}

At(r, phase) == request[r].phase = phase
Goto(r, phase) == request' = [request EXCEPT ![r].phase = phase]
Answer(r, q, phase) == request' = [request EXCEPT ![r].phase = phase, ![r].answer = q]

(* On to the model, with the history or without; the summary is dead. *)
Proceed(r) == request' = [request EXCEPT ![r].phase = "generate", ![r].summary = <<>>]

Fine == UNCHANGED faults
Fault == faults < MaxFaults /\ faults' = faults + 1

Init ==
    /\ SessionInit /\ CacheInit
    /\ sem = 0
    /\ request = [r \in Requests |-> NewRequest]
    /\ faults = 0 /\ deletes = 0
    /\ seen = [r \in Requests |-> {}]
    /\ read = [r \in Requests |-> {}]
    /\ unread = {} /\ raced = FALSE

(* Requests between the reading of the session and its replacement. *)
Trimming == {r \in Requests : request[r].phase \in {"summarise", "del", "push", "trim"}}
Race == raced' = (raced \/ Trimming # {})
RaceOf(r) == raced' = (raced \/ Trimming \ {r} # {})

-----------------------------------------------------------------------------
(* The others at work on the session. *)

Save ==
    /\ (\E m \in Msgs : Push(m)) \/ Trim
    /\ Race
    /\ UNCHANGED <<cacheVars, sem, request, faults, deletes, seen, read, unread>>

(* DELETE /v1/sessions/:id. *)
DeleteSession ==
    /\ deletes < MaxDeletes
    /\ deletes' = deletes + 1
    /\ (Fine /\ list' = <<>>) \/ (Fault /\ list' \in {list, <<>>})
    /\ Race
    /\ UNCHANGED <<sent, untrimmed, cacheVars, sem, request, seen, read, unread>>

-----------------------------------------------------------------------------
(* chatComplete. *)

Acquire(r) ==
    /\ At(r, "new")
    /\ \/ sem < PoolSize /\ sem' = sem + 1 /\ Goto(r, "lookup")
       \/ sem = PoolSize /\ UNCHANGED sem /\ Goto(r, "refused")
    /\ UNCHANGED <<sessionVars, cacheVars, faults, deletes, histories>>

AfterLookup(r) == IF r \in InSession THEN "load" ELSE "generate"

(* Slip: the answer of the cache is sent before Release is deferred. *)
LookupHitKeepsSlot(r) ==
    /\ At(r, "lookup")
    /\ Fine
    /\ \E k \in 1..Len(entries) :
           Found(k, Asks[r]) /\ Answer(r, entries[k].answer, "returned")
    /\ UNCHANGED <<sessionVars, cacheVars, sem, deletes, histories>>

(* Slip: a question that was answered from the cache is stored as well. *)
LookupHitStores(r) ==
    /\ At(r, "lookup")
    /\ Fine
    /\ \E k \in 1..Len(entries) :
           /\ Found(k, Asks[r])
           /\ Answer(r, entries[k].answer, "return")
           /\ Store(Asks[r], entries[k].answer)
    /\ UNCHANGED <<sessionVars, sem, deletes, histories>>

(* Slip: the slot is given back before the answer is sent, and by defer again. *)
LookupHitReleases(r) ==
    /\ At(r, "lookup")
    /\ Fine
    /\ \E k \in 1..Len(entries) :
           Found(k, Asks[r]) /\ Answer(r, entries[k].answer, "return")
    /\ sem' = sem - 1
    /\ UNCHANGED <<sessionVars, cacheVars, deletes, histories>>

LookupHit(r) ==
    /\ At(r, "lookup")
    /\ Fine
    /\ \E k \in 1..Len(entries) :
           Found(k, Asks[r]) /\ Answer(r, entries[k].answer, "return")
    /\ UNCHANGED <<sessionVars, cacheVars, sem, deletes, histories>>

LookupMiss(r) ==
    /\ At(r, "lookup")
    /\ NotFound(Asks[r])
    /\ Fine
    /\ request' = [request EXCEPT ![r].phase = AfterLookup(r), ![r].emb = TRUE]
    /\ seen' = [seen EXCEPT ![r] = {entries[k] : k \in 1..Len(entries)}]
    /\ UNCHANGED <<sessionVars, cacheVars, sem, deletes, read, unread, raced>>

(* Embed fails: the cache is neither asked nor filled. *)
EmbedFails(r) ==
    /\ At(r, "lookup")
    /\ Fault
    /\ Goto(r, AfterLookup(r))
    /\ UNCHANGED <<sessionVars, cacheVars, sem, deletes, histories>>

Trims(r, history) ==
    /\ Goto(r, "summarise")
    /\ read' = [read EXCEPT ![r] = Covered(history)]

(* Slip: only the newest entry that exceeds the budget is loaded. *)
LoadHistoryTail(r) ==
    /\ At(r, "load")
    /\ Fine
    /\ IF Tokens(list) <= Budget THEN Proceed(r) /\ UNCHANGED read
       ELSE Trims(r, <<Last(list)>>)
    /\ UNCHANGED <<sessionVars, cacheVars, sem, deletes, seen, unread, raced>>

(* LoadAndTrim.  chatComplete drops its errors and goes on without a history. *)
LoadHistory(r) ==
    /\ At(r, "load")
    /\ \/ Tokens(list) <= Budget /\ Fine /\ Proceed(r) /\ UNCHANGED read
       \/ Tokens(list) > Budget /\ Fine /\ Trims(r, list)
       \/ Fault /\ Proceed(r) /\ UNCHANGED read
    /\ UNCHANGED <<sessionVars, cacheVars, sem, deletes, seen, unread, raced>>

Summarised(r) ==
    \E size \in SummarySizes :
        request' = [request EXCEPT ![r].phase = "del",
                                   ![r].summary = <<Summary({}, size)>>]

(* The prompt asks for a summary and carries none of the history. *)
Summarise(r) ==
    /\ At(r, "summarise")
    /\ \/ Fine /\ Summarised(r)
       \/ Fault /\ Proceed(r)
    /\ UNCHANGED <<sessionVars, cacheVars, sem, deletes, histories>>

Removed(r) ==
    /\ list' = <<>>
    /\ unread' = unread \cup (Covered(list) \ read[r])

WriteDel(r) ==
    /\ At(r, "del")
    /\ \/ Removed(r) /\ Fine /\ Goto(r, "push")
       \/ Removed(r) /\ Fault /\ Proceed(r)
       \/ UNCHANGED <<list, unread>> /\ Fault /\ Proceed(r)
    /\ RaceOf(r)
    /\ UNCHANGED <<sent, untrimmed, cacheVars, sem, deletes, seen, read>>

(* RPUSH of SaveMessage; go-redis may send its pipeline again. *)
WritePush(r) ==
    /\ At(r, "push")
    /\ \/ list' = list \o request[r].summary /\ Goto(r, "trim") /\ Fine
       \/ Fault /\ list' = list \o request[r].summary \o request[r].summary /\ Goto(r, "trim")
       \/ Fault /\ UNCHANGED list /\ Proceed(r)
    /\ RaceOf(r)
    /\ UNCHANGED <<sent, untrimmed, cacheVars, sem, deletes, seen, read, unread>>

WriteTrim(r) ==
    /\ At(r, "trim")
    /\ \/ list' = Newest(list) /\ Fine
       \/ UNCHANGED list /\ Fault
    /\ Proceed(r)
    /\ RaceOf(r)
    /\ UNCHANGED <<sent, untrimmed, cacheVars, sem, deletes, seen, read, unread>>

Generate(r) ==
    /\ At(r, "generate")
    /\ \/ Fine /\ Answer(r, r, IF request[r].emb THEN "store" ELSE "return")
       \/ Fault /\ Goto(r, "return")            \* 500
    /\ UNCHANGED <<sessionVars, cacheVars, sem, deletes, histories>>

StoreAnswer(r) ==
    /\ At(r, "store")
    /\ Store(Asks[r], r)
    /\ Goto(r, "return")
    /\ UNCHANGED <<sessionVars, sem, faults, deletes, histories>>

(* The deferred Release: <-sem, which waits while there is nothing to take. *)
Return(r) ==
    /\ At(r, "return")
    /\ sem > 0
    /\ sem' = sem - 1
    /\ Goto(r, "returned")
    /\ UNCHANGED <<sessionVars, cacheVars, faults, deletes, histories>>

Serve(r) ==
    \/ LookupHit(r) \/ LookupMiss(r) \/ EmbedFails(r)
    \/ LoadHistory(r)
    \/ Summarise(r) \/ WriteDel(r) \/ WritePush(r) \/ WriteTrim(r)
    \/ Generate(r) \/ StoreAnswer(r)
    \/ Return(r)

Next ==
    \/ Save
    \/ DeleteSession
    \/ \E r \in Requests : Acquire(r) \/ Serve(r)

Spec == Init /\ [][Next]_chatVars

(* Redis and the backend answer or fail: both clients have a timeout. *)
FairSpec == Spec /\ \A r \in Requests : WF_chatVars(Serve(r))

-----------------------------------------------------------------------------
(* Types. *)
TypeOK ==
    /\ SessionTypeOK
    /\ {entries, stored} \subseteq Seq(CacheEntry)
    /\ sem \in 0..PoolSize
    /\ request \in [Requests -> [phase : Phases, emb : BOOLEAN, summary : Seq(Entry),
                                 answer : Requests \cup {NoRequest}]]

(* workerpool.go:33: the slots taken are those of the requests at work; one
   Release too many would block its handler for ever. *)
Holds(r) == request[r].phase \notin {"new", "refused", "returned"}
Holders == {r \in Requests : Holds(r)}
SlotsMatch == sem = Cardinality(Holders)

(* chat.go:36-39 keeps what the worker pool promises (WorkerPool): a slot for
   every request at work, given back once on each way out; refused only while
   all are taken. *)
PoolView == [r \in Requests |-> IF Holds(r) THEN "holding" ELSE request[r].phase]
Pool == INSTANCE WorkerPool WITH pool <- PoolView

ImplementsPool == Pool!Spec

(* chat.go:47 and 95: an answer that is served to another request was generated
   for a question similar to its own, however many answers were served between. *)
AnswerFitsQuestion ==
    \A r \in Requests : request[r].answer \in Requests \ {r} =>
        <<Asks[r], Asks[request[r].answer]>> \in Near

(* chat.go:47 and 95: a question is answered and stored a second time only if
   the first answer was not in the cache when it was looked for: the two were
   asked at once, or the first was evicted before. *)
AnsweredTwiceOnlyAtOnce ==
    \A i, j \in 1..Len(stored) :
        i < j /\ <<stored[i].embedding, stored[j].embedding>> \in Near =>
            stored[i] \notin seen[stored[j].answer]

(* history_manager.go:34 and 71: as long as nobody else works on the session
   meanwhile, LoadAndTrim deletes only what it has read. *)
DeletesWhatItRead == ~raced => unread = {}

(* Every request that has a slot is answered. *)
RequestsReturn == \A r \in Requests : At(r, "lookup") ~> At(r, "returned")

(* The state invariants of the requests in one: types, one slot for each request
   at work (chat.go:36), the cache as it was filled (semantic_cache.go:43), and
   no answer for a question that is not similar (chat.go:47, 95). *)
ChatSafety ==
    /\ TypeOK
    /\ SlotsMatch
    /\ CacheIsTheNewest
    /\ AnswerFitsQuestion
=============================================================================
