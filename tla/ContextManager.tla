--------------------------- MODULE ContextManager ---------------------------
(***************************************************************************)
(* ContextManager.LoadAndManage (internal/orchestration/context_manager.go)*)
(* on one session: concurrent requests load the history, and one that      *)
(* finds it too long tries to become its compressor with SET NX.  The      *)
(* others wait for the lock to go and truncate what they have.             *)
(*                                                                         *)
(* Each call to Redis is a step; the write-back is a pipeline of DEL and   *)
(* RPUSH, not a MULTI.  The lock has a TTL of 2 s and Generate may take    *)
(* 25 s, so it can expire under its holder; nothing in it says whose it    *)
(* is.  go-redis sends a command again whose answer is lost: a SET NX then *)
(* finds its own lock, a DEL may free another's, and a pipeline starts     *)
(* over.  SequencesExt's FoldSeq and Suffixes do the sums.                 *)
(***************************************************************************)
EXTENDS SessionStore

CONSTANTS
    Requests,       \* concurrent calls of LoadAndManage
    Threshold,      \* CompressionThreshold (3000 tokens)
    Target,         \* CompressionTarget (2500 tokens)
    SummarySizes,   \* how long the model's summary may turn out
    MaxStrays,      \* bound: how often the lock goes under a request at work
    MaxResends,     \* bound: write-backs sent again (3 for each in the code)
    MayFail,        \* whether Redis and the backend can fail
    MayCrash        \* whether the process of a request can die

ASSUME ContextAssumption ==
    /\ Threshold \in Nat /\ Target \in Nat /\ Target < Threshold
    /\ SummarySizes \subseteq Nat /\ SummarySizes # {}
    /\ IsFiniteSet(Requests)
    /\ {MaxStrays, MaxResends} \subseteq Nat
    /\ {MayFail, MayCrash} \subseteq BOOLEAN

VARIABLES
    lock,           \* caw:compression:{id}: set or not
    request,        \* per request: its phase, its messages, what it answers
    resends,
    strays,         \* history: how often the lock went before its holder was done
    calm            \* history: no fault, nothing the cap cut off, and no message
                    \* saved during a compression so far

vars == <<sessionVars, lock, request, resends, strays, calm>>

Phases == {"new", "setnx", "reload", "compress", "del", "push", "unlock",
           "poll", "reread", "returned", "error"}
Hows == {"none", "whole", "truncated", "summary"}
NewRequest == [phase |-> "new", msgs |-> <<>>, how |-> "none"]

At(r, phase) == request[r].phase = phase
Mine(r) == request[r].msgs
TooLong(history) == Tokens(history) >= Threshold

Goto(r, phase) == request' = [request EXCEPT ![r].phase = phase]

Answer(r, phase, how, history) ==
    request' = [request EXCEPT ![r] = [phase |-> phase, msgs |-> history, how |-> how]]

(* Slip: the message that exceeds the target is kept too. *)
TruncateOneLate(history) ==
    CHOOSE t \in Suffixes(history) :
        /\ t = <<>> \/ Tokens(Tail(t)) <= Target
        /\ \A u \in Suffixes(history) : u # <<>> /\ Tokens(Tail(u)) <= Target => Len(u) <= Len(t)

(* The longest suffix within the target; empty when the last message is not. *)
HardTruncate(history) ==
    CHOOSE t \in Suffixes(history) :
        /\ Tokens(t) <= Target
        /\ \A u \in Suffixes(history) : Tokens(u) <= Target => Len(u) <= Len(t)

Truncate(r, phase) == Answer(r, phase, "truncated", HardTruncate(Mine(r)))

(* Between the reading of what is summarised and the DEL of what is replaced. *)
Compressing(r) == At(r, "compress") \/ At(r, "del")
Owner(r) == request[r].phase \in {"reload", "compress", "del", "push"}
Working(r) == Owner(r) \/ At(r, "unlock")

Init ==
    /\ SessionInit
    /\ lock = FALSE
    /\ request = [r \in Requests |-> NewRequest]
    /\ resends = 0 /\ strays = 0
    /\ calm = TRUE

Fine == UNCHANGED calm
Fault == MayFail /\ calm' = FALSE

-----------------------------------------------------------------------------
(* SaveMessage by whoever continues the conversation. *)

Save ==
    /\ \/ \E m \in Msgs : Push(m) /\ calm' = (calm /\ ~\E r \in Requests : Compressing(r))
       \/ Trim /\ calm' = (calm /\ list' = list)
    /\ UNCHANGED <<lock, request, resends, strays>>

-----------------------------------------------------------------------------
(* LoadAndManage. *)

Load(r) ==
    /\ At(r, "new")
    /\ \/ /\ ~TooLong(list) /\ Fine
          /\ Answer(r, "returned", "whole", list)
       \/ /\ TooLong(list) /\ Fine
          /\ request' = [request EXCEPT ![r].phase = "setnx", ![r].msgs = list]
       \/ Fault /\ Goto(r, "error")
    /\ UNCHANGED <<sessionVars, lock>>

(* Slip: GET and SET instead of SET NX: a lock that is held is taken too. *)
TryLockUnchecked(r) ==
    /\ At(r, "setnx")
    /\ lock' = TRUE
    /\ Goto(r, "reload")
    /\ UNCHANGED <<sessionVars, calm>>

(* A SET NX that is sent again takes its own lock for another's. *)
TryLock(r) ==
    /\ At(r, "setnx")
    /\ \/ ~lock /\ lock' = TRUE /\ Goto(r, "reload") /\ Fine
       \/ lock /\ UNCHANGED lock /\ Goto(r, "poll") /\ Fine
       \/ Fault /\ ~lock /\ lock' = TRUE /\ Goto(r, "poll")
       \/ Fault /\ lock' \in {lock, TRUE} /\ Truncate(r, "returned")
    /\ UNCHANGED sessionVars

(* Slip: the winner compresses what it loaded before it had the lock. *)
ReloadSkipped(r) ==
    /\ At(r, "reload")
    /\ Goto(r, "compress")
    /\ UNCHANGED <<sessionVars, lock, calm>>

(* The winner reads again; an error leaves it with what it had. *)
Reload(r) ==
    /\ At(r, "reload")
    /\ \/ /\ ~TooLong(list) /\ Fine
          /\ Answer(r, "unlock", "whole", list)
       \/ /\ TooLong(list) /\ Fine
          /\ request' = [request EXCEPT ![r].phase = "compress", ![r].msgs = list]
       \/ Fault /\ Goto(r, "compress")
    /\ UNCHANGED <<sessionVars, lock>>

CompressHistory(r) ==
    /\ At(r, "compress")
    /\ \/ \E size \in SummarySizes :
             Fine /\ Answer(r, "del", "summary", <<Summary(Covered(Mine(r)), size)>>)
       \/ Fault /\ Truncate(r, "unlock")
    /\ UNCHANGED <<sessionVars, lock>>

(* writeBackHistory: DEL, then RPUSH.  Either may be the last to be carried
   out; LoadAndManage does not look at the error. *)
WriteDel(r) ==
    /\ At(r, "del")
    /\ \/ list' = <<>> /\ Goto(r, "push") /\ Fine
       \/ Fault /\ list' \in {list, <<>>} /\ Goto(r, "unlock")
    /\ UNCHANGED <<sent, untrimmed, lock>>

WritePush(r) ==
    /\ At(r, "push")
    /\ \/ list' = list \o Mine(r) /\ Fine
       \/ Fault /\ UNCHANGED list
    /\ Goto(r, "unlock")
    /\ UNCHANGED <<sent, untrimmed, lock>>

(* DEL of the lock, whoever holds it by now; its error is dropped. *)
Unlock(r) ==
    /\ At(r, "unlock")
    /\ (lock' = FALSE /\ Fine) \/ (Fault /\ UNCHANGED lock)
    /\ Goto(r, "returned")
    /\ UNCHANGED sessionVars

(* The loser: EXISTS every 20 ms, for 500 ms.  An error of EXISTS leaves 0. *)
Poll(r) ==
    /\ At(r, "poll")
    /\ \/ /\ (~lock /\ Fine) \/ Fault
          /\ Goto(r, "reread")
       \/ Truncate(r, "returned") /\ Fine      \* the deadline
    /\ UNCHANGED <<sessionVars, lock>>

Reread(r) ==
    /\ At(r, "reread")
    /\ \/ ~TooLong(list) /\ Answer(r, "returned", "whole", list) /\ Fine
       \/ ((TooLong(list) /\ Fine) \/ Fault) /\ Truncate(r, "returned")
    /\ UNCHANGED <<sessionVars, lock>>

Step(r) ==
    /\ \/ Load(r)
       \/ TryLock(r)
       \/ Reload(r)
       \/ CompressHistory(r)
       \/ WriteDel(r)
       \/ WritePush(r)
       \/ Unlock(r)
       \/ Poll(r)
       \/ Reread(r)
    /\ UNCHANGED <<resends, strays>>

(* The pipeline of the write-back once more: its RPUSH was carried out or not. *)
ResendWrite(r) ==
    /\ At(r, "push")
    /\ resends < MaxResends /\ resends' = resends + 1
    /\ Fault
    /\ list' \in {list, list \o Mine(r)}
    /\ Goto(r, "del")
    /\ UNCHANGED <<sent, untrimmed, lock, strays>>

(* The lock goes before whoever has taken it is done with it. *)
Stray == strays < MaxStrays /\ strays' = strays + 1

(* DEL of the lock, whose answer is lost: another DEL will follow. *)
ResendUnlock(r) ==
    /\ At(r, "unlock") /\ lock
    /\ Fault /\ Stray
    /\ lock' = FALSE
    /\ UNCHANGED <<sessionVars, request, resends>>

(* Slip: the lock is set without a TTL. *)
ExpireNever == FALSE

(* The lock's TTL, which takes no notice of whether its holder is done. *)
Expire ==
    /\ lock
    /\ lock' = FALSE
    /\ IF \E r \in Requests : Working(r) THEN Stray ELSE UNCHANGED strays
    /\ calm' = FALSE
    /\ UNCHANGED <<sessionVars, request, resends>>

(* The process dies, of a reply without choices for one (context_manager.go:134). *)
Crash(r) ==
    /\ MayCrash
    /\ request[r].phase \notin {"new", "returned", "error"}
    /\ Goto(r, "error")
    /\ calm' = FALSE
    /\ UNCHANGED <<sessionVars, lock, resends, strays>>

Next ==
    \/ Save
    \/ \E r \in Requests : Step(r) \/ ResendWrite(r) \/ ResendUnlock(r) \/ Crash(r)
    \/ Expire

Spec == Init /\ [][Next]_vars

(* A request goes on until it returns, and Redis expires what has a TTL. *)
FairSpec ==
    /\ Spec
    /\ \A r \in Requests : WF_vars(Step(r))
    /\ WF_vars(Expire)

-----------------------------------------------------------------------------
TypeOK ==
    /\ SessionTypeOK
    /\ lock \in BOOLEAN
    /\ request \in [Requests -> [phase : Phases, msgs : Seq(Entry), how : Hows]]
    /\ {resends, strays} \subseteq Nat
    /\ calm \in BOOLEAN

(* Requests that summarise and replace the history at once: one, and one more
   for each time the lock went too early (context_manager.go:55, 68-81).  A DEL
   that frees the lock of another costs nothing on top: the lapse before it,
   which let the other in, has been counted.  The comments of :22-23 and :74 and
   US-6 promise one alone, which the lock does not give: its TTL of 2 s (:18) is
   shorter than the Generate it covers. *)
OneCompressor == Cardinality({r \in Requests : Owner(r)}) <= 1 + strays

(* No conversation is lost: what was saved is told by the list, or by the
   summary a write-back is about to append.  It holds until the first fault,
   the first message the cap cuts off (session.go:34), or the first one saved
   during a compression, whose write-back deletes it (context_manager.go:159). *)
Pending == UNION {Covered(Mine(r)) : r \in {s \in Requests : At(s, "push")}}
NothingLost == calm => Saved \subseteq Covered(list) \union Pending

(* No request goes on with an uncompressed history of 3000 tokens: what was
   not summarised is below the threshold, and truncation keeps the end of the
   conversation, as much of it as fits. *)
ContextIsBounded ==
    \A r \in Requests : At(r, "returned") =>
        /\ request[r].how = "whole" => ~TooLong(Mine(r))
        /\ request[r].how = "truncated" => Tokens(Mine(r)) <= Target

(* Every request gets an answer, and no lock outlives its request for ever. *)
RequestsReturn ==
    \A r \in Requests : At(r, "setnx") ~> request[r].phase \in {"returned", "error"}
LockGoes == lock ~> ~lock

(* What a request goes on with: types, and a history within the bound on
   every way to it (context_manager.go:40-106). *)
ContextSafety ==
    /\ TypeOK
    /\ ContextIsBounded

(* The stored conversation: within its cap, and complete as long as nothing was
   raced, cut off or failed (session.go:21-34, context_manager.go:159). *)
SessionIsKept ==
    /\ CapIsEnforced
    /\ NothingLost

(* Nobody waits for ever, neither a request nor those who come to its lock
   (context_manager.go:55, 88-105). *)
NobodyWaits == RequestsReturn /\ LockGoes
=============================================================================
