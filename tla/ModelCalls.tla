----------------------------- MODULE ModelCalls -----------------------------
(***************************************************************************)
(* One request of the orchestration pipeline and the calls of              *)
(* backend.Generate it makes: where it stands, the text it would answer    *)
(* with, and what its calls have cost so far.  Every stage of the pipeline *)
(* works on these variables.                                               *)
(*                                                                         *)
(* A text is known by the number of the call that produced it and by what  *)
(* the stages look for in it: a code block, and whether it is JSON; and    *)
(* whether there is anything in it, as a reply may be the empty string.    *)
(* Call 0 produced nothing: Empty is the empty string of a stage that had  *)
(* no reply.                                                               *)
(***************************************************************************)
EXTENDS Naturals, FiniteSets

CONSTANT Scores     \* the scores the model gives when it is asked for one

VARIABLES
    phase,          \* the call, or the return, that comes next
    round,          \* the attempt, step or round of that phase
    answer,         \* the text as it stands
    calls,          \* history: calls of Generate so far
    failures        \* history: how many of them returned an error

modelVars == <<phase, round, answer, calls, failures>>

Held == {"runHeld", "assertionsHeld"}
Phases == {"load", "augment", "format", "correct", "reason", "synthesise",
           "plan", "direct", "execute", "verify", "pevDone", "pevFailed",
           "feedback", "run", "assertions", "fix", "feedbackDone",
           "score", "improve", "done", "panicked"} \cup Held
Calling == {"plan", "direct", "execute", "verify", "reason", "synthesise",
            "format", "correct", "assertions", "fix", "score", "improve"}
Languages == {"none", "python", "go"}
Text == [call : Nat, code : Languages, json : BOOLEAN, blank : BOOLEAN]
Snippet(n, code) == [call |-> n, code |-> code, json |-> FALSE, blank |-> FALSE]
Object(n) == [call |-> n, code |-> "none", json |-> TRUE, blank |-> FALSE]
Prose(n, blank) == [call |-> n, code |-> "none", json |-> FALSE, blank |-> blank]
Empty == Prose(0, TRUE)

Replies == calls' = calls + 1 /\ UNCHANGED failures
Fails == calls' = calls + 1 /\ failures' = failures + 1
NoCall == UNCHANGED <<calls, failures>>

(* The reply is the text from now on, also when there is nothing in it. *)
TakeReply == \E blank \in BOOLEAN : answer' = Prose(calls', blank)

Goto(p) == phase' = p /\ round' = 1
Again == phase' = phase /\ round' = round + 1

(* A reply without choices (vLLM's adapter returns what the server sent): the
   stage takes the first, panics, and nothing recovers. *)
NoChoices ==
    /\ phase \in Calling
    /\ Replies
    /\ phase' = "panicked"
    /\ UNCHANGED <<round, answer>>

ModelTypeOK ==
    /\ phase \in Phases
    /\ round \in Nat
    /\ answer \in Text
    /\ calls \in Nat
    /\ failures \in 0..calls
=============================================================================
