------------------------------ MODULE Pipeline ------------------------------
(***************************************************************************)
(* One run of the orchestration pipeline                                   *)
(* (internal/orchestration/pipeline.go): load the context, search the web, *)
(* classify the request, generate an answer by the way its intent asks     *)
(* for, and criticise it.  Any call of the model may fail, in any stage,   *)
(* and a stage that fails falls back on a simpler one.                     *)
(*                                                                         *)
(* A request is a record of what the classification and the triggers look  *)
(* at; whether a phrase occurs in the question is a field of its own.  The *)
(* context manager is a module of its own; here it loads or fails.         *)
(***************************************************************************)
EXTENDS PEV, CodeFeedback, SelfCritique, Integers

CONSTANTS
    Requests,       \* the requests
    DefaultRounds   \* defaultMaxCritiqueRounds (3)

(* What Run looks at of an OrchestrationRequest. *)
Request == [agentMode : BOOLEAN, rag : BOOLEAN, domain : STRING,
            wantsJSON : BOOLEAN, cot : BOOLEAN, asksTheWeb : BOOLEAN,
            question : {"simple", "code", "complex"},
            critique : BOOLEAN, sideEffect : BOOLEAN, maxCritique : Int]

ASSUME PipelineAssumption ==
    /\ Requests \subseteq Request
    /\ MaxPlanRetries \in Nat
    /\ MaxSteps \in Nat \ {0}
    /\ MaxFeedbackRounds \in Nat \ {0}
    /\ DefaultRounds \in Nat \ {0}
    /\ Scores \subseteq Nat
    /\ PassThreshold \in Nat \ {0}

VARIABLES
    request,        \* the OrchestrationRequest
    result          \* the OrchestrationResult, and the error if there is one

vars == <<modelVars, pevVars, feedbackVars, critiqueVars, request, result>>

NoResult == [error |-> "none", pev |-> FALSE, cot |-> FALSE,
             feedback |-> FALSE, formatError |-> FALSE, critiqued |-> FALSE,
             searched |-> FALSE]
Result == [error : {"none", "context", "generate"},
           pev : BOOLEAN, cot : BOOLEAN, feedback : BOOLEAN,
           formatError : BOOLEAN, critiqued : BOOLEAN, searched : BOOLEAN]

(* ClassifyIntent: the explicit wishes first, then the question itself. *)
Intent(req) ==
    CASE req.agentMode                           -> "agent-loop"
      [] ~req.agentMode /\ req.rag
         /\ req.domain # "none"                  -> "rag-query"
      [] ~req.agentMode
         /\ ~(req.rag /\ req.domain # "none")
         /\ req.wantsJSON                        -> "structured-output"
      [] OTHER ->
         IF req.cot THEN "complex-reasoning"
         ELSE IF req.question = "code" THEN "code-generation"
         ELSE IF req.question = "complex" THEN "complex-reasoning"
         ELSE "simple-generate"

Reasoning == Intent(request) = "complex-reasoning"
Coding == Intent(request) = "code-generation"
Structured == Intent(request) = "structured-output"

(* ShouldCritique, and what the pipeline always criticises. *)
Criticised ==
    \/ Reasoning \/ Coding
    \/ request.critique
    \/ request.domain \in {"legal", "medical"}
    \/ request.sideEffect

Error(e) == Goto("done") /\ result' = [result EXCEPT !.error = e]

(* The text is there: criticise it or return it. *)
Deliver(res) ==
    /\ Goto(IF Criticised THEN "score" ELSE "done")
    /\ result' = [res EXCEPT !.critiqued = Criticised]

Init ==
    /\ phase = "load" /\ round = 1
    /\ answer = Empty
    /\ calls = 0 /\ failures = 0
    /\ steps = 0 /\ pevScore = 0
    /\ feedback = FALSE /\ broken = {}
    /\ bestScore = 0 /\ rounds = 0 /\ scored = {}
    /\ request \in Requests
    /\ maxRounds = IF request.maxCritique > 0 THEN request.maxCritique
                   ELSE DefaultRounds
    /\ result = NoResult

stageVars == <<pevVars, feedbackVars, critiqueVars, request>>

Load ==
    /\ phase = "load"
    /\ NoCall
    /\ \/ Error("context")
       \/ Goto("augment") /\ UNCHANGED result
    /\ UNCHANGED <<answer, stageVars>>

(* Augment: a search that fails or finds nothing is passed over. *)
Augment ==
    /\ phase = "augment"
    /\ NoCall
    /\ \E found \in BOOLEAN :
          /\ found => request.asksTheWeb
          /\ result' = [result EXCEPT !.searched = found]
    /\ IF Reasoning \/ Coding THEN PEVStart ELSE Goto("format")
    /\ UNCHANGED <<answer, stageVars>>

PEVReturns ==
    /\ phase = "pevDone"
    /\ NoCall
    /\ Deliver([result EXCEPT !.pev = TRUE])
    /\ UNCHANGED <<answer, stageVars>>

(* Slip: code has no way round the PEV. *)
PEVGivesUpForReasoning ==
    /\ phase = "pevFailed" /\ Reasoning
    /\ NoCall
    /\ Goto("reason")
    /\ UNCHANGED <<answer, stageVars, result>>

PEVGivesUp ==
    /\ phase = "pevFailed"
    /\ NoCall
    /\ Goto(IF Reasoning THEN "reason" ELSE "format")
    /\ UNCHANGED <<answer, stageVars, result>>

(* ChainOfThoughtDecomposer.Decompose. *)
Reason ==
    /\ phase = "reason"
    /\ \/ Replies /\ TakeReply /\ Goto("synthesise")
       \/ Fails /\ Goto("format") /\ UNCHANGED answer
    /\ UNCHANGED <<stageVars, result>>

Synthesise ==
    /\ phase = "synthesise"
    /\ \/ Replies /\ TakeReply
       \/ Fails /\ UNCHANGED answer
    /\ Deliver([result EXCEPT !.cot = TRUE])
    /\ UNCHANGED stageVars

(* OutputFormatter.Format. *)
FormatFails ==
    /\ phase = "format"
    /\ Fails
    /\ Error("generate")
    /\ UNCHANGED <<answer, stageVars>>

FormatReplies ==
    /\ phase = "format"
    /\ Replies
    /\ \/ TakeReply
       \/ Coding /\ \E code \in Languages : answer' = Snippet(calls', code)
       \/ Structured /\ answer' = Object(calls')
    /\ IF Structured /\ ~answer'.json THEN Goto("correct") /\ UNCHANGED result
       ELSE IF Coding THEN Goto("feedback") /\ UNCHANGED result
       ELSE Deliver(result)
    /\ UNCHANGED stageVars

(* The correction is asked for once. *)
Correct ==
    /\ phase = "correct"
    /\ \/ /\ Replies
          /\ TakeReply \/ answer' = Object(calls')
       \/ Fails /\ UNCHANGED answer
    /\ Deliver([result EXCEPT !.formatError = ~answer'.json])
    /\ UNCHANGED stageVars

(* extractFirstCodeBlock: without code in the answer there is nothing to run. *)
FeedbackBegins ==
    /\ phase = "feedback"
    /\ NoCall
    /\ IF answer.code = "none" THEN Deliver(result)
       ELSE Goto("run") /\ UNCHANGED result
    /\ UNCHANGED <<answer, stageVars>>

FeedbackEnds ==
    /\ phase = "feedbackDone"
    /\ NoCall
    /\ Deliver([result EXCEPT !.feedback = feedback])
    /\ UNCHANGED <<answer, stageVars>>

Stages ==
    \/ Load \/ Augment \/ PEVReturns \/ PEVGivesUp \/ Reason \/ Synthesise
    \/ FormatFails \/ FormatReplies \/ Correct
    \/ FeedbackBegins \/ FeedbackEnds

Advances ==
    \/ Stages
    \/ PEVNext /\ UNCHANGED <<feedbackVars, critiqueVars, request, result>>
    \/ FeedbackNext /\ UNCHANGED <<pevVars, critiqueVars, request, result>>
    \/ CritiqueNext /\ UNCHANGED <<pevVars, feedbackVars, request, result>>

Next ==
    \/ Advances
    \/ NoChoices /\ UNCHANGED <<stageVars, result>>
    \/ ChildLeaves /\ UNCHANGED <<pevVars, critiqueVars, request, result>>

(* Every call of the model returns, at the latest when its client times out.
   The child of a snippet may keep its pipe as long as it likes. *)
Spec == Init /\ [][Next]_vars /\ WF_vars(Advances)
-----------------------------------------------------------------------------
TypeOK ==
    /\ ModelTypeOK
    /\ steps \in 0..MaxSteps /\ pevScore \in Scores \cup {0}
    /\ feedback \in BOOLEAN /\ broken \subseteq 1..calls
    /\ bestScore \in Scores \cup {0} /\ rounds \in 0..maxRounds
    /\ maxRounds \in Nat \ {0}
    /\ scored \subseteq (0..calls) \X (Scores \cup {0})
    /\ request \in Requests
    /\ result \in Result

(* The calls a request may make, whatever the model answers: its plan, the
   steps of the plan, the ways round them, two calls per round of feedback
   and two per round of critique (pev.go:94, code_feedback.go:55,
   self_critique.go:80).  Only the length of the plan is the model's. *)
Planning == MaxPlanRetries + 1
InPlan == IF steps = 0 THEN 1 ELSE steps
WayRound == IF Coding THEN 1 + 2 * MaxFeedbackRounds ELSE 2
Generation == IF Reasoning \/ Coding THEN Planning + InPlan + WayRound ELSE 2
Budget == Generation + 2 * maxRounds

WorkIsBounded == calls <= Budget

(* An error of the model costs the caller the answer only when every way to it
   has failed: three calls for reasoning, two for code (pipeline.go:92, 111). *)
EveryWayIsTried ==
    result.error = "generate" =>
        failures >= IF Reasoning THEN 3 ELSE IF Coding THEN 2 ELSE 1

(* A passing score is the score of the very text that is returned, and a score
   that is returned was given to some text of this request
   (self_critique.go:106); below the threshold the text returned may be one
   nobody scored. *)
PassingScoreIsTheAnswers ==
    phase = "done" =>
        /\ bestScore >= PassThreshold => <<answer.call, bestScore>> \in scored
        /\ bestScore > 0 => \E n \in 0..calls : <<n, bestScore>> \in scored

(* The reply whose code was seen to crash, or to fail its assertions, is not
   what the feedback loop returns (code_feedback.go:59); a later reply is, and
   may of course repeat that code in the last round. *)
BrokenCodeIsReplaced ==
    phase \in {"feedbackDone", "score", "done"} => answer.call \notin broken

(* A caller who gets an empty text got an empty reply of the model, unless a fix
   was asked for and the call failed: every other failure leaves it the text
   there was (code_feedback.go:103, self_critique.go:121). *)
OnlyAFixLosesTheText ==
    phase = "done" /\ result.error = "none" /\ answer.blank =>
        \/ answer.call \in 1..calls
        \/ result.feedback /\ broken # {} /\ failures >= 2

(* Structured output that is not marked as a format error is JSON, unless the
   critique put an improvement in its place (output_formatter.go:50). *)
UnmarkedOutputIsJSON ==
    phase = "done" /\ Structured /\ result.error = "none"
        /\ ~result.formatError =>
            answer.json \/ (result.critiqued /\ scored # {})

(* The rounds reported are the scores that were obtained
   (self_critique.go:96, 106, 121). *)
RoundsAreScores ==
    phase = "done" => rounds = Cardinality(scored)

(* The request is answered whatever the model says, with two exceptions: a
   snippet whose child keeps the pipe for ever (code_feedback.go:214, 241), and
   a reply without choices, which ends the process (pev.go:72). *)
Answered == <>(phase \in {"done", "panicked"}) \/ <>[](phase \in Held)

(* What a caller may rely on of the outcome, in one: an error only when all ways
   failed (pipeline.go:92, 111), no code that was seen to fail
   (code_feedback.go:59), the rounds that were scored (self_critique.go:96), and
   JSON where no error of format is marked (output_formatter.go:50). *)
PipelineSafety ==
    /\ TypeOK
    /\ EveryWayIsTried
    /\ BrokenCodeIsReplaced
    /\ RoundsAreScores
    /\ UnmarkedOutputIsJSON
=============================================================================
