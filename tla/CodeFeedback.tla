---------------------------- MODULE CodeFeedback ----------------------------
(***************************************************************************)
(* The code feedback loop (internal/orchestration/code_feedback.go): the   *)
(* code in the answer is run; when it crashes, or when assertions the      *)
(* model wrote about it fail, the model is asked for a fix, up to          *)
(* MaxFeedbackRounds times.  Run returns at "feedbackDone".                *)
(*                                                                         *)
(* Running a snippet is not a call of the model: python3 decides, or is    *)
(* not installed and lets everything pass.  Go code is not run.  After ten *)
(* seconds python3 is killed, but CombinedOutput goes on to read the pipe  *)
(* until every process that has it is gone, and no WaitDelay ends that: a  *)
(* snippet that left a child behind is Held by it, perhaps for ever.       *)
(***************************************************************************)
EXTENDS ModelCalls

CONSTANT MaxFeedbackRounds  \* maxCodeFeedbackRounds (3)

VARIABLES
    feedback,       \* the loop ran: Run's second result
    broken          \* history: calls whose code was seen to crash or to fail

feedbackVars == <<feedback, broken>>

FeedbackReturns == Goto("feedbackDone")

Breaks ==
    /\ broken' = broken \cup {answer.call}
    /\ phase' = "fix"
    /\ UNCHANGED round

Holds(held) == phase' = held /\ UNCHANGED <<round, broken>>

(* What runCode tells, and the decision whether there are assertions to ask
   for: only about Python. *)
CodeHasRun ==
    \/ answer.code = "python" /\ Breaks
    \/ /\ IF answer.code = "python"
          THEN phase' \in {"assertions", "feedbackDone"} /\ UNCHANGED round
          ELSE FeedbackReturns
       /\ UNCHANGED broken

(* Phase 1. *)
RunCode ==
    /\ phase = "run"
    /\ NoCall
    /\ \/ CodeHasRun
       \/ answer.code = "python" /\ Holds("runHeld")
    /\ feedback' = TRUE
    /\ UNCHANGED answer

(* generateEdgeCaseAssertions: without assertions the code has passed. *)
NoAssertions ==
    /\ phase = "assertions"
    /\ Replies \/ Fails
    /\ FeedbackReturns
    /\ UNCHANGED <<answer, feedbackVars>>

AssertionsHaveRun ==
    \/ Breaks
    \/ FeedbackReturns /\ UNCHANGED broken

(* Phase 2, runCodeWithAssertions. *)
Assertions ==
    /\ phase = "assertions"
    /\ Replies
    /\ AssertionsHaveRun \/ Holds("assertionsHeld")
    /\ UNCHANGED <<answer, feedback>>

(* The last process that has the pipe is gone. *)
ChildLeaves ==
    /\ \/ phase = "runHeld" /\ CodeHasRun
       \/ phase = "assertionsHeld" /\ AssertionsHaveRun
    /\ NoCall
    /\ UNCHANGED <<answer, feedback>>

(* requestFix: a failed call leaves neither a text nor code, and the loop
   returns that. *)
FixFails ==
    /\ phase = "fix"
    /\ Fails
    /\ answer' = Empty
    /\ FeedbackReturns
    /\ UNCHANGED feedbackVars

(* Slip: the text with the failing code is kept when the fix has no code. *)
FixWithCodeOnly ==
    /\ phase = "fix"
    /\ Replies
    /\ answer' \in {answer, Snippet(calls', answer.code)}
    /\ IF answer' # answer /\ round < MaxFeedbackRounds
       THEN phase' = "run" /\ round' = round + 1
       ELSE FeedbackReturns
    /\ UNCHANGED feedbackVars

(* A fix with code is run in its turn; that of the last round is returned
   without being run.  lang stays what it was.  A fix without code ends the
   loop. *)
FixReplies ==
    /\ phase = "fix"
    /\ Replies
    /\ \/ /\ answer' = Snippet(calls', answer.code)
          /\ IF round < MaxFeedbackRounds
             THEN phase' = "run" /\ round' = round + 1
             ELSE FeedbackReturns
       \/ TakeReply /\ FeedbackReturns
    /\ UNCHANGED feedbackVars

FeedbackNext ==
    RunCode \/ NoAssertions \/ Assertions \/ FixFails \/ FixReplies
=============================================================================
