--------------------------- MODULE PipelineProofs ---------------------------
(***************************************************************************)
(* Proofs about Pipeline: what a caller may rely on of the outcome, the    *)
(* number of calls, and what the scores and an empty text tell, for any    *)
(* requests, any limits and any scores, whatever the model answers and     *)
(* whichever calls fail.                                                   *)
(***************************************************************************)
EXTENDS Pipeline, FiniteSetTheorems, TLAPS

(* Where a request can be, by its intent. *)
PEVPhases == {"plan", "direct", "execute", "verify", "pevDone", "pevFailed"}
FeedbackPhases == {"feedback", "run", "assertions", "fix", "feedbackDone"} \cup Held
CritiquePhases == {"score", "improve"}

WayInv ==
    /\ phase \in PEVPhases => Reasoning \/ Coding
    /\ phase \in {"reason", "synthesise"} => Reasoning
    /\ phase \in FeedbackPhases => Coding
    /\ phase = "correct" => Structured
    /\ phase = "done" \/ result.error = "none"

(* The round within its limit, and with it the calls made so far. *)
Planned == Planning + InPlan
Fixing == Planned + 2 * round - 1
Scoring == Generation + 2 * round - 2

WorkInv ==
    /\ phase \in {"load", "augment"} => calls = 0
    /\ phase \in {"load", "augment", "plan", "direct"} => steps = 0
    /\ phase = "plan" => round \in 1..Planning /\ calls = round - 1
    /\ phase = "direct" => calls <= Planning
    /\ phase = "execute" => round \in 1..steps /\ calls <= Planning + round - 1
    /\ phase = "verify" => calls <= Planned
    /\ phase = "pevDone" => calls <= Planned + 1
    /\ phase \in {"pevFailed", "reason"} => calls <= Planned
    /\ phase = "synthesise" => calls <= Planned + 1
    /\ phase = "format" => calls <= IF Reasoning THEN Planned + 1
                                    ELSE IF Coding THEN Planned ELSE 0
    /\ phase = "correct" => calls <= 1
    /\ phase = "feedback" => calls <= Planned + 1
    /\ phase \in {"run", "assertions", "fix"} \cup Held => round \in 1..MaxFeedbackRounds
    /\ phase \in {"run", "runHeld", "assertions"} => calls <= Fixing
    /\ phase \in {"assertionsHeld", "fix"} => calls <= Fixing + 1
    /\ phase = "feedbackDone" => calls <= Planned + 1 + 2 * MaxFeedbackRounds
    /\ phase \in CritiquePhases => round \in 1..maxRounds
    /\ phase = "score" => calls <= Scoring
    /\ phase = "improve" => calls <= Scoring + 1
    /\ phase \in {"done", "panicked"} => calls <= Budget

(* The failures that brought a request where it is. *)
FailureInv ==
    /\ phase \in {"pevFailed", "reason"} \cup FeedbackPhases => failures >= 1
    /\ phase = "format" => failures >= IF Reasoning THEN 2 ELSE IF Coding THEN 1 ELSE 0
    /\ EveryWayIsTried

(* The text: which calls it can come from, that only code about to be fixed is
   known to be broken, and that it comes from a call unless a fix failed. *)
Lost(run) == run /\ broken # {} /\ failures >= 2

TextInv ==
    /\ answer.call <= calls
    /\ phase \notin {"fix", "panicked"} => answer.call \notin broken
    /\ phase \in {"verify", "pevDone", "synthesise", "correct",
                  "feedback", "run", "assertions", "fix"} \cup Held => answer.call > 0
    /\ phase \in {"assertions", "fix"} \cup Held => feedback
    /\ phase = "fix" => broken # {}
    /\ phase = "feedbackDone" => answer.call > 0 \/ Lost(feedback)
    /\ phase \in CritiquePhases => answer.call > 0 \/ Lost(result.feedback)
    /\ phase = "done" /\ result.error = "none" => answer.call > 0 \/ Lost(result.feedback)

(* The scores: one per round, each given to a text of its own, and none at the
   threshold before the end. *)
ScoreInv ==
    /\ IsFiniteSet(scored)
    /\ phase \notin CritiquePhases \cup {"done", "panicked"} => scored = {} /\ rounds = 0
    /\ phase = "score" => Cardinality(scored) = round - 1
                          /\ \A s \in scored : s[1] < answer.call
    /\ phase = "improve" => Cardinality(scored) = round
    /\ phase # "done" => bestScore < PassThreshold
    /\ phase \in CritiquePhases => rounds = 0
    /\ bestScore >= PassThreshold => <<answer.call, bestScore>> \in scored
    /\ bestScore > 0 => \E s \in scored : s[2] = bestScore
    /\ RoundsAreScores

(* The format of structured output. *)
FormatInv ==
    /\ phase \in CritiquePhases => result.critiqued
    /\ phase = "score" /\ Structured /\ ~result.formatError => answer.json \/ scored # {}
    /\ phase = "improve" => scored # {}
    /\ UnmarkedOutputIsJSON

(* The inductive invariant.  What TLC checks speaks of the end of a request;
   the rest tells how a request got there. *)
PipelineInv ==
    /\ TypeOK
    /\ WayInv /\ WorkInv /\ FailureInv /\ TextInv /\ ScoreInv /\ FormatInv

-----------------------------------------------------------------------------
(* A request has one intent, and keeps it. *)
LEMMA OneIntent ==
    /\ ~(Reasoning /\ Coding) /\ ~(Reasoning /\ Structured) /\ ~(Coding /\ Structured)
  BY DEF Reasoning, Coding, Structured

(* A request does not change its intent. *)
LEMMA IntentStays ==
  ASSUME UNCHANGED request
  PROVE  /\ Reasoning' <=> Reasoning
         /\ Coding' <=> Coding
         /\ Structured' <=> Structured
  BY DEF Reasoning, Coding, Structured

(* The limits are what PipelineAssumption says. *)
LEMMA Limits ==
    /\ MaxPlanRetries \in Nat /\ MaxSteps \in Nat \ {0}
    /\ MaxFeedbackRounds \in Nat \ {0} /\ DefaultRounds \in Nat \ {0}
    /\ Scores \subseteq Nat /\ PassThreshold \in Nat \ {0}
  BY PipelineAssumption

(* Whether a request is criticised is a matter of yes or no. *)
LEMMA CriticisedOrNot == request \in Requests => Criticised \in BOOLEAN
  BY DEF Criticised

(* What was noted of earlier calls stays within the calls. *)
LEMMA HistoriesFit ==
  ASSUME PipelineInv, calls' \in {calls, calls + 1}
  PROVE  /\ calls' \in Nat
         /\ broken \subseteq 1..calls'
         /\ scored \subseteq (0..calls') \X (Scores \cup {0})
<1>1. calls \in Nat /\ calls' \in Nat /\ 1..calls \subseteq 1..calls' /\ 0..calls \subseteq 0..calls'
  BY DEF PipelineInv, TypeOK, ModelTypeOK
<1>2. QED
  BY <1>1 DEF PipelineInv, TypeOK

(* Texts, and the numbers of the calls they come from. *)
LEMMA SnippetIsText ==
  \A n \in Nat, code \in Languages :
     Snippet(n, code) \in Text /\ Snippet(n, code).call = n /\ Snippet(n, code).code = code
  BY DEF Snippet, Text

(* A text without code. *)
LEMMA ProseIsText ==
  \A n \in Nat, blank \in BOOLEAN :
     /\ Prose(n, blank) \in Text
     /\ Prose(n, blank).call = n /\ Prose(n, blank).blank = blank
  BY DEF Prose, Text, Languages

(* A reply, whatever is in it, is a text of its call. *)
LEMMA ReplyIsText ==
  ASSUME calls' \in Nat, TakeReply
  PROVE  answer' \in Text /\ answer'.call = calls'
  BY ProseIsText DEF TakeReply

(* The text of no call. *)
LEMMA EmptyIsText == Empty \in Text /\ Empty.call = 0
  BY ProseIsText DEF Empty

(* A reply that is JSON. *)
LEMMA JSONIsText == \A n \in Nat : Object(n) \in Text /\ Object(n).call = n
  BY DEF Object, Text, Languages

-----------------------------------------------------------------------------
(* What Deliver leaves in the result. *)
LEMMA DeliverEffect ==
  ASSUME NEW res \in Result, request \in Requests, Deliver(res)
  PROVE  result' \in Result /\ result'.error = res.error
  BY CriticisedOrNot DEF Deliver, Result

-----------------------------------------------------------------------------
(* Every step keeps the invariant: the stages of Run itself, ... *)
LEMMA StagesKeep ==
  ASSUME PipelineInv, Stages
  PROVE  PipelineInv'
<1> USE Limits, OneIntent, IntentStays, CriticisedOrNot, FS_EmptySet DEF PipelineInv,
   Planning, InPlan, WayRound, Generation, Budget, Planned, Fixing, Scoring, Held, stageVars,
   pevVars, feedbackVars, critiqueVars, Goto, Again, NoCall, Replies, Fails, Error,
   PEVStart, Deliver
<1>1. CASE Load
  BY <1>1 DEF Load, TypeOK, ModelTypeOK, WayInv, WorkInv, FailureInv, TextInv, ScoreInv,
     FormatInv, RoundsAreScores, EveryWayIsTried, UnmarkedOutputIsJSON, Phases, Result,
     CritiquePhases, FeedbackPhases, PEVPhases
<1>2. CASE Augment
  BY <1>2 DEF Augment, TypeOK, ModelTypeOK, WayInv, WorkInv, FailureInv, TextInv,
     ScoreInv, FormatInv, RoundsAreScores, EveryWayIsTried, UnmarkedOutputIsJSON,
     Phases, Result, CritiquePhases, FeedbackPhases, PEVPhases
<1>3. CASE PEVReturns
  <2> USE <1>3 DEF PEVReturns
  <2>1. TypeOK'
    BY DEF TypeOK, ModelTypeOK, Phases, Result
  <2>2. WayInv'
    BY DEF WayInv, PEVPhases, FeedbackPhases
  <2>3. WorkInv'
    BY DEF TypeOK, ModelTypeOK, WayInv, PEVPhases, WorkInv
  <2>4. FailureInv'
    BY DEF FailureInv, EveryWayIsTried, FeedbackPhases
  <2>5. TextInv'
    BY DEF TextInv
  <2>6. ScoreInv'
    BY DEF ScoreInv, CritiquePhases, RoundsAreScores
  <2>7. FormatInv'
    BY DEF WayInv, PEVPhases, CritiquePhases, FormatInv, UnmarkedOutputIsJSON
  <2>8. QED
    BY <2>1, <2>2, <2>3, <2>4, <2>5, <2>6, <2>7
<1>4. CASE PEVGivesUp
  BY <1>4 DEF PEVGivesUp, TypeOK, ModelTypeOK, WayInv, WorkInv, FailureInv, TextInv,
     ScoreInv, FormatInv, RoundsAreScores, EveryWayIsTried, UnmarkedOutputIsJSON,
     Phases, CritiquePhases, FeedbackPhases, PEVPhases
<1>5. CASE Reason
  <2> USE <1>5 DEF Reason
  <2>1. answer' \in Text /\ (answer'.call = calls' \/ (answer' = answer /\ phase' = "format"))
    BY ReplyIsText DEF TypeOK, ModelTypeOK
  <2>2. TypeOK'
    BY <2>1 DEF TypeOK, ModelTypeOK, Phases
  <2>3. WayInv'
    BY DEF WayInv, FeedbackPhases
  <2>4. WorkInv'
    BY DEF TypeOK, ModelTypeOK, WayInv, WorkInv
  <2>5. FailureInv'
    BY DEF TypeOK, ModelTypeOK, FailureInv, EveryWayIsTried
  <2>6. TextInv'
    <3>1. answer'.call <= calls' /\ answer'.call \notin broken
      BY <2>1 DEF TypeOK, ModelTypeOK, TextInv, Text
    <3>2. phase' = "synthesise" => answer'.call > 0
      BY <2>1 DEF TypeOK, ModelTypeOK, TextInv
    <3>3. QED
      BY <3>1, <3>2 DEF TextInv, CritiquePhases
  <2>7. ScoreInv'
    BY DEF ScoreInv, CritiquePhases, RoundsAreScores
  <2>8. FormatInv'
    BY DEF CritiquePhases, FormatInv, UnmarkedOutputIsJSON
  <2>9. QED
    BY <2>2, <2>3, <2>4, <2>5, <2>6, <2>7, <2>8
<1>6. CASE Synthesise
  <2> USE <1>6 DEF Synthesise
  <2>1. answer' \in Text /\ (answer' = answer \/ answer'.call = calls')
    BY ReplyIsText DEF TypeOK, ModelTypeOK
  <2>2. [result EXCEPT !.cot = TRUE] \in Result
    BY DEF TypeOK, Result
  <2>3. result' \in Result
    BY <2>2, DeliverEffect DEF TypeOK
  <2>4. TypeOK'
    BY <2>1, <2>3 DEF TypeOK, ModelTypeOK, Phases
  <2>5. WayInv'
    BY DEF WayInv, FeedbackPhases
  <2>6. WorkInv'
    BY DEF TypeOK, ModelTypeOK, WayInv, WorkInv
  <2>7. FailureInv'
    BY DEF WayInv, FailureInv, EveryWayIsTried, FeedbackPhases
  <2>8. TextInv'
    BY <2>1 DEF TypeOK, ModelTypeOK, TextInv, Text
  <2>9. ScoreInv'
    BY DEF ScoreInv, CritiquePhases, RoundsAreScores
  <2>10. FormatInv'
    BY DEF WayInv, CritiquePhases, FormatInv, UnmarkedOutputIsJSON
  <2>11. QED
    BY <2>4, <2>5, <2>6, <2>7, <2>8, <2>9, <2>10
<1>7. CASE FormatFails
  <2> USE <1>7 DEF FormatFails
  <2>1. TypeOK'
    BY DEF TypeOK, ModelTypeOK, Phases, Result
  <2>2. WayInv'
    BY DEF WayInv, PEVPhases, FeedbackPhases
  <2>3. WorkInv'
    BY DEF TypeOK, ModelTypeOK, WorkInv
  <2>4. FailureInv'
    BY DEF TypeOK, ModelTypeOK, FailureInv, EveryWayIsTried
  <2>5. TextInv'
    BY DEF TypeOK, ModelTypeOK, TextInv, CritiquePhases, Text
  <2>6. ScoreInv'
    BY DEF ScoreInv, CritiquePhases, RoundsAreScores
  <2>7. FormatInv'
    BY DEF CritiquePhases, FormatInv, UnmarkedOutputIsJSON
  <2>8. QED
    BY <2>1, <2>2, <2>3, <2>4, <2>5, <2>6, <2>7
<1>8. CASE FormatReplies
  <2> USE <1>8 DEF FormatReplies
  <2>1. calls' \in Nat
    BY DEF TypeOK, ModelTypeOK
  <2>2. answer' \in Text /\ answer'.call = calls'
    <3>1. CASE TakeReply
      BY <2>1, <3>1, ReplyIsText
    <3>2. CASE \E code \in Languages : answer' = Snippet(calls', code)
      BY <2>1, <3>2, SnippetIsText
    <3>3. CASE answer' = Object(calls')
      BY <2>1, <3>3, JSONIsText
    <3>4. QED
      BY <3>1, <3>2, <3>3
  <2>3. result' \in Result /\ result'.error = result.error
    BY DeliverEffect DEF TypeOK
  <2>4. TypeOK'
    BY <2>2 DEF TypeOK, ModelTypeOK, Phases, Result
  <2>5. WayInv'
    BY <2>3 DEF WayInv, PEVPhases, FeedbackPhases
  <2>6. WorkInv'
    BY DEF WorkInv, TypeOK, ModelTypeOK
  <2>7. FailureInv'
    BY <2>3 DEF FailureInv, EveryWayIsTried, FeedbackPhases
  <2>8. TextInv'
    BY <2>2 DEF TypeOK, ModelTypeOK, TextInv
  <2>9. ScoreInv'
    BY DEF ScoreInv, CritiquePhases, RoundsAreScores
  <2>10. FormatInv'
    BY DEF TypeOK, Result, CritiquePhases, FormatInv, UnmarkedOutputIsJSON
  <2>11. QED
    BY <2>4, <2>5, <2>6, <2>7, <2>8, <2>9, <2>10
<1>9. CASE Correct
  <2> USE <1>9 DEF Correct
  <2>1. answer' \in Text /\ (answer' = answer \/ answer'.call = calls')
    <3>1. calls' \in Nat /\ answer \in Text
      BY DEF TypeOK, ModelTypeOK
    <3>2. CASE TakeReply
      BY <3>1, <3>2, ReplyIsText
    <3>3. CASE answer' = Object(calls')
      BY <3>1, <3>3, JSONIsText
    <3>4. QED
      BY <3>1, <3>2, <3>3
  <2>2. [result EXCEPT !.formatError = ~answer'.json] \in Result
    BY DEF TypeOK, Result
  <2>3. result' \in Result
    BY <2>2, DeliverEffect DEF TypeOK
  <2>4. TypeOK'
    BY <2>1, <2>3 DEF TypeOK, ModelTypeOK, Phases
  <2>5. WayInv'
    BY DEF WayInv, PEVPhases, FeedbackPhases
  <2>6. WorkInv'
    BY DEF TypeOK, ModelTypeOK, WorkInv
  <2>7. FailureInv'
    BY DEF WayInv, FailureInv, EveryWayIsTried, FeedbackPhases
  <2>8. TextInv'
    BY <2>1 DEF TypeOK, ModelTypeOK, TextInv, Text
  <2>9. ScoreInv'
    BY DEF ScoreInv, CritiquePhases, RoundsAreScores
  <2>10. FormatInv'
    BY DEF TypeOK, Result, CritiquePhases, FormatInv, UnmarkedOutputIsJSON
  <2>11. QED
    BY <2>4, <2>5, <2>6, <2>7, <2>8, <2>9, <2>10
<1>10. CASE FeedbackBegins
  <2> USE <1>10 DEF FeedbackBegins
  <2>1. phase = "feedback" /\ phase' \in {"run", "score", "done"} /\ (result'.error = "none" \/ phase' = "done")
    BY DEF WayInv, TypeOK, Result
  <2>2. TypeOK'
    BY DEF TypeOK, ModelTypeOK, Phases, Result
  <2>3. WayInv'
    BY <2>1 DEF WayInv, FeedbackPhases
  <2>4. WorkInv'
    BY DEF TypeOK, ModelTypeOK, WayInv, FeedbackPhases, WorkInv
  <2>5. FailureInv'
    BY DEF TypeOK, Result, FailureInv, EveryWayIsTried, FeedbackPhases
  <2>6. TextInv'
    BY DEF TextInv
  <2>7. ScoreInv'
    BY DEF ScoreInv, CritiquePhases, RoundsAreScores
  <2>8. FormatInv'
    BY DEF TypeOK, Result, WayInv, FeedbackPhases, CritiquePhases, FormatInv,
       UnmarkedOutputIsJSON
  <2>9. QED
    BY <2>2, <2>3, <2>4, <2>5, <2>6, <2>7, <2>8
<1>11. CASE FeedbackEnds
  <2> USE <1>11 DEF FeedbackEnds
  <2>1. TypeOK'
    BY DEF TypeOK, ModelTypeOK, Phases, Result
  <2>2. WayInv'
    BY DEF WayInv, FeedbackPhases
  <2>3. WorkInv'
    BY DEF TypeOK, ModelTypeOK, WayInv, FeedbackPhases, WorkInv
  <2>4. FailureInv'
    BY DEF FailureInv, EveryWayIsTried, FeedbackPhases
  <2>5. TextInv'
    BY DEF TextInv, Lost
  <2>6. ScoreInv'
    BY DEF ScoreInv, CritiquePhases, RoundsAreScores
  <2>7. FormatInv'
    BY DEF WayInv, FeedbackPhases, CritiquePhases, FormatInv, UnmarkedOutputIsJSON
  <2>8. QED
    BY <2>1, <2>2, <2>3, <2>4, <2>5, <2>6, <2>7
<1>12. QED
  BY <1>1, <1>2, <1>3, <1>4, <1>5, <1>6, <1>7, <1>8, <1>9, <1>10, <1>11 DEF Stages

(* ... the planning, ... *)
LEMMA PEVKeeps ==
  ASSUME PipelineInv, PEVNext, UNCHANGED <<feedbackVars, critiqueVars, request, result>>
  PROVE  PipelineInv'
<1> USE Limits, OneIntent, IntentStays, CriticisedOrNot, FS_EmptySet DEF PipelineInv,
   Planning, InPlan, WayRound, Generation, Budget, Planned, Fixing, Scoring, Held, stageVars,
   pevVars, feedbackVars, critiqueVars, Goto, Again, NoCall, Replies, Fails, PEVStart
<1>1. CASE PlanIsCode
  BY <1>1 DEF PlanIsCode, TypeOK, ModelTypeOK, WayInv, WorkInv, FailureInv, TextInv,
     ScoreInv, FormatInv, RoundsAreScores, EveryWayIsTried, UnmarkedOutputIsJSON,
     Phases, CritiquePhases, FeedbackPhases, PEVPhases, Text
<1>2. CASE PlanIsUseless
  BY <1>2 DEF PlanIsUseless, TypeOK, ModelTypeOK, WayInv, WorkInv, FailureInv, TextInv,
     ScoreInv, FormatInv, RoundsAreScores, EveryWayIsTried, UnmarkedOutputIsJSON,
     Phases, CritiquePhases, FeedbackPhases, PEVPhases, Text
<1>3. CASE PlanFails
  BY <1>3 DEF PlanFails, TypeOK, ModelTypeOK, WayInv, WorkInv, FailureInv, TextInv,
     ScoreInv, FormatInv, RoundsAreScores, EveryWayIsTried, UnmarkedOutputIsJSON,
     Phases, CritiquePhases, FeedbackPhases, PEVPhases, Text
<1>4. CASE PlanIsMade
  BY <1>4 DEF PlanIsMade, TypeOK, ModelTypeOK, WayInv, WorkInv, FailureInv, TextInv,
     ScoreInv, FormatInv, RoundsAreScores, EveryWayIsTried, UnmarkedOutputIsJSON,
     Phases, CritiquePhases, FeedbackPhases, PEVPhases, Text
<1>5. CASE StepReplies
  <2> USE <1>5 DEF StepReplies
  <2>1. answer' \in Text /\ (answer'.call = calls' \/ (answer' = answer /\ phase' = "execute"))
    BY ReplyIsText DEF TypeOK, ModelTypeOK
  <2>2. TypeOK'
    BY <2>1 DEF TypeOK, ModelTypeOK, Phases
  <2>3. WayInv'
    BY DEF WayInv, PEVPhases, FeedbackPhases
  <2>4. WorkInv'
    BY DEF TypeOK, ModelTypeOK, CritiquePhases, WorkInv
  <2>5. FailureInv'
    BY DEF FailureInv, EveryWayIsTried, FeedbackPhases
  <2>6. TextInv'
    <3>1. answer'.call <= calls' /\ answer'.call \notin broken
      BY <2>1 DEF TypeOK, ModelTypeOK, TextInv, Text
    <3>2. phase' = "verify" => answer'.call > 0
      BY <2>1 DEF TypeOK, ModelTypeOK, TextInv
    <3>3. QED
      BY <3>1, <3>2 DEF TextInv, CritiquePhases
  <2>7. ScoreInv'
    BY DEF ScoreInv, CritiquePhases, RoundsAreScores
  <2>8. FormatInv'
    BY DEF CritiquePhases, FormatInv, UnmarkedOutputIsJSON
  <2>9. QED
    BY <2>2, <2>3, <2>4, <2>5, <2>6, <2>7, <2>8
<1>6. CASE StepFails
  BY <1>6 DEF StepFails, TypeOK, ModelTypeOK, WayInv, WorkInv, FailureInv, TextInv,
     ScoreInv, FormatInv, RoundsAreScores, EveryWayIsTried, UnmarkedOutputIsJSON,
     Phases, CritiquePhases, FeedbackPhases, PEVPhases, Text
<1>7. CASE Verify
  BY <1>7 DEF Verify, TypeOK, ModelTypeOK, WayInv, WorkInv, FailureInv, TextInv,
     ScoreInv, FormatInv, RoundsAreScores, EveryWayIsTried, UnmarkedOutputIsJSON,
     Phases, CritiquePhases, FeedbackPhases, PEVPhases, Text
<1>8. CASE DirectReplies
  <2> USE <1>8 DEF DirectReplies
  <2>1. answer' \in Text /\ answer'.call = calls'
    BY ReplyIsText DEF TypeOK, ModelTypeOK
  <2>2. QED
    BY <2>1 DEF TypeOK, ModelTypeOK, WayInv, WorkInv, FailureInv, TextInv,
       ScoreInv, FormatInv, RoundsAreScores, EveryWayIsTried, UnmarkedOutputIsJSON,
       Phases, CritiquePhases, FeedbackPhases, PEVPhases
<1>9. CASE DirectFails
  BY <1>9 DEF DirectFails, TypeOK, ModelTypeOK, WayInv, WorkInv, FailureInv, TextInv,
     ScoreInv, FormatInv, RoundsAreScores, EveryWayIsTried, UnmarkedOutputIsJSON,
     Phases, CritiquePhases, FeedbackPhases, PEVPhases, Text
<1>10. QED
  BY <1>1, <1>2, <1>3, <1>4, <1>5, <1>6, <1>7, <1>8, <1>9 DEF PEVNext

(* ... the code feedback, ... *)
LEMMA FeedbackKeeps ==
  ASSUME PipelineInv, FeedbackNext, UNCHANGED <<pevVars, critiqueVars, request, result>>
  PROVE  PipelineInv'
<1> USE Limits, OneIntent, IntentStays, CriticisedOrNot, FS_EmptySet DEF PipelineInv,
   Planning, InPlan, WayRound, Generation, Budget, Planned, Fixing, Scoring, Held, stageVars,
   pevVars, feedbackVars, critiqueVars, Goto, Again, NoCall, Replies, Fails,
   FeedbackReturns, Breaks, CodeHasRun, AssertionsHaveRun, Holds
<1>1. CASE RunCode
  <2> USE <1>1 DEF RunCode
  <2>1. broken \subseteq 1..calls' /\ scored \subseteq (0..calls') \X (Scores \cup {0})
    BY HistoriesFit
  <2>2. answer.call \in 1..calls'
    BY DEF TypeOK, ModelTypeOK, TextInv, Text
  <2>3. broken' \subseteq 1..calls'
    BY <2>1, <2>2
  <2>4. TypeOK'
    BY <2>3 DEF TypeOK, ModelTypeOK, Phases
  <2>5. WayInv'
    BY DEF WayInv, FeedbackPhases
  <2>6. WorkInv'
    BY DEF TypeOK, ModelTypeOK, CritiquePhases, WorkInv
  <2>7. FailureInv'
    BY DEF FailureInv, EveryWayIsTried, FeedbackPhases
  <2>8. TextInv'
    BY DEF TextInv
  <2>9. ScoreInv'
    BY DEF ScoreInv, CritiquePhases, RoundsAreScores
  <2>10. FormatInv'
    BY DEF CritiquePhases, FormatInv, UnmarkedOutputIsJSON
  <2>11. QED
    BY <2>4, <2>5, <2>6, <2>7, <2>8, <2>9, <2>10
<1>2. CASE NoAssertions
  BY <1>2 DEF NoAssertions, TypeOK, ModelTypeOK, WayInv, WorkInv, FailureInv, TextInv,
     ScoreInv, FormatInv, RoundsAreScores, EveryWayIsTried, UnmarkedOutputIsJSON,
     Phases, CritiquePhases, FeedbackPhases, Lost, Text
<1>3. CASE Assertions
  <2> USE <1>3 DEF Assertions
  <2>1. broken \subseteq 1..calls' /\ scored \subseteq (0..calls') \X (Scores \cup {0})
    BY HistoriesFit
  <2>2. answer.call \in 1..calls'
    BY DEF TypeOK, ModelTypeOK, TextInv, Text
  <2>3. broken' \subseteq 1..calls'
    BY <2>1, <2>2
  <2>4. TypeOK'
    BY <2>3 DEF TypeOK, ModelTypeOK, Phases
  <2>5. WayInv'
    BY DEF WayInv, FeedbackPhases
  <2>6. WorkInv'
    BY DEF TypeOK, ModelTypeOK, CritiquePhases, WorkInv
  <2>7. FailureInv'
    BY DEF FailureInv, EveryWayIsTried, FeedbackPhases
  <2>8. TextInv'
    BY DEF TypeOK, ModelTypeOK, TextInv, Lost, Text
  <2>9. ScoreInv'
    BY DEF ScoreInv, CritiquePhases, RoundsAreScores
  <2>10. FormatInv'
    BY DEF CritiquePhases, FormatInv, UnmarkedOutputIsJSON
  <2>11. QED
    BY <2>4, <2>5, <2>6, <2>7, <2>8, <2>9, <2>10
<1>4. CASE FixFails
  BY <1>4, EmptyIsText DEF FixFails, TypeOK, ModelTypeOK, WayInv, WorkInv, FailureInv, TextInv,
     ScoreInv, FormatInv, RoundsAreScores, EveryWayIsTried, UnmarkedOutputIsJSON,
     Phases, CritiquePhases, FeedbackPhases, Lost
<1>5. CASE FixReplies
  <2> USE <1>5 DEF FixReplies
  <2>1. UNCHANGED request /\ calls' \in {calls, calls + 1}
    OBVIOUS
  <2>2. calls' \in Nat /\ answer.code \in Languages
    BY DEF TypeOK, ModelTypeOK, Text
  <2>3. answer' = Snippet(calls', answer.code) \/ TakeReply
    OBVIOUS
  <2>4. answer' \in Text /\ answer'.call = calls'
    BY <2>2, <2>3, SnippetIsText, ReplyIsText
  <2>5. TypeOK'
    BY <2>4 DEF TypeOK, ModelTypeOK, Phases
  <2>6. WayInv'
    BY DEF WayInv, FeedbackPhases
  <2>7. WorkInv'
    BY <2>1 DEF TypeOK, CritiquePhases, WorkInv
  <2>8. FailureInv'
    BY DEF FailureInv, EveryWayIsTried, FeedbackPhases
  <2>9. TextInv'
    BY <2>4 DEF TypeOK, ModelTypeOK, TextInv, Lost
  <2>10. ScoreInv'
    BY DEF ScoreInv, CritiquePhases, RoundsAreScores
  <2>11. FormatInv'
    BY DEF CritiquePhases, FormatInv, UnmarkedOutputIsJSON
  <2>12. QED
    BY <2>5, <2>6, <2>7, <2>8, <2>9, <2>10, <2>11
<1>6. QED
  BY <1>1, <1>2, <1>3, <1>4, <1>5 DEF FeedbackNext

(* ... the child of a snippet that leaves, ... *)
LEMMA ChildKeeps ==
  ASSUME PipelineInv, ChildLeaves, UNCHANGED <<pevVars, critiqueVars, request, result>>
  PROVE  PipelineInv'
<1> USE Limits, OneIntent, IntentStays DEF PipelineInv, ChildLeaves,
   Planning, InPlan, WayRound, Generation, Budget, Planned, Fixing, Scoring, Held,
   pevVars, critiqueVars, Goto, NoCall,
   FeedbackReturns, Breaks, CodeHasRun, AssertionsHaveRun
<1>1. answer.call \in 1..calls'
  BY DEF TypeOK, ModelTypeOK, TextInv, Text
<1>2. broken' \subseteq 1..calls'
  BY <1>1 DEF TypeOK
<1>3. TypeOK'
  BY <1>2 DEF TypeOK, ModelTypeOK, Phases
<1>4. WayInv'
  BY DEF WayInv, PEVPhases, FeedbackPhases
<1>5. WorkInv'
  BY DEF TypeOK, ModelTypeOK, CritiquePhases, WorkInv
<1>6. FailureInv'
  BY DEF FailureInv, EveryWayIsTried, FeedbackPhases
<1>7. TextInv'
  BY DEF TypeOK, ModelTypeOK, TextInv, CritiquePhases, Lost, Text
<1>8. ScoreInv'
  BY DEF ScoreInv, CritiquePhases, RoundsAreScores
<1>9. FormatInv'
  BY DEF CritiquePhases, FormatInv, UnmarkedOutputIsJSON
<1>10. QED
  BY <1>3, <1>4, <1>5, <1>6, <1>7, <1>8, <1>9

(* ... a reply without choices, ... *)
LEMMA NoChoicesKeeps ==
  ASSUME PipelineInv, NoChoices, UNCHANGED <<stageVars, result>>
  PROVE  PipelineInv'
<1> USE Limits, OneIntent, IntentStays DEF PipelineInv, NoChoices, stageVars,
   pevVars, feedbackVars, critiqueVars, Replies
<1>1. TypeOK'
  BY HistoriesFit DEF TypeOK, ModelTypeOK, Phases
<1>2. WayInv'
  BY DEF WayInv, PEVPhases, FeedbackPhases, Held, Calling
<1>3. calls' <= Budget
  BY DEF TypeOK, ModelTypeOK, Calling, WayInv, PEVPhases, FeedbackPhases, WorkInv,
     CritiquePhases, Planning, InPlan, WayRound, Generation, Budget, Planned, Fixing,
     Scoring
<1>4. WorkInv'
  BY <1>3 DEF WorkInv, Held, CritiquePhases, Budget, Generation, Planning, InPlan, WayRound
<1>5. FailureInv'
  BY DEF FailureInv, EveryWayIsTried, FeedbackPhases, Held
<1>6. TextInv'
  <2>1. answer.call <= calls' /\ phase' = "panicked"
    BY DEF TypeOK, ModelTypeOK, TextInv, Text
  <2>2. QED
    BY <2>1 DEF TextInv, CritiquePhases, Held
<1>7. ScoreInv'
  BY DEF ScoreInv, CritiquePhases, RoundsAreScores, Calling
<1>8. FormatInv'
  BY DEF CritiquePhases, FormatInv, UnmarkedOutputIsJSON
<1>9. QED
  BY <1>1, <1>2, <1>4, <1>5, <1>6, <1>7, <1>8

(* ... and the critique. *)
LEMMA CritiqueKeeps ==
  ASSUME PipelineInv, CritiqueNext, UNCHANGED <<pevVars, feedbackVars, request, result>>
  PROVE  PipelineInv'
<1> USE Limits, OneIntent, IntentStays, CriticisedOrNot, FS_EmptySet DEF PipelineInv,
   Planning, InPlan, WayRound, Generation, Budget, Planned, Fixing, Scoring, Held, stageVars,
   pevVars, feedbackVars, critiqueVars, Goto, Again, NoCall, Replies, Fails,
   CritiqueReturns, Take
<1>1. CASE ScoreIsGood
  <2> USE <1>1 DEF ScoreIsGood
  <2>1. PICK score \in Scores \cup {0} : Take(score) /\ phase = "score" /\ calls' = calls + 1
    OBVIOUS
  <2>2. scored' \subseteq (0..calls') \X (Scores \cup {0})
    BY DEF TypeOK, ModelTypeOK, TextInv, Text
  <2>3. <<answer.call, score>> \notin scored
    BY DEF ScoreInv, TypeOK
  <2>4. scored' = scored \cup {<<answer.call, score>>}
    BY <2>1
  <2>5. IsFiniteSet(scored') /\ Cardinality(scored') = Cardinality(scored) + 1
    BY <2>3, <2>4, FS_AddElement DEF ScoreInv
  <2>6. bestScore' \in Scores \cup {0} /\ rounds' \in 0..maxRounds
    BY DEF TypeOK, WorkInv, CritiquePhases
  <2>7. TypeOK'
    BY <2>2, <2>6 DEF TypeOK, ModelTypeOK, Phases
  <2>8. WayInv'
    BY DEF WayInv, PEVPhases, FeedbackPhases
  <2>9. WorkInv'
    BY DEF TypeOK, ModelTypeOK, CritiquePhases, WorkInv
  <2>10. FailureInv'
    BY DEF FailureInv, EveryWayIsTried, FeedbackPhases
  <2>11. TextInv'
    BY DEF TypeOK, ModelTypeOK, TextInv, CritiquePhases, Lost, Text
  <2>12. ScoreInv'
    BY <2>5 DEF TypeOK, ModelTypeOK, ScoreInv, CritiquePhases, RoundsAreScores
  <2>13. FormatInv'
    BY DEF CritiquePhases, FormatInv, UnmarkedOutputIsJSON
  <2>14. QED
    BY <2>7, <2>8, <2>9, <2>10, <2>11, <2>12, <2>13
<1>2. CASE ScoreIsLow
  <2> USE <1>2 DEF ScoreIsLow
  <2>1. PICK score \in Scores \cup {0} : Take(score) /\ phase = "score" /\ calls' = calls + 1
    OBVIOUS
  <2>2. scored' \subseteq (0..calls') \X (Scores \cup {0})
    BY DEF TypeOK, ModelTypeOK, TextInv, Text
  <2>3. <<answer.call, score>> \notin scored
    BY DEF ScoreInv, TypeOK
  <2>4. scored' = scored \cup {<<answer.call, score>>}
    BY <2>1
  <2>5. IsFiniteSet(scored') /\ Cardinality(scored') = Cardinality(scored) + 1
    BY <2>3, <2>4, FS_AddElement DEF ScoreInv
  <2>6. TypeOK'
    BY <2>2 DEF TypeOK, ModelTypeOK, Phases
  <2>7. WayInv'
    BY DEF WayInv, PEVPhases, FeedbackPhases
  <2>8. WorkInv'
    BY DEF TypeOK, ModelTypeOK, CritiquePhases, WorkInv
  <2>9. FailureInv'
    BY DEF FailureInv, EveryWayIsTried, FeedbackPhases
  <2>10. TextInv'
    BY DEF TypeOK, ModelTypeOK, TextInv, CritiquePhases, Lost, Text
  <2>11. ScoreInv'
    BY <2>5 DEF TypeOK, ModelTypeOK, ScoreInv, CritiquePhases, RoundsAreScores
  <2>12. FormatInv'
    BY DEF CritiquePhases, FormatInv, UnmarkedOutputIsJSON
  <2>13. QED
    BY <2>6, <2>7, <2>8, <2>9, <2>10, <2>11, <2>12
<1>3. CASE ScoreFails
  BY <1>3 DEF ScoreFails, TypeOK, ModelTypeOK, WayInv, WorkInv, FailureInv, TextInv,
     ScoreInv, FormatInv, RoundsAreScores, EveryWayIsTried, UnmarkedOutputIsJSON,
     Phases, CritiquePhases, FeedbackPhases, PEVPhases, Lost, Text
<1>4. CASE Improve
  <2> USE <1>4 DEF Improve
  <2>1. answer' \in Text /\ answer'.call = calls'
    BY ReplyIsText DEF TypeOK, ModelTypeOK
  <2>2. QED
    BY <2>1 DEF TypeOK, ModelTypeOK, WayInv, WorkInv, FailureInv, TextInv,
       ScoreInv, FormatInv, RoundsAreScores, EveryWayIsTried, UnmarkedOutputIsJSON,
       Phases, CritiquePhases, FeedbackPhases, PEVPhases
<1>5. CASE ImproveFails
  BY <1>5 DEF ImproveFails, TypeOK, ModelTypeOK, WayInv, WorkInv, FailureInv, TextInv,
     ScoreInv, FormatInv, RoundsAreScores, EveryWayIsTried, UnmarkedOutputIsJSON,
     Phases, CritiquePhases, FeedbackPhases, PEVPhases, Lost, Text
<1>6. QED
  BY <1>1, <1>2, <1>3, <1>4, <1>5 DEF CritiqueNext

-----------------------------------------------------------------------------
(* A request starts with no call made. *)
LEMMA PipelineStarts == Init => PipelineInv
<1> SUFFICES ASSUME Init PROVE PipelineInv
  OBVIOUS
<1> USE Limits DEF Init
<1>1. maxRounds \in Nat \ {0}
  BY PipelineAssumption DEF Request
<1>2. result \in Result
  BY DEF NoResult, Result
<1>3. phase \in Phases /\ round \in Nat /\ failures \in 0..calls /\ calls \in Nat /\ answer \in Text
  BY EmptyIsText DEF Phases
<1>4. rounds \in 0..maxRounds /\ steps \in 0..MaxSteps
  BY <1>1
<1>5. TypeOK
  BY <1>1, <1>2, <1>3, <1>4 DEF TypeOK, ModelTypeOK
<1>6. IsFiniteSet(scored) /\ Cardinality(scored) = 0
  BY FS_EmptySet
<1>7. WayInv /\ WorkInv /\ FailureInv
  BY DEF Held, WayInv, WorkInv, FailureInv, NoResult, PEVPhases, FeedbackPhases,
     CritiquePhases, EveryWayIsTried
<1>8. TextInv /\ ScoreInv /\ FormatInv
  BY <1>6, EmptyIsText DEF Held, TextInv, ScoreInv, FormatInv, CritiquePhases, RoundsAreScores,
     UnmarkedOutputIsJSON
<1>9. QED
  BY <1>5, <1>7, <1>8 DEF PipelineInv

(* Every step of a request keeps the invariant. *)
LEMMA PipelineKept == PipelineInv /\ [Next]_vars => PipelineInv'
<1> SUFFICES ASSUME PipelineInv, [Next]_vars PROVE PipelineInv'
  OBVIOUS
<1>1. CASE UNCHANGED vars
  <2>1. UNCHANGED <<phase, round, answer, calls, failures, steps, pevScore, feedback, broken,
                    maxRounds, bestScore, rounds, scored, request, result>>
    BY <1>1 DEF vars, modelVars, pevVars, feedbackVars, critiqueVars
  <2>2. TypeOK'
    BY <2>1 DEF PipelineInv, TypeOK, ModelTypeOK
  <2>3. WayInv' /\ FailureInv'
    BY <2>1, IntentStays DEF PipelineInv, WayInv, FailureInv, EveryWayIsTried
  <2>4. WorkInv'
    BY <2>1, IntentStays DEF PipelineInv, WorkInv, Planned, InPlan, Fixing, Scoring,
       Budget, Generation, WayRound
  <2>5. TextInv' /\ ScoreInv' /\ FormatInv'
    BY <2>1, IntentStays DEF PipelineInv, TextInv, ScoreInv, FormatInv, Lost,
       RoundsAreScores, UnmarkedOutputIsJSON
  <2>6. QED
    BY <2>2, <2>3, <2>4, <2>5 DEF PipelineInv
<1>2. QED
  BY <1>1, StagesKeep, PEVKeeps, FeedbackKeeps, CritiqueKeeps, ChildKeeps, NoChoicesKeeps
     DEF Next, Advances

(* Whatever the model answers and whichever calls fail, the types, the way of
   a request, its counts, its text and its scores fit together. *)
THEOREM PipelineInvariance == Spec => []PipelineInv
<1>1. QED
  BY PipelineStarts, PipelineKept, PTL DEF Spec

(* What a caller may rely on: an error only after every way has failed, no code
   that was seen to fail, rounds that are scores, JSON where no error of format
   is marked. *)
THEOREM OutcomeIsSafe == Spec => []PipelineSafety
<1>1. PipelineInv => PipelineSafety
  BY DEF PipelineInv, PipelineSafety, TextInv, FailureInv, ScoreInv, FormatInv,
     BrokenCodeIsReplaced
<1>2. QED
  BY <1>1, PipelineInvariance, PTL

(* No answer of the model makes a request cost more calls than its budget. *)
THEOREM CallsAreBounded == Spec => []WorkIsBounded
<1>1. PipelineInv => WorkIsBounded
  <2> SUFFICES ASSUME PipelineInv PROVE calls <= Budget
    BY DEF WorkIsBounded
  <2>1. phase \in Phases /\ calls \in Nat /\ steps \in Nat /\ maxRounds \in Nat /\ round \in Nat
    BY DEF PipelineInv, TypeOK, ModelTypeOK
  <2>2. QED
    BY <2>1, Limits DEF PipelineInv, WorkInv, WayInv, Phases, PEVPhases, FeedbackPhases,
       CritiquePhases, Held, Planned, Planning, InPlan, Fixing, Scoring, Budget, Generation,
       WayRound
<1>2. QED
  BY <1>1, PipelineInvariance, PTL

(* A passing score was given to the text that is returned. *)
THEOREM ScoresAreGiven == Spec => []PassingScoreIsTheAnswers
<1>1. PipelineInv => PassingScoreIsTheAnswers
  BY DEF PipelineInv, TypeOK, ScoreInv, PassingScoreIsTheAnswers
<1>2. QED
  BY <1>1, PipelineInvariance, PTL

(* A caller without a text got an empty reply of the model, or a fix failed of
   code that was seen to fail. *)
THEOREM TextIsLostByFixes == Spec => []OnlyAFixLosesTheText
<1>1. PipelineInv => OnlyAFixLosesTheText
  BY DEF PipelineInv, TypeOK, ModelTypeOK, Text, TextInv, Lost, OnlyAFixLosesTheText
<1>2. QED
  BY <1>1, PipelineInvariance, PTL
=============================================================================
