---------------------------- MODULE SelfCritique ----------------------------
(***************************************************************************)
(* The scored self-critique (internal/orchestration/self_critique.go): the *)
(* model scores the answer; below PassThreshold it is asked for a better   *)
(* one, which the next round scores.  CritiqueLoop returns at "done", with *)
(* the number of rounds and the best score; it never returns an error.     *)
(***************************************************************************)
EXTENDS ModelCalls

CONSTANT PassThreshold  \* critiquePassThreshold (7)

VARIABLES
    maxRounds,      \* the rounds this request may use
    bestScore,      \* the best score so far, and the one returned
    rounds,         \* the rounds returned
    scored          \* history: the scores given: <<call, score>>

critiqueVars == <<maxRounds, bestScore, rounds, scored>>

CritiqueReturns(n) ==
    /\ Goto("done")
    /\ rounds' = n

(* The score of this round is the answer's from now on. *)
Take(score) ==
    /\ scored' = scored \cup {<<answer.call, score>>}
    /\ bestScore' = IF score > bestScore THEN score ELSE bestScore

ScoreIsGood ==
    /\ phase = "score"
    /\ Replies
    /\ \E score \in {s \in Scores : s >= PassThreshold} : Take(score)
    /\ CritiqueReturns(round)
    /\ UNCHANGED <<answer, maxRounds>>

(* Slip: a score at the threshold is not good enough. *)
ScoreIsLowAtThreshold ==
    /\ phase = "score"
    /\ Replies
    /\ \E score \in {s \in Scores \cup {0} : s <= PassThreshold} : Take(score)
    /\ phase' = "improve"
    /\ UNCHANGED <<round, answer, maxRounds, rounds>>

(* A score that cannot be read is 0. *)
ScoreIsLow ==
    /\ phase = "score"
    /\ Replies
    /\ \E score \in {s \in Scores \cup {0} : s < PassThreshold} : Take(score)
    /\ phase' = "improve"
    /\ UNCHANGED <<round, answer, maxRounds, rounds>>

ScoreFails ==
    /\ phase = "score"
    /\ Fails
    /\ CritiqueReturns(round - 1)
    /\ UNCHANGED <<answer, maxRounds, bestScore, scored>>

(* The improvement of the last round is returned without a score. *)
Improve ==
    /\ phase = "improve"
    /\ Replies
    /\ TakeReply
    /\ IF round < maxRounds
       THEN phase' = "score" /\ round' = round + 1 /\ UNCHANGED rounds
       ELSE CritiqueReturns(maxRounds)
    /\ UNCHANGED <<maxRounds, bestScore, scored>>

(* Slip: what the failed call returned is the answer. *)
ImproveFailsEmpty ==
    /\ phase = "improve"
    /\ Fails
    /\ CritiqueReturns(round)
    /\ answer' = Empty
    /\ UNCHANGED <<maxRounds, bestScore, scored>>

ImproveFails ==
    /\ phase = "improve"
    /\ Fails
    /\ CritiqueReturns(round)
    /\ UNCHANGED <<answer, maxRounds, bestScore, scored>>

CritiqueNext ==
    ScoreIsGood \/ ScoreIsLow \/ ScoreFails \/ Improve \/ ImproveFails
=============================================================================
