\* The limits of the code; plans of at most two steps; scores below, at and
\* above the threshold.  A request ends: CHECK_DEADLOCK FALSE.
SPECIFICATION Spec
CONSTANTS
    MaxPlanRetries = 2
    MaxSteps = 2
    MaxFeedbackRounds = 3
    DefaultRounds = 3
    Scores = {3, 5, 7, 9}
    PassThreshold = 7
    Requests <- MCRequests
INVARIANTS
    PipelineSafety
    WorkIsBounded
    PassingScoreIsTheAnswers
    OnlyAFixLosesTheText
PROPERTY Answered
CHECK_DEADLOCK FALSE
