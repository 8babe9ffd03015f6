\* Four turns: a nudge, two commands and what ends the loop.  A request ends:
\* CHECK_DEADLOCK FALSE.
SPECIFICATION AgentSpec
CONSTANTS
    Inputs <- MCInputs
    NoInput = NoInput
    MaxAgentSteps = 4
INVARIANTS
    AgentSafety
    ReportIsTheWork
PROPERTY Returns
CHECK_DEADLOCK FALSE
