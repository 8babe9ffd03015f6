-------------------------------- MODULE PEV ---------------------------------
(***************************************************************************)
(* Plan, execute, verify (internal/orchestration/pev.go).  The model is    *)
(* asked for a plan and asked again while it answers with code; a plan is  *)
(* carried out one call per step; the outcome is scored.  Without a plan   *)
(* the question is put to the model directly.  Run returns its text at     *)
(* "pevDone" and its error at "pevFailed".                                 *)
(***************************************************************************)
EXTENDS ModelCalls

CONSTANTS
    MaxPlanRetries, \* pevMaxPlanRetries (2)
    MaxSteps        \* bound: the longest plan the model makes; the code has none

VARIABLES
    steps,          \* len(plan.Steps)
    pevScore        \* vr.Score

pevVars == <<steps, pevScore>>

PEVStart == Goto("plan")

(* Slip: one retry too many. *)
PlanIsCodeAgain ==
    /\ phase = "plan"
    /\ Replies
    /\ IF round <= MaxPlanRetries + 1 THEN Again ELSE Goto("direct")
    /\ UNCHANGED <<answer, pevVars>>

(* The reply contains code: ask again, or give the plan up. *)
PlanIsCode ==
    /\ phase = "plan"
    /\ Replies
    /\ IF round <= MaxPlanRetries THEN Again ELSE Goto("direct")
    /\ UNCHANGED <<answer, pevVars>>

(* The reply is no JSON or has no steps. *)
PlanIsUseless ==
    /\ phase = "plan"
    /\ Replies
    /\ Goto("direct")
    /\ UNCHANGED <<answer, pevVars>>

PlanFails ==
    /\ phase = "plan"
    /\ Fails
    /\ Goto("direct")
    /\ UNCHANGED <<answer, pevVars>>

PlanIsMade ==
    /\ phase = "plan"
    /\ Replies
    /\ steps' \in 1..MaxSteps
    /\ Goto("execute")
    /\ UNCHANGED <<answer, pevScore>>

(* runExecutePhase joins the replies by line ends; the text is known by the
   last one, and is empty only if that is the only one. *)
StepReplies ==
    /\ phase = "execute"
    /\ Replies
    /\ IF round < steps
       THEN Again /\ UNCHANGED answer
       ELSE /\ Goto("verify")
            /\ TakeReply /\ (answer'.blank => steps = 1)
    /\ UNCHANGED pevVars

StepFails ==
    /\ phase = "execute"
    /\ Fails
    /\ Goto("pevFailed")
    /\ UNCHANGED <<answer, pevVars>>

(* A verification that fails or cannot be read scores 0, and Run ignores it. *)
Verify ==
    /\ phase = "verify"
    /\ \/ Replies /\ pevScore' \in Scores \cup {0}
       \/ Fails /\ pevScore' = 0
    /\ Goto("pevDone")
    /\ UNCHANGED <<answer, steps>>

DirectReplies ==
    /\ phase = "direct"
    /\ Replies
    /\ TakeReply
    /\ pevScore' = 0
    /\ Goto("pevDone")
    /\ UNCHANGED steps

DirectFails ==
    /\ phase = "direct"
    /\ Fails
    /\ Goto("pevFailed")
    /\ UNCHANGED <<answer, pevVars>>

PEVNext ==
    \/ PlanIsCode \/ PlanIsUseless \/ PlanFails \/ PlanIsMade
    \/ StepReplies \/ StepFails \/ Verify
    \/ DirectReplies \/ DirectFails
=============================================================================
