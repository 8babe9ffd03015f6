---------------------------- MODULE JobLifecycle ----------------------------
(***************************************************************************)
(* What the ingest pipeline does with one job, an entry of its stream, as  *)
(* its code has it: a posted job waits, is attempted at most once, and     *)
(* ends acknowledged or abandoned.  Abandoned is final: the entry stays in *)
(* the group's pending list, with or without a copy in the dead-letter     *)
(* stream, and no worker looks at it again.  That is less than US-15 asks  *)
(* for, by which the group reprocesses the job of a worker that restarted  *)
(* and the job completes: Run reads new entries only (worker.go:191).      *)
(* Module Ingest implements this specification.                            *)
(***************************************************************************)
CONSTANT Jobs

VARIABLE job

Init == job = [j \in Jobs |-> "absent"]

Become(j, from, to) ==
    /\ job[j] = from
    /\ job' = [job EXCEPT ![j] = to]

Post(j) == Become(j, "absent", "queued")
Take(j) == Become(j, "queued", "running")
Finish(j) == Become(j, "running", "done")
Abandon(j) == Become(j, "running", "abandoned")
Lose(j) == Become(j, "queued", "abandoned")      \* handed out to nobody

Next == \E j \in Jobs : Post(j) \/ Take(j) \/ Finish(j) \/ Abandon(j) \/ Lose(j)

Spec == Init /\ [][Next]_job
=============================================================================
