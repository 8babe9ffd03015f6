---------------------------- MODULE MCAgentLoop -----------------------------
(* Values for TLC: two texts with the same command, one with DONE behind it,
   one of DONE only, one without a command, and a file. *)
EXTENDS AgentLoop

Bash(id, lines) ==
    [id |-> id, tool |-> "bash", field |-> "command", lines |-> lines]

MCInputs == {
    Bash(1, {"work"}), Bash(2, {"work"}),
    Bash(3, {"work", "done"}), Bash(4, {"done"}),
    [Bash(5, {"work", "done"}) EXCEPT !.field = "other"],
    [Bash(6, {}) EXCEPT !.field = "none", !.tool = "file"]}
=============================================================================
