----------------------------- MODULE MCPipeline -----------------------------
(* Values for TLC: a request of each intent, with and without the triggers of
   the critique. *)
EXTENDS Pipeline

Question == [agentMode |-> FALSE, rag |-> FALSE, domain |-> "none",
             wantsJSON |-> FALSE, cot |-> FALSE, question |-> "simple",
             asksTheWeb |-> FALSE, critique |-> FALSE, sideEffect |-> FALSE,
             maxCritique |-> 0]

MCRequests == {
    Question,
    [Question EXCEPT !.asksTheWeb = TRUE, !.sideEffect = TRUE],
    [Question EXCEPT !.agentMode = TRUE, !.rag = TRUE, !.domain = "general"],
    [Question EXCEPT !.rag = TRUE, !.domain = "legal", !.wantsJSON = TRUE],
    [Question EXCEPT !.wantsJSON = TRUE, !.rag = TRUE],
    [Question EXCEPT !.wantsJSON = TRUE, !.critique = TRUE, !.maxCritique = 1],
    [Question EXCEPT !.cot = TRUE, !.question = "code"],
    [Question EXCEPT !.question = "complex", !.maxCritique = 1],
    [Question EXCEPT !.question = "code"]}
=============================================================================
