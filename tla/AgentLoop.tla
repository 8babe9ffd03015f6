----------------------------- MODULE AgentLoop ------------------------------
(***************************************************************************)
(* One request with tools (internal/gateway/agentic_executor.go and        *)
(* messagesAgent, messagesAgentStream of anthropic.go).  The model is      *)
(* asked for the next command; the gateway executes it and shows the model *)
(* its output, until the model says DONE, twice answers without a command, *)
(* repeats itself, fails, or has had MaxAgentSteps turns.                  *)
(*                                                                         *)
(* A reply is known by what the loop looks for in it: DONE outside the     *)
(* code blocks, and a call.  The input of a call is a JSON text, known by  *)
(* its id; two texts may hold the same lines.  Of the lines it counts      *)
(* which kinds there are: "work", and "done", which begin with DONE,       *)
(* COMPLETE or FINISHED: also the "done" that closes a loop of the shell.  *)
(*                                                                         *)
(* The loop has five minutes (expired), a command 30 s.  The command is    *)
(* killed, but a process it left behind keeps the pipe of its output, and  *)
(* cmd.Run waits for that.  A file may be a named pipe, which is opened    *)
(* when somebody opens its other end.  Either may never happen: the loop   *)
(* is "held".  A reply without choices ends the process: "panicked".       *)
(***************************************************************************)
EXTENDS Naturals, Sequences

CONSTANTS
    Inputs,         \* the inputs the model gives its calls
    NoInput,        \* stands for a reply without a call
    MaxAgentSteps   \* maxAgentSteps (20)

VARIABLES
    phase,          \* where the handler is
    slot,           \* it holds a slot of the worker pool
    expired,        \* the deadline of agentCtx has passed
    turn,           \* i
    nudges,         \* turns without a call in a row
    lastCmd,        \* the id of the last input, 0 before the first
    steps,          \* the steps executed, in order
    outcome,        \* why the loop ended
    shown,          \* the steps the caller gets to see
    said,           \* history: the replies of the model
    calls           \* history: the calls among them

agentVars == <<phase, slot, expired, turn, nudges, lastCmd, steps, outcome, shown, said, calls>>
loopVars == <<turn, nudges, lastCmd, steps, outcome, said, calls>>

Phases == {"new", "refused", "generate", "execute", "running", "held", "answer", "done",
           "panicked"}
Outcomes == {"none", "done", "text", "stopped", "exhausted", "error"}

(* A tool, and where its command is: in the field "command", in another field
   a command is looked for in, or nowhere. *)
Input == [id : Nat \ {0}, tool : {"bash", "file"},
          field : {"command", "other", "none"}, lines : SUBSET {"work", "done"}]

ASSUME AgentAssumption ==
    /\ MaxAgentSteps \in Nat \ {0}
    /\ \A input \in Inputs : input \in Input
    /\ NoInput \notin Inputs

Reply == [done : BOOLEAN, call : Inputs \cup {NoInput}]

(* What became of a step: "never" is a command that was not started. *)
Fates == {"ran", "killed", "never", "error"}
Executed(input, fate) == [tool |-> input.tool, lines |-> input.lines, fate |-> fate]

SaysDone(input) ==
    input.field = "command" /\ "done" \in input.lines

(* Slip: every line of the command may go. *)
CleanToNothing(input) ==
    IF input.field = "command"
    THEN [input EXCEPT !.lines = @ \ {"done"}]
    ELSE input

(* cleanToolCallWithDone: a command of DONE lines only stays as it is. *)
Clean(input) ==
    LET kept == input.lines \ {"done"}
    IN  IF input.field = "command" /\ kept # {}
        THEN [input EXCEPT !.lines = kept] ELSE input

AgentInit ==
    /\ phase = "new" /\ slot = FALSE /\ expired = FALSE
    /\ turn = 0 /\ nudges = 0 /\ lastCmd = 0
    /\ steps = <<>> /\ outcome = "none"
    /\ shown = <<>> /\ said = <<>> /\ calls = <<>>

Begin ==
    /\ phase = "new"
    /\ \/ phase' = "refused" /\ UNCHANGED slot
       \/ phase' = "generate" /\ slot' = TRUE
    /\ UNCHANGED <<expired, shown, loopVars>>

DeadlinePasses ==
    /\ slot /\ phase \notin {"answer", "panicked"}
    /\ ~expired
    /\ expired' = TRUE
    /\ UNCHANGED <<phase, slot, shown, loopVars>>

-----------------------------------------------------------------------------
(* A turn: the model is asked, and its reply looked at. *)

Stop(how) ==
    /\ phase' = "answer"
    /\ outcome' = how
    /\ UNCHANGED turn

NextTurn ==
    IF turn + 1 < MaxAgentSteps
    THEN phase' = "generate" /\ turn' = turn + 1 /\ UNCHANGED outcome
    ELSE Stop("exhausted")

GenerateFails ==
    /\ phase = "generate"
    /\ Stop("error")
    /\ UNCHANGED <<slot, expired, nudges, lastCmd, steps, shown, said, calls>>

(* The reply has no choices, and Choices[0] is read: the server has no recover. *)
NoChoices ==
    /\ phase = "generate" /\ ~expired
    /\ phase' = "panicked"
    /\ UNCHANGED <<slot, expired, shown, loopVars>>

(* A reply within the deadline, with a choice. *)
Hears(reply) ==
    /\ phase = "generate" /\ ~expired
    /\ said' = Append(said, reply)
    /\ calls' = IF reply.call = NoInput THEN calls ELSE Append(calls, reply.call)

Believed(reply) == reply.done /\ steps # <<>>

Finishes(reply) ==
    /\ Hears(reply)
    /\ Believed(reply)
    /\ Stop("done")
    /\ UNCHANGED <<slot, expired, nudges, lastCmd, steps, shown>>

(* Slip: a nudge starts the detection of repetitions anew. *)
AnswersForgettingCommand(reply) ==
    /\ Hears(reply)
    /\ ~Believed(reply) /\ reply.call = NoInput
    /\ nudges' = nudges + 1
    /\ lastCmd' = 0
    /\ IF nudges' >= 2 THEN Stop("text") ELSE NextTurn
    /\ UNCHANGED <<slot, expired, steps, shown>>

(* No call: a nudge, or the final answer. *)
Answers(reply) ==
    /\ Hears(reply)
    /\ ~Believed(reply) /\ reply.call = NoInput
    /\ nudges' = nudges + 1
    /\ IF nudges' >= 2 THEN Stop("text") ELSE NextTurn
    /\ UNCHANGED <<slot, expired, lastCmd, steps, shown>>

Repeats(reply) ==
    /\ Hears(reply)
    /\ ~Believed(reply) /\ reply.call # NoInput
    /\ reply.call.id = lastCmd
    /\ nudges' = 0
    /\ Stop("stopped")
    /\ UNCHANGED <<slot, expired, lastCmd, steps, shown>>

Calls(reply) ==
    /\ Hears(reply)
    /\ ~Believed(reply) /\ reply.call # NoInput
    /\ reply.call.id # lastCmd
    /\ nudges' = 0
    /\ lastCmd' = reply.call.id
    /\ phase' = "execute"
    /\ UNCHANGED <<slot, expired, turn, steps, outcome, shown>>

-----------------------------------------------------------------------------
(* The execution of the call. *)

Current == said[Len(said)].call

StepEnds(fate) ==
    /\ steps' = Append(steps, Executed(Clean(Current), fate))
    /\ IF SaysDone(Current) THEN Stop("done") ELSE NextTurn
    /\ UNCHANGED <<slot, expired, nudges, lastCmd, shown, said, calls>>

(* executeWriteFile, executeReadFile: they look at no deadline. *)
ExecuteFile ==
    /\ phase = "execute" /\ Current.tool = "file"
    /\ StepEnds("ran") \/ StepEnds("error")

(* The file is a pipe nobody has opened at its other end. *)
FileIsHeld ==
    /\ phase = "execute" /\ Current.tool = "file"
    /\ phase' = "held"
    /\ UNCHANGED <<slot, expired, shown, loopVars>>

(* executeBash: an input without a command is an error; so is the temporary
   file of a Python script that cannot be made. *)
BashRefuses ==
    /\ phase = "execute" /\ Current.tool = "bash"
    /\ StepEnds("error")

BashStarts ==
    /\ phase = "execute" /\ Current.tool = "bash" /\ Current.field # "none"
    /\ ~expired
    /\ phase' = "running"
    /\ UNCHANGED <<slot, expired, shown, loopVars>>

(* The context is done: the command is not started, and that is no error. *)
BashIsLate ==
    /\ phase = "execute" /\ Current.tool = "bash" /\ Current.field # "none"
    /\ expired
    /\ StepEnds("never")

BashEnds ==
    /\ phase = "running"
    /\ StepEnds("ran")

(* After 30 s, or when agentCtx is done. *)
BashIsKilled ==
    /\ phase = "running"
    /\ StepEnds("killed")

(* The shell is gone; a process it left behind has the pipe. *)
PipeIsHeld ==
    /\ phase = "running"
    /\ phase' = "held"
    /\ UNCHANGED <<slot, expired, shown, loopVars>>

(* The process that had the pipe is gone, or the other end is opened. *)
HoldEnds ==
    /\ phase = "held"
    /\ \/ StepEnds("ran")
       \/ Current.tool = "bash" /\ StepEnds("killed")
       \/ Current.tool = "file" /\ StepEnds("error")

-----------------------------------------------------------------------------
(* Slip: an error is answered without the deferred Release. *)
RespondKeepingSlot ==
    /\ phase = "answer"
    /\ phase' = "done"
    /\ slot' = (outcome = "error")
    /\ shown' = IF outcome = "error" THEN <<>> ELSE steps
    /\ UNCHANGED <<expired, loopVars>>

(* The answer, in one piece or as a stream; an error shows no steps. *)
Respond ==
    /\ phase = "answer"
    /\ phase' = "done"
    /\ slot' = FALSE
    /\ shown' = IF outcome = "error" THEN <<>> ELSE steps
    /\ UNCHANGED <<expired, loopVars>>

Hearing ==
    \E reply \in Reply :
        Finishes(reply) \/ Answers(reply) \/ Repeats(reply) \/ Calls(reply)

(* What the server itself brings about: calls of the model return, files are
   read and written unless they hold the loop, processes are killed. *)
Serve ==
    \/ Begin \/ GenerateFails \/ Hearing
    \/ ExecuteFile \/ BashRefuses \/ BashStarts \/ BashIsLate \/ BashIsKilled
    \/ Respond

AgentNext ==
    \/ Serve \/ DeadlinePasses \/ NoChoices
    \/ FileIsHeld \/ BashEnds \/ PipeIsHeld \/ HoldEnds

AgentSpec == AgentInit /\ [][AgentNext]_agentVars /\ WF_agentVars(Serve)
-----------------------------------------------------------------------------
AgentTypeOK ==
    /\ phase \in Phases /\ outcome \in Outcomes
    /\ {slot, expired} \subseteq BOOLEAN
    /\ turn \in 0..MaxAgentSteps - 1 /\ nudges \in 0..2
    /\ lastCmd \in {0} \cup {input.id : input \in Inputs}
    /\ {steps, shown} \subseteq Seq([tool : {"bash", "file"},
                                     lines : SUBSET {"work", "done"}, fate : Fates])
    /\ said \in Seq(Reply) /\ calls \in Seq(Inputs)

(* The steps are the calls of the model, each once, in its order and with its
   work: only a last one is not executed, because it is a repetition or stands
   beside a DONE.  An answer that is no error shows them all
   (agentic_executor.go:93, 115, 124). *)
ReportIsTheWork ==
    LET missing == Len(calls) - Len(steps)
    IN  /\ missing \in {0, 1}
        /\ missing = 1 => phase \in {"execute", "running", "held"}
                              \/ outcome \in {"done", "stopped"}
        /\ \A k \in 1..Len(steps) :
              /\ "work" \in calls[k].lines => "work" \in steps[k].lines
              /\ steps[k].lines = {} => calls[k].lines = {}
        /\ phase = "done" /\ outcome # "error" => shown = steps

(* A text is taken for the answer only when the model gave no command twice in
   a row; one such turn is answered with a nudge (agentic_executor.go:99). *)
TextEndsTwoTurns ==
    outcome = "text" =>
        /\ Len(said) >= 2
        /\ \A k \in {Len(said) - 1, Len(said)} : said[k].call = NoInput
        /\ Len(said) > 2 => said[Len(said) - 2].call # NoInput

(* The same input twice, with or without nudges in between, ends the loop; and
   nothing else is called a repetition (agentic_executor.go:115). *)
RepetitionEnds ==
    LET Same(k) == calls[k].id = calls[k + 1].id
        last == Len(calls) - 1
    IN  /\ \A k \in 1..last : Same(k) => k = last /\ outcome \in {"stopped", "done"}
        /\ outcome = "stopped" => last >= 1 /\ Same(last)

(* After DONE the model is not asked again, wherever it was and whatever came
   of the command beside it, unless nothing had been executed yet
   (agentic_executor.go:93, 135). *)
DoneIsTheEnd ==
    /\ \A k \in 1..Len(said) - 1 :
          /\ said[k].call # NoInput => ~SaysDone(said[k].call)
          /\ said[k].done => \A j \in 1..k - 1 : said[j].call = NoInput
    /\ outcome = "done" => steps # <<>>

(* A command that was never started is reported like one without output; that
   can only be the last step (agentic_executor.go:318). *)
OnlyTheLastNeverStarted ==
    \A k \in 1..Len(steps) : steps[k].fate = "never" => k = Len(steps)

(* The request is answered and its slot given back, whatever the model and the
   commands do, with these exceptions: a process that a command left behind
   keeps the pipe of its output open for ever (agentic_executor.go:318), a file
   is a pipe whose other end stays closed (lines 369, 390), and a reply without
   choices, which ends the process (line 88).  The first two outlast the five
   minutes that anthropic.go:241 gives a request in total. *)
Returns ==
    \/ <>(phase \in {"done", "refused"} /\ ~slot)
    \/ <>(phase = "panicked")
    \/ <>[](phase = "held")

(* The ways the loop ends, in one: after two texts in a row, at a repetition, at
   DONE, or behind a command that was never started (agentic_executor.go:77-140),
   and never for another reason that looks like one of them. *)
AgentSafety ==
    /\ AgentTypeOK
    /\ TextEndsTwoTurns
    /\ RepetitionEnds
    /\ DoneIsTheEnd
    /\ OnlyTheLastNeverStarted
=============================================================================
