---------------------------- MODULE SessionStore ----------------------------
(***************************************************************************)
(* The conversation of one session: a Redis list of messages               *)
(* (internal/memory/session.go) and the callers that append to it.         *)
(* SaveMessage sends its commands in a pipeline, not in a MULTI: commands  *)
(* of other clients can run between its RPUSH and its LTRIM, and go-redis  *)
(* sends the pipeline again when its answer is lost (main.go:33), so that  *)
(* one message may be appended several times, and after a DELETE.          *)
(*                                                                         *)
(* What matters of a list entry is which messages it tells the model about *)
(* and its size; a summary tells about many.                               *)
(***************************************************************************)
EXTENDS Naturals, FiniteSets, SequencesExt

CONSTANTS
    Msgs,           \* the messages that are saved
    SizeOf,         \* their sizes in tokens
    SendsOf,        \* bound: how often their pipeline is sent (4: MaxRetries is 3)
    MaxMsgs         \* SessionMaxMsgs (200)

ASSUME SessionAssumption ==
    /\ IsFiniteSet(Msgs)
    /\ {SizeOf, SendsOf} \subseteq [Msgs -> Nat \ {0}]
    /\ MaxMsgs \in Nat \ {0}

VARIABLES
    list,           \* caw:session:{id}:messages
    sent,           \* per message: how often its RPUSH was carried out
    untrimmed       \* the RPUSHes whose own LTRIM has not been carried out

sessionVars == <<list, sent, untrimmed>>

Entry == [covers : SUBSET Msgs, size : Nat, summary : BOOLEAN]
Plain(m) == [covers |-> {m}, size |-> SizeOf[m], summary |-> FALSE]

Summary(covers, size) == [covers |-> covers, size |-> size, summary |-> TRUE]

Tokens(history) == FoldSeq(LAMBDA e, total : e.size + total, 0, history)
Covered(history) == UNION {history[k].covers : k \in 1..Len(history)}
Saved == {m \in Msgs : sent[m] > 0}

SessionInit ==
    /\ list = <<>>
    /\ sent = [m \in Msgs |-> 0]
    /\ untrimmed = 0

(* RPUSH, of the pipeline or of the same pipeline sent again. *)
Push(m) ==
    /\ sent[m] < SendsOf[m]
    /\ list' = Append(list, Plain(m))
    /\ sent' = [sent EXCEPT ![m] = @ + 1]
    /\ untrimmed' = untrimmed + 1

(* LTRIM key -MaxMsgs -1. *)
Newest(history) ==
    IF Len(history) <= MaxMsgs THEN history
    ELSE SubSeq(history, Len(history) - MaxMsgs + 1, Len(history))

Trim ==
    /\ untrimmed > 0
    /\ list' = Newest(list)
    /\ untrimmed' = untrimmed - 1
    /\ UNCHANGED sent

SessionTypeOK ==
    /\ list \in Seq(Entry)
    /\ sent \in [Msgs -> Nat]
    /\ untrimmed \in Nat

(* The cap of 200 messages holds up to the pipelines that are between their
   RPUSH and their LTRIM, or were cut off there (session.go:21); summaries
   written back come on top. *)
CapIsEnforced ==
    Cardinality({k \in 1..Len(list) : ~list[k].summary})
        <= MaxMsgs + untrimmed
=============================================================================
