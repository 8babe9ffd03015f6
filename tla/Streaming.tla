----------------------------- MODULE Streaming ------------------------------
(***************************************************************************)
(* Requests of the gateway from the worker pool to the last SSE event:     *)
(* chatStream (internal/gateway/chat.go) and messagesStream                *)
(* (internal/gateway/anthropic.go), which take tokens from a channel and   *)
(* flush each to the client, and the goroutine doStream starts             *)
(* (internal/adapter/ollama.go, llamacpp.go, bitnet.go), which reads the   *)
(* backend's response and fills the channel.  The handlers that answer in  *)
(* one piece only take and give back a slot.                               *)
(*                                                                         *)
(* The context of the stream is cancelled by its 25 s deadline or by a     *)
(* consumer that leaves.  It ends a read of the response, but not a send   *)
(* on the channel, which does not select on it; the deadline is not seen   *)
(* by a consumer, and a client that leaves is noticed by a flush only.     *)
(* Tokens are numbered from 1 in the order the backend makes them.         *)
(***************************************************************************)
EXTENDS Naturals, FiniteSets, Sequences

CONSTANTS
    Requests,       \* the requests to the gateway
    PoolSize,       \* WORKER_POOL_SIZE (10)
    Streams,        \* the requests with "stream": true, without tools
    ChanCap,        \* the capacity of the channel (32)
    MaxTokens,      \* the tokens a backend makes, at most
    Whole,          \* the streams of vLLM: the answer comes in one piece
    MayFail,        \* the backend may refuse a request or break off
    MayLeave        \* clients may disconnect

ASSUME PoolAssumption == PoolSize \in Nat \ {0} /\ IsFiniteSet(Requests)
ASSUME StreamAssumption ==
    /\ Streams \subseteq Requests /\ Whole \subseteq Streams
    /\ {ChanCap, MaxTokens} \subseteq Nat \ {0}
    /\ {MayFail, MayLeave} \subseteq BOOLEAN

VARIABLES
    sem,            \* WorkerPool.sem: how many slots are taken
    phase,          \* where the handler of a request is
    ended,          \* its last event: "no" yet, "done", "error", or "cut" off
    out,            \* the tokens it has flushed
    hand,           \* the token it has received and not yet flushed, or none
    producer,       \* the goroutine: its phase, the tokens it made, the last one in it
    chan,           \* the channel
    live,           \* the context of the stream is not done
    client          \* "here" or "gone"

vars == <<sem, phase, ended, out, hand, producer, chan, live, client>>
streamVars == <<out, hand, producer, chan, live>>

Phases == {"new", "opening", "receive", "flush", "refused", "released"}
ProducerPhases == {"none", "reading", "sending", "closed"}

Holds(r) == phase[r] \in {"opening", "receive", "flush"}
Open(r) == producer[r].phase \in {"reading", "sending"}

Init ==
    /\ sem = 0
    /\ phase = [r \in Requests |-> "new"]
    /\ ended = [r \in Requests |-> "no"]
    /\ out = [r \in Requests |-> <<>>]
    /\ hand = [r \in Requests |-> <<>>]
    /\ producer = [r \in Requests |-> [phase |-> "none", made |-> 0, last |-> FALSE]]
    /\ chan = [r \in Requests |-> <<>>]
    /\ live = [r \in Requests |-> TRUE]
    /\ client = [r \in Requests |-> "here"]

-----------------------------------------------------------------------------
(* The pool. *)

(* Slip: the slot is counted without looking whether there is one. *)
AcquireUnchecked(r) ==
    /\ phase[r] = "new"
    /\ sem' = sem + 1
    /\ phase' = [phase EXCEPT ![r] = "opening"]
    /\ UNCHANGED <<ended, client, streamVars>>

Acquire(r) ==
    /\ phase[r] = "new"
    /\ sem < PoolSize
    /\ sem' = sem + 1
    /\ phase' = [phase EXCEPT ![r] = "opening"]
    /\ UNCHANGED <<ended, client, streamVars>>

Refuse(r) ==
    /\ phase[r] = "new"
    /\ sem = PoolSize
    /\ phase' = [phase EXCEPT ![r] = "refused"]
    /\ UNCHANGED <<sem, ended, client, streamVars>>

(* The deferred Release, <-sem, which waits while there is nothing to take, and,
   in a stream, the deferred cancel. *)
Return(r, how) ==
    /\ sem > 0
    /\ sem' = sem - 1
    /\ phase' = [phase EXCEPT ![r] = "released"]
    /\ ended' = [ended EXCEPT ![r] = how]
    /\ live' = [live EXCEPT ![r] = FALSE]

-----------------------------------------------------------------------------
(* The handler. *)

(* chatComplete, messagesComplete, messagesAgent, messagesAgentStream. *)
Respond(r) ==
    /\ phase[r] = "opening" /\ r \notin Streams
    /\ \E how \in {"done", "error"} : Return(r, how)
    /\ UNCHANGED <<out, hand, producer, chan, client>>

(* backend.Stream returns an error: ErrCircuitOpen, the transport's, a status. *)
OpenFails(r) ==
    /\ MayFail
    /\ phase[r] = "opening" /\ r \in Streams
    /\ Return(r, "error")
    /\ UNCHANGED <<out, hand, producer, chan, client>>

(* backend.Stream returns the channel; vLLM's has the answer and is closed. *)
OpenStream(r) ==
    /\ phase[r] = "opening" /\ r \in Streams
    /\ phase' = [phase EXCEPT ![r] = "receive"]
    /\ IF r \in Whole
       THEN /\ chan' = [chan EXCEPT ![r] = <<1>>]
            /\ producer' = [producer EXCEPT ![r] =
                              [phase |-> "closed", made |-> 1, last |-> TRUE]]
       ELSE producer' = [producer EXCEPT ![r].phase = "reading"] /\ UNCHANGED chan
    /\ UNCHANGED <<sem, ended, out, hand, live, client>>

(* for resp := range ch *)
Receive(r) ==
    /\ phase[r] = "receive"
    /\ chan[r] # <<>>
    /\ hand' = [hand EXCEPT ![r] = <<Head(chan[r])>>]
    /\ chan' = [chan EXCEPT ![r] = Tail(@)]
    /\ phase' = [phase EXCEPT ![r] = "flush"]
    /\ UNCHANGED <<sem, ended, out, producer, live, client>>

(* The event is written and flushed.  Only a Delta is written, and vLLM's
   answer is a Message.  A flush can succeed though the client is gone. *)
Flush(r) ==
    /\ phase[r] = "flush"
    /\ out' = [out EXCEPT ![r] = IF r \in Whole THEN @ ELSE @ \o hand[r]]
    /\ hand' = [hand EXCEPT ![r] = <<>>]
    /\ phase' = [phase EXCEPT ![r] = "receive"]
    /\ UNCHANGED <<sem, ended, producer, chan, live, client>>

(* The flush fails: cancel and return. *)
FlushFails(r) ==
    /\ phase[r] = "flush"
    /\ client[r] = "gone"
    /\ hand' = [hand EXCEPT ![r] = <<>>]
    /\ Return(r, "cut")
    /\ UNCHANGED <<out, producer, chan, client>>

(* Slip: [DONE] as soon as the channel is closed, whatever is left in it. *)
DoneWhenClosed(r) ==
    /\ phase[r] = "receive"
    /\ producer[r].phase = "closed"
    /\ Return(r, "done")
    /\ UNCHANGED <<out, hand, producer, chan, client>>

(* Slip: the loop also selects on the context. *)
DoneAtDeadline(r) ==
    /\ phase[r] = "receive"
    /\ ~live[r] \/ (producer[r].phase = "closed" /\ chan[r] = <<>>)
    /\ Return(r, "done")
    /\ UNCHANGED <<out, hand, producer, chan, client>>

(* The channel is closed and drained: the final events. *)
Done(r) ==
    /\ phase[r] = "receive"
    /\ producer[r].phase = "closed" /\ chan[r] = <<>>
    /\ Return(r, "done")
    /\ UNCHANGED <<out, hand, producer, chan, client>>

HandlerStep(r) ==
    \/ Respond(r)
    \/ OpenFails(r)
    \/ OpenStream(r)
    \/ Receive(r)
    \/ Flush(r)
    \/ FlushFails(r)
    \/ Done(r)

-----------------------------------------------------------------------------
(* The goroutine of doStream.  What it has read before the context was done
   may still be in its buffer. *)

ProducerOnly == UNCHANGED <<sem, phase, ended, out, hand, live, client>>

(* A token; it may be in the chunk that says it is the last. *)
ReadToken(r) ==
    /\ producer[r].phase = "reading"
    /\ producer[r].made < MaxTokens
    /\ \E last \in BOOLEAN :
          producer' = [producer EXCEPT ![r] =
                         [phase |-> "sending", made |-> @.made + 1, last |-> last]]
    /\ UNCHANGED chan
    /\ ProducerOnly

(* The last chunk, without a token. *)
ReadLast(r) ==
    /\ producer[r].phase = "reading"
    /\ producer' = [producer EXCEPT ![r].phase = "closed", ![r].last = TRUE]
    /\ UNCHANGED chan
    /\ ProducerOnly

(* The connection breaks, or the context is done: the channel is closed. *)
ReadFails(r) ==
    /\ producer[r].phase = "reading"
    /\ MayFail \/ ~live[r]
    /\ producer' = [producer EXCEPT ![r].phase = "closed"]
    /\ UNCHANGED chan
    /\ ProducerOnly

AfterSend(r) ==
    producer' = [producer EXCEPT ![r].phase = IF producer[r].last
                                              THEN "closed" ELSE "reading"]

(* Slip: select with a default: a token is dropped when the channel is full. *)
SendOrDrop(r) ==
    /\ producer[r].phase = "sending"
    /\ chan' = IF Len(chan[r]) < ChanCap
               THEN [chan EXCEPT ![r] = Append(@, producer[r].made)] ELSE chan
    /\ AfterSend(r)
    /\ ProducerOnly

(* ch <- token blocks while the channel is full. *)
Send(r) ==
    /\ producer[r].phase = "sending"
    /\ Len(chan[r]) < ChanCap
    /\ chan' = [chan EXCEPT ![r] = Append(@, producer[r].made)]
    /\ AfterSend(r)
    /\ ProducerOnly

ProducerStep(r) ==
    \/ ReadToken(r)
    \/ ReadLast(r)
    \/ ReadFails(r)
    \/ Send(r)

(* context.WithTimeout(ctx, 25 s) *)
Deadline(r) ==
    /\ Open(r) /\ live[r]
    /\ live' = [live EXCEPT ![r] = FALSE]
    /\ UNCHANGED <<sem, phase, ended, out, hand, producer, chan, client>>

Disconnect(r) ==
    /\ MayLeave
    /\ Holds(r) /\ client[r] = "here"
    /\ client' = [client EXCEPT ![r] = "gone"]
    /\ UNCHANGED <<sem, phase, ended, streamVars>>

Next ==
    \E r \in Requests :
        \/ Acquire(r)
        \/ Refuse(r)
        \/ HandlerStep(r)
        \/ ProducerStep(r)
        \/ Deadline(r)
        \/ Disconnect(r)

Spec == Init /\ [][Next]_vars

(* A handler goes on, so every client reads what is flushed or leaves; the
   deadline comes; a goroutine whose context is done does not wait for the
   backend.  The backend owes nothing. *)
FairSpec ==
    /\ Spec
    /\ \A r \in Requests : /\ WF_vars(HandlerStep(r))
                           /\ WF_vars(Deadline(r))
                           /\ WF_vars(Send(r))
                           /\ WF_vars(ReadFails(r) /\ ~live[r])

-----------------------------------------------------------------------------
Numbers(n) == [i \in 1..n |-> i]
BeingSent(r) ==
    IF producer[r].phase = "sending" THEN <<producer[r].made>> ELSE <<>>

TypeOK ==
    /\ sem \in 0..PoolSize
    /\ phase \in [Requests -> Phases]
    /\ ended \in [Requests -> {"no", "done", "error", "cut"}]
    /\ out \in [Requests -> Seq(1..MaxTokens)]
    /\ hand \in [Requests -> Seq(1..MaxTokens)]
    /\ producer \in [Requests -> [phase : ProducerPhases, made : 0..MaxTokens, last : BOOLEAN]]
    /\ chan \in [Requests -> Seq(1..MaxTokens)]
    /\ \A r \in Requests : Len(chan[r]) <= ChanCap
    /\ live \in [Requests -> BOOLEAN]
    /\ client \in [Requests -> {"here", "gone"}]

(* The slots taken are those of the handlers at work: every way out of a
   handler gives its slot back, and once (chat.go:36, :146; anthropic.go:384, :484).
   One Release too many would block its handler for ever (workerpool.go:33). *)
Holders == {r \in Requests : Holds(r)}
SlotsMatch == sem = Cardinality(Holders)

(* The handlers keep what the pool promises (WorkerPool). *)
PoolView ==
    [r \in Requests |-> CASE phase[r] = "new" -> "new"
                          [] Holds(r) -> "holding"
                          [] phase[r] = "refused" -> "refused"
                          [] phase[r] = "released" -> "returned"]
Abstract == INSTANCE WorkerPool WITH pool <- PoolView
ImplementsPool == Abstract!Spec

(* Between the backend and a client that stays no token is lost, doubled or
   overtaken, whatever the deadline, the backend and the channel's limit do.
   What vLLM answers is no Delta and is never written (chat.go:176). *)
InOrder ==
    \A r \in Streams \ Whole : ended[r] # "cut" =>
        out[r] \o hand[r] \o chan[r] \o BeingSent(r) = Numbers(producer[r].made)

(* US-2: [DONE] comes when all tokens of the backend have been delivered. *)
DoneMeansDelivered ==
    \A r \in Streams \ Whole : ended[r] = "done" => out[r] = Numbers(producer[r].made)

(* US-2 and US-3: a hanging backend, or a client that leaves, does not keep
   its slot. *)
SlotsComeBack == \A r \in Requests : Holds(r) ~> ~Holds(r)

(* The goroutine ends, and with it the connection to the backend, if the
   client stays to the end. *)
ProducersEnd == \A r \in Streams : Open(r) ~> ~Open(r) \/ ended[r] = "cut"

(* The state invariants of the streams in one: types, one slot for each handler
   at work (chat.go:36), and [DONE] only behind the whole answer (chat.go:146). *)
StreamSafety ==
    /\ TypeOK
    /\ SlotsMatch
    /\ DoneMeansDelivered

(* Neither a slot nor a goroutine with its connection is lost for good
   (chat.go:36, :146; ollama.go:197). *)
StreamsEnd == SlotsComeBack /\ ProducersEnd
=============================================================================
