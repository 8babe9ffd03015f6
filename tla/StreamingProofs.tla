-------------------------- MODULE StreamingProofs ---------------------------
(***************************************************************************)
(* The worker pool under the handlers of the gateway, and the tokens of    *)
(* their streams: proofs about Streaming for any finite set of requests,   *)
(* any pool size, any channel and any backend.                             *)
(***************************************************************************)
EXTENDS Streaming, FiniteSetTheorems, SequenceTheorems, TLAPS

(* The part of TypeOK the pool depends on. *)
PoolTypeOK ==
    /\ sem \in 0..PoolSize
    /\ phase \in [Requests -> Phases]

(* The inductive invariant.  sem alone does not say that a Release finds a
   slot to give back; that it counts the handlers at work does. *)
PoolInv == PoolTypeOK /\ SlotsMatch

(* What a step can do to the slots, with the details of the stream left out:
   the actions are many, but the pool sees only these. *)
TakesSlot(r) ==
    /\ phase[r] = "new" /\ sem < PoolSize
    /\ sem' = sem + 1
    /\ phase' = [phase EXCEPT ![r] = "opening"]
TurnsAway(r) ==
    /\ phase[r] = "new" /\ sem = PoolSize
    /\ sem' = sem
    /\ phase' = [phase EXCEPT ![r] = "refused"]
GivesBack(r) ==
    /\ Holds(r)
    /\ sem' = sem - 1
    /\ phase' = [phase EXCEPT ![r] = "released"]
Works(r) ==
    /\ Holds(r)
    /\ sem' = sem
    /\ \E p \in {"receive", "flush"} : phase' = [phase EXCEPT ![r] = p]

(* Every step of the system is one of the four, or leaves the slots alone. *)
LEMMA StepKinds ==
    ASSUME [Next]_vars
    PROVE  \/ \E r \in Requests : \/ TakesSlot(r)
                                  \/ TurnsAway(r)
                                  \/ GivesBack(r)
                                  \/ Works(r)
           \/ UNCHANGED <<sem, phase>>
  <1>1. ASSUME NEW r \in Requests, Acquire(r) PROVE TakesSlot(r)
    BY <1>1 DEF Acquire, TakesSlot
  <1>2. ASSUME NEW r \in Requests, Refuse(r) PROVE TurnsAway(r)
    BY <1>2 DEF Refuse, TurnsAway
  <1>3. ASSUME NEW r \in Requests, HandlerStep(r) PROVE GivesBack(r) \/ Works(r)
    <2>1. CASE Respond(r)
      BY <2>1 DEF Respond, Return, GivesBack, Holds
    <2>2. CASE OpenFails(r)
      BY <2>2 DEF OpenFails, Return, GivesBack, Holds
    <2>3. CASE OpenStream(r)
      BY <2>3 DEF OpenStream, Works, Holds
    <2>4. CASE Receive(r)
      BY <2>4 DEF Receive, Works, Holds
    <2>5. CASE Flush(r)
      BY <2>5 DEF Flush, Works, Holds
    <2>6. CASE FlushFails(r)
      BY <2>6 DEF FlushFails, Return, GivesBack, Holds
    <2>7. CASE Done(r)
      BY <2>7 DEF Done, Return, GivesBack, Holds
    <2> QED
      BY <1>3, <2>1, <2>2, <2>3, <2>4, <2>5, <2>6, <2>7 DEF HandlerStep
  <1>4. ASSUME NEW r \in Requests, ProducerStep(r) PROVE UNCHANGED <<sem, phase>>
    BY <1>4 DEF ProducerStep, ReadToken, ReadLast, ReadFails, Send, ProducerOnly
  <1>5. ASSUME NEW r \in Requests, Deadline(r) \/ Disconnect(r)
        PROVE  UNCHANGED <<sem, phase>>
    BY <1>5 DEF Deadline, Disconnect
  <1>6. CASE UNCHANGED vars
    BY <1>6 DEF vars
  <1> QED
    BY <1>1, <1>2, <1>3, <1>4, <1>5, <1>6 DEF Next

(* Only requests hold slots, so there are finitely many holders. *)
LEMMA HoldersFinite == IsFiniteSet(Holders) /\ Cardinality(Holders) \in Nat
  <1>1. Holders \in SUBSET Requests
    BY DEF Holders
  <1>2. IsFiniteSet(Holders)
    BY <1>1, PoolAssumption, FS_Subset
  <1> QED
    BY <1>2, FS_CardinalityType

(* No slot is taken at the start. *)
LEMMA PoolInit == Init => PoolInv
  <1> SUFFICES ASSUME Init PROVE PoolInv
    OBVIOUS
  <1>1. Holders = {}
    BY DEF Init, Holders, Holds
  <1>2. Cardinality(Holders) = 0
    BY <1>1, FS_EmptySet
  <1> QED
    BY <1>2, PoolAssumption DEF Init, PoolInv, PoolTypeOK, SlotsMatch, Phases

(* Every step keeps the count of the slots right. *)
LEMMA PoolStep == PoolInv /\ [Next]_vars => PoolInv'
  <1> SUFFICES ASSUME PoolInv, [Next]_vars PROVE PoolInv'
    OBVIOUS
  <1> USE PoolAssumption DEF PoolInv, PoolTypeOK, SlotsMatch, Phases
  <1>1. IsFiniteSet(Holders) /\ Cardinality(Holders) \in Nat
    BY HoldersFinite
  <1>2. ASSUME NEW r \in Requests, TakesSlot(r) PROVE PoolInv'
    <2>1. r \notin Holders /\ Holders' = Holders \cup {r}
      BY <1>2 DEF TakesSlot, Holders, Holds
    <2>2. Cardinality(Holders') = Cardinality(Holders) + 1
      BY <2>1, <1>1, FS_AddElement
    <2> QED
      BY <1>2, <2>2 DEF TakesSlot
  <1>3. ASSUME NEW r \in Requests, TurnsAway(r) PROVE PoolInv'
    <2>1. Holders' = Holders
      BY <1>3 DEF TurnsAway, Holders, Holds
    <2> QED
      BY <1>3, <2>1 DEF TurnsAway
  <1>4. ASSUME NEW r \in Requests, GivesBack(r) PROVE PoolInv'
    <2>1. r \in Holders /\ Holders' = Holders \ {r}
      BY <1>4 DEF GivesBack, Holders, Holds
    <2>2. Cardinality(Holders') = Cardinality(Holders) - 1
      BY <2>1, <1>1, FS_RemoveElement
    <2>3. Cardinality(Holders') \in Nat
      BY <2>1, <1>1, FS_RemoveElement, FS_CardinalityType
    <2> QED
      BY <1>4, <2>2, <2>3 DEF GivesBack
  <1>5. ASSUME NEW r \in Requests, Works(r) PROVE PoolInv'
    <2>1. Holders' = Holders
      BY <1>5 DEF Works, Holders, Holds
    <2> QED
      BY <1>5, <2>1 DEF Works
  <1>6. CASE UNCHANGED <<sem, phase>>
    <2>1. Holders' = Holders
      BY <1>6 DEF Holders, Holds
    <2> QED
      BY <1>6, <2>1
  <1> QED
    BY <1>2, <1>3, <1>4, <1>5, <1>6, StepKinds

(* The pool never holds more slots than it has, and a handler that releases
   one finds it taken: the invariant of the worker pool. *)
THEOREM PoolInvariance == Spec => []PoolInv
  BY PoolInit, PoolStep, PTL DEF Spec

(* The slots taken are those of the handlers at work, whichever way handlers
   end: none leaks and none is given back twice. *)
THEOREM SlotsAccounted == Spec => []SlotsMatch
  BY PoolInvariance, PTL DEF PoolInv

-----------------------------------------------------------------------------
(* The slots of Streaming are those of WorkerPool: the refinement mapping. *)

(* The holders of the abstract pool are the handlers at work. *)
LEMMA ViewHolding == ASSUME PoolInv PROVE Abstract!Holding = Holders
  BY DEF PoolInv, PoolTypeOK, Phases, Abstract!Holding, PoolView, Holders, Holds

(* The instance counts its holders as this module does. *)
LEMMA SameCount == \A S : Abstract!Cardinality(S) = Cardinality(S)
  BY DEF Abstract!Cardinality, Cardinality

(* Each of the four things a step does to the slots is a step of the pool. *)
LEMMA PoolRefinesStep ==
    ASSUME PoolInv, [Next]_vars
    PROVE  [Abstract!Next]_PoolView
  <1> USE DEF PoolInv, PoolTypeOK, Phases, PoolView, Holds
  <1>1. sem = Abstract!Cardinality(Abstract!Holding)
    BY ViewHolding, SameCount DEF SlotsMatch
  <1>2. ASSUME NEW r \in Requests, TakesSlot(r) PROVE Abstract!Acquire(r)
    BY <1>2, <1>1 DEF TakesSlot, Abstract!Acquire
  <1>3. ASSUME NEW r \in Requests, TurnsAway(r) PROVE Abstract!Refuse(r)
    BY <1>3, <1>1 DEF TurnsAway, Abstract!Refuse
  <1>4. ASSUME NEW r \in Requests, GivesBack(r) PROVE Abstract!Release(r)
    BY <1>4 DEF GivesBack, Abstract!Release
  <1>5. ASSUME NEW r \in Requests, Works(r) PROVE UNCHANGED PoolView
    BY <1>5 DEF Works
  <1>6. CASE UNCHANGED <<sem, phase>>
    BY <1>6
  <1> QED
    BY <1>2, <1>3, <1>4, <1>5, <1>6, StepKinds DEF Abstract!Next

(* Streaming implements WorkerPool: the handlers acquire a free slot or are
   refused for want of one, and release what they acquired, once. *)
THEOREM PoolImplemented == Spec => ImplementsPool
  <1>1. Init => Abstract!Init
    BY DEF Init, Abstract!Init, PoolView, Holds
  <1>2. PoolInv /\ [Next]_vars => [Abstract!Next]_PoolView
    BY PoolRefinesStep
  <1> QED
    BY <1>1, <1>2, PoolInvariance, PTL DEF Spec, ImplementsPool, Abstract!Spec

-----------------------------------------------------------------------------
(* The tokens: types first, then their order. *)

Tokens == 1..MaxTokens

(* What sequences do when a token moves from one to the next. *)

(* From the channel to the hand. *)
LEMMA MoveHead ==
    \A a, c, d \in Seq(Tokens) :
        c # <<>> => a \o <<>> \o c \o d = a \o <<Head(c)>> \o Tail(c) \o d
  <1> SUFFICES ASSUME NEW a \in Seq(Tokens), NEW c \in Seq(Tokens), NEW d \in Seq(Tokens), c # <<>>
               PROVE  a \o <<>> \o c \o d = a \o <<Head(c)>> \o Tail(c) \o d
    OBVIOUS
  <1>1. Head(c) \in Tokens /\ Tail(c) \in Seq(Tokens)
    BY HeadTailProperties
  <1>2. <<Head(c)>> \in Seq(Tokens)
    BY <1>1
  <1>3. <<Head(c)>> \o Tail(c) = c
    <2>1. <<Head(c)>> \o Tail(c) \in Seq(Tokens) /\ Len(<<Head(c)>> \o Tail(c)) = Len(c)
      BY <1>1, <1>2, ConcatProperties, HeadTailProperties, LenProperties
    <2>2. ASSUME NEW i \in 1..Len(c) PROVE (<<Head(c)>> \o Tail(c))[i] = c[i]
      BY <1>1, <1>2, ConcatProperties, HeadTailProperties, LenProperties
    <2> QED
      BY <2>1, <2>2, SeqEqual
  <1>4. a \o <<Head(c)>> \o Tail(c) = a \o c
    BY <1>1, <1>2, <1>3, ConcatAssociative
  <1> QED
    BY <1>4, ConcatEmptySeq

(* From the hand to the client. *)
LEMMA MoveHand ==
    ASSUME NEW S, NEW a \in Seq(S), NEW h \in Seq(S), NEW c, NEW d
    PROVE  a \o h \o c \o d = (a \o h) \o <<>> \o c \o d
  <1>1. a \o h \in Seq(S)
    BY ConcatProperties
  <1>2. (a \o h) \o <<>> = a \o h
    BY <1>1, ConcatEmptySeq
  <1> QED
    BY <1>2

(* From the goroutine to the channel. *)
LEMMA MoveSent ==
    \A a, h, c \in Seq(Tokens), m \in Tokens :
        a \o h \o c \o <<m>> = a \o h \o Append(c, m) \o <<>>
  <1> SUFFICES ASSUME NEW a \in Seq(Tokens), NEW h \in Seq(Tokens), NEW c \in Seq(Tokens),
                      NEW m \in Tokens
               PROVE  a \o h \o c \o <<m>> = a \o h \o Append(c, m) \o <<>>
    OBVIOUS
  <1>1. a \o h \in Seq(Tokens) /\ <<m>> \in Seq(Tokens)
    BY ConcatProperties
  <1>2. Append(c, m) = c \o <<m>> /\ Append(c, m) \in Seq(Tokens)
    BY AppendIsConcat, AppendProperties
  <1>3. (a \o h \o c) \o <<m>> = (a \o h) \o (c \o <<m>>)
    BY <1>1, ConcatAssociative
  <1>4. a \o h \o Append(c, m) \in Seq(Tokens)
    BY <1>1, <1>2, ConcatProperties
  <1> QED
    BY <1>2, <1>3, <1>4, ConcatEmptySeq

(* The backend makes the next token. *)
LEMMA NextNumber ==
    ASSUME NEW n \in Nat
    PROVE  Numbers(n) \in Seq(Nat) /\ Numbers(n) \o <<n + 1>> = Numbers(n + 1)
  <1>1. Numbers(n) \in Seq(Nat) /\ Numbers(n + 1) \in Seq(Nat) /\ <<n + 1>> \in Seq(Nat)
    BY DEF Numbers
  <1>2. Len(Numbers(n)) = n /\ Len(Numbers(n + 1)) = n + 1
    BY DEF Numbers
  <1>3. Numbers(n) \o <<n + 1>> \in Seq(Nat) /\ Len(Numbers(n) \o <<n + 1>>) = n + 1
    BY <1>1, <1>2, ConcatProperties
  <1>4. ASSUME NEW i \in 1..(n + 1)
        PROVE  (Numbers(n) \o <<n + 1>>)[i] = Numbers(n + 1)[i]
    BY <1>1, <1>2, ConcatProperties DEF Numbers
  <1> QED
    BY <1>1, <1>2, <1>3, <1>4, SeqEqual

(* What one request owns beside its slot, and its types. *)
OwnTypeOK(r) ==
    /\ ended[r] \in {"no", "done", "error", "cut"}
    /\ out[r] \in Seq(Tokens)
    /\ hand[r] \in Seq(Tokens)
    /\ producer[r] \in [phase : ProducerPhases, made : 0..MaxTokens, last : BOOLEAN]
    /\ chan[r] \in Seq(Tokens)
    /\ Len(chan[r]) <= ChanCap
    /\ live[r] \in BOOLEAN
    /\ client[r] \in {"here", "gone"}
    /\ producer[r].phase = "sending" => producer[r].made > 0

(* Every variable is a function on the requests. *)
Functions ==
    /\ phase = [r \in Requests |-> phase[r]]
    /\ ended = [r \in Requests |-> ended[r]]
    /\ out = [r \in Requests |-> out[r]]
    /\ hand = [r \in Requests |-> hand[r]]
    /\ producer = [r \in Requests |-> producer[r]]
    /\ chan = [r \in Requests |-> chan[r]]
    /\ live = [r \in Requests |-> live[r]]
    /\ client = [r \in Requests |-> client[r]]

(* What keeps the tokens in order.  A goroutine runs for an opened stream only,
   a handler has a token in hand only while it flushes, and what has ended
   stays as it was. *)
Ordered(r) ==
    /\ phase[r] \in {"new", "opening"} => producer[r].phase = "none"
    /\ phase[r] # "flush" => hand[r] = <<>>
    /\ ended[r] # "no" => phase[r] = "released"
    /\ ended[r] = "done" => producer[r].phase = "closed" /\ out[r] = Numbers(producer[r].made)
    /\ ended[r] # "cut" =>
          out[r] \o hand[r] \o chan[r] \o BeingSent(r) = Numbers(producer[r].made)

StreamInv ==
    /\ Functions
    /\ \A r \in Requests : phase[r] \in Phases /\ OwnTypeOK(r)
    /\ \A r \in Streams \ Whole : Ordered(r)

Own(r) == <<phase[r], ended[r], out[r], hand[r], producer[r], chan[r], live[r], client[r]>>
StepOf(r) ==
    \/ Acquire(r) \/ Refuse(r) \/ HandlerStep(r) \/ ProducerStep(r)
    \/ Deadline(r) \/ Disconnect(r)

(* A step of one request touches nothing of the others. *)
LEMMA Elsewhere ==
    ASSUME Functions, NEW r \in Requests, StepOf(r)
    PROVE  Functions' /\ \A q \in Requests \ {r} : Own(q)' = Own(q)
  <1> USE DEF Functions, Own
  <1>1. CASE Acquire(r) \/ Refuse(r) \/ Deadline(r) \/ Disconnect(r)
    BY <1>1 DEF Acquire, Refuse, Deadline, Disconnect, streamVars
  <1>2. CASE Respond(r) \/ OpenFails(r) \/ FlushFails(r) \/ Done(r)
    BY <1>2 DEF Respond, OpenFails, FlushFails, Done, Return
  <1>3. CASE OpenStream(r)
    BY <1>3 DEF OpenStream
  <1>4. CASE Receive(r) \/ Flush(r)
    BY <1>4 DEF Receive, Flush
  <1>5. CASE ProducerStep(r)
    BY <1>5 DEF ProducerStep, ReadToken, ReadLast, ReadFails, Send, AfterSend,
       ProducerOnly
  <1> QED
    BY <1>1, <1>2, <1>3, <1>4, <1>5 DEF StepOf, HandlerStep

(* Nothing is made, received or sent at the start. *)
LEMMA StreamStarts == Init => StreamInv
  <1> SUFFICES ASSUME Init PROVE StreamInv
    OBVIOUS
  <1>1. Functions
    BY DEF Init, Functions
  <1>2. ASSUME NEW r \in Requests PROVE phase[r] \in Phases /\ OwnTypeOK(r)
    <2>1. <<>> \in Seq(Tokens) /\ Len(<<>>) = 0
      BY EmptySeq
    <2> QED
      BY <2>1, StreamAssumption DEF Init, OwnTypeOK, Phases, ProducerPhases
  <1>3. ASSUME NEW r \in Requests PROVE Ordered(r)
    <2>1. Numbers(0) = <<>>
      BY DEF Numbers
    <2>2. out[r] \o hand[r] \o chan[r] \o BeingSent(r) = <<>>
      <3>1. out[r] = <<>> /\ hand[r] = <<>> /\ chan[r] = <<>> /\ BeingSent(r) = <<>>
        BY DEF Init, BeingSent
      <3>2. <<>> \o <<>> = <<>>
        BY ConcatEmptySeq, EmptySeq
      <3> QED
        BY <3>1, <3>2
    <2> QED
      BY <2>1, <2>2 DEF Init, Ordered
  <1> QED
    BY <1>1, <1>2, <1>3, StreamAssumption DEF StreamInv

(* The same, as far as a single step needs it. *)
Domains ==
    /\ Requests = DOMAIN phase /\ Requests = DOMAIN ended
    /\ Requests = DOMAIN out /\ Requests = DOMAIN hand
    /\ Requests = DOMAIN producer /\ Requests = DOMAIN chan
    /\ Requests = DOMAIN live /\ Requests = DOMAIN client

(* The goroutine that stops reading keeps the count of what it made. *)
LEMMA Closes ==
    ASSUME Domains, NEW r \in Requests, OwnTypeOK(r), ReadLast(r) \/ ReadFails(r)
    PROVE  /\ producer'[r].phase = "closed" /\ producer'[r].made = producer[r].made
           /\ producer'[r] \in [phase : ProducerPhases, made : 0..MaxTokens, last : BOOLEAN]
  <1> USE DEF Domains, OwnTypeOK, ProducerPhases
  <1>1. CASE ReadLast(r)
    <2>1. producer'[r] = [phase |-> "closed", made |-> producer[r].made, last |-> TRUE]
      BY <1>1 DEF ReadLast
    <2> QED
      BY <2>1
  <1>2. CASE ReadFails(r)
    <2>1. producer'[r] = [phase |-> "closed", made |-> producer[r].made, last |-> producer[r].last]
      BY <1>2 DEF ReadFails
    <2> QED
      BY <2>1
  <1> QED
    BY <1>1, <1>2

(* A step keeps the types of the request that takes it. *)
LEMMA TypesKept ==
    ASSUME StreamInv, NEW r \in Requests, StepOf(r)
    PROVE  phase'[r] \in Phases /\ OwnTypeOK(r)'
  <1>1. Domains /\ OwnTypeOK(r) /\ phase[r] \in Phases
    BY DEF StreamInv, Functions, Domains
  <1>2. ChanCap \in Nat \ {0} /\ MaxTokens \in Nat \ {0}
    BY StreamAssumption
  <1> USE <1>1, <1>2 DEF Domains, OwnTypeOK, Phases, ProducerPhases
  <1>3. CASE Acquire(r) \/ Refuse(r) \/ Deadline(r) \/ Disconnect(r)
    BY <1>3 DEF Acquire, Refuse, Deadline, Disconnect, streamVars
  <1>4. CASE Respond(r) \/ OpenFails(r) \/ Done(r)
    BY <1>4 DEF Respond, OpenFails, Done, Return
  <1>5. CASE FlushFails(r)
    BY <1>5, EmptySeq DEF FlushFails, Return
  <1>6. CASE OpenStream(r)
    <2>1. CASE r \in Whole
      <3>1. <<1>> \in Seq(Tokens) /\ Len(<<1>>) = 1
        BY DEF Tokens
      <3>2. chan'[r] = <<1>> /\ producer'[r] = [phase |-> "closed", made |-> 1, last |-> TRUE]
        BY <1>6, <2>1 DEF OpenStream
      <3>3. producer'[r].phase = "closed" /\ producer'[r] \in [phase : ProducerPhases, made : 0..MaxTokens, last : BOOLEAN]
        BY <3>2
      <3> QED
        BY <1>6, <3>1, <3>2, <3>3 DEF OpenStream
    <2>2. CASE r \notin Whole
      <3>1. producer'[r] = [producer[r] EXCEPT !.phase = "reading"]
        BY <1>6, <2>2 DEF OpenStream
      <3>2. producer'[r].phase = "reading" /\ producer'[r] \in [phase : ProducerPhases, made : 0..MaxTokens, last : BOOLEAN]
        BY <3>1
      <3> QED
        BY <1>6, <2>2, <3>2 DEF OpenStream
    <2> QED
      BY <2>1, <2>2
  <1>7. CASE Receive(r)
    <2>1. Head(chan[r]) \in Tokens /\ Tail(chan[r]) \in Seq(Tokens)
          /\ Len(Tail(chan[r])) = Len(chan[r]) - 1
      BY <1>7, HeadTailProperties DEF Receive
    <2>2. <<Head(chan[r])>> \in Seq(Tokens) /\ Len(chan[r]) \in Nat
      BY <2>1, LenProperties
    <2> QED
      BY <1>7, <2>1, <2>2 DEF Receive
  <1>8. CASE Flush(r)
    <2>1. out[r] \o hand[r] \in Seq(Tokens) /\ <<>> \in Seq(Tokens)
      BY ConcatProperties, EmptySeq
    <2> QED
      BY <1>8, <2>1 DEF Flush
  <1>9. CASE Send(r)
    <2>1. producer[r].made \in Tokens
      BY <1>9 DEF Send, Tokens
    <2>2. Append(chan[r], producer[r].made) \in Seq(Tokens)
          /\ Len(Append(chan[r], producer[r].made)) = Len(chan[r]) + 1
      BY <2>1, AppendProperties
    <2>3. Len(chan[r]) \in Nat
      BY LenProperties
    <2> QED
      BY <1>9, <2>2, <2>3 DEF Send, AfterSend, ProducerOnly
  <1>10. CASE ReadToken(r)
    BY <1>10 DEF ReadToken, ProducerOnly
  <1>11. CASE ReadLast(r) \/ ReadFails(r)
    <2>1. producer'[r].phase = "closed" /\ producer'[r].made = producer[r].made
          /\ producer'[r] \in [phase : ProducerPhases, made : 0..MaxTokens, last : BOOLEAN]
      BY <1>11, Closes
    <2> QED
      BY <1>11, <2>1 DEF ReadLast, ReadFails, ProducerOnly
  <1> QED
    BY <1>3, <1>4, <1>5, <1>6, <1>7, <1>8, <1>9, <1>10, <1>11 DEF StepOf, HandlerStep,
       ProducerStep

(* A step keeps the tokens of its stream in order. *)
LEMMA OrderKept ==
    ASSUME StreamInv, NEW r \in Streams \ Whole, StepOf(r)
    PROVE  Ordered(r)'
  <1>1. r \in Requests
    BY StreamAssumption
  <1>2. Domains /\ OwnTypeOK(r) /\ Ordered(r)
    BY <1>1 DEF StreamInv, Functions, Domains
  <1>3. out[r] \in Seq(Tokens) /\ hand[r] \in Seq(Tokens) /\ chan[r] \in Seq(Tokens)
    BY <1>2 DEF OwnTypeOK
  <1>4. producer[r].made \in 0..MaxTokens /\ MaxTokens \in Nat
    BY <1>2, StreamAssumption DEF OwnTypeOK
  <1> USE <1>1 DEF Domains, Ordered
  <1>5. CASE Acquire(r) \/ Refuse(r) \/ Deadline(r) \/ Disconnect(r)
    BY <1>5, <1>2 DEF Acquire, Refuse, Deadline, Disconnect, streamVars, BeingSent
  <1>6. CASE OpenFails(r)
    BY <1>6, <1>2 DEF OpenFails, Return, BeingSent
  <1>7. CASE Done(r)
    <2>1. hand[r] = <<>> /\ chan[r] = <<>> /\ BeingSent(r) = <<>> /\ ended[r] = "no"
      BY <1>7, <1>2 DEF Done, BeingSent
    <2>2. out[r] \o hand[r] \o chan[r] \o BeingSent(r) = out[r]
      BY <1>3, <2>1, ConcatEmptySeq
    <2>3. out[r] = Numbers(producer[r].made)
      BY <1>2, <2>1, <2>2
    <2> QED
      BY <1>7, <1>2, <2>3 DEF Done, Return, BeingSent
  <1>8. CASE FlushFails(r)
    BY <1>8, <1>2 DEF FlushFails, Return, BeingSent
  <1>9. CASE OpenStream(r)
    BY <1>9, <1>2 DEF OpenStream, BeingSent, OwnTypeOK
  <1>10. CASE Receive(r)
    <2>1. hand[r] = <<>> /\ chan[r] # <<>> /\ ended[r] = "no"
      BY <1>10, <1>2 DEF Receive
    <2>2. BeingSent(r) \in Seq(Tokens)
      <3>1. CASE producer[r].phase = "sending"
        <4>1. producer[r].made \in Tokens
          BY <1>2, <1>4, <3>1 DEF OwnTypeOK, Tokens
        <4> QED
          BY <3>1, <4>1 DEF BeingSent
      <3> QED
        BY <3>1, EmptySeq DEF BeingSent
    <2>3. out[r] \o hand[r] \o chan[r] \o BeingSent(r)
            = out[r] \o <<Head(chan[r])>> \o Tail(chan[r]) \o BeingSent(r)
      <3>1. out[r] \o <<>> \o chan[r] \o BeingSent(r)
              = out[r] \o <<Head(chan[r])>> \o Tail(chan[r]) \o BeingSent(r)
        BY <1>3, <2>1, <2>2, MoveHead
      <3> QED
        BY <2>1, <3>1
    <2> QED
      BY <1>10, <1>2, <2>1, <2>3 DEF Receive, BeingSent
  <1>11. CASE Flush(r)
    <2>1. out[r] \o hand[r] \o chan[r] \o BeingSent(r)
            = (out[r] \o hand[r]) \o <<>> \o chan[r] \o BeingSent(r)
      BY <1>3, MoveHand
    <2> QED
      BY <1>11, <1>2, <2>1 DEF Flush, BeingSent
  <1>12. CASE ReadToken(r)
    <2>1. producer'[r].made = producer[r].made + 1 /\ producer'[r].phase = "sending"
      <3>1. PICK last \in BOOLEAN :
               producer'[r] = [phase |-> "sending", made |-> producer[r].made + 1, last |-> last]
        BY <1>12, <1>2 DEF ReadToken
      <3> QED
        BY <3>1
    <2>2. BeingSent(r) = <<>> /\ BeingSent(r)' = <<producer[r].made + 1>>
      BY <1>12, <2>1 DEF ReadToken, BeingSent
    <2>3. out[r] \o hand[r] \o chan[r] \in Seq(Tokens)
      BY <1>3, ConcatProperties
    <2>4. ended[r] # "cut" => out[r] \o hand[r] \o chan[r] = Numbers(producer[r].made)
      BY <1>2, <2>2, <2>3, ConcatEmptySeq
    <2>5. Numbers(producer[r].made) \o <<producer[r].made + 1>> = Numbers(producer[r].made + 1)
      BY <1>4, NextNumber
    <2>6. UNCHANGED <<phase, ended, out, hand, chan>> /\ producer[r].phase = "reading"
      BY <1>12 DEF ReadToken, ProducerOnly
    <2> QED
      BY <1>2, <2>2, <2>4, <2>5, <2>1, <2>6
  <1>13. CASE Send(r)
    <2>1. producer[r].made \in Tokens /\ BeingSent(r) = <<producer[r].made>>
      BY <1>13, <1>2, <1>4 DEF OwnTypeOK, Send, Tokens, BeingSent
    <2>2. BeingSent(r)' = <<>> /\ producer'[r].made = producer[r].made
      BY <1>13, <1>2 DEF Send, AfterSend, BeingSent, OwnTypeOK
    <2>3. out[r] \o hand[r] \o chan[r] \o BeingSent(r)
            = out[r] \o hand[r] \o Append(chan[r], producer[r].made) \o <<>>
      <3>1. out[r] \o hand[r] \o chan[r] \o <<producer[r].made>>
              = out[r] \o hand[r] \o Append(chan[r], producer[r].made) \o <<>>
        BY <1>3, <2>1, MoveSent
      <3> QED
        BY <2>1, <3>1
    <2> QED
      BY <1>13, <1>2, <2>2, <2>3 DEF Send, AfterSend, ProducerOnly
  <1>14. CASE ReadLast(r) \/ ReadFails(r)
    <2>1. producer[r].phase = "reading" /\ producer'[r].phase = "closed"
          /\ producer'[r].made = producer[r].made
      BY <1>14, <1>2, Closes DEF ReadLast, ReadFails
    <2>2. UNCHANGED <<phase, ended, out, hand, chan>>
      BY <1>14 DEF ReadLast, ReadFails, ProducerOnly
    <2> QED
      BY <1>2, <2>1, <2>2 DEF BeingSent
  <1>15. ~Respond(r)
    BY DEF Respond
  <1> QED
    BY <1>5, <1>6, <1>7, <1>8, <1>9, <1>10, <1>11, <1>12, <1>13, <1>14, <1>15
       DEF StepOf, HandlerStep, ProducerStep

(* Every step keeps types and order of every request. *)
LEMMA StreamKept == StreamInv /\ [Next]_vars => StreamInv'
  <1> SUFFICES ASSUME StreamInv, [Next]_vars PROVE StreamInv'
    OBVIOUS
  <1>1. ASSUME NEW r \in Requests, StepOf(r) PROVE StreamInv'
    <2>1. Functions' /\ \A q \in Requests \ {r} : Own(q)' = Own(q)
      BY <1>1, Elsewhere DEF StreamInv
    <2>2. ASSUME NEW q \in Requests PROVE phase'[q] \in Phases /\ OwnTypeOK(q)'
      <3>1. CASE q = r
        BY <1>1, <3>1, TypesKept
      <3>2. CASE q # r
        BY <2>1, <3>2 DEF StreamInv, Own, OwnTypeOK
      <3> QED
        BY <3>1, <3>2
    <2>3. ASSUME NEW q \in Streams \ Whole PROVE Ordered(q)'
      <3>1. CASE q = r
        BY <1>1, <3>1, OrderKept
      <3>2. CASE q # r
        <4>1. Ordered(q) /\ Own(q)' = Own(q)
          BY <2>1, <3>2, StreamAssumption DEF StreamInv
        <4> QED
          BY <4>1 DEF Own, Ordered, BeingSent
      <3> QED
        BY <3>1, <3>2
    <2> QED
      BY <2>1, <2>2, <2>3 DEF StreamInv
  <1>2. CASE UNCHANGED vars
    BY <1>2 DEF vars, StreamInv, Functions, OwnTypeOK, Ordered, BeingSent
  <1> QED
    BY <1>1, <1>2 DEF Next, StepOf

(* Types and order of the tokens, in every reachable state. *)
THEOREM StreamInvariance == Spec => []StreamInv
  BY StreamStarts, StreamKept, PTL DEF Spec

(* Type correctness of slots, handlers, goroutines and channels; the channel
   never holds more than its capacity. *)
THEOREM TypeCorrect == Spec => []TypeOK
  <1>1. PoolInv /\ StreamInv => TypeOK
    BY DEF PoolInv, PoolTypeOK, StreamInv, Functions, OwnTypeOK, TypeOK, Tokens
  <1> QED
    BY <1>1, PoolInvariance, StreamInvariance, PTL

(* No token is lost, doubled or overtaken on its way to a client that stays. *)
THEOREM TokensInOrder == Spec => []InOrder
  <1>1. StreamInv => InOrder
    BY DEF StreamInv, Ordered, InOrder
  <1> QED
    BY <1>1, StreamInvariance, PTL

(* [DONE] comes when the client has all the tokens the backend made. *)
THEOREM DoneIsComplete == Spec => []DoneMeansDelivered
  <1>1. StreamInv => DoneMeansDelivered
    BY DEF StreamInv, Ordered, DoneMeansDelivered
  <1> QED
    BY <1>1, StreamInvariance, PTL

(* The state invariants of the streams together: what TLC checks as one. *)
THEOREM StreamsAreSafe == Spec => []StreamSafety
  BY TypeCorrect, SlotsAccounted, DoneIsComplete, PTL DEF StreamSafety
=============================================================================
