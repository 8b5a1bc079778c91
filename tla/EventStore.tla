------------------------------ MODULE EventStore ------------------------------
(***************************************************************************)
(* The event store of the receiver and the streams the dashboard serves    *)
(* from it.  Any thread emits: it takes an id, appends the event to the    *)
(* ring buffer and copies the list of subscribers under the lock, and then *)
(* offers the event to each of them without it.  A client that asks for    *)
(* the stream is admitted when there are fewer subscribers than the cap;   *)
(* it becomes a subscriber later, when its response is started.            *)
(*                                                                         *)
(* An event is its id.  A subscriber's queue is the part of put[c] behind  *)
(* its first taken[c] events.                                              *)
(***************************************************************************)
EXTENDS Naturals, Sequences, FiniteSets, Functions

CONSTANTS
  Emitters,        \* threads that emit
  Clients,         \* stream requests
  MaxLen,          \* of the deque
  QueueSize,       \* of a subscriber's queue
  MaxSubscribers,  \* _MAX_SSE_SUBSCRIBERS
  MaxEvents        \* bound on the events emitted

ASSUME SizesAssumption ==
  /\ MaxLen \in Nat \ {0} /\ QueueSize \in Nat \ {0}
  /\ MaxSubscribers \in Nat /\ MaxEvents \in Nat

VARIABLES
  nextId,    \* _counter
  step,      \* where each emitter is: idle, append or offer
  holds,     \* the event it is emitting, 0 if none
  targets,   \* its copy of the subscribers, those it has not reached yet
  buffer,    \* _events
  subs,      \* _subscribers
  wedged,    \* a thread waits for _lock and has it
  stream,    \* each client's request: idle, admitted, open or closed
  put,       \* what was put into its queue
  taken,     \* how much of that its stream has taken out
  missed,    \* history: the events it was not given because its queue was full
  older,     \* history: the events that had left the buffer when it subscribed
  finished,  \* history: events whose emit has returned
  before     \* history: those that had been finished when an event took its id

emitter == <<step, holds, targets>>
client  == <<stream, put, taken, missed, older>>
past    == <<finished, before>>
vars    == <<nextId, emitter, buffer, subs, wedged, client, past>>

Ids == 1..MaxEvents

TypeOK ==
  /\ nextId \in 1..MaxEvents + 1
  /\ step \in [Emitters -> {"idle", "append", "offer"}]
  /\ holds \in [Emitters -> Ids \cup {0}]
  /\ targets \in [Emitters -> SUBSET Clients]
  /\ buffer \in Seq(Ids) /\ Len(buffer) <= MaxLen
  /\ subs \subseteq Clients /\ wedged \in BOOLEAN
  /\ stream \in [Clients -> {"idle", "admitted", "open", "closed"}]
  /\ put \in [Clients -> Seq(Ids)]
  /\ taken \in [Clients -> Nat]
  /\ missed \in [Clients -> SUBSET Ids] /\ older \in [Clients -> SUBSET Ids]
  /\ finished \subseteq Ids
  /\ before \in [Ids -> SUBSET Ids]

Init ==
  /\ nextId = 1
  /\ step = [e \in Emitters |-> "idle"] /\ holds = [e \in Emitters |-> 0]
  /\ targets = [e \in Emitters |-> {}]
  /\ buffer = << >> /\ subs = {} /\ wedged = FALSE
  /\ stream = [c \in Clients |-> "idle"]
  /\ put = [c \in Clients |-> << >>] /\ taken = [c \in Clients |-> 0]
  /\ missed = [c \in Clients |-> {}] /\ older = [c \in Clients |-> {}]
  /\ finished = {} /\ before = [i \in Ids |-> {}]

----------------------------------------------------------------------------
(* emit. *)

\* next(_counter), before the lock is taken.
TakeId(e) ==
  /\ step[e] = "idle" /\ nextId <= MaxEvents
  /\ step' = [step EXCEPT ![e] = "append"]
  /\ holds' = [holds EXCEPT ![e] = nextId]
  /\ nextId' = nextId + 1
  /\ before' = [before EXCEPT ![nextId] = finished]
  /\ UNCHANGED <<targets, buffer, subs, client, finished, wedged>>

\* BROKEN: the deque has no limit.
PushedUnbounded(i) == Append(buffer, i)
\* deque.append with maxlen.
Pushed(i) == IF Len(buffer) < MaxLen THEN Append(buffer, i) ELSE Append(Tail(buffer), i)

AppendEvent(e) ==
  /\ step[e] = "append" /\ ~wedged
  /\ buffer' = Pushed(holds[e])
  /\ targets' = [targets EXCEPT ![e] = subs]
  /\ step' = [step EXCEPT ![e] = "offer"]
  /\ UNCHANGED <<nextId, holds, subs, client, past, wedged>>

Full(c) == Len(put[c]) - taken[c] >= QueueSize

Give(e, c) ==
  /\ put' = [put EXCEPT ![c] = Append(@, holds[e])]
  /\ UNCHANGED missed

Withhold(e, c) ==
  /\ missed' = [missed EXCEPT ![c] = @ \cup {holds[e]}]
  /\ UNCHANGED put

OfferThen(e, c, left) ==
  /\ step[e] = "offer" /\ c \in targets[e]
  /\ (~Full(c) /\ Give(e, c)) \/ (Full(c) /\ Withhold(e, c))
  /\ targets' = [targets EXCEPT ![e] = left]
  /\ UNCHANGED <<nextId, step, holds, buffer, subs, stream, taken, older, past, wedged>>

\* BROKEN: the emitter waits until there is room in the queue.
OfferBlocking(e, c) == ~Full(c) /\ OfferThen(e, c, targets[e] \ {c})
\* BROKEN: the first full queue ends the fan-out.
OfferUntilFull(e, c) == OfferThen(e, c, IF Full(c) THEN {} ELSE targets[e] \ {c})
\* put_nowait: a full queue does not get the event, and the emitter goes on.
Offer(e, c) == OfferThen(e, c, targets[e] \ {c})

\* BROKEN: the fan-out is left to another thread.
EmitReturnsEarly(e) ==
  /\ step[e] = "offer" /\ holds[e] \notin finished
  /\ finished' = finished \cup {holds[e]}
  /\ UNCHANGED <<nextId, emitter, buffer, subs, client, before, wedged>>
EmitReturns(e) ==
  /\ step[e] = "offer" /\ targets[e] = {}
  /\ finished' = finished \cup {holds[e]}
  /\ step' = [step EXCEPT ![e] = "idle"]
  /\ holds' = [holds EXCEPT ![e] = 0]
  /\ UNCHANGED <<nextId, targets, buffer, subs, client, before, wedged>>

----------------------------------------------------------------------------
(* The streams. *)

\* BROKEN: the queue is registered here and filled from the buffer later.
AdmitRegistered(c) ==
  /\ stream[c] = "idle" /\ ~wedged /\ Cardinality(subs) < MaxSubscribers
  /\ stream' = [stream EXCEPT ![c] = "admitted"]
  /\ subs' = subs \cup {c}
  /\ UNCHANGED <<nextId, emitter, buffer, put, taken, missed, older, past, wedged>>
\* events_stream: the count is looked at, and nothing is reserved.  A refused
\* request (503) changes nothing.
Admit(c) ==
  /\ stream[c] = "idle" /\ ~wedged /\ Cardinality(subs) < MaxSubscribers
  /\ stream' = [stream EXCEPT ![c] = "admitted"]
  /\ UNCHANGED <<nextId, emitter, buffer, subs, put, taken, missed, older, past, wedged>>

\* What has been appended, whether the buffer still has it or not.
Appended == {i \in Ids : i < nextId /\ \A e \in Emitters : ~(step[e] = "append" /\ holds[e] = i)}

\* The first events of the buffer that find room in the new queue.
Backlog == SubSeq(buffer, 1, IF Len(buffer) < QueueSize THEN Len(buffer) ELSE QueueSize)

\* subscribe: the backlog and the registration under one lock.
Subscribe(c) ==
  /\ stream[c] = "admitted" /\ ~wedged
  /\ put' = [put EXCEPT ![c] = @ \o Backlog]
  /\ missed' = [missed EXCEPT ![c] = Range(buffer) \ Range(Backlog)]
  /\ older' = [older EXCEPT ![c] = Appended \ Range(buffer)]
  /\ subs' = subs \cup {c}
  /\ stream' = [stream EXCEPT ![c] = "open"]
  /\ UNCHANGED <<nextId, emitter, buffer, taken, past, wedged>>

\* Subscriber.__next__; a keepalive takes nothing.
Get(c) ==
  /\ stream[c] = "open" /\ taken[c] < Len(put[c])
  /\ taken' = [taken EXCEPT ![c] = @ + 1]
  /\ UNCHANGED <<nextId, emitter, buffer, subs, stream, put, missed, older, past, wedged>>

\* Subscriber.close, called or from __del__: an emitter may still hold the queue in
\* its copy.
Close(c) ==
  /\ stream[c] = "open" /\ ~wedged
  /\ subs' = subs \ {c}
  /\ stream' = [stream EXCEPT ![c] = "closed"]
  /\ UNCHANGED <<nextId, emitter, buffer, put, taken, missed, older, past, wedged>>

\* A stream that was dropped is collected in a thread that is inside the lock, in emit,
\* subscribe, recent or subscriber_count: it closes the stream there, and the lock is
\* not reentrant.
CollectUnderLock(c) ==
  /\ stream[c] = "open" /\ ~wedged
  /\ stream' = [stream EXCEPT ![c] = "closed"]
  /\ wedged' = TRUE
  /\ UNCHANGED <<nextId, emitter, buffer, subs, put, taken, missed, older, past>>

----------------------------------------------------------------------------

EmitStep(e) == AppendEvent(e) \/ (\E c \in Clients : Offer(e, c)) \/ EmitReturns(e)
ClientStep(c) == Admit(c) \/ Subscribe(c) \/ Get(c) \/ Close(c) \/ CollectUnderLock(c)

Next ==
  \/ \E e \in Emitters : TakeId(e) \/ EmitStep(e)
  \/ \E c \in Clients : ClientStep(c)

\* A thread that has begun to emit goes on; nobody need emit or read.
Spec == Init /\ [][Next]_vars /\ \A e \in Emitters : WF_vars(EmitStep(e))

----------------------------------------------------------------------------
(* Properties. *)

\* No subscriber is given an event twice, though it may come from the buffer and
\* from the emitter that is just appending it.
AtMostOnce ==
  \A c \in Clients : \A i, j \in 1..Len(put[c]) : put[c][i] = put[c][j] => i = j

\* Every event that was in the buffer when a client subscribed, or was appended
\* since, is in its queue or on its way there, unless the queue was full.
Accounted ==
  \A c \in subs : \A i \in Appended \ older[c] :
    \/ i \in Range(put[c]) \cup missed[c]
    \/ \E e \in Emitters : step[e] = "offer" /\ holds[e] = i /\ c \in targets[e]

\* Ids may be out of order, but only those of emits that overlap: an event is
\* never behind one that was begun after it had been emitted.
InEmitOrder(s) == \A i, j \in 1..Len(s) : i < j => s[j] \notin before[s[i]]
EmitOrder == InEmitOrder(buffer) /\ \A c \in Clients : InEmitOrder(put[c])

\* emit returns whether or not anybody reads, and whatever streams are opened, closed
\* and dropped.  Only a stream that is collected inside the lock stops the emits, and of
\* them those that have not passed the lock.
EmitEnds ==
  \A e \in Emitters : step[e] # "idle" ~> step[e] = "idle" \/ (wedged /\ step[e] = "append")

----------------------------------------------------------------------------
(* What documents say of the streams, and the code does not do. *)

\* "capped at 10 concurrent subscribers".
StreamsCapped == Cardinality(subs) <= MaxSubscribers
============================================================================
