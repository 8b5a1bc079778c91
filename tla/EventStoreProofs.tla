--------------------------- MODULE EventStoreProofs ---------------------------
(***************************************************************************)
(* Safety of EventStore for any threads, streams and sizes.                *)
(***************************************************************************)
EXTENDS EventStore, FiniteSetTheorems, TLAPS

Held(e) == step[e] # "idle"

\* An id is in the hands of one emitter, which has not finished with it.
OneEmitterEach ==
  /\ \A e \in Emitters : Held(e) => holds[e] \in Ids /\ holds[e] < nextId /\ holds[e] \notin finished
  /\ \A e, f \in Emitters : Held(e) /\ Held(f) /\ holds[e] = holds[f] => e = f

\* Nothing is in a queue before it has an id, and what is past is past.
KnownIds ==
  /\ \A i \in Range(buffer) : i < nextId
  /\ \A c \in Clients : \A i \in Range(put[c]) : i < nextId
  /\ \A i \in finished : i < nextId
  /\ \A i \in Ids : before[i] \subseteq finished

\* A client that has not subscribed is known to no emitter.
Unknown ==
  \A c \in Clients : stream[c] \in {"idle", "admitted"} =>
    /\ put[c] = << >> /\ c \notin subs
    /\ \A e \in Emitters : c \notin targets[e]

Distinct(s) == \A i, j \in 1..Len(s) : s[i] = s[j] => i = j

\* What an emitter has yet to append or to offer is not there already.
NotYetGiven ==
  /\ Distinct(buffer)
  /\ \A e \in Emitters : step[e] = "append" =>
       holds[e] \notin Range(buffer) /\ \A c \in Clients : holds[e] \notin Range(put[c])
  /\ \A e \in Emitters : step[e] = "offer" =>
       \A c \in targets[e] : holds[e] \notin Range(put[c])

IInv ==
  /\ TypeOK
  /\ OneEmitterEach
  /\ KnownIds
  /\ Unknown
  /\ NotYetGiven
  /\ AtMostOnce
  /\ EmitOrder
  /\ Accounted

------------------------------------------------------------------------------
(* The sequences. *)

\* The elements of a sequence by their positions.
LEMMA RangeOf ==
  ASSUME NEW S, NEW s \in Seq(S)
  PROVE  Range(s) = {s[i] : i \in 1..Len(s)}
<1>1. DOMAIN s = 1..Len(s)
  OBVIOUS
<1> QED
  BY <1>1 DEF Range

\* They are in the set the sequence is over.
LEMMA RangeInSet ==
  ASSUME NEW S, NEW s \in Seq(S)
  PROVE  Range(s) \subseteq S
<1>1. \A i \in 1..Len(s) : s[i] \in S
  OBVIOUS
<1> QED
  BY <1>1, RangeOf

\* Appending keeps a sequence's elements, adds one, and keeps it free of
\* duplicates when that one is new.
LEMMA AppendedTo ==
  ASSUME NEW S, NEW s \in Seq(S), NEW x \in S
  PROVE  /\ Append(s, x) \in Seq(S)
         /\ Len(Append(s, x)) = Len(s) + 1
         /\ \A i \in 1..Len(s) : Append(s, x)[i] = s[i]
         /\ Append(s, x)[Len(s) + 1] = x
         /\ Range(Append(s, x)) = Range(s) \cup {x}
         /\ Distinct(s) /\ x \notin Range(s) => Distinct(Append(s, x))
<1>1. /\ Append(s, x) \in Seq(S)
      /\ Len(Append(s, x)) = Len(s) + 1
      /\ \A i \in 1..Len(s) : Append(s, x)[i] = s[i]
      /\ Append(s, x)[Len(s) + 1] = x
  OBVIOUS
<1>2. Range(Append(s, x)) = Range(s) \cup {x}
  <2>1. DOMAIN s = 1..Len(s) /\ DOMAIN Append(s, x) = 1..Len(s) + 1
    OBVIOUS
  <2> QED
    BY <1>1, <2>1 DEF Range
<1>3. ASSUME Distinct(s), x \notin Range(s)
      PROVE  Distinct(Append(s, x))
  <2>1. \A i \in 1..Len(s) : s[i] # x
    BY <1>3 DEF Range
  <2> QED
    BY <1>1, <1>3, <2>1 DEF Distinct
<1> QED
  BY <1>1, <1>2, <1>3

\* The buffer with one more event: the event is its last element, and what is
\* before it was in the buffer, in the same order.
LEMMA PushedTo ==
  ASSUME TypeOK, NEW x \in Ids
  PROVE  /\ Pushed(x) \in Seq(Ids)
         /\ Len(Pushed(x)) \in 1..MaxLen
         /\ Pushed(x)[Len(Pushed(x))] = x
         /\ \E d \in {0, 1} : \A i \in 1..Len(Pushed(x)) - 1 :
              i + d \in 1..Len(buffer) /\ Pushed(x)[i] = buffer[i + d]
<1>1. CASE Len(buffer) < MaxLen
  BY <1>1, AppendedTo, SizesAssumption DEF TypeOK, Pushed
<1>2. CASE ~(Len(buffer) < MaxLen)
  <2>1. /\ buffer \in Seq(Ids) /\ Len(buffer) = MaxLen /\ buffer # << >>
    BY <1>2, SizesAssumption DEF TypeOK
  <2>2. /\ Tail(buffer) \in Seq(Ids) /\ Len(Tail(buffer)) = MaxLen - 1
        /\ \A i \in 1..MaxLen - 1 : Tail(buffer)[i] = buffer[i + 1]
    BY <2>1, SizesAssumption
  <2>3. Pushed(x) = Append(Tail(buffer), x)
    BY <1>2 DEF Pushed
  <2>4. /\ Pushed(x) \in Seq(Ids) /\ Len(Pushed(x)) = MaxLen /\ Pushed(x)[MaxLen] = x
        /\ \A i \in 1..MaxLen - 1 : Pushed(x)[i] = buffer[i + 1]
    BY <2>2, <2>3, AppendedTo, SizesAssumption
  <2>5. \A i \in 1..Len(Pushed(x)) - 1 : i + 1 \in 1..Len(buffer) /\ Pushed(x)[i] = buffer[i + 1]
    BY <2>1, <2>4, SizesAssumption
  <2> QED
    BY <2>4, <2>5, SizesAssumption
<1> QED
  BY <1>1, <1>2

\* The backlog is a prefix of the buffer, and all that an empty queue gets.
LEMMA BacklogIsPrefix ==
  ASSUME TypeOK, NEW s \in Seq(Ids), s = << >>
  PROVE  /\ s \o Backlog = Backlog
         /\ Backlog \in Seq(Ids)
         /\ Len(Backlog) <= Len(buffer)
         /\ \A i \in 1..Len(Backlog) : Backlog[i] = buffer[i]
<1>1. /\ Backlog \in Seq(Ids) /\ Len(Backlog) <= Len(buffer)
      /\ \A i \in 1..Len(Backlog) : Backlog[i] = buffer[i]
  BY SizesAssumption DEF TypeOK, Backlog
<1>2. s \o Backlog = Backlog
  BY <1>1
<1> QED
  BY <1>1, <1>2
------------------------------------------------------------------------------
(* Each part of the invariant is preserved by every step. *)

\* Every variable keeps its type; the buffer never outgrows the deque.
LEMMA TypeStep ==
  ASSUME TypeOK, OneEmitterEach, Unknown, [Next]_vars
  PROVE  TypeOK'
<1> USE SizesAssumption DEF TypeOK, Ids, emitter, client, past
<1>1. CASE \E e \in Emitters : TakeId(e)
  BY <1>1 DEF TakeId
<1>2. CASE \E e \in Emitters : AppendEvent(e)
  <2> SUFFICES ASSUME NEW e \in Emitters, AppendEvent(e) PROVE TypeOK'
    BY <1>2
  <2>1. holds[e] \in Ids
    BY DEF AppendEvent, OneEmitterEach, Held
  <2>2. buffer' \in Seq(Ids) /\ Len(buffer') <= MaxLen
    BY <2>1, PushedTo DEF AppendEvent
  <2> QED
    BY <2>2 DEF AppendEvent
<1>3. CASE \E e \in Emitters, c \in Clients : Offer(e, c)
  <2> SUFFICES ASSUME NEW e \in Emitters, NEW c \in Clients, Offer(e, c) PROVE TypeOK'
    BY <1>3
  <2>1. holds[e] \in Ids
    BY DEF Offer, OfferThen, OneEmitterEach, Held
  <2>2. Append(put[c], holds[e]) \in Seq(Ids) /\ missed[c] \cup {holds[e]} \in SUBSET Ids
    BY <2>1, AppendedTo
  <2>3. put' \in [Clients -> Seq(Ids)] /\ missed' \in [Clients -> SUBSET Ids]
    <3>1. CASE Give(e, c)
      BY <2>2, <3>1 DEF Give
    <3>2. CASE Withhold(e, c)
      BY <2>2, <3>2 DEF Withhold
    <3> QED
      BY <3>1, <3>2 DEF Offer, OfferThen
  <2>4. targets' \in [Emitters -> SUBSET Clients]
    BY DEF Offer, OfferThen
  <2> QED
    BY <2>3, <2>4 DEF Offer, OfferThen
<1>4. CASE \E e \in Emitters : EmitReturns(e)
  BY <1>4 DEF EmitReturns, OneEmitterEach, Held
<1>5. CASE \E c \in Clients : Subscribe(c)
  <2> SUFFICES ASSUME NEW c \in Clients, Subscribe(c) PROVE TypeOK'
    BY <1>5
  <2>1. put[c] = << >>
    BY DEF Subscribe, Unknown
  <2>2. put' \in [Clients -> Seq(Ids)]
    BY <2>1, BacklogIsPrefix DEF Subscribe
  <2>3. Range(buffer) \subseteq Ids
    BY DEF Range
  <2>4. missed' \in [Clients -> SUBSET Ids] /\ older' \in [Clients -> SUBSET Ids]
    BY <2>3 DEF Subscribe, Appended
  <2>5. subs' \subseteq Clients /\ stream' \in [Clients -> {"idle", "admitted", "open", "closed"}]
    BY DEF Subscribe
  <2> QED
    BY <2>2, <2>4, <2>5 DEF Subscribe
<1>6. CASE \E c \in Clients : Admit(c)
  BY <1>6 DEF Admit
<1>7. CASE \E c \in Clients : Get(c)
  <2>1. taken' \in [Clients -> Nat]
    BY <1>7 DEF Get
  <2> QED
    BY <1>7, <2>1 DEF Get
<1>8. CASE \E c \in Clients : Close(c) \/ CollectUnderLock(c)
  BY <1>8 DEF Close, CollectUnderLock
<1>9. CASE UNCHANGED vars
  BY <1>9 DEF vars
<1> QED
  BY <1>1, <1>2, <1>3, <1>4, <1>5, <1>6, <1>7, <1>8, <1>9 DEF Next, EmitStep, ClientStep

\* Ids are handed out once: the counter is ahead of every id in use.
LEMMA EmitterStep ==
  ASSUME TypeOK, OneEmitterEach, KnownIds, [Next]_vars
  PROVE  OneEmitterEach'
<1> USE DEF TypeOK, Ids, OneEmitterEach, Held, emitter, client, past
<1>1. CASE \E e \in Emitters : TakeId(e)
  BY <1>1 DEF TakeId, KnownIds
<1>2. CASE \E e \in Emitters : AppendEvent(e)
  BY <1>2 DEF AppendEvent
<1>3. CASE \E e \in Emitters, c \in Clients : Offer(e, c)
  BY <1>3 DEF Offer, OfferThen
<1>4. CASE \E e \in Emitters : EmitReturns(e)
  BY <1>4 DEF EmitReturns
<1>5. CASE \E c \in Clients : ClientStep(c)
  BY <1>5 DEF ClientStep, Admit, Subscribe, Get, Close, CollectUnderLock
<1>6. CASE UNCHANGED vars
  BY <1>6 DEF vars
<1> QED
  BY <1>1, <1>2, <1>3, <1>4, <1>5, <1>6 DEF Next, EmitStep

\* A queue is only filled from its client's subscription on.
LEMMA UnknownStep ==
  ASSUME TypeOK, Unknown, [Next]_vars
  PROVE  Unknown'
<1> USE DEF TypeOK, Unknown, emitter, client, past
<1>1. CASE \E e \in Emitters : TakeId(e) \/ EmitReturns(e)
  BY <1>1 DEF TakeId, EmitReturns
<1>2. CASE \E e \in Emitters : AppendEvent(e)
  BY <1>2 DEF AppendEvent
<1>3. CASE \E e \in Emitters, c \in Clients : Offer(e, c)
  BY <1>3 DEF Offer, OfferThen, Give, Withhold
<1>4. CASE \E c \in Clients : ClientStep(c)
  BY <1>4 DEF ClientStep, Admit, Subscribe, Get, Close, CollectUnderLock
<1>5. CASE UNCHANGED vars
  BY <1>5 DEF vars
<1> QED
  BY <1>1, <1>2, <1>3, <1>4, <1>5 DEF Next, EmitStep

------------------------------------------------------------------------------
(* The three steps that write a sequence, once for all the parts. *)

\* What AppendEvent does to the buffer.
LEMMA AppendWrites ==
  ASSUME TypeOK, OneEmitterEach, NEW e \in Emitters, AppendEvent(e)
  PROVE  /\ holds[e] \in Ids
         /\ buffer' \in Seq(Ids) /\ Len(buffer') \in 1..MaxLen
         /\ buffer'[Len(buffer')] = holds[e]
         /\ \E d \in {0, 1} : \A i \in 1..Len(buffer') - 1 :
              i + d \in 1..Len(buffer) /\ buffer'[i] = buffer[i + d]
         /\ Range(buffer') \subseteq Range(buffer) \cup {holds[e]}
<1>1. holds[e] \in Ids /\ buffer' = Pushed(holds[e])
  BY DEF AppendEvent, OneEmitterEach, Held
<1>2. /\ buffer' \in Seq(Ids) /\ Len(buffer') \in 1..MaxLen
      /\ buffer'[Len(buffer')] = holds[e]
      /\ \E d \in {0, 1} : \A i \in 1..Len(buffer') - 1 :
           i + d \in 1..Len(buffer) /\ buffer'[i] = buffer[i + d]
  BY <1>1, PushedTo
<1>3. ASSUME NEW i \in 1..Len(buffer')
      PROVE  buffer'[i] \in Range(buffer) \cup {holds[e]}
  <2>1. CASE i = Len(buffer')
    BY <1>2, <2>1
  <2>2. CASE i # Len(buffer')
    <3>1. i \in 1..Len(buffer') - 1
      BY <1>2, <2>2, SizesAssumption
    <3>2. PICK j \in 1..Len(buffer) : buffer'[i] = buffer[j]
      BY <1>2, <3>1
    <3> QED
      BY <3>2, RangeOf DEF TypeOK
  <2> QED
    BY <2>1, <2>2
<1>4. Range(buffer') \subseteq Range(buffer) \cup {holds[e]}
  BY <1>2, <1>3, RangeOf
<1> QED
  BY <1>1, <1>2, <1>4

\* What Offer does to the queues: nothing, or one new element at the end of one.
LEMMA OfferWrites ==
  ASSUME TypeOK, OneEmitterEach, NEW e \in Emitters, NEW c \in Clients, Offer(e, c)
  PROVE  /\ holds[e] \in Ids /\ holds[e] \notin finished /\ holds[e] < nextId
         /\ \A d \in Clients : d # c => put'[d] = put[d]
         /\ \/ put'[c] = put[c] /\ Full(c)
            \/ put'[c] = Append(put[c], holds[e])
<1> QED
  BY DEF Offer, OfferThen, Give, Withhold, OneEmitterEach, Held, TypeOK

\* A queue an event is offered to gains at most that event, and not twice.
LEMMA OfferAddsOne ==
  ASSUME TypeOK, OneEmitterEach, NEW e \in Emitters, NEW c \in Clients, Offer(e, c)
  PROVE  /\ Range(put'[c]) \subseteq Range(put[c]) \cup {holds[e]} /\ holds[e] < nextId
         /\ Distinct(put[c]) /\ holds[e] \notin Range(put[c]) => Distinct(put'[c])
<1>1. holds[e] \in Ids /\ holds[e] < nextId /\ put[c] \in Seq(Ids)
  BY OfferWrites DEF TypeOK
<1>2. /\ Range(Append(put[c], holds[e])) = Range(put[c]) \cup {holds[e]}
      /\ Distinct(put[c]) /\ holds[e] \notin Range(put[c]) => Distinct(Append(put[c], holds[e]))
  BY <1>1, AppendedTo
<1> QED
  BY <1>1, <1>2, OfferWrites

\* What Subscribe does to the queues.
LEMMA SubscribeWrites ==
  ASSUME TypeOK, Unknown, NEW c \in Clients, Subscribe(c)
  PROVE  /\ \A d \in Clients : d # c => put'[d] = put[d]
         /\ put'[c] = Backlog
         /\ Backlog \in Seq(Ids) /\ Len(Backlog) <= Len(buffer)
         /\ \A i \in 1..Len(Backlog) : Backlog[i] = buffer[i]
         /\ Range(Backlog) \subseteq Range(buffer)
<1>1. put[c] \in Seq(Ids) /\ put[c] = << >>
  BY DEF Subscribe, Unknown, TypeOK
<1>2. /\ put[c] \o Backlog = Backlog
      /\ Backlog \in Seq(Ids) /\ Len(Backlog) <= Len(buffer)
      /\ \A i \in 1..Len(Backlog) : Backlog[i] = buffer[i]
  BY <1>1, BacklogIsPrefix
<1>3. Range(Backlog) \subseteq Range(buffer)
  <2>1. /\ Range(Backlog) = {Backlog[i] : i \in 1..Len(Backlog)}
        /\ Range(buffer) = {buffer[i] : i \in 1..Len(buffer)}
    BY <1>2, RangeOf DEF TypeOK
  <2>2. \A i \in 1..Len(Backlog) : i \in 1..Len(buffer)
    BY <1>2 DEF TypeOK
  <2> QED
    BY <1>2, <2>1, <2>2
<1> QED
  BY <1>2, <1>3 DEF Subscribe, TypeOK

------------------------------------------------------------------------------

\* Everything in a queue or in the past has an id already handed out.
LEMMA KnownStep ==
  ASSUME TypeOK, OneEmitterEach, KnownIds, Unknown, [Next]_vars
  PROVE  KnownIds'
<1> USE DEF KnownIds, Ids, emitter, client, past
<1>1. CASE \E e \in Emitters : TakeId(e)
  <2>1. /\ Range(buffer) \subseteq Ids /\ finished \subseteq Ids
        /\ \A c \in Clients : Range(put[c]) \subseteq Ids
    <3>1. /\ buffer \in Seq(Ids) /\ finished \subseteq Ids
          /\ \A c \in Clients : put[c] \in Seq(Ids)
      BY DEF TypeOK
    <3> QED
      BY <3>1, RangeInSet
  <2>2. nextId \in Ids /\ nextId' = nextId + 1
    BY <1>1 DEF TakeId, TypeOK
  <2>3. \A i \in Ids : i < nextId => i < nextId'
    BY <2>2
  <2>4. /\ buffer' = buffer /\ put' = put /\ finished' = finished
        /\ before' = [before EXCEPT ![nextId] = finished]
    BY <1>1 DEF TakeId
  <2>5. \A i \in Ids : before'[i] \subseteq finished
    BY <2>2, <2>4 DEF TypeOK
  <2> QED
    BY <2>1, <2>3, <2>4, <2>5
<1>2. CASE \E e \in Emitters : AppendEvent(e)
  <2> SUFFICES ASSUME NEW e \in Emitters, AppendEvent(e) PROVE KnownIds'
    BY <1>2
  <2>1. Range(buffer') \subseteq Range(buffer) \cup {holds[e]} /\ holds[e] < nextId
    BY AppendWrites DEF AppendEvent, OneEmitterEach, Held
  <2>2. /\ nextId' = nextId /\ put' = put /\ finished' = finished /\ before' = before
    BY DEF AppendEvent
  <2>3. \A i \in Range(buffer)' : i < nextId
    BY <2>1
  <2> QED
    BY <2>2, <2>3
<1>3. CASE \E e \in Emitters, c \in Clients : Offer(e, c)
  <2> SUFFICES ASSUME NEW e \in Emitters, NEW c \in Clients, Offer(e, c) PROVE KnownIds'
    BY <1>3
  <2>1. Range(put'[c]) \subseteq Range(put[c]) \cup {holds[e]} /\ holds[e] < nextId
    BY OfferAddsOne
  <2>2. \A d \in Clients : d # c => put'[d] = put[d]
    BY OfferWrites
  <2> QED
    BY <2>1, <2>2 DEF Offer, OfferThen
<1>4. CASE \E e \in Emitters : EmitReturns(e)
  BY <1>4 DEF EmitReturns, OneEmitterEach, Held
<1>5. CASE \E c \in Clients : Subscribe(c)
  <2> SUFFICES ASSUME NEW c \in Clients, Subscribe(c) PROVE KnownIds'
    BY <1>5
  <2>1. /\ \A d \in Clients : d # c => put'[d] = put[d]
        /\ Range(put'[c]) \subseteq Range(buffer)
    BY SubscribeWrites
  <2> QED
    BY <2>1 DEF Subscribe
<1>6. CASE \E c \in Clients : Admit(c) \/ Get(c) \/ Close(c) \/ CollectUnderLock(c)
  BY <1>6 DEF Admit, Get, Close, CollectUnderLock
<1>7. CASE UNCHANGED vars
  BY <1>7 DEF vars
<1> QED
  BY <1>1, <1>2, <1>3, <1>4, <1>5, <1>6, <1>7 DEF Next, EmitStep, ClientStep

\* An event that is yet to be appended is in no sequence, and one that is yet to
\* be offered to a client is not in its queue: no element is written twice.
LEMMA GivenOnceStep ==
  ASSUME TypeOK, OneEmitterEach, KnownIds, Unknown, NotYetGiven, AtMostOnce, [Next]_vars
  PROVE  NotYetGiven' /\ AtMostOnce'
<1> USE DEF NotYetGiven, emitter, client, past
<1>1. CASE \E e \in Emitters : TakeId(e)
  BY <1>1 DEF TakeId, TypeOK, KnownIds, AtMostOnce, Distinct
<1>2. CASE \E e \in Emitters : AppendEvent(e)
  <2> SUFFICES ASSUME NEW e \in Emitters, AppendEvent(e) PROVE NotYetGiven' /\ AtMostOnce'
    BY <1>2
  <2>1. step[e] = "append" /\ Held(e) /\ holds[e] \notin Range(buffer)
    BY DEF AppendEvent, Held
  <2>2. Distinct(buffer')
    <3> SUFFICES ASSUME NEW i \in 1..Len(buffer'), NEW j \in 1..Len(buffer'), i < j
                 PROVE  buffer'[i] # buffer'[j]
      BY AppendWrites DEF Distinct
    <3>1. i \in 1..Len(buffer') - 1
      BY AppendWrites
    <3>2. PICK d \in {0, 1} : \A k \in 1..Len(buffer') - 1 :
            k + d \in 1..Len(buffer) /\ buffer'[k] = buffer[k + d]
      BY AppendWrites
    <3>3. buffer'[i] \in Range(buffer)
      BY <3>1, <3>2, RangeOf DEF TypeOK
    <3>4. CASE j = Len(buffer')
      BY <2>1, <3>3, <3>4, AppendWrites
    <3>5. CASE j # Len(buffer')
      <4>1. j \in 1..Len(buffer') - 1 /\ i + d # j + d
        BY <3>5, AppendWrites
      <4> QED
        BY <3>1, <3>2, <4>1 DEF Distinct
    <3> QED
      BY <3>4, <3>5
  <2>3. ASSUME NEW f \in Emitters, step'[f] = "append"
        PROVE  holds'[f] \notin Range(buffer') /\ \A c \in Clients : holds'[f] \notin Range(put'[c])
    <3>1. f # e /\ step[f] = "append" /\ Held(f) /\ holds'[f] = holds[f] /\ put' = put
      BY <2>3 DEF AppendEvent, TypeOK, Held
    <3>2. holds[f] # holds[e]
      BY <2>1, <3>1 DEF OneEmitterEach
    <3> QED
      BY <3>1, <3>2, AppendWrites
  <2>4. \A f \in Emitters : step'[f] = "offer" =>
          \A c \in targets'[f] : holds'[f] \notin Range(put'[c])
    BY DEF AppendEvent, TypeOK
  <2>5. AtMostOnce'
    BY DEF AppendEvent, AtMostOnce
  <2> QED
    BY <2>2, <2>3, <2>4, <2>5
<1>3. CASE \E e \in Emitters, c \in Clients : Offer(e, c)
  <2> SUFFICES ASSUME NEW e \in Emitters, NEW c \in Clients, Offer(e, c)
               PROVE  NotYetGiven' /\ AtMostOnce'
    BY <1>3
  <2>1. /\ step[e] = "offer" /\ Held(e) /\ c \in targets[e] /\ holds[e] \notin Range(put[c])
        /\ step' = step /\ holds' = holds /\ buffer' = buffer
        /\ targets' = [targets EXCEPT ![e] = targets[e] \ {c}]
    BY DEF Offer, OfferThen, Held
  <2>2. /\ \A d \in Clients : d # c => put'[d] = put[d]
        /\ Range(put'[c]) \subseteq Range(put[c]) \cup {holds[e]}
        /\ Distinct(put[c]) => Distinct(put'[c])
    BY <2>1, OfferWrites, OfferAddsOne
  <2>3. \A f \in Emitters : f # e /\ Held(f) => holds[f] # holds[e]
    BY <2>1 DEF OneEmitterEach
  <2>4. \A f \in Emitters : step[f] = "append" => f # e /\ Held(f)
    BY <2>1 DEF Held
  <2>5. ASSUME NEW f \in Emitters, step[f] = "offer", NEW d \in targets'[f]
        PROVE  holds[f] \notin Range(put'[d])
    <3>1. d \in targets[f] /\ d \in Clients /\ (f = e => d # c)
      BY <2>1 DEF TypeOK
    <3>2. CASE d # c
      BY <2>2, <2>5, <3>1, <3>2
    <3>3. CASE d = c
      BY <2>2, <2>3, <2>5, <3>1, <3>3 DEF Held
    <3> QED
      BY <3>2, <3>3
  <2>6. \A d \in Clients : Distinct(put'[d])
    BY <2>2 DEF AtMostOnce, Distinct
  <2>7. \A f \in Emitters : step[f] = "append" => \A d \in Clients : holds[f] \notin Range(put'[d])
    BY <2>2, <2>3, <2>4
  <2> QED
    BY <2>1, <2>5, <2>6, <2>7 DEF AtMostOnce, Distinct
<1>4. CASE \E e \in Emitters : EmitReturns(e)
  BY <1>4 DEF EmitReturns, TypeOK, AtMostOnce, Distinct
<1>5. CASE \E c \in Clients : Subscribe(c)
  <2> SUFFICES ASSUME NEW c \in Clients, Subscribe(c) PROVE NotYetGiven' /\ AtMostOnce'
    BY <1>5
  <2>1. /\ \A d \in Clients : d # c => put'[d] = put[d]
        /\ Range(put'[c]) \subseteq Range(buffer)
        /\ put'[c] = Backlog /\ Len(Backlog) <= Len(buffer)
        /\ Backlog \in Seq(Ids)
        /\ \A i \in 1..Len(Backlog) : Backlog[i] = buffer[i]
    BY SubscribeWrites
  <2>2. /\ step' = step /\ holds' = holds /\ targets' = targets /\ buffer' = buffer
        /\ \A e \in Emitters : c \notin targets[e]
    BY DEF Subscribe, Unknown
  <2>3. Distinct(put'[c])
    BY <2>1 DEF Distinct, TypeOK
  <2>4. \A d \in Clients : Distinct(put'[d])
    BY <2>1, <2>3 DEF AtMostOnce, Distinct
  <2>5. \A e \in Emitters : step[e] = "append" => \A d \in Clients : holds[e] \notin Range(put'[d])
    BY <2>1
  <2>6. \A e \in Emitters : step[e] = "offer" => \A d \in targets[e] : holds[e] \notin Range(put'[d])
    BY <2>1, <2>2 DEF TypeOK
  <2> QED
    BY <2>2, <2>4, <2>5, <2>6 DEF AtMostOnce, Distinct
<1>6. CASE \E c \in Clients : Admit(c) \/ Get(c) \/ Close(c) \/ CollectUnderLock(c)
  BY <1>6 DEF Admit, Get, Close, CollectUnderLock, AtMostOnce, Distinct
<1>7. CASE UNCHANGED vars
  BY <1>7 DEF vars, AtMostOnce, Distinct
<1> QED
  BY <1>1, <1>2, <1>3, <1>4, <1>5, <1>6, <1>7 DEF Next, EmitStep, ClientStep

\* A sequence in emit order stays in it when an event is put behind it that no
\* emit in it was begun after.
LEMMA OrderAppended ==
  ASSUME NEW s \in Seq(Ids), NEW x \in Ids, InEmitOrder(s), KnownIds, TypeOK, x \notin finished
  PROVE  InEmitOrder(Append(s, x))
<1>1. /\ Len(Append(s, x)) = Len(s) + 1 /\ Append(s, x)[Len(s) + 1] = x
      /\ \A i \in 1..Len(s) : Append(s, x)[i] = s[i] /\ s[i] \in Ids
  OBVIOUS
<1>2. \A i \in 1..Len(s) : x \notin before[s[i]]
  BY <1>1 DEF KnownIds
<1> QED
  BY <1>1, <1>2 DEF InEmitOrder

\* Overlapping emits may be swapped, no others are.
LEMMA OrderStep ==
  ASSUME TypeOK, OneEmitterEach, KnownIds, Unknown, EmitOrder, [Next]_vars
  PROVE  EmitOrder'
<1> USE DEF emitter, client, past
<1>1. CASE \E e \in Emitters : TakeId(e)
  <2>1. /\ nextId \in Ids /\ buffer' = buffer /\ put' = put
        /\ \A i \in Ids : i # nextId => before'[i] = before[i]
    BY <1>1 DEF TakeId, TypeOK, Ids
  <2>2. ASSUME NEW s \in Seq(Ids), InEmitOrder(s), \A i \in Range(s) : i < nextId
        PROVE  \A i, j \in 1..Len(s) : i < j => s[j] \notin before'[s[i]]
    <3>1. \A i \in 1..Len(s) : s[i] \in Ids /\ s[i] < nextId
      BY <2>2, RangeOf
    <3>2. \A i \in 1..Len(s) : s[i] # nextId
      BY <2>1, <3>1 DEF Ids
    <3> QED
      BY <2>1, <2>2, <3>1, <3>2 DEF InEmitOrder
  <2>3. /\ buffer \in Seq(Ids) /\ \A c \in Clients : put[c] \in Seq(Ids)
    BY DEF TypeOK
  <2> QED
    BY <2>1, <2>2, <2>3 DEF EmitOrder, InEmitOrder, KnownIds
<1>2. CASE \E e \in Emitters : AppendEvent(e)
  <2> SUFFICES ASSUME NEW e \in Emitters, AppendEvent(e) PROVE EmitOrder'
    BY <1>2
  <2>1. put' = put /\ before' = before /\ holds[e] \notin finished
    BY DEF AppendEvent, OneEmitterEach, Held
  <2>2. ASSUME NEW i \in 1..Len(buffer'), NEW j \in 1..Len(buffer'), i < j
        PROVE  buffer'[j] \notin before[buffer'[i]]
    <3>1. i \in 1..Len(buffer') - 1
      BY <2>2, AppendWrites
    <3>2. PICK d \in {0, 1} : \A k \in 1..Len(buffer') - 1 :
            k + d \in 1..Len(buffer) /\ buffer'[k] = buffer[k + d]
      BY AppendWrites
    <3>3. CASE j = Len(buffer')
      <4>1. before[buffer'[i]] \subseteq finished
        BY <3>1, AppendWrites DEF KnownIds
      <4> QED
        BY <2>1, <3>3, <4>1, AppendWrites
    <3>4. CASE j # Len(buffer')
      <4>1. j \in 1..Len(buffer') - 1 /\ i + d < j + d
        BY <2>2, <3>4, AppendWrites
      <4> QED
        BY <3>1, <3>2, <4>1 DEF EmitOrder, InEmitOrder
    <3> QED
      BY <3>3, <3>4
  <2> QED
    BY <2>1, <2>2 DEF EmitOrder, InEmitOrder
<1>3. CASE \E e \in Emitters, c \in Clients : Offer(e, c)
  <2> SUFFICES ASSUME NEW e \in Emitters, NEW c \in Clients, Offer(e, c) PROVE EmitOrder'
    BY <1>3
  <2>1. buffer' = buffer /\ before' = before /\ put[c] \in Seq(Ids)
    BY DEF Offer, OfferThen, TypeOK
  <2>2. InEmitOrder(Append(put[c], holds[e]))
    BY <2>1, OfferWrites, OrderAppended DEF EmitOrder
  <2>3. \A d \in Clients : InEmitOrder(put'[d])
    BY <2>2, OfferWrites DEF EmitOrder
  <2> QED
    BY <2>1, <2>3 DEF EmitOrder, InEmitOrder
<1>4. CASE \E c \in Clients : Subscribe(c)
  <2> SUFFICES ASSUME NEW c \in Clients, Subscribe(c) PROVE EmitOrder'
    BY <1>4
  <2>1. buffer' = buffer /\ before' = before /\ buffer \in Seq(Ids)
    BY DEF Subscribe, TypeOK
  <2>2. InEmitOrder(put'[c])
    BY <2>1, SubscribeWrites DEF EmitOrder, InEmitOrder
  <2>3. \A d \in Clients : InEmitOrder(put'[d])
    BY <2>2, SubscribeWrites DEF EmitOrder
  <2> QED
    BY <2>1, <2>3 DEF EmitOrder, InEmitOrder
<1>5. CASE UNCHANGED <<buffer, put, before>>
  BY <1>5 DEF EmitOrder, InEmitOrder
<1>6. CASE \E e \in Emitters : EmitReturns(e)
  BY <1>5, <1>6 DEF EmitReturns
<1>7. CASE \E c \in Clients : Admit(c) \/ Get(c) \/ Close(c) \/ CollectUnderLock(c)
  BY <1>5, <1>7 DEF Admit, Get, Close, CollectUnderLock
<1>8. CASE UNCHANGED vars
  BY <1>5, <1>8 DEF vars
<1> QED
  BY <1>1, <1>2, <1>3, <1>4, <1>6, <1>7, <1>8 DEF Next, EmitStep, ClientStep

\* An event leaves an emitter's copy of the subscribers for a queue, or because
\* that queue is full.
LEMMA AccountedStep ==
  ASSUME TypeOK, OneEmitterEach, Unknown, Accounted, [Next]_vars
  PROVE  Accounted'
<1> USE DEF emitter, client, past
<1>1. CASE \E e \in Emitters : TakeId(e)
  <2> SUFFICES ASSUME NEW e \in Emitters, TakeId(e) PROVE Accounted'
    BY <1>1
  <2>1. /\ step[e] = "idle" /\ step' = [step EXCEPT ![e] = "append"]
        /\ holds' = [holds EXCEPT ![e] = nextId] /\ nextId \in Ids /\ nextId' = nextId + 1
        /\ UNCHANGED <<targets, subs, put, missed, older>>
    BY DEF TakeId, TypeOK, Ids
  <2>2. Appended' \subseteq Appended
    BY <2>1 DEF Appended, TypeOK, Ids
  <2>3. \A f \in Emitters : step[f] = "offer" => step'[f] = "offer" /\ holds'[f] = holds[f]
    BY <2>1 DEF TypeOK
  <2> QED
    BY <2>1, <2>2, <2>3 DEF Accounted
<1>2. CASE \E e \in Emitters : AppendEvent(e)
  <2> SUFFICES ASSUME NEW e \in Emitters, AppendEvent(e) PROVE Accounted'
    BY <1>2
  <2>1. /\ step[e] = "append" /\ step' = [step EXCEPT ![e] = "offer"]
        /\ targets' = [targets EXCEPT ![e] = subs]
        /\ UNCHANGED <<nextId, holds, subs, put, missed, older>>
    BY DEF AppendEvent
  <2>2. Appended' \subseteq Appended \cup {holds[e]}
    BY <2>1 DEF Appended, TypeOK
  <2>3. step'[e] = "offer" /\ targets'[e] = subs
    BY <2>1 DEF TypeOK
  <2>4. \A f \in Emitters : step[f] = "offer" => step'[f] = "offer" /\ targets'[f] = targets[f]
    BY <2>1 DEF TypeOK
  <2> QED
    BY <2>1, <2>2, <2>3, <2>4 DEF Accounted
<1>3. CASE \E e \in Emitters, c \in Clients : Offer(e, c)
  <2> SUFFICES ASSUME NEW e \in Emitters, NEW c \in Clients, Offer(e, c) PROVE Accounted'
    BY <1>3
  <2>1. /\ targets' = [targets EXCEPT ![e] = targets[e] \ {c}]
        /\ UNCHANGED <<nextId, step, holds, subs, older>>
    BY DEF Offer, OfferThen
  <2>2. Appended' = Appended
    BY <2>1 DEF Appended
  <2>3. \A d \in Clients : Range(put[d]) \subseteq Range(put'[d]) /\ missed[d] \subseteq missed'[d]
    <3>1. put[c] \in Seq(Ids) /\ holds[e] \in Ids
      BY OfferWrites DEF TypeOK
    <3>2. Range(put[c]) \subseteq Range(Append(put[c], holds[e]))
      BY <3>1, AppendedTo
    <3>3. \A d \in Clients : missed[d] \subseteq missed'[d]
      BY DEF Offer, OfferThen, Give, Withhold, TypeOK
    <3> QED
      BY <3>2, <3>3, OfferWrites
  <2>4. holds[e] \in Range(put'[c]) \cup missed'[c]
    <3>1. CASE Give(e, c)
      <4>1. put[c] \in Seq(Ids) /\ holds[e] \in Ids /\ put'[c] = Append(put[c], holds[e])
        BY <3>1, OfferWrites DEF Give, TypeOK
      <4> QED
        BY <4>1, AppendedTo
    <3>2. CASE Withhold(e, c)
      BY <3>2 DEF Withhold, TypeOK
    <3> QED
      BY <3>1, <3>2 DEF Offer, OfferThen
  <2>5. \A f \in Emitters, d \in Clients :
          d \in targets[f] => d \in targets'[f] \/ (f = e /\ d = c)
    BY <2>1 DEF TypeOK
  <2>6. ASSUME NEW d \in subs, NEW i \in Appended \ older[d]
        PROVE  \/ i \in Range(put'[d]) \cup missed'[d]
               \/ \E f \in Emitters : step[f] = "offer" /\ holds[f] = i /\ d \in targets'[f]
    <3>1. d \in Clients
      BY DEF TypeOK
    <3>2. CASE i \in Range(put[d]) \cup missed[d]
      BY <2>3, <3>1, <3>2
    <3>3. CASE \E f \in Emitters : step[f] = "offer" /\ holds[f] = i /\ d \in targets[f]
      BY <2>4, <2>5, <3>1, <3>3
    <3> QED
      BY <3>2, <3>3 DEF Accounted
  <2> QED
    BY <2>1, <2>2, <2>6 DEF Accounted
<1>4. CASE \E e \in Emitters : EmitReturns(e)
  <2> SUFFICES ASSUME NEW e \in Emitters, EmitReturns(e) PROVE Accounted'
    BY <1>4
  <2>1. /\ step[e] = "offer" /\ targets[e] = {} /\ step' = [step EXCEPT ![e] = "idle"]
        /\ holds' = [holds EXCEPT ![e] = 0]
        /\ UNCHANGED <<nextId, targets, subs, put, missed, older>>
    BY DEF EmitReturns
  <2>2. Appended' \subseteq Appended
    BY <2>1 DEF Appended, TypeOK
  <2>3. \A f \in Emitters : f # e => step'[f] = step[f] /\ holds'[f] = holds[f]
    BY <2>1 DEF TypeOK
  <2> QED
    BY <2>1, <2>2, <2>3 DEF Accounted
<1>5. CASE \E c \in Clients : Subscribe(c)
  <2> SUFFICES ASSUME NEW c \in Clients, Subscribe(c) PROVE Accounted'
    BY <1>5
  <2>1. /\ UNCHANGED <<nextId, step, holds, targets>> /\ subs' = subs \cup {c}
        /\ missed'[c] = Range(buffer) \ Range(Backlog) /\ older'[c] = Appended \ Range(buffer)
        /\ \A d \in Clients : d # c => missed'[d] = missed[d] /\ older'[d] = older[d]
    BY DEF Subscribe, TypeOK
  <2>2. Appended' = Appended
    BY <2>1 DEF Appended
  <2>3. \A i \in Appended' \ older'[c] : i \in Range(put'[c]) \cup missed'[c]
    BY <2>1, <2>2, SubscribeWrites
  <2>4. \A d \in subs : d # c => put'[d] = put[d] /\ missed'[d] = missed[d] /\ older'[d] = older[d]
    BY <2>1, SubscribeWrites DEF TypeOK
  <2> QED
    BY <2>1, <2>2, <2>3, <2>4 DEF Accounted
<1>6. CASE UNCHANGED <<nextId, emitter, put, missed, older>> /\ subs' \subseteq subs
  BY <1>6 DEF Accounted, Appended
<1>7. CASE \E c \in Clients : Admit(c) \/ Get(c) \/ Close(c) \/ CollectUnderLock(c)
  BY <1>6, <1>7 DEF Admit, Get, Close, CollectUnderLock
<1>8. CASE UNCHANGED vars
  BY <1>6, <1>8 DEF vars
<1> QED
  BY <1>1, <1>2, <1>3, <1>4, <1>5, <1>7, <1>8 DEF Next, EmitStep, ClientStep

------------------------------------------------------------------------------
(* The theorems. *)

\* The invariant holds before anything has been emitted.
LEMMA InitHolds == Init => IInv
<1> SUFFICES ASSUME Init PROVE IInv
  OBVIOUS
<1> USE SizesAssumption DEF Init
<1>1. TypeOK
  <2>1. buffer \in Seq(Ids) /\ Len(buffer) <= MaxLen /\ put \in [Clients -> Seq(Ids)]
    OBVIOUS
  <2>2. wedged \in BOOLEAN
    OBVIOUS
  <2> QED
    BY <2>1, <2>2 DEF TypeOK, Ids
<1>2. Range(buffer) = {} /\ \A c \in Clients : Range(put[c]) = {}
  BY DEF Range
<1>3. OneEmitterEach /\ KnownIds /\ Unknown
  BY <1>2 DEF OneEmitterEach, Held, KnownIds, Unknown
<1>4. NotYetGiven /\ AtMostOnce /\ EmitOrder
  BY DEF NotYetGiven, Distinct, AtMostOnce, EmitOrder, InEmitOrder
<1>5. Accounted
  BY DEF Accounted
<1> QED
  BY <1>1, <1>3, <1>4, <1>5 DEF IInv

\* Every step preserves it.
LEMMA Inductive == IInv /\ [Next]_vars => IInv'
<1> SUFFICES ASSUME IInv, [Next]_vars PROVE IInv'
  OBVIOUS
<1> QED
  BY TypeStep, EmitterStep, UnknownStep, KnownStep, GivenOnceStep, OrderStep, AccountedStep DEF IInv

\* The invariant holds of every behaviour.
THEOREM Invariance == Spec => []IInv
<1>1. Init => IInv
  BY InitHolds
<1>2. IInv /\ [Next]_vars => IInv'
  BY Inductive
<1> QED
  BY <1>1, <1>2, PTL DEF Spec

\* Whatever the threads and the streams do, every variable keeps its type and the
\* deque its length.
THEOREM TypeCorrect == Spec => []TypeOK
<1>1. IInv => TypeOK
  BY DEF IInv
<1> QED
  BY <1>1, Invariance, PTL

\* No stream is given an event twice: emit's append and subscribe's backlog are
\* under the lock that also covers the list of subscribers.
THEOREM EveryEventOnce == Spec => []AtMostOnce
<1>1. IInv => AtMostOnce
  BY DEF IInv
<1> QED
  BY <1>1, Invariance, PTL

\* And none is lost between the backlog and the fan-out, but to a full queue.
THEOREM NothingIsLost == Spec => []Accounted
<1>1. IInv => Accounted
  BY DEF IInv
<1> QED
  BY <1>1, Invariance, PTL

\* The id is taken before the lock, so streams are not in the order of ids; they
\* are in the order of emits that do not overlap.
THEOREM OrderIsKept == Spec => []EmitOrder
<1>1. IInv => EmitOrder
  BY DEF IInv
<1> QED
  BY <1>1, Invariance, PTL

------------------------------------------------------------------------------
(* What the cap of the streams depends on. *)

\* No two requests are between the comparison with the cap and the registration.
OneAdmission ==
  \A c, d \in Clients : stream[c] = "admitted" /\ stream[d] = "admitted" => c = d

\* A request that was admitted still has the place it was admitted for.
PlaceIsFree ==
  /\ IsFiniteSet(subs) /\ StreamsCapped
  /\ \A c \in Clients : stream[c] = "admitted" => Cardinality(subs) < MaxSubscribers

\* Only a second request that was admitted can take it.
LEMMA PlaceStep ==
  ASSUME TypeOK, OneAdmission, PlaceIsFree, [Next]_vars
  PROVE  PlaceIsFree'
<1> USE DEF PlaceIsFree, StreamsCapped
<1>0. Cardinality(subs) \in Nat /\ MaxSubscribers \in Nat
  BY FS_CardinalityType, SizesAssumption
<1>1. ASSUME NEW c \in Clients, Admit(c) PROVE PlaceIsFree'
  <2>1. UNCHANGED subs /\ Cardinality(subs) < MaxSubscribers
    BY <1>1 DEF Admit
  <2> QED
    BY <2>1
<1>2. ASSUME NEW c \in Clients, Subscribe(c) PROVE PlaceIsFree'
  <2>1. Cardinality(subs) < MaxSubscribers /\ subs' = subs \cup {c}
    BY <1>2 DEF Subscribe
  <2>2. IsFiniteSet(subs') /\ Cardinality(subs') <= MaxSubscribers
    BY <1>0, <2>1, FS_AddElement
  <2>3. \A d \in Clients : stream'[d] # "admitted"
    BY <1>2 DEF Subscribe, OneAdmission, TypeOK
  <2> QED
    BY <2>2, <2>3
<1>3. ASSUME NEW c \in Clients, Close(c) PROVE PlaceIsFree'
  <2>1. subs' = subs \ {c} /\ \A d \in Clients : stream'[d] = "admitted" => stream[d] = "admitted"
    BY <1>3 DEF Close, TypeOK
  <2>2. IsFiniteSet(subs \ {c}) /\ Cardinality(subs \ {c}) \in {Cardinality(subs) - 1, Cardinality(subs)}
    BY FS_RemoveElement
  <2>3. IsFiniteSet(subs') /\ Cardinality(subs') <= Cardinality(subs) /\ Cardinality(subs') \in Nat
    BY <1>0, <2>1, <2>2, FS_CardinalityType
  <2> QED
    BY <1>0, <2>1, <2>3
<1>4. ASSUME UNCHANGED <<subs, stream>> PROVE PlaceIsFree'
  BY <1>4
<1>5. CASE \E e \in Emitters : TakeId(e) \/ EmitStep(e)
  BY <1>4, <1>5 DEF EmitStep, TakeId, AppendEvent, Offer, OfferThen, EmitReturns, client
<1>6. CASE \E c \in Clients : Get(c)
  BY <1>4, <1>6 DEF Get
<1>7. ASSUME NEW c \in Clients, CollectUnderLock(c) PROVE PlaceIsFree'
  <2>1. UNCHANGED subs /\ \A d \in Clients : stream'[d] = "admitted" => stream[d] = "admitted"
    BY <1>7 DEF CollectUnderLock, TypeOK
  <2> QED
    BY <2>1
<1>8. CASE UNCHANGED vars
  BY <1>4, <1>8 DEF vars, client
<1> QED
  BY <1>1, <1>2, <1>3, <1>5, <1>6, <1>7, <1>8 DEF Next, ClientStep

\* As long as a stream is registered before the next request is compared with the
\* cap, there are never more streams than the cap allows: nothing else breaks it.
THEOREM CapHoldsOneByOne == Spec /\ []OneAdmission => []StreamsCapped
<1>1. Init => PlaceIsFree
  BY FS_EmptySet, SizesAssumption DEF Init, PlaceIsFree, StreamsCapped
<1>2. TypeOK /\ OneAdmission /\ PlaceIsFree /\ [Next]_vars => PlaceIsFree'
  BY PlaceStep
<1>3. PlaceIsFree => StreamsCapped
  BY DEF PlaceIsFree
<1> QED
  BY <1>1, <1>2, <1>3, TypeCorrect, PTL DEF Spec
==============================================================================
