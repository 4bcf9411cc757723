--------------------------- MODULE VpnEventsProofs ---------------------------
(* The event queue of VpnEvents delivers every event once and in order, for *)
(* every threshold of compaction and any number of events.                  *)
EXTENDS VpnEvents, SequenceTheorems, TLAPS

-----------------------------------------------------------------------------
(* What an emitter does.                                                    *)

\* One locked region appends events that carry the status it leaves.
Appended(new) ==
    /\ eventSeq' = eventSeq + Len(new)
    /\ eventQueue' = eventQueue \o new
    /\ emitted' = emitted \o new
    /\ \A i \in 1..Len(new): /\ new[i].id = eventSeq + i
                             /\ new[i].state = state' /\ new[i].phase = phase'
    /\ eventSeq' <= MaxEvents

LEMMA EnqueueEffect ==
  ASSUME TypeOK, NEW kinds \in Seq(Kinds), state' \in States, phase' \in AllPhases,
         Enqueue(kinds)
  PROVE  \E new \in Seq(Event): Len(new) = Len(kinds) /\ Appended(new)
  <1> DEFINE new == [i \in 1..Len(kinds) |-> [id |-> eventSeq + i, kind |-> kinds[i],
                                              state |-> state', phase |-> phase']]
  <1>1. Len(kinds) \in Nat /\ eventSeq \in Nat
    BY CompactAssumption DEF TypeOK
  <1>2. ASSUME NEW i \in 1..Len(kinds)
        PROVE  new[i] \in Event
    <2>1. eventSeq + i \in Nat /\ kinds[i] \in Kinds
      BY <1>1
    <2> QED BY <2>1 DEF Event
  <1>3. new \in Seq(Event) /\ Len(new) = Len(kinds)
    BY <1>1, <1>2
  <1>4. Appended(new)
    BY <1>3 DEF Enqueue, Appended
  <1> QED BY <1>3, <1>4

LEMMA WhenType ==
  ASSUME NEW changed \in BOOLEAN, NEW kind \in Kinds
  PROVE  When(changed, kind) \in Seq(Kinds) /\ (When(changed, kind) = <<>> <=> ~changed)
  BY DEF When

\* Every emitter keeps the types of the status and enqueues its events; a change
\* of the state or of the phase comes with one.
LEMMA EmitterEffect ==
  ASSUME TypeOK, Emitters
  PROVE  /\ state' \in States /\ phase' \in AllPhases /\ errorMsg' \in Messages
         /\ \E kinds \in Seq(Kinds):
               Enqueue(kinds) /\ (kinds = <<>> => state' = state /\ phase' = phase)
  <1>0. \A k \in {"action", "state", "phase", "otp", "reconnect"}: k \in Kinds
    BY DEF Kinds
  <1>1. ASSUME NEW s \in States, NEW err \in Messages, SetState(s, err)
        PROVE  /\ state' \in States /\ phase' \in AllPhases /\ errorMsg' \in Messages
               /\ \E kinds \in Seq(Kinds):
                     Enqueue(kinds) /\ (kinds = <<>> => state' = state /\ phase' = phase)
    <2>1. state' \in States /\ phase' \in AllPhases /\ errorMsg' \in Messages
      BY <1>1 DEF SetState, TypeOK, AllPhases, Messages
    <2> DEFINE k1 == When(StateOrErrorChanged, "state")
               k2 == When(phase' # phase, "phase")
    <2>2. /\ k1 \in Seq(Kinds) /\ (k1 = <<>> <=> ~StateOrErrorChanged)
          /\ k2 \in Seq(Kinds) /\ (k2 = <<>> <=> phase' = phase)
      BY <1>0, WhenType DEF StateOrErrorChanged
    <2>3. Enqueue(k1 \o k2)
      BY <1>1 DEF SetState
    <2>4. k1 \o k2 = <<>> => state' = state /\ phase' = phase
      <3> HIDE DEF k1, k2
      <3>1. k1 \o k2 = <<>> => k1 = <<>> /\ k2 = <<>>
        BY <2>2
      <3> QED BY <2>2, <3>1 DEF StateOrErrorChanged
    <2>5. k1 \o k2 \in Seq(Kinds)
      <3> HIDE DEF k1, k2
      <3> QED BY <2>2
    <2> QED BY <2>1, <2>3, <2>4, <2>5
  <1>2. ASSUME NEW p \in Phases, SetPhase(p)
        PROVE  /\ state' \in States /\ phase' \in AllPhases /\ errorMsg' \in Messages
               /\ \E kinds \in Seq(Kinds):
                     Enqueue(kinds) /\ (kinds = <<>> => state' = state /\ phase' = phase)
    <2>1. state' \in States /\ phase' \in AllPhases /\ errorMsg' \in Messages
      BY <1>2 DEF SetPhase, TypeOK, AllPhases
    <2>2. <<"phase">> \in Seq(Kinds) /\ <<"phase">> # <<>>
      BY <1>0
    <2> QED BY <1>2, <2>1, <2>2 DEF SetPhase
  <1>3. ASSUME MarkConnected
        PROVE  /\ state' \in States /\ phase' \in AllPhases /\ errorMsg' \in Messages
               /\ \E kinds \in Seq(Kinds):
                     Enqueue(kinds) /\ (kinds = <<>> => state' = state /\ phase' = phase)
    <2>1. state' \in States /\ phase' \in AllPhases /\ errorMsg' \in Messages
      BY <1>3 DEF MarkConnected, States, AllPhases, Messages
    <2>2. PICK reconnected \in BOOLEAN:
             Enqueue(When(StateOrErrorChanged, "state") \o When(phase' # phase, "phase")
                       \o When(state # "connected" /\ reconnected, "reconnect"))
      BY <1>3 DEF MarkConnected
    <2> DEFINE k1 == When(StateOrErrorChanged, "state")
               k2 == When(phase' # phase, "phase")
               k3 == When(state # "connected" /\ reconnected, "reconnect")
    <2>3. /\ k1 \in Seq(Kinds) /\ (k1 = <<>> <=> ~StateOrErrorChanged)
          /\ k2 \in Seq(Kinds) /\ (k2 = <<>> <=> phase' = phase)
          /\ k3 \in Seq(Kinds)
      BY <1>0, WhenType DEF StateOrErrorChanged
    <2>4. Enqueue((k1 \o k2) \o k3)
      BY <2>2
    <2> HIDE DEF k1, k2, k3
    <2>5. (k1 \o k2) \o k3 \in Seq(Kinds)
      BY <2>3
    <2>6. (k1 \o k2) \o k3 = <<>> => k1 = <<>> /\ k2 = <<>>
      BY <2>3
    <2>7. (k1 \o k2) \o k3 = <<>> => state' = state /\ phase' = phase
      BY <2>3, <2>6 DEF StateOrErrorChanged
    <2> QED BY <2>1, <2>4, <2>5, <2>7
  <1>4. ASSUME NEW kind \in {"action", "otp", "reconnect"}, Emit(kind)
        PROVE  /\ state' \in States /\ phase' \in AllPhases /\ errorMsg' \in Messages
               /\ \E kinds \in Seq(Kinds):
                     Enqueue(kinds) /\ (kinds = <<>> => state' = state /\ phase' = phase)
    <2>1. <<kind>> \in Seq(Kinds) /\ <<kind>> # <<>>
      BY <1>0, <1>4
    <2>2. UNCHANGED status
      BY <1>4 DEF Emit
    <2> QED BY <1>4, <2>1, <2>2 DEF Emit, TypeOK, status
  <1>5. /\ \A s \in States \ {"error"}: s \in States
        /\ "" \in Messages /\ \A err \in Errors: err \in Messages
        /\ "error" \in States
    BY DEF Messages, States
  <1> QED BY <1>1, <1>2, <1>3, <1>4, <1>5 DEF Emitters

-----------------------------------------------------------------------------
(* The inductive invariant: what was emitted is what was delivered, then   *)
(* the event in hand, then the pending part of the queue.                  *)

InHand == IF dispatcher = "call" THEN 1 ELSE 0

QueueInv ==
    /\ eventSeq = Len(emitted)
    /\ \A i \in 1..Len(emitted): emitted[i].id = i
    /\ Len(delivered) + InHand + Pending = Len(emitted)
    /\ \A i \in 1..Len(delivered): delivered[i] = emitted[i]
    /\ dispatcher = "call" => onEvent /\ event = emitted[Len(delivered) + 1]
    /\ \A i \in 1..Pending: eventQueue[eventHead + i] = emitted[Len(delivered) + InHand + i]

SnapshotInv ==
    emitted # <<>> => /\ emitted[Len(emitted)].state = state
                      /\ emitted[Len(emitted)].phase = phase

EventsInv == TypeOK /\ QueueInv /\ SnapshotInv /\ ConsumedBounded

LEMMA EmptyEventType == EmptyEvent \in Event
  BY DEF EmptyEvent, Event, AllPhases, Messages

LEMMA EventsInit ==
  ASSUME Init
  PROVE  EventsInv
  <1>0. /\ eventSeq = 0 /\ eventHead = 0 /\ dispatcher = "check" /\ onEvent = FALSE
        /\ eventQueue = <<>> /\ emitted = <<>> /\ delivered = <<>>
        /\ state = "disconnected" /\ errorMsg = "" /\ phase = "" /\ event = EmptyEvent
    BY DEF Init
  <1>e. <<>> \in Seq(Event) /\ Len(<<>>) = 0
    BY EmptySeq
  <1>z. 0 \in 0..0
    OBVIOUS
  <1>1. TypeOK
    <2>1. /\ "disconnected" \in States /\ "" \in Messages /\ "" \in AllPhases
          /\ EmptyEvent \in Event /\ 0 \in 0..MaxEvents
      BY EmptyEventType, CompactAssumption DEF States, Messages, AllPhases
    <2>2. /\ eventSeq \in 0..MaxEvents /\ eventHead \in 0..Len(eventQueue)
          /\ eventQueue \in Seq(Event) /\ emitted \in Seq(Event) /\ delivered \in Seq(Event)
      BY <1>0, <1>e, <1>z, <2>1, Zenon
    <2> QED BY <1>0, <2>1, <2>2 DEF TypeOK
  <1>2. QueueInv /\ SnapshotInv
    <2>1. Len(emitted) = 0 /\ Len(delivered) = 0 /\ Pending = 0 /\ InHand = 0
      <3>1. Len(emitted) = 0 /\ Len(delivered) = 0 /\ Len(eventQueue) = 0
        BY <1>0, <1>e, Zenon
      <3>2. eventHead = 0 /\ dispatcher = "check"
        BY <1>0
      <3> QED BY <3>1, <3>2 DEF Pending, InHand
    <2>2. eventSeq = 0 /\ dispatcher = "check"
      BY <1>0
    <2>3. QueueInv
      BY <2>1, <2>2 DEF QueueInv
    <2>4. SnapshotInv
      BY <1>0, Zenon DEF SnapshotInv
    <2> QED BY <2>3, <2>4
  <1>3. ConsumedBounded
    <2>1. 0 < CompactAt
      BY CompactAssumption
    <2> QED BY <1>0, <2>1 DEF ConsumedBounded
  <1> QED BY <1>1, <1>2, <1>3 DEF EventsInv

LEMMA EmitterStep ==
  ASSUME EventsInv, Emitters
  PROVE  EventsInv'
  <1> USE DEF EventsInv
  <1>1. state' \in States /\ phase' \in AllPhases /\ errorMsg' \in Messages
    BY EmitterEffect
  <1>2. PICK kinds \in Seq(Kinds):
           Enqueue(kinds) /\ (kinds = <<>> => state' = state /\ phase' = phase)
    BY EmitterEffect
  <1>3. PICK new \in Seq(Event): Len(new) = Len(kinds) /\ Appended(new)
    BY <1>1, <1>2, EnqueueEffect
  <1>4. /\ UNCHANGED <<eventHead, onEvent, event, delivered>>
        /\ dispatcher' \in {"check", "asleep", "call"}
        /\ dispatcher' = "call" <=> dispatcher = "call"
    BY <1>2 DEF Enqueue, Wake, TypeOK
  <1>5. /\ Len(new) \in Nat /\ Len(eventQueue) \in Nat /\ Len(emitted) \in Nat
        /\ Len(delivered) \in Nat /\ eventHead \in 0..Len(eventQueue) /\ eventSeq \in Nat
        /\ Len(eventQueue') = Len(eventQueue) + Len(new)
        /\ Len(emitted') = Len(emitted) + Len(new)
        /\ eventQueue' \in Seq(Event) /\ emitted' \in Seq(Event)
    <2>1. /\ Len(new) \in Nat /\ Len(eventQueue) \in Nat /\ Len(emitted) \in Nat
          /\ Len(delivered) \in Nat /\ eventHead \in 0..Len(eventQueue) /\ eventSeq \in Nat
      BY CompactAssumption DEF TypeOK
    <2>2. eventQueue \in Seq(Event) /\ emitted \in Seq(Event)
      BY DEF TypeOK
    <2>3. eventQueue' = eventQueue \o new /\ emitted' = emitted \o new
      BY <1>3 DEF Appended
    <2>4. /\ Len(eventQueue') = Len(eventQueue) + Len(new) /\ eventQueue' \in Seq(Event)
          /\ Len(emitted') = Len(emitted) + Len(new) /\ emitted' \in Seq(Event)
      BY <2>2, <2>3
    <2> QED BY <2>1, <2>4
  <1>6. TypeOK'
    BY <1>1, <1>3, <1>4, <1>5 DEF TypeOK, Appended
  <1>7. /\ \A i \in 1..Len(emitted): emitted'[i] = emitted[i]
        /\ \A i \in 1..Len(new): emitted'[Len(emitted) + i] = new[i]
        /\ \A i \in 1..Len(eventQueue): eventQueue'[i] = eventQueue[i]
        /\ \A i \in 1..Len(new): eventQueue'[Len(eventQueue) + i] = new[i]
    BY <1>3, <1>5 DEF TypeOK, Appended
  <1>8. QueueInv'
    <2>1. eventSeq' = Len(emitted')
      BY <1>3, <1>5 DEF Appended, QueueInv
    <2>2. ASSUME NEW i \in 1..Len(emitted')
          PROVE  emitted'[i].id = i
      <3>1. CASE i <= Len(emitted)
        BY <1>5, <1>7, <3>1 DEF QueueInv
      <3>2. CASE i > Len(emitted)
        <4>1. i - Len(emitted) \in 1..Len(new) /\ i = Len(emitted) + (i - Len(emitted))
          BY <1>5, <3>2
        <4>2. emitted'[i] = new[i - Len(emitted)]
          BY <1>7, <4>1
        <4>3. new[i - Len(emitted)].id = Len(emitted) + (i - Len(emitted))
          BY <1>3, <4>1 DEF Appended, QueueInv
        <4> QED BY <4>1, <4>2, <4>3
      <3> QED BY <1>5, <3>1, <3>2
    <2>3. Len(delivered') + InHand' + Pending' = Len(emitted')
      <3>1. InHand' = InHand /\ InHand \in Nat /\ Pending' = Pending + Len(new) /\ Pending \in Nat
        BY <1>4, <1>5 DEF InHand, Pending
      <3>2. Len(delivered) + InHand + Pending = Len(emitted) /\ delivered' = delivered
        BY <1>4 DEF QueueInv
      <3> HIDE DEF EventsInv
      <3> QED BY <1>5, <3>1, <3>2
    <2>4. \A i \in 1..Len(delivered'): delivered'[i] = emitted'[i]
      BY <1>4, <1>5, <1>7 DEF QueueInv, InHand, Pending
    <2>5. dispatcher' = "call" => onEvent' /\ event' = emitted'[Len(delivered') + 1]
      BY <1>4, <1>5, <1>7 DEF QueueInv, InHand, Pending
    <2>6. ASSUME NEW i \in 1..Pending'
          PROVE  eventQueue'[eventHead' + i] = emitted'[Len(delivered') + InHand' + i]
      <3>0. InHand' = InHand /\ InHand \in Nat /\ Pending' = Pending + Len(new) /\ Pending \in Nat
        BY <1>4, <1>5 DEF InHand, Pending
      <3>1. CASE i <= Pending
        <4>1. eventHead + i \in 1..Len(eventQueue)
          BY <1>5, <3>0, <3>1 DEF Pending
        <4>2. Len(delivered) + InHand + i \in 1..Len(emitted)
          BY <1>5, <3>0, <3>1 DEF QueueInv
        <4>3. eventQueue[eventHead + i] = emitted[Len(delivered) + InHand + i]
          BY <3>0, <3>1 DEF QueueInv
        <4> QED BY <1>4, <1>7, <3>0, <4>1, <4>2, <4>3
      <3>2. CASE i > Pending
        <4>1. i - Pending \in 1..Len(new)
          BY <3>0, <3>2, <1>5
        <4>2. eventHead + i = Len(eventQueue) + (i - Pending)
          BY <1>5, <3>0 DEF Pending
        <4>3. Len(delivered) + InHand + i = Len(emitted) + (i - Pending)
          <5>1. Len(delivered) + InHand + Pending = Len(emitted)
            BY DEF QueueInv
          <5>2. /\ i \in Int /\ Len(delivered) \in Int /\ InHand \in Int /\ Pending \in Int
                /\ Len(emitted) \in Int
            BY <3>0, <1>5
          <5>3. ASSUME NEW a \in Int, NEW b \in Int, NEW c \in Int, NEW d \in Int,
                       a + b + c = d
                PROVE  a + b + i = d + (i - c)
            BY <5>2, <5>3
          <5> QED BY <5>1, <5>2, <5>3
        <4> QED BY <1>4, <1>7, <3>0, <4>1, <4>2, <4>3
      <3> QED BY <3>0, <3>1, <3>2
    <2> QED BY <2>1, <2>2, <2>3, <2>4, <2>5, <2>6 DEF QueueInv
  <1>9. SnapshotInv'
    <2>1. CASE new = <<>>
      <3>1. kinds = <<>> /\ emitted' = emitted
        BY <1>3, <2>1 DEF Appended, TypeOK
      <3> QED BY <1>2, <3>1 DEF SnapshotInv
    <2>2. CASE new # <<>>
      <3>1. Len(new) \in 1..Len(new)
        BY <1>5, <2>2
      <3>2. emitted'[Len(emitted')] = new[Len(new)]
        BY <1>5, <1>7, <3>1
      <3> QED BY <1>3, <3>1, <3>2 DEF SnapshotInv, Appended
    <2> QED BY <2>1, <2>2
  <1>10. ConsumedBounded'
    BY <1>4, <1>5, CompactAssumption DEF ConsumedBounded
  <1> QED BY <1>6, <1>8, <1>9, <1>10

LEMMA CompactEffect ==
  ASSUME NEW q \in Seq(Event), NEW head \in 1..Len(q)
  PROVE  LET c == Compact(q, head)
         IN  /\ c.queue \in Seq(Event) /\ c.head \in 0..Len(c.queue)
             /\ Len(c.queue) - c.head = Len(q) - head
             /\ \A i \in 1..(Len(q) - head): c.queue[c.head + i] = q[head + i]
             /\ c.head < CompactAt \/ c.head * 2 < Len(c.queue)
  <1>0. Len(q) \in Nat /\ head \in Nat
    OBVIOUS
  <1>1. CASE head = Len(q) \/ (head >= CompactAt /\ head * 2 >= Len(q))
    <2>1. Compact(q, head) = [queue |-> SubSeq(q, head + 1, Len(q)), head |-> 0]
      BY <1>1 DEF Compact
    <2>2. /\ SubSeq(q, head + 1, Len(q)) \in Seq(Event)
          /\ Len(SubSeq(q, head + 1, Len(q))) = Len(q) - head
          /\ \A i \in 1..(Len(q) - head): SubSeq(q, head + 1, Len(q))[i] = q[head + i]
      BY <1>0
    <2> QED BY <1>0, <2>1, <2>2, CompactAssumption
  <1>2. CASE ~(head = Len(q) \/ (head >= CompactAt /\ head * 2 >= Len(q)))
    <2>1. Compact(q, head) = [queue |-> q, head |-> head]
      BY <1>2 DEF Compact
    <2> QED BY <1>0, <1>2, <2>1, CompactAssumption
  <1> QED BY <1>1, <1>2

LEMMA TakeStep ==
  ASSUME EventsInv, DispatchTakes
  PROVE  EventsInv'
  <1> USE DEF EventsInv
  <1> DEFINE next == eventHead + 1
             q    == [eventQueue EXCEPT ![next] = EmptyEvent]
             c    == Compact(q, next)
  <1>0. /\ Len(eventQueue) \in Nat /\ eventHead \in Nat /\ eventHead < Len(eventQueue)
        /\ Len(delivered) \in Nat /\ Len(emitted) \in Nat
        /\ next \in 1..Len(eventQueue) /\ EmptyEvent \in Event
    BY EmptyEventType DEF TypeOK, DispatchTakes, Pending
  <1>1. /\ q \in Seq(Event) /\ Len(q) = Len(eventQueue)
        /\ \A i \in 1..Len(eventQueue): i # next => q[i] = eventQueue[i]
    BY <1>0 DEF TypeOK
  <1>2. /\ event' = eventQueue[next] /\ eventQueue' = c.queue /\ eventHead' = c.head
        /\ dispatcher = "check" /\ dispatcher' = "call"
        /\ UNCHANGED <<status, eventSeq, onEvent, emitted, delivered>>
    BY DEF DispatchTakes
  <1>3. /\ c.queue \in Seq(Event) /\ c.head \in 0..Len(c.queue)
        /\ Len(c.queue) - c.head = Len(q) - next
        /\ \A i \in 1..(Len(q) - next): c.queue[c.head + i] = q[next + i]
        /\ c.head < CompactAt \/ c.head * 2 < Len(c.queue)
    <2>1. next \in 1..Len(q)
      BY <1>0, <1>1
    <2> HIDE DEF q, next
    <2> QED BY <1>1, <2>1, CompactEffect
  <1>4. TypeOK'
    BY <1>0, <1>2, <1>3 DEF TypeOK, status
  <1> HIDE DEF c, q
  <1>5. InHand = 0 /\ InHand' = 1 /\ Pending \in Nat /\ Pending' = Pending - 1
    BY <1>0, <1>1, <1>2, <1>3 DEF InHand, Pending
  <1>6. QueueInv'
    <2>1. Len(delivered') + InHand' + Pending' = Len(emitted')
      BY <1>0, <1>2, <1>5 DEF QueueInv
    <2>2. onEvent' /\ event' = emitted'[Len(delivered') + 1]
      <3>1. 1 \in 1..Pending
        BY <1>0 DEF Pending
      <3>2. eventQueue[eventHead + 1] = emitted[Len(delivered) + InHand + 1]
        BY <3>1 DEF QueueInv
      <3>3. onEvent
        BY DEF DispatchTakes
      <3> QED BY <1>0, <1>2, <1>5, <3>2, <3>3
    <2>3. ASSUME NEW i \in 1..Pending'
          PROVE  eventQueue'[eventHead' + i] = emitted'[Len(delivered') + InHand' + i]
      <3>1. /\ i \in 1..(Len(q) - next) /\ next + i \in 1..Len(eventQueue) /\ next + i # next
            /\ i + 1 \in 1..Pending
        BY <1>0, <1>1, <1>5 DEF Pending
      <3>2. eventQueue'[eventHead' + i] = eventQueue[eventHead + (i + 1)]
        <4>1. eventQueue'[eventHead' + i] = eventQueue[next + i]
          BY <1>1, <1>2, <1>3, <3>1
        <4> QED BY <1>0, <3>1, <4>1
      <3>3. eventQueue[eventHead + (i + 1)] = emitted[Len(delivered) + InHand + (i + 1)]
        BY <3>1 DEF QueueInv
      <3>4. Len(delivered) + InHand + (i + 1) = Len(delivered') + InHand' + i
        BY <1>0, <1>2, <1>5
      <3> QED BY <1>2, <3>2, <3>3, <3>4
    <2> QED BY <1>2, <2>1, <2>2, <2>3 DEF QueueInv
  <1>7. SnapshotInv'
    BY <1>2 DEF SnapshotInv, status
  <1>8. ConsumedBounded'
    BY <1>2, <1>3 DEF ConsumedBounded
  <1> QED BY <1>4, <1>6, <1>7, <1>8

LEMMA ReturnStep ==
  ASSUME EventsInv, CallbackReturns
  PROVE  EventsInv'
  <1> USE DEF EventsInv
  <1>0. /\ Len(delivered) \in Nat /\ Len(emitted) \in Nat
        /\ delivered' = Append(delivered, event)
        /\ dispatcher = "call" /\ dispatcher' = "check"
        /\ UNCHANGED <<status, queue, onEvent, event, emitted>>
    BY DEF CallbackReturns, TypeOK
  <1>1. TypeOK'
    BY <1>0 DEF TypeOK, status, queue
  <1>2. /\ Len(delivered') = Len(delivered) + 1
        /\ \A i \in 1..Len(delivered): delivered'[i] = delivered[i]
        /\ delivered'[Len(delivered) + 1] = event
    BY <1>0 DEF TypeOK
  <1>3. InHand = 1 /\ InHand' = 0 /\ Pending' = Pending /\ Pending \in Nat
    BY <1>0 DEF InHand, Pending, queue, TypeOK
  <1>4. QueueInv'
    <2>1. Len(delivered') + InHand' + Pending' = Len(emitted')
      BY <1>0, <1>2, <1>3 DEF QueueInv
    <2>2. \A i \in 1..Len(delivered'): delivered'[i] = emitted'[i]
      BY <1>0, <1>2 DEF QueueInv
    <2>3. \A i \in 1..Pending':
             eventQueue'[eventHead' + i] = emitted'[Len(delivered') + InHand' + i]
      BY <1>0, <1>2, <1>3 DEF QueueInv, queue
    <2> QED BY <1>0, <2>1, <2>2, <2>3 DEF QueueInv, queue
  <1>5. SnapshotInv' /\ ConsumedBounded'
    BY <1>0 DEF SnapshotInv, ConsumedBounded, status, queue
  <1> QED BY <1>1, <1>4, <1>5

LEMMA EventsStep ==
  ASSUME EventsInv, [Next]_vars
  PROVE  EventsInv'
  <1>1. CASE Emitters
    BY <1>1, EmitterStep
  <1>2. CASE OnEvent \/ DispatchWaits
    <2>1. /\ UNCHANGED <<status, queue, event, emitted, delivered>>
          /\ onEvent' \in BOOLEAN /\ (onEvent => onEvent') /\ dispatcher' \in {"check", "asleep", "call"}
          /\ dispatcher' = "call" <=> dispatcher = "call"
      BY <1>2 DEF OnEvent, DispatchWaits, Wake, EventsInv, TypeOK
    <2>2. TypeOK'
      BY <2>1 DEF EventsInv, TypeOK, status, queue
    <2> QED BY <2>1, <2>2 DEF EventsInv, QueueInv, SnapshotInv, ConsumedBounded, InHand,
                              Pending, status, queue
  <1>3. CASE DispatchTakes
    BY <1>3, TakeStep
  <1>4. CASE CallbackReturns
    BY <1>4, ReturnStep
  <1>5. CASE UNCHANGED vars
    BY <1>5 DEF vars, status, queue, EventsInv, TypeOK, QueueInv, SnapshotInv,
                ConsumedBounded, InHand, Pending
  <1> QED BY <1>1, <1>2, <1>3, <1>4, <1>5 DEF Next, Dispatcher

\* The pending part of the queue always continues what the callback was given.
THEOREM EventsInvariant == Spec => []EventsInv
  <1>1. Init => EventsInv
    BY EventsInit
  <1>2. EventsInv /\ [Next]_vars => EventsInv'
    BY EventsStep
  <1> QED BY <1>1, <1>2, PTL DEF Spec

\* Every variable of the queue and of the dispatcher keeps its type.
THEOREM EventsTypeCorrect == Spec => []TypeOK
  <1>1. EventsInv => TypeOK
    BY DEF EventsInv
  <1> QED BY <1>1, EventsInvariant, PTL

\* The callback is given the events 1, 2, 3, ... without a gap, for every
\* threshold of compaction and any interleaving of emitters and dispatcher.
THEOREM DeliveryInOrder == Spec => []InOrder
  <1>1. EventsInv => InOrder
    <2> SUFFICES ASSUME EventsInv, NEW i \in 1..Len(delivered)
                 PROVE  delivered[i].id = i
      BY DEF InOrder
    <2>1. /\ Len(delivered) \in Nat /\ Len(emitted) \in Nat
          /\ Pending \in Nat /\ InHand \in {0, 1}
      BY DEF EventsInv, TypeOK, Pending, InHand
    <2>2. i \in 1..Len(emitted)
      BY <2>1 DEF EventsInv, QueueInv
    <2> QED BY <2>2 DEF EventsInv, QueueInv
  <1> QED BY <1>1, EventsInvariant, PTL

\* Fewer than CompactAt slots of the queue, or fewer than half, are consumed ones.
THEOREM QueueStaysCompact == Spec => []ConsumedBounded
  <1>1. EventsInv => ConsumedBounded
    BY DEF EventsInv
  <1> QED BY <1>1, EventsInvariant, PTL

\* A callback that was given every event knows the current state and phase.
THEOREM CaughtUpKnowsStatus == Spec => []CaughtUpIsCurrent
  <1>1. EventsInv => CaughtUpIsCurrent
    <2> SUFFICES ASSUME EventsInv, Len(delivered) = eventSeq, delivered # <<>>
                 PROVE  /\ delivered[Len(delivered)].state = state
                        /\ delivered[Len(delivered)].phase = phase
      BY DEF CaughtUpIsCurrent
    <2>1. Len(delivered) \in 1..Len(delivered) /\ Len(delivered) = Len(emitted)
          /\ emitted # <<>>
      BY DEF EventsInv, TypeOK, QueueInv
    <2>2. delivered[Len(delivered)] = emitted[Len(emitted)]
      BY <2>1 DEF EventsInv, QueueInv
    <2> QED BY <2>1, <2>2 DEF EventsInv, SnapshotInv
  <1> QED BY <1>1, EventsInvariant, PTL

LEMMA StreamStep ==
  ASSUME EventsInv, [Next]_vars
  PROVE  [Stream!Next]_(Stream!vars)
  <1> USE DEF Stream!vars
  <1>1. CASE Emitters
    <2>1. PICK kinds \in Seq(Kinds): Enqueue(kinds)
      BY <1>1, EmitterEffect DEF EventsInv
    <2>2. state' \in States /\ phase' \in AllPhases
      BY <1>1, EmitterEffect DEF EventsInv
    <2>3. PICK new \in Seq(Event): Appended(new)
      BY <2>1, <2>2, EnqueueEffect DEF EventsInv
    <2>4. /\ Len(emitted) <= Len(emitted')
          /\ \A i \in 1..Len(emitted): emitted'[i] = emitted[i]
      BY <2>3 DEF Appended, EventsInv, TypeOK
    <2>5. UNCHANGED <<delivered, onEvent>>
      BY <2>1 DEF Enqueue
    <2> QED BY <2>4, <2>5 DEF Stream!Next, Stream!Emit
  <1>2. CASE OnEvent
    BY <1>2 DEF OnEvent, Stream!Next, Stream!Register
  <1>3. CASE DispatchWaits \/ DispatchTakes
    BY <1>3 DEF DispatchWaits, DispatchTakes
  <1>4. CASE CallbackReturns
    <2>1. /\ dispatcher = "call" /\ onEvent /\ event = emitted[Len(delivered) + 1]
          /\ Len(delivered) < Len(emitted)
      BY <1>4 DEF CallbackReturns, EventsInv, QueueInv, TypeOK, InHand, Pending
    <2> QED BY <1>4, <2>1 DEF CallbackReturns, Stream!Next, Stream!Deliver
  <1>5. CASE UNCHANGED vars
    BY <1>5 DEF vars
  <1> QED BY <1>1, <1>2, <1>3, <1>4, <1>5 DEF Next, Dispatcher

\* The queue implements EventStream, but for the fairness, which is checked.
THEOREM QueueImplementsStream == Spec => Stream!SafeSpec
  <1>1. Init => Stream!Init
    BY DEF Init, Stream!Init
  <1>2. EventsInv /\ [Next]_vars => [Stream!Next]_(Stream!vars)
    BY StreamStep
  <1> QED BY <1>1, <1>2, EventsInvariant, PTL DEF Spec, Stream!SafeSpec
=============================================================================
