------------------------------ MODULE VpnEvents ------------------------------
(***************************************************************************)
(* The lifecycle events of Manager (manager.go): the setters that emit     *)
(* them under Manager.mu, the queue with its head index and compaction,    *)
(* and the goroutine dispatchEvents, which waits on eventCond and calls    *)
(* the callback without the lock.                                          *)
(*                                                                         *)
(* A phase stands for the pair of phase and detail; the phase of an error  *)
(* is its message.  Of the snapshot in an event the state and the phase    *)
(* are kept, the fields whose change emits.                                *)
(***************************************************************************)
EXTENDS Integers, Sequences

CONSTANTS
    Phases,       \* what setPhaseLocked is called with
    Errors,       \* the messages setStateLocked is called with
    CompactAt,    \* consumed slots before the queue is compacted: 64 in the code
    MaxEvents     \* bound: events emitted in a behaviour

ASSUME CompactAssumption == CompactAt \in Nat \ {0} /\ MaxEvents \in Nat

States     == {"disconnected", "connecting", "connected", "disconnecting", "error"}
Messages   == {""} \cup Errors
AllPhases  == Phases \cup Messages \cup {"connected"}
Kinds      == {"action", "state", "phase", "otp", "reconnect"}
Event      == [id: Nat, kind: Kinds \cup {""}, state: States \cup {""}, phase: AllPhases]
EmptyEvent == [id |-> 0, kind |-> "", state |-> "", phase |-> ""]

VARIABLES
    state, errorMsg, phase,  \* the status
    eventSeq, eventQueue, eventHead,
    onEvent,       \* a callback is registered
    dispatcher,    \* where dispatchEvents is
    event,         \* the event it took
    emitted,       \* history: the events enqueued
    delivered      \* history: the events the callback was given

status == <<state, errorMsg, phase>>
queue  == <<eventSeq, eventQueue, eventHead>>
vars   == <<status, queue, onEvent, dispatcher, event, emitted, delivered>>

TypeOK ==
    /\ state \in States /\ errorMsg \in Messages /\ phase \in AllPhases
    /\ eventSeq \in 0..MaxEvents
    /\ eventQueue \in Seq(Event)
    /\ eventHead \in 0..Len(eventQueue)
    /\ onEvent \in BOOLEAN
    /\ dispatcher \in {"check", "asleep", "call"}
    /\ event \in Event
    /\ emitted \in Seq(Event) /\ delivered \in Seq(Event)

\* NewManager starts the dispatcher.
Init ==
    /\ state = "disconnected" /\ errorMsg = "" /\ phase = ""
    /\ eventSeq = 0 /\ eventQueue = <<>> /\ eventHead = 0
    /\ onEvent = FALSE /\ dispatcher = "check" /\ event = EmptyEvent
    /\ emitted = <<>> /\ delivered = <<>>

-----------------------------------------------------------------------------
\* Signal and Broadcast, for the only goroutine that waits.
Wake == IF dispatcher = "asleep" THEN "check" ELSE dispatcher

\* Mutant: the waiting dispatcher is not signalled.
EnqueueWithoutSignal(kinds) ==
    LET new == [i \in 1..Len(kinds) |-> [id |-> eventSeq + i, kind |-> kinds[i],
                                         state |-> state', phase |-> phase']]
    IN  /\ eventSeq + Len(kinds) <= MaxEvents
        /\ eventSeq' = eventSeq + Len(kinds)
        /\ eventQueue' = eventQueue \o new
        /\ emitted' = emitted \o new
        /\ UNCHANGED <<eventHead, onEvent, dispatcher, event, delivered>>

\* enqueueEventLocked, once for each of kinds, after the status has changed.
Enqueue(kinds) ==
    LET new == [i \in 1..Len(kinds) |-> [id |-> eventSeq + i, kind |-> kinds[i],
                                         state |-> state', phase |-> phase']]
    IN  /\ eventSeq + Len(kinds) <= MaxEvents
        /\ eventSeq' = eventSeq + Len(kinds)
        /\ eventQueue' = eventQueue \o new
        /\ emitted' = emitted \o new
        /\ dispatcher' = IF kinds = <<>> THEN dispatcher ELSE Wake
        /\ UNCHANGED <<eventHead, onEvent, event, delivered>>

When(changed, kind) == IF changed THEN <<kind>> ELSE <<>>

StateOrErrorChanged == state' # state \/ errorMsg' # errorMsg

\* setStateLocked; err is "" or a message.
SetState(s, err) ==
    /\ state' = s /\ errorMsg' = err
    /\ phase' = IF s = "disconnected" THEN ""
                ELSE IF s = "error" /\ err # "" THEN err ELSE phase
    /\ Enqueue(When(StateOrErrorChanged, "state") \o When(phase' # phase, "phase"))

\* setPhaseLocked
SetPhase(p) ==
    /\ p # phase
    /\ phase' = p /\ UNCHANGED <<state, errorMsg>>
    /\ Enqueue(<<"phase">>)

\* Mutant: the phase event is forgotten.
MarkConnectedQuietly ==
    /\ state' = "connected" /\ errorMsg' = "" /\ phase' = "connected"
    /\ Enqueue(When(StateOrErrorChanged, "state"))

\* A reconnect event follows if this ends a reconnect attempt.
MarkConnected ==
    /\ state' = "connected" /\ errorMsg' = "" /\ phase' = "connected"
    /\ \E reconnected \in BOOLEAN:
          Enqueue(When(StateOrErrorChanged, "state") \o When(phase' # phase, "phase")
                    \o When(state # "connected" /\ reconnected, "reconnect"))

\* emitActionLocked, emitOTPLocked, emitReconnectLocked
Emit(kind) == UNCHANGED status /\ Enqueue(<<kind>>)

OnEvent ==
    /\ onEvent' = TRUE
    /\ dispatcher' = Wake
    /\ UNCHANGED <<status, queue, event, emitted, delivered>>

-----------------------------------------------------------------------------
(* dispatchEvents and compactEventsLocked.                                 *)

Pending == Len(eventQueue) - eventHead

\* Mutants: one event too many is dropped; the head is not reset; nothing is
\* dropped before the end.
CompactTooFar(q, head) ==
    IF head = Len(q) \/ (head >= CompactAt /\ head * 2 >= Len(q))
    THEN [queue |-> SubSeq(q, head + 2, Len(q)), head |-> 0]
    ELSE [queue |-> q, head |-> head]
CompactKeepsHead(q, head) ==
    IF head = Len(q) \/ (head >= CompactAt /\ head * 2 >= Len(q))
    THEN [queue |-> SubSeq(q, head + 1, Len(q)), head |-> head]
    ELSE [queue |-> q, head |-> head]
NeverCompact(q, head) ==
    IF head = Len(q) THEN [queue |-> <<>>, head |-> 0] ELSE [queue |-> q, head |-> head]

Compact(q, head) ==
    IF head = Len(q) \/ (head >= CompactAt /\ head * 2 >= Len(q))
    THEN [queue |-> SubSeq(q, head + 1, Len(q)), head |-> 0]
    ELSE [queue |-> q, head |-> head]

\* eventCond.Wait gives the lock back and sleeps in one step.
DispatchWaits ==
    /\ dispatcher = "check"
    /\ Pending = 0 \/ ~onEvent
    /\ dispatcher' = "asleep"
    /\ UNCHANGED <<status, queue, onEvent, event, emitted, delivered>>

DispatchTakes ==
    LET next      == eventHead + 1
        compacted == Compact([eventQueue EXCEPT ![next] = EmptyEvent], next)
    IN  /\ dispatcher = "check"
        /\ Pending > 0 /\ onEvent
        /\ event' = eventQueue[next]
        /\ eventQueue' = compacted.queue
        /\ eventHead' = compacted.head
        /\ dispatcher' = "call"
        /\ UNCHANGED <<status, eventSeq, onEvent, emitted, delivered>>

\* The callback runs without the lock, and returns.
CallbackReturns ==
    /\ dispatcher = "call"
    /\ delivered' = Append(delivered, event)
    /\ dispatcher' = "check"
    /\ UNCHANGED <<status, queue, onEvent, event, emitted>>

Emitters == \/ \E s \in States \ {"error"}: SetState(s, "")
            \/ \E err \in Errors: SetState("error", err)
            \/ \E p \in Phases: SetPhase(p)
            \/ MarkConnected
            \/ \E kind \in {"action", "otp", "reconnect"}: Emit(kind)

Dispatcher == DispatchWaits \/ DispatchTakes \/ CallbackReturns

Next == Emitters \/ OnEvent \/ Dispatcher

Spec == Init /\ [][Next]_vars

\* The goroutine runs when it can, and the callback returns: the one that is
\* registered, Service.notify, appends to a queue of its own.
FairSpec == Spec /\ WF_vars(Dispatcher)

-----------------------------------------------------------------------------
(* Properties.                                                             *)

\* The callback sees the events in the order of their ids and misses none,
\* however slow it is and however the queue was compacted (compactEventsLocked).
InOrder == \A i \in 1..Len(delivered): delivered[i].id = i

\* Consumed slots stay in the queue only while they are few, or the minority
\* (compactEventsLocked against a queue that is never empty).
ConsumedBounded == eventHead < CompactAt \/ eventHead * 2 < Len(eventQueue)

\* A callback that was given every event knows the current state and phase: no
\* setter changes them without an event that carries the change.
CaughtUpIsCurrent ==
    Len(delivered) = eventSeq /\ delivered # <<>> =>
        /\ delivered[Len(delivered)].state = state
        /\ delivered[Len(delivered)].phase = phase

Stream == INSTANCE EventStream WITH registered <- onEvent

\* OnEvent delivers every event once, in order and, once a callback is
\* registered, at last.
ImplementsStream == Stream!Spec
=============================================================================
