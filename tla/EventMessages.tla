---------------------------- MODULE EventMessages ----------------------------
(***************************************************************************)
(* The event messages of the Telegram bot: the queue of VPN events and its *)
(* dispatcher (notify, dispatchEvents and Flush of telegram/service.go),   *)
(* and the message per recipient that is edited with every event until     *)
(* thirty seconds pass without one (telegram/event_stream.go).             *)
(*                                                                         *)
(* eventStreams.mu is a variable: it is kept during the calls to Telegram, *)
(* while a timer that was stopped too late waits for it.  A region under   *)
(* Service.eventMu is one action; waiting on eventCond is a guard, for     *)
(* every writer of the queue signals.  Events that a log stream takes over *)
(* never reach this queue.                                                 *)
(***************************************************************************)
EXTENDS Integers, Sequences, FiniteSets

CONSTANTS
    Users, Owner,   \* recipients; the chat of a user has the user's id
    MaxShown,       \* eventStreamMaxEvents, 100 in the code
    CompactAt,      \* consumed events that are kept at most, 64 in the code
    MaxEvents,      \* bound: events queued
    MaxFailures     \* bound: calls to Telegram that do not succeed

ASSUME UsersAssumption  == Owner \in Users /\ IsFiniteSet(Users)
ASSUME BoundsAssumption == /\ MaxShown \in Nat \ {0} /\ CompactAt \in Nat
                           /\ MaxEvents \in Nat /\ MaxFailures \in Nat

Ids  == 1..(MaxEvents * Cardinality(Users))   \* eventStream structs
None == 0
Free == "free"

VARIABLES
    approved,      \* approved users of the access store
    queue, head,   \* Service.events, Service.eventHead
    inFlight,      \* Service.eventInFlight
    eventStopping, \* Service.eventStopping
    dispatcher,    \* the goroutine dispatchEvents
    mu,            \* who holds eventStreams.mu
    stopping,      \* eventStreams.stopping
    streams,       \* eventStreams.streams
    stream,        \* the eventStream structs
    fired,         \* timers that fired: finalizeIdle of a struct and a generation
    ending,        \* the struct that finalizeLocked works on
    flush,         \* how far Flush is
    expired,       \* the deadline of Flush has passed
    accepted,      \* history: events queued so far
    created,       \* structs made so far
    pushed,        \* history: the events pushed to a user
    quiet,         \* external: thirty seconds passed since the struct's last event
    message,       \* external: the message of a struct, as Telegram has it
    failures       \* calls that did not succeed

queueVars   == <<queue, head, inFlight, eventStopping, accepted>>
streamVars  == <<stopping, streams, stream, created, pushed, quiet>>
lockVars    == <<mu, ending>>
flushVars   == <<flush, expired>>
chatVars    == <<message, failures>>
vars == <<approved, queueVars, dispatcher, lockVars, streamVars, fired, flushVars, chatVars>>

Events   == 1..MaxEvents
Window   == UNION {[1..n -> Events]: n \in 0..MaxShown}
NoStream == [user |-> Owner, known |-> FALSE, events |-> <<>>, generation |-> 0, timer |-> FALSE]
Message  == [kind: {"none", "live", "final", "stray"}, shown: Window]

TypeOK ==
    /\ approved \in SUBSET Users
    /\ queue \in Seq(Events) /\ head \in 0..Len(queue)
    /\ inFlight \in BOOLEAN /\ eventStopping \in BOOLEAN /\ stopping \in BOOLEAN
    /\ dispatcher \in [pc: {"none", "wait", "snapshot", "push", "call", "ended"},
                       event: Events \cup {0}, todo: SUBSET Users, user: Users]
    /\ mu \in {Free, "dispatcher", "timer", "flush"} /\ ending \in Ids \cup {None}
    /\ streams \in [Users -> Ids \cup {None}]
    /\ stream \in [Ids -> [user: Users, known: BOOLEAN, events: Window,
                           generation: 0..MaxEvents, timer: BOOLEAN]]
    /\ fired \in SUBSET (Ids \X Events)
    /\ flush \in {"idle", "logs", "wait", "shutdown", "end", "call", "ok", "timeout"}
    /\ expired \in BOOLEAN
    /\ accepted \in 0..MaxEvents /\ created \in 0..(MaxEvents * Cardinality(Users))
    /\ pushed \in [Users -> Seq(Events)] /\ quiet \in [Ids -> BOOLEAN]
    /\ message \in [Ids -> Message] /\ failures \in 0..MaxFailures

IdleDispatcher == [pc |-> "wait", event |-> 0, todo |-> {}, user |-> Owner]

Init ==
    /\ approved = {}
    /\ queue = <<>> /\ head = 0 /\ inFlight = FALSE /\ eventStopping = FALSE /\ accepted = 0
    /\ dispatcher = [IdleDispatcher EXCEPT !.pc = "none"]
    /\ mu = Free /\ ending = None /\ stopping = FALSE
    /\ streams = [u \in Users |-> None] /\ stream = [x \in Ids |-> NoStream]
    /\ fired = {} /\ flush = "idle" /\ expired = FALSE /\ created = 0
    /\ pushed = [u \in Users |-> <<>>] /\ quiet = [x \in Ids |-> FALSE]
    /\ message = [x \in Ids |-> [kind |-> "none", shown |-> <<>>]] /\ failures = 0

-----------------------------------------------------------------------------
(* Calls to Telegram; one that fails for the bot may have arrived.         *)

Shows(x, kind)    == message' = [message EXCEPT ![x] = [kind |-> kind, shown |-> stream[x].events]]
Succeeds(x, kind) == Shows(x, kind) /\ UNCHANGED failures
Fails(x, kind)    == /\ failures < MaxFailures /\ failures' = failures + 1
                     /\ Shows(x, kind) \/ UNCHANGED message

\* finalizeLocked
Finalize(x) == Succeeds(x, "final") \/ Fails(x, "final")

-----------------------------------------------------------------------------
(* The queue.                                                              *)

Decide(u) ==
    /\ u # Owner
    /\ approved' = IF u \in approved THEN approved \ {u} ELSE approved \cup {u}
    /\ UNCHANGED <<queueVars, dispatcher, lockVars, streamVars, fired, flushVars, chatVars>>

\* notify, for an event no log stream takes over.
Notify ==
    /\ accepted < MaxEvents /\ ~eventStopping
    /\ accepted' = accepted + 1
    /\ queue' = Append(queue, accepted + 1)
    /\ UNCHANGED <<approved, head, inFlight, eventStopping, dispatcher, lockVars, streamVars,
                   fired, flushVars, chatVars>>

\* Start, which gives up before this when the webhook cannot be removed.
StartDispatcher ==
    /\ dispatcher.pc = "none"
    /\ dispatcher' = IdleDispatcher
    /\ UNCHANGED <<approved, queueVars, lockVars, streamVars, fired, flushVars, chatVars>>

DispatchTakes ==
    /\ dispatcher.pc = "wait" /\ head < Len(queue)
    /\ dispatcher' = [dispatcher EXCEPT !.pc = "snapshot", !.event = queue[head + 1]]
    /\ head' = head + 1 /\ inFlight' = TRUE
    /\ UNCHANGED <<approved, queue, eventStopping, accepted, lockVars, streamVars, fired,
                   flushVars, chatVars>>

Recipients ==
    /\ dispatcher.pc = "snapshot"
    /\ dispatcher' = [dispatcher EXCEPT !.pc = "push", !.todo = {Owner} \cup approved]
    /\ UNCHANGED <<approved, queueVars, lockVars, streamVars, fired, flushVars, chatVars>>

\* Mutant: the slice starts one event too early.
CompactTooEarly(q, h) ==
    IF h > CompactAt /\ h * 2 >= Len(q)
    THEN [queue |-> SubSeq(q, h, Len(q)), head |-> 0] ELSE [queue |-> q, head |-> h]
Compact(q, h) ==
    IF h > CompactAt /\ h * 2 >= Len(q)
    THEN [queue |-> SubSeq(q, h + 1, Len(q)), head |-> 0] ELSE [queue |-> q, head |-> h]

DispatchDone ==
    /\ dispatcher.pc = "push" /\ dispatcher.todo = {}
    /\ dispatcher' = IdleDispatcher
    /\ inFlight' = FALSE
    /\ queue' = Compact(queue, head).queue /\ head' = Compact(queue, head).head
    /\ UNCHANGED <<approved, eventStopping, accepted, lockVars, streamVars, fired, flushVars, chatVars>>

DispatchEnds ==
    /\ dispatcher.pc = "wait" /\ head = Len(queue) /\ eventStopping
    /\ dispatcher' = [dispatcher EXCEPT !.pc = "ended"]
    /\ UNCHANGED <<approved, queueVars, lockVars, streamVars, fired, flushVars, chatVars>>

-----------------------------------------------------------------------------
(* push                                                                    *)

\* Mutant: one event more than the limit is kept.
NewestTooMany(es) == SubSeq(es, IF Len(es) > MaxShown THEN Len(es) - MaxShown ELSE 1, Len(es))
Newest(es) == SubSeq(es, IF Len(es) > MaxShown THEN Len(es) - MaxShown + 1 ELSE 1, Len(es))

\* Mutant: a timer that runs is left running.
ResetOnlyFirst(s) == [s EXCEPT !.generation = @ + 1, !.timer = @ \/ s.generation = 0]
\* resetTimerLocked stops the timer, which may be too late, and starts the next.
ResetTimer(s) == [s EXCEPT !.generation = @ + 1, !.timer = TRUE]

Push(u) ==
    LET x == IF streams[u] = None THEN created + 1 ELSE streams[u]
        s == IF streams[u] = None THEN [NoStream EXCEPT !.user = u] ELSE stream[x]
    IN  /\ dispatcher.pc = "push" /\ u \in dispatcher.todo /\ mu = Free
        /\ IF stopping
           THEN /\ dispatcher' = [dispatcher EXCEPT !.todo = @ \ {u}]
                /\ UNCHANGED <<mu, streams, stream, created, pushed, quiet>>
           ELSE /\ dispatcher' = [dispatcher EXCEPT !.pc = "call", !.todo = @ \ {u}, !.user = u]
                /\ mu' = "dispatcher"
                /\ streams' = [streams EXCEPT ![u] = x]
                /\ stream' = [stream EXCEPT ![x] =
                                [ResetTimer(s) EXCEPT !.events = Newest(Append(@, dispatcher.event))]]
                /\ created' = IF streams[u] = None THEN x ELSE created
                /\ pushed' = [pushed EXCEPT ![u] = Append(@, dispatcher.event)]
                /\ quiet' = [quiet EXCEPT ![x] = FALSE]
        /\ UNCHANGED <<approved, queueVars, ending, stopping, fired, flushVars, chatVars>>

Returns ==
    /\ dispatcher' = [dispatcher EXCEPT !.pc = "push"]
    /\ mu' = Free
    /\ UNCHANGED <<approved, queueVars, ending, stopping, created, pushed, quiet, fired, flushVars>>

\* The first message of a stream: without its answer the stream is given up.
SendReturns ==
    LET x == streams[dispatcher.user]
    IN  /\ dispatcher.pc = "call" /\ ~stream[x].known
        /\ \/ /\ Succeeds(x, "live")
              /\ stream' = [stream EXCEPT ![x].known = TRUE]
              /\ UNCHANGED streams
           \/ /\ Fails(x, "stray")
              /\ stream' = [stream EXCEPT ![x].timer = FALSE]
              /\ streams' = [streams EXCEPT ![dispatcher.user] = None]
        /\ Returns

\* A failed edit is made good by the next one, which shows all events.
EditReturns ==
    LET x == streams[dispatcher.user]
    IN  /\ dispatcher.pc = "call" /\ stream[x].known
        /\ Succeeds(x, "live") \/ Fails(x, "live")
        /\ Returns /\ UNCHANGED <<streams, stream>>

-----------------------------------------------------------------------------
(* The timers.                                                             *)

Fire(x) ==
    /\ stream[x].timer
    /\ stream' = [stream EXCEPT ![x].timer = FALSE]
    /\ fired' = fired \cup {<<x, stream[x].generation>>}
    /\ quiet' = [quiet EXCEPT ![x] = TRUE]
    /\ UNCHANGED <<approved, queueVars, dispatcher, lockVars, stopping, streams, created, pushed,
                   flushVars, chatVars>>

\* Mutant: the generation is not compared.
EndsAnyGeneration(x, generation) == ~stopping /\ streams[stream[x].user] = x
EndsStream(x, generation) ==
    ~stopping /\ streams[stream[x].user] = x /\ stream[x].generation = generation

FinalizeIdle(x, generation) ==
    /\ <<x, generation>> \in fired /\ mu = Free
    /\ fired' = fired \ {<<x, generation>>}
    /\ IF EndsStream(x, generation)
       THEN /\ streams' = [streams EXCEPT ![stream[x].user] = None]
            /\ mu' = "timer" /\ ending' = x
       ELSE UNCHANGED <<streams, mu, ending>>
    /\ UNCHANGED <<approved, queueVars, dispatcher, stopping, stream, created, pushed, quiet,
                   flushVars, chatVars>>

IdleReturns ==
    /\ mu = "timer"
    /\ Finalize(ending)
    /\ mu' = Free /\ ending' = None
    /\ UNCHANGED <<approved, queueVars, dispatcher, streamVars, fired, flushVars>>

-----------------------------------------------------------------------------
(* Flush, called by main after the last Disconnect with five seconds.      *)

Waiting == <<approved, dispatcher, streamVars, fired, chatVars>>

FlushStarts ==
    /\ flush = "idle"
    /\ flush' = "logs" /\ eventStopping' = TRUE
    /\ UNCHANGED <<expired, queue, head, inFlight, accepted, lockVars, Waiting>>

Expire ==
    /\ flush \notin {"idle", "ok", "timeout"} /\ ~expired
    /\ expired' = TRUE
    /\ UNCHANGED <<flush, queueVars, lockVars, Waiting>>

\* logStreams.wait
LogStreamsEnd ==
    /\ flush = "logs"
    /\ flush' = "wait" \/ (expired /\ flush' = "timeout")
    /\ UNCHANGED <<expired, queueVars, lockVars, Waiting>>

\* Mutants: Flush does not wait for the event in flight, or for ever.
WaitsForQueue == head < Len(queue)
WaitsAlways ==
    /\ flush = "wait" /\ ~(head < Len(queue) \/ inFlight)
    /\ flush' = "shutdown" /\ queue' = <<>> /\ head' = 0
    /\ UNCHANGED <<expired, inFlight, eventStopping, accepted, lockVars, Waiting>>
Undelivered == head < Len(queue) \/ inFlight

FlushWaits ==
    /\ flush = "wait"
    /\ IF Undelivered
       THEN expired /\ flush' = "timeout" /\ UNCHANGED <<queue, head>>
       ELSE flush' = "shutdown" /\ queue' = <<>> /\ head' = 0
    /\ UNCHANGED <<expired, inFlight, eventStopping, accepted, lockVars, Waiting>>

\* eventStreams.shutdown
StopTimers ==
    /\ flush = "shutdown" /\ mu = Free
    /\ flush' = "end" /\ mu' = "flush"
    /\ stopping' = TRUE
    /\ stream' = [x \in Ids |-> [stream[x] EXCEPT
                    !.timer = @ /\ streams[stream[x].user] # x]]
    /\ UNCHANGED <<approved, expired, queueVars, dispatcher, ending, streams, created, pushed,
                   quiet, fired, chatVars>>

EndNext(u) ==
    /\ flush = "end" /\ ~expired /\ streams[u] # None
    /\ flush' = "call" /\ ending' = streams[u]
    /\ UNCHANGED <<expired, queueVars, mu, Waiting>>

\* The call has what is left of Flush's deadline.
EndReturns ==
    /\ flush = "call"
    /\ Finalize(ending) \/ (expired /\ UNCHANGED chatVars)
    /\ flush' = "end" /\ ending' = None
    /\ streams' = [streams EXCEPT ![stream[ending].user] = None]
    /\ UNCHANGED <<approved, expired, queueVars, dispatcher, mu, stopping, stream, created,
                   pushed, quiet, fired>>

FlushEnds ==
    /\ flush = "end" /\ (expired \/ \A u \in Users: streams[u] = None)
    /\ flush' = IF expired THEN "timeout" ELSE "ok"
    /\ streams' = [u \in Users |-> None] /\ mu' = Free
    /\ UNCHANGED <<approved, expired, queueVars, dispatcher, ending, stopping, stream, created,
                   pushed, quiet, fired, chatVars>>

DispatcherStep == \/ DispatchTakes \/ Recipients \/ DispatchDone \/ DispatchEnds
                  \/ \E u \in Users: Push(u)
                  \/ SendReturns \/ EditReturns
TimerStep == \E x \in Ids: Fire(x) \/ \E g \in Events: FinalizeIdle(x, g)
FlushStep == \/ LogStreamsEnd \/ FlushWaits \/ StopTimers
             \/ \E u \in Users: EndNext(u)
             \/ EndReturns \/ FlushEnds

Next == \/ \E u \in Users: Decide(u)
        \/ Notify \/ StartDispatcher \/ DispatcherStep
        \/ TimerStep \/ IdleReturns
        \/ FlushStarts \/ Expire \/ FlushStep

Spec == Init /\ [][Next]_vars

(* Goroutines run, calls to Telegram return, timers fire and the deadline  *)
(* of Flush passes.  Nobody has to send an event, to start the dispatcher  *)
(* or to call Flush.                                                       *)
Fairness ==
    /\ WF_vars(DispatcherStep) /\ WF_vars(TimerStep) /\ WF_vars(IdleReturns)
    /\ WF_vars(Expire) /\ WF_vars(FlushStep)

FairSpec == Spec /\ Fairness

-----------------------------------------------------------------------------
(* Properties.                                                             *)

\* A chat reads its events in the order they happened and no event twice, over
\* all its messages, with compaction, failed calls and the limit on a message.
InOrder ==
    \A x, y \in Ids: \A i \in DOMAIN message[x].shown, j \in DOMAIN message[y].shown:
        stream[x].user = stream[y].user /\ (x < y \/ (x = y /\ i < j))
        => message[x].shown[i] < message[y].shown[j]

\* "After 30 seconds without another event, the bot marks that stream idle":
\* a timer that fired while a new event took the lock does not (generation).
QuietWhenEnded ==
    [][\A x \in Ids: mu = "timer" /\ message'[x] # message[x] => quiet[x]]_vars

\* A Flush that returns nil has given the owner every event that was queued, and
\* ended every message, unless a call to Telegram failed.
FlushComplete ==
    flush = "ok" => /\ pushed[Owner] = [i \in 1..accepted |-> i]
                    /\ \A x \in Ids: message[x].kind # "live" \/ failures > 0

\* Every message is ended, by its timer or by Flush, unless a call to Telegram
\* failed or Flush gave up.
MessagesEnd ==
    \A x \in Ids: message[x].kind = "live"
                  ~> message[x].kind = "final" \/ failures > 0 \/ flush = "timeout"

\* Flush returns, also when no dispatcher was ever started.
FlushReturns == flush # "idle" ~> flush \in {"ok", "timeout"}
=============================================================================
