----------------------------- MODULE LogStreams -----------------------------
(***************************************************************************)
(* The live log streams of the Telegram bot, telegram/logs.go: one message *)
(* per user that is edited as lines are logged, started and stopped by the *)
(* handlers of service.go, ended by the VPN event that ends an action, by  *)
(* a revocation or by the shutdown.                                        *)
(*                                                                         *)
(* Both locks are variables, logStreams.mu and logStream.mu, because a     *)
(* call to Telegram of up to five seconds is made under the second and the *)
(* second is waited for under the first.  Service.authorizationMu is held  *)
(* by a handler from start to end: there is one handler at a time.         *)
(*                                                                         *)
(* Drafts are left out: newLogStreams leaves useDrafts at false, so every  *)
(* stream sends a message first and edits it afterwards, and has no        *)
(* control message.  A page of the log is its length and the pages shown.  *)
(***************************************************************************)
EXTENDS Integers, FiniteSets

CONSTANTS
    Users,        \* the owner and the users who may be approved
    Owner,
    Actions,      \* actions a command tracks: "connect", "disconnect"
    MaxStreams,   \* bound: streams started in a behaviour
    MaxLogs,      \* bound: lines logged
    MaxPages,     \* bound: pages of twenty lines shown
    MaxFailures   \* bound: calls to Telegram that do not succeed

ASSUME UsersAssumption  == Owner \in Users /\ Actions \subseteq {"connect", "disconnect"}
ASSUME BoundsAssumption == /\ MaxStreams \in Nat /\ MaxLogs \in Nat
                           /\ MaxPages \in Nat \ {0} /\ MaxFailures \in Nat

Ids        == 1..MaxStreams
None       == 0                  \* no stream
Free       == "free"             \* a lock nobody holds
Completers == {"handler", "dispatcher"}

VARIABLES
    approved,    \* users the access store approves, and the owner
    phase,       \* how far the shutdown is
    mu,          \* who holds logStreams.mu
    actions,     \* logStreams.actions
    streams,     \* logStreams.streams: the stream of a user
    stream,      \* the logStream structs
    run,         \* the goroutine run of a stream
    handler,     \* the command that holds Service.authorizationMu
    completer,   \* the calls of completeAction
    logs,        \* external: lines logged by the VPN manager
    notifying,   \* a line was logged, OnLog is not called yet
    created,     \* streams started so far
    chat,        \* external: the message of a stream, as Telegram has it
    stray,       \* external: a message Telegram has and the bot does not know
    failures     \* calls that did not succeed

mapVars   == <<mu, actions, streams>>
otherVars == <<approved, phase, logs, notifying, created>>
chatVars  == <<chat, stray, failures>>
vars == <<mapVars, stream, run, handler, completer, otherVars, chatVars>>

Pages     == 1..MaxPages
Page      == [logs: 0..MaxLogs, pages: 0..MaxPages]
NoPage    == [logs |-> 0, pages |-> 0]
Action    == Actions \cup {""}
Commands  == {"start", "submit", "stop", "older", "revoke"}

NoStream == [user |-> Owner, mu |-> Free, stopped |-> FALSE, cancelled |-> FALSE,
             deleteOnExit |-> FALSE, updates |-> FALSE, current |-> NoPage,
             known |-> FALSE, action |-> "", pages |-> 1]

StreamRecord == [user: Users, mu: {Free, "run", "handler", "dispatcher"}, stopped: BOOLEAN,
                 cancelled: BOOLEAN, deleteOnExit: BOOLEAN, updates: BOOLEAN, current: Page,
                 known: BOOLEAN, action: Action, pages: Pages]
RunRecord    == [pc: {"none", "check", "lock", "call", "select", "exit", "cleanup", "done"},
                 page: Page]
HandlerPc    == {"idle", "retag", "control", "complete", "lock", "call"} \cup Commands
HandlerRecord   == [pc: HandlerPc, command: Commands, user: Users, action: Action, stream: Ids \cup {None}]
CompleterRecord == [pc: {"idle", "take", "match", "next", "call"}, action: Action,
                    todo: SUBSET Ids, list: SUBSET Ids, stream: Ids \cup {None}]
Message      == [kind: {"none", "live", "final", "deleted"}, page: Page]

IdleHandler   == [pc |-> "idle", command |-> "start", user |-> Owner, action |-> "", stream |-> None]
IdleCompleter == [pc |-> "idle", action |-> "", todo |-> {}, list |-> {}, stream |-> None]

TypeOK ==
    /\ approved \in SUBSET Users /\ Owner \in approved
    /\ phase \in {"running", "stopping", "shutdown"}
    /\ mu \in {Free, "handler", "dispatcher"}
    /\ actions \in SUBSET Actions
    /\ streams \in [Users -> Ids \cup {None}]
    /\ stream \in [Ids -> StreamRecord]
    /\ run \in [Ids -> RunRecord]
    /\ handler \in HandlerRecord
    /\ completer \in [Completers -> CompleterRecord]
    /\ logs \in 0..MaxLogs /\ notifying \in BOOLEAN
    /\ created \in 0..MaxStreams
    /\ chat \in [Ids -> Message] /\ stray \in [Ids -> BOOLEAN]
    /\ failures \in 0..MaxFailures

Init ==
    /\ approved \in {S \in SUBSET Users: Owner \in S}
    /\ phase = "running"
    /\ mu = Free /\ actions = {} /\ streams = [u \in Users |-> None]
    /\ stream = [x \in Ids |-> NoStream]
    /\ run = [x \in Ids |-> [pc |-> "none", page |-> NoPage]]
    /\ handler = IdleHandler
    /\ completer = [g \in Completers |-> IdleCompleter]
    /\ logs = 0 /\ notifying = FALSE /\ created = 0
    /\ chat = [x \in Ids |-> [kind |-> "none", page |-> NoPage]]
    /\ stray = [x \in Ids |-> FALSE]
    /\ failures = 0

-----------------------------------------------------------------------------
(* Calls to Telegram.  A call that fails for the bot may have reached      *)
(* Telegram all the same: its answer was late or lost, or the context of   *)
(* the stream, which only its own refresh uses, was cancelled meanwhile.   *)

Succeeds(c)  == chat' = c /\ UNCHANGED <<stray, failures>>
NextFailure  == failures < MaxFailures /\ failures' = failures + 1
Fails        == NextFailure /\ UNCHANGED <<chat, stray>>
AnswerLost(c) == NextFailure /\ chat' = c /\ UNCHANGED stray
RefreshFails(x, c, s) ==
    /\ NextFailure \/ (stream[x].cancelled /\ UNCHANGED failures)
    /\ chat' \in {chat, c} /\ stray' \in {stray, s}

Showing(x, kind, page) == [chat EXCEPT ![x] = [kind |-> kind, page |-> page]]
\* Mutant: one page more than asked for.
PageTooMany(x) == [logs |-> logs, pages |-> stream[x].pages + 1]
CurrentPage(x) == [logs |-> logs, pages |-> stream[x].pages]

\* finalizeLocked: edits the known message, or sends a new one.
Finalize(x) ==
    LET final == Showing(x, "final", CurrentPage(x))
    IN  Succeeds(final) \/ Fails \/ AnswerLost(final)

\* deleteMessages, which skips a message id of zero.
DeleteMessage(x) ==
    IF stream[x].known
    THEN LET gone == Showing(x, "deleted", NoPage)
         IN  Succeeds(gone) \/ Fails \/ AnswerLost(gone)
    ELSE UNCHANGED chatVars

-----------------------------------------------------------------------------
(* The handlers.                                                           *)

\* userAllowedLocked
UserAllowed(u) == phase = "running" /\ u \in approved

\* A command of an allowed user.  "submit" is the reply to an OTP prompt of
\* the server: no stream is started, but its failure ends the action.
Command(command, u, action) ==
    /\ handler.pc = "idle" /\ UserAllowed(u)
    /\ action # "" => command \in {"start", "submit"}
    /\ command = "start" => created < MaxStreams
    /\ command = "submit" => action = "connect"
    /\ command = "older" /\ streams[u] # None => stream[streams[u]].pages < MaxPages
    /\ handler' = [IdleHandler EXCEPT !.pc = IF command = "submit" THEN "control" ELSE command,
                                      !.command = command, !.user = u, !.action = action]
    /\ UNCHANGED <<mapVars, stream, run, completer, otherVars, chatVars>>

\* A decision of the owner.  A revocation first removes the user from the
\* access store and then goes for the stream.
Revoke(u) ==
    /\ handler.pc = "idle" /\ UserAllowed(u) /\ u # Owner
    /\ approved' = approved \ {u}
    /\ handler' = [IdleHandler EXCEPT !.pc = "revoke", !.command = "revoke", !.user = u]
    /\ UNCHANGED <<mapVars, stream, run, completer, phase, logs, notifying, created, chatVars>>

Approve(u) ==
    /\ handler.pc = "idle" /\ phase = "running" /\ u \notin approved
    /\ approved' = approved \cup {u}
    /\ UNCHANGED <<mapVars, stream, run, handler, completer, phase, logs, notifying, created, chatVars>>

\* What a handler does after start: a tracked command calls the controller.
Started == handler' = IF handler.action = "" THEN IdleHandler ELSE [handler EXCEPT !.pc = "control"]

Track == actions' = actions \cup ({handler.action} \ {""})

NewStream ==
    LET x == created + 1
    IN  /\ phase # "shutdown" /\ streams[handler.user] = None
        /\ Track
        /\ created' = x
        /\ streams' = [streams EXCEPT ![handler.user] = x]
        /\ stream' = [stream EXCEPT ![x] = [NoStream EXCEPT !.user = handler.user,
                                                            !.action = handler.action]]
        /\ run' = [run EXCEPT ![x].pc = "check"]
        /\ Started
        /\ UNCHANGED mu

\* The stream of an action is the one that is running already.
ReuseStream ==
    /\ phase # "shutdown" /\ streams[handler.user] # None
    /\ Track
    /\ IF handler.action = ""
       THEN handler' = IdleHandler /\ UNCHANGED mu
       ELSE handler' = [handler EXCEPT !.pc = "retag"] /\ mu' = "handler"
    /\ UNCHANGED <<streams, stream, run, created>>

RefuseStream ==
    /\ phase = "shutdown"
    /\ Started
    /\ UNCHANGED <<mapVars, stream, run, created>>

\* logStreams.start
StartStream ==
    /\ handler.pc = "start" /\ mu = Free
    /\ NewStream \/ ReuseStream \/ RefuseStream
    /\ UNCHANGED <<completer, approved, phase, logs, notifying, chatVars>>

Retag ==
    LET x == streams[handler.user]
    IN  /\ handler.pc = "retag" /\ stream[x].mu = Free
        /\ stream' = [stream EXCEPT ![x].action = handler.action]
        /\ mu' = Free
        /\ handler' = [handler EXCEPT !.pc = "control"]
        /\ UNCHANGED <<actions, streams, run, completer, otherVars, chatVars>>

\* The controller returns; a failed call and every Disconnect end the action.
ControllerReturns ==
    /\ handler.pc = "control"
    /\ \/ handler.action = "connect" /\ handler' = IdleHandler /\ UNCHANGED completer
       \/ /\ handler' = [handler EXCEPT !.pc = "complete"]
          /\ completer' = [completer EXCEPT !["handler"] =
                             [IdleCompleter EXCEPT !.pc = "take", !.action = handler.action]]
    /\ UNCHANGED <<mapVars, stream, run, otherVars, chatVars>>

\* stopLocked, revokeLocked, showOlderLocked: mu is kept until the stream's
\* own lock is there.
FindStream ==
    LET x == streams[handler.user]
    IN  /\ handler.pc \in {"stop", "revoke", "older"} /\ mu = Free
        /\ IF x = None
           THEN handler' = IdleHandler /\ UNCHANGED <<mu, streams>>
           ELSE /\ handler' = [handler EXCEPT !.pc = "lock", !.stream = x]
                /\ mu' = "handler"
                /\ streams' = IF handler.command = "older" THEN streams
                              ELSE [streams EXCEPT ![handler.user] = None]
        /\ UNCHANGED <<actions, stream, run, completer, otherVars, chatVars>>

Stopped(s) == [s EXCEPT !.stopped = TRUE, !.cancelled = TRUE]

\* Mutant: a revoked stream is not marked as stopped.
RevokeWithoutStop ==
    LET x == handler.stream
    IN  /\ handler.pc = "lock" /\ handler.command # "older" /\ stream[x].mu = Free
        /\ stream' = [stream EXCEPT ![x].mu = "handler",
                                    ![x].stopped = handler.command = "stop",
                                    ![x].cancelled = handler.command = "stop"]
        /\ mu' = Free
        /\ handler' = [handler EXCEPT !.pc = "call"]
        /\ UNCHANGED <<actions, streams, run, completer, otherVars, chatVars>>

StopStream ==
    LET x == handler.stream
    IN  /\ handler.pc = "lock" /\ handler.command # "older" /\ stream[x].mu = Free
        /\ stream' = [stream EXCEPT ![x] = [Stopped(stream[x]) EXCEPT !.mu = "handler"]]
        /\ mu' = Free
        /\ handler' = [handler EXCEPT !.pc = "call"]
        /\ UNCHANGED <<actions, streams, run, completer, otherVars, chatVars>>

ShowOlder ==
    LET x == handler.stream
    IN  /\ handler.pc = "lock" /\ handler.command = "older" /\ stream[x].mu = Free
        /\ stream' = IF stream[x].stopped \/ stream[x].cancelled THEN stream
                     ELSE [stream EXCEPT ![x].pages = @ + 1, ![x].current = NoPage,
                                         ![x].updates = TRUE]
        /\ mu' = Free
        /\ handler' = IdleHandler
        /\ UNCHANGED <<actions, streams, run, completer, otherVars, chatVars>>

\* A stop publishes the last page, a revocation removes the message.
EndMessage ==
    LET x == handler.stream
    IN  /\ handler.pc = "call"
        /\ IF handler.command = "stop" THEN Finalize(x) ELSE DeleteMessage(x)
        /\ stream' = [stream EXCEPT ![x].mu = Free]
        /\ handler' = IdleHandler
        /\ UNCHANGED <<mapVars, run, completer, otherVars>>

HandlerStep == \/ StartStream \/ Retag \/ ControllerReturns \/ FindStream
               \/ StopStream \/ ShowOlder \/ EndMessage

-----------------------------------------------------------------------------
(* completeAction, called by a handler or, for the event that ends a       *)
(* Connect, by the goroutine that dispatches the events.                   *)

HandleEvent ==
    /\ completer["dispatcher"].pc = "idle" /\ mu = Free /\ "connect" \in actions
    /\ completer' = [completer EXCEPT !["dispatcher"] =
                       [IdleCompleter EXCEPT !.pc = "take", !.action = "connect"]]
    /\ UNCHANGED <<mapVars, stream, run, handler, otherVars, chatVars>>

UntrackAction(g) ==
    /\ completer[g].pc = "take" /\ mu = Free
    /\ mu' = g
    /\ actions' = actions \ {completer[g].action}
    /\ completer' = [completer EXCEPT ![g].pc = "match",
                                      ![g].todo = {streams[u]: u \in Users} \ {None}]
    /\ UNCHANGED <<streams, stream, run, handler, otherVars, chatVars>>

\* One stream after the other, each under its own lock and all under mu.
MatchStream(g) ==
    /\ completer[g].pc = "match"
    /\ \E x \in completer[g].todo:
          /\ stream[x].mu = Free
          /\ LET matches == stream[x].action = completer[g].action /\ ~stream[x].stopped
             IN  /\ completer' = [completer EXCEPT ![g].todo = @ \ {x},
                                                   ![g].list = IF matches THEN @ \cup {x} ELSE @]
                 /\ streams' = IF matches THEN [streams EXCEPT ![stream[x].user] = None] ELSE streams
    /\ UNCHANGED <<mu, actions, stream, run, handler, otherVars, chatVars>>

AllMatched(g) ==
    /\ completer[g].pc = "match" /\ completer[g].todo = {}
    /\ mu' = Free
    /\ completer' = [completer EXCEPT ![g].pc = "next"]
    /\ UNCHANGED <<actions, streams, stream, run, handler, otherVars, chatVars>>

EndStream(g) ==
    /\ completer[g].pc = "next"
    /\ \E x \in completer[g].list:
          /\ stream[x].mu = Free
          /\ stream' = [stream EXCEPT ![x] = [Stopped(stream[x]) EXCEPT !.mu = g]]
          /\ completer' = [completer EXCEPT ![g].pc = "call", ![g].stream = x]
    /\ UNCHANGED <<mapVars, run, handler, otherVars, chatVars>>

FinalLine(g) ==
    LET x == completer[g].stream
    IN  /\ completer[g].pc = "call"
        /\ Finalize(x)
        /\ stream' = [stream EXCEPT ![x].mu = Free]
        /\ completer' = [completer EXCEPT ![g].pc = "next", ![g].list = @ \ {x}, ![g].stream = None]
        /\ UNCHANGED <<mapVars, run, handler, otherVars>>

ActionCompleted(g) ==
    /\ completer[g].pc = "next" /\ completer[g].list = {}
    /\ completer' = [completer EXCEPT ![g] = IdleCompleter]
    /\ handler' = IF g = "handler" THEN IdleHandler ELSE handler
    /\ UNCHANGED <<mapVars, stream, run, otherVars, chatVars>>

CompleterStep(g) == \/ UntrackAction(g) \/ MatchStream(g) \/ AllMatched(g)
                    \/ EndStream(g) \/ FinalLine(g) \/ ActionCompleted(g)

-----------------------------------------------------------------------------
(* run and refresh.                                                        *)

RunGoto(x, pc) == run' = [run EXCEPT ![x] = [pc |-> pc, page |-> NoPage]]
OnlyRun == UNCHANGED <<mapVars, stream, handler, completer, otherVars, chatVars>>

\* The access is read before the lock of the stream is taken.
CheckAccess(x) ==
    /\ run[x].pc = "check"
    /\ RunGoto(x, IF UserAllowed(stream[x].user) THEN "lock" ELSE "select")
    /\ OnlyRun

\* Mutant: a stream that was stopped while the lock was awaited goes on.
ReadLogsAnyway(x) ==
    LET page == CurrentPage(x)
    IN  /\ run[x].pc = "lock" /\ stream[x].mu = Free
        /\ IF stream[x].known /\ page = stream[x].current
           THEN RunGoto(x, "select") /\ UNCHANGED stream
           ELSE /\ run' = [run EXCEPT ![x] = [pc |-> "call", page |-> page]]
                /\ stream' = [stream EXCEPT ![x].mu = "run"]
        /\ UNCHANGED <<mapVars, handler, completer, otherVars, chatVars>>

ReadLogs(x) ==
    LET page == CurrentPage(x)
    IN  /\ run[x].pc = "lock" /\ stream[x].mu = Free
        /\ IF \/ stream[x].stopped \/ stream[x].cancelled
              \/ stream[x].known /\ page = stream[x].current
           THEN RunGoto(x, "select") /\ UNCHANGED stream
           ELSE /\ run' = [run EXCEPT ![x] = [pc |-> "call", page |-> page]]
                /\ stream' = [stream EXCEPT ![x].mu = "run"]
        /\ UNCHANGED <<mapVars, handler, completer, otherVars, chatVars>>

\* Mutants: a failed edit counts as shown; an edit takes mu before it returns.
EditCountsFailed(x) ==
    LET live == Showing(x, "live", run[x].page)
    IN  /\ run[x].pc = "call" /\ stream[x].known
        /\ Succeeds(live) \/ RefreshFails(x, live, stray)
        /\ stream' = [stream EXCEPT ![x].mu = Free, ![x].current = run[x].page]
        /\ RunGoto(x, "select")
        /\ UNCHANGED <<mapVars, handler, completer, otherVars>>
EditUnderMu(x) ==
    LET live == Showing(x, "live", run[x].page)
    IN  /\ run[x].pc = "call" /\ stream[x].known /\ mu = Free
        /\ Succeeds(live)
        /\ stream' = [stream EXCEPT ![x].mu = Free, ![x].current = run[x].page]
        /\ RunGoto(x, "select")
        /\ UNCHANGED <<mapVars, handler, completer, otherVars>>

\* EditMessageText returns.
EditReturns(x) ==
    LET live == Showing(x, "live", run[x].page)
    IN  /\ run[x].pc = "call" /\ stream[x].known
        /\ \/ /\ Succeeds(live)
              /\ stream' = [stream EXCEPT ![x].mu = Free, ![x].current = run[x].page]
           \/ /\ RefreshFails(x, live, stray)
              /\ stream' = [stream EXCEPT ![x].mu = Free]
        /\ RunGoto(x, "select")
        /\ UNCHANGED <<mapVars, handler, completer, otherVars>>

\* fallbackLocked: the first message; without its answer its id is unknown.
SendReturns(x) ==
    /\ run[x].pc = "call" /\ ~stream[x].known
    /\ \/ /\ Succeeds(Showing(x, "live", run[x].page))
          /\ stream' = [stream EXCEPT ![x].mu = Free, ![x].current = run[x].page, ![x].known = TRUE]
       \/ /\ RefreshFails(x, chat, [stray EXCEPT ![x] = TRUE])
          /\ stream' = [stream EXCEPT ![x].mu = Free]
    /\ RunGoto(x, "select")
    /\ UNCHANGED <<mapVars, handler, completer, otherVars>>

\* select takes any case that is ready: the context, an update, the ticker.
SeeCancel(x) == run[x].pc = "select" /\ stream[x].cancelled /\ RunGoto(x, "exit") /\ OnlyRun

SeeUpdate(x) ==
    /\ run[x].pc = "select" /\ stream[x].updates
    /\ stream' = [stream EXCEPT ![x].updates = FALSE]
    /\ RunGoto(x, "check")
    /\ UNCHANGED <<mapVars, handler, completer, otherVars, chatVars>>

Tick(x) == run[x].pc = "select" /\ RunGoto(x, "check") /\ OnlyRun

\* Mutant: the stream of the user is removed, whichever it is.
LeaveRemovesAny(x) ==
    /\ run[x].pc = "exit" /\ mu = Free
    /\ streams' = [streams EXCEPT ![stream[x].user] = None]
    /\ RunGoto(x, IF stream[x].deleteOnExit THEN "cleanup" ELSE "done")
    /\ UNCHANGED <<mu, actions, stream, handler, completer, otherVars, chatVars>>

\* The deferred function of run.
Leave(x) ==
    /\ run[x].pc = "exit" /\ mu = Free
    /\ streams' = [streams EXCEPT ![stream[x].user] = IF @ = x THEN None ELSE @]
    /\ RunGoto(x, IF stream[x].deleteOnExit THEN "cleanup" ELSE "done")
    /\ UNCHANGED <<mu, actions, stream, handler, completer, otherVars, chatVars>>

CleanupAfterShutdown(x) ==
    /\ run[x].pc = "cleanup" /\ stream[x].mu = Free
    /\ DeleteMessage(x)
    /\ RunGoto(x, "done")
    /\ UNCHANGED <<mapVars, stream, handler, completer, otherVars>>

RunStep(x) == \/ CheckAccess(x) \/ ReadLogs(x) \/ EditReturns(x) \/ SendReturns(x)
              \/ SeeCancel(x) \/ SeeUpdate(x) \/ Tick(x)
              \/ Leave(x) \/ CleanupAfterShutdown(x)

-----------------------------------------------------------------------------
(* The VPN manager's log, and the shutdown.                                *)

\* addLog appends under the manager's lock and calls OnLog without it.
AddLog ==
    /\ logs < MaxLogs /\ ~notifying
    /\ logs' = logs + 1 /\ notifying' = TRUE
    /\ UNCHANGED <<mapVars, stream, run, handler, completer, approved, phase, created, chatVars>>

Notify ==
    /\ notifying /\ mu = Free
    /\ notifying' = FALSE
    /\ stream' = [x \in Ids |-> [stream[x] EXCEPT
                    !.updates = @ \/ (phase # "shutdown" /\ streams[stream[x].user] = x)]]
    /\ UNCHANGED <<mapVars, run, handler, completer, approved, phase, logs, created, chatVars>>

BeginShutdown ==
    /\ phase = "running"
    /\ phase' = "stopping"
    /\ UNCHANGED <<mapVars, stream, run, handler, completer, approved, logs, notifying, created, chatVars>>

\* Mutant: the streams are only cancelled.
ShutdownKeepsMessages ==
    /\ phase = "stopping" /\ mu = Free
    /\ phase' = "shutdown"
    /\ stream' = [x \in Ids |-> IF streams[stream[x].user] = x
                                THEN [stream[x] EXCEPT !.cancelled = TRUE] ELSE stream[x]]
    /\ streams' = [u \in Users |-> None] /\ actions' = {}
    /\ UNCHANGED <<mu, run, handler, completer, approved, logs, notifying, created, chatVars>>

\* The messages are left to the run goroutines: shutdown waits for no stream.
Shutdown ==
    /\ phase = "stopping" /\ mu = Free
    /\ phase' = "shutdown"
    /\ stream' = [x \in Ids |-> IF streams[stream[x].user] = x
                                THEN [stream[x] EXCEPT !.cancelled = TRUE, !.deleteOnExit = TRUE]
                                ELSE stream[x]]
    /\ streams' = [u \in Users |-> None] /\ actions' = {}
    /\ UNCHANGED <<mu, run, handler, completer, approved, logs, notifying, created, chatVars>>

Calls == \/ \E u \in Users, a \in Action, c \in Commands \ {"revoke"}: Command(c, u, a)
         \/ \E u \in Users: Revoke(u) \/ Approve(u)
         \/ HandleEvent \/ AddLog \/ BeginShutdown

Next == \/ Calls \/ HandlerStep \/ Notify \/ Shutdown
        \/ \E g \in Completers: CompleterStep(g)
        \/ \E x \in Ids: RunStep(x)

Spec == Init /\ [][Next]_vars

(* Every goroutine that can run does, every call to Telegram returns       *)
(* within five seconds, and a select whose context is done sees that       *)
(* between two ticks.  Nobody has to send a command or to log.             *)
Fairness ==
    /\ WF_vars(HandlerStep) /\ WF_vars(Notify) /\ WF_vars(Shutdown)
    /\ \A g \in Completers: WF_vars(CompleterStep(g))
    /\ \A x \in Ids: WF_vars(RunStep(x)) /\ SF_vars(SeeCancel(x))

FairSpec == Spec /\ Fairness

-----------------------------------------------------------------------------
(* Properties.                                                             *)

Completing(x) == \E g \in Completers: x \in completer[g].list

\* A stream that still may publish can be found and stopped: it is the stream
\* of its user, or somebody is about to end it (start, stopLocked,
\* completeAction and the deferred function of run).
NoOrphan ==
    \A x \in Ids:
        run[x].pc \notin {"none", "exit", "cleanup", "done"}
        /\ ~stream[x].stopped /\ ~stream[x].cancelled
        => streams[stream[x].user] = x \/ Completing(x) \/ handler.stream = x

\* "Revocation ... remove[s] its persistent control or output message": once
\* the owner's command returned, the revoked user has no live message, unless a
\* call to Telegram failed.
RevokeRemoves ==
    \A x \in Ids:
        chat[x].kind = "live" /\ stream[x].user \notin approved /\ failures = 0
        => handler.user = stream[x].user \/ stream[x].deleteOnExit

\* The same, but for a stream that an ending action has taken already.
RevokeRemovesOthers ==
    \A x \in Ids:
        chat[x].kind = "live" /\ stream[x].user \notin approved /\ failures = 0
        => handler.user = stream[x].user \/ stream[x].deleteOnExit \/ Completing(x)

\* The last page and a deletion are the end of a message: no refresh that was
\* under way brings it back (refresh tests stopped under the stream's lock).
FinalStays ==
    [][\A x \in Ids: chat[x].kind \in {"final", "deleted"} => chat'[x] = chat[x]]_vars

\* Every handler returns: nobody waits for mu while holding the lock of a
\* stream ("Lock order is Service.authorizationMu -> mu -> logStream.mu").
HandlerReturns == handler.pc # "idle" ~> handler.pc = "idle"

\* The message of a running stream shows the newest lines in the end, whatever
\* calls failed before.
Behind(x) ==
    /\ streams[stream[x].user] = x /\ UserAllowed(stream[x].user)
    /\ chat[x].page # CurrentPage(x)
CatchesUp == \A x \in Ids: Behind(x) ~> ~Behind(x)

\* "service shutdown cancel[s] the stream and remove[s] its ... message": no
\* live message that the bot knows is left, unless a call to Telegram failed.
ShutdownCleans ==
    phase = "shutdown" ~> \A x \in Ids: chat[x].kind # "live" \/ failures > 0
=============================================================================
