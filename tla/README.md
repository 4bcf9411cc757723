# GlobalProtect manager: TLA+ models, checks and proofs

This directory models the Go backend of the GlobalProtect manager
(`src/backend`): the VPN manager that runs openconnect, the queue of lifecycle
events, the Telegram bot (commands and OTP prompts, live log streams, event
messages, access decisions), the configuration and the sign-in with GitHub. TLC
checks every module on small instances; TLAPS proves the type correctness and every
safety property the passing runs check, of each component, for every value of the
constants or, where a property needs it, for one login session at a time.

All paths below are relative to `src/backend`. `PROJECT.json` maps each
definition to the lines it models and lists the hazards at their lines.

To check one run: `tlc -config VpnStop.cfg MCVpnManager.tla`. To check the proofs
of one module: `tlapm VpnManagerProofs.tla`.

## 1. The system

One process serves a Web UI and, when configured, a Telegram bot. Both drive one
VPN connection.

```
 HTTP handlers ──┐                      ┌── openconnect process (stdin, stdout, stderr)
                 ├─ control.VPN ─ vpn.Manager
 Telegram bot ───┘                      └── event queue ─ dispatchEvents ─ OnEvent callback
      ▲                                                                    │
      └── live log streams, pending OTP prompts, event messages ◄──────────┘
```

| Component | State | Operations | Hard behaviour | What makes it correct |
|---|---|---|---|---|
| VPN manager (`internal/vpn/manager.go`) | the struct `Manager` under one RWMutex; the process, its pipe, prompt counters | `Connect`, `SubmitOTP`, `Disconnect`, `Status`, `Logs` | a goroutine per Connect, two output readers and one code generator per process, any number of callers; the lock is released around every blocking call | a process that runs is waited for, and what is registered is not left over; a prompt has exactly one answerer; no code is used twice; Disconnect returns, its process dies, and no reconnect follows unless somebody connects; when the loop ends everything is down |
| Event queue (same file) | `eventQueue`, `eventHead`, `eventCond` | every setter, `OnEvent`, `dispatchEvents` | compaction while the dispatcher works without the lock; a callback registered late | each event once, in order, with the snapshot of its emission; bounded consumed slots |
| TOTP (`internal/vpn/totp.go`) | none | `generateNextTOTP` | step boundary | never the step of the last recorded code |
| Control facade (`internal/control/vpn.go`) | none | the calls above, with the stored profile | - | refuses a reconnecting profile without secret |
| Bot: commands, prompts, access decisions (`internal/telegram/service.go`) | `pending`, `stopping`, `authorizationMu` | handlers, callbacks, `notify` | one handler at a time, events on another goroutine | a prompt is claimed once; revocation ends prompt and stream |
| Bot: live log streams (`internal/telegram/logs.go`) | `actions`, `streams`, per stream a message, a lock and a goroutine | start, stop, older, revoke, `completeAction`, `notify`, `shutdown`, `refresh` | calls of five seconds under the stream's lock; streams that are restarted while the old goroutine exits | an ended message stays ended; no stream is lost; handlers return; a revoked user keeps nothing |
| Bot: event messages (`internal/telegram/event_stream.go`, `service.go`) | `events`, `eventHead`, one message and timer per recipient | `notify`, `dispatchEvents`, `push`, `finalizeIdle`, `Flush` | timers stopped too late, failed calls, a deadline | in order, once; ended after thirty quiet seconds and not before; a Flush that succeeds leaves nothing behind |
| Access store (`internal/telegram/access_store.go`) | map and JSON file | `Get`, `Snapshot`, `Upsert`, `Delete`, load | crash between write and rename, rollback, clock set back | the file is always one that loads; a decision that was reported survives |
| Configuration (`internal/config/config.go`, `internal/api/handlers.go`) | config in memory and file | `Get`, `Save`, `UpdateVPN`, `Load` | overlapping read-modify-write, crash inside the write | what was saved last is used; no reconnect without a secret |
| HTTP API (`internal/api`) | - | the calls above, decoding, status codes | several requests at once | as above |
| GitHub sign-in (`internal/auth`) | OAuth states | `AuthURL`, `Exchange`; a signed cookie | expiry, doubled callbacks | a state is accepted once, and a fresh one always |
| Start and shutdown (`main.go`) | - | `run` | kill and restart; order of the shutdown steps | what was persisted is read back; no message and no process is left |
| Web frontend, container, build | - | - | - | not modelled: a view that polls, and build files |

## 2. Modules

| Module | Models | Used with |
|---|---|---|
| `VpnManager` | the VPN manager, its goroutines, its callers and the openconnect processes | `MCVpnManager` gives the requests TLC uses |
| `VpnManagerProofs` | type correctness of `VpnManager`, and what holds for any number of callers | extends `VpnManager` |
| `VpnSessionProofs` | who has which process in hand, and what holds of the sessions one goroutine of `Connect` serves | extends `VpnManagerProofs` |
| `EventStream` | the abstract promise of `OnEvent`: a growing sequence delivered in order | - |
| `VpnEvents` | the event queue and its dispatcher; implements `EventStream` | `INSTANCE EventStream` |
| `VpnEventsProofs` | its invariants and the refinement | extends `VpnEvents` |
| `LogStreams` | the live log streams with both of their locks | - |
| `LogStreamsProofs` | its invariants and the action property | extends `LogStreams` |
| `EventMessages` | the bot's own event queue, the event messages, `Flush` | - |
| `EventMessagesProofs` | its invariants and the action property | extends `EventMessages` |
| `BotCommands` | commands, OTP prompts, replies, revocation and `notify` of the bot, against the manager as its callers see it | - |
| `BotCommandsProofs` | its invariants | extends `BotCommands` |
| `DurableStore` | the abstract promise of the access store: decisions survive, and nobody sees one that does not | - |
| `AccessStore` | requests, decisions, the save with its temporary file, crash and restart; implements `DurableStore` | `INSTANCE DurableStore` |
| `AccessStoreProofs` | its invariants and the refinement | extends `AccessStore` |
| `ConfigStore` | the configuration, and the two HTTP handlers that change it | - |
| `OAuthStates` | the states of the sign-in | - |
| `Backend` | the three of them in one process that is killed and restarted | extends `AccessStore`, `ConfigStore`, `OAuthStates` |
| `BackendProofs` | the invariants of the configuration and of the sign-in; that the process is its parts, and what it keeps | extends `Backend`, `AccessStoreProofs` |

### VpnManager

One action is one region under `Manager.mu`, or one effect outside it (starting a
process, writing to a pipe, a signal). Between two actions of a goroutine every
other one may run. The variables are the struct (`m`), the locals of each goroutine
with a program counter (`loop` for the goroutine of `Connect` and
`runOpenConnect`, `reader` for `streamOutput`, `gen` for `submitGeneratedOTP`,
`sub` and `disc` for the callers of `SubmitOTP` and `Disconnect`), and the
environment (`proc`, `started`, `clock`).

A process id stands for the `exec.Cmd` and its pipes. An output line is one of six
kinds, those that some predicate of `streamOutput` tells apart; a line that matches
several is several lines in a row. Tokens are counted, not compared. `connectedAt`
is the number of processes started before the last `markConnected`, which is all
that `tunnelEstablished` asks of it. `phase`, `detail`, `errorMsg`, `lastLog`, the
log and the callbacks are left out: no guard of this component reads them. The
event queue is `VpnEvents`.

openconnect is external: it prints lines while it runs, blocks after an OTP
prompt until it reads a token, exits whenever it likes, and once killed only exits.

### EventStream and VpnEvents

`EventStream` says what a listener may rely on. `VpnEvents` has the setters that
emit (`setStateLocked`, `setPhaseLocked`, `markConnected`, the `emit…Locked`
helpers), the queue with its head index and `compactEventsLocked`, and the
dispatcher with its wait made explicit (`asleep` until `Signal` or `Broadcast`), so
that a lost wake-up would be a reachable state. The refinement mapping uses two
history variables: `emitted` and `delivered`.

### LogStreams

`logStreams.mu` and the lock of each stream are variables that name their holder,
because a call to Telegram is made under the second and the second is awaited under
the first. `handler` is the command that holds `authorizationMu`, from start to
end; `completer` is a call of `completeAction`, by a handler or by the goroutine
that dispatches the VPN events; `run` is the goroutine of a stream; `phase` is how
far `BeginShutdown` is. `chat` and `stray` are what Telegram shows: a message the
bot knows and one it does not know (sent, but the answer was lost, or the context
was cancelled by `shutdown` during the call).

A page is the number of lines logged and of pages shown. Drafts are left out, for
`newLogStreams` leaves `useDrafts` at false and nothing sets it.

### EventMessages

`queue`, `head`, `inFlight` and `eventStopping` are the fields of `Service` under
`eventMu`; waiting on `eventCond` is a guard, since every writer of the queue
signals. `eventStreams.mu` names its holder. A timer is armed in its stream;
`Fire` turns it into a goroutine that waits for the lock (`fired`), which
`timer.Stop` can no longer prevent. `quiet` is the clock: thirty seconds have passed
since the last event of the stream.

### BotCommands

`hand` is the handler that holds `authorizationMu`, with the call it waits for: the
prompt is being sent, the claimed messages are being deleted, the manager is being
called. `pending` is `Service.pending`; a prompt is a number, with its user and kind
in `prompt`. `actions` is `logStreams.actions` (the streams are in `LogStreams`).
`notice` is `notify` on the manager's dispatcher, in three regions: the prompts, the
look at the actions, their end.

The manager is coarser than in `VpnManager`: `vpn` has the three fields its callers
and listeners see, `loop` says how far each goroutine of Connect is, and `queue` has
the events with the `AwaitingOTP` of their snapshot. Of several events of one region
that show the same status one is kept, and names that no guard asks for are `other`.
`profile` is the stored configuration, which does not change while the bot works:
complete or not, with a secret or not. The Web UI makes its calls at any time.

### AccessStore and DurableStore

`hand` is the handler that holds `authorizationMu`: the temporary file is being
written, the file is being renamed, the user is told, the card for the owner is
sent. `users` is the memory, `file` what the next start will read. Every step of the
save may fail; the process may be killed in every state. The wall clock moves and
may be set back. The mapping to `DurableStore` takes the statuses in the file as the
store, so that its `Commit` is the rename and nothing else.

### ConfigStore, OAuthStates and Backend

A request of `ConfigStore` is a handler with its own copy of the configuration, from
`Get` to the end of `Save`. `os.WriteFile` is two steps, for it empties the file
first: `Torn` is the file in between, after a crash there, or after a failed write.
`saved` is the configuration whose write was completed last.

`OAuthStates` has the map of `GitHubAuth`; a callback claims its state under the
lock and then talks to GitHub without it. `issued`, `sessions` and `spent` are
history. The cookie is not kept by the process.

`Backend` runs the three side by side: they share the process, which is killed as a
whole and starts in the order of `run`, and time. A file of access records that is
refused at the start disables the bot and leaves the rest alone.

## 3. Runs

| Run | Configuration | Shows |
|---|---|---|
| `vpn_session` | one goroutine of Connect, all line kinds, 2 processes of 2 lines, manual and automatic requests, one SubmitOTP caller, no Disconnect | types; `IdleIsDown`; `InFlightHasGenerator`; `OneAnswerer`; `FreshCode`; `ManualPromptIsServed`: no manual prompt of the first process is left unanswered |
| `vpn_stop` | a reconnecting profile, one goroutine of Connect, 2 processes, a Disconnect; under fairness | `StdinIsRegistered`, `RunningIsHeld` and `RegisteredIsHeld`, also for a process registered between two regions of Disconnect; `DisconnectReturns`; `CapturedExits`; `StopEndsLoop`, also for a stop in the gap before a reconnect |
| `vpn_lost_prompt` | a profile with secret, 3 prompts | `OpenPromptIsServed` is violated (finding 1) |
| `vpn_lost_disconnect` | one process, one Disconnect | `DisconnectStops` is violated (finding 2) |
| `events` | 5 events, compaction at 2 slots; under fairness | types; `InOrder`; `ConsumedBounded`; `CaughtUpIsCurrent`; `ImplementsStream` |
| `log_streams` | 2 users, 2 streams, one tracked action | types; `NoOrphan`; `RevokeRemovesOthers`; `FinalStays` |
| `log_delivery` | 1 user, 1 stream, a line, 2 pages, 1 failing call; under fairness | `HandlerReturns`; `CatchesUp`; `ShutdownCleans` |
| `log_revoke` | as `log_streams`, 1 stream | `RevokeRemoves` is violated (finding 3) |
| `event_messages` | 2 recipients, 2 events, 1 failing call, compaction at 0, messages of one event, access decisions, Flush; under fairness | types; `FlushComplete`; `InOrder`; `QuietWhenEnded`; `MessagesEnd`; `FlushReturns` |
| `backend` | 2 users, 2 requests, 2 callbacks, 3 calls, 1 crash, 1 failing save each, the clock set back once | types; `MemoryIsFile`; `LoadsUnlessSetBack`; `ImplementsDurable`; `SavedIsUsed`; `AutoNeedsSecret`; `StateIsGoodOnce` |
| `bot_commands` | the owner and a user, 2 prompts, 2 attempts, 3 calls, 3 waiting events, every kind of profile | types; `RepliesAreWarranted`; `TrackedUnlessQuiet` |
| `bot_tracked` | the owner, one attempt, two calls | `TrackedIsActive` is violated (finding 4) |

### Findings

1. **A generated code can be overtaken by the next prompt.** The code is written
   before the region that resets `autoOTPInFlight`. A prompt printed in between is
   taken for a repetition; nobody answers it and `SubmitOTP` is refused.
   (`manager.go:1027`, `630-638`)
2. **A Disconnect can be lost.** While `runOpenConnect` prepares its command there
   is no `m.cmd`. The Disconnect returns, the process starts afterwards and the
   connection comes up. (`manager.go:466`, `700-776`)
3. **A revocation can miss a stream that is just ending.** `completeAction` removes
   the stream from the map before it has the stream's lock; a revocation in between
   finds nothing and the revoked user gets the final page. (`logs.go:223-229`)

4. **A tracked connect can outlive its attempt.** An attempt that is stopped while
   connecting, or whose process exits with status 0 before the tunnel, ends without
   an event that `terminalActionEvent` knows. The action stays tracked: its stream is
   never finalised, and all later events are kept from the event messages until
   another Connect fails, is refused or comes up. (`logs.go:192`)

More was met on the way that no run states. The first two need two goroutines of `Connect`.

- *Two processes can run at once.* `Connect` is refused only while connecting or
  connected. After a "bye" line, which sets the state to disconnected while the process
  lives, a second one is accepted; both processes share one struct and only the second is
  registered. The same holds of a Connect in the state disconnecting and in the gap before
  a reconnect. Such a Connect also takes a stop back, for `stopRequested` is one flag for
  all goroutines: the stopped one then takes its exit for a lost tunnel and reconnects.
  (`manager.go:380-386`, `819-825`, `880-886`)
- *A Disconnect can forget the process of the next Connect.* Its last region resets the
  registration whosever it is. A Connect accepted while it waited up to eight seconds is
  connected with no registered process, and no later Disconnect can signal it.
  (`manager.go:512-528`)
- *A revocation without a button.* `/access` lists the records (`service.go:278`) where
  `docs/telegram.md` says "Review and manage"; the callback for a revocation is there
  but no message has its button.
- *A request can stay undecided.* The card with the request is sent once, with its error
  dropped (`service.go:248`): when that call fails, the owner has nothing to decide with
  and the user stays pending.
- *A prompt can be lost without any secret.* A `SubmitOTP` of two tokens counts the second
  against a prompt that it did not answer (`manager.go:451`), and a line of the other pipe
  that is handled late closes a prompt it came before (`manager.go:955`). No document
  promises more; to see it, let `VpnSession.cfg` have manual requests and 3 lines per
  process, and either `MaxTokens = 2` or a second stream: `ManualPromptIsServed` fails.

### Bounds

Every bound is a constant: `MaxProcs`, `MaxLines`, `MaxTokens`, `MaxWindow`;
`MaxEvents`; `MaxStreams`, `MaxLogs`, `MaxPages`, `MaxFailures`; `MaxPrompts`,
`MaxAttempts`, `MaxCommands`, `MaxBacklog`; `MaxClock`, `MaxSaveFailures`,
`MaxLogins`, `MaxElapsed`, `MaxCalls`, `MaxCrashes`. Two processes give
every overlap of an old and a new one: the second starts after a reconnect, after
the direct-gateway retry, or under a Disconnect of the first. Two lines give a
repeated prompt, and a prompt before and after its answer is counted. The code lets several
goroutines of `Connect` live at once. The runs have one: two of them, two processes and one
kind of line make some 3.5 million states, too many for the liveness properties of `vpn_stop`. For
any number of goroutines the invariants of that run are theorems. `StopEndsLoop` is not; it
says itself where a second `Connect` takes the stop back. `VpnStop.cfg` may be given
`Loops = {l1, l2}` together with `MaxProcs = 1`: all its properties hold there too, in as
little time, and the second goroutine is accepted while the first still lives. In
`vpn_session` nobody disconnects: `IdleIsDown` and `ManualPromptIsServed` are about a
session that nobody else interferes with. Compaction is tried at one or two
slots instead of 64, so that it happens within a few events. Two streams let one user
restart while the old goroutine exits, or two users overlap. Thresholds, message
limits and time-outs are constants or nondeterministic, so no property rests on
their values. Three calls of the bot are enough to prompt a user, revoke and
approve the user and have the reply arrive, or to connect, disconnect and connect again while
the events of the first session wait. Three calls and a crash let two saves, two
requests or two callbacks overlap and one of them be cut. No run uses symmetry: the goroutines of `Connect`
are interchangeable, but the run where that would help checks liveness.

`CHECK_DEADLOCK FALSE` appears where the system may stop: in `LogStreams` and
`EventMessages` everything has stopped after a shutdown, in `BotCommands` and
`Backend` nobody calls any more.

### Fairness

- `VpnManager`: weak fairness of every goroutine, of the exit of a *killed* process
  and of the TOTP clock. Go's scheduler runs what can run and the timeouts fire. No
  caller has to call and openconnect does not have to print, read or exit.
- `VpnEvents`: weak fairness of the dispatcher once a callback is registered.
- `LogStreams`: weak fairness of handlers, completions and stream goroutines, since a
  call to Telegram returns within its five seconds; strong fairness of a `select`
  seeing its cancelled context, since Go picks ready cases at random and the ticker
  is ready once a second only.
- `EventMessages`: weak fairness of the dispatcher, the timers, the calls, the
  deadline and Flush. `push` has no time-out of its own; that its calls return is an
  assumption on the HTTP client. The dispatcher may never be started.
- `BotCommands` and `Backend`: none; they are checked for safety only.

## 4. Proofs

Assumptions on the constants are named `...Assumption` in the modules that declare
them. They say that the bounds are natural numbers, that those which the code uses at
once are positive (the compaction threshold of the manager, the events of a message, the
pages shown, the last clock values), that lines, requests and tracked actions are of the
declared kinds, that the owner is a user and the access store has one, and that there are
finitely many recipients. The sets of goroutines, callers, users, requests, callbacks, phases and
errors are otherwise arbitrary. TLC evaluates the assumptions in every run that extends
their module.

**VpnManager.** `TypeCorrect` goes action by action: first what the helpers on the
struct return, then one lemma per group of actions. Writing tokens needs one
fact more than types, that a goroutine in its writing step has a token left
(`LeftPositive`).

`SafetyInvariant` proves `SafetyInv`. None of the stated properties is inductive.
`StdinIsRegistered` and `OneAnswerer` need only types, but:

- `CapturedIsStopped` and the generator facts need that a process which is about to
  be registered is unknown to everyone else: ids are given in order (`Known`), the
  id in a goroutine's `register` step is in nobody's hands (`RegisterIsNew`);
- `FreshCode` is about a generator that waits or writes, and is preserved only
  because the generator of the current pipe is the one in flight and started from
  the last recorded step (`GeneratorIsCurrent`).

From `SafetyInv` follow `PipeIsRegistered`, `PromptHasOneAnswerer`, `CodesAreFresh`
and `DisconnectKills` (`CapturedIsStopped`, the safety side of `CapturedExits`, which has no run of
its own). They hold for any number of Connect goroutines, Disconnect and SubmitOTP
callers, processes and streams, where TLC has one or two. The long case splits are
shortened by `ManagerEffect`: almost every action changes the manager's
authentication fields in one of a few ways, and only the exceptions are looked at
one by one.

`VpnSessionProofs` begins with what is left of "one process" when two goroutines of
`Connect` share the struct (section 3), for any number of goroutines and of callers of
`Disconnect`: `NoProcessIsAbandoned` and `RegistrationIsCurrent`. The invariant `HoldInv`
adds that no two goroutines hold the same process (`HeldByOne`), which rests on `Known`. A
process that runs with an open pipe was started by the goroutine that holds it; the two
steps that let a process go are the error return, which closes the pipe, and the end of
`cmd.Wait`, after the exit. The exception for a closed pipe is needed: a Disconnect that
grabs the pipe of the next process but signals the one before leaves a process that the
error return (`manager.go:802`) abandons.

The rest is about sessions, for it is not true in general. The theorems assume
`Loops = {c}`, and all but the first that nobody disconnects. Neither restricts what the
goroutine, its processes, their readers and generators and the callers of `SubmitOTP` do,
nor how many of them there are.

- `InFlightIsAnswered`, under any number of Disconnects: the struct's pipe is that of the
  goroutine's process and is unset where the goroutine has none (`PipeOf`), so whoever
  set `autoOTPInFlight` started the generator of that pipe, and it ends only by resetting
  the flag or after the pipe or the state is gone.
- `SessionsEndClean` rests on `SoleInv`: a process that runs is in
  the hands of the goroutine (`HeldInv`), a pipe is closed only after its process exited
  (`ProcsInv`: the error return that neither waits nor kills, `manager.go:802`, is harmless
  for this reason), a reader works only while the goroutine waits for it (`ReadersInv`),
  and no stop is requested (`SessionInv`), so every return of the goroutine is one that
  sets the state. For the same reason a prompt is never open when no process is registered.
- `ManualPromptsAreServed` keeps an account of a login by hand (`Served`): the tokens that
  were written, counted or not, and the prompt openconnect waits for are together the
  prompts noted, the prompts still in the pipe and the tokens still in the pipe. When fewer
  tokens than prompts were counted, the user is asked or somebody is writing; who is asked
  or writes does so for the last line that was printed. The account needs that tokens come
  one by one and prompts on one pipe (`MaxTokens <= 1`, `Streams = {t}`; it is false
  otherwise, see above), that nothing is on its way from an earlier process, and, to count
  the tokens not yet counted, that the callers are finitely many. It lasts from the start
  of the process to the end of its readers; after the exit nobody waits.

**VpnEvents.** `EventsInv` says that the emitted events are the delivered ones,
then the event in the dispatcher's hand, then the pending part of the queue
(`QueueInv`), and that the last emitted event carries the current state and phase
(`SnapshotInv`). From it follow `EventsTypeCorrect`, `DeliveryInOrder`,
`QueueStaysCompact`, `CaughtUpKnowsStatus`, and `QueueImplementsStream`: every step
of the queue is a step of the safety part of `EventStream` or a stutter.

**AccessStore.** `StoreInv` is about the middle of a save (`SaveInv`): there the
memory is the file with one record more, the change is a legal one, and the handler
still has the old record. Without it neither the rollback nor the rename can be
followed. From it follow `MemoryMatchesFile` and, step by step, `StoreIsDurable`: the
rename is `Commit`, the message is `Tell`, and everything else is a stutter or a
restart. `FileLoads` needs a second invariant, `HonestInv`: the times of every
record, in memory too since that is what the next save writes, are in order and not
ahead of the clock, until the clock is set back.

**ConfigStore.** `ConfigInv` says who holds the lock and what the file is at each step of a
`Save` (`WriterInv`), and that a whole file is the one saved last (`FileInv`), which
`Load` needs. `SoundInv` extends `AutoNeedsSecret` to the copies of the requests.
From them follow `SavedProfileIsUsed` and `ReconnectHasSecret`.

**OAuthStates.** `UseInv` says that a state is known, or with one callback, or used
up; `KnownInv` that only stale states are purged. They give `StatesAreGoodOnce`.

**Backend.** `BackendIsItsParts`: every step of the process, `Crash` and `Restart`
included, is a step or a stutter of each part. So what is proved of a part alone
holds inside the process, and `BackendIsSafe` states all of it together, the
refinement of `DurableStore` included.

`BackendTypes` adds the types of the whole, and that the parts go down and come up
together.

**LogStreams.** `StreamInv` says who may hold which stream: the map has running streams
only (`MapInv`), a handler or a completer that took one out of the map is alone with it
(`HandlerInv`, `CompleterInv`), a stream goroutine leaves only after it was cancelled
(`RunInv`), and a message is final only when its stream is stopped (`ChatInv`). Types need
`RoomInv`: there is an id for each stream a command has asked for. From them follow
`LogStreamsTypes`, `NoStreamIsLost`, `RevokedUserHasNoMessage` (with `RevokedInv`: after
the handler looked, a revoked user has no stream) and the action property `LastPageIsFinal`.

**EventMessages.** `MessageInv` puts together the queue (`QueueInv`), Flush (`FlushInv`),
the lock (`LockInv`), the stream of each recipient (`StreamInv`) and the timers (`TimerInv`:
a timer that fired and is not the one of the last event has an older generation).
`ChatIsInOrder` follows from the order within a stream and between the streams of one
recipient (`OrderInv`), `FlushIsComplete` from `OwnerInv` (the owner has every event up to
the one in hand) and `LiveInv` (without failures a live message has its stream in the map),
`OnlyQuietStreamsEnd` from `TimerInv`. Types need a counting argument: two streams of one
recipient end in different events, so the pairs of recipient and last event are an
injection of the streams, and there is an id left for the next (`RoomForStruct`).

**BotCommands.** `PendingInv` says that a pending prompt was sent to its user and not used,
`HandInv` that the handler which claimed one is the only one that has it, whatever expires
or is revoked while it calls Telegram; `RepliesReachOnce` is their consequence. `TrackInv`
says who is still to end a tracked connect: the attempt, the handler, an event in the queue
or the dispatcher. `TrackedConnectGoesOn` is what remains of it when the queue is empty and
no handler runs.

**Only model-checked.** The liveness properties (`DisconnectReturns`, `CapturedExits`,
`StopEndsLoop`, `HandlerReturns`, `CatchesUp`, `ShutdownCleans`, `MessagesEnd`,
`FlushReturns`) and the fair part of `ImplementsStream`: liveness under fairness is out of
the prover's reach. The four violated properties are false and have no theorem.

## 5. Not modelled

- HMAC, base32 and code formatting of `totp.go`; the predicates that classify an
  output line (`isOTPPromptLine` and others), which are taken as given by the kind
  of the line; sanitising, wording, Telegram markup.
- Certificates, argument building and interface detection of the manager: they
  delay an action and may make it fail, which the model allows.
- HTTP decoding and status codes, the certificate file, the session cookie and the
  middleware, the frontend, the container. They keep no state that the models share.
- `UpdateVPN` of the configuration, which only tests call.
- Lost updates: of two overlapping changes of the configuration the later one wins,
  as in the code; nothing promises more.
- Power loss: a killed process loses its memory, the file system keeps what was
  written. `saveLocked` does not sync the directory after the rename, and `Save` does
  not sync at all.
- `format.go`, the menu, `/status` and `/help`: wording and queries. Names and chat
  ids in the access records, which are copied and compared with the user id only.
- Live drafts of the log streams: nothing turns them on.

## 6. Plan

Done, in this order: `VpnManager` with its runs and `VpnManagerProofs`; `EventStream`,
`VpnEvents`, `VpnEventsProofs`; `LogStreams`; `EventMessages`; `DurableStore`,
`AccessStore`, `ConfigStore`, `OAuthStates`, `Backend`; `BotCommands`; the proofs of the
access store, the configuration, the sign-in and the process; `LogStreamsProofs`,
`EventMessagesProofs`, `BotCommandsProofs`, `VpnSessionProofs`.

Next:

1. A composition of `VpnEvents` and `EventMessages` with the shutdown of `main.go`:
   which events of the last Disconnect are still reported (hazard at `service.go:144`).
2. `InFlightHasGenerator` for any number of goroutines, or a precise statement of when
   it fails; the session theorems with a Disconnect that finds a process.
3. An abstract specification of a login (asked, answered, open) that `VpnManager`
   implements in a session, from the account of `ManualPromptsAreServed`.
