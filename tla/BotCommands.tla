----------------------------- MODULE BotCommands -----------------------------
(***************************************************************************)
(* The commands of the Telegram bot that drive the VPN, telegram/service.go, *)
(* against the VPN manager and the order of its events: the pending OTP    *)
(* prompts, the actions that logStreams tracks, the revocation of a user,  *)
(* and notify, which runs on the manager's dispatcher.                     *)
(*                                                                         *)
(* A handler holds Service.authorizationMu through its calls to Telegram   *)
(* and to the manager, so there is one; hand is its place.  Service.mu and *)
(* logStreams.mu are held within one action.  The manager is what its      *)
(* callers see (VpnManager has its goroutines): a state, awaitingOTP, the  *)
(* loops of Connect and the queue of events with their snapshots.  The Web *)
(* UI calls it too.                                                        *)
(***************************************************************************)
EXTENDS Integers, Sequences

CONSTANTS
    Users,        \* the owner and the users who may be approved
    Owner,
    MaxPrompts,   \* bound: prompts sent
    MaxAttempts,  \* bound: calls of Connect that are accepted
    MaxCommands,  \* bound: commands, revocations and requests of the Web UI
    MaxBacklog    \* bound: events that wait to be delivered

ASSUME CommandsAssumption ==
    /\ Owner \in Users
    /\ MaxPrompts \in Nat /\ MaxAttempts \in Nat /\ MaxCommands \in Nat /\ MaxBacklog \in Nat

VARIABLES
    approved,  \* users the access store approves, and the owner
    stopping,  \* Service.stopping and logStreams.stopping
    pending,   \* Service.pending: the prompt of a user, or 0
    prompt,    \* the prompts sent so far
    expired,   \* prompts older than 120 seconds
    hand,      \* the handler that holds authorizationMu
    actions,   \* logStreams.actions
    notice,    \* notify, on the manager's dispatcher
    profile,   \* the stored configuration
    vpn,       \* Manager: state, awaitingOTP, stopRequested
    loop,      \* the goroutines of Connect and their processes
    queue,     \* events that are not delivered yet
    web,       \* a Disconnect of the Web UI waits for the process
    issued,    \* commands, revocations and requests so far
    spent,     \* history: prompts that led to a call, or whose user was revoked
    quiet      \* history: a loop ended without a word since the last connect

botVars == <<approved, stopping, pending, prompt, expired, hand, actions>>
vpnVars == <<vpn, loop, queue, web, quiet>>
vars == <<botVars, notice, profile, vpnVars, spent, issued>>

Prompts  == 1..MaxPrompts
Attempts == 1..MaxAttempts
States   == {"disconnected", "connecting", "connected", "disconnecting", "error"}

Event    == [kind: {"state"}, name: States, awaiting: BOOLEAN] \cup
            [kind: {"connect"}, name: {"rejected", "failed"}, awaiting: BOOLEAN] \cup
            [kind: {"other"}, name: {""}, awaiting: BOOLEAN]
NoEvent  == [kind |-> "other", name |-> "", awaiting |-> FALSE]
NoPrompt == [user |-> Owner, kind |-> "none"]
Idle     == [pc |-> "idle", user |-> Owner, kind |-> "none", prompt |-> 0, late |-> FALSE]

TypeOK ==
    /\ approved \in SUBSET Users /\ Owner \in approved /\ stopping \in BOOLEAN
    /\ pending \in [Users -> Prompts \cup {0}]
    /\ prompt \in [Prompts -> [user: Users, kind: {"none", "initial", "followup"}]]
    /\ expired \in SUBSET Prompts
    /\ hand \in [pc: {"idle", "ask", "delete", "connect", "submit", "failed", "disconnect",
                      "stopping", "disconnected", "forget"},
                 user: Users, kind: {"none", "initial", "followup"},
                 prompt: Prompts \cup {0}, late: BOOLEAN]
    /\ actions \in SUBSET {"connect", "disconnect"}
    /\ notice \in [pc: {"idle", "actions", "complete"}, event: Event]
    /\ vpn \in [state: States, awaiting: BOOLEAN, stop: BOOLEAN]
    /\ loop \in [Attempts -> {"none", "login", "tunnel", "retry", "schedule", "wait", "failed", "ended"}]
    /\ queue \in Seq(Event) /\ Len(queue) <= MaxBacklog
    /\ web \in BOOLEAN /\ quiet \in BOOLEAN /\ issued \in 0..MaxCommands
    /\ spent \in SUBSET Prompts

Init ==
    /\ approved = Users /\ stopping = FALSE
    /\ pending = [u \in Users |-> 0]
    /\ prompt = [p \in Prompts |-> NoPrompt] /\ expired = {}
    /\ hand = Idle /\ actions = {}
    /\ notice = [pc |-> "idle", event |-> NoEvent]
    /\ profile \in {p \in [complete: BOOLEAN, secret: BOOLEAN, auto: BOOLEAN]: p.auto => p.secret}
    /\ vpn = [state |-> "disconnected", awaiting |-> FALSE, stop |-> FALSE]
    /\ loop = [a \in Attempts |-> "none"]
    /\ queue = <<>> /\ web = FALSE /\ quiet = FALSE /\ issued = 0
    /\ spent = {}

-----------------------------------------------------------------------------
(* The VPN manager, as its callers and listeners see it.                   *)

\* The manager gets the given status and emits the events of a region, those that
\* only show the same status once ("accepted" before a new state, a phase after it).
Enter(status, events) ==
    /\ vpn' = status
    /\ queue' = queue \o [i \in DOMAIN events |->
                   [kind |-> events[i][1], name |-> events[i][2], awaiting |-> status.awaiting]]
    /\ Len(queue') <= MaxBacklog

StateEvent(s) == <<"state", s>>
OtherEvent    == <<"other", "">>
Stay(events)  == Enter(vpn, events)

\* setStateLocked, when nothing but the state changes.
Goto(s) ==
    Enter([vpn EXCEPT !.state = s, !.awaiting = @ /\ s \notin {"disconnected", "error"}],
          IF vpn.state = s THEN <<>> ELSE <<StateEvent(s)>>)

\* control.VPN.Connect and Connect: accepted, refused with an event, or refused
\* before the manager hears of it.
Accepts == profile.complete /\ vpn.state \notin {"connecting", "connected"}

Connect ==
    \/ /\ Accepts
       /\ \E a \in Attempts:
            /\ loop[a] = "none" /\ \A b \in Attempts: loop[b] = "none" => a <= b
            /\ loop' = [loop EXCEPT ![a] = "login"]
       /\ Enter([vpn EXCEPT !.state = "connecting", !.stop = FALSE],
                <<StateEvent("connecting")>>)
    \/ /\ profile.complete /\ ~Accepts
       /\ Stay(<<<<"connect", "rejected">>>>) /\ UNCHANGED loop
    \/ ~profile.complete /\ UNCHANGED <<vpn, queue, loop>>

\* SubmitOTP: accepted, and the write may still fail.
Takes == vpn.state = "connecting" /\ vpn.awaiting
SubmitOTP == IF Takes THEN Enter([vpn EXCEPT !.awaiting = FALSE], <<OtherEvent>>)
             ELSE Stay(<<OtherEvent>>)

\* Disconnect up to the wait for the process, and after it.
IsDown == vpn.state \in {"disconnected", "disconnecting"}
Disconnect ==
    IF IsDown THEN Enter([vpn EXCEPT !.stop = TRUE], <<OtherEvent>>)
    ELSE Enter([vpn EXCEPT !.stop = TRUE, !.state = "disconnecting"],
               <<StateEvent("disconnecting")>>)
Disconnected == Goto("disconnected")

\* An OTP prompt of openconnect that a user has to answer (noteOTPPrompt).
OtpPrompt(a) ==
    /\ loop[a] = "login" /\ ~vpn.awaiting
    /\ Enter([vpn EXCEPT !.awaiting = TRUE], <<OtherEvent>>)
    /\ UNCHANGED <<loop, web, quiet>>

\* The prompt is withdrawn (noteCredentialPrompt, markParseError).
OtherPrompt(a) ==
    /\ loop[a] = "login" /\ vpn.awaiting
    /\ Enter([vpn EXCEPT !.awaiting = FALSE], <<OtherEvent>>)
    /\ UNCHANGED <<loop, web, quiet>>

\* markConnected: connectedAt is later than the start of every process.
Established(a) ==
    /\ loop[a] \in {"login", "tunnel"}
    /\ Enter([vpn EXCEPT !.state = "connected", !.awaiting = FALSE],
             IF vpn.state = "connected" THEN <<>> ELSE <<StateEvent("connected")>>)
    /\ loop' = [b \in Attempts |-> IF loop[b] = "login" THEN "tunnel" ELSE loop[b]]
    /\ UNCHANGED <<web, quiet>>

\* A line with "bye": the process lives on.
Bye(a) ==
    /\ loop[a] \in {"login", "tunnel"} /\ vpn.state # "disconnecting"
    /\ Goto("disconnected")
    /\ UNCHANGED <<loop, web, quiet>>

Stopped == vpn.stop \/ vpn.state = "disconnecting"

\* The process exits: after a stop and, before the tunnel is up, with status 0
\* the loop ends without an error (classifyOpenConnectExit).
ExitQuietly(a) ==
    /\ loop[a] = "login" \/ (loop[a] = "tunnel" /\ Stopped)
    /\ IF Stopped THEN Enter([vpn EXCEPT !.awaiting = FALSE], <<>>) ELSE Goto("disconnected")
    /\ loop' = [loop EXCEPT ![a] = "ended"] /\ quiet' = TRUE
    /\ UNCHANGED web

\* An error before the tunnel, of the preparation too, or a tunnel that went down.
ExitFails(a) ==
    /\ \/ loop[a] = "login" /\ Enter([vpn EXCEPT !.awaiting = FALSE], <<>>)
       \/ loop[a] = "tunnel" /\ ~Stopped /\ Goto("disconnected")
    /\ loop' = [loop EXCEPT ![a] = IF profile.auto /\ @ = "tunnel" THEN "retry" ELSE "failed"]
    /\ UNCHANGED <<web, quiet>>

\* The end of the goroutine of Connect: the error of the loop is reported.
Report(a) ==
    /\ loop[a] = "failed"
    /\ loop' = [loop EXCEPT ![a] = "ended"]
    /\ \E new \in {TRUE, vpn.state # "error"}:   \* another message is a change too
         Enter([vpn EXCEPT !.state = "error", !.awaiting = FALSE],
               <<<<"connect", "failed">>>> \o IF new THEN <<StateEvent("error")>> ELSE <<>>)
    /\ UNCHANGED <<web, quiet>>

\* The reconnect loop: it looks for a stop, shows the state connecting while it
\* waits, and looks again.
GiveUp(a) == vpn.stop /\ loop' = [loop EXCEPT ![a] = "ended"] /\ quiet' = TRUE /\ Stay(<<OtherEvent>>)

Reconnect(a) ==
    /\ \/ loop[a] \in {"retry", "wait"} /\ GiveUp(a)
       \/ /\ loop[a] = "retry" /\ ~vpn.stop /\ loop' = [loop EXCEPT ![a] = "schedule"]
          /\ UNCHANGED <<vpn, queue, quiet>>
       \/ /\ loop[a] = "schedule" /\ Goto("connecting") /\ loop' = [loop EXCEPT ![a] = "wait"]
          /\ UNCHANGED quiet
       \/ /\ loop[a] = "wait" /\ ~vpn.stop /\ loop' = [loop EXCEPT ![a] = "login"]
          /\ Stay(<<OtherEvent>>) /\ UNCHANGED quiet
    /\ UNCHANGED web

ManagerStep(a) == \/ OtpPrompt(a) \/ OtherPrompt(a) \/ Established(a) \/ Bye(a)
                  \/ ExitQuietly(a) \/ ExitFails(a) \/ Report(a) \/ Reconnect(a)

\* The Web UI: handleConnect, handleVPNOTP and handleDisconnect.
WebConnect       == Connect /\ UNCHANGED <<web, quiet>>
WebSubmit        == SubmitOTP /\ UNCHANGED <<loop, web, quiet>>
WebDisconnect    == ~web /\ Disconnect /\ web' = ~IsDown /\ UNCHANGED <<loop, quiet>>
WebDisconnected  == web /\ Disconnected /\ web' = FALSE /\ UNCHANGED <<loop, quiet>>

-----------------------------------------------------------------------------
(* The handlers.                                                           *)

Allowed(u) == ~stopping /\ u \in approved
HandGoes(pc) == hand' = [hand EXCEPT !.pc = pc]
Begin(u, pc) == hand' = [Idle EXCEPT !.pc = pc, !.user = u]

\* logStreams.start with an action.
Track(action) ==
    /\ actions' = IF stopping THEN actions ELSE actions \cup {action}
    /\ quiet' = (quiet /\ action # "connect")

Untrack(action) == actions' = actions \ {action}

\* /connect and the button (connectLocked): without a saved secret ask first.
ConnectCommand(u) ==
    /\ hand.pc = "idle" /\ Allowed(u)
    /\ IF profile.secret
       THEN Begin(u, "connect") /\ Track("connect")
       ELSE /\ hand' = [Idle EXCEPT !.pc = "ask", !.user = u, !.kind = "initial"]
            /\ UNCHANGED <<actions, quiet>>
    /\ UNCHANGED <<approved, stopping, pending, prompt, expired, vpn, loop, queue, web, spent>>

\* "Enter OTP" (otpPromptLocked), when the manager waits for one.
OtpCommand(u) ==
    /\ hand.pc = "idle" /\ Allowed(u) /\ vpn.awaiting
    /\ hand' = [Idle EXCEPT !.pc = "ask", !.user = u, !.kind = "followup"]
    /\ UNCHANGED <<approved, stopping, pending, prompt, expired, actions, vpnVars, spent>>

\* The prompt is sent and replaces the user's last one, or the call fails.
AskReturns ==
    /\ hand.pc = "ask"
    /\ \/ \E p \in Prompts:
            /\ prompt[p].kind = "none" /\ \A q \in Prompts: prompt[q].kind = "none" => p <= q
            /\ prompt' = [prompt EXCEPT ![p] = [user |-> hand.user, kind |-> hand.kind]]
            /\ pending' = [pending EXCEPT ![hand.user] = p]
       \/ UNCHANGED <<prompt, pending>>
    /\ hand' = Idle
    /\ UNCHANGED <<approved, stopping, expired, actions, vpnVars, spent>>

\* text: a reply to the user's prompt claims it.
Reply(u, p) ==
    /\ hand.pc = "idle" /\ Allowed(u)
    /\ pending[u] = p /\ p # 0
    /\ pending' = [pending EXCEPT ![u] = 0]
    /\ hand' = [pc |-> "delete", user |-> u, kind |-> prompt[p].kind, prompt |-> p,
                late |-> p \in expired]
    /\ UNCHANGED <<approved, stopping, prompt, expired, actions, vpnVars, spent>>

\* The messages are deleted, and only then the age of the prompt is looked at.
DeleteReturns ==
    /\ hand.pc = "delete"
    /\ CASE hand.prompt \in expired -> hand' = Idle /\ UNCHANGED <<actions, quiet>>
         [] hand.prompt \notin expired /\ hand.kind = "followup" ->
              HandGoes("submit") /\ UNCHANGED <<actions, quiet>>
         [] hand.prompt \notin expired /\ hand.kind = "initial" ->
              HandGoes("connect") /\ Track("connect")
    /\ UNCHANGED <<approved, stopping, pending, prompt, expired, vpn, loop, queue, web, spent>>

Spend == spent' = spent \cup ({hand.prompt} \ {0})

\* Mutant: the error of Connect is dropped.
ConnectIgnoresError == hand' = Idle
AfterConnect == hand' = IF Accepts THEN Idle ELSE [hand EXCEPT !.pc = "failed"]

CallConnect ==
    /\ hand.pc = "connect"
    /\ Connect /\ AfterConnect /\ Spend
    /\ UNCHANGED <<approved, stopping, pending, prompt, expired, actions, web, quiet>>

CallSubmit ==
    /\ hand.pc = "submit"
    /\ SubmitOTP /\ Spend
    /\ \/ Takes /\ hand' = Idle
       \/ HandGoes("failed")
    /\ UNCHANGED <<approved, stopping, pending, prompt, expired, actions, loop, web, quiet>>

\* completeAction("connect", false), or the message that the code was refused.
ConnectFailed ==
    /\ hand.pc = "failed"
    /\ hand' = Idle /\ Untrack("connect")
    /\ UNCHANGED <<approved, stopping, pending, prompt, expired, vpnVars, spent>>

\* /disconnect and the button (disconnectLocked).
DisconnectCommand(u) ==
    /\ hand.pc = "idle" /\ Allowed(u)
    /\ Begin(u, "disconnect") /\ Track("disconnect")
    /\ UNCHANGED <<approved, stopping, pending, prompt, expired, vpn, loop, queue, web, spent>>

CallDisconnect ==
    /\ hand.pc = "disconnect"
    /\ HandGoes(IF IsDown THEN "disconnected" ELSE "stopping") /\ Disconnect
    /\ UNCHANGED <<approved, stopping, pending, prompt, expired, actions, loop, web, quiet, spent>>

DisconnectReturns ==
    /\ hand.pc = "stopping"
    /\ HandGoes("disconnected") /\ Disconnected
    /\ UNCHANGED <<approved, stopping, pending, prompt, expired, actions, loop, web, quiet, spent>>

DisconnectDone ==
    /\ hand.pc = "disconnected"
    /\ hand' = Idle /\ Untrack("disconnect")
    /\ UNCHANGED <<approved, stopping, pending, prompt, expired, vpnVars, spent>>

\* accessCallback, once the decision is saved.
Approve(u) ==
    /\ hand.pc = "idle" /\ ~stopping /\ u \notin approved
    /\ approved' = approved \cup {u}
    /\ UNCHANGED <<stopping, pending, prompt, expired, hand, actions, vpnVars, spent>>

\* Mutant: the owner's own number is accepted.
RevocableAll == approved
Revocable == approved \ {Owner}

Revoke(u) ==
    /\ hand.pc = "idle" /\ ~stopping /\ u \in Revocable
    /\ approved' = approved \ {u}
    /\ Begin(u, "forget")
    /\ spent' = spent \cup {p \in Prompts: prompt[p].kind # "none" /\ prompt[p].user = u}
    /\ UNCHANGED <<stopping, pending, prompt, expired, actions, vpnVars>>

\* Mutant: the prompt of a revoked user stays.
ForgetNothing == UNCHANGED pending
ForgetPrompt == pending' = [pending EXCEPT ![hand.user] = 0]

Forget ==
    /\ hand.pc = "forget"
    /\ ForgetPrompt /\ hand' = Idle
    /\ UNCHANGED <<approved, stopping, prompt, expired, actions, vpnVars, spent>>

Commands == \E u \in Users: \/ ConnectCommand(u) \/ OtpCommand(u) \/ DisconnectCommand(u)
                            \/ Revoke(u) \/ \E p \in Prompts: Reply(u, p)

HandlerStep == \/ AskReturns \/ DeleteReturns \/ CallConnect \/ CallSubmit \/ ConnectFailed
               \/ CallDisconnect \/ DisconnectReturns \/ DisconnectDone \/ Forget

\* Time passes, for the prompts that can still be answered.
Expire(p) ==
    /\ p \notin expired
    /\ p = hand.prompt \/ \E u \in Users: pending[u] = p
    /\ expired' = expired \cup {p}
    /\ UNCHANGED <<approved, stopping, pending, prompt, hand, actions, vpnVars, spent>>

\* BeginShutdown; a handler that runs goes on.
BeginShutdown ==
    /\ ~stopping
    /\ stopping' = TRUE /\ actions' = {}
    /\ UNCHANGED <<approved, pending, prompt, expired, hand, vpnVars, spent>>

-----------------------------------------------------------------------------
(* notify.                                                                 *)

\* Prompts that the event takes away.
Removes(e, p) ==
    \/ prompt[p].kind = "followup" /\ ~e.awaiting
    \/ prompt[p].kind = "initial" /\ e.kind = "state"

NotifyPrompts ==
    /\ notice.pc = "idle" /\ queue # <<>>
    /\ LET e == Head(queue)
       IN  /\ notice' = [pc |-> "actions", event |-> e]
           /\ pending' = [u \in Users |-> IF pending[u] # 0 /\ Removes(e, pending[u])
                                          THEN 0 ELSE pending[u]]
    /\ queue' = Tail(queue)
    /\ UNCHANGED <<approved, stopping, prompt, expired, hand, actions, vpn, loop, web, quiet, spent>>

\* terminalActionEvent, for connect; no event ends a disconnect.
Terminal(e) == \/ e.kind = "connect"
               \/ e.kind = "state" /\ e.name \in {"connected", "error"}

\* handleEvent reads the actions and completes afterwards those that have ended.
NotifyActions ==
    /\ notice.pc = "actions"
    /\ notice' = IF "connect" \in actions /\ Terminal(notice.event)
                 THEN [notice EXCEPT !.pc = "complete"] ELSE [pc |-> "idle", event |-> NoEvent]
    /\ UNCHANGED <<botVars, vpnVars, spent>>

NotifyComplete ==
    /\ notice.pc = "complete"
    /\ Untrack("connect")
    /\ notice' = [pc |-> "idle", event |-> NoEvent]
    /\ UNCHANGED <<approved, stopping, pending, prompt, expired, hand, vpnVars, spent>>

Notify == NotifyPrompts \/ NotifyActions \/ NotifyComplete

-----------------------------------------------------------------------------

WebCall == WebConnect \/ WebSubmit \/ WebDisconnect
Manager == WebDisconnected \/ \E a \in Attempts: ManagerStep(a)

Issue == issued < MaxCommands /\ issued' = issued + 1

Next == /\ UNCHANGED profile
        /\ \/ Issue /\ Commands /\ UNCHANGED notice
           \/ Issue /\ WebCall /\ UNCHANGED <<botVars, notice, spent>>
           \/ /\ UNCHANGED issued
              /\ \/ Notify
                 \/ Manager /\ UNCHANGED <<botVars, notice, spent>>
                 \/ (HandlerStep \/ \E u \in Users: Approve(u)) /\ UNCHANGED notice
                 \/ (BeginShutdown \/ \E p \in Prompts: Expire(p)) /\ UNCHANGED notice

Spec == Init /\ [][Next]_vars

-----------------------------------------------------------------------------
(* Properties.                                                             *)

\* "Expired, repeated, ... denied, or revoked replies do not invoke the
\* controller" (docs/telegram.md): a handler that is about to call for a prompt
\* does so for the first time, the prompt had not expired when the reply came, and
\* its user was not revoked in between, not even to be approved again.
RepliesAreWarranted ==
    hand.pc \in {"connect", "submit"} => ~hand.late /\ hand.prompt \notin spent

\* No handler and no notify is at work and every event is delivered.
Settled == hand.pc = "idle" /\ notice.pc = "idle" /\ queue = <<>>

InProgress == \E a \in Attempts: loop[a] \notin {"none", "ended"}

\* "The stream finalizes automatically ... when the action terminates"
\* (docs/telegram.md): a connect is tracked no longer than somebody connects.
TrackedIsActive == Settled /\ "connect" \in actions => InProgress

\* The same where it holds: unless a loop ended without an error since.
TrackedUnlessQuiet == Settled /\ "connect" \in actions => InProgress \/ quiet
=============================================================================
