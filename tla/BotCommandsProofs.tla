--------------------------- MODULE BotCommandsProofs ---------------------------
(***************************************************************************)
(* BotCommands for any number of users, prompts, attempts, commands and    *)
(* events that wait: its types, that no expired, repeated or revoked reply *)
(* reaches the manager, and that an action connect which is still tracked  *)
(* when everything is delivered has a connect that goes on, or one that    *)
(* ended without a word.                                                   *)
(***************************************************************************)
EXTENDS BotCommands, TLAPS

\* Prompts that were sent.
Sent == {p \in Prompts: prompt[p].kind # "none"}

\* The prompt that a user may answer is the user's own, and was never used; while
\* a user is revoked it is about to be forgotten.
PendingInv ==
    \A u \in Users: pending[u] # 0 =>
        /\ pending[u] \in Sent /\ prompt[pending[u]].user = u
        /\ pending[u] \notin spent \/ (hand.pc = "forget" /\ hand.user = u)

\* The handler that claimed a prompt is the only one that has it.
HandInv ==
    /\ hand.pc = "delete" => hand.prompt # 0 /\ hand.kind # "none"
    /\ hand.pc = "ask" => hand.kind # "none"
    /\ hand.late => hand.prompt \in expired
    /\ hand.pc \in {"delete", "connect", "submit"} /\ hand.prompt # 0 =>
         /\ hand.prompt \in Sent \ spent
         /\ \A u \in Users: pending[u] # hand.prompt
    /\ hand.pc \in {"connect", "submit"} => ~hand.late

\* An event that ends the action connect is on its way to logStreams.
Ending ==
    \/ \E i \in 1..Len(queue): Terminal(queue[i])
    \/ notice.pc = "actions" /\ Terminal(notice.event)
    \/ notice.pc = "complete"

\* Whoever is still to end a tracked connect.
TrackInv ==
    "connect" \in actions =>
        InProgress \/ quiet \/ hand.pc \in {"connect", "failed"} \/ Ending

CommandInv == spent \subseteq Sent /\ PendingInv /\ HandInv /\ TrackInv

Inv == TypeOK /\ CommandInv

-----------------------------------------------------------------------------
(* What the manager tells.                                                 *)

VpnType    == [state: States, awaiting: BOOLEAN, stop: BOOLEAN]
LoopType   == [Attempts -> {"none", "login", "tunnel", "retry", "schedule", "wait", "failed", "ended"}]
HandType   == [pc: {"idle", "ask", "delete", "connect", "submit", "failed", "disconnect",
                    "stopping", "disconnected", "forget"},
               user: Users, kind: {"none", "initial", "followup"},
               prompt: Prompts \cup {0}, late: BOOLEAN]
PromptType == [user: Users, kind: {"none", "initial", "followup"}]
NoticeType == [pc: {"idle", "actions", "complete"}, event: Event]

\* What the regions of the manager emit, as Enter takes it.
Tidings == {<<"state", s>>: s \in States}
             \cup {<<"connect", "rejected">>, <<"connect", "failed">>, OtherEvent}

LEMMA TidingIsEvent ==
  ASSUME NEW t \in Tidings, NEW b \in BOOLEAN
  PROVE  [kind |-> t[1], name |-> t[2], awaiting |-> b] \in Event
<1>1. CASE \E s \in States: t = <<"state", s>>
  <2>1. PICK s \in States: t = <<"state", s>> BY <1>1
  <2>2. t[1] = "state" /\ t[2] = s BY <2>1
  <2> QED BY <2>2 DEF Event
<1>2. CASE t = <<"connect", "rejected">>
  <2>1. t[1] = "connect" /\ t[2] = "rejected" BY <1>2
  <2> QED BY <2>1 DEF Event
<1>3. CASE t = <<"connect", "failed">>
  <2>1. t[1] = "connect" /\ t[2] = "failed" BY <1>3
  <2> QED BY <2>1 DEF Event
<1>4. CASE t = OtherEvent
  <2>1. t[1] = "other" /\ t[2] = "" BY <1>4 DEF OtherEvent
  <2> QED BY <2>1 DEF Event
<1> QED BY <1>1, <1>2, <1>3, <1>4 DEF Tidings

\* The queue only grows.
Told ==
    /\ vpn' \in VpnType /\ queue' \in Seq(Event) /\ Len(queue') <= MaxBacklog
    /\ Len(queue) <= Len(queue') /\ \A i \in 1..Len(queue): queue'[i] = queue[i]

LEMMA Concatenation ==
  ASSUME NEW q \in Seq(Event), NEW r \in Seq(Event)
  PROVE  /\ q \o r \in Seq(Event) /\ Len(q \o r) = Len(q) + Len(r) /\ Len(q) \in Nat
         /\ \A i \in 1..Len(q): (q \o r)[i] = q[i]
         /\ \A i \in 1..Len(r): (q \o r)[Len(q) + i] = r[i]
OBVIOUS

LEMMA EnterTells ==
  ASSUME TypeOK, NEW status \in VpnType, NEW events \in Seq(Tidings), Enter(status, events)
  PROVE  /\ Told /\ vpn' = status
         /\ \A i \in 1..Len(events):
              /\ Len(queue) + i \in 1..Len(queue')
              /\ queue'[Len(queue) + i].kind = events[i][1]
              /\ queue'[Len(queue) + i].name = events[i][2]
<1> DEFINE event(i) == [kind |-> events[i][1], name |-> events[i][2], awaiting |-> status.awaiting]
           new == [i \in 1..Len(events) |-> event(i)]
<1>1. queue \in Seq(Event) /\ status.awaiting \in BOOLEAN BY DEF TypeOK, VpnType
<1>2. DOMAIN events = 1..Len(events) /\ Len(events) \in Nat OBVIOUS
<1>3. \A i \in 1..Len(events): event(i) \in Event /\ event(i).kind = events[i][1]
                               /\ event(i).name = events[i][2]
  BY <1>1, TidingIsEvent
<1>4. queue' = queue \o new /\ vpn' = status /\ Len(queue') <= MaxBacklog BY <1>2 DEF Enter
<1> HIDE DEF event
<1>5. new \in Seq(Event) /\ Len(new) = Len(events) /\ \A i \in 1..Len(events): new[i] = event(i)
  BY <1>2, <1>3
<1> HIDE DEF new
<1>6. /\ queue' \in Seq(Event) /\ Len(queue') = Len(queue) + Len(events) /\ Len(queue) \in Nat
      /\ \A i \in 1..Len(queue): queue'[i] = queue[i]
      /\ \A i \in 1..Len(events): queue'[Len(queue) + i] = new[i]
  <2>1. /\ queue \o new \in Seq(Event) /\ Len(queue \o new) = Len(queue) + Len(new)
        /\ Len(queue) \in Nat
        /\ \A i \in 1..Len(queue): (queue \o new)[i] = queue[i]
        /\ \A i \in 1..Len(new): (queue \o new)[Len(queue) + i] = new[i]
    BY <1>1, <1>5, Concatenation
  <2> QED BY <1>4, <1>5, <2>1
<1>7. Told BY <1>2, <1>4, <1>6 DEF Told
<1>8. ASSUME NEW i \in 1..Len(events)
      PROVE  /\ Len(queue) + i \in 1..Len(queue')
             /\ queue'[Len(queue) + i].kind = events[i][1]
             /\ queue'[Len(queue) + i].name = events[i][2]
  <2>1. Len(queue) + i \in 1..Len(queue') BY <1>2, <1>6
  <2> QED BY <1>3, <1>5, <1>6, <2>1
<1> QED BY <1>4, <1>7, <1>8

\* The lists of events that the regions of the manager emit.
LEMMA TidingLists ==
  /\ <<>> \in Seq(Tidings) /\ <<OtherEvent>> \in Seq(Tidings)
  /\ \A s \in States: <<StateEvent(s)>> \in Seq(Tidings)
  /\ <<<<"connect", "rejected">>>> \in Seq(Tidings)
  /\ \A new \in BOOLEAN:
       LET es == <<<<"connect", "failed">>>> \o IF new THEN <<StateEvent("error")>> ELSE <<>>
       IN  es \in Seq(Tidings) /\ Len(es) > 0 /\ es[1] = <<"connect", "failed">>
<1>1. /\ OtherEvent \in Tidings /\ <<"connect", "rejected">> \in Tidings
      /\ <<"connect", "failed">> \in Tidings /\ \A s \in States: StateEvent(s) \in Tidings
  BY DEF Tidings, StateEvent
<1>2. ASSUME NEW new \in BOOLEAN
      PROVE  LET es == <<<<"connect", "failed">>>> \o IF new THEN <<StateEvent("error")>> ELSE <<>>
             IN  es \in Seq(Tidings) /\ Len(es) > 0 /\ es[1] = <<"connect", "failed">>
  <2> DEFINE e == <<"connect", "failed">>
             s == StateEvent("error")
  <2>1. e \in Tidings /\ s \in Tidings BY <1>1 DEF States
  <2> HIDE DEF e, s
  <2>2. CASE new
    <3>1. <<e>> \o <<s>> \in Seq(Tidings) /\ Len(<<e>> \o <<s>>) > 0 /\ (<<e>> \o <<s>>)[1] = e
      BY <2>1
    <3> QED BY <2>2, <3>1 DEF e, s
  <2>3. CASE ~new
    <3>1. <<e>> \o <<>> \in Seq(Tidings) /\ Len(<<e>> \o <<>>) > 0 /\ (<<e>> \o <<>>)[1] = e
      BY <2>1
    <3> QED BY <2>3, <3>1 DEF e, s
  <2> QED BY <2>2, <2>3
<1> QED BY <1>1, <1>2

LEMMA GotoTells ==
  ASSUME TypeOK, NEW s \in States, Goto(s)
  PROVE  Told
<1> DEFINE b == vpn.awaiting /\ s \notin {"disconnected", "error"}
           status == [vpn EXCEPT !.state = s, !.awaiting = b]
           events == IF vpn.state = s THEN <<>> ELSE <<StateEvent(s)>>
<1>1. status \in VpnType
  <2>1. b \in BOOLEAN OBVIOUS
  <2> HIDE DEF b
  <2> QED BY <2>1 DEF TypeOK, VpnType
<1>2. events \in Seq(Tidings) BY TidingLists
<1>3. Enter(status, events) BY DEF Goto
<1> HIDE DEF status, events
<1> QED BY <1>1, <1>2, <1>3, EnterTells

\* An attempt that ends says so, or ends quietly.
Progress ==
    InProgress \/ quiet =>
        InProgress' \/ quiet' \/ \E i \in 1..Len(queue'): Terminal(queue'[i])

LEMMA AttemptGoes ==
  ASSUME quiet => quiet',
         \A b \in Attempts: loop[b] \notin {"none", "ended"} => loop'[b] \notin {"none", "ended"}
  PROVE  Progress
BY DEF Progress, InProgress

LEMMA StepOfManager ==
  ASSUME TypeOK, NEW a \in Attempts, ManagerStep(a)
  PROVE  /\ Told /\ loop' \in LoopType /\ web' = web /\ quiet' \in BOOLEAN
         /\ Progress
<1>0. vpn \in VpnType /\ loop \in LoopType /\ quiet \in BOOLEAN
  BY DEF TypeOK, VpnType, LoopType
<1>1. CASE OtpPrompt(a) \/ OtherPrompt(a)
  <2>1. PICK b \in BOOLEAN: Enter([vpn EXCEPT !.awaiting = b], <<OtherEvent>>)
    BY <1>1 DEF OtpPrompt, OtherPrompt
  <2>2. [vpn EXCEPT !.awaiting = b] \in VpnType BY <1>0 DEF VpnType
  <2>3. Told BY <2>1, <2>2, TidingLists, EnterTells
  <2> QED BY <1>0, <1>1, <2>3, AttemptGoes DEF OtpPrompt, OtherPrompt
<1>2. CASE Established(a)
  <2> DEFINE status == [vpn EXCEPT !.state = "connected", !.awaiting = FALSE]
             events == IF vpn.state = "connected" THEN <<>> ELSE <<StateEvent("connected")>>
  <2>1. status \in VpnType BY <1>0 DEF VpnType, States
  <2>2. events \in Seq(Tidings) BY TidingLists DEF States
  <2>3. Enter(status, events) BY <1>2 DEF Established
  <2> HIDE DEF status, events
  <2>4. Told BY <2>1, <2>2, <2>3, EnterTells
  <2>5. loop' = [b \in Attempts |-> IF loop[b] = "login" THEN "tunnel" ELSE loop[b]]
        /\ web' = web /\ quiet' = quiet
    BY <1>2 DEF Established
  <2>6. loop' \in LoopType BY <1>0, <2>5 DEF LoopType
  <2>7. Progress BY <2>5, AttemptGoes
  <2> QED BY <1>0, <2>4, <2>5, <2>6, <2>7
<1>3. CASE Bye(a)
  <2>1. Told BY <1>3, GotoTells DEF Bye, States
  <2> QED BY <1>0, <1>3, <2>1, AttemptGoes DEF Bye
<1>4. CASE ExitQuietly(a)
  <2>1. Told
    <3>1. CASE Stopped
      <4>1. [vpn EXCEPT !.awaiting = FALSE] \in VpnType BY <1>0 DEF VpnType
      <4>2. Enter([vpn EXCEPT !.awaiting = FALSE], <<>>) BY <1>4, <3>1 DEF ExitQuietly
      <4> QED BY <4>1, <4>2, TidingLists, EnterTells
    <3>2. CASE ~Stopped BY <1>4, <3>2, GotoTells DEF ExitQuietly, States
    <3> QED BY <3>1, <3>2
  <2> QED BY <1>0, <1>4, <2>1 DEF ExitQuietly, LoopType, Progress
<1>5. CASE ExitFails(a)
  <2>1. Told
    <3>1. CASE Enter([vpn EXCEPT !.awaiting = FALSE], <<>>)
      <4>1. [vpn EXCEPT !.awaiting = FALSE] \in VpnType BY <1>0 DEF VpnType
      <4> QED BY <3>1, <4>1, TidingLists, EnterTells
    <3>2. CASE Goto("disconnected") BY <3>2, GotoTells DEF States
    <3> QED BY <1>5, <3>1, <3>2 DEF ExitFails
  <2>2. PICK pc \in {"retry", "failed"}: loop' = [loop EXCEPT ![a] = pc]
    BY <1>5 DEF ExitFails
  <2>3. loop' \in LoopType BY <1>0, <2>2 DEF LoopType
  <2>4. web' = web /\ quiet' = quiet BY <1>5 DEF ExitFails
  <2>5. Progress BY <1>0, <2>2, <2>4, AttemptGoes DEF LoopType
  <2> QED BY <1>0, <2>1, <2>3, <2>4, <2>5
<1>6. CASE Report(a)
  <2> DEFINE status == [vpn EXCEPT !.state = "error", !.awaiting = FALSE]
             events(new) == <<<<"connect", "failed">>>> \o IF new THEN <<StateEvent("error")>> ELSE <<>>
  <2>1. PICK new \in BOOLEAN: Enter(status, events(new)) BY <1>6 DEF Report
  <2>2. status \in VpnType BY <1>0 DEF VpnType, States
  <2>3. PICK es \in Seq(Tidings): es = events(new) /\ Len(es) > 0 /\ es[1] = <<"connect", "failed">>
    BY TidingLists
  <2>4. Enter(status, es) BY <2>1, <2>3
  <2> HIDE DEF status, events
  <2>5. Told /\ Len(queue) + 1 \in 1..Len(queue') /\ queue'[Len(queue) + 1].kind = "connect"
    <3>1. 1 \in 1..Len(es) /\ es[1][1] = "connect" BY <2>3
    <3> QED BY <2>2, <2>4, <3>1, EnterTells
  <2>6. Progress BY <2>5 DEF Progress, Terminal
  <2> QED BY <1>0, <1>6, <2>5, <2>6 DEF Report, LoopType
<1>7. CASE Reconnect(a)
  <2>1. web' = web BY <1>7 DEF Reconnect
  <2>2. CASE GiveUp(a)
    <3>1. Told BY <1>0, <2>2, TidingLists, EnterTells DEF GiveUp, Stay
    <3> QED BY <1>0, <2>1, <2>2, <3>1 DEF GiveUp, LoopType, Progress
  <2>3. CASE /\ loop[a] = "retry" /\ loop' = [loop EXCEPT ![a] = "schedule"]
             /\ UNCHANGED <<vpn, queue, quiet>>
    <3>1. Told BY <1>0, <2>3 DEF Told, TypeOK
    <3>2. Progress BY <1>0, <2>3, AttemptGoes DEF LoopType
    <3> QED BY <1>0, <2>1, <2>3, <3>1, <3>2 DEF LoopType
  <2>4. CASE /\ loop[a] = "schedule" /\ Goto("connecting") /\ loop' = [loop EXCEPT ![a] = "wait"]
             /\ UNCHANGED quiet
    <3>1. Told BY <2>4, GotoTells DEF States
    <3>2. Progress BY <1>0, <2>4, AttemptGoes DEF LoopType
    <3> QED BY <1>0, <2>1, <2>4, <3>1, <3>2 DEF LoopType
  <2>5. CASE /\ loop[a] = "wait" /\ loop' = [loop EXCEPT ![a] = "login"]
             /\ Stay(<<OtherEvent>>) /\ UNCHANGED quiet
    <3>1. Told BY <1>0, <2>5, TidingLists, EnterTells DEF Stay
    <3>2. Progress BY <1>0, <2>5, AttemptGoes DEF LoopType
    <3> QED BY <1>0, <2>1, <2>5, <3>1, <3>2 DEF LoopType
  <2> QED BY <1>7, <2>2, <2>3, <2>4, <2>5 DEF Reconnect
<1> QED BY <1>1, <1>2, <1>3, <1>4, <1>5, <1>6, <1>7 DEF ManagerStep

\* The calls of the bot and of the Web UI.
LEMMA CallOfManager ==
  ASSUME TypeOK, quiet' = quiet
  PROVE  /\ Connect => Told /\ loop' \in LoopType /\ Progress /\ (Accepts => InProgress')
         /\ SubmitOTP /\ UNCHANGED loop => Told /\ Progress
         /\ Disconnect /\ UNCHANGED loop => Told /\ Progress
         /\ Disconnected /\ UNCHANGED loop => Told /\ Progress
<1>0. vpn \in VpnType /\ loop \in LoopType BY DEF TypeOK, VpnType, LoopType
<1>1. ASSUME Connect PROVE Told /\ loop' \in LoopType /\ Progress /\ (Accepts => InProgress')
  <2>1. CASE Accepts
    <3>1. PICK a \in Attempts: loop[a] = "none" /\ loop' = [loop EXCEPT ![a] = "login"]
      BY <1>1, <2>1 DEF Connect, Accepts
    <3> DEFINE status == [vpn EXCEPT !.state = "connecting", !.stop = FALSE]
    <3>2. Enter(status, <<StateEvent("connecting")>>) BY <1>1, <2>1 DEF Connect, Accepts
    <3>3. status \in VpnType BY <1>0 DEF VpnType, States
    <3>4. <<StateEvent("connecting")>> \in Seq(Tidings) BY TidingLists DEF States
    <3> HIDE DEF status
    <3>5. Told BY <3>2, <3>3, <3>4, EnterTells
    <3>6. loop' \in LoopType /\ loop'[a] = "login" BY <1>0, <3>1 DEF LoopType
    <3>7. InProgress' BY <3>6 DEF InProgress
    <3> QED BY <3>5, <3>6, <3>7 DEF Progress
  <2>2. CASE ~Accepts
    <3>1. UNCHANGED loop BY <1>1, <2>2 DEF Connect
    <3>2. Progress BY <3>1, AttemptGoes
    <3>3. Stay(<<<<"connect", "rejected">>>>) \/ UNCHANGED <<vpn, queue>>
      BY <1>1, <2>2 DEF Connect
    <3>4. CASE Stay(<<<<"connect", "rejected">>>>)
      <4>1. Told BY <1>0, <3>4, TidingLists, EnterTells DEF Stay
      <4> QED BY <1>0, <2>2, <3>1, <3>2, <4>1
    <3>5. CASE UNCHANGED <<vpn, queue>>
      <4>1. Told BY <1>0, <3>5 DEF Told, TypeOK
      <4> QED BY <1>0, <2>2, <3>1, <3>2, <4>1
    <3> QED BY <3>3, <3>4, <3>5
  <2> QED BY <2>1, <2>2
<1>2. ASSUME UNCHANGED loop PROVE Progress BY <1>2, AttemptGoes
<1>3. ASSUME SubmitOTP PROVE Told
  <2>1. CASE Takes
    <3>1. [vpn EXCEPT !.awaiting = FALSE] \in VpnType BY <1>0 DEF VpnType
    <3>2. Enter([vpn EXCEPT !.awaiting = FALSE], <<OtherEvent>>) BY <1>3, <2>1 DEF SubmitOTP
    <3> QED BY <3>1, <3>2, TidingLists, EnterTells
  <2>2. CASE ~Takes BY <1>0, <1>3, <2>2, TidingLists, EnterTells DEF SubmitOTP, Stay
  <2> QED BY <2>1, <2>2
<1>4. ASSUME Disconnect PROVE Told
  <2>1. CASE IsDown
    <3>1. [vpn EXCEPT !.stop = TRUE] \in VpnType BY <1>0 DEF VpnType
    <3>2. Enter([vpn EXCEPT !.stop = TRUE], <<OtherEvent>>) BY <1>4, <2>1 DEF Disconnect
    <3> QED BY <3>1, <3>2, TidingLists, EnterTells
  <2>2. CASE ~IsDown
    <3> DEFINE status == [vpn EXCEPT !.stop = TRUE, !.state = "disconnecting"]
    <3>1. status \in VpnType BY <1>0 DEF VpnType, States
    <3>2. Enter(status, <<StateEvent("disconnecting")>>) BY <1>4, <2>2 DEF Disconnect
    <3>3. <<StateEvent("disconnecting")>> \in Seq(Tidings) BY TidingLists DEF States
    <3> HIDE DEF status
    <3> QED BY <3>1, <3>2, <3>3, EnterTells
  <2> QED BY <2>1, <2>2
<1>5. ASSUME Disconnected PROVE Told BY <1>5, GotoTells DEF Disconnected, States
<1> QED BY <1>1, <1>2, <1>3, <1>4, <1>5

-----------------------------------------------------------------------------
(* The manager keeps the invariant.                                        *)

LEMMA EndingStays ==
  ASSUME TypeOK, Told, notice' = notice, Ending
  PROVE  Ending'
<1>1. CASE \E i \in 1..Len(queue): Terminal(queue[i])
  <2>1. PICK i \in 1..Len(queue): Terminal(queue[i]) BY <1>1
  <2>2. Len(queue) \in Nat /\ Len(queue') \in Nat BY DEF Told, TypeOK
  <2>3. i \in 1..Len(queue') /\ Terminal(queue'[i]) BY <2>1, <2>2 DEF Told
  <2> QED BY <2>3 DEF Ending
<1>2. CASE ~\E i \in 1..Len(queue): Terminal(queue[i])
  BY <1>2 DEF Ending
<1> QED BY <1>1, <1>2

\* What a step of the manager, or a call of it, does to the tracked action.
LEMMA TrackedGoesOn ==
  ASSUME Inv, Told, Progress, notice' = notice,
         "connect" \in actions, hand.pc \notin {"connect", "failed"}
  PROVE  InProgress' \/ quiet' \/ Ending'
<1>1. InProgress \/ quiet \/ Ending BY DEF Inv, CommandInv, TrackInv
<1>2. CASE Ending BY <1>2, EndingStays DEF Inv
<1>3. CASE InProgress \/ quiet BY <1>3 DEF Progress, Ending
<1> QED BY <1>1, <1>2, <1>3

LEMMA ManagerKeeps ==
  ASSUME Inv, Told, Progress, loop' \in LoopType, web' \in BOOLEAN, quiet' \in BOOLEAN,
         issued' \in 0..MaxCommands, UNCHANGED <<botVars, notice, spent>>
  PROVE  Inv'
<1>1. TypeOK' BY DEF Inv, TypeOK, Told, VpnType, LoopType, botVars
<1>2. (spent \subseteq Sent)' /\ PendingInv' /\ HandInv'
  BY DEF Inv, CommandInv, Sent, PendingInv, HandInv, botVars
<1>3. TrackInv' BY TrackedGoesOn DEF TrackInv, botVars
<1> QED BY <1>1, <1>2, <1>3 DEF Inv, CommandInv

LEMMA ManagerNext ==
  ASSUME Inv,
         \/ Issue /\ WebCall /\ UNCHANGED <<botVars, notice, spent>>
         \/ Manager /\ UNCHANGED <<botVars, notice, spent, issued>>
  PROVE  Inv'
<1>0. TypeOK /\ loop \in LoopType /\ web \in BOOLEAN /\ quiet \in BOOLEAN
  BY DEF Inv, TypeOK, LoopType
<1>1. CASE Issue /\ WebCall /\ UNCHANGED <<botVars, notice, spent>>
  <2>1. issued' \in 0..MaxCommands BY <1>0, <1>1, CommandsAssumption DEF Issue, TypeOK
  <2>2. CASE WebConnect
    BY <1>0, <1>1, <2>1, <2>2, CallOfManager, ManagerKeeps DEF WebConnect
  <2>3. CASE WebSubmit
    BY <1>0, <1>1, <2>1, <2>3, CallOfManager, ManagerKeeps DEF WebSubmit
  <2>4. CASE WebDisconnect
    <3>1. web' \in BOOLEAN BY <2>4 DEF WebDisconnect
    <3> QED BY <1>0, <1>1, <2>1, <2>4, <3>1, CallOfManager, ManagerKeeps DEF WebDisconnect
  <2> QED BY <1>1, <2>2, <2>3, <2>4 DEF WebCall
<1>2. CASE Manager /\ UNCHANGED <<botVars, notice, spent, issued>>
  <2>1. issued' \in 0..MaxCommands BY <1>0, <1>2 DEF TypeOK
  <2>2. CASE WebDisconnected
    BY <1>0, <1>2, <2>1, <2>2, CallOfManager, ManagerKeeps DEF WebDisconnected
  <2>3. ASSUME NEW a \in Attempts, ManagerStep(a) PROVE Inv'
    BY <1>0, <1>2, <2>1, <2>3, StepOfManager, ManagerKeeps
  <2> QED BY <1>2, <2>2, <2>3 DEF Manager
<1> QED BY <1>1, <1>2

-----------------------------------------------------------------------------
(* The handlers keep the invariant.                                        *)

HandPlaces == {"idle", "ask", "delete", "connect", "submit", "failed", "disconnect",
               "stopping", "disconnected", "forget"}

LEMMA HandBegins ==
  ASSUME NEW u \in Users, NEW pc \in HandPlaces
  PROVE  LET h == [Idle EXCEPT !.pc = pc, !.user = u]
         IN  /\ h \in HandType /\ h.pc = pc /\ h.user = u /\ h.prompt = 0 /\ h.late = FALSE
             /\ Idle \in HandType /\ Idle.pc = "idle" /\ Idle.prompt = 0 /\ Idle.late = FALSE
BY CommandsAssumption DEF Idle, HandType, HandPlaces

LEMMA HandAsks ==
  ASSUME NEW u \in Users, NEW kind \in {"initial", "followup"}
  PROVE  LET h == [Idle EXCEPT !.pc = "ask", !.user = u, !.kind = kind]
         IN  /\ h \in HandType /\ h.pc = "ask" /\ h.kind = kind /\ h.prompt = 0 /\ h.late = FALSE
BY CommandsAssumption DEF Idle, HandType

LEMMA HandMoves ==
  ASSUME TypeOK, NEW pc \in HandPlaces
  PROVE  LET h == [hand EXCEPT !.pc = pc]
         IN  /\ h \in HandType /\ h.pc = pc /\ h.user = hand.user /\ h.kind = hand.kind
             /\ h.prompt = hand.prompt /\ h.late = hand.late
BY DEF TypeOK, HandType, HandPlaces

\* A handler that works on no prompt.
NoClaim == hand'.prompt = 0 /\ hand'.late = FALSE /\ hand'.pc # "delete"

\* Steps that leave the prompts alone.
LEMMA PromptsStay ==
  ASSUME Inv, UNCHANGED <<pending, prompt, spent>>, expired \subseteq expired',
         hand.pc # "forget" \/ (hand'.pc = "forget" /\ hand'.user = hand.user),
         hand'.pc = "ask" => hand'.kind # "none",
         NoClaim \/ UNCHANGED hand
  PROVE  (spent \subseteq Sent)' /\ PendingInv' /\ HandInv'
<1>1. (spent \subseteq Sent)' BY DEF Inv, CommandInv, Sent
<1>2. PendingInv' BY DEF Inv, CommandInv, Sent, PendingInv
<1>3. HandInv' BY DEF Inv, CommandInv, Sent, HandInv, NoClaim
<1> QED BY <1>1, <1>2, <1>3

\* Nothing but the bot's own variables.
LEMMA TrackStays ==
  ASSUME Inv, UNCHANGED <<loop, queue, notice, quiet>>, hand'.pc \notin {"connect", "failed"},
         "connect" \in actions' => "connect" \in actions /\ hand.pc \notin {"connect", "failed"}
  PROVE  TrackInv'
<1>1. (InProgress' <=> InProgress) /\ (Ending' <=> Ending) BY DEF InProgress, Ending
<1> QED BY <1>1 DEF Inv, CommandInv, TrackInv

\* Who is asked for a code, and who begins to connect or disconnect.
LEMMA CommandKeeps ==
  ASSUME Inv, issued' \in 0..MaxCommands, notice' = notice, NEW u \in Users,
         ConnectCommand(u) \/ OtpCommand(u) \/ DisconnectCommand(u)
  PROVE  Inv'
<1>0. TypeOK /\ hand.pc = "idle" /\ ~stopping
  BY DEF Inv, ConnectCommand, OtpCommand, DisconnectCommand, Allowed
<1>1. UNCHANGED <<approved, stopping, pending, prompt, expired, vpn, loop, queue, web, spent>>
  BY DEF ConnectCommand, OtpCommand, DisconnectCommand, vpnVars
<1>2. /\ hand' \in HandType /\ NoClaim /\ hand'.pc # "forget" /\ hand'.pc # "failed"
      /\ hand'.pc = "ask" => hand'.kind # "none"
      /\ actions' \in SUBSET {"connect", "disconnect"} /\ quiet' \in BOOLEAN
      /\ hand'.pc # "connect" => /\ "connect" \in actions' => "connect" \in actions
                                 /\ quiet' = quiet
  <2>1. CASE ConnectCommand(u)
    <3>1. CASE profile.secret
      <4>1. Begin(u, "connect") /\ Track("connect") BY <2>1, <3>1 DEF ConnectCommand
      <4>2. hand' \in HandType /\ hand'.pc = "connect" /\ hand'.prompt = 0 /\ hand'.late = FALSE
        BY <4>1, HandBegins DEF Begin, HandPlaces
      <4> QED BY <1>0, <4>1, <4>2 DEF Track, NoClaim, TypeOK
    <3>2. CASE ~profile.secret
      <4>1. hand' = [Idle EXCEPT !.pc = "ask", !.user = u, !.kind = "initial"]
            /\ UNCHANGED <<actions, quiet>>
        BY <2>1, <3>2 DEF ConnectCommand
      <4>2. hand' \in HandType /\ hand'.pc = "ask" /\ hand'.kind = "initial" /\ hand'.prompt = 0
            /\ hand'.late = FALSE
        BY <4>1, HandAsks
      <4> QED BY <1>0, <4>1, <4>2 DEF NoClaim, TypeOK
    <3> QED BY <3>1, <3>2
  <2>2. CASE OtpCommand(u)
    <3>1. hand' = [Idle EXCEPT !.pc = "ask", !.user = u, !.kind = "followup"]
          /\ UNCHANGED <<actions, quiet>>
      BY <2>2 DEF OtpCommand, vpnVars
    <3>2. hand' \in HandType /\ hand'.pc = "ask" /\ hand'.kind = "followup" /\ hand'.prompt = 0
          /\ hand'.late = FALSE
      BY <3>1, HandAsks
    <3> QED BY <1>0, <3>1, <3>2 DEF NoClaim, TypeOK
  <2>3. CASE DisconnectCommand(u)
    <3>1. Begin(u, "disconnect") /\ Track("disconnect") BY <2>3 DEF DisconnectCommand
    <3>2. hand' \in HandType /\ hand'.pc = "disconnect" /\ hand'.prompt = 0 /\ hand'.late = FALSE
      BY <3>1, HandBegins DEF Begin, HandPlaces
    <3>3. quiet' = quiet BY <1>0, <3>1 DEF Track, TypeOK
    <3> QED BY <1>0, <3>1, <3>2, <3>3 DEF Track, NoClaim, TypeOK
  <2> QED BY <2>1, <2>2, <2>3
<1>3. TypeOK' BY <1>0, <1>1, <1>2 DEF TypeOK, HandType
<1>4. (spent \subseteq Sent)' /\ PendingInv' /\ HandInv' BY <1>0, <1>1, <1>2, PromptsStay
<1>5. TrackInv'
  <2>1. CASE hand'.pc = "connect" BY <2>1 DEF TrackInv
  <2>2. CASE hand'.pc # "connect" BY <1>0, <1>1, <1>2, <2>2, TrackStays
  <2> QED BY <2>1, <2>2
<1> QED BY <1>3, <1>4, <1>5 DEF Inv, CommandInv

\* A new prompt replaces the last one of its user.
LEMMA AskKeeps ==
  ASSUME Inv, UNCHANGED <<issued, notice>>, AskReturns
  PROVE  Inv'
<1>0. /\ TypeOK /\ hand.pc = "ask" /\ hand' = Idle /\ hand.user \in Users
      /\ UNCHANGED <<approved, stopping, expired, actions, vpn, loop, queue, web, quiet, spent>>
  BY DEF Inv, AskReturns, TypeOK, vpnVars
<1>1. hand' \in HandType /\ hand'.pc = "idle" /\ NoClaim
  BY <1>0, HandBegins DEF NoClaim, HandPlaces
<1>2. TrackInv' BY <1>0, <1>1, TrackStays
<1>3. CASE UNCHANGED <<prompt, pending>>
  <2>1. TypeOK' BY <1>0, <1>1, <1>3 DEF TypeOK, HandType
  <2>2. (spent \subseteq Sent)' /\ PendingInv' /\ HandInv' BY <1>0, <1>1, <1>3, PromptsStay
  <2> QED BY <1>2, <2>1, <2>2 DEF Inv, CommandInv
<1>4. ASSUME NEW p \in Prompts, prompt[p].kind = "none",
             prompt' = [prompt EXCEPT ![p] = [user |-> hand.user, kind |-> hand.kind]],
             pending' = [pending EXCEPT ![hand.user] = p]
      PROVE  Inv'
  <2>1. hand.kind \in {"initial", "followup"} BY <1>0 DEF Inv, CommandInv, HandInv, TypeOK
  <2>2. prompt \in [Prompts -> PromptType] /\ pending \in [Users -> Prompts \cup {0}]
    BY <1>0 DEF TypeOK, PromptType
  <2> DEFINE new == [user |-> hand.user, kind |-> hand.kind]
  <2>3. new \in PromptType /\ new.user = hand.user /\ new.kind # "none"
    BY <1>0, <2>1 DEF PromptType
  <2> HIDE DEF new
  <2>4. /\ prompt' \in [Prompts -> PromptType] /\ prompt'[p] = new
        /\ \A q \in Prompts \ {p}: prompt'[q] = prompt[q]
        /\ pending' \in [Users -> Prompts \cup {0}] /\ pending'[hand.user] = p
        /\ \A u \in Users \ {hand.user}: pending'[u] = pending[u]
    BY <1>0, <1>4, <2>2, <2>3 DEF new
  <2>5. TypeOK' BY <1>0, <1>1, <2>4 DEF TypeOK, HandType, PromptType
  <2>6. Sent' = Sent \cup {p} /\ p \notin Sent BY <1>4, <2>3, <2>4 DEF Sent
  <2>7. (spent \subseteq Sent)' BY <1>0, <2>6 DEF Inv, CommandInv
  <2>8. PendingInv'
    <3> SUFFICES ASSUME NEW u \in Users, pending'[u] # 0
                 PROVE  /\ pending'[u] \in Sent' /\ prompt'[pending'[u]].user = u
                        /\ pending'[u] \notin spent'
      BY DEF PendingInv
    <3>1. CASE u = hand.user
      <4>1. p \notin spent BY <2>6 DEF Inv, CommandInv
      <4> QED BY <1>0, <2>3, <2>4, <2>6, <3>1, <4>1
    <3>2. CASE u # hand.user
      <4>1. pending'[u] = pending[u] BY <2>4, <3>2
      <4>2. pending[u] \in Sent \ spent /\ prompt[pending[u]].user = u
        BY <1>0, <4>1 DEF Inv, CommandInv, PendingInv
      <4>3. prompt'[pending[u]] = prompt[pending[u]] BY <2>4, <2>6, <4>2 DEF Sent
      <4> QED BY <1>0, <2>6, <4>1, <4>2, <4>3
    <3> QED BY <3>1, <3>2
  <2>9. HandInv' BY <1>1 DEF HandInv, NoClaim
  <2> QED BY <1>2, <2>5, <2>7, <2>8, <2>9 DEF Inv, CommandInv
<1> QED BY <1>3, <1>4 DEF AskReturns

\* A reply claims the prompt, which no other user can answer.
LEMMA ReplyKeeps ==
  ASSUME Inv, issued' \in 0..MaxCommands, notice' = notice,
         NEW u \in Users, NEW p \in Prompts, Reply(u, p)
  PROVE  Inv'
<1> DEFINE h == [pc |-> "delete", user |-> u, kind |-> prompt[p].kind, prompt |-> p,
                 late |-> p \in expired]
<1>0. /\ TypeOK /\ hand.pc = "idle" /\ pending[u] = p /\ p # 0 /\ hand' = h
      /\ pending' = [pending EXCEPT ![u] = 0]
      /\ UNCHANGED <<approved, stopping, prompt, expired, actions, vpn, loop, queue, web, quiet, spent>>
  BY DEF Inv, Reply, vpnVars
<1>1. p \in Sent \ spent /\ prompt[p].user = u
  BY <1>0 DEF Inv, CommandInv, PendingInv
<1>2. /\ h \in HandType /\ h.pc = "delete" /\ h.prompt = p /\ h.kind # "none"
      /\ h.late => p \in expired
  <2>1. prompt[p].kind \in {"initial", "followup"} BY <1>0, <1>1 DEF TypeOK, Sent
  <2>2. h.pc = "delete" /\ h.prompt = p /\ h.kind = prompt[p].kind /\ (h.late <=> p \in expired)
    OBVIOUS
  <2>3. h \in HandType
    <3>1. (p \in expired) \in BOOLEAN OBVIOUS
    <3> QED BY <2>1, <3>1, ZenonT(30) DEF HandType
  <2> QED BY <2>1, <2>2, <2>3
<1> HIDE DEF h
<1>3. pending' \in [Users -> Prompts \cup {0}]
      /\ \A w \in Users: pending'[w] = IF w = u THEN 0 ELSE pending[w]
  BY <1>0 DEF TypeOK
<1>4. TypeOK' BY <1>0, <1>2, <1>3 DEF TypeOK, HandType
<1>5. (spent \subseteq Sent)' BY <1>0 DEF Inv, CommandInv, Sent
<1>6. PendingInv' BY <1>0, <1>3 DEF Inv, CommandInv, PendingInv, Sent
<1>7. HandInv'
  <2>1. \A w \in Users: pending'[w] # p
    BY <1>0, <1>1, <1>3 DEF Inv, CommandInv, PendingInv
  <2>2. Sent' = Sent BY <1>0 DEF Sent
  <2> QED BY <1>0, <1>1, <1>2, <2>1, <2>2 DEF HandInv
<1>8. TrackInv' BY <1>0, <1>2, TrackStays
<1> QED BY <1>4, <1>5, <1>6, <1>7, <1>8 DEF Inv, CommandInv

\* The claimed prompt goes on to the call, unless it is too old.
LEMMA DeleteKeeps ==
  ASSUME Inv, UNCHANGED <<issued, notice>>, DeleteReturns
  PROVE  Inv'
<1>0. /\ TypeOK /\ hand.pc = "delete" /\ hand.prompt \in Prompts
      /\ hand.kind \in {"initial", "followup"}
      /\ UNCHANGED <<approved, stopping, pending, prompt, expired, vpn, loop, queue, web, spent>>
  BY DEF Inv, CommandInv, HandInv, DeleteReturns, TypeOK
<1>1. CASE hand.prompt \in expired
  <2>1. hand' = Idle /\ UNCHANGED <<actions, quiet>>
    BY <1>0, <1>1 DEF DeleteReturns
  <2>2. hand' \in HandType /\ hand'.pc = "idle" /\ NoClaim
    BY <2>1, HandBegins, CommandsAssumption DEF NoClaim, HandPlaces
  <2>3. TypeOK' BY <1>0, <2>1, <2>2 DEF TypeOK, HandType
  <2>4. (spent \subseteq Sent)' /\ PendingInv' /\ HandInv' BY <1>0, <2>2, PromptsStay
  <2>5. TrackInv' BY <1>0, <2>1, <2>2, TrackStays
  <2> QED BY <2>3, <2>4, <2>5 DEF Inv, CommandInv
<1>2. CASE hand.prompt \notin expired
  <2>1. PICK pc \in {"connect", "submit"}:
          /\ hand' = [hand EXCEPT !.pc = pc]
          /\ pc = "submit" => UNCHANGED <<actions, quiet>>
          /\ pc = "connect" => Track("connect")
    BY <1>0, <1>2 DEF DeleteReturns, HandGoes
  <2>2. /\ hand' \in HandType /\ hand'.pc = pc /\ hand'.user = hand.user /\ hand'.kind = hand.kind
        /\ hand'.prompt = hand.prompt /\ hand'.late = hand.late
    BY <1>0, <2>1, HandMoves DEF HandPlaces
  <2>3. actions' \in SUBSET {"connect", "disconnect"} /\ quiet' \in BOOLEAN
    BY <1>0, <2>1 DEF TypeOK, Track
  <2>4. TypeOK' BY <1>0, <2>2, <2>3 DEF TypeOK, HandType
  <2>5. (spent \subseteq Sent)' /\ PendingInv' BY <1>0 DEF Inv, CommandInv, PendingInv, Sent
  <2>6. HandInv'
    <3>1. hand.late = FALSE BY <1>2, <1>0 DEF Inv, CommandInv, HandInv, TypeOK
    <3>2. hand.prompt # 0 BY <1>0 DEF Prompts
    <3>3. hand.prompt \in Sent \ spent /\ \A u \in Users: pending[u] # hand.prompt
      BY <1>0, <3>2 DEF Inv, CommandInv, HandInv
    <3>4. Sent' = Sent BY <1>0 DEF Sent
    <3> QED BY <1>0, <2>2, <3>1, <3>3, <3>4 DEF HandInv
  <2>7. TrackInv'
    <3>1. CASE pc = "connect" BY <2>2, <3>1 DEF TrackInv
    <3>2. CASE pc = "submit" BY <1>0, <2>1, <2>2, <3>2, TrackStays
    <3> QED BY <3>1, <3>2
  <2> QED BY <2>4, <2>5, <2>6, <2>7 DEF Inv, CommandInv
<1> QED BY <1>1, <1>2

\* The call uses the prompt up.
LEMMA SpendKeeps ==
  ASSUME Inv, UNCHANGED <<pending, prompt, expired>>, hand.pc \in {"connect", "submit"}, Spend,
         hand'.pc \notin {"ask", "delete", "connect", "submit", "forget"},
         hand'.late => hand.late
  PROVE  (spent \subseteq Sent)' /\ PendingInv' /\ HandInv'
<1>1. Sent' = Sent BY DEF Sent
<1>2. spent' = spent \cup ({hand.prompt} \ {0}) BY DEF Spend
<1>3. hand.prompt # 0 => hand.prompt \in Sent /\ \A u \in Users: pending[u] # hand.prompt
  BY DEF Inv, CommandInv, HandInv
<1>4. (spent \subseteq Sent)' BY <1>1, <1>2, <1>3 DEF Inv, CommandInv
<1>5. PendingInv' BY <1>1, <1>2, <1>3 DEF Inv, CommandInv, PendingInv
<1>6. HandInv' BY DEF Inv, CommandInv, HandInv
<1> QED BY <1>4, <1>5, <1>6

LEMMA CallConnectKeeps ==
  ASSUME Inv, UNCHANGED <<issued, notice>>, CallConnect
  PROVE  Inv'
<1>0. /\ TypeOK /\ hand.pc = "connect" /\ hand.late = FALSE /\ Connect /\ AfterConnect /\ Spend
      /\ UNCHANGED <<approved, stopping, pending, prompt, expired, actions, web, quiet>>
  BY DEF Inv, CommandInv, HandInv, CallConnect, TypeOK
<1>1. Told /\ loop' \in LoopType /\ Progress /\ (Accepts => InProgress') BY <1>0, CallOfManager
<1>2. /\ hand' \in HandType /\ hand'.pc \in {"idle", "failed"} /\ hand'.late = FALSE
      /\ hand'.pc = "idle" => Accepts
  <2>1. CASE Accepts
    BY <1>0, <2>1, HandBegins, CommandsAssumption DEF AfterConnect, HandPlaces
  <2>2. CASE ~Accepts
    BY <1>0, <2>2, HandMoves DEF AfterConnect, HandPlaces
  <2> QED BY <2>1, <2>2
<1>3. spent' \in SUBSET Prompts BY <1>0 DEF Spend, TypeOK
<1>4. TypeOK' BY <1>0, <1>1, <1>2, <1>3 DEF TypeOK, HandType, Told, VpnType, LoopType
<1>5. (spent \subseteq Sent)' /\ PendingInv' /\ HandInv' BY <1>0, <1>2, SpendKeeps
<1>6. TrackInv' BY <1>1, <1>2 DEF TrackInv
<1> QED BY <1>4, <1>5, <1>6 DEF Inv, CommandInv

LEMMA CallSubmitKeeps ==
  ASSUME Inv, UNCHANGED <<issued, notice>>, CallSubmit
  PROVE  Inv'
<1>0. /\ TypeOK /\ hand.pc = "submit" /\ hand.late = FALSE /\ SubmitOTP /\ Spend
      /\ hand' \in {Idle, [hand EXCEPT !.pc = "failed"]}
      /\ UNCHANGED <<approved, stopping, pending, prompt, expired, actions, loop, web, quiet>>
  BY DEF Inv, CommandInv, HandInv, CallSubmit, HandGoes, TypeOK
<1>1. Told /\ Progress BY <1>0, CallOfManager
<1>2. hand' \in HandType /\ hand'.pc \in {"idle", "failed"} /\ hand'.late = FALSE
  <2>1. CASE hand' = Idle BY <2>1, HandBegins, CommandsAssumption DEF HandPlaces
  <2>2. CASE hand' = [hand EXCEPT !.pc = "failed"]
    BY <1>0, <2>2, HandMoves DEF HandPlaces
  <2> QED BY <1>0, <2>1, <2>2
<1>3. spent' \in SUBSET Prompts BY <1>0 DEF Spend, TypeOK
<1>4. TypeOK' BY <1>0, <1>1, <1>2, <1>3 DEF TypeOK, HandType, Told, VpnType, LoopType
<1>5. (spent \subseteq Sent)' /\ PendingInv' /\ HandInv' BY <1>0, <1>2, SpendKeeps
<1>6. TrackInv' BY <1>0, <1>1, TrackedGoesOn DEF TrackInv
<1> QED BY <1>4, <1>5, <1>6 DEF Inv, CommandInv

LEMMA DisconnectKeeps ==
  ASSUME Inv, UNCHANGED <<issued, notice>>, CallDisconnect \/ DisconnectReturns
  PROVE  Inv'
<1>0. /\ TypeOK /\ hand.pc \in {"disconnect", "stopping"} /\ (Disconnect \/ Disconnected)
      /\ UNCHANGED <<approved, stopping, pending, prompt, expired, actions, loop, web, quiet, spent>>
  BY DEF Inv, CallDisconnect, DisconnectReturns
<1>1. Told /\ Progress BY <1>0, CallOfManager
<1>2. PICK pc \in {"disconnected", "stopping"}: hand' = [hand EXCEPT !.pc = pc]
  BY DEF CallDisconnect, DisconnectReturns, HandGoes
<1>3. /\ hand' \in HandType /\ hand'.pc = pc /\ hand'.user = hand.user /\ hand'.kind = hand.kind
      /\ hand'.prompt = hand.prompt /\ hand'.late = hand.late
  BY <1>0, <1>2, HandMoves DEF HandPlaces
<1>4. TypeOK' BY <1>0, <1>1, <1>3 DEF TypeOK, HandType, Told, VpnType
<1>5. (spent \subseteq Sent)' /\ PendingInv' BY <1>0 DEF Inv, CommandInv, PendingInv, Sent
<1>6. HandInv' BY <1>0, <1>3 DEF Inv, CommandInv, HandInv
<1>7. TrackInv' BY <1>0, <1>1, TrackedGoesOn DEF TrackInv
<1> QED BY <1>4, <1>5, <1>6, <1>7 DEF Inv, CommandInv

\* The handlers that tell logStreams, or nobody.
LEMMA DoneKeeps ==
  ASSUME Inv, UNCHANGED <<issued, notice>>, ConnectFailed \/ DisconnectDone
  PROVE  Inv'
<1>0. /\ TypeOK /\ hand.pc \in {"failed", "disconnected"} /\ hand' = Idle
      /\ actions' \subseteq actions /\ (hand.pc = "failed" => "connect" \notin actions')
      /\ UNCHANGED <<approved, stopping, pending, prompt, expired, vpn, loop, queue, web, quiet, spent>>
  BY DEF Inv, ConnectFailed, DisconnectDone, Untrack, vpnVars
<1>1. hand' \in HandType /\ hand'.pc = "idle" /\ NoClaim
  BY <1>0, HandBegins, CommandsAssumption DEF NoClaim, HandPlaces
<1>2. TypeOK' BY <1>0, <1>1 DEF TypeOK, HandType
<1>3. (spent \subseteq Sent)' /\ PendingInv' /\ HandInv' BY <1>0, <1>1, PromptsStay
<1>4. TrackInv' BY <1>0, <1>1, TrackStays
<1> QED BY <1>2, <1>3, <1>4 DEF Inv, CommandInv

\* Who is approved decides nothing about the prompts that are pending.
LEMMA ApproveKeeps ==
  ASSUME Inv, UNCHANGED <<issued, notice>>, NEW u \in Users, Approve(u)
  PROVE  Inv'
<1>0. /\ TypeOK /\ approved' = approved \cup {u} /\ hand.pc = "idle"
      /\ UNCHANGED <<stopping, pending, prompt, expired, hand, actions, vpn, loop, queue, web, quiet,
                     spent>>
  BY DEF Inv, Approve, vpnVars
<1>1. TypeOK' BY <1>0 DEF TypeOK
<1>2. (spent \subseteq Sent)' /\ PendingInv' /\ HandInv' BY <1>0, PromptsStay
<1>3. TrackInv' BY <1>0, TrackStays
<1> QED BY <1>1, <1>2, <1>3 DEF Inv, CommandInv

\* Every prompt of a revoked user counts as used.
LEMMA RevokeKeeps ==
  ASSUME Inv, issued' \in 0..MaxCommands, notice' = notice, NEW u \in Users, Revoke(u)
  PROVE  Inv'
<1>0. /\ TypeOK /\ hand.pc = "idle" /\ u # Owner
      /\ approved' = approved \ {u} /\ Begin(u, "forget")
      /\ spent' = spent \cup {p \in Prompts: prompt[p].kind # "none" /\ prompt[p].user = u}
      /\ UNCHANGED <<stopping, pending, prompt, expired, actions, vpn, loop, queue, web, quiet>>
  BY DEF Inv, Revoke, Revocable, vpnVars
<1>1. /\ hand' \in HandType /\ hand'.pc = "forget" /\ hand'.user = u /\ hand'.prompt = 0
      /\ hand'.late = FALSE
  BY <1>0, HandBegins DEF Begin, HandPlaces
<1>2. TypeOK' BY <1>0, <1>1 DEF TypeOK, HandType
<1>3. (spent \subseteq Sent)' BY <1>0 DEF Inv, CommandInv, Sent
<1>4. PendingInv'
  <2> SUFFICES ASSUME NEW w \in Users, pending[w] # 0
               PROVE  /\ pending[w] \in Sent /\ prompt[pending[w]].user = w
                      /\ pending[w] \notin spent' \/ w = u
    BY <1>0, <1>1 DEF PendingInv, Sent
  <2>1. pending[w] \in Sent \ spent /\ prompt[pending[w]].user = w
    BY <1>0 DEF Inv, CommandInv, PendingInv
  <2> QED BY <1>0, <2>1
<1>5. HandInv' BY <1>1 DEF HandInv
<1>6. TrackInv' BY <1>0, <1>1, TrackStays
<1> QED BY <1>2, <1>3, <1>4, <1>5, <1>6 DEF Inv, CommandInv

LEMMA ForgetKeeps ==
  ASSUME Inv, UNCHANGED <<issued, notice>>, Forget
  PROVE  Inv'
<1>0. /\ TypeOK /\ hand.pc = "forget" /\ hand' = Idle
      /\ pending' = [pending EXCEPT ![hand.user] = 0]
      /\ UNCHANGED <<approved, stopping, prompt, expired, actions, vpn, loop, queue, web, quiet, spent>>
  BY DEF Inv, Forget, ForgetPrompt, vpnVars
<1>1. hand' \in HandType /\ hand'.pc = "idle" /\ NoClaim
  BY <1>0, HandBegins, CommandsAssumption DEF NoClaim, HandPlaces
<1>2. pending' \in [Users -> Prompts \cup {0}]
      /\ \A w \in Users: pending'[w] = IF w = hand.user THEN 0 ELSE pending[w]
  BY <1>0 DEF TypeOK
<1>3. TypeOK' BY <1>0, <1>1, <1>2 DEF TypeOK, HandType
<1>4. (spent \subseteq Sent)' BY <1>0 DEF Inv, CommandInv, Sent
<1>5. PendingInv' BY <1>0, <1>2 DEF Inv, CommandInv, PendingInv, Sent
<1>6. HandInv' BY <1>1 DEF HandInv, NoClaim
<1>7. TrackInv' BY <1>0, <1>1, TrackStays
<1> QED BY <1>3, <1>4, <1>5, <1>6, <1>7 DEF Inv, CommandInv

\* Time passes and the bot shuts down under a handler that runs.
LEMMA TimeKeeps ==
  ASSUME Inv, UNCHANGED <<issued, notice>>, BeginShutdown \/ \E p \in Prompts: Expire(p)
  PROVE  Inv'
<1>0. /\ TypeOK /\ expired \subseteq expired' /\ expired' \in SUBSET Prompts /\ stopping' \in BOOLEAN
      /\ actions' \subseteq actions /\ (actions' = actions \/ actions' = {})
      /\ UNCHANGED <<approved, pending, prompt, hand, vpn, loop, queue, web, quiet, spent>>
  BY DEF Inv, BeginShutdown, Expire, vpnVars, TypeOK
<1>1. TypeOK' BY <1>0 DEF TypeOK
<1>2. (spent \subseteq Sent)' /\ PendingInv' /\ HandInv'
  <2>1. hand.pc = "ask" => hand.kind # "none" BY DEF Inv, CommandInv, HandInv
  <2> QED BY <1>0, <2>1, PromptsStay
<1>3. TrackInv'
  <2>1. CASE actions' = {} BY <2>1 DEF TrackInv
  <2>2. CASE actions' = actions
    <3>1. (InProgress' <=> InProgress) /\ (Ending' <=> Ending) BY <1>0 DEF InProgress, Ending
    <3> QED BY <1>0, <2>2, <3>1 DEF Inv, CommandInv, TrackInv
  <2> QED BY <1>0, <2>1, <2>2
<1> QED BY <1>1, <1>2, <1>3 DEF Inv, CommandInv

-----------------------------------------------------------------------------
(* notify keeps the invariant.                                             *)

LEMMA NotifyKeeps ==
  ASSUME Inv, issued' = issued, Notify
  PROVE  Inv'
<1>0. TypeOK BY DEF Inv
<1>1. CASE NotifyPrompts
  <2> DEFINE e == queue[1]
             cleared == [u \in Users |-> IF pending[u] # 0 /\ Removes(e, pending[u])
                                         THEN 0 ELSE pending[u]]
  <2>1. /\ notice.pc = "idle" /\ queue # <<>> /\ queue' = Tail(queue)
        /\ notice' = [pc |-> "actions", event |-> e] /\ pending' = cleared
        /\ UNCHANGED <<approved, stopping, prompt, expired, hand, actions, vpn, loop, web, quiet, spent>>
    <3>1. Head(queue) = queue[1] BY <1>0 DEF TypeOK
    <3> QED BY <1>1, <3>1 DEF NotifyPrompts
  <2>2. /\ e \in Event /\ queue' \in Seq(Event) /\ Len(queue') = Len(queue) - 1
        /\ Len(queue) \in Nat \ {0}
        /\ \A i \in 1..Len(queue'): queue'[i] = queue[i + 1]
    BY <1>0, <2>1 DEF TypeOK
  <2>3. pending' \in [Users -> Prompts \cup {0}]
        /\ \A u \in Users: pending'[u] \in {0, pending[u]}
    BY <1>0, <2>1 DEF TypeOK
  <2> HIDE DEF e, cleared
  <2>4. notice' \in NoticeType BY <2>1, <2>2 DEF NoticeType
  <2>5. TypeOK' BY <1>0, <2>1, <2>2, <2>3, <2>4, CommandsAssumption DEF TypeOK, NoticeType
  <2>6. (spent \subseteq Sent)' BY <2>1 DEF Inv, CommandInv, Sent
  <2>7. PendingInv'
    <3> SUFFICES ASSUME NEW u \in Users, pending'[u] # 0
                 PROVE  /\ pending'[u] \in Sent /\ prompt[pending'[u]].user = u
                        /\ pending'[u] \notin spent \/ (hand.pc = "forget" /\ hand.user = u)
      BY <2>1 DEF PendingInv, Sent
    <3>1. pending'[u] = pending[u] BY <2>3
    <3> QED BY <3>1 DEF Inv, CommandInv, PendingInv
  <2>8. HandInv' BY <2>1, <2>3 DEF Inv, CommandInv, HandInv, Sent
  <2>9. Ending => Ending'
    <3> SUFFICES ASSUME Ending PROVE Ending' OBVIOUS
    <3>1. PICK i \in 1..Len(queue): Terminal(queue[i]) BY <2>1 DEF Ending
    <3>2. CASE i = 1
      <4>1. notice'.pc = "actions" /\ Terminal(notice'.event) BY <2>1, <3>1, <3>2 DEF e
      <4> QED BY <4>1 DEF Ending
    <3>3. CASE i # 1
      <4>1. i - 1 \in 1..Len(queue') BY <2>2, <3>3
      <4>2. queue'[i - 1] = queue[i] BY <2>2, <4>1
      <4> QED BY <3>1, <4>1, <4>2 DEF Ending
    <3> QED BY <3>2, <3>3
  <2>10. TrackInv' BY <2>1, <2>9 DEF Inv, CommandInv, TrackInv, InProgress
  <2> QED BY <2>5, <2>6, <2>7, <2>8, <2>10 DEF Inv, CommandInv
<1>2. CASE NotifyActions
  <2>1. /\ notice.pc = "actions"
        /\ UNCHANGED <<approved, stopping, pending, prompt, expired, hand, actions, vpn, loop, queue,
                       web, quiet, spent>>
    BY <1>2 DEF NotifyActions, botVars, vpnVars
  <2>2. /\ notice' \in NoticeType
        /\ "connect" \in actions /\ Terminal(notice.event) => notice'.pc = "complete"
    <3>1. CASE "connect" \in actions /\ Terminal(notice.event)
      BY <1>0, <1>2, <3>1 DEF NotifyActions, TypeOK, NoticeType
    <3>2. CASE ~("connect" \in actions /\ Terminal(notice.event))
      BY <1>2, <3>2 DEF NotifyActions, NoticeType, NoEvent, Event
    <3> QED BY <3>1, <3>2
  <2>3. TypeOK' BY <1>0, <2>1, <2>2 DEF TypeOK, NoticeType
  <2>4. (spent \subseteq Sent)' /\ PendingInv' /\ HandInv'
    BY <2>1 DEF Inv, CommandInv, PendingInv, HandInv, Sent
  <2>5. "connect" \in actions /\ Ending => Ending'
    BY <2>1, <2>2 DEF Ending
  <2>6. TrackInv' BY <2>1, <2>5 DEF Inv, CommandInv, TrackInv, InProgress
  <2> QED BY <2>3, <2>4, <2>6 DEF Inv, CommandInv
<1>3. CASE NotifyComplete
  <2>1. /\ notice' = [pc |-> "idle", event |-> NoEvent] /\ actions' = actions \ {"connect"}
        /\ UNCHANGED <<approved, stopping, pending, prompt, expired, hand, vpn, loop, queue,
                       web, quiet, spent>>
    BY <1>3 DEF NotifyComplete, Untrack, vpnVars
  <2>2. notice' \in NoticeType BY <2>1 DEF NoticeType, NoEvent, Event
  <2>3. TypeOK' BY <1>0, <2>1, <2>2 DEF TypeOK, NoticeType
  <2>4. (spent \subseteq Sent)' /\ PendingInv' /\ HandInv'
    BY <2>1 DEF Inv, CommandInv, PendingInv, HandInv, Sent
  <2>5. TrackInv' BY <2>1 DEF TrackInv
  <2> QED BY <2>3, <2>4, <2>5 DEF Inv, CommandInv
<1> QED BY <1>1, <1>2, <1>3 DEF Notify

-----------------------------------------------------------------------------
(* The invariant.                                                          *)

LEMMA CommandInit == Init => Inv
<1> SUFFICES ASSUME Init PROVE Inv OBVIOUS
<1>1. Idle \in HandType /\ Idle.pc = "idle" /\ Idle.late = FALSE
  BY HandBegins, CommandsAssumption DEF HandPlaces
<1>2. NoPrompt \in PromptType /\ NoPrompt.kind = "none"
  BY CommandsAssumption DEF NoPrompt, PromptType
<1>3. [pc |-> "idle", event |-> NoEvent] \in NoticeType BY DEF NoticeType, NoEvent, Event
<1>4. queue \in Seq(Event) /\ Len(queue) = 0 BY DEF Init
<1>5. vpn \in VpnType /\ loop \in LoopType BY DEF Init, VpnType, LoopType, States
<1>6. TypeOK
  <2>1. prompt \in [Prompts -> PromptType] /\ hand \in HandType /\ notice \in NoticeType
    BY <1>1, <1>2, <1>3 DEF Init
  <2>2. /\ approved \in SUBSET Users /\ Owner \in approved /\ pending \in [Users -> Prompts \cup {0}]
        /\ expired \in SUBSET Prompts /\ actions \in SUBSET {"connect", "disconnect"}
        /\ spent \in SUBSET Prompts /\ stopping \in BOOLEAN /\ web \in BOOLEAN /\ quiet \in BOOLEAN
    BY CommandsAssumption DEF Init
  <2>3. issued \in 0..MaxCommands /\ Len(queue) <= MaxBacklog
    BY <1>4, CommandsAssumption DEF Init
  <2> QED BY <1>4, <1>5, <2>1, <2>2, <2>3
          DEF TypeOK, HandType, PromptType, NoticeType, VpnType, LoopType
<1>7. CommandInv
  BY <1>1 DEF Init, CommandInv, PendingInv, HandInv, TrackInv
<1> QED BY <1>6, <1>7 DEF Inv

LEMMA CommandNext == Inv /\ [Next]_vars => Inv'
<1> SUFFICES ASSUME Inv, [Next]_vars PROVE Inv' OBVIOUS
<1>1. CASE UNCHANGED vars
  <2>1. UNCHANGED <<approved, stopping, pending, prompt, expired, hand, actions, vpn, loop, queue, web,
                    quiet, notice, spent, issued>>
    BY <1>1 DEF vars, botVars, vpnVars
  <2>2. TypeOK' BY <2>1 DEF Inv, TypeOK
  <2>3. CommandInv'
    BY <2>1 DEF Inv, CommandInv, Sent, PendingInv, HandInv, TrackInv, InProgress, Ending
  <2> QED BY <2>2, <2>3 DEF Inv
<1>2. CASE Issue /\ Commands /\ UNCHANGED notice
  <2>1. issued' \in 0..MaxCommands BY <1>2, CommandsAssumption DEF Issue, Inv, TypeOK
  <2> QED BY <1>2, <2>1, CommandKeeps, RevokeKeeps, ReplyKeeps DEF Commands
<1>3. CASE UNCHANGED issued /\ HandlerStep /\ UNCHANGED notice
  BY <1>3, AskKeeps, DeleteKeeps, CallConnectKeeps, CallSubmitKeeps, DoneKeeps, DisconnectKeeps,
     ForgetKeeps
  DEF HandlerStep
<1>4. CASE \/ Issue /\ WebCall /\ UNCHANGED <<botVars, notice, spent>>
           \/ Manager /\ UNCHANGED <<botVars, notice, spent, issued>>
  BY <1>4, ManagerNext
<1>5. CASE UNCHANGED issued /\ Notify BY <1>5, NotifyKeeps
<1>6. CASE UNCHANGED <<issued, notice>> /\ \E u \in Users: Approve(u) BY <1>6, ApproveKeeps
<1>7. CASE UNCHANGED <<issued, notice>> /\ (BeginShutdown \/ \E p \in Prompts: Expire(p))
  BY <1>7, TimeKeeps
<1> QED BY <1>1, <1>2, <1>3, <1>4, <1>5, <1>6, <1>7 DEF Next

\* The inductive invariant: the pending prompts, the handler that holds
\* authorizationMu, and who is still to end the tracked connect.
THEOREM CommandInvariant == Spec => []Inv
BY CommandInit, CommandNext, PTL DEF Spec

\* Every variable of service.go and of the manager it drives keeps its type, and
\* the owner stays approved.
THEOREM BotCommandTypes == Spec => []TypeOK
<1>1. Inv => TypeOK BY DEF Inv
<1> QED BY <1>1, CommandInvariant, PTL

\* A handler that is about to call Connect or SubmitOTP for a prompt does so for
\* the first time, for a prompt that had not expired when its reply came, and for
\* a user who was not revoked in between.
THEOREM RepliesReachOnce == Spec => []RepliesAreWarranted
<1>1. Inv => RepliesAreWarranted
  <2> SUFFICES ASSUME Inv, hand.pc \in {"connect", "submit"}
               PROVE  ~hand.late /\ hand.prompt \notin spent
    BY DEF RepliesAreWarranted
  <2>1. 0 \notin spent BY DEF Inv, TypeOK, Prompts
  <2> QED BY <2>1 DEF Inv, CommandInv, HandInv
<1> QED BY <1>1, CommandInvariant, PTL

\* When every event is delivered and no handler runs, logStreams tracks a connect
\* only while an attempt goes on, or after one that ended without an event.
THEOREM TrackedConnectGoesOn == Spec => []TrackedUnlessQuiet
<1>1. Inv => TrackedUnlessQuiet
  <2> SUFFICES ASSUME Inv, Settled, "connect" \in actions PROVE InProgress \/ quiet
    BY DEF TrackedUnlessQuiet
  <2>1. ~Ending BY DEF Settled, Ending
  <2> QED BY <2>1 DEF Settled, Inv, CommandInv, TrackInv
<1> QED BY <1>1, CommandInvariant, PTL
================================================================================
