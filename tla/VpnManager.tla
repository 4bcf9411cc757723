----------------------------- MODULE VpnManager -----------------------------
(***************************************************************************)
(* The VPN lifecycle manager, src/backend/internal/vpn/manager.go, with    *)
(* the openconnect processes it starts, the goroutines it spawns and the   *)
(* HTTP/Telegram goroutines that call it.                                  *)
(*                                                                         *)
(* One action is one region under Manager.mu, or one effect outside it     *)
(* (starting a process, writing to its stdin, signalling it).  Everything  *)
(* between two actions of a goroutine is a place where the others run.     *)
(*                                                                         *)
(* Left out because nothing here reads it: phase, detail, errorMsg, logs,  *)
(* lastLog, tunInterface and the callbacks.  The event queue is VpnEvents. *)
(*                                                                         *)
(* A process id stands for the exec.Cmd, its stdin pipe and its output     *)
(* pipes; ids are given in the order of Start, so connectedAt, a time in   *)
(* the code, is the number of processes started before the last            *)
(* markConnected.  An output line that several predicates of streamOutput  *)
(* match is that many lines, one after the other.                          *)
(***************************************************************************)
EXTENDS Integers, Sequences, FiniteSets

CONSTANTS
    Loops,        \* goroutines of Connect that may be alive at once
    Disconnects,  \* concurrent callers of Disconnect
    Submits,      \* concurrent callers of SubmitOTP
    Streams,      \* the output pipes of a process (stdout, stderr)
    Lines,        \* kinds of line a process may print
    Requests,     \* the ConnectRequests the callers make
    MaxProcs,     \* bound: processes started in a behaviour
    MaxLines,     \* bound: lines printed by one process
    MaxTokens,    \* bound: tokens in one SubmitOTP or ConnectRequest
    MaxWindow     \* bound: last TOTP time step reached

LineKinds == {"otp", "credential", "gateway-login", "parse-error", "established", "bye"}

ConnectRequest == [password: BOOLEAN, otpSecret: BOOLEAN,
                   autoReconnect: BOOLEAN, tokens: 0..MaxTokens]

ASSUME BoundsAssumption == /\ MaxProcs \in Nat /\ MaxLines \in Nat
                           /\ MaxTokens \in Nat /\ MaxWindow \in Nat
ASSUME InputsAssumption == Lines \subseteq LineKinds /\ Requests \subseteq ConnectRequest

Procs     == 1..MaxProcs
NoProc    == 0
TimeSteps == Nat \cup {-1}   \* -1: no code sent yet

VARIABLES
    m,        \* struct Manager
    loop,     \* the goroutine of each accepted Connect, with runOpenConnect's locals
    reader,   \* streamOutput, one per process and stream
    gen,      \* submitGeneratedOTP, by the stdin it writes to
    sub,      \* SubmitOTP calls after their acceptance
    disc,     \* Disconnect calls after their acceptance
    proc,     \* external: the openconnect processes
    started,  \* external: how many processes were started
    clock     \* external: the current TOTP time step

vars == <<m, loop, reader, gen, sub, disc, proc, started, clock>>

-----------------------------------------------------------------------------
(* The struct, and the methods that change it under the lock.              *)

States   == {"disconnected", "connecting", "connected", "disconnecting", "error"}
ProcOrNo == Procs \cup {NoProc}

Manager == [state: States, cmd: ProcOrNo, stdin: ProcOrNo, connectedAt: ProcOrNo,
            stopRequested: BOOLEAN, awaitingOTP: BOOLEAN, autoOTPInFlight: BOOLEAN,
            otpPromptCount: Nat, authResponsesSent: Nat, credentialPrompts: Nat,
            savedPassword: BOOLEAN, otpSecret: BOOLEAN, autoReconnect: BOOLEAN,
            gatewayPasswordSent: BOOLEAN, sawGatewayLogin: BOOLEAN, sawParseError: BOOLEAN,
            reconnectAttempt: Nat, lastAutoOTPStep: TimeSteps]

NewManager ==
    [state |-> "disconnected", cmd |-> NoProc, stdin |-> NoProc, connectedAt |-> NoProc,
     stopRequested |-> FALSE, awaitingOTP |-> FALSE, autoOTPInFlight |-> FALSE,
     otpPromptCount |-> 0, authResponsesSent |-> 0, credentialPrompts |-> 0,
     savedPassword |-> FALSE, otpSecret |-> FALSE, autoReconnect |-> FALSE,
     gatewayPasswordSent |-> FALSE, sawGatewayLogin |-> FALSE, sawParseError |-> FALSE,
     reconnectAttempt |-> 0, lastAutoOTPStep |-> -1]

\* setStateLocked; Error is only ever set with a message.
SetState(s) ==
    [m EXCEPT !.state = s,
              !.awaitingOTP = @ /\ s \notin {"disconnected", "error"}]

\* clearProcessAuthState: keeps the markers, lastAutoOTPStep and the attempt.
ClearProcessAuthState ==
    [m EXCEPT !.cmd = NoProc, !.stdin = NoProc, !.awaitingOTP = FALSE,
              !.otpPromptCount = 0, !.authResponsesSent = 0, !.credentialPrompts = 0,
              !.savedPassword = FALSE, !.otpSecret = FALSE, !.autoOTPInFlight = FALSE,
              !.autoReconnect = FALSE, !.gatewayPasswordSent = FALSE]

\* Mutant: any token closes the open prompt.
RecordClosesPrompt == [m EXCEPT !.authResponsesSent = @ + 1, !.awaitingOTP = FALSE]

RecordAuthResponse ==
    [m EXCEPT !.authResponsesSent = @ + 1,
              !.awaitingOTP = @ /\ m.authResponsesSent + 1 < m.otpPromptCount]

\* noteOTPPrompt, for a prompt that is not the repetition of an open one.
NeedsInput == m.authResponsesSent < m.otpPromptCount + 1
Automatic  == NeedsInput /\ m.otpSecret /\ m.stdin # NoProc
OpenPrompt == m.awaitingOTP \/ m.autoOTPInFlight

NoteOTPPrompt ==
    IF OpenPrompt THEN m
    ELSE [m EXCEPT !.otpPromptCount = @ + 1,
                   !.awaitingOTP = NeedsInput /\ ~Automatic,
                   !.autoOTPInFlight = Automatic]

\* noteCredentialPrompt: the first prompt is the portal's, and is already answered.
NoteCredentialPrompt ==
    [m EXCEPT !.credentialPrompts = @ + 1,
              !.awaitingOTP = @ /\ m.credentialPrompts = 0,
              !.gatewayPasswordSent =
                  @ \/ (m.credentialPrompts > 0 /\ m.savedPassword /\ m.stdin # NoProc)]

-----------------------------------------------------------------------------
(* Processes, and the local state of the goroutines.                       *)

Alive(p)    == proc[p].status \in {"running", "terminated", "killed"}
Printing(p) == proc[p].status \in {"running", "terminated"}

\* A write to the pipe fails once the pipe is closed or its reader is gone.
CanWrite(p) == Alive(p) /\ ~proc[p].stdinClosed
Written(p)  == [proc EXCEPT ![p].inbox = @ + 1]

NoProcess == [status |-> "none", asking |-> FALSE, inbox |-> 0, stdinClosed |-> FALSE,
              printed |-> 0, waited |-> FALSE, out |-> [s \in Streams |-> <<>>]]

IdleLoop == [pc |-> "idle",
             req |-> [password |-> FALSE, otpSecret |-> FALSE, autoReconnect |-> FALSE, tokens |-> 0],
             proc |-> NoProc, attempt |-> 0, direct |-> FALSE, left |-> 0, outcome |-> "none"]
IdleDisc == [pc |-> "idle", cmd |-> NoProc, stdin |-> NoProc]
IdleSub  == [pc |-> "idle", stdin |-> NoProc, left |-> 0]
IdleGen  == [pc |-> "idle", afterStep |-> -1, step |-> 0]

Outcomes    == {"none", "stopped", "clean", "failed", "reconnectable"}
LoopPc      == {"idle", "top", "prepare", "register", "password", "token", "record",
                "auth-failed", "stream", "reap", "clear", "settle", "returned", "decide",
                "schedule", "reconnecting", "waiting", "fail"}
LoopRecord  == [pc: LoopPc, req: ConnectRequest, proc: ProcOrNo, attempt: Nat,
                direct: BOOLEAN, left: 0..MaxTokens, outcome: Outcomes]
ReaderPc    == {"none", "reading", "detect", "bye", "done"}
GenRecord   == [pc: {"idle", "generate", "wait", "write", "record", "fail"},
                afterStep: TimeSteps, step: Nat]
SubRecord   == [pc: {"idle", "write", "record"}, stdin: ProcOrNo, left: 0..MaxTokens]
DiscRecord  == [pc: {"idle", "grab", "signal", "wait", "tail"}, cmd: ProcOrNo, stdin: ProcOrNo]
ProcRecord  == [status: {"none", "running", "terminated", "killed", "exited"},
                asking: BOOLEAN, inbox: Nat, stdinClosed: BOOLEAN, printed: 0..MaxLines,
                waited: BOOLEAN, out: [Streams -> Seq(Lines)]]

TypeOK ==
    /\ m \in Manager
    /\ loop \in [Loops -> LoopRecord]
    /\ reader \in [Procs -> [Streams -> ReaderPc]]
    /\ gen \in [Procs -> GenRecord]
    /\ sub \in [Submits -> SubRecord]
    /\ disc \in [Disconnects -> DiscRecord]
    /\ proc \in [Procs -> ProcRecord]
    /\ started \in 0..MaxProcs
    /\ clock \in 0..MaxWindow

Init ==
    /\ m = NewManager
    /\ loop = [l \in Loops |-> IdleLoop]
    /\ reader = [p \in Procs |-> [s \in Streams |-> "none"]]
    /\ gen = [p \in Procs |-> IdleGen]
    /\ sub = [u \in Submits |-> IdleSub]
    /\ disc = [d \in Disconnects |-> IdleDisc]
    /\ proc = [p \in Procs |-> NoProcess]
    /\ started = 0
    /\ clock = 0

-----------------------------------------------------------------------------
(* Connect.  A rejected call changes nothing here.                         *)

\* control.VPN.Connect turns a reconnecting profile without a secret down.
Configured(req) == req.autoReconnect => req.otpSecret

Connect(l, req) ==
    /\ loop[l].pc = "idle"
    /\ Configured(req)
    /\ m.state \notin {"connecting", "connected"}
    /\ m' = [SetState("connecting") EXCEPT !.stopRequested = FALSE]
    /\ loop' = [loop EXCEPT ![l] = [IdleLoop EXCEPT !.pc = "top", !.req = req]]
    /\ UNCHANGED <<reader, gen, sub, disc, proc, started, clock>>

(* runConnectLoop and what it calls.  outcome is the error runOpenConnect  *)
(* returns: nil for "stopped" and "clean".                                 *)

Goto(l, pc) == loop' = [loop EXCEPT ![l].pc = pc]
Finish(l)   == loop' = [loop EXCEPT ![l] = IdleLoop]
Return(l, outcome) == loop' = [loop EXCEPT ![l].pc = "returned", ![l].outcome = outcome]

\* m.otpSecret, m.autoReconnect and m.reconnectAttempt of an attempt.
AttemptState(l, attempt) ==
    [m EXCEPT !.otpSecret = loop[l].req.otpSecret,
              !.autoReconnect = loop[l].req.autoReconnect,
              !.reconnectAttempt = attempt]

LoopTop(l) ==
    /\ loop[l].pc = "top"
    /\ m' = AttemptState(l, loop[l].attempt)
    /\ loop' = [loop EXCEPT ![l].pc = "prepare", ![l].direct = FALSE]
    /\ UNCHANGED <<reader, gen, sub, disc, proc, started, clock>>

\* The arguments, the certificate pin and cmd.Start: stopRequested is not read.
StartProcess(l) ==
    /\ loop[l].pc = "prepare" /\ started < MaxProcs
    /\ started' = started + 1
    /\ proc' = [proc EXCEPT ![started + 1].status = "running"]
    /\ loop' = [loop EXCEPT ![l].pc = "register", ![l].proc = started + 1]
    /\ UNCHANGED <<m, reader, gen, sub, disc, clock>>

StartFails(l) ==
    /\ loop[l].pc = "prepare"
    /\ Return(l, "failed")
    /\ UNCHANGED <<m, reader, gen, sub, disc, proc, started, clock>>

RegisterProcess(l) ==
    /\ loop[l].pc = "register"
    /\ m' = [m EXCEPT !.cmd = loop[l].proc, !.stdin = loop[l].proc, !.awaitingOTP = FALSE,
                      !.otpPromptCount = 0, !.authResponsesSent = 0, !.credentialPrompts = 0,
                      !.savedPassword = loop[l].req.password,
                      !.otpSecret = loop[l].req.otpSecret,
                      !.autoReconnect = loop[l].req.autoReconnect,
                      !.autoOTPInFlight = FALSE, !.gatewayPasswordSent = FALSE,
                      !.sawGatewayLogin = FALSE, !.sawParseError = FALSE]
    /\ loop' = [loop EXCEPT ![l].pc = "password",
                            ![l].left = IF loop[l].direct THEN 0 ELSE loop[l].req.tokens]
    /\ UNCHANGED <<reader, gen, sub, disc, proc, started, clock>>

\* writeInitialAuth: the password, then the tokens of the request.
\* Mutant: one token more than the request has.
AfterWriteTooMany(left) == IF left < 0 THEN "stream" ELSE "token"
AfterWrite(left) == IF left = 0 THEN "stream" ELSE "token"

WritePassword(l) ==
    /\ loop[l].pc = "password"
    /\ Goto(l, IF CanWrite(loop[l].proc) THEN AfterWrite(loop[l].left) ELSE "auth-failed")
    /\ UNCHANGED <<m, reader, gen, sub, disc, proc, started, clock>>

WriteToken(l) ==
    /\ loop[l].pc = "token"
    /\ \/ CanWrite(loop[l].proc) /\ proc' = Written(loop[l].proc) /\ Goto(l, "record")
       \/ ~CanWrite(loop[l].proc) /\ Goto(l, "auth-failed") /\ UNCHANGED proc
    /\ UNCHANGED <<m, reader, gen, sub, disc, started, clock>>

RecordToken(l) ==
    /\ loop[l].pc = "record"
    /\ m' = RecordAuthResponse
    /\ loop' = [loop EXCEPT ![l].pc = AfterWrite(loop[l].left - 1), ![l].left = @ - 1]
    /\ UNCHANGED <<reader, gen, sub, disc, proc, started, clock>>

\* Mutant: the error return leaves the process registered.
AuthFailedKeepsCmd(l) ==
    /\ loop[l].pc = "auth-failed"
    /\ m' = [ClearProcessAuthState EXCEPT !.cmd = m.cmd]
    /\ proc' = [proc EXCEPT ![loop[l].proc].stdinClosed = TRUE]
    /\ Return(l, "failed")
    /\ UNCHANGED <<reader, gen, sub, disc, started, clock>>

\* The error return: the process is neither waited for nor killed.
AuthFailed(l) ==
    /\ loop[l].pc = "auth-failed"
    /\ m' = ClearProcessAuthState
    /\ proc' = [proc EXCEPT ![loop[l].proc].stdinClosed = TRUE]
    /\ Return(l, "failed")
    /\ UNCHANGED <<reader, gen, sub, disc, started, clock>>

StartStreams(l) ==
    /\ loop[l].pc = "stream"
    /\ reader' = [reader EXCEPT ![loop[l].proc] = [s \in Streams |-> "reading"]]
    /\ Goto(l, "reap")
    /\ UNCHANGED <<m, gen, sub, disc, proc, started, clock>>

\* The tunnel came up after the process started iff p is counted in connectedAt.
ClassifyOpenConnectExit(p, waitErr) ==
    IF m.stopRequested \/ m.state = "disconnecting" THEN "stopped"
    ELSE IF p <= m.connectedAt THEN "reconnectable"
    ELSE IF waitErr THEN "failed" ELSE "clean"

\* Mutant: the exit of the process is not waited for.
ReapWithoutWait(l) ==
    /\ loop[l].pc = "reap"
    /\ \E waitErr \in BOOLEAN:
          loop' = [loop EXCEPT ![l].pc = "clear",
                               ![l].outcome = ClassifyOpenConnectExit(loop[l].proc, waitErr)]
    /\ UNCHANGED <<m, reader, gen, sub, disc, proc, started, clock>>

\* wg.Wait, cmd.Wait and the snapshot that is classified.
ReapProcess(l) ==
    /\ loop[l].pc = "reap"
    /\ \A s \in Streams: reader[loop[l].proc][s] = "done"
    /\ proc[loop[l].proc].status = "exited"
    /\ \E waitErr \in BOOLEAN:
          loop' = [loop EXCEPT ![l].pc = "clear",
                               ![l].outcome = ClassifyOpenConnectExit(loop[l].proc, waitErr)]
    /\ UNCHANGED <<m, reader, gen, sub, disc, proc, started, clock>>

ClearAuth(l) ==
    /\ loop[l].pc = "clear"
    /\ m' = ClearProcessAuthState
    /\ Goto(l, "settle")
    /\ UNCHANGED <<reader, gen, sub, disc, proc, started, clock>>

\* Mutant: a clean exit leaves the state as it was.
SettleOnlyReconnectable(l) ==
    /\ loop[l].pc = "settle"
    /\ m' = IF loop[l].outcome = "reconnectable" THEN SetState("disconnected") ELSE m
    /\ Goto(l, "returned")
    /\ UNCHANGED <<reader, gen, sub, disc, proc, started, clock>>

SettleState(l) ==
    /\ loop[l].pc = "settle"
    /\ m' = IF loop[l].outcome \in {"clean", "reconnectable"} THEN SetState("disconnected") ELSE m
    /\ Goto(l, "returned")
    /\ UNCHANGED <<reader, gen, sub, disc, proc, started, clock>>

\* runGPClient: any error of the portal attempt may lead to the direct one.
RetryGatewayDirect(l) ==
    /\ loop[l].outcome \in {"failed", "reconnectable"} /\ ~loop[l].direct
    /\ m.sawGatewayLogin /\ m.sawParseError

GPClientReturns(l) ==
    /\ loop[l].pc = "returned"
    /\ \/ RetryGatewayDirect(l) /\ loop' = [loop EXCEPT ![l].pc = "prepare", ![l].direct = TRUE]
       \/ ~RetryGatewayDirect(l) /\ Goto(l, "decide")
    /\ UNCHANGED <<m, reader, gen, sub, disc, proc, started, clock>>

DecideReconnect(l) ==
    LET reconnectable == loop[l].outcome = "reconnectable" /\ loop[l].req.autoReconnect
    IN  /\ loop[l].pc = "decide"
        /\ \/ loop[l].outcome \in {"stopped", "clean"} /\ Finish(l)
           \/ loop[l].outcome \in {"failed", "reconnectable"} /\ ~reconnectable /\ Goto(l, "fail")
           \/ reconnectable /\ m.stopRequested /\ Finish(l)
           \/ /\ reconnectable /\ ~m.stopRequested
              /\ loop' = [loop EXCEPT ![l].pc = "schedule", ![l].attempt = @ + 1]
        /\ UNCHANGED <<m, reader, gen, sub, disc, proc, started, clock>>

ScheduleReconnect(l) ==
    /\ loop[l].pc = "schedule"
    /\ m' = AttemptState(l, loop[l].attempt)
    /\ Goto(l, "reconnecting")
    /\ UNCHANGED <<reader, gen, sub, disc, proc, started, clock>>

SetReconnecting(l) ==
    /\ loop[l].pc = "reconnecting"
    /\ m' = SetState("connecting")
    /\ Goto(l, "waiting")
    /\ UNCHANGED <<reader, gen, sub, disc, proc, started, clock>>

\* Mutant: the timer does not test for a stop.
WaitIgnoresStop(l) ==
    /\ loop[l].pc = "waiting"
    /\ Goto(l, "top")
    /\ UNCHANGED <<m, reader, gen, sub, disc, proc, started, clock>>

\* waitBeforeReconnect: the ticker only sees a stop, the timer tests for it.
WaitBeforeReconnect(l) ==
    /\ loop[l].pc = "waiting"
    /\ IF m.stopRequested THEN Finish(l) ELSE Goto(l, "top")
    /\ UNCHANGED <<m, reader, gen, sub, disc, proc, started, clock>>

FailConnect(l) ==
    /\ loop[l].pc = "fail"
    /\ m' = SetState("error")
    /\ Finish(l)
    /\ UNCHANGED <<reader, gen, sub, disc, proc, started, clock>>

LoopStep(l) ==
    \/ LoopTop(l) \/ StartProcess(l) \/ StartFails(l) \/ RegisterProcess(l)
    \/ WritePassword(l) \/ WriteToken(l) \/ RecordToken(l) \/ AuthFailed(l)
    \/ StartStreams(l) \/ ReapProcess(l) \/ ClearAuth(l) \/ SettleState(l)
    \/ GPClientReturns(l) \/ DecideReconnect(l) \/ ScheduleReconnect(l)
    \/ SetReconnecting(l) \/ WaitBeforeReconnect(l) \/ FailConnect(l)

-----------------------------------------------------------------------------
(* streamOutput.  Reading a line runs its handler up to the first unlock.  *)

ReaderGoto(p, s, pc) == reader' = [reader EXCEPT ![p][s] = pc]

\* The next line of the pipe is of this kind; it is consumed.
NextLine(p, s, line) ==
    /\ reader[p][s] = "reading"
    /\ proc[p].out[s] # <<>>
    /\ Head(proc[p].out[s]) = line
    /\ proc' = [proc EXCEPT ![p].out[s] = Tail(@)]

ReadOTPPrompt(p, s) ==
    /\ NextLine(p, s, "otp")
    /\ m' = NoteOTPPrompt
    /\ gen' = IF ~OpenPrompt /\ Automatic
              THEN [gen EXCEPT ![m.stdin] = [IdleGen EXCEPT !.pc = "generate",
                                                            !.afterStep = m.lastAutoOTPStep]]
              ELSE gen
    /\ UNCHANGED <<loop, reader, sub, disc, started, clock>>

ReadCredentialPrompt(p, s) ==
    /\ NextLine(p, s, "credential")
    /\ m' = NoteCredentialPrompt
    /\ UNCHANGED <<loop, reader, gen, sub, disc, started, clock>>

ReadGatewayLogin(p, s) ==
    /\ NextLine(p, s, "gateway-login")
    /\ m' = [m EXCEPT !.sawGatewayLogin = TRUE]
    /\ UNCHANGED <<loop, reader, gen, sub, disc, started, clock>>

ReadParseError(p, s) ==
    /\ NextLine(p, s, "parse-error")
    /\ m' = [m EXCEPT !.sawParseError = TRUE, !.awaitingOTP = FALSE]
    /\ UNCHANGED <<loop, reader, gen, sub, disc, started, clock>>

\* detectTunInterface polls for up to three seconds before markConnected.
ReadEstablished(p, s) ==
    /\ NextLine(p, s, "established")
    /\ ReaderGoto(p, s, "detect")
    /\ UNCHANGED <<m, loop, gen, sub, disc, started, clock>>

MarkConnected(p, s) ==
    /\ reader[p][s] = "detect"
    /\ m' = [m EXCEPT !.state = "connected", !.connectedAt = started, !.awaitingOTP = FALSE]
    /\ ReaderGoto(p, s, "reading")
    /\ UNCHANGED <<loop, gen, sub, disc, proc, started, clock>>

\* The state is read in one region and set in another.
ReadBye(p, s) ==
    /\ NextLine(p, s, "bye")
    /\ IF m.state = "disconnecting" THEN UNCHANGED reader ELSE ReaderGoto(p, s, "bye")
    /\ UNCHANGED <<m, loop, gen, sub, disc, started, clock>>

MarkDisconnected(p, s) ==
    /\ reader[p][s] = "bye"
    /\ m' = SetState("disconnected")
    /\ ReaderGoto(p, s, "reading")
    /\ UNCHANGED <<loop, gen, sub, disc, proc, started, clock>>

\* End of the pipe; cmd.Wait closes it and what is unread may be lost.
ReadEOF(p, s) ==
    /\ reader[p][s] = "reading"
    /\ proc[p].status = "exited"
    /\ proc[p].out[s] = <<>> \/ proc[p].waited
    /\ ReaderGoto(p, s, "done")
    /\ UNCHANGED <<m, loop, gen, sub, disc, proc, started, clock>>

ReaderStep(p, s) ==
    \/ ReadOTPPrompt(p, s) \/ ReadCredentialPrompt(p, s) \/ ReadGatewayLogin(p, s)
    \/ ReadParseError(p, s) \/ ReadEstablished(p, s) \/ MarkConnected(p, s)
    \/ ReadBye(p, s) \/ MarkDisconnected(p, s) \/ ReadEOF(p, s)

-----------------------------------------------------------------------------
(* submitGeneratedOTP, the goroutine that answers a prompt on pipe p.      *)

\* generateNextTOTP: the current step, or the one after the last code sent.
\* Mutant: the step of the last code counts as a later one.
NextStepAtOnce(afterStep) ==
    IF afterStep >= 0 /\ clock < afterStep THEN afterStep + 1 ELSE clock

NextStep(afterStep) ==
    IF afterStep >= 0 /\ clock <= afterStep THEN afterStep + 1 ELSE clock

ActiveAuth(p) == m.state = "connecting" /\ m.stdin = p

\* An undecodable secret fails here.
GenerateOTP(p) ==
    /\ gen[p].pc = "generate"
    /\ \/ gen' = [gen EXCEPT ![p].pc = "wait", ![p].step = NextStep(gen[p].afterStep)]
       \/ gen' = [gen EXCEPT ![p].pc = "fail"]
    /\ UNCHANGED <<m, loop, reader, sub, disc, proc, started, clock>>

\* waitForActiveAuth and the test after it.
WaitForActiveAuth(p) ==
    /\ gen[p].pc = "wait"
    /\ \/ ActiveAuth(p) /\ clock >= gen[p].step /\ gen' = [gen EXCEPT ![p].pc = "write"]
       \/ ~ActiveAuth(p) /\ gen' = [gen EXCEPT ![p] = IdleGen]
    /\ UNCHANGED <<m, loop, reader, sub, disc, proc, started, clock>>

WriteOTP(p) ==
    /\ gen[p].pc = "write"
    /\ \/ CanWrite(p) /\ proc' = Written(p) /\ gen' = [gen EXCEPT ![p].pc = "record"]
       \/ ~CanWrite(p) /\ gen' = [gen EXCEPT ![p].pc = "fail"] /\ UNCHANGED proc
    /\ UNCHANGED <<m, loop, reader, sub, disc, started, clock>>

\* Mutant: the generator stays in flight after its code.
RecordKeepsInFlight(p) ==
    /\ gen[p].pc = "record"
    /\ m' = IF m.stdin = p
            THEN [RecordAuthResponse EXCEPT !.lastAutoOTPStep = gen[p].step]
            ELSE m
    /\ gen' = [gen EXCEPT ![p] = IdleGen]
    /\ UNCHANGED <<loop, reader, sub, disc, proc, started, clock>>

RecordOTP(p) ==
    /\ gen[p].pc = "record"
    /\ m' = IF m.stdin = p
            THEN [RecordAuthResponse EXCEPT !.lastAutoOTPStep = gen[p].step,
                                            !.autoOTPInFlight = FALSE]
            ELSE m
    /\ gen' = [gen EXCEPT ![p] = IdleGen]
    /\ UNCHANGED <<loop, reader, sub, disc, proc, started, clock>>

\* Mutant: the fallback to the user leaves the generator in flight.
FailKeepsInFlight(p) ==
    /\ gen[p].pc = "fail"
    /\ m' = IF ActiveAuth(p) THEN [m EXCEPT !.awaitingOTP = TRUE] ELSE m
    /\ gen' = [gen EXCEPT ![p] = IdleGen]
    /\ UNCHANGED <<loop, reader, sub, disc, proc, started, clock>>

FailGeneratedOTP(p) ==
    /\ gen[p].pc = "fail"
    /\ m' = IF ActiveAuth(p) THEN [m EXCEPT !.autoOTPInFlight = FALSE, !.awaitingOTP = TRUE] ELSE m
    /\ gen' = [gen EXCEPT ![p] = IdleGen]
    /\ UNCHANGED <<loop, reader, sub, disc, proc, started, clock>>

GenStep(p) == \/ GenerateOTP(p) \/ WaitForActiveAuth(p) \/ WriteOTP(p)
              \/ RecordOTP(p) \/ FailGeneratedOTP(p)

-----------------------------------------------------------------------------
(* SubmitOTP.  A rejected call changes nothing here.                       *)

SubmitOTP(u) ==
    /\ sub[u].pc = "idle"
    /\ m.state = "connecting" /\ m.awaitingOTP /\ m.stdin # NoProc
    /\ m' = [m EXCEPT !.awaitingOTP = FALSE]
    /\ \E tokens \in 1..MaxTokens:
          sub' = [sub EXCEPT ![u] = [pc |-> "write", stdin |-> m.stdin, left |-> tokens]]
    /\ UNCHANGED <<loop, reader, gen, disc, proc, started, clock>>

SubmitWrite(u) ==
    /\ sub[u].pc = "write"
    /\ \/ /\ CanWrite(sub[u].stdin)
          /\ proc' = Written(sub[u].stdin)
          /\ sub' = [sub EXCEPT ![u].pc = "record"]
       \/ /\ ~CanWrite(sub[u].stdin)
          /\ sub' = [sub EXCEPT ![u] = IdleSub]
          /\ UNCHANGED proc
    /\ UNCHANGED <<m, loop, reader, gen, disc, started, clock>>

\* recordAuthResponse does not ask which process the token went to.
SubmitRecord(u) ==
    /\ sub[u].pc = "record"
    /\ m' = RecordAuthResponse
    /\ sub' = [sub EXCEPT ![u] = IF sub[u].left = 1 THEN IdleSub
                                 ELSE [sub[u] EXCEPT !.pc = "write", !.left = @ - 1]]
    /\ UNCHANGED <<loop, reader, gen, disc, proc, started, clock>>

SubmitStep(u) == SubmitWrite(u) \/ SubmitRecord(u)

-----------------------------------------------------------------------------
(* Disconnect.                                                             *)

DisconnectNoop ==
    /\ m.state \in {"disconnected", "disconnecting"}
    /\ m' = [m EXCEPT !.stopRequested = TRUE]
    /\ UNCHANGED <<loop, reader, gen, sub, disc, proc, started, clock>>

Disconnect(d) ==
    /\ disc[d].pc = "idle"
    /\ m.state \notin {"disconnected", "disconnecting"}
    /\ m' = [SetState("disconnecting") EXCEPT !.stopRequested = TRUE]
    /\ disc' = [disc EXCEPT ![d] = [IdleDisc EXCEPT !.cmd = m.cmd,
                                        !.pc = IF m.cmd = NoProc THEN "tail" ELSE "grab"]]
    /\ UNCHANGED <<loop, reader, gen, sub, proc, started, clock>>

GrabStdin(d) ==
    /\ disc[d].pc = "grab"
    /\ m' = [m EXCEPT !.stdin = NoProc, !.awaitingOTP = FALSE]
    /\ disc' = [disc EXCEPT ![d].pc = "signal", ![d].stdin = m.stdin]
    /\ UNCHANGED <<loop, reader, gen, sub, proc, started, clock>>

\* stdin.Close, SIGTERM, and the goroutine that calls cmd.Wait.
CloseAndSignal(d) ==
    LET p == disc[d].cmd
        closed(q) == q = disc[d].stdin
    IN  /\ disc[d].pc = "signal"
        /\ proc' = [q \in Procs |->
                      [proc[q] EXCEPT
                         !.stdinClosed = @ \/ closed(q),
                         !.status = IF q = p /\ @ = "running" THEN "terminated" ELSE @,
                         !.waited = @ \/ q = p]]
        /\ disc' = [disc EXCEPT ![d].pc = "wait"]
        /\ UNCHANGED <<m, loop, reader, gen, sub, started, clock>>

DisconnectWaited(d) ==
    /\ disc[d].pc = "wait"
    /\ proc[disc[d].cmd].status = "exited"
    /\ disc' = [disc EXCEPT ![d].pc = "tail"]
    /\ UNCHANGED <<m, loop, reader, gen, sub, proc, started, clock>>

\* Mutants: the timeout does not kill; the wait has no timeout.
TimeoutWithoutKill(d) ==
    /\ disc[d].pc = "wait"
    /\ disc' = [disc EXCEPT ![d].pc = "tail"]
    /\ UNCHANGED <<m, loop, reader, gen, sub, proc, started, clock>>

NoTimeout(d) == FALSE

\* Eight seconds after the signal.
DisconnectTimeout(d) ==
    /\ disc[d].pc = "wait"
    /\ proc' = [proc EXCEPT ![disc[d].cmd].status = IF @ = "exited" THEN @ ELSE "killed"]
    /\ disc' = [disc EXCEPT ![d].pc = "tail"]
    /\ UNCHANGED <<m, loop, reader, gen, sub, started, clock>>

\* Mutant: the pipe is taken for closed since GrabStdin.
TailKeepsStdin(d) ==
    /\ disc[d].pc = "tail"
    /\ m' = [ClearProcessAuthState EXCEPT !.state = "disconnected", !.reconnectAttempt = 0,
                                          !.sawGatewayLogin = FALSE, !.sawParseError = FALSE,
                                          !.stdin = m.stdin]
    /\ disc' = [disc EXCEPT ![d] = IdleDisc]
    /\ UNCHANGED <<loop, reader, gen, sub, proc, started, clock>>

DisconnectTail(d) ==
    /\ disc[d].pc = "tail"
    /\ m' = [ClearProcessAuthState EXCEPT !.state = "disconnected", !.reconnectAttempt = 0,
                                          !.sawGatewayLogin = FALSE, !.sawParseError = FALSE]
    /\ disc' = [disc EXCEPT ![d] = IdleDisc]
    /\ UNCHANGED <<loop, reader, gen, sub, proc, started, clock>>

DisconnectStep(d) == \/ GrabStdin(d) \/ CloseAndSignal(d) \/ DisconnectWaited(d)
                     \/ DisconnectTimeout(d) \/ DisconnectTail(d)

-----------------------------------------------------------------------------
(* openconnect, as manager.go uses it: it prints lines, reads a token for  *)
(* each prompt and exits when it likes; a killed process only exits.       *)

PrintLine(p, s, line) ==
    /\ Printing(p) /\ ~proc[p].asking /\ proc[p].printed < MaxLines
    /\ LET out == [proc[p].out EXCEPT ![s] = Append(proc[p].out[s], line)]
       IN  proc' = [proc EXCEPT ![p] = [proc[p] EXCEPT !.out = out,
                                                       !.printed = proc[p].printed + 1,
                                                       !.asking = (line = "otp")]]
    /\ UNCHANGED <<m, loop, reader, gen, sub, disc, started, clock>>

ReadToken(p) ==
    /\ Printing(p) /\ proc[p].asking /\ proc[p].inbox > 0
    /\ proc' = [proc EXCEPT ![p].asking = FALSE, ![p].inbox = @ - 1]
    /\ UNCHANGED <<m, loop, reader, gen, sub, disc, started, clock>>

Exit(p) ==
    /\ Alive(p)
    /\ proc' = [proc EXCEPT ![p].status = "exited", ![p].asking = FALSE, ![p].inbox = 0]
    /\ UNCHANGED <<m, loop, reader, gen, sub, disc, started, clock>>

NextWindow ==
    /\ clock < MaxWindow
    /\ clock' = clock + 1
    /\ UNCHANGED <<m, loop, reader, gen, sub, disc, proc, started>>

-----------------------------------------------------------------------------
Calls == \/ \E l \in Loops, req \in Requests: Connect(l, req)
         \/ \E u \in Submits: SubmitOTP(u)
         \/ \E d \in Disconnects: Disconnect(d)
         \/ Disconnects # {} /\ DisconnectNoop

Goroutines == \/ \E l \in Loops: LoopStep(l)
              \/ \E p \in Procs, s \in Streams: ReaderStep(p, s)
              \/ \E p \in Procs: GenStep(p)
              \/ \E u \in Submits: SubmitStep(u)
              \/ \E d \in Disconnects: DisconnectStep(d)

Environment == \/ \E p \in Procs, s \in Streams, line \in Lines: PrintLine(p, s, line)
               \/ \E p \in Procs: ReadToken(p) \/ Exit(p)
               \/ NextWindow

Next == Calls \/ Goroutines \/ Environment

Spec == Init /\ [][Next]_vars

(* Go runs every goroutine that can run, the timeouts fire, the kernel     *)
(* ends a killed process.  Nobody has to call, print or exit.              *)
Fairness ==
    /\ \A l \in Loops: WF_vars(LoopStep(l))
    /\ \A p \in Procs: /\ \A s \in Streams: WF_vars(ReaderStep(p, s))
                       /\ WF_vars(GenStep(p))
                       /\ WF_vars(proc[p].status = "killed" /\ Exit(p))
    /\ \A u \in Submits: WF_vars(SubmitStep(u))
    /\ \A d \in Disconnects: WF_vars(DisconnectStep(d))
    /\ WF_vars(NextWindow)

FairSpec == Spec /\ Fairness

-----------------------------------------------------------------------------
(* Properties.                                                             *)

\* Whoever can write to an authentication pipe writes to the process that
\* Disconnect would stop (the registration of runOpenConnect against the grab
\* and the tail of Disconnect, which reset it whosever it is by then).
StdinIsRegistered == m.stdin # NoProc => m.stdin = m.cmd

\* A prompt is answered by the user or by the generator, never by both
\* (noteOTPPrompt, failGeneratedOTP).
OneAnswerer == ~(m.awaitingOTP /\ m.autoOTPInFlight)

\* The code about to be written belongs to a later time step than every code
\* recorded before it (noteOTPPrompt, generateNextTOTP, submitGeneratedOTP).
FreshCode ==
    \A p \in Procs:
        m.stdin = p /\ gen[p].pc \in {"wait", "write"} => gen[p].step > m.lastAutoOTPStep

\* The manager does not believe in a generator that is gone: while the login is
\* active, autoOTPInFlight means that a goroutine will still answer or fall back.
InFlightHasGenerator ==
    m.autoOTPInFlight /\ m.stdin # NoProc /\ m.state = "connecting" => gen[m.stdin].pc # "idle"

\* A Disconnect that found a process returns only when it is dead or killed.
CapturedIsStopped ==
    \A d \in Disconnects:
        disc[d].pc = "tail" /\ disc[d].cmd # NoProc
            => proc[disc[d].cmd].status \in {"killed", "exited"}

\* The goroutine of Connect that started p is still in runOpenConnect for it.
HasProcess  == {"register", "password", "token", "record", "auth-failed", "stream", "reap"}
Holds(l, p) == loop[l].proc = p /\ loop[l].pc \in HasProcess

\* However the goroutines of Connect and the callers of Disconnect overlap, a
\* process nobody signalled is waited for by exactly one goroutine. The exception is
\* a closed pipe: Disconnect may close that of another process than it signals, and
\* the error return of writeInitialAuth neither waits nor kills.
RunningIsHeld ==
    \A p \in Procs:
        proc[p].status = "running" /\ ~proc[p].stdinClosed =>
            \E l \in Loops: Holds(l, p) /\ \A k \in Loops: Holds(k, p) => k = l

\* What is registered is not left over from a goroutine that went on: it is in
\* runOpenConnect for that process, or about to clear the registration.
RegisteredIsHeld ==
    m.cmd # NoProc =>
        \E l \in Loops: Holds(l, m.cmd) \/ (loop[l].proc = m.cmd /\ loop[l].pc = "clear")

\* When the goroutine of Connect is gone, so are its process, its pipe and its
\* prompt, and the state says so.
IdleIsDown ==
    (\A l \in Loops: loop[l].pc = "idle") =>
        /\ m.state \in {"disconnected", "error"}
        /\ m.cmd = NoProc /\ m.stdin = NoProc /\ ~m.awaitingOTP
        /\ \A p \in Procs: ~Alive(p)

\* A prompt that openconnect is blocked on, and whose line was handled, has
\* somebody to answer it: the user, a goroutine, or a token on its way.
OpenPromptIsServed ==
    \A p \in Procs:
        proc[p].asking /\ m.stdin = p /\ m.state = "connecting"
        /\ (\A s \in Streams: proc[p].out[s] = <<>> /\ reader[p][s] = "reading")
        => \/ proc[p].inbox > 0
           \/ m.awaitingOTP
           \/ gen[p].pc \notin {"idle", "record"}
           \/ \E u \in Submits: sub[u].pc = "write" /\ sub[u].stdin = p
           \/ \E u \in Submits: sub[u].pc = "record" /\ sub[u].stdin = p /\ sub[u].left > 1
           \/ \E l \in Loops: loop[l].proc = p /\ loop[l].pc \in {"token", "record"}

\* The same for the user alone: without a TOTP secret, while no token of an earlier
\* process can still be on its way to SubmitOTP's counter, with one token per
\* call and all prompts on one pipe, no interleaving of tokens and prompts loses
\* a prompt. (A call of two tokens, or a line handled late on a second pipe, does.)
ManualPromptIsServed == ~m.otpSecret /\ started <= 1 => OpenPromptIsServed

\* Once Disconnect returned, and until somebody connects again, no process runs
\* and the manager does not say that one does.
DisconnectStops ==
    m.stopRequested /\ (\A d \in Disconnects: disc[d].pc = "idle")
        => m.state \notin {"connecting", "connected"} /\ \A p \in Procs: ~Printing(p)

\* Every Disconnect returns.
DisconnectReturns == \A d \in Disconnects: disc[d].pc # "idle" ~> disc[d].pc = "idle"

\* The process a Disconnect found exits in the end.
CapturedExits ==
    \A d \in Disconnects, p \in Procs:
        disc[d].pc = "grab" /\ disc[d].cmd = p ~> proc[p].status = "exited"

\* A goroutine of Connect that a stop must end: it decides on a reconnect or waits
\* for its time, or waits for a process that a Disconnect has found. (Not so where a
\* process is prepared, or is over and the attempt against the gateway may follow.)
MustStop(l) ==
    \/ loop[l].pc \in {"decide", "schedule", "reconnecting", "waiting"}
    \/ /\ loop[l].pc \in {"stream", "reap"}
       /\ \E d \in Disconnects:
             disc[d].pc \in {"grab", "signal", "wait"} /\ disc[d].cmd = loop[l].proc

\* A stop ends such a goroutine, also when it came into the gap between two processes,
\* unless a Connect that is accepted meanwhile takes the stop back: stopRequested is
\* one flag for all goroutines, and the stopped one may then reconnect.
StopEndsLoop ==
    \A l \in Loops: m.stopRequested /\ MustStop(l) ~> loop[l].pc = "idle" \/ ~m.stopRequested
=============================================================================
