-------------------------- MODULE VpnSessionProofs --------------------------
(* Who has which process in hand, for any number of goroutines of Connect  *)
(* and callers of Disconnect.  Then proofs about the sessions that one     *)
(* goroutine of Connect serves: the generated answer in flight; while      *)
(* nobody disconnects, the clean end; and the prompts of a user who logs   *)
(* in by hand.                                                             *)
EXTENDS VpnManagerProofs, FiniteSetTheorems

-----------------------------------------------------------------------------
(* The goroutine of Connect, step by step.                                 *)

Keeps(l) ==
    /\ loop'[l].req = loop[l].req
    /\ loop'[l].proc = loop[l].proc
    /\ loop'[l].outcome = loop[l].outcome

LEMMA GotoKeeps ==
  ASSUME TypeOK, NEW l \in Loops, NEW pc, Goto(l, pc)
  PROVE  loop'[l].pc = pc /\ Keeps(l)
  <1>1. loop \in [Loops -> LoopRecord]
    BY DEF TypeOK
  <1> QED BY <1>1, ZenonT(60) DEF Goto, LoopRecord, Keeps

LEMMA ReturnFails ==
  ASSUME TypeOK, NEW l \in Loops, Return(l, "failed")
  PROVE  /\ loop'[l].pc = "returned" /\ loop'[l].outcome = "failed"
         /\ loop'[l].req = loop[l].req /\ loop'[l].proc = loop[l].proc
  <1>1. loop \in [Loops -> LoopRecord]
    BY DEF TypeOK
  <1> QED BY <1>1, ZenonT(60) DEF Return, LoopRecord

LEMMA LoopMoves ==
  ASSUME TypeOK, NEW l \in Loops, LoopStep(l)
  PROVE  \/ LoopTop(l) /\ loop'[l].pc = "prepare" /\ Keeps(l)
         \/ /\ StartProcess(l) /\ loop'[l].pc = "register" /\ loop'[l].proc = started + 1
            /\ loop'[l].req = loop[l].req /\ loop'[l].outcome = loop[l].outcome
         \/ /\ StartFails(l) \/ AuthFailed(l)
            /\ loop'[l].pc = "returned" /\ loop'[l].outcome = "failed"
            /\ loop'[l].req = loop[l].req /\ loop'[l].proc = loop[l].proc
         \/ RegisterProcess(l) /\ loop'[l].pc = "password" /\ Keeps(l)
         \/ /\ WritePassword(l) /\ Keeps(l)
            /\ \/ CanWrite(loop[l].proc) /\ loop'[l].pc \in {"token", "stream"}
               \/ ~CanWrite(loop[l].proc) /\ loop'[l].pc = "auth-failed"
         \/ /\ WriteToken(l) /\ Keeps(l)
            /\ \/ CanWrite(loop[l].proc) /\ loop'[l].pc = "record"
               \/ ~CanWrite(loop[l].proc) /\ loop'[l].pc = "auth-failed"
         \/ RecordToken(l) /\ loop'[l].pc \in {"token", "stream"} /\ Keeps(l)
         \/ StartStreams(l) /\ loop'[l].pc = "reap" /\ Keeps(l)
         \/ /\ ReapProcess(l) /\ loop'[l].pc = "clear"
            /\ loop'[l].req = loop[l].req /\ loop'[l].proc = loop[l].proc
            /\ \E waitErr \in BOOLEAN:
                  loop'[l].outcome = ClassifyOpenConnectExit(loop[l].proc, waitErr)
         \/ ClearAuth(l) /\ loop'[l].pc = "settle" /\ Keeps(l)
         \/ SettleState(l) /\ loop'[l].pc = "returned" /\ Keeps(l)
         \/ GPClientReturns(l) /\ loop'[l].pc \in {"prepare", "decide"} /\ Keeps(l)
         \/ DecideReconnect(l) /\ loop'[l].pc \in {"fail", "schedule"} /\ Keeps(l)
         \/ /\ DecideReconnect(l) /\ loop'[l] = IdleLoop
            /\ loop[l].outcome \in {"stopped", "clean"} \/ m.stopRequested
         \/ ScheduleReconnect(l) /\ loop'[l].pc = "reconnecting" /\ Keeps(l)
         \/ SetReconnecting(l) /\ loop'[l].pc = "waiting" /\ Keeps(l)
         \/ WaitBeforeReconnect(l) /\ loop'[l].pc = "top" /\ Keeps(l)
         \/ WaitBeforeReconnect(l) /\ loop'[l] = IdleLoop /\ m.stopRequested
         \/ FailConnect(l) /\ loop'[l] = IdleLoop
  <1>0. loop \in [Loops -> LoopRecord] /\ loop[l] \in LoopRecord
    BY DEF TypeOK
  <1>1. CASE LoopTop(l)
    BY <1>0, <1>1, ZenonT(60) DEF LoopTop, LoopRecord, Keeps
  <1>2. CASE StartProcess(l)
    BY <1>0, <1>2, ZenonT(60) DEF StartProcess, LoopRecord
  <1>3. CASE StartFails(l) \/ AuthFailed(l)
    BY <1>3, ReturnFails DEF StartFails, AuthFailed
  <1>4. CASE RegisterProcess(l)
    BY <1>0, <1>4, ZenonT(60) DEF RegisterProcess, LoopRecord, Keeps
  <1>5. CASE WritePassword(l)
    BY <1>5, GotoKeeps DEF WritePassword, AfterWrite
  <1>6. CASE WriteToken(l)
    BY <1>6, GotoKeeps DEF WriteToken
  <1>7. CASE RecordToken(l)
    <2>1. loop'[l].pc = AfterWrite(loop[l].left - 1) /\ Keeps(l)
      BY <1>0, <1>7, ZenonT(60) DEF RecordToken, LoopRecord, Keeps
    <2> QED BY <1>7, <2>1 DEF AfterWrite
  <1>8. CASE ReapProcess(l)
    <2>1. PICK waitErr \in BOOLEAN:
             loop' = [loop EXCEPT ![l].pc = "clear",
                                  ![l].outcome = ClassifyOpenConnectExit(loop[l].proc, waitErr)]
      BY <1>8 DEF ReapProcess
    <2>2. /\ loop'[l].pc = "clear"
          /\ loop'[l].req = loop[l].req /\ loop'[l].proc = loop[l].proc
          /\ loop'[l].outcome = ClassifyOpenConnectExit(loop[l].proc, waitErr)
      BY <1>0, <2>1, ZenonT(60) DEF LoopRecord
    <2> QED BY <1>8, <2>2
  <1>9. CASE GPClientReturns(l)
    <2>1. loop'[l].pc \in {"prepare", "decide"} /\ Keeps(l)
      <3>1. CASE loop' = [loop EXCEPT ![l].pc = "prepare", ![l].direct = TRUE]
        BY <1>0, <3>1, ZenonT(60) DEF LoopRecord, Keeps
      <3>2. CASE Goto(l, "decide")
        BY <3>2, GotoKeeps
      <3> QED BY <1>9, <3>1, <3>2 DEF GPClientReturns
    <2> QED BY <1>9, <2>1
  <1>10. CASE DecideReconnect(l)
    <2>1. CASE loop' = [loop EXCEPT ![l].pc = "schedule", ![l].attempt = @ + 1]
      <3>1. loop'[l].pc = "schedule" /\ Keeps(l)
        BY <1>0, <2>1, ZenonT(60) DEF LoopRecord, Keeps
      <3> QED BY <1>10, <3>1
    <2>2. CASE Goto(l, "fail")
      BY <1>10, <2>2, GotoKeeps
    <2>3. CASE Finish(l) /\ (loop[l].outcome \in {"stopped", "clean"} \/ m.stopRequested)
      BY <1>0, <1>10, <2>3 DEF Finish
    <2> QED BY <1>10, <2>1, <2>2, <2>3 DEF DecideReconnect
  <1>11. CASE \/ StartStreams(l) \/ ClearAuth(l) \/ SettleState(l)
              \/ ScheduleReconnect(l) \/ SetReconnecting(l)
    BY <1>11, GotoKeeps
       DEF StartStreams, ClearAuth, SettleState, ScheduleReconnect, SetReconnecting
  <1>12. CASE WaitBeforeReconnect(l)
    BY <1>0, <1>12, GotoKeeps DEF WaitBeforeReconnect, Finish
  <1>13. CASE FailConnect(l)
    BY <1>0, <1>13 DEF FailConnect, Finish
  <1> QED
    BY <1>1, <1>2, <1>3, <1>4, <1>5, <1>6, <1>7, <1>8, <1>9, <1>10, <1>11, <1>12, <1>13
       DEF LoopStep

LEMMA LoopChanges ==
  ASSUME [Next]_vars
  PROVE  \/ \E l \in Loops: LoopStep(l)
         \/ \E l \in Loops, req \in Requests: Connect(l, req)
         \/ UNCHANGED loop
  <1>1. ASSUME NEW u \in Submits, SubmitOTP(u) \/ SubmitStep(u)
        PROVE  UNCHANGED loop
    BY <1>1 DEF SubmitOTP, SubmitStep, SubmitWrite, SubmitRecord
  <1> QED BY <1>1, OtherSteps

LEMMA ConnectEffect ==
  ASSUME TypeOK, NEW l \in Loops, NEW req \in Requests, Connect(l, req)
  PROVE  /\ loop[l].pc = "idle"
         /\ loop'[l].pc = "top" /\ loop'[l].proc = NoProc
         /\ loop'[l].req = req /\ loop'[l].outcome = "none"
         /\ \A k \in Loops: k # l => loop'[k] = loop[k]
         /\ m'.state = "connecting" /\ ~m'.stopRequested /\ (m'.awaitingOTP => m.awaitingOTP)
         /\ m'.cmd = m.cmd /\ m'.stdin = m.stdin
         /\ UNCHANGED <<reader, gen, sub, disc, proc, started, clock>>
  <1>1. loop \in [Loops -> LoopRecord] /\ m \in Manager
    BY DEF TypeOK
  <1>2. loop'[l] = [IdleLoop EXCEPT !.pc = "top", !.req = req]
    BY <1>1 DEF Connect
  <1>3. loop'[l].pc = "top" /\ loop'[l].proc = NoProc /\ loop'[l].req = req /\ loop'[l].outcome = "none"
    BY <1>2 DEF IdleLoop
  <1>4. \A k \in Loops: k # l => loop'[k] = loop[k]
    BY <1>1 DEF Connect
  <1>5. m' = [SetState("connecting") EXCEPT !.stopRequested = FALSE]
    BY DEF Connect
  <1>6. m'.state = "connecting" /\ ~m'.stopRequested /\ (m'.awaitingOTP => m.awaitingOTP)
        /\ m'.cmd = m.cmd /\ m'.stdin = m.stdin
    BY <1>1, <1>5, ZenonT(60) DEF SetState, Manager
  <1> QED BY <1>3, <1>4, <1>6 DEF Connect

-----------------------------------------------------------------------------
(* Who has a process in hand.                                              *)

LEMMA ProcMoves ==
  ASSUME TypeOK, [Next]_vars, NEW q \in Procs
  PROVE  \/ proc'[q] = proc[q]
         \/ \E l \in Loops: /\ LoopStep(l) /\ StartProcess(l) /\ q = started + 1
                            /\ proc'[q] = [proc[q] EXCEPT !.status = "running"]
         \/ /\ \/ \E l \in Loops: LoopStep(l) /\ WriteToken(l) /\ loop[l].proc = q
               \/ \E u \in Submits: SubmitWrite(u) /\ sub[u].stdin = q
               \/ WriteOTP(q)
            /\ CanWrite(q)
            /\ proc'[q] = [proc[q] EXCEPT !.inbox = @ + 1]
         \/ \E l \in Loops: /\ LoopStep(l) /\ AuthFailed(l) /\ loop[l].proc = q
                            /\ proc'[q] = [proc[q] EXCEPT !.stdinClosed = TRUE]
         \/ \E s \in Streams: /\ ReaderStep(q, s) /\ reader[q][s] = "reading"
                              /\ proc[q].out[s] # <<>>
                              /\ proc'[q] = [proc[q] EXCEPT !.out[s] = Tail(@)]
         \/ \E s \in Streams, line \in Lines: PrintLine(q, s, line)
         \/ ReadToken(q)
         \/ Exit(q)
         \/ \E d \in Disconnects: DisconnectStep(d)
  <1>0. proc \in [Procs -> ProcRecord]
    BY DEF TypeOK
  <1>1. ASSUME NEW l \in Loops, LoopStep(l)
        PROVE  \/ proc'[q] = proc[q]
               \/ /\ StartProcess(l) /\ q = started + 1
                  /\ proc'[q] = [proc[q] EXCEPT !.status = "running"]
               \/ /\ WriteToken(l) /\ loop[l].proc = q /\ CanWrite(q)
                  /\ proc'[q] = [proc[q] EXCEPT !.inbox = @ + 1]
               \/ /\ AuthFailed(l) /\ loop[l].proc = q
                  /\ proc'[q] = [proc[q] EXCEPT !.stdinClosed = TRUE]
    <2>1. CASE StartProcess(l)
      BY <1>0, <2>1, ZenonT(60) DEF StartProcess
    <2>2. CASE WriteToken(l)
      BY <1>0, <2>2, ZenonT(60) DEF WriteToken, Written
    <2>3. CASE AuthFailed(l)
      BY <1>0, <2>3, ZenonT(60) DEF AuthFailed
    <2>4. CASE UNCHANGED proc
      BY <2>4
    <2> QED BY <1>1, <2>1, <2>2, <2>3, <2>4
            DEF LoopStep, LoopTop, StartFails, RegisterProcess, WritePassword, RecordToken,
                StartStreams, ReapProcess, ClearAuth, SettleState, GPClientReturns,
                DecideReconnect, ScheduleReconnect, SetReconnecting, WaitBeforeReconnect,
                FailConnect
  <1>2. ASSUME NEW p \in Procs, NEW s \in Streams, ReaderStep(p, s)
        PROVE  \/ proc'[q] = proc[q]
               \/ /\ p = q /\ reader[q][s] = "reading" /\ proc[q].out[s] # <<>>
                  /\ proc'[q] = [proc[q] EXCEPT !.out[s] = Tail(@)]
    <2>1. ASSUME NEW line, NextLine(p, s, line)
          PROVE  \/ proc'[q] = proc[q]
                 \/ /\ p = q /\ reader[q][s] = "reading" /\ proc[q].out[s] # <<>>
                    /\ proc'[q] = [proc[q] EXCEPT !.out[s] = Tail(@)]
      BY <1>0, <2>1, ZenonT(60) DEF NextLine
    <2> QED BY <1>2, <2>1
            DEF ReaderStep, ReadOTPPrompt, ReadCredentialPrompt, ReadGatewayLogin,
                ReadParseError, ReadEstablished, MarkConnected, ReadBye, MarkDisconnected,
                ReadEOF
  <1>3. ASSUME NEW p \in Procs, GenStep(p)
        PROVE  \/ proc'[q] = proc[q]
               \/ /\ WriteOTP(q) /\ CanWrite(q)
                  /\ proc'[q] = [proc[q] EXCEPT !.inbox = @ + 1]
    <2>1. CASE WriteOTP(p)
      BY <1>0, <2>1, ZenonT(60) DEF WriteOTP, Written
    <2> QED BY <1>3, <2>1 DEF GenStep, GenerateOTP, WaitForActiveAuth, RecordOTP,
                              FailGeneratedOTP
  <1>4. ASSUME NEW u \in Submits, SubmitStep(u)
        PROVE  \/ proc'[q] = proc[q]
               \/ /\ SubmitWrite(u) /\ sub[u].stdin = q /\ CanWrite(q)
                  /\ proc'[q] = [proc[q] EXCEPT !.inbox = @ + 1]
    <2>1. CASE SubmitWrite(u)
      BY <1>0, <2>1, ZenonT(60) DEF SubmitWrite, Written
    <2> QED BY <1>4, <2>1 DEF SubmitStep, SubmitRecord
  <1>5. ASSUME NEW p \in Procs, NEW s \in Streams, NEW line \in Lines, PrintLine(p, s, line)
        PROVE  proc'[q] = proc[q] \/ p = q
    BY <1>0, <1>5, ZenonT(60) DEF PrintLine
  <1>6. ASSUME NEW p \in Procs, ReadToken(p) \/ Exit(p)
        PROVE  proc'[q] = proc[q] \/ p = q
    BY <1>0, <1>6, ZenonT(60) DEF ReadToken, Exit
  <1>7. CASE Calls \/ NextWindow \/ UNCHANGED vars
    <2>1. ASSUME Calls
          PROVE  UNCHANGED proc
      BY <2>1, ZenonT(30) DEF Calls, Connect, SubmitOTP, Disconnect, DisconnectNoop
    <2>2. NextWindow \/ UNCHANGED vars => UNCHANGED proc
      BY DEF NextWindow, vars
    <2> QED BY <1>7, <2>1, <2>2
  <1>8. \/ \E l \in Loops: LoopStep(l)
        \/ \E p \in Procs, s \in Streams: ReaderStep(p, s)
        \/ \E p \in Procs: GenStep(p)
        \/ \E u \in Submits: SubmitStep(u)
        \/ \E p \in Procs, s \in Streams, line \in Lines: PrintLine(p, s, line)
        \/ \E p \in Procs: ReadToken(p) \/ Exit(p)
        \/ \E d \in Disconnects: DisconnectStep(d)
        \/ Calls \/ NextWindow \/ UNCHANGED vars
    BY DEF Next, Goroutines, Environment
  <1>9. CASE \E l \in Loops: LoopStep(l)
    BY <1>1, <1>9
  <1>10. CASE \E p \in Procs, s \in Streams: ReaderStep(p, s)
    BY <1>2, <1>10
  <1>11. CASE \E p \in Procs: GenStep(p)
    BY <1>3, <1>11
  <1>12. CASE \E u \in Submits: SubmitStep(u)
    BY <1>4, <1>12
  <1>13. CASE \/ \E p \in Procs, s \in Streams, line \in Lines: PrintLine(p, s, line)
              \/ \E p \in Procs: ReadToken(p) \/ Exit(p)
    BY <1>5, <1>6, <1>13
  <1> QED BY <1>7, <1>8, <1>9, <1>10, <1>11, <1>12, <1>13

\* A process that runs with its pipe open was in that state before, or was started.
Open(p) == proc[p].status = "running" /\ ~proc[p].stdinClosed

LEMMA OpenStep ==
  ASSUME TypeOK, [Next]_vars, NEW q \in Procs, Open(q)'
  PROVE  \/ Open(q) /\ ~\E l \in Loops: LoopStep(l) /\ AuthFailed(l) /\ loop[l].proc = q
         \/ \E l \in Loops: LoopStep(l) /\ StartProcess(l) /\ q = started + 1
  <1>0. proc \in [Procs -> ProcRecord] /\ proc[q] \in ProcRecord
    BY DEF TypeOK
  <1>1. ASSUME NEW l \in Loops, AuthFailed(l), loop[l].proc = q
        PROVE  FALSE
    <2>1. proc'[q].stdinClosed
      BY <1>0, <1>1, ZenonT(60) DEF AuthFailed, ProcRecord
    <2> QED BY <2>1 DEF Open
  <1>2. CASE proc'[q] = proc[q]
    BY <1>1, <1>2 DEF Open
  <1>3. CASE proc'[q] = [proc[q] EXCEPT !.inbox = @ + 1]
    <2>1. proc'[q].status = proc[q].status /\ proc'[q].stdinClosed = proc[q].stdinClosed
      BY <1>0, <1>3, ZenonT(60) DEF ProcRecord
    <2> QED BY <1>1, <2>1 DEF Open
  <1>4. ASSUME NEW s \in Streams, proc'[q] = [proc[q] EXCEPT !.out[s] = Tail(@)]
        PROVE  Open(q)
    <2>1. proc'[q].status = proc[q].status /\ proc'[q].stdinClosed = proc[q].stdinClosed
      BY <1>0, <1>4, ZenonT(60) DEF ProcRecord
    <2> QED BY <2>1 DEF Open
  <1>5. ASSUME NEW s \in Streams, NEW line \in Lines, PrintLine(q, s, line)
        PROVE  Open(q)
    <2> DEFINE out == [proc[q].out EXCEPT ![s] = Append(proc[q].out[s], line)]
    <2>1. proc'[q] = [proc[q] EXCEPT !.out = out, !.printed = proc[q].printed + 1,
                                     !.asking = (line = "otp")]
      BY <1>0, <1>5 DEF PrintLine
    <2> HIDE DEF out
    <2>2. proc'[q].status = proc[q].status /\ proc'[q].stdinClosed = proc[q].stdinClosed
      BY <1>0, <2>1, ZenonT(60) DEF ProcRecord
    <2> QED BY <2>2 DEF Open
  <1>6. CASE ReadToken(q)
    <2>1. proc'[q].status = proc[q].status /\ proc'[q].stdinClosed = proc[q].stdinClosed
      BY <1>0, <1>6, ZenonT(60) DEF ReadToken, ProcRecord
    <2> QED BY <1>1, <2>1 DEF Open
  <1>7. CASE Exit(q)
    <2>1. proc'[q].status = "exited"
      BY <1>0, <1>7, ZenonT(60) DEF Exit, ProcRecord
    <2> QED BY <2>1 DEF Open
  <1>8. ASSUME NEW d \in Disconnects, DisconnectStep(d)
        PROVE  Open(q)
    <2>1. CASE CloseAndSignal(d)
      <3>1. /\ proc'[q].status \in {proc[q].status, "terminated"}
            /\ proc[q].stdinClosed => proc'[q].stdinClosed
        BY <1>0, <2>1, ZenonT(60) DEF CloseAndSignal, ProcRecord
      <3> QED BY <3>1 DEF Open
    <2>2. CASE DisconnectTimeout(d)
      <3>1. CASE q = disc[d].cmd
        <4>1. proc'[q].status \in {"exited", "killed"}
          BY <1>0, <2>2, <3>1, ZenonT(60) DEF DisconnectTimeout, ProcRecord
        <4> QED BY <4>1 DEF Open
      <3>2. CASE q # disc[d].cmd
        BY <1>0, <2>2, <3>2 DEF DisconnectTimeout, Open
      <3> QED BY <3>1, <3>2
    <2>3. CASE GrabStdin(d) \/ DisconnectWaited(d) \/ DisconnectTail(d)
      BY <2>3 DEF GrabStdin, DisconnectWaited, DisconnectTail, Open
    <2> QED BY <1>8, <2>1, <2>2, <2>3 DEF DisconnectStep
  <1> QED BY <1>1, <1>2, <1>3, <1>4, <1>5, <1>6, <1>7, <1>8, ProcMoves

\* Whoever holds a process held it before, or started it.
LEMMA HoldsBefore ==
  ASSUME TypeOK, [Next]_vars, NEW l \in Loops, NEW p \in Procs, Holds(l, p)'
  PROVE  Holds(l, p) \/ (LoopStep(l) /\ StartProcess(l) /\ p = started + 1)
  <1>1. CASE LoopStep(l)
    <2>1. /\ RegisterProcess(l) => loop[l].pc = "register"
          /\ WritePassword(l) => loop[l].pc = "password"
          /\ WriteToken(l) => loop[l].pc = "token"
          /\ RecordToken(l) => loop[l].pc = "record"
          /\ StartStreams(l) => loop[l].pc = "stream"
      BY DEF RegisterProcess, WritePassword, WriteToken, RecordToken, StartStreams
    <2>2. loop'[l].pc \in HasProcess /\ loop'[l].proc = p /\ IdleLoop.pc = "idle"
      BY DEF Holds, IdleLoop
    <2> QED BY <1>1, <2>1, <2>2, LoopMoves DEF Holds, HasProcess, Keeps
  <1>2. CASE \E k \in Loops: LoopStep(k) /\ k # l
    BY <1>2, LoopLocal DEF Holds
  <1>3. CASE \E k \in Loops, req \in Requests: Connect(k, req)
    BY <1>3, ConnectEffect DEF Holds, HasProcess
  <1>4. CASE UNCHANGED loop
    BY <1>4 DEF Holds
  <1> QED BY <1>1, <1>2, <1>3, <1>4, LoopChanges

\* Two steps let a process go: the error return, and the end of cmd.Wait.
LEMMA HoldsAfter ==
  ASSUME TypeOK, [Next]_vars, NEW l \in Loops, NEW p \in Procs, Holds(l, p)
  PROVE  \/ Holds(l, p)'
         \/ LoopStep(l) /\ AuthFailed(l)
         \/ /\ LoopStep(l) /\ ReapProcess(l)
            /\ loop'[l].proc = p /\ loop'[l].pc = "clear"
  <1>0. loop[l].proc = p /\ loop[l].pc \in HasProcess
    BY DEF Holds
  <1>1. CASE LoopStep(l)
    <2>1. \/ RegisterProcess(l) \/ WritePassword(l) \/ WriteToken(l) \/ RecordToken(l)
          \/ StartStreams(l) \/ AuthFailed(l) \/ ReapProcess(l)
      BY <1>0, <1>1
         DEF HasProcess, LoopStep, LoopTop, StartProcess, StartFails, ClearAuth, SettleState,
             GPClientReturns, DecideReconnect, ScheduleReconnect, SetReconnecting,
             WaitBeforeReconnect, FailConnect
    <2>2. CASE RegisterProcess(l)
      <3>1. loop'[l].pc = "password" /\ loop'[l].proc = loop[l].proc
        BY <2>2, ZenonT(60) DEF TypeOK, RegisterProcess, LoopRecord
      <3> QED BY <1>0, <3>1 DEF Holds, HasProcess
    <2>3. CASE WritePassword(l) \/ WriteToken(l) \/ StartStreams(l)
      <3>1. /\ loop'[l].pc \in {"token", "stream", "record", "auth-failed", "reap"}
            /\ loop'[l].proc = loop[l].proc
        BY <2>3, GotoEffect DEF WritePassword, WriteToken, StartStreams, AfterWrite
      <3> QED BY <1>0, <3>1 DEF Holds, HasProcess
    <2>4. CASE RecordToken(l)
      <3>1. loop'[l].pc = AfterWrite(loop[l].left - 1) /\ loop'[l].proc = loop[l].proc
        BY <2>4, ZenonT(60) DEF TypeOK, RecordToken, LoopRecord
      <3> QED BY <1>0, <3>1 DEF Holds, HasProcess, AfterWrite
    <2>5. CASE ReapProcess(l)
      <3>1. PICK waitErr \in BOOLEAN:
               loop' = [loop EXCEPT ![l].pc = "clear",
                                    ![l].outcome = ClassifyOpenConnectExit(loop[l].proc, waitErr)]
        BY <2>5 DEF ReapProcess
      <3>2. loop'[l].pc = "clear" /\ loop'[l].proc = loop[l].proc
        BY <3>1, ZenonT(60) DEF TypeOK, LoopRecord
      <3> QED BY <1>0, <1>1, <2>5, <3>2
    <2> QED BY <1>1, <2>1, <2>2, <2>3, <2>4, <2>5
  <1>2. CASE \E k \in Loops: LoopStep(k) /\ k # l
    BY <1>0, <1>2, LoopLocal DEF Holds
  <1>3. CASE \E k \in Loops, req \in Requests: Connect(k, req)
    BY <1>0, <1>3, ConnectEffect DEF Holds, HasProcess
  <1>4. CASE UNCHANGED loop
    BY <1>0, <1>4 DEF Holds
  <1> QED BY <1>1, <1>2, <1>3, <1>4, LoopChanges

HeldByOne ==
    \A p \in Procs, k, l \in Loops: Holds(k, p) /\ Holds(l, p) => k = l

LEMMA HeldByOneStep ==
  ASSUME TypeOK, Known, HeldByOne, [Next]_vars
  PROVE  HeldByOne'
  <1> SUFFICES ASSUME NEW p \in Procs, NEW k \in Loops, NEW l \in Loops,
                      Holds(k, p)', Holds(l, p)', k # l
               PROVE  FALSE
    BY DEF HeldByOne
  <1>1. ASSUME NEW i \in Loops, NEW j \in Loops, i # j, LoopStep(i), StartProcess(i),
               p = started + 1, Holds(j, p)'
        PROVE  FALSE
    <2>1. loop'[j] = loop[j]
      BY <1>1, LoopLocal
    <2>2. loop[j].proc = started + 1
      BY <1>1, <2>1 DEF Holds
    <2>3. started \in Nat /\ loop[j].proc <= started
      BY BoundsAssumption DEF TypeOK, Known
    <2> QED BY <2>2, <2>3
  <1>2. Holds(k, p) /\ Holds(l, p)
    BY <1>1, HoldsBefore
  <1> QED BY <1>2 DEF HeldByOne

LEMMA RunningIsHeldStep ==
  ASSUME TypeOK, RunningIsHeld, HeldByOne', [Next]_vars
  PROVE  RunningIsHeld'
  <1> SUFFICES ASSUME NEW p \in Procs, Open(p)'
               PROVE  \E l \in Loops: Holds(l, p)'
    BY DEF RunningIsHeld, HeldByOne, Open
  <1>1. CASE \E l \in Loops: LoopStep(l) /\ StartProcess(l) /\ p = started + 1
    <2>1. PICK l \in Loops: LoopStep(l) /\ StartProcess(l) /\ p = started + 1
      BY <1>1
    <2>2. loop'[l].pc = "register" /\ loop'[l].proc = p
      BY <2>1, ZenonT(60) DEF StartProcess, TypeOK, LoopRecord
    <2> QED BY <2>2 DEF Holds, HasProcess
  <1>2. CASE /\ Open(p)
             /\ ~\E l \in Loops: LoopStep(l) /\ AuthFailed(l) /\ loop[l].proc = p
    <2>1. PICK l \in Loops: Holds(l, p)
      BY <1>2 DEF RunningIsHeld, Open
    <2>2. ~(LoopStep(l) /\ AuthFailed(l))
      BY <1>2, <2>1 DEF Holds
    <2>3. ~ReapProcess(l)
      BY <1>2, <2>1 DEF ReapProcess, Holds, Open
    <2> QED BY <2>1, <2>2, <2>3, HoldsAfter
  <1> QED BY <1>1, <1>2, OpenStep

\* About to clear the registration, after the exit of p.
Clears(l, p) == loop[l].proc = p /\ loop[l].pc = "clear"

LEMMA ClearsAfter ==
  ASSUME TypeOK, [Next]_vars, NEW l \in Loops, NEW p \in Procs, Clears(l, p)
  PROVE  Clears(l, p)' \/ ClearAuth(l)
  <1>0. loop[l].proc = p /\ loop[l].pc = "clear"
    BY DEF Clears
  <1>1. CASE LoopStep(l)
    BY <1>0, <1>1
       DEF LoopStep, LoopTop, StartProcess, StartFails, AuthFailed, RegisterProcess,
           WritePassword, WriteToken, RecordToken, StartStreams, ReapProcess,
           SettleState, GPClientReturns, DecideReconnect, ScheduleReconnect,
           SetReconnecting, WaitBeforeReconnect, FailConnect
  <1>2. CASE \E k \in Loops: LoopStep(k) /\ k # l
    BY <1>0, <1>2, LoopLocal DEF Clears
  <1>3. CASE \E k \in Loops, req \in Requests: Connect(k, req)
    BY <1>0, <1>3, ConnectEffect DEF Clears
  <1>4. CASE UNCHANGED loop
    BY <1>0, <1>4 DEF Clears
  <1> QED BY <1>1, <1>2, <1>3, <1>4, LoopChanges

LEMMA RegisteredIsHeldStep ==
  ASSUME TypeOK, RegisteredIsHeld, [Next]_vars
  PROVE  RegisteredIsHeld'
  <1> SUFFICES ASSUME m'.cmd # NoProc
               PROVE  \E l \in Loops: \/ loop'[l].proc = m'.cmd /\ loop'[l].pc \in HasProcess
                                      \/ loop'[l].proc = m'.cmd /\ loop'[l].pc = "clear"
    BY DEF RegisteredIsHeld, Holds
  <1>1. CASE \E l \in Loops: RegisterProcess(l) /\ m'.cmd = loop[l].proc
    <2>1. PICK l \in Loops: RegisterProcess(l) /\ m'.cmd = loop[l].proc
      BY <1>1
    <2>2. loop'[l].pc = "password" /\ loop'[l].proc = loop[l].proc
      BY <2>1, ZenonT(60) DEF TypeOK, RegisterProcess, LoopRecord
    <2> QED BY <2>1, <2>2 DEF HasProcess
  <1>2. CASE m'.cmd = m.cmd
    <2>1. ASSUME NEW l \in Loops, ClearAuth(l) \/ AuthFailed(l)
          PROVE  FALSE
      BY <2>1, ClearCleared DEF AuthFailed, ClearAuth, Cleared, TypeOK
    <2>2. m.cmd \in Procs
      BY <1>2 DEF TypeOK, Manager, ProcOrNo
    <2>3. PICK l \in Loops: Holds(l, m.cmd) \/ Clears(l, m.cmd)
      BY <1>2 DEF RegisteredIsHeld, Clears
    <2>4. CASE Holds(l, m.cmd)
      BY <1>2, <2>1, <2>2, <2>4, HoldsAfter DEF Holds
    <2>5. CASE Clears(l, m.cmd)
      BY <1>2, <2>1, <2>2, <2>5, ClearsAfter DEF Clears
    <2> QED BY <2>3, <2>4, <2>5
  <1> QED BY <1>1, <1>2, PipesStep

HoldInv == SafetyInv /\ HeldByOne /\ RunningIsHeld /\ RegisteredIsHeld

\* The strengthening of the two properties below is inductive.
THEOREM HoldInvariant == Spec => []HoldInv
  <1>1. Init => HoldInv
    <2>1. ASSUME Init
          PROVE  /\ m.cmd = NoProc
                 /\ \A p \in Procs: proc[p].status = "none"
                 /\ \A l \in Loops: loop[l].pc = "idle"
      BY <2>1 DEF Init, NewManager, NoProcess, IdleLoop
    <2>2. Init => HeldByOne /\ RunningIsHeld /\ RegisteredIsHeld
      BY <2>1 DEF HeldByOne, RunningIsHeld, RegisteredIsHeld, Holds, HasProcess
    <2> QED BY <2>2, SafetyInit DEF HoldInv
  <1>2. HoldInv /\ [Next]_vars => HoldInv'
    <2>1. ASSUME HoldInv, [Next]_vars
          PROVE  SafetyInv' /\ HeldByOne' /\ RunningIsHeld' /\ RegisteredIsHeld'
      BY <2>1, SafetyStep, HeldByOneStep, RunningIsHeldStep, RegisteredIsHeldStep
         DEF HoldInv, SafetyInv
    <2> QED BY <2>1 DEF HoldInv
  <1> QED BY <1>1, <1>2, PTL DEF Spec

\* However many goroutines of Connect and callers of Disconnect overlap, a process
\* that nobody signalled and whose pipe is open has exactly one goroutine that will
\* wait for it: the second Connect of manager.go:380 abandons nothing.
THEOREM NoProcessIsAbandoned == Spec => []RunningIsHeld
  <1>1. HoldInv => RunningIsHeld
    BY DEF HoldInv
  <1> QED BY <1>1, HoldInvariant, PTL

\* The registered process is one that a goroutine has in hand or is about to clear,
\* by whichever of its returns the goroutines before it went on.
THEOREM RegistrationIsCurrent == Spec => []RegisteredIsHeld
  <1>1. HoldInv => RegisteredIsHeld
    BY DEF HoldInv
  <1> QED BY <1>1, HoldInvariant, PTL

-----------------------------------------------------------------------------
(* One session: a single goroutine of Connect, c.                          *)

\* While the goroutine is at one of these points, no process is registered.
Down == {"idle", "top", "prepare", "register", "settle", "returned", "decide", "schedule",
         "reconnecting", "waiting", "fail"}

PipeOf(c) ==
    /\ m.stdin # NoProc => loop[c].pc \notin Down /\ m.stdin = loop[c].proc
    /\ m.cmd # NoProc => loop[c].pc \notin Down

LEMMA PipeOfStep ==
  ASSUME NEW c, Loops = {c}, TypeOK, PipeOf(c), [Next]_vars
  PROVE  PipeOf(c)'
  <1>0. c \in Loops
    OBVIOUS
  <1>1. ASSUME RegisterProcess(c)
        PROVE  PipeOf(c)'
    <2>1. loop'[c].pc = "password" /\ loop'[c].proc = loop[c].proc
      <3>1. loop \in [Loops -> LoopRecord]
        BY DEF TypeOK
      <3> QED BY <1>0, <1>1, <3>1, ZenonT(60) DEF RegisterProcess, LoopRecord
    <2>2. m'.stdin = loop[c].proc
      BY <1>0, <1>1, RegisterEffect
    <2> QED BY <2>1, <2>2 DEF PipeOf, Down
  <1>2. ASSUME ~RegisterProcess(c)
        PROVE  PipeOf(c)'
    <2>1. m'.stdin \in {m.stdin, NoProc} /\ m'.cmd \in {m.cmd, NoProc}
      BY <1>2, PipesStep
    <2>2. CASE UNCHANGED loop
      BY <2>1, <2>2 DEF PipeOf
    <2>3. CASE \E req \in Requests: Connect(c, req)
      <3>1. m.stdin = NoProc /\ m.cmd = NoProc
        BY <1>0, <2>3, ConnectEffect DEF PipeOf, Down
      <3> QED BY <2>1, <3>1 DEF PipeOf
    <2>4. CASE AuthFailed(c) \/ ClearAuth(c)
      <3>1. m'.stdin = NoProc /\ m'.cmd = NoProc
        BY <2>4, ClearCleared DEF AuthFailed, ClearAuth, Cleared, TypeOK
      <3> QED BY <3>1 DEF PipeOf
    <2>5. CASE loop[c].pc \in Down
      <3>1. m'.stdin = NoProc /\ m'.cmd = NoProc
        BY <2>1, <2>5 DEF PipeOf
      <3> QED BY <3>1 DEF PipeOf
    <2>6. CASE /\ WritePassword(c) \/ WriteToken(c) \/ RecordToken(c)
                  \/ StartStreams(c) \/ ReapProcess(c)
               /\ LoopStep(c)
      <3>1. loop[c].pc \notin Down
        BY <2>6 DEF WritePassword, WriteToken, RecordToken, StartStreams, ReapProcess, Down
      <3>2. loop'[c].pc \notin Down /\ loop'[c].proc = loop[c].proc
        BY <1>0, <2>6, LoopMoves
           DEF LoopTop, StartProcess, StartFails, AuthFailed, RegisterProcess, WritePassword,
               WriteToken, RecordToken, StartStreams, ReapProcess, ClearAuth, SettleState,
               GPClientReturns, DecideReconnect, ScheduleReconnect, SetReconnecting,
               WaitBeforeReconnect, FailConnect, Keeps, Down
      <3> QED BY <2>1, <3>2 DEF PipeOf
    <2>7. CASE LoopStep(c)
      <3>1. \/ WritePassword(c) \/ WriteToken(c) \/ RecordToken(c) \/ StartStreams(c)
            \/ ReapProcess(c) \/ AuthFailed(c) \/ ClearAuth(c) \/ loop[c].pc \in Down
        BY <1>2, <2>7
           DEF LoopStep, LoopTop, StartProcess, StartFails, SettleState, GPClientReturns,
               DecideReconnect, ScheduleReconnect, SetReconnecting, WaitBeforeReconnect,
               FailConnect, Down
      <3> QED BY <2>4, <2>5, <2>6, <2>7, <3>1
    <2> QED BY <2>2, <2>3, <2>7, LoopChanges
  <1> QED BY <1>1, <1>2

\* The new state is that of SetState, whatever else the step changes.
LEMMA SetStateEffect ==
  ASSUME m \in Manager, NEW s, m' = SetState(s)
  PROVE  /\ m'.state = s /\ m'.stopRequested = m.stopRequested
         /\ m'.awaitingOTP => m.awaitingOTP /\ s \notin {"disconnected", "error"}
  BY ZenonT(60) DEF SetState, Manager

SameState == m'.state = m.state /\ m'.stopRequested = m.stopRequested

LEMMA LoopState ==
  ASSUME TypeOK, NEW l \in Loops, LoopStep(l)
  PROVE  \/ SameState
         \/ /\ SettleState(l) /\ loop[l].outcome \in {"clean", "reconnectable"}
            /\ m'.state = "disconnected" /\ m'.stopRequested = m.stopRequested
         \/ SetReconnecting(l) /\ m'.state = "connecting" /\ m'.stopRequested = m.stopRequested
         \/ FailConnect(l) /\ m'.state = "error" /\ m'.stopRequested = m.stopRequested
  <1>0. m \in Manager
    BY DEF TypeOK
  <1>1. CASE LoopTop(l) \/ ScheduleReconnect(l)
    <2>1. PICK a: m' = AttemptState(l, a)
      BY <1>1 DEF LoopTop, ScheduleReconnect
    <2> QED BY <1>0, <2>1, ZenonT(60) DEF AttemptState, Manager, SameState
  <1>2. CASE RegisterProcess(l)
    BY <1>0, <1>2, ZenonT(60) DEF RegisterProcess, Manager, SameState
  <1>3. CASE RecordToken(l)
    BY <1>0, <1>3, ZenonT(60) DEF RecordToken, RecordAuthResponse, Manager, SameState
  <1>4. CASE AuthFailed(l) \/ ClearAuth(l)
    <2>1. m' = ClearProcessAuthState
      BY <1>4 DEF AuthFailed, ClearAuth
    <2> QED BY <1>0, <2>1, ZenonT(60) DEF ClearProcessAuthState, Manager, SameState
  <1>5. CASE SettleState(l)
    BY <1>0, <1>5, SetStateEffect DEF SettleState, SameState
  <1>6. CASE SetReconnecting(l) \/ FailConnect(l)
    BY <1>0, <1>6, SetStateEffect DEF SetReconnecting, FailConnect
  <1>7. CASE \/ StartProcess(l) \/ StartFails(l) \/ WritePassword(l) \/ WriteToken(l)
             \/ StartStreams(l) \/ ReapProcess(l) \/ GPClientReturns(l)
             \/ DecideReconnect(l) \/ WaitBeforeReconnect(l)
    BY <1>7 DEF StartProcess, StartFails, WritePassword, WriteToken, StartStreams, ReapProcess,
                GPClientReturns, DecideReconnect, WaitBeforeReconnect, SameState
  <1> QED BY <1>1, <1>2, <1>3, <1>4, <1>5, <1>6, <1>7 DEF LoopStep

LEMMA ReaderState ==
  ASSUME TypeOK, NEW p \in Procs, NEW s \in Streams, ReaderStep(p, s)
  PROVE  \/ SameState
         \/ MarkConnected(p, s) /\ m'.state = "connected" /\ m'.stopRequested = m.stopRequested
         \/ MarkDisconnected(p, s) /\ m'.state = "disconnected"
                                   /\ m'.stopRequested = m.stopRequested
  <1>0. m \in Manager
    BY DEF TypeOK
  <1>1. CASE ReadOTPPrompt(p, s)
    <2>1. m' = NoteOTPPrompt
      BY <1>1 DEF ReadOTPPrompt
    <2> QED BY <1>0, <2>1, ZenonT(60) DEF NoteOTPPrompt, Manager, SameState
  <1>2. CASE ReadCredentialPrompt(p, s)
    <2>1. m' = NoteCredentialPrompt
      BY <1>2 DEF ReadCredentialPrompt
    <2> QED BY <1>0, <2>1, ZenonT(60) DEF NoteCredentialPrompt, Manager, SameState
  <1>3. CASE ReadGatewayLogin(p, s)
    BY <1>0, <1>3, ZenonT(60) DEF ReadGatewayLogin, Manager, SameState
  <1>4. CASE ReadParseError(p, s)
    BY <1>0, <1>4, ZenonT(60) DEF ReadParseError, Manager, SameState
  <1>5. CASE MarkConnected(p, s)
    BY <1>0, <1>5, ZenonT(60) DEF MarkConnected, Manager
  <1>6. CASE MarkDisconnected(p, s)
    BY <1>0, <1>6, SetStateEffect DEF MarkDisconnected
  <1>7. CASE ReadEstablished(p, s) \/ ReadBye(p, s) \/ ReadEOF(p, s)
    BY <1>7 DEF ReadEstablished, ReadBye, ReadEOF, SameState
  <1> QED BY <1>1, <1>2, <1>3, <1>4, <1>5, <1>6, <1>7 DEF ReaderStep

LEMMA AnswerState ==
  ASSUME TypeOK,
         \/ \E p \in Procs: GenStep(p)
         \/ \E u \in Submits: SubmitOTP(u) \/ SubmitStep(u)
         \/ Environment
         \/ UNCHANGED vars
  PROVE  SameState
  <1>0. m \in Manager
    BY DEF TypeOK
  <1>1. ASSUME NEW p \in Procs, GenStep(p)
        PROVE  SameState
    <2>1. CASE RecordOTP(p)
      <3>1. CASE m.stdin = p
        <4>1. m' = [RecordAuthResponse EXCEPT !.lastAutoOTPStep = gen[p].step,
                                              !.autoOTPInFlight = FALSE]
          BY <2>1, <3>1 DEF RecordOTP
        <4> QED BY <1>0, <4>1, ZenonT(60) DEF RecordAuthResponse, Manager, SameState
      <3> QED BY <2>1, <3>1 DEF RecordOTP, SameState
    <2>2. CASE FailGeneratedOTP(p)
      <3>1. CASE ActiveAuth(p)
        <4>1. m' = [m EXCEPT !.autoOTPInFlight = FALSE, !.awaitingOTP = TRUE]
          BY <2>2, <3>1 DEF FailGeneratedOTP
        <4> QED BY <1>0, <4>1, ZenonT(60) DEF Manager, SameState
      <3> QED BY <2>2, <3>1 DEF FailGeneratedOTP, SameState
    <2> QED BY <1>1, <2>1, <2>2, GenEffect DEF SameState
  <1>2. ASSUME NEW u \in Submits, SubmitOTP(u) \/ SubmitStep(u)
        PROVE  SameState
    <2>1. CASE SubmitOTP(u)
      <3>1. m' = [m EXCEPT !.awaitingOTP = FALSE]
        BY <2>1 DEF SubmitOTP
      <3> QED BY <1>0, <3>1, ZenonT(60) DEF Manager, SameState
    <2>2. CASE SubmitRecord(u)
      <3>1. m' = RecordAuthResponse
        BY <2>2 DEF SubmitRecord
      <3> QED BY <1>0, <3>1, ZenonT(60) DEF RecordAuthResponse, Manager, SameState
    <2> QED BY <1>2, <2>1, <2>2 DEF SubmitStep, SubmitWrite, SameState
  <1>3. CASE Environment \/ UNCHANGED vars
    BY <1>3 DEF Environment, PrintLine, ReadToken, Exit, NextWindow, vars, SameState
  <1> QED BY <1>1, <1>2, <1>3

\* Two steps begin a login: the call, and the reconnect.
LEMMA ConnectingStep ==
  ASSUME TypeOK, [Next]_vars, m'.state = "connecting"
  PROVE  \/ m.state = "connecting"
         \/ \E l \in Loops, req \in Requests: Connect(l, req)
         \/ \E l \in Loops: LoopStep(l) /\ SetReconnecting(l)
  <1>0. m \in Manager
    BY DEF TypeOK
  <1>1. CASE \E l \in Loops: LoopStep(l)
    BY <1>1, LoopState DEF SameState
  <1>2. CASE \E p \in Procs, s \in Streams: ReaderStep(p, s)
    BY <1>2, ReaderState DEF SameState
  <1>3. CASE \/ \E p \in Procs: GenStep(p)
             \/ \E u \in Submits: SubmitOTP(u) \/ SubmitStep(u)
             \/ Environment
             \/ UNCHANGED vars
    BY <1>3, AnswerState DEF SameState
  <1>4. ASSUME NEW d \in Disconnects, Disconnect(d)
        PROVE  m'.state = "disconnecting"
    <2>1. m' = [SetState("disconnecting") EXCEPT !.stopRequested = TRUE]
      BY <1>4 DEF Disconnect
    <2> QED BY <1>0, <2>1, ZenonT(60) DEF SetState, Manager
  <1>5. ASSUME NEW d \in Disconnects, DisconnectStep(d)
        PROVE  m'.state \in {m.state, "disconnected"}
    <2>1. CASE GrabStdin(d)
      BY <1>0, <2>1, ZenonT(60) DEF GrabStdin, Manager
    <2>2. CASE DisconnectTail(d)
      <3>1. m' = [ClearProcessAuthState EXCEPT !.state = "disconnected", !.reconnectAttempt = 0,
                                               !.sawGatewayLogin = FALSE, !.sawParseError = FALSE]
        BY <2>2 DEF DisconnectTail
      <3> QED BY <1>0, <3>1, ZenonT(60) DEF ClearProcessAuthState, Manager
    <2>3. CASE CloseAndSignal(d) \/ DisconnectWaited(d) \/ DisconnectTimeout(d)
      BY <2>3 DEF CloseAndSignal, DisconnectWaited, DisconnectTimeout
    <2> QED BY <1>5, <2>1, <2>2, <2>3 DEF DisconnectStep
  <1>6. CASE DisconnectNoop
    <2>1. m' = [m EXCEPT !.stopRequested = TRUE]
      BY <1>6 DEF DisconnectNoop
    <2>2. m'.state = m.state
      BY <1>0, <2>1, ZenonT(60) DEF Manager
    <2> QED BY <2>2
  <1> QED BY <1>1, <1>2, <1>3, <1>4, <1>5, <1>6 DEF Next, Calls, Goroutines

\* A generator that ends leaves autoOTPInFlight behind only when the login is
\* over, and a new one begins with another pipe.
LEMMA InFlightStep ==
  ASSUME NEW c, Loops = {c}, TypeOK, RegisterIsNew, GeneratorIsCurrent, PipeOf(c),
         InFlightHasGenerator, [Next]_vars
  PROVE  InFlightHasGenerator'
  <1>0. gen \in [Procs -> GenRecord] /\ c \in Loops
    BY DEF TypeOK
  <1>a. SUFFICES ASSUME m'.autoOTPInFlight, m'.stdin # NoProc, m'.state = "connecting",
                        gen'[m'.stdin].pc = "idle"
                 PROVE  FALSE
    BY DEF InFlightHasGenerator
  <1>b. m.stdin # NoProc => m.state = "connecting"
    <2>1. CASE \E req \in Requests: Connect(c, req)
      BY <1>0, <2>1, ConnectEffect DEF PipeOf, Down
    <2>2. CASE SetReconnecting(c)
      BY <2>2 DEF SetReconnecting, PipeOf, Down
    <2> QED BY <1>a, <2>1, <2>2, ConnectingStep
  <1>1. CASE UNCHANGED gen /\ (Quiet \/ Cleared)
    BY <1>a, <1>b, <1>1 DEF Quiet, Cleared, InFlightHasGenerator
  <1>2. CASE \E l \in Loops: RegisterProcess(l) /\ UNCHANGED gen
    BY <1>a, <1>2, RegisterEffect
  <1>3. CASE \E d \in Disconnects: GrabStdin(d) /\ UNCHANGED gen
    BY <1>a, <1>3, GrabEffect
  <1>4. ASSUME NEW p \in Procs, NEW s \in Streams, ReadOTPPrompt(p, s)
        PROVE  FALSE
    <2>1. CASE OpenPrompt
      BY <1>a, <1>b, <1>4, <2>1, PromptEffect DEF InFlightHasGenerator
    <2>2. CASE ~OpenPrompt /\ ~Automatic
      BY <1>a, <1>4, <2>2, PromptEffect
    <2>3. CASE ~OpenPrompt /\ Automatic
      <3>1. /\ m.stdin \in Procs /\ m'.stdin = m.stdin
            /\ gen' = [gen EXCEPT ![m.stdin] = [IdleGen EXCEPT !.pc = "generate",
                                                    !.afterStep = m.lastAutoOTPStep]]
        BY <1>4, <2>3, PromptEffect
      <3>2. gen'[m'.stdin].pc = "generate"
        BY <1>0, <3>1 DEF IdleGen
      <3> QED BY <1>a, <3>2
    <2> QED BY <2>1, <2>2, <2>3
  <1>5. ASSUME NEW p \in Procs, GenStep(p)
        PROVE  FALSE
    <2>0. m'.stdin = m.stdin /\ m.state = "connecting"
      BY <1>a, <1>b, <1>5, GenEffect, RecordOTPEffect, FailOTPEffect
    <2>1. CASE m.stdin # p
      <3>1. m' = m /\ (m.stdin \in Procs => gen'[m.stdin] = gen[m.stdin])
        BY <1>5, <2>1, GenEffect, RecordOTPEffect, FailOTPEffect
      <3>2. m.stdin \in Procs
        BY <1>a, <2>0 DEF TypeOK, Manager, ProcOrNo
      <3> QED BY <1>a, <2>0, <3>1, <3>2 DEF InFlightHasGenerator
    <2>2. CASE m.stdin = p
      <3>1. CASE RecordOTP(p)
        BY <1>a, <2>2, <3>1, RecordOTPEffect
      <3>2. CASE FailGeneratedOTP(p)
        <4>1. m' = [m EXCEPT !.autoOTPInFlight = FALSE, !.awaitingOTP = TRUE]
          BY <2>0, <2>2, <3>2 DEF FailGeneratedOTP, ActiveAuth
        <4>2. ~m'.autoOTPInFlight
          BY <4>1, ZenonT(60) DEF TypeOK, Manager
        <4> QED BY <1>a, <4>2
      <3>3. CASE GenerateOTP(p) \/ WaitForActiveAuth(p) \/ WriteOTP(p)
        <4>1. gen'[p].pc # "idle"
          <5>1. PICK pc \in {"write", "fail", "record"}:
                  \/ gen' = [gen EXCEPT ![p].pc = pc]
                  \/ gen' = [gen EXCEPT ![p].pc = "wait", ![p].step = NextStep(gen[p].afterStep)]
            BY <2>0, <2>2, <3>3 DEF GenerateOTP, WaitForActiveAuth, WriteOTP, ActiveAuth
          <5>2. gen'[p].pc = pc \/ gen'[p].pc = "wait"
            BY <1>0, <5>1, ZenonT(60) DEF GenRecord
          <5> QED BY <5>2
        <4> QED BY <1>a, <2>0, <2>2, <4>1
      <3> QED BY <1>5, <3>1, <3>2, <3>3 DEF GenStep
    <2> QED BY <2>1, <2>2
  <1> QED BY <1>1, <1>2, <1>3, <1>4, <1>5, ManagerEffect

PipeInv(c) == SafetyInv /\ PipeOf(c) /\ InFlightHasGenerator

\* While one goroutine of Connect is alive at a time, autoOTPInFlight during a
\* login means a generator that will answer or fall back to the user, however
\* many callers submit codes and disconnect.
THEOREM InFlightIsAnswered ==
  ASSUME NEW c, Loops = {c}
  PROVE  Spec => []InFlightHasGenerator
  <1>1. Init => PipeInv(c)
    <2>1. ASSUME Init
          PROVE  m.stdin = NoProc /\ m.cmd = NoProc
      BY <2>1 DEF Init, NewManager
    <2> QED BY <2>1, SafetyInit DEF PipeInv, PipeOf, InFlightHasGenerator
  <1>2. PipeInv(c) /\ [Next]_vars => PipeInv(c)'
    <2>1. ASSUME PipeInv(c), [Next]_vars
          PROVE  SafetyInv' /\ PipeOf(c)' /\ InFlightHasGenerator'
      BY <2>1, SafetyStep, PipeOfStep, InFlightStep DEF PipeInv, SafetyInv
    <2> QED BY <2>1 DEF PipeInv
  <1>3. PipeInv(c) => InFlightHasGenerator
    BY DEF PipeInv
  <1> QED BY <1>1, <1>2, <1>3, PTL DEF Spec

-----------------------------------------------------------------------------
(* Without a Disconnect, a process that lives is held by the goroutine     *)
(* that started it.                                                        *)

Holding == {"register", "password", "token", "record", "stream", "reap"}

\* What a process nobody signals can be like.
ProcsInv ==
    \A p \in Procs:
        /\ proc[p].status \in {"none", "running", "exited"}
        /\ proc[p].asking => proc[p].status = "running"
        /\ proc[p].stdinClosed => proc[p].status = "exited"
        /\ proc[p].status = "none" => /\ proc[p].inbox = 0
                                      /\ \A s \in Streams: proc[p].out[s] = <<>>

HeldInv ==
    /\ \A p \in Procs: proc[p].status = "running" =>
          \E l \in Loops: loop[l].proc = p /\ loop[l].pc \in Holding
    /\ \A l \in Loops: loop[l].pc \in Holding => loop[l].proc \in Procs
    /\ \A l \in Loops: loop[l].pc = "auth-failed" =>
          loop[l].proc \in Procs /\ proc[loop[l].proc].status = "exited"

\* The readers of a process run while its goroutine waits for them.
ReadersInv ==
    \A p \in Procs, s \in Streams: reader[p][s] \notin {"none", "done"} =>
        \E l \in Loops: loop[l].proc = p /\ loop[l].pc = "reap"

\* One process changes like this.
LEMMA ProcFields ==
  ASSUME TypeOK, Disconnects = {}, [Next]_vars, NEW q \in Procs
  PROVE  \/ proc'[q] = proc[q]
         \/ /\ \E l \in Loops: LoopStep(l) /\ StartProcess(l) /\ q = started + 1
            /\ proc'[q].status = "running" /\ proc'[q].asking = proc[q].asking
            /\ proc'[q].inbox = proc[q].inbox /\ proc'[q].stdinClosed = proc[q].stdinClosed
            /\ proc'[q].out = proc[q].out
         \/ /\ \/ \E l \in Loops: LoopStep(l) /\ WriteToken(l) /\ loop[l].proc = q
               \/ \E u \in Submits: SubmitWrite(u) /\ sub[u].stdin = q
               \/ WriteOTP(q)
            /\ CanWrite(q)
            /\ proc'[q].inbox = proc[q].inbox + 1 /\ proc'[q].status = proc[q].status
            /\ proc'[q].asking = proc[q].asking /\ proc'[q].out = proc[q].out
            /\ proc'[q].stdinClosed = proc[q].stdinClosed
         \/ /\ \E l \in Loops: LoopStep(l) /\ AuthFailed(l) /\ loop[l].proc = q
            /\ proc'[q].inbox = proc[q].inbox /\ proc'[q].status = proc[q].status
            /\ proc'[q].asking = proc[q].asking /\ proc'[q].out = proc[q].out
         \/ \E s \in Streams:
               /\ ReaderStep(q, s) /\ reader[q][s] = "reading" /\ proc[q].out[s] # <<>>
               /\ proc'[q].out = [proc[q].out EXCEPT ![s] = Tail(@)]
               /\ proc'[q].inbox = proc[q].inbox /\ proc'[q].status = proc[q].status
               /\ proc'[q].asking = proc[q].asking
               /\ proc'[q].stdinClosed = proc[q].stdinClosed
         \/ \E s \in Streams, line \in Lines:
               /\ PrintLine(q, s, line) /\ Printing(q) /\ ~proc[q].asking
               /\ proc'[q].out = [proc[q].out EXCEPT ![s] = Append(@, line)]
               /\ proc'[q].asking = (line = "otp")
               /\ proc'[q].inbox = proc[q].inbox /\ proc'[q].status = proc[q].status
               /\ proc'[q].stdinClosed = proc[q].stdinClosed
         \/ /\ ReadToken(q) /\ Printing(q) /\ proc[q].asking /\ proc[q].inbox > 0
            /\ ~proc'[q].asking /\ proc'[q].inbox = proc[q].inbox - 1
            /\ proc'[q].status = proc[q].status /\ proc'[q].out = proc[q].out
            /\ proc'[q].stdinClosed = proc[q].stdinClosed
         \/ /\ Exit(q) /\ Alive(q)
            /\ proc'[q].status = "exited" /\ ~proc'[q].asking
            /\ proc'[q].stdinClosed = proc[q].stdinClosed
  <1>0. proc \in [Procs -> ProcRecord] /\ proc[q] \in ProcRecord
    BY DEF TypeOK
  <1>1. ASSUME proc'[q] = [proc[q] EXCEPT !.status = "running"]
        PROVE  /\ proc'[q].status = "running" /\ proc'[q].asking = proc[q].asking
               /\ proc'[q].inbox = proc[q].inbox /\ proc'[q].stdinClosed = proc[q].stdinClosed
               /\ proc'[q].out = proc[q].out
    BY <1>0, <1>1, ZenonT(60) DEF ProcRecord
  <1>2. ASSUME proc'[q] = [proc[q] EXCEPT !.inbox = @ + 1]
        PROVE  /\ proc'[q].inbox = proc[q].inbox + 1 /\ proc'[q].status = proc[q].status
               /\ proc'[q].asking = proc[q].asking /\ proc'[q].out = proc[q].out
               /\ proc'[q].stdinClosed = proc[q].stdinClosed
    BY <1>0, <1>2, ZenonT(60) DEF ProcRecord
  <1>3. ASSUME proc'[q] = [proc[q] EXCEPT !.stdinClosed = TRUE]
        PROVE  /\ proc'[q].inbox = proc[q].inbox /\ proc'[q].status = proc[q].status
               /\ proc'[q].asking = proc[q].asking /\ proc'[q].out = proc[q].out
    BY <1>0, <1>3, ZenonT(60) DEF ProcRecord
  <1>4. ASSUME NEW s \in Streams, proc'[q] = [proc[q] EXCEPT !.out[s] = Tail(@)]
        PROVE  /\ proc'[q].out = [proc[q].out EXCEPT ![s] = Tail(@)]
               /\ proc'[q].inbox = proc[q].inbox /\ proc'[q].status = proc[q].status
               /\ proc'[q].asking = proc[q].asking
               /\ proc'[q].stdinClosed = proc[q].stdinClosed
    BY <1>0, <1>4, ZenonT(60) DEF ProcRecord
  <1>5. ASSUME NEW s \in Streams, NEW line \in Lines, PrintLine(q, s, line)
        PROVE  /\ Printing(q) /\ ~proc[q].asking
               /\ proc'[q].out = [proc[q].out EXCEPT ![s] = Append(@, line)]
               /\ proc'[q].asking = (line = "otp")
               /\ proc'[q].inbox = proc[q].inbox /\ proc'[q].status = proc[q].status
               /\ proc'[q].stdinClosed = proc[q].stdinClosed
    <2> DEFINE out == [proc[q].out EXCEPT ![s] = Append(proc[q].out[s], line)]
    <2>1. proc'[q] = [proc[q] EXCEPT !.out = out, !.printed = proc[q].printed + 1,
                                     !.asking = (line = "otp")]
      BY <1>0, <1>5 DEF PrintLine
    <2>2. /\ proc'[q].out = out /\ proc'[q].asking = (line = "otp")
          /\ proc'[q].inbox = proc[q].inbox /\ proc'[q].status = proc[q].status
          /\ proc'[q].stdinClosed = proc[q].stdinClosed
      <3> HIDE DEF out
      <3> QED BY <1>0, <2>1, ZenonT(60) DEF ProcRecord
    <2> QED BY <1>5, <2>2 DEF PrintLine
  <1>6. ASSUME ReadToken(q)
        PROVE  /\ Printing(q) /\ proc[q].asking /\ proc[q].inbox > 0
               /\ ~proc'[q].asking /\ proc'[q].inbox = proc[q].inbox - 1
               /\ proc'[q].status = proc[q].status /\ proc'[q].out = proc[q].out
               /\ proc'[q].stdinClosed = proc[q].stdinClosed
    BY <1>0, <1>6, ZenonT(60) DEF ReadToken, ProcRecord
  <1>7. ASSUME Exit(q)
        PROVE  /\ Alive(q) /\ proc'[q].status = "exited" /\ ~proc'[q].asking
               /\ proc'[q].stdinClosed = proc[q].stdinClosed
    BY <1>0, <1>7, ZenonT(60) DEF Exit, ProcRecord
  <1> QED BY ProcMoves, <1>1, <1>2, <1>3, <1>4, <1>5, <1>6, <1>7

LEMMA ProcsStep ==
  ASSUME TypeOK, Known, Disconnects = {}, ProcsInv, HeldInv, [Next]_vars
  PROVE  ProcsInv'
  <1> SUFFICES ASSUME NEW q \in Procs
               PROVE  /\ proc'[q].status \in {"none", "running", "exited"}
                      /\ proc'[q].asking => proc'[q].status = "running"
                      /\ proc'[q].stdinClosed => proc'[q].status = "exited"
                      /\ proc'[q].status = "none" =>
                            /\ proc'[q].inbox = 0
                            /\ \A s \in Streams: proc'[q].out[s] = <<>>
    BY DEF ProcsInv
  <1>0. /\ proc[q].status \in {"none", "running", "exited"}
        /\ proc[q].asking => proc[q].status = "running"
        /\ proc[q].stdinClosed => proc[q].status = "exited"
        /\ proc[q].status = "none" => /\ proc[q].inbox = 0
                                      /\ \A s \in Streams: proc[q].out[s] = <<>>
    BY DEF ProcsInv
  <1>1. ASSUME NEW l \in Loops, StartProcess(l), q = started + 1
        PROVE  proc[q].status = "none"
    <2>1. q > started
      BY <1>1, BoundsAssumption DEF TypeOK
    <2> QED BY <2>1 DEF Known
  <1>2. ASSUME NEW l \in Loops, AuthFailed(l), loop[l].proc = q
        PROVE  proc[q].status = "exited"
    BY <1>2 DEF HeldInv, AuthFailed
  <1>3. ASSUME NEW s \in Streams, proc[q].out[s] # <<>>
        PROVE  proc[q].status # "none"
    BY <1>0, <1>3
  <1> QED BY <1>0, <1>1, <1>2, <1>3, ProcFields DEF CanWrite, Alive, Printing

LEMMA HeldStep ==
  ASSUME TypeOK, Known, Disconnects = {}, ProcsInv, HeldInv, [Next]_vars
  PROVE  HeldInv'
  <1>0. loop \in [Loops -> LoopRecord] /\ started \in Nat
    BY DEF TypeOK
  <1>1. ASSUME NEW q \in Procs
        PROVE  /\ proc'[q].status = "running" =>
                    \/ proc[q].status = "running"
                    \/ \E l \in Loops: LoopStep(l) /\ StartProcess(l) /\ q = started + 1
               /\ proc[q].status = "exited" => proc'[q].status = "exited"
    <2>1. q = started + 1 => proc[q].status # "exited"
      BY <1>0 DEF Known
    <2> QED BY <2>1, ProcFields DEF Alive
  <1>2. ASSUME NEW l \in Loops, loop'[l].pc \in Holding
        PROVE  loop'[l].proc \in Procs
    <2>1. CASE LoopStep(l)
      <3>1. CASE StartProcess(l)
        <4>1. started + 1 \in Procs
          BY <1>0, <3>1, BoundsAssumption DEF StartProcess, Procs
        <4>2. loop'[l].proc = started + 1
          BY <1>0, <3>1, ZenonT(60) DEF StartProcess, LoopRecord
        <4> QED BY <4>1, <4>2
      <3>2. CASE ~StartProcess(l)
        <4>1. loop[l].pc \in Holding /\ loop'[l].proc = loop[l].proc
          <5>1. /\ RegisterProcess(l) => loop[l].pc = "register"
                /\ WritePassword(l) => loop[l].pc = "password"
                /\ WriteToken(l) => loop[l].pc = "token"
                /\ RecordToken(l) => loop[l].pc = "record"
                /\ StartStreams(l) => loop[l].pc = "stream"
            BY DEF RegisterProcess, WritePassword, WriteToken, RecordToken, StartStreams
          <5>2. IdleLoop.pc = "idle"
            BY DEF IdleLoop
          <5> QED BY <1>2, <2>1, <3>2, <5>1, <5>2, LoopMoves DEF Holding, Keeps
        <4> QED BY <4>1 DEF HeldInv
      <3> QED BY <3>1, <3>2
    <2>2. CASE \E k \in Loops: LoopStep(k) /\ k # l
      BY <1>2, <2>2, LoopLocal DEF HeldInv
    <2>3. CASE \E k \in Loops, req \in Requests: Connect(k, req)
      BY <1>2, <2>3, ConnectEffect DEF HeldInv, Holding
    <2>4. CASE UNCHANGED loop
      BY <1>2, <2>4 DEF HeldInv
    <2> QED BY <2>1, <2>2, <2>3, <2>4, LoopChanges
  <1>3. ASSUME NEW l \in Loops, loop'[l].pc = "auth-failed"
        PROVE  loop'[l].proc \in Procs /\ proc'[loop'[l].proc].status = "exited"
    <2>1. ASSUME loop'[l] = loop[l]
          PROVE  loop'[l].proc \in Procs /\ proc'[loop'[l].proc].status = "exited"
      <3>1. loop[l].proc \in Procs /\ proc[loop[l].proc].status = "exited"
        BY <1>3, <2>1 DEF HeldInv
      <3> QED BY <1>1, <2>1, <3>1
    <2>2. CASE LoopStep(l)
      <3>1. /\ WritePassword(l) \/ WriteToken(l)
            /\ ~CanWrite(loop[l].proc) /\ loop'[l].proc = loop[l].proc
        BY <1>3, <2>2, LoopMoves DEF Keeps, IdleLoop
      <3>2. loop[l].proc \in Procs
        BY <3>1 DEF WritePassword, WriteToken, HeldInv, Holding
      <3>3. proc[loop[l].proc].status # "none"
        BY <1>0, <3>2 DEF Known, Procs
      <3>4. proc[loop[l].proc].status = "exited"
        BY <3>1, <3>2, <3>3 DEF CanWrite, Alive, ProcsInv
      <3> QED BY <1>1, <3>1, <3>2, <3>4
    <2>3. CASE \E k \in Loops: LoopStep(k) /\ k # l
      BY <2>1, <2>3, LoopLocal
    <2>4. CASE \E k \in Loops, req \in Requests: Connect(k, req)
      BY <1>3, <2>1, <2>4, ConnectEffect
    <2>5. CASE UNCHANGED loop
      BY <2>1, <2>5
    <2> QED BY <2>2, <2>3, <2>4, <2>5, LoopChanges
  <1>4. ASSUME NEW p \in Procs, proc'[p].status = "running"
        PROVE  \E l \in Loops: loop'[l].proc = p /\ loop'[l].pc \in Holding
    <2>1. CASE \E l \in Loops: LoopStep(l) /\ StartProcess(l) /\ p = started + 1
      <3>1. PICK l \in Loops: LoopStep(l) /\ StartProcess(l) /\ p = started + 1
        BY <2>1
      <3>2. loop'[l].proc = p /\ loop'[l].pc = "register"
        BY <1>0, <3>1, ZenonT(60) DEF StartProcess, LoopRecord
      <3> QED BY <3>2 DEF Holding
    <2>2. CASE proc[p].status = "running"
      <3>1. PICK l \in Loops: loop[l].proc = p /\ loop[l].pc \in Holding
        BY <2>2 DEF HeldInv
      <3>2. CASE LoopStep(l)
        <4>1. CanWrite(p)
          BY <2>2 DEF CanWrite, Alive, ProcsInv
        <4>2. loop'[l].proc = p /\ loop'[l].pc \in Holding
          BY <2>2, <3>1, <3>2, <4>1, LoopMoves
             DEF Holding, Keeps, LoopTop, StartProcess, StartFails, AuthFailed, RegisterProcess,
                 WritePassword, WriteToken, RecordToken, StartStreams, ReapProcess, ClearAuth,
                 SettleState, GPClientReturns, DecideReconnect, ScheduleReconnect,
                 SetReconnecting, WaitBeforeReconnect, FailConnect
        <4> QED BY <4>2
      <3>3. CASE \E k \in Loops: LoopStep(k) /\ k # l
        BY <3>1, <3>3, LoopLocal
      <3>4. CASE \E k \in Loops, req \in Requests: Connect(k, req)
        BY <3>1, <3>4, ConnectEffect DEF Holding
      <3>5. CASE UNCHANGED loop
        BY <3>1, <3>5
      <3> QED BY <3>2, <3>3, <3>4, <3>5, LoopChanges
    <2> QED BY <1>1, <1>4, <2>1, <2>2
  <1> QED BY <1>2, <1>3, <1>4 DEF HeldInv

LEMMA ReaderMoves ==
  ASSUME TypeOK, [Next]_vars, NEW q \in Procs, NEW t \in Streams
  PROVE  \/ reader'[q][t] = reader[q][t]
         \/ \E l \in Loops: /\ LoopStep(l) /\ StartStreams(l) /\ loop[l].proc = q
                            /\ reader'[q][t] = "reading"
         \/ ReaderStep(q, t) /\ reader[q][t] \in {"reading", "detect", "bye"}
  <1>0. reader \in [Procs -> [Streams -> ReaderPc]]
    BY DEF TypeOK
  <1>1. ASSUME NEW l \in Loops, LoopStep(l)
        PROVE  \/ reader'[q][t] = reader[q][t]
               \/ StartStreams(l) /\ loop[l].proc = q /\ reader'[q][t] = "reading"
    <2>1. CASE StartStreams(l)
      BY <1>0, <2>1, ZenonT(60) DEF StartStreams
    <2> QED BY <1>1, <2>1
            DEF LoopStep, LoopTop, StartProcess, StartFails, RegisterProcess, WritePassword,
                WriteToken, RecordToken, AuthFailed, ReapProcess, ClearAuth, SettleState,
                GPClientReturns, DecideReconnect, ScheduleReconnect, SetReconnecting,
                WaitBeforeReconnect, FailConnect
  <1>2. ASSUME NEW p \in Procs, NEW s \in Streams, ReaderStep(p, s)
        PROVE  \/ reader'[q][t] = reader[q][t]
               \/ p = q /\ s = t /\ reader[q][t] \in {"reading", "detect", "bye"}
    <2>1. /\ reader[p][s] \in {"reading", "detect", "bye"}
          /\ reader' = reader \/ \E pc: ReaderGoto(p, s, pc)
      BY <1>2 DEF ReaderStep, ReadOTPPrompt, ReadCredentialPrompt, ReadGatewayLogin,
                  ReadParseError, ReadEstablished, MarkConnected, ReadBye, MarkDisconnected,
                  ReadEOF, NextLine
    <2>2. ASSUME NEW pc, ReaderGoto(p, s, pc), p # q \/ s # t
          PROVE  reader'[q][t] = reader[q][t]
      BY <1>0, <2>2, ZenonT(60) DEF ReaderGoto
    <2> QED BY <2>1, <2>2
  <1>3. CASE UNCHANGED reader
    BY <1>3
  <1>4. \/ \E l \in Loops: LoopStep(l)
        \/ \E p \in Procs, s \in Streams: ReaderStep(p, s)
        \/ UNCHANGED reader
    BY DEF Next, Calls, Goroutines, Environment, vars, Connect, SubmitOTP, Disconnect,
           DisconnectNoop, GenStep, GenerateOTP, WaitForActiveAuth, WriteOTP, RecordOTP,
           FailGeneratedOTP, SubmitStep, SubmitWrite, SubmitRecord, DisconnectStep, GrabStdin,
           CloseAndSignal, DisconnectWaited, DisconnectTimeout, DisconnectTail,
           PrintLine, ReadToken, Exit, NextWindow
  <1>5. CASE \E l \in Loops: LoopStep(l)
    BY <1>1, <1>5
  <1>6. CASE \E p \in Procs, s \in Streams: ReaderStep(p, s)
    BY <1>2, <1>6
  <1> QED BY <1>3, <1>4, <1>5, <1>6

LEMMA ReadersStep ==
  ASSUME TypeOK, ReadersInv, [Next]_vars
  PROVE  ReadersInv'
  <1> SUFFICES ASSUME NEW q \in Procs, NEW t \in Streams, reader'[q][t] \notin {"none", "done"}
               PROVE  \E l \in Loops: loop'[l].proc = q /\ loop'[l].pc = "reap"
    BY DEF ReadersInv
  <1>1. CASE \E l \in Loops: LoopStep(l) /\ StartStreams(l) /\ loop[l].proc = q
    <2>1. PICK l \in Loops: LoopStep(l) /\ StartStreams(l) /\ loop[l].proc = q
      BY <1>1
    <2>2. loop'[l].pc = "reap" /\ Keeps(l)
      BY <2>1, GotoKeeps DEF StartStreams
    <2> QED BY <2>1, <2>2 DEF Keeps
  <1>2. CASE reader[q][t] \notin {"none", "done"}
    <2>1. PICK l \in Loops: loop[l].proc = q /\ loop[l].pc = "reap"
      BY <1>2 DEF ReadersInv
    <2>2. ~LoopStep(l)
      <3>1. ASSUME LoopStep(l)
            PROVE  ReapProcess(l)
        BY <2>1, <3>1
           DEF LoopStep, LoopTop, StartProcess, StartFails, RegisterProcess, WritePassword,
               WriteToken, RecordToken, AuthFailed, StartStreams, ClearAuth, SettleState,
               GPClientReturns, DecideReconnect, ScheduleReconnect, SetReconnecting,
               WaitBeforeReconnect, FailConnect
      <3> QED BY <1>2, <2>1, <3>1 DEF ReapProcess
    <2>3. loop'[l] = loop[l]
      BY <2>1, <2>2, LoopChanges, LoopLocal, ConnectEffect
    <2> QED BY <2>1, <2>3
  <1> QED BY <1>1, <1>2, ReaderMoves

-----------------------------------------------------------------------------
(* One session at a time: what the goroutine leaves when it ends.          *)

\* Nobody stops the login.
LEMMA StateStep ==
  ASSUME TypeOK, Disconnects = {}, [Next]_vars
  PROVE  \/ SameState
         \/ \E l \in Loops, req \in Requests: Connect(l, req)
         \/ \E l \in Loops:
               /\ LoopStep(l) /\ m'.stopRequested = m.stopRequested
               /\ \/ SettleState(l) /\ m'.state = "disconnected"
                  \/ SetReconnecting(l) /\ m'.state = "connecting"
                  \/ FailConnect(l) /\ m'.state = "error"
         \/ \E p \in Procs, s \in Streams:
               /\ ReaderStep(p, s) /\ reader[p][s] \in {"detect", "bye"}
               /\ m'.stopRequested = m.stopRequested
               /\ m'.state \in {"connected", "disconnected"}
  <1>1. CASE \E l \in Loops: LoopStep(l)
    BY <1>1, LoopState
  <1>2. CASE \E p \in Procs, s \in Streams: ReaderStep(p, s)
    BY <1>2, ReaderState DEF MarkConnected, MarkDisconnected
  <1>3. CASE \/ \E p \in Procs: GenStep(p)
             \/ \E u \in Submits: SubmitOTP(u) \/ SubmitStep(u)
             \/ Environment
             \/ UNCHANGED vars
    BY <1>3, AnswerState
  <1> QED BY <1>1, <1>2, <1>3 DEF Next, Calls, Goroutines

\* A prompt is offered to the user when a reader notes it, or when the
\* generator of the registered pipe gives up.
LEMMA OfferStep ==
  ASSUME TypeOK, [Next]_vars, m'.awaitingOTP
  PROVE  \/ m.awaitingOTP /\ ~Cleared
         \/ \E p \in Procs, s \in Streams: ReadOTPPrompt(p, s)
         \/ \E p \in Procs: GenStep(p) /\ m.stdin = p
  <1>1. CASE Quiet \/ Cleared
    BY <1>1 DEF Quiet, Cleared
  <1>2. CASE \E l \in Loops: RegisterProcess(l)
    BY <1>2, RegisterEffect
  <1>3. CASE \E d \in Disconnects: GrabStdin(d)
    BY <1>3, GrabEffect
  <1>4. ASSUME NEW p \in Procs, GenStep(p), m.stdin # p
        PROVE  m.awaitingOTP /\ ~Cleared
    BY <1>4, GenEffect, RecordOTPEffect, FailOTPEffect DEF Cleared
  <1> QED BY <1>1, <1>2, <1>3, <1>4, ManagerEffect

SessionInv(c) ==
    /\ ~m.stopRequested /\ m.state # "disconnecting"
    /\ loop[c].outcome # "stopped"
    /\ loop[c].pc \in Down => ~m.awaitingOTP
    /\ loop[c].pc \in {"returned", "decide"} /\ loop[c].outcome = "clean"
          => m.state = "disconnected"
    /\ loop[c].pc = "idle" => m.state \in {"disconnected", "error"}

\* The goroutine of Connect at its last steps.
LEMMA LoopEnds ==
  ASSUME TypeOK, NEW c \in Loops, LoopStep(c), ~m.stopRequested, m.state # "disconnecting",
         loop[c].outcome # "stopped"
  PROVE  /\ loop'[c].outcome # "stopped"
         /\ loop'[c].pc \in Down => loop[c].pc \in Down \/ AuthFailed(c) \/ ClearAuth(c)
         /\ loop'[c].pc = "returned" /\ loop'[c].outcome = "clean"
               => SettleState(c) /\ loop[c].outcome = "clean"
         /\ loop'[c].pc = "decide" =>
               loop[c].pc = "returned" /\ Keeps(c) /\ GPClientReturns(c)
         /\ loop'[c].pc = "idle" =>
               \/ loop[c].pc = "decide" /\ loop[c].outcome = "clean" /\ DecideReconnect(c)
               \/ FailConnect(c)
  <1>1. IdleLoop.pc = "idle" /\ IdleLoop.outcome = "none"
    BY DEF IdleLoop
  <1>2. /\ GPClientReturns(c) => loop[c].pc = "returned"
        /\ DecideReconnect(c) => loop[c].pc = "decide"
        /\ (LoopTop(c) \/ StartProcess(c) \/ StartFails(c) \/ RegisterProcess(c)
              \/ SettleState(c) \/ GPClientReturns(c) \/ DecideReconnect(c)
              \/ ScheduleReconnect(c) \/ SetReconnecting(c) \/ WaitBeforeReconnect(c)
              \/ FailConnect(c))
           => loop[c].pc \in Down
    BY DEF GPClientReturns, DecideReconnect, LoopTop, StartProcess, StartFails,
           RegisterProcess, SettleState, ScheduleReconnect, SetReconnecting,
           WaitBeforeReconnect, FailConnect, Down
  <1>3. \A waitErr \in BOOLEAN:
           ClassifyOpenConnectExit(loop[c].proc, waitErr) # "stopped"
    BY DEF ClassifyOpenConnectExit
  <1>4. loop'[c].outcome # "stopped"
    BY <1>1, <1>3, LoopMoves DEF Keeps
  <1>5. loop'[c].pc \in Down => loop[c].pc \in Down \/ AuthFailed(c) \/ ClearAuth(c)
    <2>1. ASSUME loop[c].pc \notin Down, ~AuthFailed(c), ~ClearAuth(c)
          PROVE  loop'[c].pc \in {"password", "token", "stream", "auth-failed", "record", "reap",
                                 "clear"}
      BY <1>2, <2>1, LoopMoves
    <2> QED BY <2>1 DEF Down
  <1>6. loop'[c].pc = "returned" /\ loop'[c].outcome = "clean"
               => SettleState(c) /\ loop[c].outcome = "clean"
    BY <1>1, LoopMoves DEF Keeps
  <1>7. loop'[c].pc = "decide" => loop[c].pc = "returned" /\ Keeps(c) /\ GPClientReturns(c)
    BY <1>1, <1>2, LoopMoves
  <1>8. loop'[c].pc = "idle" =>
               \/ loop[c].pc = "decide" /\ loop[c].outcome = "clean" /\ DecideReconnect(c)
               \/ FailConnect(c)
    BY <1>2, LoopMoves
  <1> QED BY <1>4, <1>5, <1>6, <1>7, <1>8

LEMMA SessionStep ==
  ASSUME NEW c, Loops = {c}, Disconnects = {}, TypeOK, PipeOf(c), ReadersInv, SessionInv(c),
         [Next]_vars
  PROVE  SessionInv(c)'
  <1>0. c \in Loops /\ m \in Manager /\ NoProc \notin Procs
    BY DEF TypeOK, NoProc, Procs
  <1>a. ASSUME NEW p \in Procs, NEW s \in Streams, reader[p][s] \in {"reading", "detect", "bye"}
        PROVE  loop[c].pc = "reap"
    BY <1>a DEF ReadersInv
  <1>b. ASSUME NEW p \in Procs, NEW s \in Streams, ReadOTPPrompt(p, s)
        PROVE  loop[c].pc = "reap" /\ UNCHANGED loop
    BY <1>a, <1>b DEF ReadOTPPrompt, NextLine
  <1>1. CASE \E req \in Requests: Connect(c, req)
    <2>1. loop[c].pc = "idle" /\ loop'[c].pc = "top" /\ loop'[c].outcome = "none"
          /\ ~m'.stopRequested /\ m'.state = "connecting" /\ (m'.awaitingOTP => m.awaitingOTP)
      BY <1>0, <1>1, ConnectEffect
    <2> QED BY <2>1 DEF SessionInv, Down
  <1>2. CASE LoopStep(c)
    <2>0. /\ ~m.stopRequested /\ m.state # "disconnecting" /\ loop[c].outcome # "stopped"
      BY DEF SessionInv
    <2>1. ~m'.stopRequested /\ m'.state # "disconnecting"
      BY <1>0, <1>2, <2>0, LoopState DEF SameState
    <2>2. loop'[c].outcome # "stopped"
      BY <1>0, <1>2, <2>0, LoopEnds
    <2>3. loop'[c].pc \in Down => ~m'.awaitingOTP
      <3>1. CASE loop[c].pc \in Down
        <4>1. ~m.awaitingOTP
          BY <3>1 DEF SessionInv
        <4>2. Quiet \/ Cleared \/ RegisterProcess(c)
          BY <1>0, <1>2, LoopManagerEffect
        <4> QED BY <1>0, <4>1, <4>2, RegisterEffect DEF Quiet, Cleared
      <3>2. CASE AuthFailed(c) \/ ClearAuth(c)
        BY <1>0, <3>2, ClearCleared DEF AuthFailed, ClearAuth, Cleared
      <3> QED BY <1>0, <1>2, <2>0, <3>1, <3>2, LoopEnds
    <2>4. ASSUME loop'[c].pc \in {"returned", "decide"}, loop'[c].outcome = "clean"
          PROVE  m'.state = "disconnected"
      <3>1. CASE loop'[c].pc = "returned"
        <4>1. SettleState(c) /\ loop[c].outcome = "clean"
          BY <1>0, <1>2, <2>0, <2>4, <3>1, LoopEnds
        <4>2. m' = SetState("disconnected")
          BY <4>1 DEF SettleState
        <4> QED BY <1>0, <4>2, SetStateEffect
      <3>2. CASE loop'[c].pc = "decide"
        <4>1. loop[c].pc = "returned" /\ loop[c].outcome = "clean" /\ GPClientReturns(c)
          BY <1>0, <1>2, <2>0, <2>4, <3>2, LoopEnds DEF Keeps
        <4> QED BY <4>1 DEF GPClientReturns, SessionInv
      <3> QED BY <2>4, <3>1, <3>2
    <2>5. ASSUME loop'[c].pc = "idle"
          PROVE  m'.state \in {"disconnected", "error"}
      <3>1. CASE FailConnect(c)
        BY <1>0, <3>1, SetStateEffect DEF FailConnect
      <3>2. CASE loop[c].pc = "decide" /\ loop[c].outcome = "clean" /\ DecideReconnect(c)
        BY <3>2 DEF DecideReconnect, SessionInv
      <3> QED BY <1>0, <1>2, <2>0, <2>5, <3>1, <3>2, LoopEnds
    <2> QED BY <2>1, <2>2, <2>3, <2>4, <2>5 DEF SessionInv
  <1>3. CASE ~LoopStep(c) /\ UNCHANGED loop
    <2>1. \/ SameState
          \/ /\ loop[c].pc = "reap" /\ m'.stopRequested = m.stopRequested
             /\ m'.state \in {"connected", "disconnected"}
          \/ \E req \in Requests: Connect(c, req)
      BY <1>a, <1>3, StateStep
    <2>2. ~\E req \in Requests: Connect(c, req)
      BY <1>0, <1>3, ConnectEffect
    <2>3. m'.awaitingOTP => m.awaitingOTP \/ loop[c].pc \notin Down
      <3>1. loop[c].pc = "reap" => loop[c].pc \notin Down
        BY DEF Down
      <3>2. ASSUME NEW p \in Procs, m.stdin = p
            PROVE  loop[c].pc \notin Down
        BY <1>0, <3>2 DEF PipeOf
      <3> QED BY <1>b, <3>1, <3>2, OfferStep
    <2> QED BY <1>3, <2>1, <2>2, <2>3 DEF SessionInv, SameState, Down
  <1> QED BY <1>1, <1>2, <1>3, LoopChanges

SoleInv(c) ==
    /\ SafetyInv /\ PipeOf(c) /\ ProcsInv /\ HeldInv /\ ReadersInv /\ SessionInv(c)

LEMMA SoleInit ==
  ASSUME NEW c, Loops = {c}, Init
  PROVE  SoleInv(c)
  <1>1. /\ m.stdin = NoProc /\ m.cmd = NoProc /\ ~m.awaitingOTP /\ ~m.stopRequested
        /\ m.state = "disconnected"
        /\ loop[c].pc = "idle" /\ loop[c].outcome = "none"
        /\ \A p \in Procs: /\ proc[p].status = "none" /\ ~proc[p].asking
                           /\ ~proc[p].stdinClosed /\ proc[p].inbox = 0
                           /\ \A s \in Streams: proc[p].out[s] = <<>> /\ reader[p][s] = "none"
    BY DEF Init, NewManager, IdleLoop, NoProcess
  <1>2. PipeOf(c) /\ ProcsInv /\ ReadersInv /\ SessionInv(c)
    BY <1>1 DEF PipeOf, ProcsInv, ReadersInv, SessionInv
  <1>3. HeldInv
    BY <1>1 DEF HeldInv, Holding
  <1> QED BY <1>2, <1>3, SafetyInit DEF SoleInv

LEMMA SoleStep ==
  ASSUME NEW c, Loops = {c}, Disconnects = {}, SoleInv(c), [Next]_vars
  PROVE  SoleInv(c)'
  <1>1. SafetyInv'
    BY SafetyStep DEF SoleInv
  <1>2. PipeOf(c)' /\ ReadersInv' /\ SessionInv(c)'
    BY PipeOfStep, ReadersStep, SessionStep DEF SoleInv, SafetyInv
  <1>3. ProcsInv' /\ HeldInv'
    BY ProcsStep, HeldStep DEF SoleInv, SafetyInv
  <1> QED BY <1>1, <1>2, <1>3 DEF SoleInv

\* With one goroutine of Connect at a time and nobody disconnecting, the end of the
\* goroutine, by whichever of its returns, leaves no process, pipe or prompt, and a state that says so.
THEOREM SessionsEndClean ==
  ASSUME NEW c, Loops = {c}, Disconnects = {}
  PROVE  Spec => []IdleIsDown
  <1>1. Init => SoleInv(c)
    BY SoleInit
  <1>2. SoleInv(c) /\ [Next]_vars => SoleInv(c)'
    BY SoleStep
  <1>3. SoleInv(c) => IdleIsDown
    <2>1. ASSUME SoleInv(c), loop[c].pc = "idle", NEW p \in Procs
          PROVE  ~Alive(p)
      BY <2>1 DEF SoleInv, ProcsInv, HeldInv, Alive, Holding
    <2>2. ASSUME SoleInv(c), loop[c].pc = "idle"
          PROVE  /\ m.state \in {"disconnected", "error"}
                 /\ m.cmd = NoProc /\ m.stdin = NoProc /\ ~m.awaitingOTP
      BY <2>2 DEF SoleInv, SessionInv, PipeOf, Down
    <2> QED BY <2>1, <2>2 DEF IdleIsDown
  <1> QED BY <1>1, <1>2, <1>3, PTL DEF Spec

-----------------------------------------------------------------------------
(* The prompts that openconnect printed and nobody has read yet.           *)

Bit(b)     == IF b THEN 1 ELSE 0
OtpAt(q)   == {i \in 1..Len(q): q[i] = "otp"}
Prompts(q) == Cardinality(OtpAt(q))

LEMMA PromptsType ==
  ASSUME NEW q \in Seq(LineKinds)
  PROVE  /\ IsFiniteSet(OtpAt(q)) /\ Prompts(q) \in Nat
         /\ Prompts(q) = 0 <=> \A i \in 1..Len(q): q[i] # "otp"
  <1>1. IsFiniteSet(1..Len(q))
    BY FS_Interval
  <1>2. IsFiniteSet(OtpAt(q))
    BY <1>1, FS_Subset DEF OtpAt
  <1>3. Prompts(q) \in Nat /\ (Prompts(q) = 0 <=> OtpAt(q) = {})
    BY <1>2, FS_CardinalityType, FS_EmptySet DEF Prompts
  <1> QED BY <1>2, <1>3 DEF OtpAt

LEMMA PromptsEmpty == Prompts(<<>>) = 0
  <1>1. OtpAt(<<>>) = {}
    BY DEF OtpAt
  <1> QED BY <1>1, FS_EmptySet DEF Prompts

\* One more line.
LEMMA PromptsAppend ==
  ASSUME NEW q \in Seq(LineKinds), NEW line \in LineKinds
  PROVE  Prompts(Append(q, line)) = Prompts(q) + Bit(line = "otp")
  <1> DEFINE n == Len(q) + 1
  <1>1. /\ Append(q, line) \in Seq(LineKinds) /\ Len(Append(q, line)) = n /\ n \in Nat
        /\ Append(q, line)[n] = line /\ \A i \in 1..Len(q): Append(q, line)[i] = q[i]
    OBVIOUS
  <1>2. n \notin OtpAt(q) /\ IsFiniteSet(OtpAt(q)) /\ Cardinality(OtpAt(q)) \in Nat
    BY PromptsType DEF OtpAt, Prompts
  <1>3. CASE line = "otp"
    <2>1. OtpAt(Append(q, line)) = OtpAt(q) \cup {n}
      BY <1>1, <1>3 DEF OtpAt
    <2> QED BY <1>2, <1>3, <2>1, FS_AddElement DEF Prompts, Bit
  <1>4. CASE line # "otp"
    <2>1. OtpAt(Append(q, line)) = OtpAt(q)
      BY <1>1, <1>4 DEF OtpAt
    <2> QED BY <1>2, <1>4, <2>1 DEF Prompts, Bit
  <1> QED BY <1>3, <1>4

\* One line less.
LEMMA PromptsTail ==
  ASSUME NEW q \in Seq(LineKinds), q # <<>>
  PROVE  Prompts(q) = Prompts(Tail(q)) + Bit(Head(q) = "otp")
  <1> DEFINE rest == OtpAt(q) \ {1}
             up   == [i \in OtpAt(Tail(q)) |-> i + 1]
  <1>1. /\ Tail(q) \in Seq(LineKinds) /\ Len(Tail(q)) = Len(q) - 1 /\ Len(q) \in Nat \ {0}
        /\ Head(q) = q[1] /\ \A i \in 1..Len(Tail(q)): Tail(q)[i] = q[i + 1]
    OBVIOUS
  <1>2. IsFiniteSet(OtpAt(q)) /\ Cardinality(OtpAt(q)) \in Nat /\ IsFiniteSet(OtpAt(Tail(q)))
    BY <1>1, PromptsType DEF Prompts
  <1>3. up \in Bijection(OtpAt(Tail(q)), rest)
    <2>1. \A i \in OtpAt(Tail(q)): i \in Nat /\ i + 1 \in rest
      BY <1>1 DEF OtpAt
    <2>2. \A j \in rest: j - 1 \in OtpAt(Tail(q)) /\ j = (j - 1) + 1
      BY <1>1 DEF OtpAt
    <2>3. up \in Injection(OtpAt(Tail(q)), rest)
      BY <2>1 DEF Injection, IsInjective
    <2>4. up \in Surjection(OtpAt(Tail(q)), rest)
      BY <2>1, <2>2 DEF Surjection
    <2> QED BY <2>3, <2>4 DEF Bijection
  <1>4. Cardinality(rest) = Prompts(Tail(q))
    BY <1>2, <1>3, FS_Bijection DEF ExistsBijection, Prompts
  <1>5. 1 \in OtpAt(q) <=> Head(q) = "otp"
    BY <1>1 DEF OtpAt
  <1>6. Cardinality(rest) = IF 1 \in OtpAt(q) THEN Cardinality(OtpAt(q)) - 1
                            ELSE Cardinality(OtpAt(q))
    BY <1>2, FS_RemoveElement
  <1> QED BY <1>2, <1>4, <1>5, <1>6 DEF Prompts, Bit

-----------------------------------------------------------------------------
(* The accounts of a login: prompts against tokens.                        *)

\* With sent tokens counted or about to be counted, and count prompts noted: a
\* prompt is printed only after the one before was answered, so each is
\* answered, waits in the pipe, or is open to the user or with a writer.
Served(pc, sent, count, awaiting, out, asking, inbox, reading, writers, late) ==
    /\ out # <<>> /\ asking => out[Len(out)] = "otp"
    /\ sent + Bit(asking) = count + Prompts(out) + inbox
    /\ awaiting \/ writers # {} => asking /\ inbox = 0 /\ out = <<>> /\ reading
    /\ sent < count => awaiting \/ writers # {}
    /\ ~(awaiting /\ writers # {})
    /\ \A u, v \in writers: u = v
    /\ late # {} => sent <= count
    /\ pc # "reap" => count = 0 /\ late = {}

\* A token of the ConnectRequest goes into the pipe, before anybody reads lines.
LEMMA TokenServed ==
  ASSUME NEW sent \in Nat, NEW count \in Nat, NEW awaiting \in BOOLEAN, NEW asking \in BOOLEAN,
         NEW out \in Seq(LineKinds), NEW inbox \in Nat, NEW writers, NEW late,
         Served("token", sent, count, awaiting, out, asking, inbox, FALSE, writers, late)
  PROVE  Served("record", sent + 1, count, awaiting, out, asking, inbox + 1, FALSE, writers, late)
  <1>1. Prompts(out) \in Nat
    BY PromptsType
  <1> QED BY <1>1 DEF Served, Bit

\* What noteOTPPrompt decides: the user is asked when the tokens sent do not cover
\* one more prompt, and once they are all counted only then.
Asks(open, sent, count, late, reading) ==
    /\ sent <= count => open
    /\ open => reading /\ (late = {} => sent <= count)

\* noteOTPPrompt: unless more tokens were sent than prompts noted, the user is
\* asked, and openconnect waits for nothing else.
LEMMA PromptServed ==
  ASSUME NEW sent \in Nat, NEW count \in Nat, NEW awaiting \in BOOLEAN,
         NEW asking \in BOOLEAN, NEW out \in Seq(LineKinds), NEW inbox \in Nat, NEW writers, NEW late,
         NEW open \in BOOLEAN, NEW reading \in BOOLEAN, out # <<>>, Head(out) = "otp",
         Asks(open, sent, count, late, reading),
         Served("reap", sent, count, awaiting, out, asking, inbox, reading, writers, late)
  PROVE  /\ ~awaiting
         /\ Served("reap", sent, count + 1, open, Tail(out), asking, inbox, reading, writers, late)
  <1>1. ~awaiting /\ writers = {}
    BY DEF Served
  <1>2. /\ Prompts(out) = Prompts(Tail(out)) + 1 /\ Prompts(Tail(out)) \in Nat
        /\ Tail(out) \in Seq(LineKinds)
    <2>1. Prompts(out) = Prompts(Tail(out)) + Bit(TRUE)
      BY PromptsTail
    <2>2. Tail(out) \in Seq(LineKinds)
      OBVIOUS
    <2> QED BY <2>1, <2>2, PromptsType DEF Bit
  <1>3. sent + Bit(asking) = count + 1 + Prompts(Tail(out)) + inbox
    BY <1>2 DEF Served
  <1>4. Tail(out) # <<>> /\ asking => Tail(out)[Len(Tail(out))] = "otp"
    BY DEF Served
  <1>5. ASSUME open
        PROVE  asking /\ inbox = 0 /\ Tail(out) = <<>>
    <2>1. sent <= count
      BY <1>5 DEF Served, Asks
    <2>2. asking /\ inbox = 0 /\ Prompts(Tail(out)) = 0
      BY <1>2, <1>3, <2>1 DEF Bit
    <2>3. \A i \in 1..Len(Tail(out)): Tail(out)[i] # "otp"
      BY <1>2, <2>2, PromptsType
    <2>4. ASSUME Tail(out) # <<>>
          PROVE  Len(Tail(out)) \in 1..Len(Tail(out))
      BY <1>2, <2>4
    <2> QED BY <1>4, <2>2, <2>3, <2>4
  <1>6. (sent < count + 1 => open) /\ (open => reading)
    BY DEF Asks
  <1>7. late # {} => sent <= count + 1
    BY DEF Served
  <1> QED BY <1>1, <1>3, <1>4, <1>5, <1>6, <1>7 DEF Served

\* Any other line, and a state that is set: nobody is asked then, so there is
\* no question to withdraw.
LEMMA LineServed ==
  ASSUME NEW sent \in Nat, NEW count \in Nat, NEW awaiting \in BOOLEAN,
         NEW asking \in BOOLEAN, NEW out \in Seq(LineKinds), NEW inbox \in Nat, NEW reading,
         NEW writers, NEW late, NEW next,
         out # <<>>, Head(out) # "otp",
         Served("reap", sent, count, awaiting, out, asking, inbox, reading, writers, late)
  PROVE  Served("reap", sent, count, FALSE, Tail(out), asking, inbox, next, writers, late)
  <1>1. ~awaiting /\ writers = {}
    BY DEF Served
  <1>2. Prompts(out) = Prompts(Tail(out))
    <2>1. Prompts(out) = Prompts(Tail(out)) + Bit(Head(out) = "otp")
      BY PromptsTail
    <2>2. Tail(out) \in Seq(LineKinds)
      OBVIOUS
    <2>3. Prompts(Tail(out)) \in Nat
      BY <2>2, PromptsType
    <2> QED BY <2>1, <2>3 DEF Bit
  <1>3. Tail(out) # <<>> /\ asking => Tail(out)[Len(Tail(out))] = "otp"
    BY DEF Served
  <1> QED BY <1>1, <1>2, <1>3 DEF Served

\* SubmitOTP writes a token.
LEMMA WriteServed ==
  ASSUME NEW pc, NEW sent \in Nat, NEW count \in Nat, NEW awaiting \in BOOLEAN,
         NEW asking \in BOOLEAN, NEW out \in Seq(LineKinds), NEW inbox \in Nat, NEW reading,
         NEW writers, NEW late, NEW u \in writers,
         Served(pc, sent, count, awaiting, out, asking, inbox, reading, writers, late)
  PROVE  /\ pc # "reap" => count = 0
         /\ Served("reap", sent + 1, count, awaiting, out, asking, inbox + 1, reading,
                   writers \ {u}, late \cup {u})
  <1>1. Prompts(out) = 0
    BY PromptsEmpty DEF Served
  <1> QED BY <1>1 DEF Served, Bit

-----------------------------------------------------------------------------
(* Callers of SubmitOTP with one token each.                               *)

\* Who is about to write a token, and who wrote one that is not counted yet.
Writers == {u \in Submits: sub[u].pc = "write"}
Late    == {u \in Submits: sub[u].pc = "record"}

LEMMA SubmitMoves ==
  ASSUME TypeOK, NEW u \in Submits, SubmitOTP(u) \/ SubmitStep(u)
  PROVE  /\ \A v \in Submits: v # u => sub'[v] = sub[v]
         /\ \/ /\ SubmitOTP(u) /\ sub[u].pc = "idle" /\ sub'[u].pc = "write"
               /\ sub'[u].stdin = m.stdin /\ sub'[u].left \in 1..MaxTokens
            \/ /\ SubmitWrite(u) /\ sub[u].pc = "write"
               /\ \/ /\ CanWrite(sub[u].stdin) /\ proc' = Written(sub[u].stdin)
                     /\ sub'[u].pc = "record"
                     /\ sub'[u].stdin = sub[u].stdin /\ sub'[u].left = sub[u].left
                  \/ ~CanWrite(sub[u].stdin) /\ sub'[u].pc = "idle" /\ UNCHANGED proc
            \/ /\ SubmitRecord(u) /\ sub[u].pc = "record"
               /\ sub[u].left = 1 => sub'[u].pc = "idle"
  <1>1. sub \in [Submits -> SubRecord]
    BY DEF TypeOK
  <1>2. CASE SubmitOTP(u)
    <2>1. PICK tokens \in 1..MaxTokens:
             sub' = [sub EXCEPT ![u] = [pc |-> "write", stdin |-> m.stdin, left |-> tokens]]
      BY <1>2 DEF SubmitOTP
    <2> QED BY <1>1, <1>2, <2>1 DEF SubmitOTP
  <1>3. CASE SubmitWrite(u)
    <2>1. CASE CanWrite(sub[u].stdin) /\ sub' = [sub EXCEPT ![u].pc = "record"]
      BY <1>1, <1>3, <2>1, ZenonT(60) DEF SubmitWrite, SubRecord
    <2>2. CASE ~CanWrite(sub[u].stdin) /\ sub' = [sub EXCEPT ![u] = IdleSub] /\ UNCHANGED proc
      BY <1>1, <1>3, <2>2 DEF SubmitWrite, IdleSub
    <2> QED BY <1>3, <2>1, <2>2 DEF SubmitWrite
  <1>4. CASE SubmitRecord(u)
    <2>1. \A v \in Submits: v # u => sub'[v] = sub[v]
      BY <1>1, <1>4 DEF SubmitRecord
    <2>2. sub[u].left = 1 => sub'[u] = IdleSub
      BY <1>1, <1>4 DEF SubmitRecord
    <2> QED BY <1>4, <2>1, <2>2 DEF SubmitRecord, IdleSub
  <1> QED BY <1>2, <1>3, <1>4 DEF SubmitStep

LEMMA SubmitChanges ==
  ASSUME [Next]_vars
  PROVE  UNCHANGED sub \/ \E u \in Submits: SubmitOTP(u) \/ SubmitStep(u)
  <1>1. ASSUME NEW l \in Loops, LoopStep(l)
        PROVE  UNCHANGED sub
    BY <1>1 DEF LoopStep, LoopTop, StartProcess, StartFails, RegisterProcess, WritePassword,
                WriteToken, RecordToken, AuthFailed, StartStreams, ReapProcess, ClearAuth,
                SettleState, GPClientReturns, DecideReconnect, ScheduleReconnect,
                SetReconnecting, WaitBeforeReconnect, FailConnect
  <1>2. ASSUME NEW l \in Loops, NEW req \in Requests, Connect(l, req)
        PROVE  UNCHANGED sub
    BY <1>2 DEF Connect
  <1>3. ASSUME NEW p \in Procs, NEW s \in Streams, ReaderStep(p, s)
        PROVE  UNCHANGED sub
    BY <1>3 DEF ReaderStep, ReadOTPPrompt, ReadCredentialPrompt, ReadGatewayLogin,
                ReadParseError, ReadEstablished, MarkConnected, ReadBye, MarkDisconnected,
                ReadEOF
  <1>4. ASSUME NEW p \in Procs, GenStep(p)
        PROVE  UNCHANGED sub
    BY <1>4 DEF GenStep, GenerateOTP, WaitForActiveAuth, WriteOTP, RecordOTP, FailGeneratedOTP
  <1>5. CASE \/ \E d \in Disconnects: Disconnect(d) \/ DisconnectStep(d)
             \/ DisconnectNoop
    BY <1>5 DEF Disconnect, DisconnectNoop, DisconnectStep, GrabStdin, CloseAndSignal,
                DisconnectWaited, DisconnectTimeout, DisconnectTail
  <1>6. CASE Environment \/ UNCHANGED vars
    BY <1>6 DEF Environment, PrintLine, ReadToken, Exit, NextWindow, vars
  <1> QED BY <1>1, <1>2, <1>3, <1>4, <1>5, <1>6 DEF Next, Calls, Goroutines

\* A caller at work has a pipe that was registered, and one token.
SubmitInv(c) ==
    \A u \in Submits: sub[u].pc # "idle" =>
        /\ sub[u].stdin \in Procs /\ sub[u].stdin <= started
        /\ loop[c].pc = "register" => sub[u].stdin # loop[c].proc
        /\ sub[u].left = 1

LEMMA SubmitInvStep ==
  ASSUME NEW c, Loops = {c}, MaxTokens <= 1, SoleInv(c), SubmitInv(c), [Next]_vars
  PROVE  SubmitInv(c)'
  <1> SUFFICES ASSUME NEW u \in Submits, sub'[u].pc # "idle"
               PROVE  /\ sub'[u].stdin \in Procs /\ sub'[u].stdin <= started'
                      /\ loop'[c].pc = "register" => sub'[u].stdin # loop'[c].proc
                      /\ sub'[u].left = 1
    BY DEF SubmitInv
  <1>1. TypeOK /\ Known /\ m \in Manager /\ started \in Nat
    BY DEF SoleInv, SafetyInv, TypeOK
  <1>2. /\ sub'[u].stdin \in Procs /\ sub'[u].stdin <= started /\ sub'[u].left = 1
        /\ loop[c].pc = "register" => sub'[u].stdin # loop[c].proc
    <2>1. CASE sub'[u] = sub[u]
      BY <2>1 DEF SubmitInv
    <2>2. CASE /\ SubmitOTP(u) /\ sub'[u].stdin = m.stdin /\ sub'[u].left \in 1..MaxTokens
      <3>1. m.stdin # NoProc /\ m.stdin \in Procs /\ m.stdin <= started
        BY <1>1, <2>2 DEF SubmitOTP, Known, Manager, ProcOrNo
      <3>2. loop[c].pc # "register"
        BY <3>1 DEF SoleInv, PipeOf, Down
      <3>3. sub'[u].left = 1
        BY <2>2, BoundsAssumption
      <3> QED BY <2>2, <3>1, <3>2, <3>3
    <2>3. CASE /\ SubmitStep(u) /\ sub[u].pc # "idle"
               /\ sub'[u].stdin = sub[u].stdin /\ sub'[u].left = sub[u].left
      BY <2>3 DEF SubmitInv
    <2>4. CASE SubmitRecord(u) /\ sub[u].pc = "record"
      <3>1. sub[u].left = 1
        BY <2>4 DEF SubmitInv
      <3> QED BY <1>1, <2>4, <3>1, SubmitMoves DEF SubmitStep, SubmitOTP, SubmitWrite
    <2>5. CASE UNCHANGED sub
      BY <2>1, <2>5
    <2>6. ASSUME NEW v \in Submits, SubmitOTP(v) \/ SubmitStep(v)
          PROVE  \/ sub'[u] = sub[u]
                 \/ SubmitOTP(u) /\ sub'[u].stdin = m.stdin /\ sub'[u].left \in 1..MaxTokens
                 \/ /\ SubmitStep(u) /\ sub[u].pc # "idle"
                    /\ sub'[u].stdin = sub[u].stdin /\ sub'[u].left = sub[u].left
                 \/ SubmitRecord(u) /\ sub[u].pc = "record"
      BY <1>1, <2>6, SubmitMoves DEF SubmitStep
    <2> QED BY <2>1, <2>2, <2>3, <2>4, <2>5, <2>6, SubmitChanges
  <1>3. CASE \E k \in Loops: StartProcess(k) /\ started' = started + 1
                             /\ loop'[k].proc = started + 1
    BY <1>1, <1>2, <1>3 DEF Procs
  <1>4. CASE started' = started /\ \A l \in Loops: loop'[l].pc = "register" => loop'[l] = loop[l]
    BY <1>2, <1>4
  <1> QED BY <1>1, <1>3, <1>4, LoopsStep

-----------------------------------------------------------------------------
(* A login by hand: of the first process, without a TOTP secret.           *)

Manual(c) ==
    /\ started <= 1 /\ loop[c].pc \in Holding /\ ~loop[c].req.otpSecret
    /\ proc[loop[c].proc].status = "running"

\* At "register" the struct does not belong to the process yet.
SentOf(c)  == IF loop[c].pc = "register" THEN 0
              ELSE m.authResponsesSent + Cardinality(Late) + Bit(loop[c].pc = "record")
CountOf(c) == IF loop[c].pc = "register" THEN 0 ELSE m.otpPromptCount
AskedOf(c) == loop[c].pc # "register" /\ m.awaitingOTP

Account(c, t) ==
    LET p == loop[c].proc
    IN  Served(loop[c].pc, SentOf(c), CountOf(c), AskedOf(c), proc[p].out[t], proc[p].asking,
               proc[p].inbox, reader[p][t] = "reading", Writers, Late)

ByHand(c) ==
    loop[c].pc # "register" => m.stdin = loop[c].proc /\ ~m.otpSecret /\ ~m.autoOTPInFlight

ManualInv(c, t) == Manual(c) => ByHand(c) /\ Account(c, t)

\* Everything that the account of a login is made of has its type.
LEMMA AccountTypes ==
  ASSUME NEW c \in Loops, NEW t \in Streams, IsFiniteSet(Submits), TypeOK, loop[c].proc \in Procs
  PROVE  LET p == loop[c].proc
         IN  /\ IsFiniteSet(Late) /\ Cardinality(Late) \in Nat /\ (Cardinality(Late) = 0 <=> Late = {})
             /\ m.authResponsesSent \in Nat /\ m.otpPromptCount \in Nat /\ m.awaitingOTP \in BOOLEAN
             /\ SentOf(c) \in Nat /\ CountOf(c) \in Nat /\ AskedOf(c) \in BOOLEAN
             /\ proc[p].out \in [Streams -> Seq(Lines)] /\ proc[p].out[t] \in Seq(LineKinds)
             /\ proc[p].asking \in BOOLEAN /\ proc[p].inbox \in Nat
  <1> DEFINE p == loop[c].proc
  <1>1. m \in Manager /\ proc[p] \in ProcRecord
    BY DEF TypeOK
  <1>2. m.authResponsesSent \in Nat /\ m.otpPromptCount \in Nat /\ m.awaitingOTP \in BOOLEAN
    BY <1>1 DEF Manager
  <1>3. /\ proc[p].out \in [Streams -> Seq(Lines)]
        /\ proc[p].asking \in BOOLEAN /\ proc[p].inbox \in Nat
    BY <1>1 DEF ProcRecord
  <1>4. proc[p].out[t] \in Seq(LineKinds)
    <2>1. \A q \in Seq(Lines): q \in Seq(LineKinds)
      BY InputsAssumption
    <2> QED BY <1>3, <2>1
  <1>5. IsFiniteSet(Late) /\ Cardinality(Late) \in Nat /\ (Cardinality(Late) = 0 <=> Late = {})
    BY FS_Subset, FS_CardinalityType, FS_EmptySet DEF Late
  <1>6. SentOf(c) \in Nat /\ CountOf(c) \in Nat /\ AskedOf(c) \in BOOLEAN
    BY <1>2, <1>5 DEF SentOf, CountOf, AskedOf, Bit
  <1> QED BY <1>2, <1>3, <1>4, <1>5, <1>6

\* A login by hand begins with the process, and goes on.
LEMMA ManualBefore ==
  ASSUME NEW c, Loops = {c}, Disconnects = {}, SoleInv(c), [Next]_vars, Manual(c)'
  PROVE  \/ LoopStep(c) /\ StartProcess(c)
         \/ /\ Manual(c) /\ loop[c].proc \in Procs /\ loop[c].proc = 1
            /\ loop'[c].proc = loop[c].proc /\ loop'[c].req = loop[c].req /\ started' = started
            /\ \/ loop'[c] = loop[c] /\ ~LoopStep(c)
               \/ /\ LoopStep(c)
                  /\ \/ RegisterProcess(c) /\ loop'[c].pc = "password"
                     \/ WritePassword(c) /\ loop'[c].pc \in {"token", "stream"}
                     \/ WriteToken(c) /\ CanWrite(loop[c].proc) /\ loop'[c].pc = "record"
                     \/ RecordToken(c) /\ loop'[c].pc \in {"token", "stream"}
                     \/ StartStreams(c) /\ loop'[c].pc = "reap"
  <1> SUFFICES ASSUME ~(LoopStep(c) /\ StartProcess(c))
               PROVE  /\ Manual(c) /\ loop[c].proc \in Procs /\ loop[c].proc = 1
                      /\ loop'[c].proc = loop[c].proc /\ loop'[c].req = loop[c].req
                      /\ started' = started
                      /\ \/ loop'[c] = loop[c] /\ ~LoopStep(c)
                         \/ /\ LoopStep(c)
                            /\ \/ RegisterProcess(c) /\ loop'[c].pc = "password"
                               \/ WritePassword(c) /\ loop'[c].pc \in {"token", "stream"}
                               \/ /\ WriteToken(c) /\ CanWrite(loop[c].proc)
                                  /\ loop'[c].pc = "record"
                               \/ RecordToken(c) /\ loop'[c].pc \in {"token", "stream"}
                               \/ StartStreams(c) /\ loop'[c].pc = "reap"
    OBVIOUS
  <1>1. TypeOK /\ Known /\ HeldInv /\ loop'[c].pc \in Holding
    BY DEF SoleInv, SafetyInv, Manual
  <1>2. /\ loop'[c].proc = loop[c].proc /\ loop'[c].req = loop[c].req
        /\ loop[c].pc \in Holding
        /\ \/ loop'[c] = loop[c] /\ ~LoopStep(c)
           \/ /\ LoopStep(c)
              /\ \/ RegisterProcess(c) /\ loop'[c].pc = "password"
                 \/ WritePassword(c) /\ loop'[c].pc \in {"token", "stream"}
                 \/ WriteToken(c) /\ CanWrite(loop[c].proc) /\ loop'[c].pc = "record"
                 \/ RecordToken(c) /\ loop'[c].pc \in {"token", "stream"}
                 \/ StartStreams(c) /\ loop'[c].pc = "reap"
    <2>1. CASE LoopStep(c)
      <3>1. /\ RegisterProcess(c) => loop[c].pc = "register"
            /\ WritePassword(c) => loop[c].pc = "password"
            /\ WriteToken(c) => loop[c].pc = "token"
            /\ RecordToken(c) => loop[c].pc = "record"
            /\ StartStreams(c) => loop[c].pc = "stream"
        BY DEF RegisterProcess, WritePassword, WriteToken, RecordToken, StartStreams
      <3>2. IdleLoop.pc = "idle"
        BY DEF IdleLoop
      <3> QED BY <1>1, <2>1, <3>1, <3>2, LoopMoves DEF Holding, Keeps
    <2>2. CASE ~LoopStep(c) /\ UNCHANGED loop
      BY <1>1, <2>2
    <2>3. CASE \E req \in Requests: Connect(c, req)
      BY <1>1, <2>3, ConnectEffect DEF Holding
    <2> QED BY <2>1, <2>2, <2>3, LoopChanges
  <1>3. loop[c].proc \in Procs
    BY <1>1, <1>2 DEF HeldInv
  <1>4. started' = started
    BY <1>1, LoopsStep DEF StartProcess, LoopStep
  <1>5. proc[loop[c].proc].status = "running"
    <2>1. proc'[loop[c].proc].status = "running"
      BY <1>2 DEF Manual
    <2> QED BY <1>1, <1>3, <2>1, ProcFields
  <1>6. loop[c].proc = 1
    BY <1>1, <1>3, <1>4 DEF Manual, Known, Procs, TypeOK
  <1> QED BY <1>2, <1>3, <1>4, <1>5, <1>6 DEF Manual

\* No generator works for it.
LEMMA NoGenerator ==
  ASSUME NEW c, Loops = {c}, SoleInv(c), Manual(c), ByHand(c), loop[c].proc = 1,
         loop[c].proc \in Procs
  PROVE  \A p \in Procs: ~GenStep(p)
  <1> SUFFICES ASSUME NEW p \in Procs
               PROVE  gen[p].pc = "idle"
    BY DEF GenStep, GenerateOTP, WaitForActiveAuth, WriteOTP, RecordOTP, FailGeneratedOTP
  <1>1. Known /\ RegisterIsNew /\ GeneratorIsCurrent /\ started \in Nat
    BY DEF SoleInv, SafetyInv, TypeOK
  <1>2. CASE p # loop[c].proc
    BY <1>1, <1>2 DEF Known, Manual, Procs
  <1>3. CASE p = loop[c].proc /\ loop[c].pc = "register"
    BY <1>1, <1>3 DEF RegisterIsNew
  <1>4. CASE p = loop[c].proc /\ loop[c].pc # "register"
    BY <1>1, <1>4 DEF ByHand, GeneratorIsCurrent
  <1> QED BY <1>2, <1>3, <1>4

-----------------------------------------------------------------------------
(* The account is right after every step.                                  *)

\* What a login by hand needs of the struct, but for the prompt.
SameLogin ==
    /\ m'.otpPromptCount = m.otpPromptCount /\ m'.authResponsesSent = m.authResponsesSent
    /\ m'.stdin = m.stdin /\ m'.otpSecret = m.otpSecret /\ m'.autoOTPInFlight = m.autoOTPInFlight

LEMMA CountEffect ==
  ASSUME m \in Manager, m' = RecordAuthResponse
  PROVE  /\ m'.otpPromptCount = m.otpPromptCount
         /\ m'.authResponsesSent = m.authResponsesSent + 1
         /\ m'.awaitingOTP = (m.awaitingOTP /\ m.authResponsesSent + 1 < m.otpPromptCount)
         /\ m'.stdin = m.stdin /\ m'.otpSecret = m.otpSecret
         /\ m'.autoOTPInFlight = m.autoOTPInFlight
  BY ZenonT(60) DEF RecordAuthResponse, Manager

LEMMA BeginEffect ==
  ASSUME TypeOK, NEW l \in Loops, RegisterProcess(l)
  PROVE  /\ m'.otpPromptCount = 0 /\ m'.authResponsesSent = 0 /\ ~m'.awaitingOTP
         /\ m'.stdin = loop[l].proc /\ m'.otpSecret = loop[l].req.otpSecret /\ ~m'.autoOTPInFlight
  <1>1. m \in Manager
    BY DEF TypeOK
  <1> QED BY <1>1, ZenonT(60) DEF RegisterProcess, Manager

\* noteOTPPrompt, for a prompt that is not a repetition.
LEMMA NoteEffect ==
  ASSUME m \in Manager, m' = NoteOTPPrompt, ~m.awaitingOTP, ~m.autoOTPInFlight, ~m.otpSecret
  PROVE  /\ m'.otpPromptCount = m.otpPromptCount + 1
         /\ m'.authResponsesSent = m.authResponsesSent
         /\ m'.awaitingOTP = (m.authResponsesSent < m.otpPromptCount + 1)
         /\ m'.stdin = m.stdin /\ ~m'.otpSecret /\ ~m'.autoOTPInFlight
  <1>1. m' = [m EXCEPT !.otpPromptCount = @ + 1, !.awaitingOTP = NeedsInput /\ ~Automatic,
                       !.autoOTPInFlight = Automatic]
    BY DEF NoteOTPPrompt, OpenPrompt
  <1>2. /\ m'.otpPromptCount = m.otpPromptCount + 1
        /\ m'.authResponsesSent = m.authResponsesSent
        /\ m'.awaitingOTP = (NeedsInput /\ ~Automatic)
        /\ m'.stdin = m.stdin /\ m'.otpSecret = m.otpSecret /\ m'.autoOTPInFlight = Automatic
    BY <1>1, ZenonT(60) DEF Manager
  <1>3. ~Automatic
    BY DEF Automatic
  <1>4. NeedsInput <=> m.authResponsesSent < m.otpPromptCount + 1
    BY DEF NeedsInput
  <1> QED BY <1>2, <1>3, <1>4

LEMMA ReaderLogin ==
  ASSUME TypeOK, NEW p \in Procs, NEW s \in Streams, ReaderStep(p, s), ~ReadOTPPrompt(p, s)
  PROVE  SameLogin /\ (m'.awaitingOTP => m.awaitingOTP)
  <1>1. m \in Manager
    BY DEF TypeOK
  <1>2. CASE ReadCredentialPrompt(p, s)
    BY <1>1, <1>2, ZenonT(60) DEF ReadCredentialPrompt, NoteCredentialPrompt, Manager, SameLogin
  <1>3. CASE ReadGatewayLogin(p, s)
    BY <1>1, <1>3, ZenonT(60) DEF ReadGatewayLogin, Manager, SameLogin
  <1>4. CASE ReadParseError(p, s)
    BY <1>1, <1>4, ZenonT(60) DEF ReadParseError, Manager, SameLogin
  <1>5. CASE MarkConnected(p, s)
    BY <1>1, <1>5, ZenonT(60) DEF MarkConnected, Manager, SameLogin
  <1>6. CASE MarkDisconnected(p, s)
    BY <1>1, <1>6, ZenonT(60) DEF MarkDisconnected, SetState, Manager, SameLogin
  <1>7. CASE UNCHANGED m
    BY <1>7 DEF SameLogin
  <1> QED BY <1>2, <1>3, <1>4, <1>5, <1>6, <1>7 DEF ReaderStep, ReadEstablished, ReadBye, ReadEOF

\* A line is read where the process of the account is read.
LEMMA ReaderLine ==
  ASSUME TypeOK, NEW p \in Procs, NEW s \in Streams, ReaderStep(p, s),
         proc[p].status # "exited"
  PROVE  /\ UNCHANGED <<loop, sub>>
         /\ \/ /\ reader[p][s] \in {"detect", "bye"} /\ UNCHANGED proc /\ ~ReadOTPPrompt(p, s)
            \/ /\ reader[p][s] = "reading" /\ proc[p].out[s] # <<>>
               /\ proc' = [proc EXCEPT ![p].out[s] = Tail(@)]
               /\ \/ ReadOTPPrompt(p, s) /\ Head(proc[p].out[s]) = "otp" /\ UNCHANGED reader
                  \/ ~ReadOTPPrompt(p, s) /\ Head(proc[p].out[s]) # "otp"
  BY DEF ReaderStep, ReadOTPPrompt, ReadCredentialPrompt, ReadGatewayLogin, ReadParseError,
         ReadEstablished, MarkConnected, ReadBye, MarkDisconnected, ReadEOF, NextLine

\* The login that a step finds.
Going(c, t) ==
    /\ SoleInv(c) /\ SubmitInv(c) /\ Manual(c) /\ ByHand(c) /\ Account(c, t)
    /\ loop[c].proc \in Procs /\ loop[c].proc = 1

LEMMA StartAccount ==
  ASSUME NEW c, Loops = {c}, NEW t \in Streams, SoleInv(c), SubmitInv(c), [Next]_vars,
         Manual(c)', LoopStep(c), StartProcess(c)
  PROVE  ByHand(c)' /\ Account(c, t)'
  <1> DEFINE p == started + 1
  <1>1. TypeOK /\ Known /\ ProcsInv /\ started \in Nat /\ started' = started + 1
        /\ loop \in [Loops -> LoopRecord] /\ proc \in [Procs -> ProcRecord]
    BY DEF SoleInv, SafetyInv, TypeOK, StartProcess
  <1>2. started = 0 /\ p \in Procs
    BY <1>1, BoundsAssumption DEF Manual, StartProcess, Procs
  <1>3. loop'[c].pc = "register" /\ loop'[c].proc = p
    BY <1>1, ZenonT(60) DEF StartProcess, LoopRecord
  <1>4. /\ proc'[p].asking = proc[p].asking /\ proc'[p].inbox = proc[p].inbox
        /\ proc'[p].out = proc[p].out
    BY <1>1, <1>2, ZenonT(60) DEF StartProcess, ProcRecord
  <1>5. proc[p].status = "none"
    BY <1>1, <1>2 DEF Known
  <1>6. ~proc[p].asking /\ proc[p].inbox = 0 /\ proc[p].out[t] = <<>>
    BY <1>2, <1>5 DEF SoleInv, ProcsInv
  <1>7. Writers = {} /\ Late = {}
    BY <1>2 DEF SubmitInv, Writers, Late, Procs
  <1>8. Writers' = {} /\ Late' = {}
    BY <1>7 DEF StartProcess, Writers, Late
  <1>9. SentOf(c)' = 0 /\ CountOf(c)' = 0 /\ AskedOf(c)' = FALSE
    BY <1>3 DEF SentOf, CountOf, AskedOf
  <1>10. Account(c, t)'
    BY <1>3, <1>4, <1>6, <1>8, <1>9, PromptsEmpty DEF Account, Served, Bit
  <1> QED BY <1>3, <1>10 DEF ByHand

LEMMA LoopAccount ==
  ASSUME NEW c, Loops = {c}, NEW t \in Streams, IsFiniteSet(Submits), Going(c, t), LoopStep(c),
         loop'[c].proc = loop[c].proc, loop'[c].req = loop[c].req,
         \/ RegisterProcess(c) /\ loop'[c].pc = "password"
         \/ WritePassword(c) /\ loop'[c].pc \in {"token", "stream"}
         \/ WriteToken(c) /\ CanWrite(loop[c].proc) /\ loop'[c].pc = "record"
         \/ RecordToken(c) /\ loop'[c].pc \in {"token", "stream"}
         \/ StartStreams(c) /\ loop'[c].pc = "reap"
  PROVE  ByHand(c)' /\ Account(c, t)'
  <1> DEFINE p == loop[c].proc
  <1>1. TypeOK /\ m \in Manager /\ proc \in [Procs -> ProcRecord] /\ p \in Procs
        /\ reader \in [Procs -> [Streams -> ReaderPc]] /\ proc[p] \in ProcRecord
    BY DEF Going, SoleInv, SafetyInv, TypeOK
  <1>2. UNCHANGED sub /\ Writers' = Writers /\ Late' = Late
    <2>1. UNCHANGED sub
      BY DEF RegisterProcess, WritePassword, WriteToken, RecordToken, StartStreams
    <2> QED BY <2>1 DEF Writers, Late
  <1>3. /\ SentOf(c) \in Nat /\ CountOf(c) \in Nat /\ AskedOf(c) \in BOOLEAN
        /\ proc[p].out[t] \in Seq(LineKinds) /\ proc[p].asking \in BOOLEAN /\ proc[p].inbox \in Nat
        /\ (Cardinality(Late) = 0 <=> Late = {}) /\ m.authResponsesSent \in Nat
    BY <1>1, AccountTypes
  \* While the goroutine is still writing, nobody is asked.
  <1>4. ASSUME loop[c].pc # "reap"
        PROVE  /\ ~AskedOf(c) /\ Writers = {} /\ Late = {} /\ CountOf(c) = 0
               /\ reader[p][t] # "reading"
    <2>1. reader[p][t] # "reading"
      BY <1>1, <1>4 DEF Going, SoleInv, ReadersInv
    <2> QED BY <1>4, <2>1 DEF Going, Account, Served
  <1>5. CASE RegisterProcess(c)
    <2>1. loop[c].pc = "register" /\ UNCHANGED <<reader, proc>>
      BY <1>5 DEF RegisterProcess
    <2>2. /\ m'.otpPromptCount = 0 /\ m'.authResponsesSent = 0 /\ ~m'.awaitingOTP
          /\ m'.stdin = p /\ ~m'.otpSecret /\ ~m'.autoOTPInFlight
      BY <1>1, <1>5, BeginEffect DEF Going, Manual
    <2>3. loop'[c].pc = "password"
      BY <1>5, <2>1 DEF WritePassword, WriteToken, RecordToken, StartStreams
    <2>4. SentOf(c)' = 0 /\ CountOf(c)' = 0 /\ AskedOf(c)' = FALSE
      BY <1>2, <1>3, <1>4, <2>1, <2>2, <2>3, FS_EmptySet DEF SentOf, CountOf, AskedOf, Bit
    <2>5. SentOf(c) = 0 /\ CountOf(c) = 0 /\ AskedOf(c) = FALSE
      BY <2>1 DEF SentOf, CountOf, AskedOf
    <2>6. Account(c, t)'
      BY <1>2, <2>1, <2>3, <2>4, <2>5 DEF Going, Account, Served
    <2> QED BY <2>2, <2>6 DEF ByHand
  <1>6. CASE WritePassword(c) /\ loop'[c].pc \in {"token", "stream"}
    <2>1. loop[c].pc = "password" /\ UNCHANGED <<m, reader, proc>>
      BY <1>6 DEF WritePassword
    <2>2. SentOf(c)' = SentOf(c) /\ CountOf(c)' = CountOf(c) /\ AskedOf(c)' = AskedOf(c)
      BY <1>2, <1>6, <2>1 DEF SentOf, CountOf, AskedOf
    <2>3. Account(c, t)'
      BY <1>2, <1>6, <2>1, <2>2 DEF Going, Account, Served
    <2> QED BY <2>1, <2>3 DEF Going, ByHand
  <1>7. CASE WriteToken(c) /\ CanWrite(loop[c].proc) /\ loop'[c].pc = "record"
    <2>1. loop[c].pc = "token" /\ proc' = Written(p) /\ UNCHANGED <<m, reader>>
      BY <1>7 DEF WriteToken
    <2>2. /\ proc'[p].out = proc[p].out /\ proc'[p].asking = proc[p].asking
          /\ proc'[p].inbox = proc[p].inbox + 1
      BY <1>1, <2>1, ZenonT(60) DEF Written, ProcRecord
    <2>3. SentOf(c)' = SentOf(c) + 1 /\ CountOf(c)' = CountOf(c) /\ AskedOf(c)' = AskedOf(c)
      BY <1>2, <1>3, <1>4, <1>7, <2>1, FS_EmptySet DEF SentOf, CountOf, AskedOf, Bit
    <2>4. Served("token", SentOf(c), CountOf(c), AskedOf(c), proc[p].out[t], proc[p].asking,
                 proc[p].inbox, FALSE, Writers, Late)
      BY <1>4, <2>1 DEF Going, Account
    <2>5. Served("record", SentOf(c) + 1, CountOf(c), AskedOf(c), proc[p].out[t], proc[p].asking,
                 proc[p].inbox + 1, FALSE, Writers, Late)
      BY <1>3, <2>4, TokenServed
    <2>6. (reader'[p][t] = "reading") = FALSE
      BY <1>4, <2>1
    <2>7. Account(c, t)'
      BY <1>2, <1>7, <2>2, <2>3, <2>5, <2>6 DEF Account
    <2> QED BY <2>1, <2>7 DEF Going, ByHand
  <1>8. CASE RecordToken(c) /\ loop'[c].pc \in {"token", "stream"}
    <2>1. loop[c].pc = "record" /\ m' = RecordAuthResponse /\ UNCHANGED <<reader, proc>>
      BY <1>8 DEF RecordToken
    <2>2. /\ m'.otpPromptCount = m.otpPromptCount
          /\ m'.authResponsesSent = m.authResponsesSent + 1 /\ (m'.awaitingOTP => m.awaitingOTP)
          /\ m'.stdin = m.stdin /\ m'.otpSecret = m.otpSecret
          /\ m'.autoOTPInFlight = m.autoOTPInFlight
      BY <1>1, <2>1, CountEffect
    <2>3. SentOf(c)' = SentOf(c) /\ CountOf(c)' = CountOf(c) /\ AskedOf(c)' = FALSE
      BY <1>2, <1>3, <1>4, <1>8, <2>1, <2>2, FS_EmptySet DEF SentOf, CountOf, AskedOf, Bit
    <2>4. AskedOf(c) = FALSE
      BY <1>3, <1>4, <2>1
    <2>5. Account(c, t)'
      BY <1>2, <1>8, <2>1, <2>3, <2>4 DEF Going, Account, Served
    <2> QED BY <2>1, <2>2, <2>5 DEF Going, ByHand
  <1>9. CASE StartStreams(c) /\ loop'[c].pc = "reap"
    <2>1. loop[c].pc = "stream" /\ UNCHANGED <<m, proc>>
      BY <1>9 DEF StartStreams
    <2>2. SentOf(c)' = SentOf(c) /\ CountOf(c)' = CountOf(c) /\ AskedOf(c)' = AskedOf(c)
      BY <1>2, <1>9, <2>1 DEF SentOf, CountOf, AskedOf
    <2>3. Account(c, t)'
      BY <1>2, <1>4, <1>9, <2>1, <2>2 DEF Going, Account, Served
    <2> QED BY <2>1, <2>3 DEF Going, ByHand
  <1> QED BY <1>5, <1>6, <1>7, <1>8, <1>9

\* A reader of the login's process handles a line, or ends what a line began.
LEMMA ReaderAccount ==
  ASSUME NEW c, Loops = {c}, NEW t, Streams = {t}, IsFiniteSet(Submits), Going(c, t),
         NEW q \in Procs, NEW s \in Streams, ReaderStep(q, s)
  PROVE  ByHand(c)' /\ Account(c, t)'
  <1> DEFINE p == loop[c].proc
  <1>0. c \in Loops /\ t \in Streams /\ s = t
    OBVIOUS
  <1>1. TypeOK /\ m \in Manager /\ proc \in [Procs -> ProcRecord] /\ p \in Procs
        /\ reader \in [Procs -> [Streams -> ReaderPc]] /\ proc[p] \in ProcRecord
    BY <1>0 DEF Going, SoleInv, SafetyInv, TypeOK
  <1>12. m' \in Manager
    BY <1>0, <1>1, ReaderStepType DEF TypeOK
  <1>13. m'.awaitingOTP \in BOOLEAN /\ m'.authResponsesSent \in Nat
    BY <1>12 DEF Manager
  <1>2. reader[q][s] \in {"reading", "detect", "bye"}
    BY DEF ReaderStep, ReadOTPPrompt, ReadCredentialPrompt, ReadGatewayLogin, ReadParseError,
           ReadEstablished, MarkConnected, ReadBye, MarkDisconnected, ReadEOF, NextLine
  <1>3. q = p /\ loop[c].pc = "reap"
    BY <1>2 DEF Going, SoleInv, ReadersInv
  <1>4. proc[p].status = "running"
    BY DEF Going, Manual
  <1>5. UNCHANGED <<loop, sub>> /\ Writers' = Writers /\ Late' = Late
    <2>1. UNCHANGED <<loop, sub>>
      BY <1>1, <1>3, <1>4, ReaderLine
    <2> QED BY <2>1 DEF Writers, Late
  <1>6. /\ SentOf(c) \in Nat /\ CountOf(c) \in Nat /\ AskedOf(c) \in BOOLEAN
        /\ proc[p].out[t] \in Seq(LineKinds) /\ proc[p].asking \in BOOLEAN /\ proc[p].inbox \in Nat
        /\ proc[p].out \in [Streams -> Seq(Lines)]
        /\ Cardinality(Late) \in Nat /\ (Cardinality(Late) = 0 <=> Late = {})
        /\ m.authResponsesSent \in Nat /\ m.otpPromptCount \in Nat
    BY <1>0, <1>1, AccountTypes
  <1>7. /\ SentOf(c) = m.authResponsesSent + Cardinality(Late)
        /\ CountOf(c) = m.otpPromptCount /\ AskedOf(c) = m.awaitingOTP
        /\ SentOf(c)' = m'.authResponsesSent + Cardinality(Late)
        /\ CountOf(c)' = m'.otpPromptCount /\ AskedOf(c)' = m'.awaitingOTP
    <2>1. /\ SentOf(c) = m.authResponsesSent + Cardinality(Late)
          /\ SentOf(c)' = m'.authResponsesSent + Cardinality(Late)
      BY <1>3, <1>5, <1>6, <1>13 DEF SentOf, Bit
    <2>3. /\ CountOf(c) = m.otpPromptCount /\ AskedOf(c) = m.awaitingOTP
          /\ CountOf(c)' = m'.otpPromptCount /\ AskedOf(c)' = m'.awaitingOTP
      BY <1>1, <1>3, <1>5, <1>13 DEF CountOf, AskedOf, Manager
    <2> QED BY <2>1, <2>3
  <1>8. Served("reap", SentOf(c), CountOf(c), AskedOf(c), proc[p].out[t], proc[p].asking,
               proc[p].inbox, reader[p][t] = "reading", Writers, Late)
    BY <1>3 DEF Going, Account
  <1>9. m.stdin = p /\ ~m.otpSecret /\ ~m.autoOTPInFlight
    BY <1>3 DEF Going, ByHand
  <1>10. CASE reader[p][t] \in {"detect", "bye"} /\ UNCHANGED proc /\ ~ReadOTPPrompt(q, s)
    <2>1. SameLogin /\ (m'.awaitingOTP => m.awaitingOTP)
      BY <1>1, <1>10, ReaderLogin
    <2>2. ~AskedOf(c) /\ Writers = {}
      BY <1>8, <1>10 DEF Served
    <2>3. SentOf(c)' = SentOf(c) /\ CountOf(c)' = CountOf(c) /\ AskedOf(c)' = FALSE
      BY <1>7, <2>1, <2>2 DEF SameLogin
    <2>4. Account(c, t)'
      BY <1>3, <1>5, <1>8, <1>10, <2>2, <2>3 DEF Account, Served
    <2> QED BY <1>5, <1>9, <2>1, <2>4 DEF ByHand, SameLogin
  <1>11. CASE /\ reader[p][t] = "reading" /\ proc[p].out[t] # <<>>
              /\ proc' = [proc EXCEPT ![q].out[s] = Tail(@)]
              /\ \/ ReadOTPPrompt(q, s) /\ Head(proc[p].out[t]) = "otp" /\ UNCHANGED reader
                 \/ ~ReadOTPPrompt(q, s) /\ Head(proc[p].out[t]) # "otp"
    <2>1. /\ proc'[p].out[t] = Tail(proc[p].out[t])
          /\ proc'[p].asking = proc[p].asking /\ proc'[p].inbox = proc[p].inbox
      <3>1. proc' = [proc EXCEPT ![p].out[t] = Tail(@)]
        BY <1>0, <1>3, <1>11
      <3>2. proc'[p] = [proc[p] EXCEPT !.out[t] = Tail(@)]
        BY <1>1, <3>1
      <3> QED BY <1>0, <1>1, <1>6, <3>2, ZenonT(60) DEF ProcRecord
    <2>2. CASE ReadOTPPrompt(q, s) /\ Head(proc[p].out[t]) = "otp" /\ UNCHANGED reader
      <3>1. m' = NoteOTPPrompt
        BY <2>2 DEF ReadOTPPrompt
      <3> DEFINE sent == SentOf(c)
                 count == CountOf(c)
                 asked == AskedOf(c)
                 open == m'.awaitingOTP
                 reading == reader[p][t] = "reading"
      <3>2. /\ sent \in Nat /\ count \in Nat /\ asked \in BOOLEAN /\ open \in BOOLEAN
        BY <1>6, <1>7, <1>13
      <3>3. Served("reap", sent, count, asked, proc[p].out[t], proc[p].asking,
                   proc[p].inbox, reading, Writers, Late)
        BY <1>8
      <3>4. ~AskedOf(c)
        BY <1>8, <1>11 DEF Served
      <3>5. /\ m'.otpPromptCount = m.otpPromptCount + 1
            /\ m'.authResponsesSent = m.authResponsesSent
            /\ m'.awaitingOTP <=> m.authResponsesSent < m.otpPromptCount + 1
            /\ m'.stdin = m.stdin /\ ~m'.otpSecret /\ ~m'.autoOTPInFlight
        BY <1>1, <1>7, <1>9, <3>1, <3>4, NoteEffect
      <3>6. SentOf(c)' = sent /\ CountOf(c)' = count + 1 /\ AskedOf(c)' = open
        BY <1>7, <3>5
      <3>9. Asks(open, sent, count, Late, reading)
        BY <1>6, <1>7, <1>11, <3>2, <3>5 DEF Asks
      <3>10. Served("reap", sent, count + 1, open, Tail(proc[p].out[t]), proc[p].asking,
                    proc[p].inbox, reading, Writers, Late)
        <4> DEFINE out == proc[p].out[t]
                   asking == proc[p].asking
                   inbox == proc[p].inbox
        <4>1. /\ out \in Seq(LineKinds) /\ asking \in BOOLEAN /\ inbox \in Nat
              /\ out # <<>> /\ Head(out) = "otp" /\ reading \in BOOLEAN
          BY <1>6, <1>11, <2>2
        <4>2. Served("reap", sent, count, asked, out, asking, inbox, reading, Writers, Late)
          BY <3>3
        <4> HIDE DEF sent, count, asked, open, reading, out, asking, inbox
        <4>3. Served("reap", sent, count + 1, open, Tail(out), asking, inbox, reading, Writers, Late)
          BY <3>2, <3>9, <4>1, <4>2, PromptServed
        <4> QED BY <4>3 DEF out, asking, inbox
      <3>7. reader' = reader /\ loop' = loop
        BY <1>5, <2>2
      <3>8. Account(c, t)'
        BY <1>3, <1>5, <2>1, <3>10, <3>6, <3>7 DEF Account
      <3> QED BY <1>5, <1>9, <3>5, <3>8 DEF ByHand
    <2>3. CASE ~ReadOTPPrompt(q, s) /\ Head(proc[p].out[t]) # "otp"
      <3>1. SameLogin /\ (m'.awaitingOTP => m.awaitingOTP)
        BY <1>1, <2>3, ReaderLogin
      <3>2. ~AskedOf(c)
        BY <1>8, <1>11 DEF Served
      <3>3. SentOf(c)' = SentOf(c) /\ CountOf(c)' = CountOf(c) /\ AskedOf(c)' = FALSE
        BY <1>7, <3>1, <3>2 DEF SameLogin
      <3> DEFINE next == reader'[p][t] = "reading"
      <3> HIDE DEF next
      <3>6. Served("reap", SentOf(c), CountOf(c), AskedOf(c), proc[p].out[t], proc[p].asking,
                   proc[p].inbox, TRUE, Writers, Late)
        BY <1>8, <1>11
      <3>7. Served("reap", SentOf(c), CountOf(c), FALSE, Tail(proc[p].out[t]), proc[p].asking,
                   proc[p].inbox, next, Writers, Late)
        BY <1>6, <1>11, <2>3, <3>6, LineServed
      <3>4. Served("reap", SentOf(c), CountOf(c), FALSE, Tail(proc[p].out[t]), proc[p].asking,
                   proc[p].inbox, reader'[p][t] = "reading", Writers, Late)
        BY <3>7 DEF next
      <3>5. Account(c, t)'
        BY <1>3, <1>5, <2>1, <3>3, <3>4 DEF Account
      <3> QED BY <1>5, <1>9, <3>1, <3>5 DEF ByHand, SameLogin
    <2> QED BY <1>11, <2>2, <2>3
  <1> QED BY <1>0, <1>1, <1>3, <1>4, <1>10, <1>11, ReaderLine

\* A user answers: SubmitOTP takes the question, writes the token, counts it.
LEMMA SubmitAccount ==
  ASSUME NEW c, Loops = {c}, NEW t \in Streams, IsFiniteSet(Submits), Going(c, t),
         NEW u \in Submits, SubmitOTP(u) \/ SubmitStep(u)
  PROVE  ByHand(c)' /\ Account(c, t)'
  <1> DEFINE p == loop[c].proc
  <1>0. c \in Loops
    OBVIOUS
  <1>1. TypeOK /\ m \in Manager /\ proc \in [Procs -> ProcRecord] /\ p \in Procs
        /\ proc[p] \in ProcRecord /\ sub \in [Submits -> SubRecord]
    BY <1>0 DEF Going, SoleInv, SafetyInv, TypeOK
  <1>2. m' \in Manager
    BY <1>1, SubmitType DEF Going, SoleInv, SafetyInv, TypeOK
  <1>3. UNCHANGED <<loop, reader>>
    BY DEF SubmitOTP, SubmitStep, SubmitWrite, SubmitRecord
  <1>4. /\ SentOf(c) \in Nat /\ CountOf(c) \in Nat /\ AskedOf(c) \in BOOLEAN
        /\ proc[p].out[t] \in Seq(LineKinds) /\ proc[p].asking \in BOOLEAN /\ proc[p].inbox \in Nat
        /\ IsFiniteSet(Late) /\ Cardinality(Late) \in Nat /\ (Cardinality(Late) = 0 <=> Late = {})
        /\ m.authResponsesSent \in Nat /\ m.otpPromptCount \in Nat /\ m.awaitingOTP \in BOOLEAN
    BY <1>1, <1>0, AccountTypes
  <1> DEFINE pc == loop[c].pc
             sent == SentOf(c)
             count == CountOf(c)
             asked == AskedOf(c)
             out == proc[p].out[t]
             asking == proc[p].asking
             inbox == proc[p].inbox
             reading == reader[p][t] = "reading"
  <1>5. Served(pc, sent, count, asked, out, asking, inbox, reading, Writers, Late)
    BY DEF Going, Account
  <1>6. CASE SubmitOTP(u) /\ sub[u].pc = "idle" /\ sub'[u].pc = "write"
    <2>1. m.awaitingOTP /\ m.stdin # NoProc /\ m' = [m EXCEPT !.awaitingOTP = FALSE]
          /\ UNCHANGED proc
      BY <1>6 DEF SubmitOTP
    <2>2. pc # "register"
      BY <2>1 DEF Going, SoleInv, PipeOf, Down
    <2>3. SameLogin /\ ~m'.awaitingOTP
      BY <1>1, <2>1, ZenonT(60) DEF Manager, SameLogin
    <2>4. Writers' = Writers \cup {u} /\ Late' = Late
      BY <1>1, <1>6, SubmitMoves DEF Writers, Late
    <2>5. SentOf(c)' = sent /\ CountOf(c)' = count /\ AskedOf(c)' = FALSE /\ asked
      BY <1>3, <2>1, <2>2, <2>3, <2>4 DEF SentOf, CountOf, AskedOf, SameLogin
    <2>6. Account(c, t)'
      BY <1>3, <1>5, <2>1, <2>4, <2>5 DEF Account, Served
    <2> QED BY <1>3, <2>2, <2>3, <2>6 DEF Going, ByHand, SameLogin
  <1>7. CASE SubmitWrite(u) /\ sub[u].pc = "write"
    <2>1. sub[u].stdin \in Procs /\ sub[u].stdin <= started /\ started <= 1 /\ p = 1
      BY <1>7 DEF Going, SubmitInv, Manual
    <2>2. sub[u].stdin = p /\ CanWrite(p)
      <3>1. sub[u].stdin = p
        BY <2>1, <1>1 DEF Procs, TypeOK
      <3>2. proc[p].status = "running" /\ ~proc[p].stdinClosed
        BY <1>1 DEF Going, Manual, SoleInv, ProcsInv
      <3> QED BY <3>1, <3>2 DEF CanWrite, Alive
    <2>3. UNCHANGED m /\ proc' = Written(p) /\ sub'[u].pc = "record"
      BY <1>1, <1>7, <2>2, SubmitMoves DEF SubmitWrite, SubmitOTP, SubmitRecord
    <2>4. /\ proc'[p].out = proc[p].out /\ proc'[p].asking = proc[p].asking
          /\ proc'[p].inbox = proc[p].inbox + 1
      BY <1>1, <2>3, ZenonT(60) DEF Written, ProcRecord
    <2>5. /\ Writers' = Writers \ {u} /\ Late' = Late \cup {u} /\ u \in Writers /\ u \notin Late
          /\ Cardinality(Late') = Cardinality(Late) + 1
      <3>1. /\ Writers' = Writers \ {u} /\ Late' = Late \cup {u} /\ u \in Writers /\ u \notin Late
        BY <1>1, <1>7, <2>3, SubmitMoves DEF Writers, Late, SubmitStep
      <3> QED BY <1>4, <3>1, FS_AddElement
    <2>6. pc = "reap"
      BY <1>5, <2>5 DEF Going, SoleInv, ReadersInv, Served
    <2>7. SentOf(c)' = sent + 1 /\ CountOf(c)' = count /\ AskedOf(c)' = asked
      BY <1>3, <1>4, <2>3, <2>5, <2>6 DEF SentOf, CountOf, AskedOf, Bit
    <2>8. Served("reap", sent + 1, count, asked, out, asking, inbox + 1, reading, Writers \ {u},
                 Late \cup {u})
      <3> HIDE DEF sent, count, asked, out, asking, inbox, reading
      <3> QED BY <1>4, <1>5, <2>5, <2>6, WriteServed DEF sent, count, asked, out, asking, inbox
    <2>9. Account(c, t)'
      BY <1>3, <2>4, <2>5, <2>6, <2>7, <2>8 DEF Account
    <2> QED BY <1>3, <2>3, <2>9 DEF Going, ByHand
  <1>8. CASE SubmitRecord(u) /\ sub[u].pc = "record"
    <2>1. m' = RecordAuthResponse /\ UNCHANGED proc
      BY <1>8 DEF SubmitRecord
    <2>2. sub[u].left = 1 /\ sub'[u].pc = "idle"
      <3>1. sub[u].left = 1
        BY <1>8 DEF Going, SubmitInv
      <3> QED BY <1>1, <1>8, <3>1, SubmitMoves DEF SubmitStep, SubmitOTP, SubmitWrite
    <2>3. /\ Writers' = Writers /\ Late' = Late \ {u} /\ u \in Late
          /\ Cardinality(Late') = Cardinality(Late) - 1
      <3>1. Writers' = Writers /\ Late' = Late \ {u} /\ u \in Late
        BY <1>1, <1>8, <2>2, SubmitMoves DEF Writers, Late, SubmitStep
      <3> QED BY <1>4, <3>1, FS_RemoveElement
    <2>4. pc = "reap"
      BY <1>5, <2>3 DEF Served
    <2>5. /\ m'.otpPromptCount = m.otpPromptCount
          /\ m'.authResponsesSent = m.authResponsesSent + 1
          /\ m'.awaitingOTP = (m.awaitingOTP /\ m.authResponsesSent + 1 < m.otpPromptCount)
          /\ m'.stdin = m.stdin /\ m'.otpSecret = m.otpSecret
          /\ m'.autoOTPInFlight = m.autoOTPInFlight
      BY <1>1, <2>1, CountEffect
    <2>6. SentOf(c)' = sent /\ CountOf(c)' = count /\ count = m.otpPromptCount
          /\ m.authResponsesSent + 1 <= sent
          /\ AskedOf(c)' = (asked /\ m.authResponsesSent + 1 < count)
      <3>1. sent = m.authResponsesSent + Cardinality(Late) /\ count = m.otpPromptCount
        BY <1>4, <2>4 DEF SentOf, CountOf, Bit
      <3>2. SentOf(c)' = m'.authResponsesSent + Cardinality(Late') /\ CountOf(c)' = m'.otpPromptCount
        BY <1>3, <1>4, <2>3, <2>4, <2>5 DEF SentOf, CountOf, Bit
      <3>3. Cardinality(Late) >= 1
        BY <1>4, <2>3
      <3>4. asked = m.awaitingOTP /\ AskedOf(c)' = m'.awaitingOTP
        BY <1>2, <1>3, <1>4, <2>4 DEF AskedOf, Manager
      <3> QED BY <1>4, <2>3, <2>5, <3>1, <3>2, <3>3, <3>4
    <2>7. Account(c, t)'
      BY <1>3, <1>4, <1>5, <2>1, <2>3, <2>4, <2>6 DEF Account, Served
    <2> QED BY <1>3, <2>5, <2>7 DEF Going, ByHand
  <1> QED BY <1>1, <1>6, <1>7, <1>8, SubmitMoves

\* openconnect prints, and reads a token; it has not exited.
LEMMA ProcessAccount ==
  ASSUME NEW c, Loops = {c}, NEW t, Streams = {t}, IsFiniteSet(Submits), Going(c, t),
         Environment \/ UNCHANGED vars, Manual(c)'
  PROVE  ByHand(c)' /\ Account(c, t)'
  <1> DEFINE p == loop[c].proc
  <1>0. c \in Loops /\ t \in Streams
    OBVIOUS
  <1>1. TypeOK /\ proc \in [Procs -> ProcRecord] /\ p \in Procs /\ proc[p] \in ProcRecord
    BY <1>0 DEF Going, SoleInv, SafetyInv, TypeOK
  <1>2. UNCHANGED <<m, loop, reader, sub>>
    BY DEF Environment, PrintLine, ReadToken, Exit, NextWindow, vars
  <1>3. ByHand(c)' /\ Writers' = Writers /\ Late' = Late /\ SentOf(c)' = SentOf(c)
        /\ CountOf(c)' = CountOf(c) /\ AskedOf(c)' = AskedOf(c)
    BY <1>2 DEF Going, ByHand, Writers, Late, SentOf, CountOf, AskedOf
  <1>4. /\ SentOf(c) \in Nat /\ CountOf(c) \in Nat /\ AskedOf(c) \in BOOLEAN
        /\ proc[p].out \in [Streams -> Seq(Lines)] /\ proc[p].out[t] \in Seq(LineKinds)
        /\ proc[p].asking \in BOOLEAN /\ proc[p].inbox \in Nat
    BY <1>0, <1>1, AccountTypes
  <1> DEFINE pc == loop[c].pc
             sent == SentOf(c)
             count == CountOf(c)
             asked == AskedOf(c)
             out == proc[p].out[t]
             asking == proc[p].asking
             inbox == proc[p].inbox
             reading == reader[p][t] = "reading"
  <1>5. Served(pc, sent, count, asked, out, asking, inbox, reading, Writers, Late)
    BY DEF Going, Account
  <1>6. ASSUME proc'[p] = proc[p]
        PROVE  Account(c, t)'
    BY <1>2, <1>3, <1>5, <1>6 DEF Account
  <1>7. ASSUME NEW q \in Procs, NEW s \in Streams, NEW line \in Lines, PrintLine(q, s, line)
        PROVE  Account(c, t)'
    <2>1. CASE q # p
      BY <1>1, <1>6, <1>7, <2>1 DEF PrintLine
    <2>2. CASE q = p
      <3>1. s = t /\ ~asking /\ line \in LineKinds
        BY <1>7, <2>2, InputsAssumption DEF PrintLine
      <3>2. /\ proc'[p].out[t] = Append(out, line) /\ proc'[p].asking = (line = "otp")
            /\ proc'[p].inbox = inbox
        <4>1. proc'[p] = [proc[p] EXCEPT !.out = [proc[p].out EXCEPT ![s] = Append(proc[p].out[s], line)],
                                         !.printed = proc[p].printed + 1,
                                         !.asking = (line = "otp")]
          BY <1>1, <1>7, <2>2 DEF PrintLine
        <4> DEFINE printed == [proc[p].out EXCEPT ![s] = Append(proc[p].out[s], line)]
        <4>2. proc'[p] = [proc[p] EXCEPT !.out = printed, !.printed = proc[p].printed + 1,
                                         !.asking = (line = "otp")]
          BY <4>1
        <4>3. printed[t] = Append(out, line)
          BY <1>0, <1>4, <3>1
        <4> HIDE DEF printed
        <4>4. /\ proc'[p].out = printed /\ proc'[p].asking = (line = "otp")
              /\ proc'[p].inbox = inbox
          BY <1>1, <4>2, ZenonT(60) DEF ProcRecord
        <4> QED BY <4>3, <4>4
      <3>3. ~asked /\ Writers = {}
        BY <1>5, <3>1 DEF Served
      <3>4. Append(out, line) # <<>> /\ Append(out, line)[Len(Append(out, line))] = line
        <4>1. out \in Seq(LineKinds) /\ line \in LineKinds
          BY <1>4, <3>1
        <4> HIDE DEF out
        <4> QED BY <4>1
      <3>5. sent + Bit(line = "otp") = count + Prompts(Append(out, line)) + inbox
        <4>1. Prompts(out) \in Nat /\ Prompts(Append(out, line)) = Prompts(out) + Bit(line = "otp")
          BY <1>4, <3>1, PromptsType, PromptsAppend
        <4>2. sent = count + Prompts(out) + inbox
          BY <1>4, <1>5, <3>1 DEF Served, Bit
        <4> HIDE DEF sent, count, inbox, out
        <4> QED BY <1>4, <4>1, <4>2 DEF sent, count, inbox, Bit
      <3>6. Served(pc, sent, count, asked, Append(out, line), line = "otp", inbox, reading,
                   Writers, Late)
        BY <1>5, <3>3, <3>4, <3>5 DEF Served
      <3> QED BY <1>2, <1>3, <3>2, <3>6 DEF Account
    <2> QED BY <2>1, <2>2
  <1>8. ASSUME NEW q \in Procs, ReadToken(q)
        PROVE  Account(c, t)'
    <2>1. CASE q # p
      BY <1>1, <1>6, <1>8, <2>1 DEF ReadToken
    <2>2. CASE q = p
      <3>1. /\ proc'[p].out = proc[p].out /\ ~proc'[p].asking /\ proc'[p].inbox = inbox - 1
            /\ asking /\ inbox > 0 /\ proc'[p].asking = FALSE
        BY <1>1, <1>8, <2>2, ZenonT(60) DEF ReadToken, ProcRecord
      <3>2. Prompts(out) \in Nat
        BY <1>4, PromptsType
      <3>3. ~asked /\ Writers = {}
        BY <1>5, <3>1 DEF Served
      <3>4. sent + Bit(FALSE) = count + Prompts(out) + (inbox - 1)
        <4>1. sent + 1 = count + Prompts(out) + inbox
          BY <1>5, <3>1 DEF Served, Bit
        <4> QED BY <1>4, <3>2, <4>1 DEF Bit
      <3>5. Served(pc, sent, count, asked, out, FALSE, inbox - 1, reading, Writers, Late)
        BY <1>5, <3>3, <3>4 DEF Served
      <3> QED BY <1>2, <1>3, <3>1, <3>5 DEF Account
    <2> QED BY <2>1, <2>2
  <1>9. ASSUME NEW q \in Procs, Exit(q)
        PROVE  Account(c, t)'
    <2>1. q # p
      <3>1. proc'[p].status = "running"
        BY <1>2 DEF Manual
      <3> QED BY <1>1, <1>9, <3>1, ZenonT(60) DEF Exit, ProcRecord
    <2> QED BY <1>1, <1>6, <1>9, <2>1 DEF Exit
  <1>10. CASE NextWindow \/ UNCHANGED vars
    <2>1. proc' = proc
      BY <1>10 DEF NextWindow, vars
    <2> QED BY <1>3, <1>6, <2>1
  <1> QED BY <1>3, <1>7, <1>8, <1>9, <1>10 DEF Environment

LEMMA ManualStep ==
  ASSUME NEW c, Loops = {c}, Disconnects = {}, NEW t, Streams = {t}, IsFiniteSet(Submits),
         SoleInv(c), SubmitInv(c), ManualInv(c, t), [Next]_vars
  PROVE  ManualInv(c, t)'
  <1> SUFFICES ASSUME Manual(c)'
               PROVE  ByHand(c)' /\ Account(c, t)'
    BY DEF ManualInv
  <1>0. c \in Loops /\ t \in Streams
    OBVIOUS
  <1>1. CASE LoopStep(c) /\ StartProcess(c)
    BY <1>0, <1>1, StartAccount
  <1>2. CASE ~(LoopStep(c) /\ StartProcess(c))
    <2>1. /\ Going(c, t) /\ loop'[c].proc = loop[c].proc /\ loop'[c].req = loop[c].req
          /\ LoopStep(c) => \/ RegisterProcess(c) /\ loop'[c].pc = "password"
                            \/ WritePassword(c) /\ loop'[c].pc \in {"token", "stream"}
                            \/ WriteToken(c) /\ CanWrite(loop[c].proc) /\ loop'[c].pc = "record"
                            \/ RecordToken(c) /\ loop'[c].pc \in {"token", "stream"}
                            \/ StartStreams(c) /\ loop'[c].pc = "reap"
      BY <1>2, ManualBefore DEF Going, ManualInv
    <2>2. ASSUME NEW req \in Requests, Connect(c, req)
          PROVE  FALSE
      BY <2>1, <2>2 DEF Connect, Going, Manual, Holding
    <2>3. CASE LoopStep(c)
      BY <1>0, <2>1, <2>3, LoopAccount
    <2>4. ASSUME NEW q \in Procs, NEW s \in Streams, ReaderStep(q, s)
          PROVE  ByHand(c)' /\ Account(c, t)'
      BY <2>1, <2>4, ReaderAccount
    <2>5. ASSUME NEW q \in Procs, GenStep(q)
          PROVE  FALSE
      BY <2>1, <2>5, NoGenerator DEF Going
    <2>6. ASSUME NEW u \in Submits, SubmitOTP(u) \/ SubmitStep(u)
          PROVE  ByHand(c)' /\ Account(c, t)'
      BY <1>0, <2>1, <2>6, SubmitAccount
    <2>7. CASE Environment \/ UNCHANGED vars
      BY <2>1, <2>7, ProcessAccount
    <2> QED BY <2>2, <2>3, <2>4, <2>5, <2>6, <2>7 DEF Next, Calls, Goroutines
  <1> QED BY <1>1, <1>2

\* From its registration on, the struct knows whether the request has a secret.
SecretInv(c) ==
    loop[c].pc \in Holding \ {"register"} => m.otpSecret = loop[c].req.otpSecret

LEMMA SecretStep ==
  ASSUME NEW c, Loops = {c}, Disconnects = {}, TypeOK, SecretInv(c), [Next]_vars
  PROVE  SecretInv(c)'
  <1> USE DEF SecretInv
  <1>1. m \in Manager
    BY DEF TypeOK
  <1>2. CASE LoopStep(c)
    <2>1. CASE RegisterProcess(c) /\ loop'[c].pc = "password" /\ Keeps(c)
      BY <2>1, BeginEffect DEF Keeps
    <2>2. CASE RecordToken(c) /\ Keeps(c)
      <3>1. m'.otpSecret = m.otpSecret /\ loop[c].pc = "record"
        BY <1>1, <2>2, CountEffect DEF RecordToken
      <3> QED BY <2>2, <3>1 DEF Keeps, Holding
    <2>3. CASE (WritePassword(c) \/ WriteToken(c) \/ StartStreams(c)) /\ Keeps(c)
      <3>1. UNCHANGED m /\ loop[c].pc \in {"password", "token", "stream"}
        BY <2>3 DEF WritePassword, WriteToken, StartStreams
      <3> QED BY <2>3, <3>1 DEF Keeps, Holding
    <2>4. CASE loop'[c].pc \notin Holding \ {"register"}
      BY <2>4
    <2> QED BY <1>2, <2>1, <2>2, <2>3, <2>4, LoopMoves DEF Holding, IdleLoop
  <1>3. ASSUME NEW req \in Requests, Connect(c, req)
        PROVE  SecretInv(c)'
    BY <1>3, ConnectEffect DEF Holding
  <1>4. ASSUME NEW p \in Procs, NEW s \in Streams, ReaderStep(p, s)
        PROVE  m'.otpSecret = m.otpSecret
    <2>1. CASE ReadOTPPrompt(p, s)
      <3>1. m' = NoteOTPPrompt
        BY <2>1 DEF ReadOTPPrompt
      <3> QED BY <1>1, <3>1, ZenonT(60) DEF NoteOTPPrompt, Manager
    <2> QED BY <1>4, <2>1, ReaderLogin DEF SameLogin
  <1>5. ASSUME NEW p \in Procs, GenStep(p)
        PROVE  m'.otpSecret = m.otpSecret
    <2>1. CASE RecordOTP(p)
      BY <1>1, <2>1, ZenonT(60) DEF RecordOTP, RecordAuthResponse, Manager
    <2>2. CASE FailGeneratedOTP(p)
      BY <1>1, <2>2, ZenonT(60) DEF FailGeneratedOTP, Manager
    <2>3. CASE UNCHANGED m
      BY <2>3
    <2> QED BY <1>5, <2>1, <2>2, <2>3 DEF GenStep, GenerateOTP, WaitForActiveAuth, WriteOTP
  <1>6. ASSUME NEW u \in Submits, SubmitOTP(u) \/ SubmitStep(u)
        PROVE  m'.otpSecret = m.otpSecret
    <2>1. CASE SubmitOTP(u)
      BY <1>1, <2>1, ZenonT(60) DEF SubmitOTP, Manager
    <2>2. CASE SubmitWrite(u)
      BY <2>2 DEF SubmitWrite
    <2>3. CASE SubmitRecord(u)
      BY <1>1, <2>3, CountEffect DEF SubmitRecord
    <2> QED BY <1>6, <2>1, <2>2, <2>3 DEF SubmitStep
  <1>7. ASSUME Environment \/ UNCHANGED vars
        PROVE  m'.otpSecret = m.otpSecret
    BY <1>7 DEF Environment, PrintLine, ReadToken, Exit, NextWindow, vars
  <1>8. CASE m'.otpSecret = m.otpSecret /\ UNCHANGED loop
    BY <1>8
  <1>9. LoopStep(c) \/ (\E req \in Requests: Connect(c, req)) \/ UNCHANGED loop
    BY LoopChanges
  <1> QED BY <1>2, <1>3, <1>4, <1>5, <1>6, <1>7, <1>8, <1>9 DEF Next, Calls, Goroutines

\* A user who logs in by hand with a single token per SubmitOTP, while openconnect
\* prompts on one pipe, is asked or has answered whenever openconnect waits for
\* a token and its prompt was read: counting tokens and prompts loses none.
THEOREM ManualPromptsAreServed ==
  ASSUME NEW c, Loops = {c}, Disconnects = {}, NEW t, Streams = {t}, MaxTokens <= 1,
         IsFiniteSet(Submits)
  PROVE  Spec => []ManualPromptIsServed
  <1> DEFINE Inv == SoleInv(c) /\ SubmitInv(c) /\ ManualInv(c, t) /\ SecretInv(c)
  <1>1. Init => Inv
    <2> SUFFICES ASSUME Init
                 PROVE  Inv
      OBVIOUS
    <2>1. loop[c].pc = "idle" /\ \A u \in Submits: sub[u].pc = "idle"
      BY DEF Init, IdleLoop, IdleSub
    <2> QED BY <2>1, SoleInit DEF SubmitInv, ManualInv, Manual, SecretInv, Holding
  <1>2. Inv /\ [Next]_vars => Inv'
    <2> SUFFICES ASSUME Inv, [Next]_vars
                 PROVE  Inv'
      OBVIOUS
    <2>1. SoleInv(c)'
      BY SoleStep
    <2>2. SubmitInv(c)'
      BY SubmitInvStep
    <2>3. ManualInv(c, t)'
      BY ManualStep
    <2>4. SecretInv(c)'
      BY SecretStep DEF SoleInv, SafetyInv
    <2> QED BY <2>1, <2>2, <2>3, <2>4
  <1>3. Inv => ManualPromptIsServed
    <2> SUFFICES ASSUME Inv, ~m.otpSecret, started <= 1, NEW p \in Procs,
                        proc[p].asking, m.stdin = p,
                        \A s \in Streams: proc[p].out[s] = <<>> /\ reader[p][s] = "reading",
                        ~(proc[p].inbox > 0), ~m.awaitingOTP
                 PROVE  \E u \in Submits: sub[u].pc = "write" /\ sub[u].stdin = p
      BY DEF ManualPromptIsServed, OpenPromptIsServed
    <2>0. c \in Loops /\ t \in Streams /\ p # NoProc
      BY DEF Procs, NoProc
    <2>1. TypeOK /\ Known /\ PipeOf(c) /\ ProcsInv /\ HeldInv
      BY DEF SoleInv, SafetyInv
    <2>2. p = loop[c].proc /\ loop[c].pc \in Holding \ {"register"}
          /\ proc[p].status = "running"
      BY <2>0, <2>1 DEF PipeOf, ProcsInv, HeldInv, Down
    <2>3. Account(c, t)
      BY <2>0, <2>1, <2>2 DEF ManualInv, Manual, SecretInv
    <2>4. /\ SentOf(c) \in Nat /\ CountOf(c) \in Nat /\ proc[p].inbox \in Nat
      BY <2>0, <2>1, <2>2, AccountTypes
    <2>5. /\ SentOf(c) + Bit(proc[p].asking) = CountOf(c) + Prompts(proc[p].out[t]) + proc[p].inbox
          /\ SentOf(c) < CountOf(c) => AskedOf(c) \/ Writers # {}
      BY <2>2, <2>3 DEF Account, Served
    <2>6. SentOf(c) < CountOf(c) /\ ~AskedOf(c)
      <3> DEFINE sent == SentOf(c)
                 count == CountOf(c)
                 prompts == Prompts(proc[p].out[t])
                 inbox == proc[p].inbox
                 asking == Bit(proc[p].asking)
      <3>1. prompts = 0 /\ asking = 1 /\ sent \in Nat /\ count \in Nat
        BY <2>0, <2>4, PromptsEmpty DEF Bit
      <3>2. inbox \in Nat /\ ~(inbox > 0) /\ sent + asking = count + prompts + inbox
        BY <2>4, <2>5
      <3> HIDE DEF sent, count, prompts, inbox, asking
      <3>3. sent + 1 = count
        BY <3>1, <3>2
      <3>4. ~AskedOf(c)
        BY DEF AskedOf
      <3> QED BY <3>1, <3>3, <3>4 DEF sent, count
    <2>7. PICK u \in Submits: sub[u].pc = "write"
      BY <2>5, <2>6 DEF Writers
    <2>8. sub[u].stdin \in Procs /\ sub[u].stdin <= started /\ p <= started
      BY <2>1, <2>7 DEF SubmitInv, Known
    <2>9. sub[u].stdin = p
      BY <2>1, <2>8 DEF Procs, TypeOK
    <2> QED BY <2>7, <2>9
  <1> QED BY <1>1, <1>2, <1>3, PTL DEF Spec
=============================================================================
