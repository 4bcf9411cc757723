-------------------------- MODULE VpnManagerProofs --------------------------
(* Proofs about VpnManager, for every value of its constants: the types,   *)
(* then the pipe, the prompt, the generated code and the stopped process.  *)
EXTENDS VpnManager, TLAPS

-----------------------------------------------------------------------------
(* What the helpers on the struct return.                                  *)

LEMMA SetStateType ==
  ASSUME m \in Manager, NEW s \in States
  PROVE  SetState(s) \in Manager
  <1>1. (m.awaitingOTP /\ s \notin {"disconnected", "error"}) \in BOOLEAN
    OBVIOUS
  <1> QED BY <1>1, ZenonT(60) DEF SetState, Manager

LEMMA ClearType ==
  ASSUME m \in Manager
  PROVE  ClearProcessAuthState \in Manager
  <1>1. NoProc \in ProcOrNo /\ 0 \in Nat
    BY DEF ProcOrNo
  <1> QED BY <1>1, ZenonT(60) DEF ClearProcessAuthState, Manager

LEMMA RecordType ==
  ASSUME m \in Manager
  PROVE  RecordAuthResponse \in Manager
  <1>1. m.authResponsesSent + 1 \in Nat
    BY DEF Manager
  <1>2. (m.awaitingOTP /\ m.authResponsesSent + 1 < m.otpPromptCount) \in BOOLEAN
    OBVIOUS
  <1> QED BY <1>1, <1>2, ZenonT(60) DEF RecordAuthResponse, Manager

LEMMA NoteOTPPromptType ==
  ASSUME m \in Manager
  PROVE  NoteOTPPrompt \in Manager
  <1>1. m.otpPromptCount + 1 \in Nat
    BY DEF Manager
  <1>2. /\ (NeedsInput /\ ~Automatic) \in BOOLEAN
        /\ Automatic \in BOOLEAN
    BY DEF Automatic
  <1> QED BY <1>1, <1>2, ZenonT(60) DEF NoteOTPPrompt, Manager

LEMMA NoteCredentialPromptType ==
  ASSUME m \in Manager
  PROVE  NoteCredentialPrompt \in Manager
  <1>1. m.credentialPrompts + 1 \in Nat
    BY DEF Manager
  <1>2. /\ (m.awaitingOTP /\ m.credentialPrompts = 0) \in BOOLEAN
        /\ (m.gatewayPasswordSent
              \/ (m.credentialPrompts > 0 /\ m.savedPassword /\ m.stdin # NoProc)) \in BOOLEAN
    OBVIOUS
  <1> QED BY <1>1, <1>2, ZenonT(60) DEF NoteCredentialPrompt, Manager

LEMMA AttemptStateType ==
  ASSUME m \in Manager, NEW l \in Loops, loop[l] \in LoopRecord, NEW a \in Nat
  PROVE  AttemptState(l, a) \in Manager
  <1>1. loop[l].req.otpSecret \in BOOLEAN /\ loop[l].req.autoReconnect \in BOOLEAN
    BY DEF LoopRecord, ConnectRequest
  <1> QED BY <1>1, ZenonT(60) DEF AttemptState, Manager

LEMMA IdleLoopType == IdleLoop \in LoopRecord
  <1>1. IdleLoop.req \in ConnectRequest
    BY BoundsAssumption DEF IdleLoop, ConnectRequest
  <1> QED
    BY <1>1, BoundsAssumption DEF IdleLoop, LoopRecord, LoopPc, Outcomes, ProcOrNo, NoProc

LEMMA WrittenType ==
  ASSUME proc \in [Procs -> ProcRecord], NEW p
  PROVE  Written(p) \in [Procs -> ProcRecord]
  <1>1. CASE p \in Procs
    <2>1. proc[p].inbox + 1 \in Nat
      BY <1>1 DEF ProcRecord
    <2> QED BY <1>1, <2>1, ZenonT(60) DEF Written, ProcRecord
  <1>2. CASE p \notin Procs
    BY <1>2, ZenonT(60) DEF Written
  <1> QED BY <1>1, <1>2

-----------------------------------------------------------------------------
(* Type correctness.  A counter of tokens is decremented only where it is  *)
(* positive, which the types alone do not say.                             *)

LeftPositive ==
    /\ \A l \in Loops: loop[l].pc \in {"token", "record"} => loop[l].left > 0
    /\ \A u \in Submits: sub[u].pc # "idle" => sub[u].left > 0

LEMMA GotoType ==
  ASSUME TypeOK, NEW l \in Loops, NEW pc \in LoopPc, Goto(l, pc)
  PROVE  loop' \in [Loops -> LoopRecord]
  BY ZenonT(60) DEF TypeOK, Goto, LoopRecord

LEMMA FinishType ==
  ASSUME TypeOK, NEW l \in Loops, Finish(l)
  PROVE  loop' \in [Loops -> LoopRecord]
  BY IdleLoopType DEF TypeOK, Finish

LEMMA ReturnType ==
  ASSUME TypeOK, NEW l \in Loops, NEW outcome \in Outcomes, Return(l, outcome)
  PROVE  loop' \in [Loops -> LoopRecord]
  <1>1. "returned" \in LoopPc
    BY DEF LoopPc
  <1> QED BY <1>1, ZenonT(60) DEF TypeOK, Return, LoopRecord

LEMMA ConnectType ==
  ASSUME TypeOK, NEW l \in Loops, NEW req \in Requests, Connect(l, req)
  PROVE  TypeOK'
  <1>1. m' \in Manager
    <2>1. SetState("connecting") \in Manager
      BY SetStateType DEF TypeOK, States
    <2> QED BY <2>1, ZenonT(60) DEF Connect, Manager
  <1>2. loop' \in [Loops -> LoopRecord]
    <2>1. req \in ConnectRequest /\ "top" \in LoopPc
      BY InputsAssumption DEF LoopPc
    <2>2. [IdleLoop EXCEPT !.pc = "top", !.req = req] \in LoopRecord
      BY <2>1, IdleLoopType, ZenonT(60) DEF LoopRecord
    <2> QED BY <2>2 DEF Connect, TypeOK
  <1> QED BY <1>1, <1>2 DEF TypeOK, Connect

LEMMA LoopStepType ==
  ASSUME TypeOK, LeftPositive, NEW l \in Loops, LoopStep(l)
  PROVE  TypeOK'
  <1> USE DEF TypeOK
  <1>0. /\ loop[l] \in LoopRecord
        /\ loop[l].req \in ConnectRequest /\ loop[l].proc \in ProcOrNo
        /\ loop[l].attempt \in Nat /\ loop[l].left \in 0..MaxTokens
        /\ loop[l].outcome \in Outcomes
    BY DEF LoopRecord
  <1>1. CASE LoopTop(l)
    <2>1. m' \in Manager
      BY <1>0, <1>1, AttemptStateType DEF LoopTop
    <2>2. loop' \in [Loops -> LoopRecord]
      BY <1>1, ZenonT(60) DEF LoopTop, LoopRecord, LoopPc
    <2> QED BY <1>1, <2>1, <2>2 DEF LoopTop
  <1>2. CASE StartProcess(l)
    <2>1. started + 1 \in 1..MaxProcs /\ started + 1 \in 0..MaxProcs
      BY <1>2, BoundsAssumption DEF StartProcess
    <2>2. started + 1 \in Procs /\ started + 1 \in ProcOrNo
      BY <2>1 DEF Procs, ProcOrNo
    <2>3. proc' \in [Procs -> ProcRecord]
      BY <1>2, <2>2, ZenonT(60) DEF StartProcess, ProcRecord
    <2>4. loop' \in [Loops -> LoopRecord]
      BY <1>2, <2>2, ZenonT(60) DEF StartProcess, LoopRecord, LoopPc
    <2> QED BY <1>2, <2>1, <2>3, <2>4 DEF StartProcess
  <1>3. CASE StartFails(l)
    BY <1>3, ReturnType DEF StartFails, Outcomes
  <1>4. CASE RegisterProcess(l)
    <2>1. /\ loop[l].req.password \in BOOLEAN /\ loop[l].req.otpSecret \in BOOLEAN
          /\ loop[l].req.autoReconnect \in BOOLEAN /\ loop[l].req.tokens \in 0..MaxTokens
      BY <1>0 DEF ConnectRequest
    <2>2. m' \in Manager
      BY <1>0, <1>4, <2>1, ZenonT(60) DEF RegisterProcess, Manager
    <2>3. (IF loop[l].direct THEN 0 ELSE loop[l].req.tokens) \in 0..MaxTokens
      BY <2>1, BoundsAssumption
    <2>4. loop' \in [Loops -> LoopRecord]
      BY <1>4, <2>3, ZenonT(60) DEF RegisterProcess, LoopRecord, LoopPc
    <2> QED BY <1>4, <2>2, <2>4 DEF RegisterProcess
  <1>5. CASE WritePassword(l)
    <2>1. (IF CanWrite(loop[l].proc) THEN AfterWrite(loop[l].left) ELSE "auth-failed") \in LoopPc
      BY DEF LoopPc, AfterWrite
    <2> QED BY <1>5, <2>1, GotoType DEF WritePassword
  <1>6. CASE WriteToken(l)
    <2>1. loop' \in [Loops -> LoopRecord]
      BY <1>6, GotoType DEF WriteToken, LoopPc
    <2>2. proc' \in [Procs -> ProcRecord]
      BY <1>6, WrittenType DEF WriteToken
    <2> QED BY <1>6, <2>1, <2>2 DEF WriteToken
  <1>7. CASE RecordToken(l)
    <2>1. m' \in Manager
      BY <1>7, RecordType DEF RecordToken
    <2>2. loop[l].left - 1 \in 0..MaxTokens
      <3>1. loop[l].left > 0
        BY <1>7 DEF RecordToken, LeftPositive
      <3> HIDE DEF TypeOK
      <3> QED BY <1>0, <3>1, BoundsAssumption
    <2>3. AfterWrite(loop[l].left - 1) \in LoopPc
      BY DEF AfterWrite, LoopPc
    <2>4. loop' \in [Loops -> LoopRecord]
      BY <1>7, <2>2, <2>3, ZenonT(60) DEF RecordToken, LoopRecord
    <2> QED BY <1>7, <2>1, <2>4 DEF RecordToken
  <1>8. CASE AuthFailed(l)
    <2>1. proc' \in [Procs -> ProcRecord]
      BY <1>8, ZenonT(60) DEF AuthFailed, ProcRecord
    <2>2. loop' \in [Loops -> LoopRecord]
      BY <1>8, ReturnType DEF AuthFailed, Outcomes
    <2> QED BY <1>8, <2>1, <2>2, ClearType DEF AuthFailed
  <1>9. CASE StartStreams(l)
    <2>1. [s \in Streams |-> "reading"] \in [Streams -> ReaderPc]
      BY DEF ReaderPc
    <2>2. reader' \in [Procs -> [Streams -> ReaderPc]]
      BY <1>9, <2>1, ZenonT(60) DEF StartStreams
    <2> QED BY <1>9, <2>2, GotoType DEF StartStreams, LoopPc
  <1>10. CASE ReapProcess(l)
    <2>1. PICK waitErr \in BOOLEAN:
             loop' = [loop EXCEPT ![l].pc = "clear",
                                  ![l].outcome = ClassifyOpenConnectExit(loop[l].proc, waitErr)]
      BY <1>10 DEF ReapProcess
    <2>2. ClassifyOpenConnectExit(loop[l].proc, waitErr) \in Outcomes
      BY DEF ClassifyOpenConnectExit, Outcomes
    <2>3. loop' \in [Loops -> LoopRecord]
      BY <2>1, <2>2, ZenonT(60) DEF LoopRecord, LoopPc
    <2> QED BY <1>10, <2>3 DEF ReapProcess
  <1>11. CASE ClearAuth(l)
    BY <1>11, ClearType, GotoType DEF ClearAuth, LoopPc
  <1>12. CASE SettleState(l)
    BY <1>12, SetStateType, GotoType DEF SettleState, LoopPc, States
  <1>13. CASE GPClientReturns(l)
    <2>1. loop' \in [Loops -> LoopRecord]
      <3>1. CASE RetryGatewayDirect(l)
        BY <1>13, <3>1, ZenonT(60) DEF GPClientReturns, LoopRecord, LoopPc
      <3>2. CASE ~RetryGatewayDirect(l)
        BY <1>13, <3>2, GotoType DEF GPClientReturns, LoopPc
      <3> QED BY <3>1, <3>2
    <2> QED BY <1>13, <2>1 DEF GPClientReturns
  <1>14. CASE DecideReconnect(l)
    <2>1. loop[l].attempt + 1 \in Nat
      BY <1>0
    <2>2. CASE loop' = [loop EXCEPT ![l].pc = "schedule", ![l].attempt = @ + 1]
      BY <1>14, <2>1, <2>2, ZenonT(60) DEF DecideReconnect, LoopRecord, LoopPc
    <2>3. CASE Finish(l) \/ Goto(l, "fail")
      BY <1>14, <2>3, FinishType, GotoType DEF DecideReconnect, LoopPc
    <2> QED BY <1>14, <2>2, <2>3 DEF DecideReconnect
  <1>15. CASE ScheduleReconnect(l)
    BY <1>0, <1>15, AttemptStateType, GotoType DEF ScheduleReconnect, LoopPc
  <1>16. CASE SetReconnecting(l)
    BY <1>16, SetStateType, GotoType DEF SetReconnecting, LoopPc, States
  <1>17. CASE WaitBeforeReconnect(l)
    BY <1>17, FinishType, GotoType DEF WaitBeforeReconnect, LoopPc
  <1>18. CASE FailConnect(l)
    BY <1>18, SetStateType, FinishType DEF FailConnect, States
  <1> QED
    BY <1>1, <1>2, <1>3, <1>4, <1>5, <1>6, <1>7, <1>8, <1>9, <1>10, <1>11, <1>12,
       <1>13, <1>14, <1>15, <1>16, <1>17, <1>18 DEF LoopStep

LEMMA ReaderGotoType ==
  ASSUME TypeOK, NEW p \in Procs, NEW s \in Streams, NEW pc \in ReaderPc, ReaderGoto(p, s, pc)
  PROVE  reader' \in [Procs -> [Streams -> ReaderPc]]
  BY ZenonT(60) DEF TypeOK, ReaderGoto

LEMMA NextLineType ==
  ASSUME TypeOK, NEW p \in Procs, NEW s \in Streams, NEW line, NextLine(p, s, line)
  PROVE  proc' \in [Procs -> ProcRecord]
  <1>1. proc[p].out[s] \in Seq(Lines) /\ proc[p].out[s] # <<>>
    BY DEF TypeOK, ProcRecord, NextLine
  <1>2. Tail(proc[p].out[s]) \in Seq(Lines)
    BY <1>1
  <1> QED BY <1>2, ZenonT(60) DEF TypeOK, NextLine, ProcRecord

LEMMA ReaderStepType ==
  ASSUME TypeOK, NEW p \in Procs, NEW s \in Streams, ReaderStep(p, s)
  PROVE  TypeOK'
  <1> USE DEF TypeOK
  <1>1. CASE ReadOTPPrompt(p, s)
    <2>1. gen' \in [Procs -> GenRecord]
      <3>1. m.lastAutoOTPStep \in TimeSteps
        BY DEF Manager
      <3>2. [IdleGen EXCEPT !.pc = "generate", !.afterStep = m.lastAutoOTPStep] \in GenRecord
        BY <3>1 DEF IdleGen, GenRecord
      <3> QED BY <1>1, <3>2, ZenonT(60) DEF ReadOTPPrompt
    <2> QED BY <1>1, <2>1, NoteOTPPromptType, NextLineType DEF ReadOTPPrompt
  <1>2. CASE ReadCredentialPrompt(p, s)
    BY <1>2, NoteCredentialPromptType, NextLineType DEF ReadCredentialPrompt
  <1>3. CASE ReadGatewayLogin(p, s)
    <2>1. m' \in Manager
      BY <1>3, ZenonT(60) DEF ReadGatewayLogin, Manager
    <2> QED BY <1>3, <2>1, NextLineType DEF ReadGatewayLogin
  <1>4. CASE ReadParseError(p, s)
    <2>1. m' \in Manager
      BY <1>4, ZenonT(60) DEF ReadParseError, Manager
    <2> QED BY <1>4, <2>1, NextLineType DEF ReadParseError
  <1>5. CASE ReadEstablished(p, s)
    BY <1>5, NextLineType, ReaderGotoType DEF ReadEstablished, ReaderPc
  <1>6. CASE MarkConnected(p, s)
    <2>1. started \in ProcOrNo /\ "connected" \in States
      BY BoundsAssumption DEF ProcOrNo, Procs, NoProc, States
    <2>2. m' \in Manager
      BY <1>6, <2>1, ZenonT(60) DEF MarkConnected, Manager
    <2> QED BY <1>6, <2>2, ReaderGotoType DEF MarkConnected, ReaderPc
  <1>7. CASE ReadBye(p, s)
    BY <1>7, NextLineType, ReaderGotoType DEF ReadBye, ReaderPc
  <1>8. CASE MarkDisconnected(p, s)
    BY <1>8, SetStateType, ReaderGotoType DEF MarkDisconnected, ReaderPc, States
  <1>9. CASE ReadEOF(p, s)
    BY <1>9, ReaderGotoType DEF ReadEOF, ReaderPc
  <1> QED
    BY <1>1, <1>2, <1>3, <1>4, <1>5, <1>6, <1>7, <1>8, <1>9 DEF ReaderStep

LEMMA IdleGenType == IdleGen \in GenRecord
  BY DEF IdleGen, GenRecord, TimeSteps

LEMMA NextStepType ==
  ASSUME TypeOK, NEW a \in TimeSteps
  PROVE  NextStep(a) \in Nat
  BY BoundsAssumption DEF TypeOK, NextStep, TimeSteps

LEMMA GenStepType ==
  ASSUME TypeOK, NEW p \in Procs, GenStep(p)
  PROVE  TypeOK'
  <1> USE DEF TypeOK
  <1>0. gen[p] \in GenRecord /\ gen[p].afterStep \in TimeSteps /\ gen[p].step \in Nat
    BY DEF GenRecord
  <1>1. CASE GenerateOTP(p)
    <2>1. NextStep(gen[p].afterStep) \in Nat
      BY <1>0, NextStepType
    <2>2. gen' \in [Procs -> GenRecord]
      BY <1>1, <2>1, ZenonT(60) DEF GenerateOTP, GenRecord
    <2> QED BY <1>1, <2>2 DEF GenerateOTP
  <1>2. CASE WaitForActiveAuth(p)
    <2>1. gen' \in [Procs -> GenRecord]
      <3>1. CASE gen' = [gen EXCEPT ![p].pc = "write"]
        BY <3>1, ZenonT(60) DEF GenRecord
      <3>2. CASE gen' = [gen EXCEPT ![p] = IdleGen]
        BY <3>2, IdleGenType
      <3> QED BY <1>2, <3>1, <3>2 DEF WaitForActiveAuth
    <2> QED BY <1>2, <2>1 DEF WaitForActiveAuth
  <1>3. CASE WriteOTP(p)
    <2>1. gen' \in [Procs -> GenRecord]
      BY <1>3, ZenonT(60) DEF WriteOTP, GenRecord
    <2> QED BY <1>3, <2>1, WrittenType DEF WriteOTP
  <1>4. CASE RecordOTP(p)
    <2>1. gen[p].step \in TimeSteps
      BY <1>0 DEF TimeSteps
    <2>2. [RecordAuthResponse EXCEPT !.lastAutoOTPStep = gen[p].step,
                                     !.autoOTPInFlight = FALSE] \in Manager
      BY <2>1, RecordType, ZenonT(60) DEF Manager
    <2> QED BY <1>4, <2>2, IdleGenType DEF RecordOTP
  <1>5. CASE FailGeneratedOTP(p)
    <2>1. [m EXCEPT !.autoOTPInFlight = FALSE, !.awaitingOTP = TRUE] \in Manager
      BY ZenonT(60) DEF Manager
    <2> QED BY <1>5, <2>1, IdleGenType DEF FailGeneratedOTP
  <1> QED BY <1>1, <1>2, <1>3, <1>4, <1>5 DEF GenStep

LEMMA IdleSubType == IdleSub \in SubRecord
  BY BoundsAssumption DEF IdleSub, SubRecord, ProcOrNo, NoProc

LEMMA SubmitType ==
  ASSUME TypeOK, LeftPositive, NEW u \in Submits, SubmitOTP(u) \/ SubmitStep(u)
  PROVE  TypeOK'
  <1> USE DEF TypeOK
  <1>0. sub[u] \in SubRecord /\ sub[u].left \in 0..MaxTokens
    BY DEF SubRecord
  <1>1. CASE SubmitOTP(u)
    <2>1. m' \in Manager
      BY <1>1, ZenonT(60) DEF SubmitOTP, Manager
    <2>2. PICK tokens \in 1..MaxTokens:
             sub' = [sub EXCEPT ![u] = [pc |-> "write", stdin |-> m.stdin, left |-> tokens]]
      BY <1>1 DEF SubmitOTP
    <2>3. m.stdin \in ProcOrNo /\ tokens \in 0..MaxTokens
      BY DEF Manager
    <2>4. [pc |-> "write", stdin |-> m.stdin, left |-> tokens] \in SubRecord
      BY <2>3 DEF SubRecord
    <2>5. sub' \in [Submits -> SubRecord]
      BY <2>2, <2>4
    <2> QED BY <1>1, <2>1, <2>5 DEF SubmitOTP
  <1>2. CASE SubmitWrite(u)
    <2>1. sub' \in [Submits -> SubRecord]
      BY <1>2, IdleSubType, ZenonT(60) DEF SubmitWrite, SubRecord
    <2> QED BY <1>2, <2>1, WrittenType DEF SubmitWrite
  <1>3. CASE SubmitRecord(u)
    <2>1. sub[u].left - 1 \in 0..MaxTokens
      <3>1. sub[u].left > 0
        BY <1>3 DEF SubmitRecord, LeftPositive
      <3> HIDE DEF TypeOK
      <3> QED BY <1>0, <3>1, BoundsAssumption
    <2>2. [sub[u] EXCEPT !.pc = "write", !.left = @ - 1] \in SubRecord
      BY <1>0, <2>1, ZenonT(60) DEF SubRecord
    <2>3. sub' \in [Submits -> SubRecord]
      BY <1>3, <2>2, IdleSubType, ZenonT(60) DEF SubmitRecord
    <2> QED BY <1>3, <2>3, RecordType DEF SubmitRecord
  <1> QED BY <1>1, <1>2, <1>3 DEF SubmitStep

LEMMA IdleDiscType == IdleDisc \in DiscRecord
  BY DEF IdleDisc, DiscRecord, ProcOrNo, NoProc

LEMMA DisconnectType ==
  ASSUME TypeOK, NEW d \in Disconnects, Disconnect(d) \/ DisconnectStep(d)
  PROVE  TypeOK'
  <1> USE DEF TypeOK
  <1>0. m.cmd \in ProcOrNo /\ m.stdin \in ProcOrNo
    BY DEF Manager
  <1>1. CASE Disconnect(d)
    <2>1. SetState("disconnecting") \in Manager
      BY SetStateType DEF States
    <2>2. m' \in Manager
      BY <1>1, <2>1, ZenonT(60) DEF Disconnect, Manager
    <2>3. disc' \in [Disconnects -> DiscRecord]
      BY <1>0, <1>1, IdleDiscType, ZenonT(60) DEF Disconnect, DiscRecord
    <2> QED BY <1>1, <2>2, <2>3 DEF Disconnect
  <1>2. CASE GrabStdin(d)
    <2>1. NoProc \in ProcOrNo
      BY DEF ProcOrNo
    <2>2. m' \in Manager
      BY <1>2, <2>1, ZenonT(60) DEF GrabStdin, Manager
    <2>3. disc' \in [Disconnects -> DiscRecord]
      BY <1>0, <1>2, ZenonT(60) DEF GrabStdin, DiscRecord
    <2> QED BY <1>2, <2>2, <2>3 DEF GrabStdin
  <1>3. CASE CloseAndSignal(d)
    <2>1. disc' \in [Disconnects -> DiscRecord]
      BY <1>3, ZenonT(60) DEF CloseAndSignal, DiscRecord
    <2>2. ASSUME NEW q \in Procs
          PROVE  [proc[q] EXCEPT
                    !.stdinClosed = @ \/ q = disc[d].stdin,
                    !.status = IF q = disc[d].cmd /\ @ = "running" THEN "terminated" ELSE @,
                    !.waited = @ \/ q = disc[d].cmd] \in ProcRecord
      <3>1. /\ (proc[q].stdinClosed \/ q = disc[d].stdin) \in BOOLEAN
            /\ (proc[q].waited \/ q = disc[d].cmd) \in BOOLEAN
        OBVIOUS
      <3> QED BY <3>1, ZenonT(60) DEF ProcRecord
    <2>3. proc' \in [Procs -> ProcRecord]
      BY <1>3, <2>2, ZenonT(60) DEF CloseAndSignal
    <2> QED BY <1>3, <2>1, <2>3 DEF CloseAndSignal
  <1>4. CASE DisconnectWaited(d)
    <2>1. disc' \in [Disconnects -> DiscRecord]
      BY <1>4, ZenonT(60) DEF DisconnectWaited, DiscRecord
    <2> QED BY <1>4, <2>1 DEF DisconnectWaited
  <1>5. CASE DisconnectTimeout(d)
    <2>1. disc' \in [Disconnects -> DiscRecord]
      BY <1>5, ZenonT(60) DEF DisconnectTimeout, DiscRecord
    <2>2. proc' \in [Procs -> ProcRecord]
      BY <1>5, ZenonT(60) DEF DisconnectTimeout, ProcRecord
    <2> QED BY <1>5, <2>1, <2>2 DEF DisconnectTimeout
  <1>6. CASE DisconnectTail(d)
    <2>1. "disconnected" \in States
      BY DEF States
    <2>2. m' \in Manager
      BY <1>6, <2>1, ClearType, ZenonT(60) DEF DisconnectTail, Manager
    <2> QED BY <1>6, <2>2, IdleDiscType DEF DisconnectTail
  <1> QED BY <1>1, <1>2, <1>3, <1>4, <1>5, <1>6 DEF DisconnectStep

LEMMA PrintedType ==
  ASSUME NEW r \in ProcRecord, NEW out \in [Streams -> Seq(Lines)],
         NEW n \in 0..MaxLines, NEW b \in BOOLEAN
  PROVE  [r EXCEPT !.out = out, !.printed = n, !.asking = b] \in ProcRecord
  BY ZenonT(60) DEF ProcRecord

LEMMA EnvironmentType ==
  ASSUME TypeOK, Environment \/ DisconnectNoop
  PROVE  TypeOK'
  <1> USE DEF TypeOK
  <1>1. ASSUME NEW p \in Procs, NEW s \in Streams, NEW line \in Lines, PrintLine(p, s, line)
        PROVE  TypeOK'
    <2>1. /\ Append(proc[p].out[s], line) \in Seq(Lines)
          /\ proc[p].printed + 1 \in 0..MaxLines
          /\ (line = "otp") \in BOOLEAN
      BY <1>1, BoundsAssumption DEF PrintLine, ProcRecord
    <2> DEFINE printed == proc[p].printed + 1
               asking  == (line = "otp")
               out     == [proc[p].out EXCEPT ![s] = Append(proc[p].out[s], line)]
               record  == [proc[p] EXCEPT !.out = out, !.printed = printed, !.asking = asking]
    <2>2. out \in [Streams -> Seq(Lines)]
      BY <2>1 DEF ProcRecord
    <2>3. proc[p] \in ProcRecord /\ printed \in 0..MaxLines /\ asking \in BOOLEAN
      BY <2>1
    <2>4. proc' = [proc EXCEPT ![p] = record]
      BY <1>1 DEF PrintLine
    <2>5. proc' \in [Procs -> ProcRecord]
      <3> HIDE DEF out, printed, asking
      <3>1. record \in ProcRecord
        BY <2>2, <2>3, PrintedType
      <3> HIDE DEF record
      <3> QED BY <2>4, <3>1
    <2> QED BY <1>1, <2>5 DEF PrintLine
  <1>2. ASSUME NEW p \in Procs, ReadToken(p)
        PROVE  TypeOK'
    <2>1. proc[p].inbox - 1 \in Nat
      BY <1>2 DEF ReadToken, ProcRecord
    <2>2. proc' \in [Procs -> ProcRecord]
      BY <1>2, <2>1, ZenonT(60) DEF ReadToken, ProcRecord
    <2> QED BY <1>2, <2>2 DEF ReadToken
  <1>3. ASSUME NEW p \in Procs, Exit(p)
        PROVE  TypeOK'
    <2>1. proc' \in [Procs -> ProcRecord]
      <3>1. 0 \in Nat
        OBVIOUS
      <3> QED BY <1>3, <3>1, ZenonT(60) DEF Exit, ProcRecord
    <2> QED BY <1>3, <2>1 DEF Exit
  <1>4. CASE NextWindow
    BY <1>4, BoundsAssumption DEF NextWindow
  <1>5. CASE DisconnectNoop
    <2>1. m' \in Manager
      BY <1>5, ZenonT(60) DEF DisconnectNoop, Manager
    <2> QED BY <1>5, <2>1 DEF DisconnectNoop
  <1> QED BY <1>1, <1>2, <1>3, <1>4, <1>5 DEF Environment

\* Who changes the locals of Connect goroutines and of SubmitOTP calls.
LEMMA OtherSteps ==
  ASSUME [Next]_vars
  PROVE  \/ \E l \in Loops: LoopStep(l)
         \/ \E l \in Loops, req \in Requests: Connect(l, req)
         \/ \E u \in Submits: SubmitOTP(u)
         \/ \E u \in Submits: SubmitStep(u)
         \/ UNCHANGED <<loop, sub>>
  BY DEF Next, Calls, Goroutines, Environment, vars, ReaderStep, GenStep, DisconnectStep,
         ReadOTPPrompt, ReadCredentialPrompt, ReadGatewayLogin, ReadParseError,
         ReadEstablished, MarkConnected, ReadBye, MarkDisconnected, ReadEOF,
         GenerateOTP, WaitForActiveAuth, WriteOTP, RecordOTP, FailGeneratedOTP,
         DisconnectNoop, Disconnect, GrabStdin, CloseAndSignal, DisconnectWaited,
         DisconnectTimeout, DisconnectTail, PrintLine, ReadToken, Exit, NextWindow

LEMMA LoopLocal ==
  ASSUME TypeOK, NEW l \in Loops, LoopStep(l)
  PROVE  /\ loop' = [loop EXCEPT ![l] = loop'[l]]
         /\ \A k \in Loops: k # l => loop'[k] = loop[k]
  <1>0. loop \in [Loops -> LoopRecord]
    BY DEF TypeOK
  <1>1. loop' = [loop EXCEPT ![l] = loop'[l]]
    BY <1>0, ZenonT(60)
       DEF LoopStep, LoopTop, StartProcess, StartFails, RegisterProcess, WritePassword,
           WriteToken, RecordToken, AuthFailed, StartStreams, ReapProcess, ClearAuth,
           SettleState, GPClientReturns, DecideReconnect, ScheduleReconnect, SetReconnecting,
           WaitBeforeReconnect, FailConnect, Goto, Finish, Return
  <1> QED BY <1>0, <1>1

LEMMA GotoEffect ==
  ASSUME TypeOK, NEW l \in Loops, NEW pc, Goto(l, pc)
  PROVE  loop'[l].pc = pc /\ loop'[l].left = loop[l].left /\ loop'[l].proc = loop[l].proc
  <1>1. loop \in [Loops -> LoopRecord]
    BY DEF TypeOK
  <1> QED BY <1>1, ZenonT(60) DEF Goto, LoopRecord

LEMMA FinishEffect ==
  ASSUME TypeOK, NEW l \in Loops, Finish(l)
  PROVE  loop'[l].pc = "idle" /\ loop'[l].left = 0 /\ loop'[l].proc = NoProc
  <1>1. loop'[l] = IdleLoop
    BY DEF TypeOK, Finish
  <1> QED BY <1>1 DEF IdleLoop

LEMMA ReturnEffect ==
  ASSUME TypeOK, NEW l \in Loops, NEW outcome, Return(l, outcome)
  PROVE  loop'[l].pc = "returned" /\ loop'[l].left = loop[l].left /\ loop'[l].proc = loop[l].proc
  <1>1. loop \in [Loops -> LoopRecord]
    BY DEF TypeOK
  <1> QED BY <1>1, ZenonT(60) DEF Return, LoopRecord

\* Where a step of the goroutine of Connect leaves it, and which process it has.
LEMMA LoopEffect ==
  ASSUME TypeOK, NEW l \in Loops, LoopStep(l)
  PROVE  \/ /\ StartProcess(l)
            /\ loop'[l].pc = "register" /\ loop'[l].proc = started + 1
         \/ /\ RegisterProcess(l)
            /\ loop'[l].pc = "password" /\ loop'[l].proc = loop[l].proc
         \/ /\ WritePassword(l)
            /\ loop'[l].pc \in {AfterWrite(loop[l].left), "auth-failed"}
            /\ loop'[l].left = loop[l].left /\ loop'[l].proc = loop[l].proc
         \/ /\ WriteToken(l)
            /\ loop'[l].pc \in {"record", "auth-failed"}
            /\ loop'[l].left = loop[l].left /\ loop'[l].proc = loop[l].proc
         \/ /\ RecordToken(l)
            /\ loop'[l].pc = AfterWrite(loop[l].left - 1)
            /\ loop'[l].left = loop[l].left - 1 /\ loop'[l].proc = loop[l].proc
         \/ /\ ~StartProcess(l) /\ ~RegisterProcess(l)
            /\ loop'[l].pc \notin {"register", "token", "record"}
            /\ loop'[l].proc \in {loop[l].proc, NoProc}
  <1>0. loop \in [Loops -> LoopRecord] /\ loop[l] \in LoopRecord
    BY DEF TypeOK
  <1>1. CASE StartProcess(l)
    BY <1>0, <1>1, ZenonT(60) DEF StartProcess, LoopRecord
  <1>2. CASE RegisterProcess(l)
    BY <1>0, <1>2, ZenonT(60) DEF RegisterProcess, LoopRecord
  <1>3. CASE WritePassword(l)
    BY <1>3, GotoEffect DEF WritePassword
  <1>4. CASE WriteToken(l)
    BY <1>4, GotoEffect DEF WriteToken
  <1>5. CASE RecordToken(l)
    BY <1>0, <1>5, ZenonT(60) DEF RecordToken, LoopRecord
  <1>6. CASE LoopTop(l)
    <2>1. loop'[l].pc = "prepare" /\ loop'[l].proc = loop[l].proc /\ loop[l].pc = "top"
      BY <1>0, <1>6, ZenonT(60) DEF LoopTop, LoopRecord
    <2> QED BY <2>1 DEF StartProcess, RegisterProcess
  <1>7. CASE StartFails(l) \/ AuthFailed(l)
    <2>1. loop'[l].pc = "returned" /\ loop'[l].proc = loop[l].proc
      BY <1>7, ReturnEffect DEF StartFails, AuthFailed
    <2>2. ~RegisterProcess(l) /\ ~StartProcess(l)
      BY <1>7, <1>0, <2>1, ZenonT(60) DEF StartFails, AuthFailed, RegisterProcess, StartProcess, LoopRecord
    <2> QED BY <2>1, <2>2
  <1>8. CASE ReapProcess(l)
    <2>1. loop'[l].pc = "clear" /\ loop'[l].proc = loop[l].proc /\ loop[l].pc = "reap"
      <3>1. PICK waitErr \in BOOLEAN:
               loop' = [loop EXCEPT ![l].pc = "clear",
                                    ![l].outcome = ClassifyOpenConnectExit(loop[l].proc, waitErr)]
        BY <1>8 DEF ReapProcess
      <3> QED BY <1>0, <1>8, <3>1, ZenonT(60) DEF ReapProcess, LoopRecord
    <2> QED BY <2>1 DEF StartProcess, RegisterProcess
  <1>9. CASE \/ StartStreams(l) \/ ClearAuth(l) \/ SettleState(l)
             \/ ScheduleReconnect(l) \/ SetReconnecting(l)
    <2>1. /\ loop'[l].pc \in {"reap", "settle", "returned", "reconnecting", "waiting"}
          /\ loop'[l].proc = loop[l].proc
          /\ loop[l].pc \notin {"prepare", "register"}
      BY <1>9, GotoEffect
         DEF StartStreams, ClearAuth, SettleState, ScheduleReconnect, SetReconnecting
    <2> QED BY <2>1 DEF StartProcess, RegisterProcess
  <1>10. CASE GPClientReturns(l)
    <2>1. loop[l].pc = "returned"
      BY <1>10 DEF GPClientReturns
    <2>2. loop'[l].pc \in {"prepare", "decide"} /\ loop'[l].proc = loop[l].proc
      <3>1. CASE loop' = [loop EXCEPT ![l].pc = "prepare", ![l].direct = TRUE]
        BY <1>0, <3>1, ZenonT(60) DEF LoopRecord
      <3>2. CASE Goto(l, "decide")
        BY <3>2, GotoEffect
      <3> QED BY <1>10, <3>1, <3>2 DEF GPClientReturns
    <2> QED BY <2>1, <2>2 DEF StartProcess, RegisterProcess
  <1>11. CASE DecideReconnect(l)
    <2>1. loop[l].pc = "decide"
      BY <1>11 DEF DecideReconnect
    <2>2. /\ loop'[l].pc \in {"idle", "fail", "schedule"}
          /\ loop'[l].proc \in {loop[l].proc, NoProc}
      <3>1. CASE loop' = [loop EXCEPT ![l].pc = "schedule", ![l].attempt = @ + 1]
        BY <1>0, <3>1, ZenonT(60) DEF LoopRecord
      <3>2. CASE Goto(l, "fail") \/ Finish(l)
        BY <3>2, GotoEffect, FinishEffect
      <3> QED BY <1>11, <3>1, <3>2 DEF DecideReconnect
    <2> QED BY <2>1, <2>2 DEF StartProcess, RegisterProcess
  <1>12. CASE WaitBeforeReconnect(l) \/ FailConnect(l)
    <2>1. /\ loop'[l].pc \in {"idle", "top"}
          /\ loop'[l].proc \in {loop[l].proc, NoProc}
          /\ loop[l].pc \notin {"prepare", "register"}
      BY <1>12, GotoEffect, FinishEffect DEF WaitBeforeReconnect, FailConnect
    <2> QED BY <2>1 DEF StartProcess, RegisterProcess
  <1> QED
    BY <1>1, <1>2, <1>3, <1>4, <1>5, <1>6, <1>7, <1>8, <1>9, <1>10, <1>11, <1>12
       DEF LoopStep

LEMMA LeftPositiveStep ==
  ASSUME TypeOK, LeftPositive, [Next]_vars
  PROVE  LeftPositive'
  <1>0. /\ loop \in [Loops -> LoopRecord] /\ sub \in [Submits -> SubRecord]
        /\ \A l \in Loops: loop[l].left \in 0..MaxTokens
        /\ \A u \in Submits: sub[u].left \in 0..MaxTokens
    BY DEF TypeOK, LoopRecord, SubRecord
  <1>1. ASSUME NEW l \in Loops, LoopStep(l)
        PROVE  LeftPositive'
    <2>1. loop'[l].pc \in {"token", "record"} => loop'[l].left > 0
      <3>1. loop[l].pc = "token" => loop[l].left > 0
        BY DEF LeftPositive
      <3>2. loop[l].pc = "record" => loop[l].left > 0
        BY DEF LeftPositive
      <3>3. CASE RecordToken(l) /\ loop'[l].pc = AfterWrite(loop[l].left - 1)
                                /\ loop'[l].left = loop[l].left - 1
        <4>1. loop[l].left > 0
          BY <3>2, <3>3 DEF RecordToken
        <4> QED BY <1>0, <3>3, <4>1 DEF AfterWrite
      <3>4. CASE WriteToken(l) /\ loop'[l].left = loop[l].left
        BY <3>1, <3>4 DEF WriteToken
      <3>5. CASE /\ loop'[l].pc \in {AfterWrite(loop[l].left), "auth-failed"}
                 /\ loop'[l].left = loop[l].left
        BY <1>0, <3>5 DEF AfterWrite
      <3>6. CASE loop'[l].pc \notin {"token", "record"}
        BY <3>6
      <3> QED BY <1>1, <3>3, <3>4, <3>5, <3>6, LoopEffect
    <2>2. UNCHANGED sub
      BY <1>1 DEF LoopStep, LoopTop, StartProcess, StartFails, RegisterProcess, WritePassword,
           WriteToken, RecordToken, AuthFailed, StartStreams, ReapProcess, ClearAuth,
           SettleState, GPClientReturns, DecideReconnect, ScheduleReconnect, SetReconnecting,
           WaitBeforeReconnect, FailConnect
    <2> QED BY <1>1, <2>1, <2>2, LoopLocal DEF LeftPositive
  <1>2. ASSUME NEW l \in Loops, NEW req \in Requests, Connect(l, req)
        PROVE  LeftPositive'
    <2>1. loop' = [loop EXCEPT ![l] = [IdleLoop EXCEPT !.pc = "top", !.req = req]]
      BY <1>2 DEF Connect
    <2>2. loop'[l].pc = "top"
      BY <1>0, <2>1 DEF IdleLoop
    <2> QED BY <1>0, <1>2, <2>1, <2>2 DEF Connect, LeftPositive
  <1>3. ASSUME NEW u \in Submits, SubmitOTP(u)
        PROVE  LeftPositive'
    <2>1. PICK tokens \in 1..MaxTokens:
             sub' = [sub EXCEPT ![u] = [pc |-> "write", stdin |-> m.stdin, left |-> tokens]]
      BY <1>3 DEF SubmitOTP
    <2> QED BY <1>0, <1>3, <2>1 DEF SubmitOTP, LeftPositive
  <1>4. ASSUME NEW u \in Submits, SubmitStep(u)
        PROVE  LeftPositive'
    <2>1. \A v \in Submits: v # u => sub'[v] = sub[v]
      BY <1>0, <1>4 DEF SubmitStep, SubmitWrite, SubmitRecord
    <2>2. sub'[u].pc # "idle" => sub'[u].left > 0
      <3>1. CASE sub' = [sub EXCEPT ![u].pc = "record"] /\ sub[u].pc = "write"
        <4>1. sub'[u].left = sub[u].left
          BY <1>0, <3>1, ZenonT(60) DEF SubRecord
        <4> QED BY <3>1, <4>1 DEF LeftPositive
      <3>2. CASE sub' = [sub EXCEPT ![u] = IdleSub]
        BY <1>0, <3>2 DEF IdleSub
      <3>3. CASE SubmitRecord(u)
        <4>1. CASE sub[u].left = 1
          BY <1>0, <3>3, <4>1 DEF SubmitRecord, IdleSub
        <4>2. CASE sub[u].left # 1
          <5>1. sub[u].left > 1
            BY <1>0, <3>3, <4>2 DEF SubmitRecord, LeftPositive
          <5>2. sub'[u] = [sub[u] EXCEPT !.pc = "write", !.left = @ - 1]
            BY <1>0, <3>3, <4>2 DEF SubmitRecord
          <5>3. sub'[u].left = sub[u].left - 1
            BY <1>0, <5>2, ZenonT(60) DEF SubRecord
          <5> QED BY <1>0, <5>1, <5>3
        <4> QED BY <4>1, <4>2
      <3> QED BY <1>4, <3>1, <3>2, <3>3 DEF SubmitStep, SubmitWrite
    <2>3. UNCHANGED loop
      BY <1>4 DEF SubmitStep, SubmitWrite, SubmitRecord
    <2> QED BY <2>1, <2>2, <2>3 DEF LeftPositive
  <1>5. CASE UNCHANGED <<loop, sub>>
    BY <1>5 DEF LeftPositive
  <1> QED BY <1>1, <1>2, <1>3, <1>4, <1>5, OtherSteps

LEMMA TypeInit ==
  ASSUME Init
  PROVE  TypeOK /\ LeftPositive
  <1>1. NewManager \in Manager
    BY DEF NewManager, Manager, States, ProcOrNo, TimeSteps, NoProc
  <1>2. NoProcess \in ProcRecord
    <2>1. [s \in Streams |-> <<>>] \in [Streams -> Seq(Lines)]
      OBVIOUS
    <2> QED BY <2>1, BoundsAssumption DEF NoProcess, ProcRecord
  <1>3. TypeOK
    BY <1>1, <1>2, IdleLoopType, IdleGenType, IdleSubType, IdleDiscType, BoundsAssumption
       DEF Init, TypeOK, ReaderPc
  <1>4. LeftPositive
    BY DEF Init, LeftPositive, IdleLoop, IdleSub
  <1> QED BY <1>3, <1>4

LEMMA TypeStep ==
  ASSUME TypeOK, LeftPositive, [Next]_vars
  PROVE  TypeOK'
  <1>1. CASE Calls
    <2>1. ASSUME NEW l \in Loops, NEW req \in Requests, Connect(l, req)
          PROVE  TypeOK'
      BY <2>1, ConnectType
    <2>2. ASSUME NEW u \in Submits, SubmitOTP(u)
          PROVE  TypeOK'
      BY <2>2, SubmitType
    <2>3. ASSUME NEW d \in Disconnects, Disconnect(d)
          PROVE  TypeOK'
      BY <2>3, DisconnectType
    <2>4. CASE DisconnectNoop
      BY <2>4, EnvironmentType
    <2> QED BY <1>1, <2>1, <2>2, <2>3, <2>4 DEF Calls
  <1>2. CASE Goroutines
    <2>1. ASSUME NEW l \in Loops, LoopStep(l)
          PROVE  TypeOK'
      BY <2>1, LoopStepType
    <2>2. ASSUME NEW p \in Procs, NEW s \in Streams, ReaderStep(p, s)
          PROVE  TypeOK'
      BY <2>2, ReaderStepType
    <2>3. ASSUME NEW p \in Procs, GenStep(p)
          PROVE  TypeOK'
      BY <2>3, GenStepType
    <2>4. ASSUME NEW u \in Submits, SubmitStep(u)
          PROVE  TypeOK'
      BY <2>4, SubmitType
    <2>5. ASSUME NEW d \in Disconnects, DisconnectStep(d)
          PROVE  TypeOK'
      BY <2>5, DisconnectType
    <2> QED BY <1>2, <2>1, <2>2, <2>3, <2>4, <2>5 DEF Goroutines
  <1>3. CASE Environment
    BY <1>3, EnvironmentType
  <1>4. CASE UNCHANGED vars
    BY <1>4 DEF TypeOK, vars
  <1> QED BY <1>1, <1>2, <1>3, <1>4 DEF Next

\* Every variable keeps its type, for any number of callers, processes and lines.
THEOREM TypeCorrect == Spec => []TypeOK
  <1>1. Init => TypeOK /\ LeftPositive
    BY TypeInit
  <1>2. TypeOK /\ LeftPositive /\ [Next]_vars => (TypeOK /\ LeftPositive)'
    BY TypeStep, LeftPositiveStep
  <1> QED BY <1>1, <1>2, PTL DEF Spec

-----------------------------------------------------------------------------
(* What a step does to the fields these properties are about.              *)

Quiet ==
    /\ m'.cmd = m.cmd /\ m'.stdin = m.stdin
    /\ m'.autoOTPInFlight = m.autoOTPInFlight /\ m'.lastAutoOTPStep = m.lastAutoOTPStep
    /\ m'.awaitingOTP => m.awaitingOTP

Cleared ==
    /\ m'.cmd = NoProc /\ m'.stdin = NoProc
    /\ ~m'.autoOTPInFlight /\ m'.lastAutoOTPStep = m.lastAutoOTPStep
    /\ ~m'.awaitingOTP

LEMMA SetStateQuiet ==
  ASSUME m \in Manager, NEW s, m' = SetState(s)
  PROVE  Quiet
  BY ZenonT(60) DEF SetState, Manager, Quiet

LEMMA RecordQuiet ==
  ASSUME m \in Manager, m' = RecordAuthResponse
  PROVE  Quiet
  BY ZenonT(60) DEF RecordAuthResponse, Manager, Quiet

LEMMA AttemptQuiet ==
  ASSUME m \in Manager, NEW l, NEW a, m' = AttemptState(l, a)
  PROVE  Quiet
  BY ZenonT(60) DEF AttemptState, Manager, Quiet

LEMMA ClearCleared ==
  ASSUME m \in Manager, m' = ClearProcessAuthState
  PROVE  Cleared
  BY ZenonT(60) DEF ClearProcessAuthState, Manager, Cleared

LEMMA LoopManagerEffect ==
  ASSUME TypeOK, NEW l \in Loops, LoopStep(l)
  PROVE  UNCHANGED gen /\ (Quiet \/ Cleared \/ RegisterProcess(l))
  <1>0. m \in Manager
    BY DEF TypeOK
  <1>1. CASE UNCHANGED <<m, gen>>
    BY <1>1 DEF Quiet
  <1>2. CASE LoopTop(l) \/ ScheduleReconnect(l)
    BY <1>0, <1>2, AttemptQuiet DEF LoopTop, ScheduleReconnect
  <1>3. CASE RecordToken(l)
    BY <1>0, <1>3, RecordQuiet DEF RecordToken
  <1>4. CASE AuthFailed(l) \/ ClearAuth(l)
    BY <1>0, <1>4, ClearCleared DEF AuthFailed, ClearAuth
  <1>5. CASE SettleState(l) \/ SetReconnecting(l) \/ FailConnect(l)
    <2>1. UNCHANGED gen /\ (m' = m \/ \E s \in States: m' = SetState(s))
      BY <1>5 DEF SettleState, SetReconnecting, FailConnect, States
    <2> QED BY <1>0, <2>1, SetStateQuiet DEF Quiet
  <1>6. CASE RegisterProcess(l)
    BY <1>6 DEF RegisterProcess
  <1>7. CASE \/ StartProcess(l) \/ StartFails(l) \/ WritePassword(l) \/ WriteToken(l)
             \/ StartStreams(l) \/ ReapProcess(l) \/ GPClientReturns(l)
             \/ DecideReconnect(l) \/ WaitBeforeReconnect(l)
    BY <1>1, <1>7
       DEF StartProcess, StartFails, WritePassword, WriteToken, StartStreams, ReapProcess,
           GPClientReturns, DecideReconnect, WaitBeforeReconnect
  <1> QED BY <1>2, <1>3, <1>4, <1>5, <1>6, <1>7 DEF LoopStep

LEMMA ReaderManagerEffect ==
  ASSUME TypeOK, NEW p \in Procs, NEW s \in Streams, ReaderStep(p, s)
  PROVE  (UNCHANGED gen /\ Quiet) \/ ReadOTPPrompt(p, s)
  <1>0. m \in Manager
    BY DEF TypeOK
  <1>1. CASE ReadCredentialPrompt(p, s)
    <2>1. m' = NoteCredentialPrompt /\ UNCHANGED gen
      BY <1>1 DEF ReadCredentialPrompt
    <2> QED BY <1>0, <2>1, ZenonT(60) DEF NoteCredentialPrompt, Manager, Quiet
  <1>2. CASE ReadGatewayLogin(p, s)
    <2>1. m' = [m EXCEPT !.sawGatewayLogin = TRUE] /\ UNCHANGED gen
      BY <1>2 DEF ReadGatewayLogin
    <2> QED BY <1>0, <2>1, ZenonT(60) DEF Manager, Quiet
  <1>3. CASE ReadParseError(p, s)
    <2>1. m' = [m EXCEPT !.sawParseError = TRUE, !.awaitingOTP = FALSE] /\ UNCHANGED gen
      BY <1>3 DEF ReadParseError
    <2> QED BY <1>0, <2>1, ZenonT(60) DEF Manager, Quiet
  <1>4. CASE MarkConnected(p, s)
    <2>1. /\ m' = [m EXCEPT !.state = "connected", !.connectedAt = started, !.awaitingOTP = FALSE]
          /\ UNCHANGED gen
      BY <1>4 DEF MarkConnected
    <2> QED BY <1>0, <2>1, ZenonT(60) DEF Manager, Quiet
  <1>5. CASE MarkDisconnected(p, s)
    BY <1>0, <1>5, SetStateQuiet DEF MarkDisconnected
  <1>6. CASE ReadEstablished(p, s) \/ ReadBye(p, s) \/ ReadEOF(p, s)
    BY <1>6 DEF ReadEstablished, ReadBye, ReadEOF, Quiet
  <1> QED BY <1>1, <1>2, <1>3, <1>4, <1>5, <1>6 DEF ReaderStep

LEMMA CallerManagerEffect ==
  ASSUME TypeOK,
         \/ Calls
         \/ \E u \in Submits: SubmitStep(u)
         \/ \E d \in Disconnects: DisconnectStep(d)
  PROVE  UNCHANGED gen /\ (Quiet \/ Cleared \/ \E d \in Disconnects: GrabStdin(d))
  <1>0. m \in Manager
    BY DEF TypeOK
  <1>1. ASSUME NEW l \in Loops, NEW req \in Requests, Connect(l, req)
        PROVE  UNCHANGED gen /\ Quiet
    <2>1. m' = [SetState("connecting") EXCEPT !.stopRequested = FALSE] /\ UNCHANGED gen
      BY <1>1 DEF Connect
    <2> QED BY <1>0, <2>1, ZenonT(60) DEF SetState, Manager, Quiet
  <1>2. ASSUME NEW u \in Submits, SubmitOTP(u)
        PROVE  UNCHANGED gen /\ Quiet
    <2>1. m' = [m EXCEPT !.awaitingOTP = FALSE] /\ UNCHANGED gen
      BY <1>2 DEF SubmitOTP
    <2> QED BY <1>0, <2>1, ZenonT(60) DEF Manager, Quiet
  <1>3. ASSUME NEW d \in Disconnects, Disconnect(d)
        PROVE  UNCHANGED gen /\ Quiet
    <2>1. m' = [SetState("disconnecting") EXCEPT !.stopRequested = TRUE] /\ UNCHANGED gen
      BY <1>3 DEF Disconnect
    <2> QED BY <1>0, <2>1, ZenonT(60) DEF SetState, Manager, Quiet
  <1>4. ASSUME DisconnectNoop
        PROVE  UNCHANGED gen /\ Quiet
    <2>1. m' = [m EXCEPT !.stopRequested = TRUE] /\ UNCHANGED gen
      BY <1>4 DEF DisconnectNoop
    <2> QED BY <1>0, <2>1, ZenonT(60) DEF Manager, Quiet
  <1>5. ASSUME NEW u \in Submits, SubmitStep(u)
        PROVE  UNCHANGED gen /\ Quiet
    BY <1>0, <1>5, RecordQuiet DEF SubmitStep, SubmitWrite, SubmitRecord, Quiet
  <1>6. ASSUME NEW d \in Disconnects, DisconnectTail(d)
        PROVE  UNCHANGED gen /\ Cleared
    <2>1. /\ m' = [ClearProcessAuthState EXCEPT !.state = "disconnected", !.reconnectAttempt = 0,
                                               !.sawGatewayLogin = FALSE, !.sawParseError = FALSE]
          /\ UNCHANGED gen
      BY <1>6 DEF DisconnectTail
    <2> QED BY <1>0, <2>1, ZenonT(60) DEF ClearProcessAuthState, Manager, Cleared
  <1>7. ASSUME NEW d \in Disconnects,
               CloseAndSignal(d) \/ DisconnectWaited(d) \/ DisconnectTimeout(d)
        PROVE  UNCHANGED gen /\ Quiet
    BY <1>7 DEF CloseAndSignal, DisconnectWaited, DisconnectTimeout, Quiet
  <1>8. ASSUME NEW d \in Disconnects, GrabStdin(d)
        PROVE  UNCHANGED gen
    BY <1>8 DEF GrabStdin
  <1> QED
    BY <1>1, <1>2, <1>3, <1>4, <1>5, <1>6, <1>7, <1>8 DEF Calls, DisconnectStep

LEMMA ManagerEffect ==
  ASSUME TypeOK, [Next]_vars
  PROVE  \/ UNCHANGED gen /\ (Quiet \/ Cleared)
         \/ \E l \in Loops: LoopStep(l) /\ RegisterProcess(l) /\ UNCHANGED gen
         \/ \E d \in Disconnects: GrabStdin(d) /\ UNCHANGED gen
         \/ \E p \in Procs, s \in Streams: ReadOTPPrompt(p, s)
         \/ \E p \in Procs: GenStep(p)
  <1>1. CASE \E l \in Loops: LoopStep(l)
    BY <1>1, LoopManagerEffect
  <1>2. CASE \E p \in Procs, s \in Streams: ReaderStep(p, s)
    BY <1>2, ReaderManagerEffect
  <1>3. CASE \/ Calls
             \/ \E u \in Submits: SubmitStep(u)
             \/ \E d \in Disconnects: DisconnectStep(d)
    BY <1>3, CallerManagerEffect
  <1>4. CASE Environment \/ UNCHANGED vars
    BY <1>4 DEF Environment, PrintLine, ReadToken, Exit, NextWindow, vars, Quiet
  <1> QED BY <1>1, <1>2, <1>3, <1>4 DEF Next, Goroutines

-----------------------------------------------------------------------------
(* The inductive invariant.  Process ids are handed out in order, and a    *)
(* process that is about to be registered is not yet known to anybody.     *)

Known ==
    /\ \A p \in Procs: proc[p].status = "none" <=> p > started
    /\ m.cmd <= started /\ m.stdin <= started
    /\ \A l \in Loops: loop[l].proc <= started
    /\ \A d \in Disconnects: disc[d].cmd <= started
    /\ \A p \in Procs: gen[p].pc # "idle" => p <= started

RegisterIsNew ==
    \A l \in Loops: loop[l].pc = "register" =>
        /\ loop[l].proc \in Procs
        /\ m.stdin # loop[l].proc
        /\ gen[loop[l].proc].pc = "idle"
        /\ \A k \in Loops: k # l /\ loop[k].pc = "register" => loop[k].proc # loop[l].proc

\* The generator of the current pipe is the one in flight, and started from
\* the last recorded time step.
GeneratorIsCurrent ==
    \A p \in Procs: m.stdin = p /\ gen[p].pc # "idle" =>
        /\ m.autoOTPInFlight
        /\ gen[p].pc = "generate" => gen[p].afterStep = m.lastAutoOTPStep
        /\ gen[p].pc \in {"wait", "write"} => gen[p].step > m.lastAutoOTPStep

SafetyInv ==
    /\ TypeOK /\ LeftPositive
    /\ Known /\ RegisterIsNew /\ GeneratorIsCurrent
    /\ StdinIsRegistered /\ OneAnswerer /\ CapturedIsStopped

LEMMA SafetyInit ==
  ASSUME Init
  PROVE  SafetyInv
  <1>1. TypeOK /\ LeftPositive
    BY TypeInit
  <1>2. /\ m.cmd = NoProc /\ m.stdin = NoProc /\ ~m.awaitingOTP
        /\ \A l \in Loops: loop[l].pc = "idle" /\ loop[l].proc = NoProc
        /\ \A p \in Procs: gen[p].pc = "idle" /\ proc[p].status = "none"
        /\ \A d \in Disconnects: disc[d].pc = "idle" /\ disc[d].cmd = NoProc
        /\ started = 0
    BY DEF Init, NewManager, IdleLoop, IdleGen, NoProcess, IdleDisc
  <1>3. Known
    BY <1>2 DEF Known, NoProc, Procs
  <1>4. RegisterIsNew /\ GeneratorIsCurrent
    BY <1>2 DEF RegisterIsNew, GeneratorIsCurrent
  <1>5. StdinIsRegistered /\ OneAnswerer /\ CapturedIsStopped
    BY <1>2 DEF StdinIsRegistered, OneAnswerer, CapturedIsStopped
  <1> QED BY <1>1, <1>3, <1>4, <1>5 DEF SafetyInv

\* What the loud steps do to the fields.
LEMMA RegisterEffect ==
  ASSUME TypeOK, NEW l \in Loops, RegisterProcess(l)
  PROVE  /\ loop[l].pc = "register"
         /\ m'.cmd = loop[l].proc /\ m'.stdin = loop[l].proc
         /\ ~m'.awaitingOTP /\ ~m'.autoOTPInFlight
         /\ m'.lastAutoOTPStep = m.lastAutoOTPStep
  BY ZenonT(60) DEF TypeOK, RegisterProcess, Manager

LEMMA GrabEffect ==
  ASSUME TypeOK, NEW d \in Disconnects, GrabStdin(d)
  PROVE  /\ m'.cmd = m.cmd /\ m'.stdin = NoProc /\ ~m'.awaitingOTP
         /\ m'.lastAutoOTPStep = m.lastAutoOTPStep
  BY ZenonT(60) DEF TypeOK, GrabStdin, Manager

LEMMA PromptEffect ==
  ASSUME TypeOK, NEW p \in Procs, NEW s \in Streams, ReadOTPPrompt(p, s)
  PROVE  /\ m'.cmd = m.cmd /\ m'.stdin = m.stdin /\ m'.lastAutoOTPStep = m.lastAutoOTPStep
         /\ OpenPrompt => m' = m /\ gen' = gen
         /\ ~OpenPrompt /\ ~Automatic => gen' = gen /\ ~m'.autoOTPInFlight
         /\ ~OpenPrompt /\ Automatic =>
               /\ m.stdin \in Procs
               /\ m'.autoOTPInFlight /\ ~m'.awaitingOTP
               /\ gen' = [gen EXCEPT ![m.stdin] = [IdleGen EXCEPT !.pc = "generate",
                                                       !.afterStep = m.lastAutoOTPStep]]
  <1>0. m \in Manager /\ m.stdin \in ProcOrNo
    BY DEF TypeOK, Manager
  <1>1. m' = NoteOTPPrompt
    BY DEF ReadOTPPrompt
  <1>2. m'.cmd = m.cmd /\ m'.stdin = m.stdin /\ m'.lastAutoOTPStep = m.lastAutoOTPStep
    BY <1>0, <1>1, ZenonT(60) DEF NoteOTPPrompt, Manager
  <1>3. OpenPrompt => m' = m /\ gen' = gen
    BY <1>1 DEF ReadOTPPrompt, NoteOTPPrompt
  <1>4. ~OpenPrompt => /\ m'.autoOTPInFlight = Automatic
                       /\ m'.awaitingOTP = (NeedsInput /\ ~Automatic)
    BY <1>0, <1>1, ZenonT(60) DEF NoteOTPPrompt, Manager
  <1>5. Automatic => m.stdin \in Procs
    BY <1>0 DEF Automatic, ProcOrNo
  <1> QED BY <1>2, <1>3, <1>4, <1>5 DEF ReadOTPPrompt

LEMMA RecordOTPEffect ==
  ASSUME TypeOK, NEW p \in Procs, RecordOTP(p)
  PROVE  /\ gen' = [gen EXCEPT ![p] = IdleGen]
         /\ m'.cmd = m.cmd /\ m'.stdin = m.stdin
         /\ m.stdin # p => m' = m
         /\ m.stdin = p => ~m'.autoOTPInFlight
  <1>1. m \in Manager
    BY DEF TypeOK
  <1>2. CASE m.stdin # p
    BY <1>2 DEF RecordOTP
  <1>3. CASE m.stdin = p
    <2>1. m' = [RecordAuthResponse EXCEPT !.lastAutoOTPStep = gen[p].step,
                                          !.autoOTPInFlight = FALSE]
      BY <1>3 DEF RecordOTP
    <2>2. m'.cmd = m.cmd /\ m'.stdin = m.stdin /\ ~m'.autoOTPInFlight
      BY <1>1, <2>1, ZenonT(60) DEF RecordAuthResponse, Manager
    <2> QED BY <1>3, <2>2 DEF RecordOTP
  <1> QED BY <1>2, <1>3

LEMMA FailOTPEffect ==
  ASSUME TypeOK, NEW p \in Procs, FailGeneratedOTP(p)
  PROVE  /\ gen' = [gen EXCEPT ![p] = IdleGen]
         /\ m'.cmd = m.cmd /\ m'.stdin = m.stdin
         /\ m' = m \/ (m.stdin = p /\ ~m'.autoOTPInFlight)
  <1>1. m \in Manager
    BY DEF TypeOK
  <1>2. CASE ~ActiveAuth(p)
    BY <1>2 DEF FailGeneratedOTP
  <1>3. CASE ActiveAuth(p)
    <2>1. m' = [m EXCEPT !.autoOTPInFlight = FALSE, !.awaitingOTP = TRUE]
      BY <1>3 DEF FailGeneratedOTP
    <2>2. m'.cmd = m.cmd /\ m'.stdin = m.stdin /\ ~m'.autoOTPInFlight
      BY <1>1, <2>1, ZenonT(60) DEF Manager
    <2> QED BY <1>3, <2>2 DEF FailGeneratedOTP, ActiveAuth
  <1> QED BY <1>2, <1>3

\* The other steps of a generator leave the struct alone.
LEMMA GenEffect ==
  ASSUME TypeOK, NEW p \in Procs, GenStep(p)
  PROVE  /\ gen[p].pc # "idle"
         /\ \A q \in Procs: q # p => gen'[q] = gen[q]
         /\ \/ RecordOTP(p) \/ FailGeneratedOTP(p)
            \/ /\ m' = m
               /\ \/ gen'[p].pc \in {"idle", "record", "fail"}
                  \/ GenerateOTP(p) /\ gen'[p].pc = "wait"
                                    /\ gen'[p].step = NextStep(gen[p].afterStep)
                  \/ /\ gen[p].pc = "wait" /\ gen'[p].pc = "write"
                     /\ gen'[p].step = gen[p].step
  <1>0. gen \in [Procs -> GenRecord] /\ gen[p] \in GenRecord
    BY DEF TypeOK
  <1>1. CASE GenerateOTP(p)
    <2>1. CASE gen' = [gen EXCEPT ![p].pc = "wait", ![p].step = NextStep(gen[p].afterStep)]
      BY <1>0, <1>1, <2>1, ZenonT(60) DEF GenerateOTP, GenRecord
    <2>2. CASE gen' = [gen EXCEPT ![p].pc = "fail"]
      BY <1>0, <1>1, <2>2, ZenonT(60) DEF GenerateOTP, GenRecord
    <2> QED BY <1>1, <2>1, <2>2 DEF GenerateOTP
  <1>2. CASE WaitForActiveAuth(p)
    <2>1. CASE gen' = [gen EXCEPT ![p].pc = "write"]
      BY <1>0, <1>2, <2>1, ZenonT(60) DEF WaitForActiveAuth, GenRecord
    <2>2. CASE gen' = [gen EXCEPT ![p] = IdleGen]
      BY <1>0, <1>2, <2>2 DEF WaitForActiveAuth, IdleGen
    <2> QED BY <1>2, <2>1, <2>2 DEF WaitForActiveAuth
  <1>3. CASE WriteOTP(p)
    <2>1. PICK pc \in {"record", "fail"}: gen' = [gen EXCEPT ![p].pc = pc]
      BY <1>3 DEF WriteOTP
    <2> QED BY <1>0, <1>3, <2>1, ZenonT(60) DEF WriteOTP, GenRecord
  <1>4. CASE RecordOTP(p)
    BY <1>0, <1>4 DEF RecordOTP
  <1>5. CASE FailGeneratedOTP(p)
    BY <1>0, <1>5 DEF FailGeneratedOTP
  <1> QED BY <1>1, <1>2, <1>3, <1>4, <1>5 DEF GenStep

LEMMA PipeStep ==
  ASSUME TypeOK, StdinIsRegistered, OneAnswerer, [Next]_vars
  PROVE  StdinIsRegistered' /\ OneAnswerer'
  <1> USE DEF StdinIsRegistered, OneAnswerer
  <1>1. CASE Quiet \/ Cleared
    BY <1>1 DEF Quiet, Cleared
  <1>2. CASE \E l \in Loops: RegisterProcess(l)
    BY <1>2, RegisterEffect
  <1>3. CASE \E d \in Disconnects: GrabStdin(d)
    BY <1>3, GrabEffect
  <1>4. CASE \E p \in Procs, s \in Streams: ReadOTPPrompt(p, s)
    BY <1>4, PromptEffect
  <1>5. CASE \E p \in Procs: GenStep(p)
    BY <1>5, GenEffect, RecordOTPEffect, FailOTPEffect
  <1> QED BY <1>1, <1>2, <1>3, <1>4, <1>5, ManagerEffect

LEMMA GeneratorStep ==
  ASSUME TypeOK, RegisterIsNew, GeneratorIsCurrent, [Next]_vars
  PROVE  GeneratorIsCurrent'
  <1>0. gen \in [Procs -> GenRecord] /\ NoProc \notin Procs
    BY DEF TypeOK, NoProc, Procs
  <1>1. CASE UNCHANGED gen /\ (Quiet \/ Cleared)
    BY <1>0, <1>1 DEF Quiet, Cleared, GeneratorIsCurrent
  <1>2. CASE \E l \in Loops: RegisterProcess(l) /\ UNCHANGED gen
    BY <1>2, RegisterEffect DEF GeneratorIsCurrent, RegisterIsNew
  <1>3. CASE \E d \in Disconnects: GrabStdin(d) /\ UNCHANGED gen
    BY <1>0, <1>3, GrabEffect DEF GeneratorIsCurrent
  <1>4. ASSUME NEW p \in Procs, NEW s \in Streams, ReadOTPPrompt(p, s)
        PROVE  GeneratorIsCurrent'
    <2>1. CASE OpenPrompt
      BY <1>4, <2>1, PromptEffect DEF GeneratorIsCurrent
    <2>2. CASE ~OpenPrompt /\ ~Automatic
      <3>1. ~m.autoOTPInFlight /\ m'.stdin = m.stdin /\ gen' = gen
        BY <1>4, <2>2, PromptEffect DEF OpenPrompt
      <3> QED BY <3>1 DEF GeneratorIsCurrent
    <2>3. CASE ~OpenPrompt /\ Automatic
      <3>1. /\ m.stdin \in Procs /\ m'.stdin = m.stdin /\ m'.autoOTPInFlight
            /\ m'.lastAutoOTPStep = m.lastAutoOTPStep
            /\ gen'[m.stdin] = [IdleGen EXCEPT !.pc = "generate",
                                               !.afterStep = m.lastAutoOTPStep]
        BY <1>0, <1>4, <2>3, PromptEffect
      <3>2. gen'[m.stdin].pc = "generate" /\ gen'[m.stdin].afterStep = m.lastAutoOTPStep
        BY <3>1 DEF IdleGen
      <3> QED BY <3>1, <3>2 DEF GeneratorIsCurrent
    <2> QED BY <2>1, <2>2, <2>3
  <1>5. ASSUME NEW p \in Procs, GenStep(p)
        PROVE  GeneratorIsCurrent'
    <2>0. \A q \in Procs: q # p => gen'[q] = gen[q]
      BY <1>5, GenEffect
    <2>1. CASE RecordOTP(p) \/ FailGeneratedOTP(p)
      <3>1. gen'[p].pc = "idle"
        BY <1>0, <2>1, RecordOTPEffect, FailOTPEffect DEF IdleGen
      <3>2. m'.stdin = m.stdin /\ (m' = m \/ m.stdin = p)
        BY <2>1, RecordOTPEffect, FailOTPEffect
      <3> QED BY <2>0, <3>1, <3>2 DEF GeneratorIsCurrent
    <2>2. CASE m' = m /\ gen'[p].pc \in {"idle", "record", "fail"}
      <3>1. gen[p].pc # "idle"
        BY <1>5, GenEffect
      <3> QED BY <2>0, <2>2, <3>1 DEF GeneratorIsCurrent
    <2>3. CASE /\ m' = m /\ GenerateOTP(p) /\ gen'[p].pc = "wait"
               /\ gen'[p].step = NextStep(gen[p].afterStep)
      <3>1. gen[p].pc = "generate" /\ gen[p].afterStep \in TimeSteps
        BY <1>0, <2>3 DEF GenerateOTP, GenRecord
      <3>2. NextStep(gen[p].afterStep) > gen[p].afterStep
        BY <3>1 DEF NextStep, TypeOK, TimeSteps
      <3> QED BY <2>0, <2>3, <3>1, <3>2 DEF GeneratorIsCurrent
    <2>4. CASE /\ m' = m /\ gen[p].pc = "wait" /\ gen'[p].pc = "write"
               /\ gen'[p].step = gen[p].step
      BY <2>0, <2>4 DEF GeneratorIsCurrent
    <2> QED BY <1>5, <2>1, <2>2, <2>3, <2>4, GenEffect
  <1> QED BY <1>1, <1>2, <1>3, <1>4, <1>5, ManagerEffect

\* Processes only move forward: started, perhaps terminated, dead.
Forward(p) ==
    \/ proc'[p].status = proc[p].status
    \/ /\ proc[p].status # "none" /\ proc'[p].status # "none"
       /\ proc[p].status \in {"killed", "exited"} => proc'[p].status \in {"killed", "exited"}

LEMMA SameStatus ==
  ASSUME TypeOK, NEW p, NEW q \in Procs,
         \/ proc' = Written(p)
         \/ proc' = [proc EXCEPT ![p].stdinClosed = TRUE]
         \/ \E i: proc' = [proc EXCEPT ![p].asking = FALSE, ![p].inbox = i]
         \/ \E s \in Streams: proc' = [proc EXCEPT ![p].out[s] = Tail(@)]
  PROVE  proc'[q].status = proc[q].status
  <1>0. proc \in [Procs -> ProcRecord]
    BY DEF TypeOK
  <1>1. CASE proc' = Written(p)
    BY <1>0, <1>1, ZenonT(60) DEF Written, ProcRecord
  <1>2. CASE proc' = [proc EXCEPT ![p].stdinClosed = TRUE]
    BY <1>0, <1>2, ZenonT(60) DEF ProcRecord
  <1>3. ASSUME NEW i, proc' = [proc EXCEPT ![p].asking = FALSE, ![p].inbox = i]
        PROVE  proc'[q].status = proc[q].status
    <2>1. CASE q # p
      BY <1>0, <1>3, <2>1, ZenonT(60)
    <2>2. CASE q = p
      <3>1. proc[p] = [f \in DOMAIN proc[p] |-> proc[p][f]] /\ "status" \in DOMAIN proc[p]
        BY <1>0, <2>2, ZenonT(60) DEF ProcRecord
      <3>2. proc'[p] = [[proc[p] EXCEPT !.asking = FALSE] EXCEPT !.inbox = i]
        BY <1>0, <1>3, <2>2, ZenonT(60)
      <3> QED BY <2>2, <3>1, <3>2, ZenonT(60)
    <2> QED BY <2>1, <2>2
  <1>4. ASSUME NEW s \in Streams, proc' = [proc EXCEPT ![p].out[s] = Tail(@)]
        PROVE  proc'[q].status = proc[q].status
    BY <1>0, <1>4, ZenonT(60) DEF ProcRecord
  <1> QED BY <1>1, <1>2, <1>3, <1>4

LEMMA StatusStep ==
  ASSUME TypeOK, Known, [Next]_vars, NEW q \in Procs
  PROVE  \/ Forward(q) /\ started' = started
         \/ /\ \E l \in Loops: StartProcess(l)
            /\ started' = started + 1
            /\ q = started + 1 => proc'[q].status = "running"
            /\ q # started + 1 => proc'[q].status = proc[q].status
  <1>0. proc \in [Procs -> ProcRecord] /\ proc[q] \in ProcRecord
    BY DEF TypeOK
  <1>1. ASSUME NEW l \in Loops, LoopStep(l)
        PROVE  \/ Forward(q) /\ started' = started
               \/ /\ StartProcess(l)
                  /\ started' = started + 1
                  /\ q = started + 1 => proc'[q].status = "running"
                  /\ q # started + 1 => proc'[q].status = proc[q].status
    <2>1. CASE StartProcess(l)
      BY <1>0, <2>1, ZenonT(60) DEF StartProcess, ProcRecord
    <2>2. CASE WriteToken(l) \/ AuthFailed(l)
      BY <2>2, SameStatus DEF WriteToken, AuthFailed, Forward
    <2>3. CASE \/ LoopTop(l) \/ StartFails(l) \/ RegisterProcess(l) \/ WritePassword(l)
               \/ RecordToken(l) \/ StartStreams(l) \/ ReapProcess(l) \/ ClearAuth(l)
               \/ SettleState(l) \/ GPClientReturns(l) \/ DecideReconnect(l)
               \/ ScheduleReconnect(l) \/ SetReconnecting(l) \/ WaitBeforeReconnect(l)
               \/ FailConnect(l)
      BY <2>3 DEF LoopTop, StartFails, RegisterProcess, WritePassword, RecordToken,
                  StartStreams, ReapProcess, ClearAuth, SettleState, GPClientReturns,
                  DecideReconnect, ScheduleReconnect, SetReconnecting, WaitBeforeReconnect,
                  FailConnect, Forward
    <2> QED BY <1>1, <2>1, <2>2, <2>3 DEF LoopStep
  <1>2. ASSUME NEW p \in Procs, NEW s \in Streams, ReaderStep(p, s)
        PROVE  Forward(q) /\ started' = started
    BY <1>2, SameStatus
       DEF ReaderStep, ReadOTPPrompt, ReadCredentialPrompt, ReadGatewayLogin, ReadParseError,
           ReadEstablished, MarkConnected, ReadBye, MarkDisconnected, ReadEOF, NextLine, Forward
  <1>3. ASSUME NEW p \in Procs, GenStep(p)
        PROVE  Forward(q) /\ started' = started
    BY <1>3, SameStatus DEF GenStep, GenerateOTP, WaitForActiveAuth, WriteOTP, RecordOTP,
                            FailGeneratedOTP, Forward
  <1>4. ASSUME Calls \/ \E u \in Submits: SubmitStep(u)
        PROVE  Forward(q) /\ started' = started
    BY <1>4, SameStatus DEF Calls, Connect, SubmitOTP, Disconnect, DisconnectNoop,
                            SubmitStep, SubmitWrite, SubmitRecord, Forward
  <1>5. ASSUME NEW d \in Disconnects, DisconnectStep(d)
        PROVE  Forward(q) /\ started' = started
    <2>1. CASE CloseAndSignal(d)
      <3>1. proc'[q].status \in {proc[q].status, "terminated"}
            /\ (proc'[q].status # proc[q].status => proc[q].status = "running")
        BY <1>0, <2>1, ZenonT(60) DEF CloseAndSignal, ProcRecord
      <3> QED BY <2>1, <3>1 DEF CloseAndSignal, Forward
    <2>2. CASE DisconnectTimeout(d)
      <3>1. CASE q = disc[d].cmd
        <4>1. proc[q].status # "none"
          BY <3>1 DEF Known, TypeOK, Procs
        <4>2. proc'[q].status \in {"exited", "killed"}
          BY <1>0, <2>2, <3>1, ZenonT(60) DEF DisconnectTimeout, ProcRecord
        <4> QED BY <2>2, <4>1, <4>2 DEF DisconnectTimeout, Forward
      <3>2. CASE q # disc[d].cmd
        BY <1>0, <2>2, <3>2 DEF DisconnectTimeout, Forward
      <3> QED BY <3>1, <3>2
    <2>3. CASE GrabStdin(d) \/ DisconnectWaited(d) \/ DisconnectTail(d)
      BY <2>3 DEF GrabStdin, DisconnectWaited, DisconnectTail, Forward
    <2> QED BY <1>5, <2>1, <2>2, <2>3 DEF DisconnectStep
  <1>6. ASSUME NEW p \in Procs, NEW s \in Streams, NEW line \in Lines, PrintLine(p, s, line)
        PROVE  Forward(q) /\ started' = started
    <2>1. proc'[q].status = proc[q].status
      BY <1>0, <1>6, ZenonT(60) DEF PrintLine, ProcRecord
    <2> QED BY <1>6, <2>1 DEF PrintLine, Forward
  <1>7. ASSUME NEW p \in Procs, ReadToken(p)
        PROVE  Forward(q) /\ started' = started
    <2>1. proc' = [proc EXCEPT ![p].asking = FALSE, ![p].inbox = proc[p].inbox - 1]
      BY <1>7 DEF ReadToken
    <2>2. \E i: proc' = [proc EXCEPT ![p].asking = FALSE, ![p].inbox = i]
      BY <2>1
    <2> QED BY <1>7, <2>2, SameStatus DEF ReadToken, Forward
  <1>8. ASSUME NEW p \in Procs, Exit(p)
        PROVE  Forward(q) /\ started' = started
    <2>1. CASE q = p
      <3>1. proc'[q].status = "exited" /\ proc[q].status # "none"
        BY <1>0, <1>8, <2>1, ZenonT(60) DEF Exit, Alive, ProcRecord
      <3> QED BY <1>8, <3>1 DEF Exit, Forward
    <2>2. CASE q # p
      BY <1>0, <1>8, <2>2 DEF Exit, Forward
    <2> QED BY <2>1, <2>2
  <1>9. CASE NextWindow \/ UNCHANGED vars
    BY <1>9 DEF NextWindow, vars, Forward
  <1> QED
    BY <1>1, <1>2, <1>3, <1>4, <1>5, <1>6, <1>7, <1>8, <1>9
       DEF Next, Goroutines, Environment, Calls

LEMMA RegisteredPc ==
  ASSUME TypeOK, NEW l \in Loops, RegisterProcess(l)
  PROVE  loop'[l].pc = "password"
  BY ZenonT(60) DEF TypeOK, RegisterProcess, LoopRecord

\* The goroutines of Connect: one starts the next process, or the processes
\* they hold, and those about to be registered, are the ones from before.
LEMMA LoopsStep ==
  ASSUME TypeOK, [Next]_vars
  PROVE  \/ \E k \in Loops:
               /\ StartProcess(k) /\ UNCHANGED <<m, gen, disc>> /\ started' = started + 1
               /\ loop'[k].pc = "register" /\ loop'[k].proc = started + 1
               /\ \A l \in Loops: l # k => loop'[l] = loop[l]
         \/ /\ started' = started
            /\ \A l \in Loops:
                 /\ loop'[l].proc \in {loop[l].proc, NoProc}
                 /\ loop'[l].pc = "register" => loop'[l] = loop[l] /\ ~RegisterProcess(l)
  <1>0. loop \in [Loops -> LoopRecord]
    BY DEF TypeOK
  <1>1. ASSUME NEW k \in Loops, LoopStep(k), StartProcess(k)
        PROVE  /\ UNCHANGED <<m, gen, disc>> /\ started' = started + 1
               /\ loop'[k].pc = "register" /\ loop'[k].proc = started + 1
               /\ \A l \in Loops: l # k => loop'[l] = loop[l]
    <2>1. loop'[k].pc = "register" /\ loop'[k].proc = started + 1
      BY <1>0, <1>1, ZenonT(60) DEF StartProcess, LoopRecord
    <2> QED BY <1>1, <2>1, LoopLocal DEF StartProcess
  <1>2. ASSUME NEW k \in Loops, LoopStep(k), ~StartProcess(k)
        PROVE  /\ started' = started
               /\ \A l \in Loops:
                    /\ loop'[l].proc \in {loop[l].proc, NoProc}
                    /\ loop'[l].pc = "register" => loop'[l] = loop[l] /\ ~RegisterProcess(l)
    <2>1. started' = started
      BY <1>2 DEF LoopStep, LoopTop, StartFails, RegisterProcess, WritePassword, WriteToken,
                  RecordToken, AuthFailed, StartStreams, ReapProcess, ClearAuth, SettleState,
                  GPClientReturns, DecideReconnect, ScheduleReconnect, SetReconnecting,
                  WaitBeforeReconnect, FailConnect
    <2>2. loop'[k].proc \in {loop[k].proc, NoProc} /\ loop'[k].pc # "register"
      BY <1>2, LoopEffect DEF AfterWrite
    <2>3. ASSUME NEW l \in Loops, l # k
          PROVE  loop'[l] = loop[l] /\ (loop'[l].pc = "register" => ~RegisterProcess(l))
      <3>1. loop'[l] = loop[l]
        BY <1>2, <2>3, LoopLocal
      <3> QED BY <3>1, RegisteredPc
    <2> QED BY <2>1, <2>2, <2>3
  <1>3. ASSUME NEW k \in Loops, NEW req \in Requests, Connect(k, req)
        PROVE  /\ started' = started
               /\ \A l \in Loops:
                    /\ loop'[l].proc \in {loop[l].proc, NoProc}
                    /\ loop'[l].pc = "register" => loop'[l] = loop[l] /\ ~RegisterProcess(l)
    <2>1. loop'[k].pc = "top" /\ loop'[k].proc = NoProc
      BY <1>0, <1>3 DEF Connect, IdleLoop
    <2>2. \A l \in Loops: l # k => loop'[l] = loop[l]
      BY <1>0, <1>3 DEF Connect
    <2> QED BY <1>3, <2>1, <2>2, RegisteredPc DEF Connect
  <1>4. CASE UNCHANGED <<loop, started>>
    BY <1>4, RegisteredPc
  <1>5. \/ \E l \in Loops: LoopStep(l)
        \/ \E l \in Loops, req \in Requests: Connect(l, req)
        \/ UNCHANGED <<loop, started>>
    BY DEF Next, Calls, Goroutines, Environment, vars, SubmitOTP, Disconnect, DisconnectNoop,
           ReaderStep, ReadOTPPrompt, ReadCredentialPrompt, ReadGatewayLogin, ReadParseError,
           ReadEstablished, MarkConnected, ReadBye, MarkDisconnected, ReadEOF,
           GenStep, GenerateOTP, WaitForActiveAuth, WriteOTP, RecordOTP, FailGeneratedOTP,
           SubmitStep, SubmitWrite, SubmitRecord, DisconnectStep, GrabStdin, CloseAndSignal,
           DisconnectWaited, DisconnectTimeout, DisconnectTail,
           PrintLine, ReadToken, Exit, NextWindow
  <1> QED BY <1>1, <1>2, <1>3, <1>4, <1>5

\* Nobody gets a pipe but by registering it, and no generator starts but on the
\* registered pipe.
LEMMA PipesStep ==
  ASSUME TypeOK, [Next]_vars
  PROVE  /\ m'.stdin \in {m.stdin, NoProc} \/ \E l \in Loops: RegisterProcess(l) /\ m'.stdin = loop[l].proc
         /\ m'.cmd \in {m.cmd, NoProc} \/ \E l \in Loops: RegisterProcess(l) /\ m'.cmd = loop[l].proc
         /\ \A p \in Procs: gen'[p].pc # "idle" => gen[p].pc # "idle" \/ p = m.stdin
  <1>0. gen \in [Procs -> GenRecord]
    BY DEF TypeOK
  <1>1. CASE UNCHANGED gen /\ (Quiet \/ Cleared)
    BY <1>1 DEF Quiet, Cleared
  <1>2. CASE \E l \in Loops: RegisterProcess(l) /\ UNCHANGED gen
    BY <1>2, RegisterEffect
  <1>3. CASE \E d \in Disconnects: GrabStdin(d) /\ UNCHANGED gen
    BY <1>3, GrabEffect
  <1>4. CASE \E p \in Procs, s \in Streams: ReadOTPPrompt(p, s)
    BY <1>0, <1>4, PromptEffect
  <1>5. CASE \E p \in Procs: GenStep(p)
    <2>1. m'.cmd = m.cmd /\ m'.stdin = m.stdin
      BY <1>5, GenEffect, RecordOTPEffect, FailOTPEffect
    <2>2. \A p \in Procs: gen'[p].pc # "idle" => gen[p].pc # "idle"
      BY <1>5, GenEffect
    <2> QED BY <2>1, <2>2
  <1> QED BY <1>1, <1>2, <1>3, <1>4, <1>5, ManagerEffect

\* A Disconnect takes the process from the struct, and says that it is stopped
\* once it is dead or killed.
LEMMA DisconnectsStep ==
  ASSUME TypeOK, [Next]_vars, NEW d \in Disconnects
  PROVE  \/ disc'[d].pc = "tail" /\ disc'[d].cmd = NoProc
         \/ disc'[d].pc # "tail" /\ disc'[d].cmd \in {disc[d].cmd, m.cmd, NoProc}
         \/ disc'[d] = disc[d]
         \/ /\ disc'[d].pc = "tail" /\ disc'[d].cmd = disc[d].cmd
            /\ DisconnectWaited(d) \/ DisconnectTimeout(d)
  <1>0. disc \in [Disconnects -> DiscRecord] /\ disc[d] \in DiscRecord
    BY DEF TypeOK
  <1>1. ASSUME NEW e \in Disconnects, Disconnect(e) \/ DisconnectStep(e), e # d
        PROVE  disc'[d] = disc[d]
    BY <1>0, <1>1, ZenonT(60) DEF Disconnect, DisconnectStep, GrabStdin, CloseAndSignal, DisconnectWaited,
                       DisconnectTimeout, DisconnectTail
  <1>2. CASE Disconnect(d)
    <2>1. disc'[d].cmd = m.cmd /\ disc'[d].pc = IF m.cmd = NoProc THEN "tail" ELSE "grab"
      BY <1>0, <1>2, ZenonT(60) DEF Disconnect, IdleDisc
    <2> QED BY <2>1
  <1>3. CASE GrabStdin(d) \/ CloseAndSignal(d)
    <2>1. CASE GrabStdin(d)
      <3>1. disc'[d].pc = "signal" /\ disc'[d].cmd = disc[d].cmd
        BY <1>0, <2>1, ZenonT(60) DEF GrabStdin, DiscRecord
      <3> QED BY <3>1
    <2>2. CASE CloseAndSignal(d)
      <3>1. disc'[d].pc = "wait" /\ disc'[d].cmd = disc[d].cmd
        BY <1>0, <2>2, ZenonT(60) DEF CloseAndSignal, DiscRecord
      <3> QED BY <3>1
    <2> QED BY <1>3, <2>1, <2>2
  <1>4. CASE DisconnectWaited(d) \/ DisconnectTimeout(d)
    <2>1. disc'[d].pc = "tail" /\ disc'[d].cmd = disc[d].cmd
      BY <1>0, <1>4, ZenonT(60) DEF DisconnectWaited, DisconnectTimeout, DiscRecord
    <2> QED BY <1>4, <2>1
  <1>5. CASE DisconnectTail(d)
    BY <1>0, <1>5 DEF DisconnectTail, IdleDisc
  <1>6. CASE UNCHANGED disc
    BY <1>6
  <1>7. \/ \E e \in Disconnects: Disconnect(e) \/ DisconnectStep(e)
        \/ UNCHANGED disc
    BY DEF Next, Calls, Goroutines, Environment, vars, Connect, SubmitOTP, DisconnectNoop,
           LoopStep, LoopTop, StartProcess, StartFails, RegisterProcess, WritePassword,
           WriteToken, RecordToken, AuthFailed, StartStreams, ReapProcess, ClearAuth,
           SettleState, GPClientReturns, DecideReconnect, ScheduleReconnect, SetReconnecting,
           WaitBeforeReconnect, FailConnect,
           ReaderStep, ReadOTPPrompt, ReadCredentialPrompt, ReadGatewayLogin, ReadParseError,
           ReadEstablished, MarkConnected, ReadBye, MarkDisconnected, ReadEOF,
           GenStep, GenerateOTP, WaitForActiveAuth, WriteOTP, RecordOTP, FailGeneratedOTP,
           SubmitStep, SubmitWrite, SubmitRecord, PrintLine, ReadToken, Exit, NextWindow
  <1> QED BY <1>1, <1>2, <1>3, <1>4, <1>5, <1>6, <1>7 DEF DisconnectStep

LEMMA KnownStep ==
  ASSUME TypeOK, Known, [Next]_vars
  PROVE  Known'
  <1>0. started \in Nat /\ started' \in {started, started + 1}
    BY LoopsStep, BoundsAssumption DEF TypeOK
  <1>1. \A p \in Procs: proc'[p].status = "none" <=> p > started'
    <2>1. ASSUME NEW p \in Procs
          PROVE  proc'[p].status = "none" <=> p > started'
      <3>0. p \in Nat /\ (proc[p].status = "none" <=> p > started)
        BY BoundsAssumption DEF Known, Procs
      <3>1. CASE Forward(p) /\ started' = started
        BY <3>0, <3>1 DEF Forward
      <3>2. CASE /\ started' = started + 1
                 /\ p = started + 1 => proc'[p].status = "running"
                 /\ p # started + 1 => proc'[p].status = proc[p].status
        BY <1>0, <3>0, <3>2
      <3> QED BY <3>1, <3>2, StatusStep
    <2> QED BY <2>1
  <1>2. m.cmd \in Nat /\ m.stdin \in Nat /\ NoProc \in Nat /\ NoProc <= started
    BY <1>0, BoundsAssumption DEF TypeOK, Manager, ProcOrNo, Procs, NoProc
  <1>3. ASSUME NEW l \in Loops
        PROVE  loop[l].proc \in Nat /\ loop[l].proc <= started
    BY BoundsAssumption DEF TypeOK, LoopRecord, ProcOrNo, Procs, NoProc, Known
  <1>4. m'.cmd <= started' /\ m'.stdin <= started'
    BY <1>0, <1>2, <1>3, PipesStep DEF Known
  <1>5. ASSUME NEW l \in Loops
        PROVE  loop'[l].proc <= started'
    BY <1>0, <1>2, <1>3, LoopsStep
  <1>6. ASSUME NEW d \in Disconnects
        PROVE  disc'[d].cmd <= started'
    <2>1. disc[d].cmd \in Nat /\ disc[d].cmd <= started
      BY BoundsAssumption DEF TypeOK, DiscRecord, ProcOrNo, Procs, NoProc, Known
    <2>2. disc'[d].cmd \in {disc[d].cmd, m.cmd, NoProc}
      BY DisconnectsStep
    <2> QED BY <1>0, <1>2, <2>1, <2>2 DEF Known
  <1>7. ASSUME NEW p \in Procs, gen'[p].pc # "idle"
        PROVE  p <= started'
    <2>1. p \in Nat /\ p <= started
      BY <1>7, PipesStep, BoundsAssumption DEF Known, Procs
    <2> QED BY <1>0, <2>1
  <1> QED BY <1>1, <1>4, <1>5, <1>6, <1>7 DEF Known

LEMMA RegisterIsNewStep ==
  ASSUME TypeOK, Known, RegisterIsNew, [Next]_vars
  PROVE  RegisterIsNew'
  <1>0. started \in Nat /\ NoProc \notin Procs
    BY BoundsAssumption DEF TypeOK, NoProc, Procs
  <1>1. CASE \E k \in Loops:
               /\ StartProcess(k) /\ UNCHANGED <<m, gen, disc>> /\ started' = started + 1
               /\ loop'[k].pc = "register" /\ loop'[k].proc = started + 1
               /\ \A l \in Loops: l # k => loop'[l] = loop[l]
    <2>1. PICK k \in Loops:
               /\ StartProcess(k) /\ UNCHANGED <<m, gen, disc>>
               /\ loop'[k].pc = "register" /\ loop'[k].proc = started + 1
               /\ \A l \in Loops: l # k => loop'[l] = loop[l]
      BY <1>1
    <2>2. started + 1 \in Procs
      BY <1>0, <2>1, BoundsAssumption DEF StartProcess, Procs
    <2>3. m.stdin # started + 1 /\ gen[started + 1].pc = "idle"
      <3>1. m.stdin <= started /\ m.stdin \in Nat
        BY BoundsAssumption DEF Known, TypeOK, Manager, ProcOrNo, Procs, NoProc
      <3>2. gen[started + 1].pc # "idle" => started + 1 <= started
        BY <2>2 DEF Known
      <3> QED BY <1>0, <3>1, <3>2
    <2>4. \A l \in Loops: loop[l].proc # started + 1
      <3>1. ASSUME NEW l \in Loops
            PROVE  loop[l].proc <= started /\ loop[l].proc \in Nat
        BY BoundsAssumption DEF Known, TypeOK, LoopRecord, ProcOrNo, Procs, NoProc
      <3> QED BY <1>0, <3>1
    <2> QED BY <2>1, <2>2, <2>3, <2>4 DEF RegisterIsNew
  <1>2. CASE \A l \in Loops:
               loop'[l].pc = "register" => loop'[l] = loop[l] /\ ~RegisterProcess(l)
    <2>1. SUFFICES ASSUME NEW l \in Loops, loop'[l].pc = "register"
                   PROVE  /\ loop'[l].proc \in Procs
                          /\ m'.stdin # loop'[l].proc
                          /\ gen'[loop'[l].proc].pc = "idle"
                          /\ \A k \in Loops: k # l /\ loop'[k].pc = "register"
                                              => loop'[k].proc # loop'[l].proc
      BY DEF RegisterIsNew
    <2>2. loop'[l] = loop[l] /\ loop[l].pc = "register" /\ ~RegisterProcess(l)
      BY <1>2, <2>1
    <2>3. /\ loop[l].proc \in Procs /\ m.stdin # loop[l].proc
          /\ gen[loop[l].proc].pc = "idle"
      BY <2>2 DEF RegisterIsNew
    <2>4. m'.stdin # loop[l].proc
      <3>1. ASSUME NEW k \in Loops, RegisterProcess(k)
            PROVE  loop[k].proc # loop[l].proc
        BY <2>2, <3>1 DEF RegisterProcess, RegisterIsNew
      <3> QED BY <1>0, <2>3, <3>1, PipesStep
    <2>5. gen'[loop[l].proc].pc = "idle"
      BY <2>3, PipesStep
    <2>6. \A k \in Loops: k # l /\ loop'[k].pc = "register" => loop'[k].proc # loop[l].proc
      BY <1>2, <2>2 DEF RegisterIsNew
    <2> QED BY <2>2, <2>3, <2>4, <2>5, <2>6
  <1> QED BY <1>1, <1>2, LoopsStep

LEMMA CapturedStep ==
  ASSUME TypeOK, Known, CapturedIsStopped, [Next]_vars
  PROVE  CapturedIsStopped'
  <1> SUFFICES ASSUME NEW d \in Disconnects, disc'[d].pc = "tail", disc'[d].cmd # NoProc
               PROVE  proc'[disc'[d].cmd].status \in {"killed", "exited"}
    BY DEF CapturedIsStopped
  <1>1. disc'[d].cmd = disc[d].cmd
        /\ (disc'[d] = disc[d] \/ DisconnectWaited(d) \/ DisconnectTimeout(d))
    BY DisconnectsStep
  <1>2. disc[d].cmd \in Procs /\ disc[d].cmd <= started
    BY <1>1 DEF TypeOK, DiscRecord, ProcOrNo, Known
  <1>3. CASE disc'[d] = disc[d]
    <2>1. proc[disc[d].cmd].status \in {"killed", "exited"}
      BY <1>1, <1>3 DEF CapturedIsStopped
    <2>2. started \in Nat /\ disc[d].cmd \in Nat
      BY <1>2, BoundsAssumption DEF TypeOK, Procs
    <2>3. disc[d].cmd # started + 1
      BY <1>2, <2>2
    <2>4. proc'[disc[d].cmd].status \in {"killed", "exited"}
      BY <1>2, <2>1, <2>3, StatusStep DEF Forward
    <2> QED BY <1>1, <2>4
  <1>4. CASE DisconnectWaited(d)
    BY <1>1, <1>4 DEF DisconnectWaited
  <1>5. CASE DisconnectTimeout(d)
    <2>1. proc \in [Procs -> ProcRecord]
      BY DEF TypeOK
    <2>2. proc'[disc[d].cmd].status \in {"killed", "exited"}
      BY <1>2, <1>5, <2>1, ZenonT(60) DEF DisconnectTimeout, ProcRecord
    <2> QED BY <1>1, <2>2
  <1> QED BY <1>1, <1>3, <1>4, <1>5

LEMMA SafetyStep ==
  ASSUME SafetyInv, [Next]_vars
  PROVE  SafetyInv'
  <1> USE DEF SafetyInv
  <1>1. TypeOK' /\ LeftPositive'
    BY TypeStep, LeftPositiveStep
  <1>2. Known' /\ RegisterIsNew'
    BY KnownStep, RegisterIsNewStep
  <1>3. GeneratorIsCurrent'
    BY GeneratorStep
  <1>4. StdinIsRegistered' /\ OneAnswerer'
    BY PipeStep
  <1>5. CapturedIsStopped'
    BY CapturedStep
  <1> QED BY <1>1, <1>2, <1>3, <1>4, <1>5

\* The strengthening of the four properties below is inductive.
THEOREM SafetyInvariant == Spec => []SafetyInv
  <1>1. Init => SafetyInv
    BY SafetyInit
  <1>2. SafetyInv /\ [Next]_vars => SafetyInv'
    BY SafetyStep
  <1> QED BY <1>1, <1>2, PTL DEF Spec

\* The pipe that SubmitOTP and the generator write to is always that of the
\* process Disconnect would stop, whatever the number of callers and processes.
THEOREM PipeIsRegistered == Spec => []StdinIsRegistered
  <1>1. SafetyInv => StdinIsRegistered
    BY DEF SafetyInv
  <1> QED BY <1>1, SafetyInvariant, PTL

\* No prompt is offered to the user while a generator answers it.
THEOREM PromptHasOneAnswerer == Spec => []OneAnswerer
  <1>1. SafetyInv => OneAnswerer
    BY DEF SafetyInv
  <1> QED BY <1>1, SafetyInvariant, PTL

\* A generated code is never one that was already recorded as sent.
THEOREM CodesAreFresh == Spec => []FreshCode
  <1>1. SafetyInv => FreshCode
    BY DEF SafetyInv, GeneratorIsCurrent, FreshCode
  <1> QED BY <1>1, SafetyInvariant, PTL

\* A Disconnect that found a process leaves it dead or killed.
THEOREM DisconnectKills == Spec => []CapturedIsStopped
  <1>1. SafetyInv => CapturedIsStopped
    BY DEF SafetyInv
  <1> QED BY <1>1, SafetyInvariant, PTL
=============================================================================
