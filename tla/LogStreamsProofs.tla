---------------------------- MODULE LogStreamsProofs ----------------------------
(***************************************************************************)
(* LogStreams for any number of users, streams, lines, pages and failures: *)
(* its types, that no stream is lost while it may publish, that the last   *)
(* page of a message stays, and that a revoked user has no live message.   *)
(***************************************************************************)
EXTENDS LogStreams, TLAPS

\* What Command has seen to holds until the handler makes use of it: there is
\* room for a stream or a page.
RoomInv ==
    /\ handler.pc = "start" => created < MaxStreams
    /\ handler.pc \in {"start", "stop", "older", "revoke"} => handler.command = handler.pc
    /\ handler.pc = "older" /\ streams[handler.user] # None
         => stream[streams[handler.user]].pages < MaxPages
    /\ handler.command = "older" /\ handler.pc = "lock"
         => stream[handler.stream].pages < MaxPages
    /\ handler.pc \in {"lock", "call"} => handler.stream # None
    /\ \A g \in Completers: completer[g].pc = "call" => completer[g].stream # None

TypeInv == TypeOK /\ RoomInv

\* A stream that can be found; whoever takes it out of the map has to end it.
InMap(x) == streams[stream[x].user] = x

\* Somebody is about to publish the last page of x or to delete its message.
HandlerEnds(x)      == handler.pc = "call" /\ handler.stream = x
CompleterEnds(g, x) == completer[g].pc = "call" /\ completer[g].stream = x

\* The map has running streams only.
MapInv ==
    \A u \in Users: streams[u] # None =>
        LET s == stream[streams[u]]
        IN  /\ streams[u] <= created /\ s.user = u
            /\ ~s.stopped /\ ~s.cancelled /\ ~s.deleteOnExit

\* Structs that are not started.
FreshInv == \A x \in Ids: x > created => run[x].pc = "none" /\ chat[x].kind = "none"

HandlerInv ==
    /\ handler.pc = "idle" => handler = IdleHandler
    /\ handler.command # "revoke" => handler.user \in approved
    /\ handler.pc \in {"retag", "control", "complete"} => handler.command # "revoke"
    /\ handler.pc \in {"lock", "retag"} => mu = "handler"
    /\ handler.pc = "complete" <=> completer["handler"].pc # "idle"
    /\ handler.pc \notin {"lock", "call"} => handler.stream = None
    /\ handler.pc \in {"lock", "call"} =>
         LET s == stream[handler.stream]
         IN  /\ handler.stream <= created /\ s.user = handler.user
             /\ handler.command \in {"stop", "older", "revoke"}
             /\ handler.command = "older" => streams[handler.user] = handler.stream
             /\ handler.command # "older" => streams[handler.user] = None /\ ~s.deleteOnExit
             /\ s.stopped <=> handler.pc = "call"
    /\ handler.pc = "call" => /\ stream[handler.stream].mu = "handler"
                              /\ handler.command # "older"
                              /\ chat[handler.stream].kind \in {"none", "live"}

CompleterInv(g) ==
    /\ completer[g].pc = "match" => mu = g /\ \A x \in completer[g].todo: InMap(x)
    /\ completer[g].pc \in {"idle", "take"} => completer[g].list = {}
    /\ \A x \in completer[g].list:
         /\ x <= created /\ ~InMap(x) /\ ~stream[x].deleteOnExit /\ handler.stream # x
         /\ \A h \in Completers \ {g}: x \notin completer[h].list
         /\ stream[x].stopped <=> CompleterEnds(g, x)
    /\ completer[g].pc = "call" => /\ completer[g].stream \in completer[g].list
                                   /\ stream[completer[g].stream].mu = g
                                   /\ chat[completer[g].stream].kind \in {"none", "live"}

RunInv(x) ==
    /\ x <= created => run[x].pc # "none"
    /\ run[x].pc = "call" => stream[x].mu = "run" /\ ~stream[x].stopped
    /\ run[x].pc \in {"exit", "cleanup", "done"} => stream[x].cancelled
    /\ run[x].pc = "cleanup" => stream[x].deleteOnExit
    /\ stream[x].cancelled => stream[x].stopped \/ stream[x].deleteOnExit
    /\ stream[x].deleteOnExit => ~stream[x].stopped

ChatInv(x) ==
    /\ chat[x].kind = "live" => stream[x].known
    /\ chat[x].kind \in {"final", "deleted"} => stream[x].stopped \/ run[x].pc = "done"
    /\ failures = 0 /\ stream[x].stopped /\ chat[x].kind = "live"
         => HandlerEnds(x) \/ \E g \in Completers: CompleterEnds(g, x)

\* A revoked user has no stream once the handler has looked for it.
RevokedInv == \A u \in Users: u \notin approved /\ handler.user # u => streams[u] = None

\* The part of NoOrphan for one stream.
Found(x) ==
    run[x].pc \notin {"none", "exit", "cleanup", "done"} /\ ~stream[x].stopped /\ ~stream[x].cancelled
    => InMap(x) \/ Completing(x) \/ handler.stream = x

StreamInv ==
    /\ MapInv /\ FreshInv /\ HandlerInv /\ \A g \in Completers: CompleterInv(g)
    /\ \A x \in Ids: RunInv(x) /\ ChatInv(x) /\ Found(x)
    /\ RevokedInv

-----------------------------------------------------------------------------
(* Type correctness.                                                       *)

LEMMA NoneIsNoId == None \notin Ids
BY DEF None, Ids

LEMMA InitialTypes ==
  /\ NoStream \in StreamRecord /\ NoPage \in Page /\ IdleHandler \in HandlerRecord
  /\ IdleCompleter \in CompleterRecord
BY UsersAssumption, BoundsAssumption
   DEF NoStream, StreamRecord, NoPage, Page, IdleHandler, HandlerRecord, HandlerPc, Commands,
       IdleCompleter, CompleterRecord, Action, Pages, None, Free

LEMMA IdleFields ==
  /\ IdleHandler.pc = "idle" /\ IdleHandler.command = "start" /\ IdleHandler.user = Owner
  /\ IdleHandler.stream = None
  /\ IdleCompleter.pc = "idle" /\ IdleCompleter.list = {} /\ IdleCompleter.stream = None
BY DEF IdleHandler, IdleCompleter

\* Where a handler goes.
LEMMA HandlerGoes ==
  ASSUME handler \in HandlerRecord, NEW pc \in HandlerPc
  PROVE  LET h == [handler EXCEPT !.pc = pc]
         IN  /\ h \in HandlerRecord /\ h.pc = pc /\ h.command = handler.command
             /\ h.user = handler.user /\ h.stream = handler.stream /\ h.action = handler.action
BY DEF HandlerRecord

\* A lock is taken or released.
LEMMA LockSet ==
  ASSUME stream \in [Ids -> StreamRecord], NEW x \in Ids,
         NEW owner \in {Free, "run", "handler", "dispatcher"}
  PROVE  LET new == [stream EXCEPT ![x].mu = owner]
         IN  /\ new \in [Ids -> StreamRecord] /\ new[x].mu = owner
             /\ \A y \in Ids: /\ y # x => new[y] = stream[y]
                             /\ \A f \in {"user", "stopped", "cancelled", "deleteOnExit",
                                          "known", "action", "pages"}: new[y][f] = stream[y][f]
<1> DEFINE s == [stream[x] EXCEPT !.mu = owner]
<1>1. s \in StreamRecord /\ s.mu = owner
      /\ \A f \in {"user", "stopped", "cancelled", "deleteOnExit", "known", "action", "pages"}:
           s[f] = stream[x][f]
  BY DEF StreamRecord
<1>2. [stream EXCEPT ![x].mu = owner] = [stream EXCEPT ![x] = s] OBVIOUS
<1> HIDE DEF s
<1> QED BY <1>1, <1>2

LEMMA HandlerMoves ==
  ASSUME handler \in HandlerRecord, NEW pc \in HandlerPc, handler' = [handler EXCEPT !.pc = pc]
  PROVE  /\ handler'.pc = pc /\ handler'.command = handler.command /\ handler'.user = handler.user
         /\ handler'.stream = handler.stream
BY HandlerGoes

LEMMA TypeInvInit == Init => TypeInv
<1> SUFFICES ASSUME Init PROVE TypeInv OBVIOUS
<1>1. /\ stream \in [Ids -> StreamRecord] /\ streams \in [Users -> Ids \cup {None}]
      /\ handler \in HandlerRecord /\ completer \in [Completers -> CompleterRecord]
  BY InitialTypes DEF Init
<1>2. run \in [Ids -> RunRecord] /\ chat \in [Ids -> Message] /\ stray \in [Ids -> BOOLEAN]
  BY InitialTypes DEF Init, RunRecord, Message
<1>3. /\ approved \in SUBSET Users /\ Owner \in approved
      /\ logs \in 0..MaxLogs /\ created \in 0..MaxStreams /\ failures \in 0..MaxFailures
  BY BoundsAssumption DEF Init
<1>5. TypeOK BY <1>1, <1>2, <1>3 DEF Init, TypeOK
<1>4. RoomInv BY DEF Init, RoomInv, IdleHandler, IdleCompleter, Completers
<1> QED BY <1>4, <1>5 DEF TypeInv

LEMMA CommandType ==
  ASSUME TypeInv, NEW u \in Users, NEW action \in Action, NEW c \in Commands \ {"revoke"},
         Command(c, u, action)
  PROVE  TypeInv'
<1>1. handler' \in HandlerRecord
  BY InitialTypes, ZenonT(60) DEF Command, HandlerRecord, HandlerPc, Commands, TypeInv, TypeOK
<1>2. handler'.pc = (IF c = "submit" THEN "control" ELSE c) /\ handler'.command = c
      /\ handler'.user = u
  BY DEF Command, IdleHandler
<1>3. TypeOK' BY <1>1 DEF TypeInv, TypeOK, Command, mapVars, otherVars, chatVars
<1>4. /\ UNCHANGED <<created, streams, stream, completer>>
      /\ c = "start" => created < MaxStreams
      /\ c = "older" /\ streams[u] # None => stream[streams[u]].pages < MaxPages
  BY DEF Command, mapVars, otherVars
<1>5. RoomInv' BY <1>2, <1>4 DEF TypeInv, RoomInv, Commands
<1> QED BY <1>3, <1>5 DEF TypeInv

LEMMA StartType ==
  ASSUME TypeInv, StartStream
  PROVE  TypeInv'
<1> USE DEF TypeInv, TypeOK, StartStream
<1>1. CASE NewStream
  <2> DEFINE x == created + 1
  <2>1. x \in Ids /\ handler.user \in Users /\ handler.action \in Action
    BY BoundsAssumption DEF RoomInv, Ids, HandlerRecord
  <2>2. [NoStream EXCEPT !.user = handler.user, !.action = handler.action] \in StreamRecord
    BY <2>1, InitialTypes, ZenonT(60) DEF StreamRecord
  <2>3. stream' \in [Ids -> StreamRecord] BY <1>1, <2>1, <2>2 DEF NewStream
  <2>4. run' \in [Ids -> RunRecord] BY <1>1, <2>1 DEF NewStream, RunRecord
  <2>5. handler' \in HandlerRecord BY <1>1, InitialTypes DEF NewStream, Started, HandlerRecord, HandlerPc
  <2>6. actions' \in SUBSET Actions BY <1>1, <2>1 DEF NewStream, Track, Action
  <2>7. created' \in 0..MaxStreams /\ streams' \in [Users -> Ids \cup {None}]
    BY <1>1, <2>1 DEF NewStream, Ids
  <2>8. TypeOK' BY <1>1, <2>3, <2>4, <2>5, <2>6, <2>7 DEF NewStream, chatVars
  <2>9. handler'.pc \in {"idle", "control"} /\ completer' = completer
    BY <1>1 DEF NewStream, Started, IdleHandler, HandlerRecord
  <2> QED BY <2>8, <2>9 DEF RoomInv
<1>2. CASE ReuseStream
  <2>1. handler' \in HandlerRecord /\ handler'.pc \in {"idle", "retag"}
    <3>1. handler' = IdleHandler \/ handler' = [handler EXCEPT !.pc = "retag"]
      BY <1>2 DEF ReuseStream
    <3> QED BY <3>1, InitialTypes, IdleFields, HandlerGoes DEF HandlerPc
  <2>2. actions' \in SUBSET Actions BY <1>2 DEF ReuseStream, Track, Action, HandlerRecord
  <2>3. TypeOK' BY <1>2, <2>1, <2>2 DEF ReuseStream, chatVars
  <2> QED BY <1>2, <2>1, <2>3 DEF RoomInv
<1>3. CASE RefuseStream
  <2>1. handler' \in HandlerRecord /\ handler'.pc \in {"idle", "control"}
    BY <1>3, InitialTypes DEF RefuseStream, Started, HandlerRecord, HandlerPc, IdleHandler
  <2>2. TypeOK' BY <1>3, <2>1 DEF RefuseStream, mapVars, chatVars
  <2> QED BY <1>3, <2>1, <2>2 DEF RoomInv
<1> QED BY <1>1, <1>2, <1>3

LEMMA RetagType ==
  ASSUME TypeInv, Retag
  PROVE  TypeInv'
<1> USE DEF TypeInv, TypeOK, Retag, otherVars, chatVars
<1>1. /\ stream' \in [Ids -> StreamRecord]
      /\ \A x \in Ids: stream'[x].pages = stream[x].pages
  BY ZenonT(60) DEF StreamRecord, HandlerRecord
<1>2. handler' \in HandlerRecord /\ handler'.pc = "control" BY DEF HandlerRecord, HandlerPc
<1>3. TypeOK' BY <1>1, <1>2
<1> QED BY <1>2, <1>3 DEF RoomInv

LEMMA ControllerType ==
  ASSUME TypeInv, ControllerReturns
  PROVE  TypeInv'
<1> USE DEF TypeInv, TypeOK, ControllerReturns, mapVars, otherVars, chatVars
<1>1. handler' \in HandlerRecord /\ handler'.pc \in {"idle", "complete"}
  BY InitialTypes, IdleFields, HandlerGoes DEF HandlerPc
<1>2. [IdleCompleter EXCEPT !.pc = "take", !.action = handler.action] \in CompleterRecord
  BY InitialTypes DEF CompleterRecord, HandlerRecord
<1>3. completer' \in [Completers -> CompleterRecord] BY <1>2
<1>4. TypeOK' BY <1>1, <1>3
<1>5. \A g \in Completers: completer'[g].pc = "call" => completer'[g] = completer[g]
  BY DEF IdleCompleter
<1> QED BY <1>1, <1>4, <1>5 DEF RoomInv

LEMMA FindType ==
  ASSUME TypeInv, FindStream
  PROVE  TypeInv'
<1> USE DEF TypeInv, TypeOK, FindStream, otherVars, chatVars
<1> DEFINE x == streams[handler.user]
<1>1. handler.user \in Users BY DEF HandlerRecord
<1>2. streams' \in [Users -> Ids \cup {None}] BY <1>1
<1>3. CASE x = None
  <2>1. handler' = IdleHandler /\ UNCHANGED <<mu, streams>> BY <1>3
  <2>2. TypeOK' BY <1>2, <2>1, InitialTypes
  <2> QED BY <2>1, <2>2 DEF RoomInv, IdleHandler
<1>4. CASE x # None
  <2>1. handler' = [handler EXCEPT !.pc = "lock", !.stream = x] /\ mu' = "handler"
    BY <1>4
  <2>2. handler' \in HandlerRecord /\ handler'.pc = "lock" /\ handler'.stream = x
        /\ handler'.command = handler.command
    BY <1>1, <2>1 DEF HandlerRecord, HandlerPc
  <2>3. TypeOK' BY <1>2, <2>1, <2>2
  <2> QED BY <1>4, <2>1, <2>2, <2>3 DEF RoomInv
<1> QED BY <1>3, <1>4

LEMMA StopType ==
  ASSUME TypeInv, StopStream
  PROVE  TypeInv'
<1> USE DEF TypeInv, TypeOK, StopStream, otherVars, chatVars
<1> DEFINE x == handler.stream
<1>0. stream[x] \in StreamRecord /\ x \in Ids
  BY DEF RoomInv, HandlerRecord
<1>1. stream' \in [Ids -> StreamRecord]
  <2>1. [Stopped(stream[x]) EXCEPT !.mu = "handler"] \in StreamRecord
    BY <1>0 DEF StreamRecord, Stopped
  <2> QED BY <2>1
<1>2. handler' \in HandlerRecord /\ handler'.pc = "call" /\ handler'.stream = handler.stream
  BY DEF HandlerRecord, HandlerPc
<1>3. TypeOK' BY <1>1, <1>2
<1> QED BY <1>2, <1>3 DEF RoomInv

LEMMA OlderType ==
  ASSUME TypeInv, ShowOlder
  PROVE  TypeInv'
<1> USE DEF TypeInv, TypeOK, ShowOlder, otherVars, chatVars
<1> DEFINE x == handler.stream
<1>1. x \in Ids /\ stream[x].pages + 1 \in Pages
  BY BoundsAssumption DEF RoomInv, HandlerRecord, StreamRecord, Pages
<1>2. stream' \in [Ids -> StreamRecord] BY <1>1, InitialTypes, ZenonT(60) DEF StreamRecord
<1>3. TypeOK' BY <1>2, InitialTypes
<1> QED BY <1>3 DEF RoomInv, IdleHandler
-----------------------------------------------------------------------------
(* What the calls to Telegram do to the message of a stream.               *)

\* Only the message of x changes, and to a given kind when no call fails.
Ends(x, kind) ==
    /\ chat' \in [Ids -> Message] /\ UNCHANGED stray
    /\ failures' \in 0..MaxFailures /\ failures' >= failures
    /\ \A y \in Ids \ {x}: chat'[y] = chat[y]
    /\ chat'[x] = chat[x] \/ chat'[x].kind = kind
    /\ failures' = 0 => failures = 0 /\ (chat'[x].kind = kind \/ (kind = "deleted" /\ ~stream[x].known))

LEMMA PageType == ASSUME TypeInv, NEW x \in Ids PROVE CurrentPage(x) \in Page
BY BoundsAssumption DEF TypeInv, TypeOK, CurrentPage, Page, StreamRecord, Pages

LEMMA ShowingType ==
  ASSUME TypeInv, NEW x \in Ids, NEW kind \in {"none", "live", "final", "deleted"},
         NEW page \in Page
  PROVE  LET c == Showing(x, kind, page)
         IN  /\ c \in [Ids -> Message] /\ c[x].kind = kind
             /\ \A y \in Ids \ {x}: c[y] = chat[y]
BY DEF TypeInv, TypeOK, Showing, Message

LEMMA FinalizeEnds ==
  ASSUME TypeInv, NEW x \in Ids, Finalize(x)
  PROVE  Ends(x, "final")
<1> DEFINE final == Showing(x, "final", CurrentPage(x))
<1>1. /\ final \in [Ids -> Message] /\ final[x].kind = "final"
      /\ \A y \in Ids \ {x}: final[y] = chat[y]
  BY PageType, ShowingType
<1>2. failures \in 0..MaxFailures /\ chat \in [Ids -> Message] BY DEF TypeInv, TypeOK
<1>3. \/ chat' = final /\ UNCHANGED <<stray, failures>>
      \/ /\ failures < MaxFailures /\ failures' = failures + 1
         /\ chat' \in {chat, final} /\ UNCHANGED stray
  BY DEF Finalize, Succeeds, Fails, AnswerLost, NextFailure
<1> HIDE DEF final
<1> QED BY <1>1, <1>2, <1>3, BoundsAssumption DEF Ends

LEMMA DeleteEnds ==
  ASSUME TypeInv, NEW x \in Ids, DeleteMessage(x)
  PROVE  Ends(x, "deleted")
<1> DEFINE gone == Showing(x, "deleted", NoPage)
<1>1. /\ gone \in [Ids -> Message] /\ gone[x].kind = "deleted"
      /\ \A y \in Ids \ {x}: gone[y] = chat[y]
  BY InitialTypes, ShowingType
<1>2. failures \in 0..MaxFailures /\ chat \in [Ids -> Message] BY DEF TypeInv, TypeOK
<1>3. \/ UNCHANGED <<chat, stray, failures>> /\ ~stream[x].known
      \/ chat' = gone /\ UNCHANGED <<stray, failures>>
      \/ /\ failures < MaxFailures /\ failures' = failures + 1
         /\ chat' \in {chat, gone} /\ UNCHANGED stray
  BY DEF DeleteMessage, Succeeds, Fails, AnswerLost, NextFailure, chatVars
<1> HIDE DEF gone
<1> QED BY <1>1, <1>2, <1>3, BoundsAssumption DEF Ends

LEMMA EndMessageType ==
  ASSUME TypeInv, EndMessage
  PROVE  TypeInv'
<1> DEFINE x == handler.stream
<1>0. x \in Ids BY DEF TypeInv, TypeOK, RoomInv, HandlerRecord, EndMessage
<1>1. Ends(x, "final") \/ Ends(x, "deleted")
  BY <1>0, FinalizeEnds, DeleteEnds DEF EndMessage
<1>2. chat' \in [Ids -> Message] /\ UNCHANGED stray /\ failures' \in 0..MaxFailures
  BY <1>1 DEF Ends
<1>3. stream' \in [Ids -> StreamRecord] BY <1>0, LockSet DEF TypeInv, TypeOK, EndMessage
<1>4. TypeOK'
  BY <1>2, <1>3, InitialTypes DEF TypeInv, TypeOK, EndMessage, mapVars, otherVars
<1> QED BY <1>4, IdleFields DEF TypeInv, RoomInv, EndMessage, mapVars, otherVars

LEMMA CompleterType ==
  ASSUME TypeInv, NEW g \in Completers, CompleterStep(g)
  PROVE  TypeInv'
<1> USE DEF TypeInv, TypeOK, mapVars, otherVars
<1>0. completer[g] \in CompleterRecord OBVIOUS
<1>1. CASE UntrackAction(g)
  <2>1. ({streams[u]: u \in Users} \ {None}) \in SUBSET Ids OBVIOUS
  <2>2. completer' \in [Completers -> CompleterRecord] /\ completer'[g].pc = "match"
    BY <1>0, <1>1, <2>1 DEF UntrackAction, CompleterRecord
  <2>3. TypeOK' BY <1>1, <2>2 DEF UntrackAction, chatVars, Completers
  <2>4. \A h \in Completers \ {g}: completer'[h] = completer[h] BY <1>1 DEF UntrackAction
  <2> QED BY <1>1, <2>2, <2>3, <2>4 DEF UntrackAction, RoomInv
<1>2. CASE MatchStream(g)
  <2>1. /\ completer' \in [Completers -> CompleterRecord] /\ completer'[g].pc = "match"
        /\ streams' \in [Users -> Ids \cup {None}]
        /\ \A u \in Users: streams'[u] \in {streams[u], None}
    <3>1. PICK x \in completer[g].todo:
             LET matches == stream[x].action = completer[g].action /\ ~stream[x].stopped
             IN  /\ completer' = [completer EXCEPT ![g].todo = @ \ {x},
                                 ![g].list = IF matches THEN @ \cup {x} ELSE @]
                 /\ streams' = IF matches THEN [streams EXCEPT ![stream[x].user] = None] ELSE streams
      BY <1>2 DEF MatchStream
    <3>2. x \in Ids BY <1>0 DEF CompleterRecord
    <3>3. completer' \in [Completers -> CompleterRecord] /\ completer'[g].pc = "match"
      BY <1>0, <1>2, <3>1, <3>2 DEF MatchStream, CompleterRecord
    <3>4. /\ streams' \in [Users -> Ids \cup {None}]
          /\ \A u \in Users: streams'[u] \in {streams[u], None}
      BY <3>1
    <3> QED BY <3>3, <3>4
  <2>2. TypeOK' BY <1>2, <2>1 DEF MatchStream, chatVars
  <2>3. \A h \in Completers \ {g}: completer'[h] = completer[h] BY <1>2 DEF MatchStream
  <2> QED BY <1>2, <2>1, <2>2, <2>3 DEF MatchStream, RoomInv
<1>3. CASE AllMatched(g)
  <2>1. completer' \in [Completers -> CompleterRecord] /\ completer'[g].pc = "next"
    BY <1>0, <1>3 DEF AllMatched, CompleterRecord
  <2>2. TypeOK' BY <1>3, <2>1 DEF AllMatched, chatVars
  <2>3. \A h \in Completers \ {g}: completer'[h] = completer[h] BY <1>3 DEF AllMatched
  <2> QED BY <1>3, <2>1, <2>2, <2>3 DEF AllMatched, RoomInv
<1>4. CASE EndStream(g)
  <2>1. PICK x \in completer[g].list:
           /\ stream' = [stream EXCEPT ![x] = [Stopped(stream[x]) EXCEPT !.mu = g]]
           /\ completer' = [completer EXCEPT ![g].pc = "call", ![g].stream = x]
    BY <1>4 DEF EndStream
  <2>2. x \in Ids /\ x # None BY <1>0, NoneIsNoId DEF CompleterRecord
  <2>3. completer' \in [Completers -> CompleterRecord] /\ completer'[g].stream = x
    BY <1>0, <2>1, <2>2 DEF CompleterRecord
  <2>4. stream[x] \in StreamRecord /\ g \in {"handler", "dispatcher"} BY <2>2 DEF Completers
  <2>5. [Stopped(stream[x]) EXCEPT !.mu = g] \in StreamRecord
        /\ [Stopped(stream[x]) EXCEPT !.mu = g].pages = stream[x].pages
    BY <2>4 DEF StreamRecord, Stopped
  <2>6. stream' \in [Ids -> StreamRecord] /\ \A y \in Ids: stream'[y].pages = stream[y].pages
    BY <2>1, <2>2, <2>5
  <2>7. TypeOK' BY <1>4, <2>3, <2>6 DEF EndStream, chatVars
  <2>8. \A h \in Completers \ {g}: completer'[h] = completer[h] BY <2>1
  <2>9. handler.pc = "lock" => handler.stream \in Ids BY DEF RoomInv, HandlerRecord
  <2> QED BY <1>4, <2>2, <2>3, <2>6, <2>7, <2>8, <2>9 DEF EndStream, RoomInv, HandlerRecord
<1>5. CASE FinalLine(g)
  <2> DEFINE x == completer[g].stream
  <2>1. x \in Ids BY <1>0, <1>5 DEF RoomInv, FinalLine, CompleterRecord
  <2>2. Ends(x, "final") BY <1>5, <2>1, FinalizeEnds DEF FinalLine
  <2>3. chat' \in [Ids -> Message] /\ UNCHANGED stray /\ failures' \in 0..MaxFailures
    BY <2>2 DEF Ends
  <2>4. stream' \in [Ids -> StreamRecord] /\ \A y \in Ids: stream'[y].pages = stream[y].pages
    <3>1. stream' = [stream EXCEPT ![x].mu = Free] BY <1>5 DEF FinalLine
    <3> HIDE DEF x
    <3> QED BY <2>1, <3>1, LockSet
  <2>5. completer' \in [Completers -> CompleterRecord] /\ completer'[g].pc = "next"
    BY <1>0, <1>5 DEF FinalLine, CompleterRecord
  <2>6. TypeOK' BY <1>5, <2>3, <2>4, <2>5 DEF FinalLine
  <2>7. \A h \in Completers \ {g}: completer'[h] = completer[h] BY <1>5 DEF FinalLine
  <2>8. handler.pc = "lock" => handler.stream \in Ids BY DEF RoomInv, HandlerRecord
  <2> QED BY <1>5, <2>4, <2>5, <2>6, <2>7, <2>8 DEF FinalLine, RoomInv, HandlerRecord
<1>6. CASE ActionCompleted(g)
  <2>1. completer' \in [Completers -> CompleterRecord] /\ completer'[g].pc = "idle"
        /\ handler' \in HandlerRecord
    BY <1>6, InitialTypes, IdleFields DEF ActionCompleted
  <2>2. TypeOK' BY <1>6, <2>1 DEF ActionCompleted, chatVars
  <2>3. \A h \in Completers \ {g}: completer'[h] = completer[h] BY <1>6 DEF ActionCompleted
  <2>4. handler' = handler \/ handler'.pc = "idle" BY <1>6, IdleFields DEF ActionCompleted
  <2> QED BY <1>6, <2>1, <2>2, <2>3, <2>4 DEF ActionCompleted, RoomInv
<1> QED BY <1>1, <1>2, <1>3, <1>4, <1>5, <1>6 DEF CompleterStep

\* A step of run: where it goes and what it leaves of the other streams.
RunOnly(x) ==
    /\ run' \in [Ids -> RunRecord] /\ \A y \in Ids \ {x}: run'[y] = run[y]
    /\ UNCHANGED <<handler, completer, otherVars, mu, actions>>

LEMMA RunGoes ==
  ASSUME TypeInv, NEW x \in Ids, NEW pc \in {"check", "lock", "select", "exit", "cleanup", "done"},
         RunGoto(x, pc)
  PROVE  /\ run' \in [Ids -> RunRecord] /\ run'[x].pc = pc
         /\ \A y \in Ids \ {x}: run'[y] = run[y]
BY InitialTypes DEF TypeInv, TypeOK, RunGoto, RunRecord

\* The room a handler has found depends on nothing a stream does.
LEMMA RoomKept ==
  ASSUME RoomInv, TypeOK, UNCHANGED <<handler, completer, created>>,
         \A u \in Users: streams'[u] \in {streams[u], None},
         \A y \in Ids: stream'[y].pages = stream[y].pages
  PROVE  RoomInv'
BY DEF RoomInv, TypeOK, HandlerRecord

LEMMA RefreshType ==
  ASSUME TypeInv, NEW x \in Ids, EditReturns(x) \/ SendReturns(x)
  PROVE  TypeInv'
<1>1. stream[x] \in StreamRecord /\ run[x].page \in Page
  BY DEF TypeInv, TypeOK, RunRecord
<1>2. /\ stream' \in [Ids -> StreamRecord]
      /\ \A y \in Ids: stream'[y].pages = stream[y].pages
  <2> DEFINE edited == [stream[x] EXCEPT !.mu = Free, !.current = run[x].page]
             sent   == [stream[x] EXCEPT !.mu = Free, !.current = run[x].page, !.known = TRUE]
  <2>1. \/ stream' = [stream EXCEPT ![x].mu = Free]
        \/ stream' = [stream EXCEPT ![x] = edited]
        \/ stream' = [stream EXCEPT ![x] = sent]
    BY DEF EditReturns, SendReturns
  <2>2. /\ edited \in StreamRecord /\ edited.pages = stream[x].pages
        /\ sent \in StreamRecord /\ sent.pages = stream[x].pages
    BY <1>1 DEF StreamRecord
  <2> HIDE DEF edited, sent
  <2>3. CASE stream' = [stream EXCEPT ![x].mu = Free]
    BY <2>3, LockSet DEF TypeInv, TypeOK
  <2> QED BY <1>1, <2>1, <2>2, <2>3 DEF TypeInv, TypeOK
<1>3. chat' \in [Ids -> Message] /\ stray' \in [Ids -> BOOLEAN] /\ failures' \in 0..MaxFailures
  <2> DEFINE live == Showing(x, "live", run[x].page)
  <2>1. live \in [Ids -> Message] BY <1>1, ShowingType
  <2>2. chat' \in {chat, live} /\ stray' \in {stray, [stray EXCEPT ![x] = TRUE]}
        /\ failures' \in {failures, failures + 1} /\ (failures' = failures \/ failures < MaxFailures)
    BY DEF EditReturns, SendReturns, Succeeds, RefreshFails, NextFailure
  <2> HIDE DEF live
  <2>3. failures \in 0..MaxFailures /\ chat \in [Ids -> Message] /\ stray \in [Ids -> BOOLEAN]
    BY DEF TypeInv, TypeOK
  <2>4. failures' \in 0..MaxFailures BY <2>2, <2>3, BoundsAssumption
  <2>5. chat' \in [Ids -> Message] /\ stray' \in [Ids -> BOOLEAN] BY <2>1, <2>2, <2>3
  <2> QED BY <2>4, <2>5
<1>4. RunGoto(x, "select") /\ UNCHANGED <<mapVars, handler, completer, otherVars>>
  BY DEF EditReturns, SendReturns
<1>5. run' \in [Ids -> RunRecord] BY <1>4, RunGoes
<1>6. TypeOK' BY <1>2, <1>3, <1>4, <1>5 DEF TypeInv, TypeOK, mapVars, otherVars
<1> QED BY <1>2, <1>4, <1>6, RoomKept DEF TypeInv, mapVars, otherVars, TypeOK

LEMMA RunType ==
  ASSUME TypeInv, NEW x \in Ids, RunStep(x)
  PROVE  TypeInv'
<1>1. CASE CheckAccess(x) \/ SeeCancel(x) \/ Tick(x)
  <2>1. OnlyRun /\ run' \in [Ids -> RunRecord]
    BY <1>1, RunGoes DEF CheckAccess, SeeCancel, Tick
  <2>2. TypeOK' BY <2>1 DEF TypeInv, TypeOK, OnlyRun, mapVars, otherVars, chatVars
  <2> QED BY <2>1, <2>2, RoomKept DEF TypeInv, TypeOK, OnlyRun, mapVars, otherVars
<1>2. CASE ReadLogs(x)
  <2>1. UNCHANGED <<mapVars, handler, completer, otherVars, chatVars>> BY <1>2 DEF ReadLogs
  <2>2. \/ RunGoto(x, "select") /\ UNCHANGED stream
        \/ /\ run' = [run EXCEPT ![x] = [pc |-> "call", page |-> CurrentPage(x)]]
           /\ stream' = [stream EXCEPT ![x].mu = "run"]
    BY <1>2 DEF ReadLogs
  <2>3. run' \in [Ids -> RunRecord]
    BY <2>2, RunGoes, PageType DEF TypeInv, TypeOK, RunRecord
  <2>4. /\ stream' \in [Ids -> StreamRecord]
        /\ \A y \in Ids: stream'[y].pages = stream[y].pages
    <3>1. CASE stream' = [stream EXCEPT ![x].mu = "run"]
      BY <3>1, LockSet DEF TypeInv, TypeOK
    <3>2. CASE UNCHANGED stream BY <3>2 DEF TypeInv, TypeOK
    <3> QED BY <2>2, <3>1, <3>2
  <2>5. TypeOK' BY <2>1, <2>3, <2>4 DEF TypeInv, TypeOK, mapVars, otherVars, chatVars
  <2> QED BY <2>1, <2>4, <2>5, RoomKept DEF TypeInv, TypeOK, mapVars, otherVars
<1>3. CASE EditReturns(x) \/ SendReturns(x) BY <1>3, RefreshType
<1>4. CASE SeeUpdate(x)
  <2>1. run' \in [Ids -> RunRecord] BY <1>4, RunGoes DEF SeeUpdate
  <2>2. [stream[x] EXCEPT !.updates = FALSE] \in StreamRecord
    BY DEF TypeInv, TypeOK, StreamRecord
  <2>3. /\ stream' \in [Ids -> StreamRecord]
        /\ \A y \in Ids: stream'[y].pages = stream[y].pages
    BY <1>4, <2>2 DEF SeeUpdate, TypeInv, TypeOK
  <2>4. TypeOK'
    BY <1>4, <2>1, <2>3 DEF SeeUpdate, TypeInv, TypeOK, mapVars, otherVars, chatVars
  <2> QED BY <1>4, <2>3, <2>4, RoomKept DEF SeeUpdate, TypeInv, TypeOK, mapVars, otherVars
<1>5. CASE Leave(x)
  <2>1. run' \in [Ids -> RunRecord] BY <1>5, RunGoes DEF Leave
  <2>2. /\ streams' \in [Users -> Ids \cup {None}]
        /\ \A u \in Users: streams'[u] \in {streams[u], None}
    BY <1>5 DEF Leave, TypeInv, TypeOK
  <2>3. TypeOK' BY <1>5, <2>1, <2>2 DEF Leave, TypeInv, TypeOK, otherVars, chatVars
  <2> QED BY <1>5, <2>2, <2>3, RoomKept DEF Leave, TypeInv, otherVars
<1>6. CASE CleanupAfterShutdown(x)
  <2>1. run' \in [Ids -> RunRecord] BY <1>6, RunGoes DEF CleanupAfterShutdown
  <2>2. chat' \in [Ids -> Message] /\ UNCHANGED stray /\ failures' \in 0..MaxFailures
    BY <1>6, DeleteEnds DEF CleanupAfterShutdown, Ends
  <2>3. TypeOK'
    BY <1>6, <2>1, <2>2 DEF CleanupAfterShutdown, TypeInv, TypeOK, mapVars, otherVars
  <2> QED BY <1>6, <2>3, RoomKept DEF CleanupAfterShutdown, TypeInv, TypeOK, mapVars, otherVars
<1> QED BY <1>1, <1>2, <1>3, <1>4, <1>5, <1>6 DEF RunStep

LEMMA EnvironmentType ==
  ASSUME TypeInv,
         \/ \E u \in Users: Revoke(u) \/ Approve(u)
         \/ HandleEvent \/ AddLog \/ BeginShutdown \/ Notify \/ Shutdown
  PROVE  TypeInv'
<1> USE DEF TypeInv, TypeOK, mapVars, otherVars, chatVars
<1>1. ASSUME NEW u \in Users, Revoke(u) PROVE TypeInv'
  <2>1. handler' \in HandlerRecord /\ handler'.pc = "revoke" /\ handler'.command = "revoke"
    BY <1>1, InitialTypes DEF Revoke, HandlerRecord, HandlerPc, Commands
  <2>2. TypeOK' BY <1>1, <2>1 DEF Revoke
  <2> QED BY <1>1, <2>1, <2>2 DEF Revoke, RoomInv
<1>2. ASSUME NEW u \in Users, Approve(u) PROVE TypeInv' BY <1>2, RoomKept DEF Approve
<1>3. CASE HandleEvent
  <2>1. /\ completer' \in [Completers -> CompleterRecord]
        /\ \A g \in Completers: completer'[g].pc = "call" => completer'[g] = completer[g]
    BY <1>3, InitialTypes DEF HandleEvent, CompleterRecord, Action
  <2> QED BY <1>3, <2>1 DEF HandleEvent, RoomInv
<1>4. CASE AddLog BY <1>4, RoomKept, BoundsAssumption DEF AddLog
<1>5. CASE BeginShutdown BY <1>5, RoomKept DEF BeginShutdown
<1>6. CASE Notify
  <2>1. \A x \in Ids: stream'[x] \in StreamRecord /\ stream'[x].pages = stream[x].pages
    BY <1>6 DEF Notify, StreamRecord
  <2>2. stream' \in [Ids -> StreamRecord] BY <1>6, <2>1 DEF Notify
  <2>3. TypeOK' BY <1>6, <2>2 DEF Notify
  <2> QED BY <1>6, <2>1, <2>3, RoomKept DEF Notify
<1>7. CASE Shutdown
  <2>1. \A x \in Ids: stream'[x] \in StreamRecord /\ stream'[x].pages = stream[x].pages
    <3> SUFFICES ASSUME NEW x \in Ids
                 PROVE  stream'[x] \in StreamRecord /\ stream'[x].pages = stream[x].pages
      OBVIOUS
    <3> DEFINE s == [stream[x] EXCEPT !.cancelled = TRUE, !.deleteOnExit = TRUE]
    <3>1. s \in StreamRecord /\ s.pages = stream[x].pages BY DEF StreamRecord
    <3>2. stream'[x] = IF streams[stream[x].user] = x THEN s ELSE stream[x]
      BY <1>7 DEF Shutdown
    <3> HIDE DEF s
    <3> QED BY <3>1, <3>2
  <2>2. stream' \in [Ids -> StreamRecord] BY <1>7, <2>1 DEF Shutdown
  <2>3. TypeOK' BY <1>7, <2>2 DEF Shutdown
  <2> QED BY <1>7, <2>1, <2>3, RoomKept DEF Shutdown
<1> QED BY <1>1, <1>2, <1>3, <1>4, <1>5, <1>6, <1>7

LEMMA TypeInvNext == TypeInv /\ [Next]_vars => TypeInv'
<1> SUFFICES ASSUME TypeInv, [Next]_vars PROVE TypeInv' OBVIOUS
<1>1. CASE Calls
  BY <1>1, CommandType, EnvironmentType DEF Calls
<1>2. CASE HandlerStep
  BY <1>2, StartType, RetagType, ControllerType, FindType, StopType, OlderType, EndMessageType
     DEF HandlerStep
<1>3. CASE Notify \/ Shutdown BY <1>3, EnvironmentType
<1>4. CASE \E g \in Completers: CompleterStep(g) BY <1>4, CompleterType
<1>5. CASE \E x \in Ids: RunStep(x) BY <1>5, RunType
<1>6. CASE UNCHANGED vars
  BY <1>6, RoomKept DEF vars, mapVars, otherVars, chatVars, TypeInv, TypeOK
<1> QED BY <1>1, <1>2, <1>3, <1>4, <1>5, <1>6 DEF Next

\* The variables have their types; a handler whose stream or page had room when
\* its command came still has it when it makes use of it.
THEOREM LogStreamsTypes == Spec => []TypeOK
<1>1. Spec => []TypeInv BY TypeInvInit, TypeInvNext, PTL DEF Spec
<1> QED BY <1>1, PTL DEF TypeInv
-----------------------------------------------------------------------------
(* What a step leaves alone.                                               *)

\* The flags of a stream that its takers look at, and its user.
SameFlags(y) ==
    /\ stream'[y].user = stream[y].user
    /\ stream'[y].stopped = stream[y].stopped /\ stream'[y].cancelled = stream[y].cancelled
    /\ stream'[y].deleteOnExit = stream[y].deleteOnExit

\* Everything about a stream that the invariant looks at.
Quiet(y) ==
    /\ SameFlags(y) /\ stream'[y].known = stream[y].known /\ stream'[y].mu = stream[y].mu
    /\ run'[y].pc = run[y].pc /\ chat'[y].kind = chat[y].kind

\* What the takers of a stream rely on.
Kept(y) ==
    /\ SameFlags(y)
    /\ stream[y].mu \in {"handler", "dispatcher"}
         => stream'[y].mu = stream[y].mu /\ chat'[y].kind = chat[y].kind
    /\ y > created => run'[y].pc = "none" /\ chat'[y].kind = "none"

FailuresGrow == failures' \in Nat /\ failures' >= failures

Tables == <<approved, streams, created, handler, completer>>

LEMMA ZeroNoId == ASSUME NEW x \in Ids PROVE x # None /\ x \in Nat
BY DEF Ids, None

LEMMA HandlerStreamType ==
  ASSUME TypeInv
  PROVE  /\ handler.user \in Users
         /\ handler.pc \in {"lock", "call"} => handler.stream \in Ids
BY DEF TypeInv, TypeOK, RoomInv, HandlerRecord

LEMMA CompleterStreamType ==
  ASSUME TypeInv, NEW g \in Completers
  PROVE  /\ completer[g].list \in SUBSET Ids /\ completer[g].todo \in SUBSET Ids
         /\ completer[g].pc = "call" => completer[g].stream \in Ids
BY DEF TypeInv, TypeOK, RoomInv, CompleterRecord

\* The handler, the completers and the map are not disturbed.
LEMMA FrameTakers ==
  ASSUME TypeInv, StreamInv, UNCHANGED <<Tables, mu>>, \A y \in Ids: Kept(y)
  PROVE  /\ MapInv' /\ FreshInv' /\ HandlerInv' /\ RevokedInv'
         /\ \A g \in Completers: CompleterInv(g)'
<1> USE DEF Tables
<1>1. MapInv'
  BY DEF StreamInv, MapInv, Kept, SameFlags, TypeInv, TypeOK
<1>2. FreshInv' BY DEF StreamInv, FreshInv, Kept
<1>3. HandlerInv'
  <2>1. HandlerInv BY DEF StreamInv
  <2>2. handler.pc \in {"lock", "call"} => Kept(handler.stream) BY HandlerStreamType
  <2> QED BY <2>1, <2>2 DEF HandlerInv, Kept, SameFlags
<1>4. RevokedInv' BY DEF StreamInv, RevokedInv
<1>5. ASSUME NEW g \in Completers PROVE CompleterInv(g)'
  <2>1. CompleterInv(g) BY DEF StreamInv
  <2>2. \A x \in completer[g].list \cup completer[g].todo: Kept(x) BY CompleterStreamType
  <2>3. completer[g].pc = "call" => Kept(completer[g].stream) BY CompleterStreamType
  <2>4. g \in {"handler", "dispatcher"} BY DEF Completers
  <2> QED BY <2>1, <2>2, <2>3, <2>4 DEF CompleterInv, Kept, SameFlags, InMap, CompleterEnds
<1> QED BY <1>1, <1>2, <1>3, <1>4, <1>5

LEMMA QuietKept ==
  ASSUME TypeInv, StreamInv, UNCHANGED Tables, FailuresGrow, NEW y \in Ids, Quiet(y)
  PROVE  Kept(y) /\ RunInv(y)' /\ ChatInv(y)' /\ Found(y)'
<1> USE DEF Quiet, SameFlags
<1>1. Kept(y) BY DEF Kept, StreamInv, FreshInv
<1>2. RunInv(y)' BY DEF StreamInv, RunInv, Tables
<1>3. ChatInv(y)'
  BY DEF StreamInv, ChatInv, FailuresGrow, Tables, HandlerEnds, CompleterEnds, TypeInv, TypeOK
<1>4. Found(y)' BY DEF StreamInv, Found, Tables, InMap, Completing
<1> QED BY <1>1, <1>2, <1>3, <1>4

LEMMA Frame ==
  ASSUME TypeInv, StreamInv, UNCHANGED <<Tables, mu>>, FailuresGrow,
         NEW x \in Ids, Kept(x), RunInv(x)', ChatInv(x)', Found(x)',
         \A y \in Ids \ {x}: Quiet(y)
  PROVE  StreamInv'
<1>1. \A y \in Ids: Kept(y) /\ RunInv(y)' /\ ChatInv(y)' /\ Found(y)' BY QuietKept
<1> QED BY <1>1, FrameTakers DEF StreamInv

LEMMA AllQuiet ==
  ASSUME TypeInv, StreamInv, UNCHANGED <<Tables, mu>>, FailuresGrow, \A y \in Ids: Quiet(y)
  PROVE  StreamInv'
<1>1. \A y \in Ids: Kept(y) /\ RunInv(y)' /\ ChatInv(y)' /\ Found(y)' BY QuietKept
<1> QED BY <1>1, FrameTakers DEF StreamInv

LEMMA SameFailures == ASSUME TypeInv, UNCHANGED failures PROVE FailuresGrow
BY BoundsAssumption DEF FailuresGrow, TypeInv, TypeOK

-----------------------------------------------------------------------------
(* The invariant holds at the start, and run keeps it.                     *)

LEMMA StreamInvInit == Init => StreamInv
<1> SUFFICES ASSUME Init PROVE StreamInv OBVIOUS
<1>1. MapInv /\ FreshInv /\ RevokedInv
  BY DEF Init, MapInv, FreshInv, RevokedInv
<1>2. HandlerInv
  BY IdleFields, UsersAssumption DEF Init, HandlerInv, Completers
<1>3. \A g \in Completers: CompleterInv(g)
  BY IdleFields DEF Init, CompleterInv
<1>4. \A x \in Ids: RunInv(x) /\ ChatInv(x) /\ Found(x)
  <2>1. \A x \in Ids: ~(x <= 0) BY BoundsAssumption DEF Ids
  <2> QED BY <2>1 DEF Init, RunInv, ChatInv, Found, NoStream
<1> QED BY <1>1, <1>2, <1>3, <1>4 DEF StreamInv

\* The steps of run that only move it.
LEMMA MoveKeeps ==
  ASSUME TypeInv, StreamInv, NEW x \in Ids, CheckAccess(x) \/ SeeCancel(x) \/ Tick(x) \/ SeeUpdate(x)
  PROVE  StreamInv'
<1>1. /\ UNCHANGED <<Tables, mu, chat, failures>> /\ run[x].pc \in {"check", "select"}
      /\ \E pc \in {"check", "lock", "select", "exit"}:
           RunGoto(x, pc) /\ (pc = "exit" => stream[x].cancelled)
  BY DEF CheckAccess, SeeCancel, Tick, SeeUpdate, OnlyRun, mapVars, otherVars, chatVars, Tables
<1>2. /\ run'[x].pc \in {"check", "lock", "select", "exit"}
      /\ run'[x].pc = "exit" => stream[x].cancelled
      /\ \A y \in Ids \ {x}: run'[y] = run[y]
  BY <1>1, RunGoes
<1>3. \A y \in Ids: SameFlags(y) /\ stream'[y].known = stream[y].known /\ stream'[y].mu = stream[y].mu
  BY DEF CheckAccess, SeeCancel, Tick, SeeUpdate, OnlyRun, SameFlags, TypeInv, TypeOK, StreamRecord
<1>4. \A y \in Ids \ {x}: Quiet(y) BY <1>1, <1>2, <1>3 DEF Quiet
<1>5. x <= created BY <1>1, ZeroNoId DEF StreamInv, FreshInv, TypeInv, TypeOK
<1>6. Kept(x) BY <1>1, <1>3, <1>5, ZeroNoId DEF Kept, TypeInv, TypeOK
<1>7. RunInv(x)' BY <1>2, <1>3 DEF StreamInv, RunInv, SameFlags
<1>8. ChatInv(x)'
  BY <1>1, <1>2, <1>3 DEF StreamInv, ChatInv, SameFlags, Tables, HandlerEnds, CompleterEnds
<1>9. Found(x)'
  BY <1>1, <1>2, <1>3 DEF StreamInv, Found, SameFlags, Tables, InMap, Completing
<1> QED BY <1>1, <1>4, <1>6, <1>7, <1>8, <1>9, Frame, SameFailures

\* refresh takes the lock of a stream that is neither stopped nor cancelled.
LEMMA ReadKeeps ==
  ASSUME TypeInv, StreamInv, NEW x \in Ids, ReadLogs(x)
  PROVE  StreamInv'
<1>1. UNCHANGED <<Tables, mu, chat, failures>> /\ run[x].pc = "lock" /\ stream[x].mu = Free
  BY DEF ReadLogs, mapVars, otherVars, chatVars, Tables
<1>2. \/ RunGoto(x, "select") /\ UNCHANGED stream
      \/ /\ run' = [run EXCEPT ![x] = [pc |-> "call", page |-> CurrentPage(x)]]
         /\ stream' = [stream EXCEPT ![x].mu = "run"]
         /\ ~stream[x].stopped
  BY DEF ReadLogs
<1>3. /\ \A y \in Ids \ {x}: run'[y] = run[y]
      /\ \/ run'[x].pc = "select"
         \/ run'[x].pc = "call" /\ stream'[x].mu = "run" /\ ~stream[x].stopped
  <2>1. CASE RunGoto(x, "select") BY <2>1, RunGoes
  <2>2. CASE stream' = [stream EXCEPT ![x].mu = "run"]
    BY <1>2, <2>1, <2>2, LockSet DEF TypeInv, TypeOK
  <2> QED BY <1>2, <2>1, <2>2
<1>4. \A y \in Ids: /\ SameFlags(y) /\ stream'[y].known = stream[y].known
                    /\ y # x => stream'[y].mu = stream[y].mu
  BY <1>2 DEF SameFlags, TypeInv, TypeOK, StreamRecord
<1>5. \A y \in Ids \ {x}: Quiet(y) BY <1>1, <1>3, <1>4 DEF Quiet
<1>6. Kept(x)
  BY <1>1, <1>4, ZeroNoId DEF Kept, StreamInv, FreshInv, Free
<1>7. RunInv(x)' BY <1>3, <1>4 DEF StreamInv, RunInv, SameFlags
<1>8. ChatInv(x)'
  BY <1>1, <1>3, <1>4 DEF StreamInv, ChatInv, SameFlags, Tables, HandlerEnds, CompleterEnds
<1>9. Found(x)'
  BY <1>1, <1>3, <1>4 DEF StreamInv, Found, SameFlags, Tables, InMap, Completing
<1> QED BY <1>1, <1>5, <1>6, <1>7, <1>8, <1>9, Frame, SameFailures

\* The call of refresh returns: its message is live, and known if it is new.
LEMMA RefreshKeeps ==
  ASSUME TypeInv, StreamInv, NEW x \in Ids, EditReturns(x) \/ SendReturns(x)
  PROVE  StreamInv'
<1>1. UNCHANGED <<Tables, mu>> /\ run[x].pc = "call"
  BY DEF EditReturns, SendReturns, mapVars, otherVars, Tables
<1>2. run'[x].pc = "select" /\ \A y \in Ids \ {x}: run'[y] = run[y]
  BY RunGoes DEF EditReturns, SendReturns
<1>3. stream[x].mu = "run" /\ ~stream[x].stopped BY <1>1 DEF StreamInv, RunInv
<1>4. \A y \in Ids: /\ SameFlags(y) /\ (stream[y].known => stream'[y].known)
                    /\ y # x => stream'[y].mu = stream[y].mu /\ stream'[y].known = stream[y].known
  BY DEF EditReturns, SendReturns, SameFlags, TypeInv, TypeOK, StreamRecord
<1>5. /\ \A y \in Ids \ {x}: chat'[y].kind = chat[y].kind
      /\ chat'[x].kind = chat[x].kind \/ (chat'[x].kind = "live" /\ stream'[x].known)
  BY DEF EditReturns, SendReturns, Succeeds, RefreshFails, Showing, TypeInv, TypeOK, StreamRecord
<1>6. FailuresGrow
  BY DEF EditReturns, SendReturns, Succeeds, RefreshFails, NextFailure, FailuresGrow, TypeInv, TypeOK
<1>7. \A y \in Ids \ {x}: Quiet(y) BY <1>2, <1>4, <1>5 DEF Quiet
<1>8. Kept(x)
  BY <1>1, <1>3, <1>4, ZeroNoId DEF Kept, StreamInv, FreshInv
<1>9. RunInv(x)' BY <1>2, <1>4 DEF StreamInv, RunInv, SameFlags
<1>10. ChatInv(x)' BY <1>1, <1>2, <1>3, <1>4, <1>5 DEF StreamInv, ChatInv, SameFlags
<1>11. Found(x)'
  BY <1>1, <1>2, <1>4 DEF StreamInv, Found, SameFlags, Tables, InMap, Completing
<1> QED BY <1>1, <1>6, <1>7, <1>8, <1>9, <1>10, <1>11, Frame

\* The deferred function of run finds its stream taken out of the map already.
LEMMA LeaveKeeps ==
  ASSUME TypeInv, StreamInv, NEW x \in Ids, Leave(x)
  PROVE  StreamInv'
<1>1. stream[x].cancelled /\ run[x].pc = "exit" BY DEF Leave, StreamInv, RunInv
<1>2. ~InMap(x) BY <1>1, ZeroNoId DEF StreamInv, MapInv, InMap, TypeInv, TypeOK, StreamRecord
<1>3. streams' = streams BY <1>2 DEF Leave, InMap, TypeInv, TypeOK
<1>4. UNCHANGED <<Tables, mu, chat, failures, stream>>
  BY <1>3 DEF Leave, otherVars, chatVars, Tables
<1>5. /\ run'[x].pc \in {"cleanup", "done"} /\ \A y \in Ids \ {x}: run'[y] = run[y]
      /\ run'[x].pc = "cleanup" => stream[x].deleteOnExit
  BY RunGoes DEF Leave
<1>6. \A y \in Ids \ {x}: Quiet(y) BY <1>4, <1>5 DEF Quiet, SameFlags
<1>7. Kept(x) BY <1>1, <1>4 DEF Kept, SameFlags, StreamInv, FreshInv
<1>8. RunInv(x)' BY <1>1, <1>4, <1>5 DEF StreamInv, RunInv
<1>9. ChatInv(x)'
  BY <1>1, <1>4, <1>5 DEF StreamInv, ChatInv, Tables, HandlerEnds, CompleterEnds
<1>10. Found(x)' BY <1>5 DEF Found
<1> QED BY <1>4, <1>6, <1>7, <1>8, <1>9, <1>10, Frame, SameFailures

LEMMA CleanupKeeps ==
  ASSUME TypeInv, StreamInv, NEW x \in Ids, CleanupAfterShutdown(x)
  PROVE  StreamInv'
<1>1. UNCHANGED <<Tables, mu, stream>> /\ run[x].pc = "cleanup" /\ stream[x].mu = Free
  BY DEF CleanupAfterShutdown, mapVars, otherVars, Tables
<1>2. run'[x].pc = "done" /\ \A y \in Ids \ {x}: run'[y] = run[y]
  BY RunGoes DEF CleanupAfterShutdown
<1>3. Ends(x, "deleted") BY DeleteEnds DEF CleanupAfterShutdown
<1>4. FailuresGrow BY <1>3 DEF Ends, FailuresGrow
<1>5. \A y \in Ids \ {x}: Quiet(y) BY <1>1, <1>2, <1>3 DEF Quiet, SameFlags, Ends
<1>6. Kept(x) BY <1>1 DEF Kept, SameFlags, StreamInv, FreshInv, Free
<1>7. RunInv(x)' BY <1>1, <1>2 DEF StreamInv, RunInv
<1>8. ChatInv(x)'
  <2>1. ~stream[x].stopped BY <1>1 DEF StreamInv, RunInv
  <2> QED BY <1>1, <1>2, <1>3, <2>1 DEF StreamInv, ChatInv, Ends
<1>9. Found(x)' BY <1>2 DEF Found
<1> QED BY <1>1, <1>4, <1>5, <1>6, <1>7, <1>8, <1>9, Frame

LEMMA RunKeeps ==
  ASSUME TypeInv, StreamInv, NEW x \in Ids, RunStep(x)
  PROVE  StreamInv'
BY MoveKeeps, ReadKeeps, RefreshKeeps, LeaveKeeps, CleanupKeeps DEF RunStep

\* Lines that are logged, and the first half of the shutdown.
LEMMA LogKeeps ==
  ASSUME TypeInv, StreamInv, AddLog \/ Notify \/ BeginShutdown
  PROVE  StreamInv'
<1>1. UNCHANGED <<Tables, mu, chat, failures, run>>
  BY DEF AddLog, Notify, BeginShutdown, mapVars, otherVars, chatVars, Tables
<1>2. \A y \in Ids: SameFlags(y) /\ stream'[y].known = stream[y].known /\ stream'[y].mu = stream[y].mu
  BY DEF AddLog, Notify, BeginShutdown, SameFlags, TypeInv, TypeOK, StreamRecord
<1>3. \A y \in Ids: Quiet(y) BY <1>1, <1>2 DEF Quiet
<1> QED BY <1>1, <1>3, AllQuiet, SameFailures
-----------------------------------------------------------------------------
(* The handlers keep the invariant.                                        *)

\* Steps that end no stream and move none.
Calm ==
    /\ UNCHANGED <<streams, created>> /\ FailuresGrow /\ \A y \in Ids: Quiet(y)
    /\ handler'.stream = handler.stream /\ (handler'.pc = "call" <=> handler.pc = "call")
    /\ \A g \in Completers: /\ completer'[g].list = completer[g].list
                            /\ completer'[g].pc = "call" <=> completer[g].pc = "call"
                            /\ completer[g].pc = "call" => completer'[g].stream = completer[g].stream

LEMMA CalmKeeps ==
  ASSUME TypeInv, StreamInv, Calm
  PROVE  MapInv' /\ FreshInv' /\ \A x \in Ids: RunInv(x)' /\ ChatInv(x)' /\ Found(x)'
<1> USE DEF Calm, Quiet, SameFlags
<1>1. MapInv' BY DEF StreamInv, MapInv, TypeInv, TypeOK
<1>2. FreshInv' BY DEF StreamInv, FreshInv
<1>3. ASSUME NEW x \in Ids PROVE RunInv(x)' /\ ChatInv(x)' /\ Found(x)'
  <2>1. Quiet(x) OBVIOUS
  <2>2. RunInv(x)' BY <2>1 DEF StreamInv, RunInv
  <2>3. ChatInv(x)'
    BY <2>1 DEF StreamInv, ChatInv, FailuresGrow, HandlerEnds, CompleterEnds, TypeInv, TypeOK
  <2>4. Found(x)' BY <2>1 DEF StreamInv, Found, InMap, Completing
  <2> QED BY <2>2, <2>3, <2>4
<1> QED BY <1>1, <1>2, <1>3

\* What a completer relies on stays when nothing but the handler moves.
LEMMA CalmCompleter ==
  ASSUME TypeInv, StreamInv, Calm, NEW g \in Completers, completer'[g] = completer[g],
         completer[g].pc = "match" => mu' = mu
  PROVE  CompleterInv(g)'
<1>1. CompleterInv(g) BY DEF StreamInv
<1>2. \A x \in completer[g].list \cup completer[g].todo: Quiet(x)
  BY CompleterStreamType DEF Calm
<1>3. completer[g].pc = "call" => Quiet(completer[g].stream) BY CompleterStreamType DEF Calm
<1> QED BY <1>1, <1>2, <1>3 DEF CompleterInv, Calm, Quiet, SameFlags, InMap, CompleterEnds

LEMMA IdleIsOwner ==
  ASSUME TypeInv, StreamInv, handler.pc = "idle"
  PROVE  /\ handler.stream = None /\ \A u \in Users: u \notin approved => streams[u] = None
         /\ completer["handler"].pc = "idle"
BY IdleFields DEF StreamInv, HandlerInv, RevokedInv, TypeInv, TypeOK

LEMMA CommandKeeps ==
  ASSUME TypeInv, StreamInv,
         \/ \E u \in Users, a \in Action, c \in Commands \ {"revoke"}: Command(c, u, a)
         \/ \E u \in Users: Revoke(u)
  PROVE  StreamInv'
<1>1. handler.pc = "idle" /\ UNCHANGED <<mu, streams, created, stream, run, completer, chat, failures>>
  BY DEF Command, Revoke, mapVars, otherVars, chatVars
<1>2. PICK u \in Users:
         /\ u \in approved /\ handler'.user = u /\ handler'.stream = None
         /\ handler'.pc \in {"start", "stop", "older", "revoke", "control"}
         /\ \/ approved' = approved /\ handler'.command # "revoke"
            \/ approved' = approved \ {u} /\ handler'.command = "revoke" /\ handler'.pc = "revoke"
  <2>1. ASSUME NEW u \in Users, NEW a \in Action, NEW c \in Commands \ {"revoke"}, Command(c, u, a)
        PROVE  /\ u \in approved /\ handler'.user = u /\ handler'.stream = None
               /\ handler'.pc \in {"start", "stop", "older", "revoke", "control"}
               /\ approved' = approved /\ handler'.command # "revoke"
    BY <2>1 DEF Command, UserAllowed, IdleHandler, Commands, otherVars
  <2>2. ASSUME NEW u \in Users, Revoke(u)
        PROVE  /\ u \in approved /\ handler'.user = u /\ handler'.stream = None
               /\ handler'.pc = "revoke" /\ handler'.command = "revoke"
               /\ approved' = approved \ {u}
    BY <2>2 DEF Revoke, UserAllowed, IdleHandler
  <2> QED BY <2>1, <2>2
<1>3. handler'.command = "revoke" \/ handler'.user \in approved' BY <1>2
<1>4. Calm BY <1>1, <1>2, IdleIsOwner, SameFailures DEF Calm, Quiet, SameFlags
<1>5. HandlerInv' BY <1>1, <1>2, <1>3, IdleIsOwner DEF HandlerInv
<1>6. RevokedInv' BY <1>1, <1>2, IdleIsOwner DEF RevokedInv
<1>7. \A g \in Completers: CompleterInv(g)' BY <1>1, <1>4, CalmCompleter
<1> QED BY <1>4, <1>5, <1>6, <1>7, CalmKeeps DEF StreamInv

LEMMA ApproveKeeps ==
  ASSUME TypeInv, StreamInv, NEW u \in Users, Approve(u)
  PROVE  StreamInv'
<1>1. /\ handler.pc = "idle" /\ approved' = approved \cup {u}
      /\ UNCHANGED <<mu, handler, streams, created, stream, run, completer, chat, failures>>
  BY DEF Approve, mapVars, chatVars
<1>2. Calm BY <1>1, SameFailures DEF Calm, Quiet, SameFlags
<1>3. HandlerInv' BY <1>1 DEF HandlerInv, StreamInv
<1>4. RevokedInv' BY <1>1, IdleIsOwner DEF RevokedInv
<1>5. \A g \in Completers: CompleterInv(g)' BY <1>1, <1>2, CalmCompleter
<1> QED BY <1>2, <1>3, <1>4, <1>5, CalmKeeps DEF StreamInv

\* A command retags the stream that is running already.
LEMMA RetagKeeps ==
  ASSUME TypeInv, StreamInv, Retag
  PROVE  StreamInv'
<1>1. /\ UNCHANGED <<approved, streams, created, run, completer, chat, failures>>
      /\ handler.pc = "retag" /\ handler' = [handler EXCEPT !.pc = "control"]
  BY DEF Retag, otherVars, chatVars
<1>2. handler'.pc = "control" /\ handler'.user = handler.user /\ handler'.stream = handler.stream
      /\ handler'.command = handler.command
  BY <1>1, HandlerGoes DEF TypeInv, TypeOK, HandlerPc
<1>3. \A y \in Ids: Quiet(y)
  BY <1>1 DEF Retag, Quiet, SameFlags, TypeInv, TypeOK, StreamRecord
<1>4. Calm BY <1>1, <1>2, <1>3, SameFailures DEF Calm
<1>5. mu = "handler" /\ completer["handler"].pc = "idle" BY <1>1 DEF StreamInv, HandlerInv
<1>6. \A g \in Completers: completer[g].pc # "match"
  BY <1>5 DEF StreamInv, CompleterInv, Completers
<1>7. HandlerInv' BY <1>1, <1>2, <1>5 DEF HandlerInv, StreamInv
<1>8. RevokedInv' BY <1>1, <1>2 DEF RevokedInv, StreamInv
<1>9. \A g \in Completers: CompleterInv(g)' BY <1>1, <1>4, <1>6, CalmCompleter
<1> QED BY <1>4, <1>7, <1>8, <1>9, CalmKeeps DEF StreamInv

\* A completer without work begins.
LEMMA TakeKeeps ==
  ASSUME TypeInv, StreamInv, Calm, NEW g \in Completers,
         completer[g].pc = "idle", completer'[g].pc = "take",
         \A h \in Completers \ {g}: completer'[h] = completer[h], mu' = mu
  PROVE  \A h \in Completers: CompleterInv(h)'
<1>1. completer'[g].list = {} BY DEF StreamInv, CompleterInv, Calm
<1>2. CompleterInv(g)' BY <1>1 DEF CompleterInv
<1> QED BY <1>2, CalmCompleter

LEMMA ControllerKeeps ==
  ASSUME TypeInv, StreamInv, ControllerReturns
  PROVE  StreamInv'
<1>1. /\ UNCHANGED <<mu, approved, streams, created, run, stream, chat, failures>>
      /\ handler.pc = "control" /\ handler.stream = None /\ completer["handler"].pc = "idle"
      /\ completer["handler"].list = {}
  BY DEF ControllerReturns, mapVars, otherVars, chatVars, StreamInv, HandlerInv, CompleterInv, Completers
<1>2. \A y \in Ids: Quiet(y) BY <1>1 DEF Quiet, SameFlags
<1>3. CASE handler' = IdleHandler /\ UNCHANGED completer
  <2>1. Calm BY <1>1, <1>2, <1>3, SameFailures, IdleFields DEF Calm
  <2>2. HandlerInv'
    BY <1>1, <1>3, IdleFields DEF HandlerInv, TypeInv, TypeOK
  <2>3. RevokedInv'
    BY <1>1, <1>3, IdleFields DEF RevokedInv, HandlerInv, StreamInv, TypeInv, TypeOK
  <2>4. \A g \in Completers: CompleterInv(g)' BY <1>1, <1>3, <2>1, CalmCompleter
  <2> QED BY <2>1, <2>2, <2>3, <2>4, CalmKeeps DEF StreamInv
<1>4. CASE /\ handler' = [handler EXCEPT !.pc = "complete"]
           /\ completer' = [completer EXCEPT !["handler"] =
                              [IdleCompleter EXCEPT !.pc = "take", !.action = handler.action]]
  <2>1. handler'.pc = "complete" /\ handler'.user = handler.user /\ handler'.stream = handler.stream
        /\ handler'.command = handler.command
    BY <1>4, HandlerGoes DEF TypeInv, TypeOK, HandlerPc
  <2>2. /\ completer'["handler"].pc = "take" /\ completer'["handler"].list = {}
        /\ \A h \in Completers \ {"handler"}: completer'[h] = completer[h]
    BY <1>4 DEF IdleCompleter, Completers, TypeInv, TypeOK
  <2>3. Calm BY <1>1, <1>2, <2>1, <2>2, SameFailures DEF Calm
  <2>4. HandlerInv' BY <1>1, <2>1, <2>2 DEF HandlerInv, StreamInv
  <2>5. RevokedInv' BY <1>1, <2>1 DEF RevokedInv, StreamInv
  <2>6. \A g \in Completers: CompleterInv(g)' BY <1>1, <2>2, <2>3, TakeKeeps DEF Completers
  <2> QED BY <2>3, <2>4, <2>5, <2>6, CalmKeeps DEF StreamInv
<1> QED BY <1>3, <1>4 DEF ControllerReturns

LEMMA HandleEventKeeps ==
  ASSUME TypeInv, StreamInv, HandleEvent
  PROVE  StreamInv'
<1>1. /\ UNCHANGED <<mu, approved, streams, created, run, stream, chat, failures, handler>>
      /\ completer["dispatcher"].pc = "idle" /\ completer["dispatcher"].list = {}
  BY DEF HandleEvent, mapVars, otherVars, chatVars, StreamInv, CompleterInv, Completers
<1>2. /\ completer'["dispatcher"].pc = "take" /\ completer'["dispatcher"].list = {}
      /\ \A h \in Completers \ {"dispatcher"}: completer'[h] = completer[h]
  BY DEF HandleEvent, IdleCompleter, Completers, TypeInv, TypeOK
<1>3. Calm BY <1>1, <1>2, SameFailures DEF Calm, Quiet, SameFlags
<1>4. HandlerInv' BY <1>1, <1>2 DEF HandlerInv, StreamInv, Completers
<1>5. RevokedInv' BY <1>1 DEF RevokedInv, StreamInv
<1>6. \A g \in Completers: CompleterInv(g)' BY <1>1, <1>2, <1>3, TakeKeeps DEF Completers
<1> QED BY <1>3, <1>4, <1>5, <1>6, CalmKeeps DEF StreamInv

\* logStreams.start, when no stream is made.
LEMMA ReuseKeeps ==
  ASSUME TypeInv, StreamInv, StartStream, ReuseStream \/ RefuseStream
  PROVE  StreamInv'
<1>1. /\ UNCHANGED <<approved, streams, created, run, stream, completer, chat, failures>>
      /\ handler.pc = "start" /\ handler.command = "start" /\ mu = Free
      /\ handler.stream = None /\ completer["handler"].pc = "idle"
  BY DEF StartStream, ReuseStream, RefuseStream, mapVars, chatVars, TypeInv, RoomInv, StreamInv, HandlerInv
<1>2. \/ handler' = IdleHandler /\ mu' = mu
      \/ handler' = [handler EXCEPT !.pc = "control"] /\ mu' = mu
      \/ handler' = [handler EXCEPT !.pc = "retag"] /\ mu' = "handler"
  BY DEF ReuseStream, RefuseStream, Started, mapVars
<1>3. /\ handler'.command = "start" /\ handler'.stream = None
      /\ \/ handler'.pc = "idle" /\ handler' = IdleHandler /\ mu' = mu
         \/ handler'.pc = "control" /\ handler'.user = handler.user /\ mu' = mu
         \/ handler'.pc = "retag" /\ handler'.user = handler.user /\ mu' = "handler"
  <2>1. handler \in HandlerRecord /\ {"control", "retag"} \subseteq HandlerPc
    BY DEF TypeInv, TypeOK, HandlerPc
  <2>2. CASE handler' = IdleHandler /\ mu' = mu BY <2>2, IdleFields
  <2>3. CASE handler' = [handler EXCEPT !.pc = "control"] /\ mu' = mu
    BY <1>1, <2>1, <2>3, HandlerMoves
  <2>4. CASE handler' = [handler EXCEPT !.pc = "retag"] /\ mu' = "handler"
    BY <1>1, <2>1, <2>4, HandlerMoves
  <2> QED BY <1>2, <2>2, <2>3, <2>4
<1>4. Calm BY <1>1, <1>3, SameFailures DEF Calm, Quiet, SameFlags
<1>5. HandlerInv' BY <1>1, <1>3, IdleFields DEF HandlerInv, StreamInv, TypeInv, TypeOK
<1>6. RevokedInv'
  BY <1>1, <1>3, IdleFields DEF RevokedInv, HandlerInv, StreamInv, TypeInv, TypeOK
<1>7. \A g \in Completers: completer[g].pc # "match"
  BY <1>1 DEF StreamInv, CompleterInv, Completers, Free
<1>8. \A g \in Completers: CompleterInv(g)' BY <1>1, <1>4, <1>7, CalmCompleter
<1> QED BY <1>4, <1>5, <1>6, <1>8, CalmKeeps DEF StreamInv

\* A new stream is in the map, and nobody knows it.
LEMMA NewKeeps ==
  ASSUME TypeInv, StreamInv, StartStream, NewStream
  PROVE  StreamInv'
<1> DEFINE x == created + 1
<1>1. /\ UNCHANGED <<approved, completer, chat, failures, mu>>
      /\ handler.pc = "start" /\ handler.command = "start" /\ mu = Free
      /\ handler.stream = None /\ completer["handler"].pc = "idle"
      /\ created' = x /\ streams[handler.user] = None
  BY DEF StartStream, NewStream, chatVars, TypeInv, RoomInv, StreamInv, HandlerInv
<1>2. /\ handler'.command = "start" /\ handler'.stream = None
      /\ \/ handler'.pc = "idle" /\ handler' = IdleHandler
         \/ handler'.pc = "control" /\ handler'.user = handler.user
  <2>1. handler' = IdleHandler \/ handler' = [handler EXCEPT !.pc = "control"]
    BY DEF NewStream, Started
  <2>2. handler \in HandlerRecord /\ "control" \in HandlerPc BY DEF TypeInv, TypeOK, HandlerPc
  <2>3. CASE handler' = IdleHandler BY <2>3, IdleFields
  <2>4. CASE handler' = [handler EXCEPT !.pc = "control"] BY <1>1, <2>2, <2>4, HandlerMoves
  <2> QED BY <2>1, <2>3, <2>4
<1>3. x \in Ids /\ handler.user \in Users /\ created \in Nat /\ x # None
  BY <1>1, BoundsAssumption, HandlerStreamType DEF TypeInv, TypeOK, RoomInv, Ids, None
<1>4. handler.user \in approved BY <1>1 DEF StreamInv, HandlerInv
<1>5. /\ stream'[x].user = handler.user /\ ~stream'[x].stopped /\ ~stream'[x].cancelled
      /\ ~stream'[x].deleteOnExit
      /\ \A y \in Ids \ {x}: stream'[y] = stream[y]
  BY <1>3 DEF NewStream, NoStream, TypeInv, TypeOK
<1>6. /\ run'[x].pc = "check" /\ \A y \in Ids \ {x}: run'[y] = run[y]
  BY <1>3 DEF NewStream, TypeInv, TypeOK, RunRecord
<1>7. /\ streams'[handler.user] = x
      /\ \A u \in Users \ {handler.user}: streams'[u] = streams[u] /\ streams[u] # x
  BY <1>3 DEF NewStream, TypeInv, TypeOK, StreamInv, MapInv
<1>8. chat[x].kind = "none" BY <1>3 DEF StreamInv, FreshInv
<1>9. MapInv' 
  <2> SUFFICES ASSUME NEW u \in Users, streams'[u] # None
               PROVE  LET s == stream'[streams'[u]]
                      IN  /\ streams'[u] <= created' /\ s.user = u
                          /\ ~s.stopped /\ ~s.cancelled /\ ~s.deleteOnExit
    BY DEF MapInv
  <2>1. CASE u = handler.user BY <1>1, <1>3, <1>5, <1>7, <2>1
  <2>2. CASE u # handler.user
    BY <1>1, <1>3, <1>5, <1>7, <2>2, ZeroNoId DEF StreamInv, MapInv, TypeInv, TypeOK
  <2> QED BY <2>1, <2>2
<1>10. FreshInv' BY <1>1, <1>3, <1>5, <1>6, ZeroNoId DEF StreamInv, FreshInv
<1>11. HandlerInv' BY <1>1, <1>2, <1>4, IdleFields DEF HandlerInv, StreamInv, TypeInv, TypeOK
<1>12. RevokedInv'
  BY <1>1, <1>2, <1>4, <1>7, IdleFields DEF RevokedInv, StreamInv, TypeInv, TypeOK
<1>13. ASSUME NEW g \in Completers PROVE CompleterInv(g)'
  <2>1. CompleterInv(g) /\ completer[g].list \in SUBSET Ids BY CompleterStreamType DEF StreamInv
  <2>2. completer[g].pc # "match" BY <1>1, <2>1 DEF CompleterInv, Completers, Free
  <2>3. \A y \in completer[g].list: y # x /\ stream'[y] = stream[y] /\ y # None
    BY <1>3, <1>5, <2>1, ZeroNoId DEF CompleterInv
  <2>4. completer[g].pc = "call" => stream'[completer[g].stream] = stream[completer[g].stream]
    BY <2>1, <2>3 DEF CompleterInv
  <2>5. \A y \in completer[g].list: ~InMap(y)'
    BY <1>7, <2>1, <2>3 DEF CompleterInv, InMap, TypeInv, TypeOK, StreamRecord
  <2>6. \A y \in completer[g].list: y <= created' BY <1>1, <1>3, <2>1, ZeroNoId DEF CompleterInv
  <2> QED BY <1>1, <1>2, <2>1, <2>2, <2>3, <2>4, <2>5, <2>6 DEF CompleterInv, CompleterEnds
<1>14. ASSUME NEW y \in Ids PROVE RunInv(y)' /\ ChatInv(y)' /\ Found(y)'
  <2>1. CASE y = x
    BY <1>1, <1>5, <1>6, <1>7, <1>8, <2>1 DEF RunInv, ChatInv, Found, InMap
  <2>2. CASE y # x
    <3>1. stream'[y] = stream[y] /\ run'[y] = run[y] /\ chat'[y] = chat[y]
      BY <1>1, <1>5, <1>6, <2>2
    <3>2. RunInv(y)'
      <4>1. y <= created' => y <= created BY <1>1, <2>2, ZeroNoId DEF TypeInv, TypeOK
      <4> QED BY <3>1, <4>1 DEF StreamInv, RunInv
    <3>3. HandlerEnds(y)' <=> HandlerEnds(y) BY <1>1, <1>2, IdleFields DEF HandlerEnds
    <3>4. ChatInv(y)' BY <1>1, <3>1, <3>3 DEF StreamInv, ChatInv, CompleterEnds
    <3>5. InMap(y) => InMap(y)'
      BY <1>1, <1>7, <3>1, ZeroNoId DEF InMap, TypeInv, TypeOK, StreamRecord
    <3>6. Found(y)' BY <1>1, <1>2, <3>1, <3>5, ZeroNoId DEF StreamInv, Found, Completing
    <3> QED BY <3>2, <3>4, <3>6
  <2> QED BY <2>1, <2>2
<1> QED BY <1>9, <1>10, <1>11, <1>12, <1>13, <1>14 DEF StreamInv

\* stopLocked and revokeLocked take the stream out of the map, showOlderLocked
\* leaves it there; all keep mu until the lock of the stream is theirs.
LEMMA FindKeeps ==
  ASSUME TypeInv, StreamInv, FindStream
  PROVE  StreamInv'
<1> DEFINE x == streams[handler.user]
<1>1. /\ UNCHANGED <<approved, created, run, stream, completer, chat, failures>>
      /\ handler.pc \in {"stop", "revoke", "older"} /\ handler.command = handler.pc /\ mu = Free
      /\ handler.stream = None /\ completer["handler"].pc = "idle" /\ handler.user \in Users
  BY HandlerStreamType
     DEF FindStream, otherVars, chatVars, TypeInv, RoomInv, StreamInv, HandlerInv
<1>2. \A g \in Completers: completer[g].pc # "match"
  BY <1>1 DEF StreamInv, CompleterInv, Completers, Free
<1>3. CASE x = None
  <2>1. handler' = IdleHandler /\ mu' = mu /\ streams' = streams BY <1>3 DEF FindStream
  <2>2. handler'.pc = "idle" /\ handler'.user = Owner /\ handler'.stream = None
        /\ handler'.command = "start"
    BY <2>1, IdleFields
  <2>3. Calm BY <1>1, <2>1, <2>2, SameFailures DEF Calm, Quiet, SameFlags
  <2>4. HandlerInv' BY <1>1, <2>1, <2>2 DEF HandlerInv, TypeInv, TypeOK
  <2>5. RevokedInv' BY <1>1, <1>3, <2>1, <2>2 DEF RevokedInv, StreamInv, TypeInv, TypeOK
  <2>6. \A g \in Completers: CompleterInv(g)' BY <1>1, <2>1, <2>3, CalmCompleter
  <2> QED BY <2>3, <2>4, <2>5, <2>6, CalmKeeps DEF StreamInv
<1>4. CASE x # None
  <2>1. x \in Ids BY <1>1, <1>4 DEF TypeInv, TypeOK
  <2>2. /\ handler'.pc = "lock" /\ handler'.command = handler.command
        /\ handler'.user = handler.user /\ handler'.stream = x /\ mu' = "handler"
    BY <1>4 DEF FindStream, TypeInv, TypeOK, HandlerRecord
  <2>3. /\ x <= created /\ stream[x].user = handler.user /\ ~stream[x].stopped
        /\ ~stream[x].cancelled /\ ~stream[x].deleteOnExit
    BY <1>1, <1>4 DEF StreamInv, MapInv
  <2>4. /\ handler.command = "older" => streams' = streams
        /\ handler.command # "older" => streams' = [streams EXCEPT ![handler.user] = None]
    BY <1>4 DEF FindStream
  <2>5. streams \in [Users -> Ids \cup {None}] BY DEF TypeInv, TypeOK
  <2>6. \A u \in Users: streams'[u] = streams[u] \/ (u = handler.user /\ streams'[u] = None)
    BY <1>1, <2>4, <2>5
  <2> HIDE DEF x
  <2>7. MapInv' BY <1>1, <2>6 DEF StreamInv, MapInv
  <2>8. FreshInv' BY <1>1 DEF StreamInv, FreshInv
  <2>9. HandlerInv'
    <3>1. handler.command = "older" => streams'[handler.user] = x BY <1>1, <2>4 DEF x
    <3>2. handler.command # "older" => streams'[handler.user] = None BY <1>1, <2>4, <2>5
    <3>3. handler.command # "revoke" => handler.user \in approved BY DEF StreamInv, HandlerInv
    <3> QED BY <1>1, <2>2, <2>3, <3>1, <3>2, <3>3 DEF HandlerInv
  <2>10. RevokedInv' BY <1>1, <2>2, <2>6 DEF StreamInv, RevokedInv
  <2>11. ASSUME NEW g \in Completers PROVE CompleterInv(g)'
    <3>1. CompleterInv(g) /\ completer[g].pc # "match" /\ completer[g].list \in SUBSET Ids
      BY <1>2, CompleterStreamType DEF StreamInv
    <3>2. \A y \in completer[g].list: y # x /\ ~InMap(y)'
      <4> SUFFICES ASSUME NEW y \in completer[g].list PROVE y # x /\ ~InMap(y)' OBVIOUS
      <4>1. ~InMap(y) /\ y # None /\ stream[y].user \in Users
        BY <3>1, ZeroNoId DEF CompleterInv, TypeInv, TypeOK, StreamRecord
      <4>2. y # x BY <2>3, <4>1 DEF InMap, x
      <4> QED BY <1>1, <2>6, <4>1, <4>2 DEF InMap
    <3> QED BY <1>1, <2>2, <3>1, <3>2 DEF CompleterInv, CompleterEnds
  <2>12. ASSUME NEW y \in Ids PROVE RunInv(y)' /\ ChatInv(y)' /\ Found(y)'
    <3>1. RunInv(y)' BY <1>1 DEF StreamInv, RunInv
    <3>2. ChatInv(y)' BY <1>1, <2>2 DEF StreamInv, ChatInv, HandlerEnds, CompleterEnds
    <3>3. Found(y)'
      <4>1. y # x => (InMap(y) => InMap(y)')
        BY <1>1, <2>6, ZeroNoId DEF InMap, x, TypeInv, TypeOK, StreamRecord
      <4> QED BY <1>1, <2>2, <4>1, ZeroNoId DEF StreamInv, Found, Completing
    <3> QED BY <3>1, <3>2, <3>3
  <2> QED BY <2>7, <2>8, <2>9, <2>10, <2>11, <2>12 DEF StreamInv
<1> QED BY <1>3, <1>4

\* The handler has the lock of the stream it took and marks it.
LEMMA StopKeeps ==
  ASSUME TypeInv, StreamInv, StopStream
  PROVE  StreamInv'
<1> DEFINE x == handler.stream
<1>1. /\ UNCHANGED <<approved, created, run, streams, completer, chat, failures>>
      /\ handler.pc = "lock" /\ handler.command # "older" /\ stream[x].mu = Free /\ mu = "handler"
      /\ x \in Ids /\ completer["handler"].pc = "idle"
  BY HandlerStreamType DEF StopStream, otherVars, chatVars, StreamInv, HandlerInv
<1>2. /\ handler'.pc = "call" /\ handler'.command = handler.command
      /\ handler'.user = handler.user /\ handler'.stream = x
  <2>1. handler' = [handler EXCEPT !.pc = "call"] BY DEF StopStream
  <2> QED BY <2>1, HandlerMoves DEF TypeInv, TypeOK, HandlerPc
<1>3. /\ x <= created /\ stream[x].user = handler.user /\ streams[handler.user] = None
      /\ ~stream[x].deleteOnExit /\ ~stream[x].stopped
      /\ handler.command \in {"stop", "revoke"} /\ (handler.command # "revoke" => handler.user \in approved)
  BY <1>1 DEF StreamInv, HandlerInv
<1>4. /\ stream'[x].mu = "handler" /\ stream'[x].stopped /\ stream'[x].cancelled
      /\ stream'[x].user = stream[x].user /\ stream'[x].deleteOnExit = stream[x].deleteOnExit
      /\ stream'[x].known = stream[x].known
      /\ \A y \in Ids \ {x}: stream'[y] = stream[y]
  BY <1>1 DEF StopStream, Stopped, TypeInv, TypeOK, StreamRecord
<1>5. \A g \in Completers: completer[g].pc # "match"
  BY <1>1 DEF StreamInv, CompleterInv, Completers
<1>6. chat[x].kind \in {"none", "live"}
  <2>1. ~stream[x].cancelled BY <1>1, <1>3 DEF StreamInv, RunInv
  <2>2. run[x].pc # "done" BY <1>1, <2>1 DEF StreamInv, RunInv
  <2> QED BY <1>1, <1>3, <2>2 DEF StreamInv, ChatInv, TypeInv, TypeOK, Message
<1> HIDE DEF x
<1>7. MapInv'
  <2>1. \A u \in Users: streams[u] # x
    BY <1>1, <1>3, ZeroNoId DEF StreamInv, MapInv
  <2> QED BY <1>1, <1>4, <2>1, ZeroNoId DEF StreamInv, MapInv, TypeInv, TypeOK
<1>8. FreshInv' BY <1>1 DEF StreamInv, FreshInv
<1>9. HandlerInv'
  BY <1>1, <1>2, <1>3, <1>4, <1>6, ZeroNoId DEF HandlerInv
<1>10. RevokedInv' BY <1>1, <1>2 DEF StreamInv, RevokedInv
<1>11. ASSUME NEW g \in Completers PROVE CompleterInv(g)'
  <2>1. CompleterInv(g) /\ completer[g].pc # "match" /\ completer[g].list \in SUBSET Ids
    BY <1>5, CompleterStreamType DEF StreamInv
  <2>2. \A y \in completer[g].list: y # x /\ stream'[y] = stream[y]
    BY <1>4, <2>1 DEF CompleterInv, x
  <2> QED BY <1>1, <1>2, <2>1, <2>2 DEF CompleterInv, CompleterEnds, InMap, x
<1>12. ASSUME NEW y \in Ids PROVE RunInv(y)' /\ ChatInv(y)' /\ Found(y)'
  <2>1. RunInv(y) /\ ChatInv(y) /\ Found(y) BY DEF StreamInv
  <2>2. CASE y = x
    <3>1. run[x].pc # "call" BY <1>1, <2>1, <2>2 DEF RunInv, Free
    <3> QED BY <1>1, <1>2, <1>3, <1>4, <2>1, <2>2, <3>1 DEF RunInv, ChatInv, Found, HandlerEnds
  <2>3. CASE y # x
    <3>1. stream'[y] = stream[y] BY <1>4, <2>3
    <3>2. ~HandlerEnds(y) BY <1>1 DEF HandlerEnds
    <3>3. RunInv(y)' BY <1>1, <2>1, <3>1 DEF RunInv
    <3>4. ChatInv(y)' BY <1>1, <2>1, <3>1, <3>2 DEF ChatInv, CompleterEnds
    <3>5. Found(y)' BY <1>1, <1>2, <2>1, <3>1 DEF Found, InMap, Completing, x
    <3> QED BY <3>3, <3>4, <3>5
  <2> QED BY <2>2, <2>3
<1> QED BY <1>7, <1>8, <1>9, <1>10, <1>11, <1>12 DEF StreamInv

\* showOlderLocked leaves the stream in the map.
LEMMA OlderKeeps ==
  ASSUME TypeInv, StreamInv, ShowOlder
  PROVE  StreamInv'
<1> DEFINE x == handler.stream
<1>1. /\ UNCHANGED <<approved, created, run, streams, completer, chat, failures>>
      /\ handler.pc = "lock" /\ handler.command = "older" /\ mu = "handler" /\ handler' = IdleHandler
      /\ x \in Ids /\ completer["handler"].pc = "idle" /\ handler.user \in approved
      /\ InMap(x)
  BY HandlerStreamType DEF ShowOlder, otherVars, chatVars, StreamInv, HandlerInv, InMap
<1>2. \A y \in Ids: Quiet(y)
  BY <1>1 DEF ShowOlder, Quiet, SameFlags, TypeInv, TypeOK, StreamRecord
<1>3. \A g \in Completers: completer[g].pc # "match"
  BY <1>1 DEF StreamInv, CompleterInv, Completers
<1>4. handler'.pc = "idle" /\ handler'.user = Owner /\ handler'.stream = None
      /\ handler'.command = "start"
  BY <1>1, IdleFields
<1>5. MapInv' BY <1>1, <1>2 DEF StreamInv, MapInv, Quiet, SameFlags, TypeInv, TypeOK
<1>6. FreshInv' BY <1>1 DEF StreamInv, FreshInv
<1>7. HandlerInv' BY <1>1, <1>4 DEF HandlerInv, TypeInv, TypeOK
<1>8. RevokedInv' BY <1>1, <1>4 DEF StreamInv, RevokedInv, TypeInv, TypeOK
<1>9. ASSUME NEW g \in Completers PROVE CompleterInv(g)'
  <2>1. CompleterInv(g) /\ completer[g].list \in SUBSET Ids
        /\ (completer[g].pc = "call" => completer[g].stream \in Ids)
    BY CompleterStreamType DEF StreamInv
  <2>2. \A y \in completer[g].list: Quiet(y) /\ y # None BY <1>2, <2>1, ZeroNoId
  <2>3. completer[g].pc = "call" => Quiet(completer[g].stream) BY <1>2, <2>1
  <2> QED BY <1>1, <1>3, <1>4, <2>1, <2>2, <2>3
          DEF CompleterInv, CompleterEnds, InMap, Quiet, SameFlags
<1>10. ASSUME NEW y \in Ids PROVE RunInv(y)' /\ ChatInv(y)' /\ Found(y)'
  <2>1. RunInv(y) /\ ChatInv(y) /\ Found(y) /\ Quiet(y) BY <1>2 DEF StreamInv
  <2>2. RunInv(y)' BY <1>1, <2>1 DEF RunInv, Quiet, SameFlags
  <2>3. ChatInv(y)' BY <1>1, <2>1 DEF ChatInv, Quiet, SameFlags, HandlerEnds, CompleterEnds
  <2>4. Found(y)' BY <1>1, <2>1 DEF Found, Quiet, SameFlags, InMap, Completing
  <2> QED BY <2>2, <2>3, <2>4
<1> QED BY <1>5, <1>6, <1>7, <1>8, <1>9, <1>10 DEF StreamInv

\* A stop ends with the last page, a revocation without a message.
LEMMA EndKeeps ==
  ASSUME TypeInv, StreamInv, EndMessage
  PROVE  StreamInv'
<1> DEFINE x == handler.stream
<1>1. /\ UNCHANGED <<approved, created, run, streams, completer, mu>>
      /\ handler.pc = "call" /\ handler' = IdleHandler /\ x \in Ids
      /\ stream[x].stopped /\ stream[x].mu = "handler" /\ completer["handler"].pc = "idle"
      /\ (handler.command # "revoke" => handler.user \in approved) /\ streams[handler.user] = None
  BY HandlerStreamType DEF EndMessage, mapVars, otherVars, StreamInv, HandlerInv
<1>2. Ends(x, "final") \/ Ends(x, "deleted")
  BY <1>1, FinalizeEnds, DeleteEnds DEF EndMessage
<1>3. FailuresGrow BY <1>2 DEF Ends, FailuresGrow
<1>4. /\ \A y \in Ids: SameFlags(y) /\ stream'[y].known = stream[y].known
      /\ \A y \in Ids \ {x}: stream'[y].mu = stream[y].mu
  BY <1>1 DEF EndMessage, SameFlags, TypeInv, TypeOK, StreamRecord
<1>5. handler'.pc = "idle" /\ handler'.user = Owner /\ handler'.stream = None
      /\ handler'.command = "start"
  BY <1>1, IdleFields
<1> HIDE DEF x
<1>6. MapInv' BY <1>1, <1>4 DEF StreamInv, MapInv, SameFlags, TypeInv, TypeOK
<1>7. FreshInv'
  <2>1. x <= created BY <1>1 DEF StreamInv, HandlerInv, x
  <2> QED BY <1>1, <1>2, <2>1, ZeroNoId DEF StreamInv, FreshInv, Ends, TypeInv, TypeOK
<1>8. HandlerInv' BY <1>1, <1>5 DEF HandlerInv, TypeInv, TypeOK
<1>9. RevokedInv' BY <1>1, <1>5 DEF StreamInv, RevokedInv, TypeInv, TypeOK
<1>10. ASSUME NEW g \in Completers PROVE CompleterInv(g)'
  <2>1. CompleterInv(g) /\ completer[g].list \in SUBSET Ids /\ completer[g].todo \in SUBSET Ids
    BY CompleterStreamType DEF StreamInv
  <2>2. \A y \in completer[g].list: y # x /\ y # None /\ SameFlags(y) /\ stream'[y].mu = stream[y].mu
                                  /\ chat'[y] = chat[y]
    BY <1>2, <1>4, <2>1, ZeroNoId DEF CompleterInv, Ends, x
  <2>3. \A y \in completer[g].todo: SameFlags(y) BY <1>4, <2>1
  <2> QED BY <1>1, <1>5, <2>1, <2>2, <2>3 DEF CompleterInv, CompleterEnds, InMap, SameFlags
<1>11. ASSUME NEW y \in Ids PROVE RunInv(y)' /\ ChatInv(y)' /\ Found(y)'
  <2>1. RunInv(y) /\ ChatInv(y) /\ Found(y) /\ SameFlags(y) BY <1>4 DEF StreamInv
  <2>2. RunInv(y)'
    <3>1. y = x => run[y].pc # "call" BY <1>1, <2>1 DEF RunInv
    <3> QED BY <1>1, <1>4, <2>1, <3>1 DEF RunInv, SameFlags
  <2>3. Found(y)' BY <1>1, <1>4, <1>5, <2>1 DEF Found, SameFlags, InMap, Completing, x
  <2>4. ChatInv(y)'
    <3>1. CASE y = x
      <4>1. failures' = 0 => chat'[x].kind # "live"
        BY <1>1, <1>2, <2>1, <3>1 DEF Ends, ChatInv
      <4> QED BY <1>1, <1>2, <1>4, <2>1, <3>1, <4>1 DEF ChatInv, Ends, SameFlags
    <3>2. CASE y # x
      <4>1. chat'[y] = chat[y] BY <1>2, <3>2 DEF Ends
      <4>2. ~HandlerEnds(y) BY <3>2 DEF HandlerEnds, x
      <4>3. failures' = 0 => failures = 0 BY <1>2 DEF Ends
      <4> QED BY <1>1, <1>4, <2>1, <4>1, <4>2, <4>3 DEF ChatInv, SameFlags, CompleterEnds
    <3> QED BY <3>1, <3>2
  <2> QED BY <2>2, <2>3, <2>4
<1> QED BY <1>6, <1>7, <1>8, <1>9, <1>10, <1>11 DEF StreamInv

-----------------------------------------------------------------------------
(* completeAction and the shutdown keep the invariant.                     *)

\* shutdown empties the map and leaves each of its streams to its own run.
LEMMA ShutdownKeeps ==
  ASSUME TypeInv, StreamInv, Shutdown
  PROVE  StreamInv'
<1>1. UNCHANGED <<approved, created, run, completer, chat, failures, handler, mu>> /\ mu = Free
  BY DEF Shutdown, chatVars
<1>2. \A u \in Users: streams'[u] = None BY DEF Shutdown
<1>3. \A y \in Ids: /\ stream'[y].user = stream[y].user /\ stream'[y].stopped = stream[y].stopped
                    /\ stream'[y].mu = stream[y].mu /\ stream'[y].known = stream[y].known
                    /\ InMap(y) => stream'[y].cancelled /\ stream'[y].deleteOnExit
                    /\ ~InMap(y) => SameFlags(y)
  BY DEF Shutdown, InMap, SameFlags, TypeInv, TypeOK, StreamRecord
<1>4. \A y \in Ids: InMap(y) => ~stream[y].stopped
  BY ZeroNoId DEF StreamInv, MapInv, InMap, TypeInv, TypeOK, StreamRecord
<1>5. MapInv' /\ RevokedInv' BY <1>2 DEF MapInv, RevokedInv
<1>6. FreshInv' BY <1>1 DEF StreamInv, FreshInv
<1>7. HandlerInv'
  <2>1. handler.pc # "lock" BY <1>1 DEF StreamInv, HandlerInv, Free
  <2>2. handler.pc = "call" => ~InMap(handler.stream) /\ handler.stream \in Ids
    BY HandlerStreamType, ZeroNoId DEF StreamInv, HandlerInv, InMap
  <2>3. handler.user \in Users BY HandlerStreamType
  <2> QED BY <1>1, <1>2, <1>3, <2>1, <2>2, <2>3 DEF StreamInv, HandlerInv, SameFlags
<1>8. ASSUME NEW g \in Completers PROVE CompleterInv(g)'
  <2>1. CompleterInv(g) /\ completer[g].list \in SUBSET Ids BY CompleterStreamType DEF StreamInv
  <2>2. completer[g].pc # "match" BY <1>1, <2>1 DEF CompleterInv, Completers, Free
  <2>3. \A y \in completer[g].list: SameFlags(y) /\ stream'[y].mu = stream[y].mu /\ ~InMap(y)'
    BY <1>2, <1>3, <2>1, ZeroNoId DEF CompleterInv, InMap, TypeInv, TypeOK, StreamRecord
  <2> QED BY <1>1, <2>1, <2>2, <2>3 DEF CompleterInv, CompleterEnds, SameFlags
<1>9. ASSUME NEW y \in Ids PROVE RunInv(y)' /\ ChatInv(y)' /\ Found(y)'
  <2>1. RunInv(y) /\ ChatInv(y) /\ Found(y) BY DEF StreamInv
  <2>2. CASE InMap(y)
    BY <1>1, <1>3, <1>4, <2>1, <2>2 DEF RunInv, ChatInv, Found, SameFlags
  <2>3. CASE ~InMap(y)
    <3>1. RunInv(y)' BY <1>1, <1>3, <2>1, <2>3 DEF RunInv, SameFlags
    <3>2. ChatInv(y)'
      BY <1>1, <1>3, <2>1, <2>3 DEF ChatInv, SameFlags, HandlerEnds, CompleterEnds
    <3>3. Found(y)' BY <1>1, <1>3, <2>1, <2>3 DEF Found, SameFlags, Completing
    <3> QED BY <3>1, <3>2, <3>3
  <2> QED BY <2>2, <2>3
<1> QED BY <1>5, <1>6, <1>7, <1>8, <1>9 DEF StreamInv

\* completeAction has mu and will look at the streams in the map.
LEMMA UntrackKeeps ==
  ASSUME TypeInv, StreamInv, NEW g \in Completers, UntrackAction(g)
  PROVE  StreamInv'
<1>1. /\ UNCHANGED <<approved, created, run, stream, streams, chat, failures, handler>>
      /\ mu = Free /\ mu' = g /\ completer[g].pc = "take"
  BY DEF UntrackAction, otherVars, chatVars
<1>2. /\ completer'[g].pc = "match" /\ completer'[g].list = completer[g].list
      /\ completer'[g].todo = {streams[u]: u \in Users} \ {None}
      /\ \A h \in Completers \ {g}: completer'[h] = completer[h]
  BY DEF UntrackAction, TypeInv, TypeOK, CompleterRecord
<1>3. Calm BY <1>1, <1>2, SameFailures DEF Calm, Quiet, SameFlags
<1>4. \A h \in Completers: completer[h].pc # "match"
  BY <1>1 DEF StreamInv, CompleterInv, Completers, Free
<1>5. HandlerInv' BY <1>1, <1>2 DEF StreamInv, HandlerInv, Completers, Free
<1>6. RevokedInv' BY <1>1 DEF StreamInv, RevokedInv
<1>7. CompleterInv(g)'
  <2>1. completer[g].list = {} BY <1>1 DEF StreamInv, CompleterInv
  <2>2. \A x \in completer'[g].todo: InMap(x)' BY <1>1, <1>2 DEF StreamInv, MapInv, InMap
  <2> QED BY <1>1, <1>2, <2>1, <2>2 DEF CompleterInv
<1>8. \A h \in Completers \ {g}: CompleterInv(h)' BY <1>2, <1>3, <1>4, CalmCompleter
<1> QED BY <1>3, <1>5, <1>6, <1>7, <1>8, CalmKeeps DEF StreamInv

\* A stream that matches is the completer's from now on, and nobody else's.
LEMMA MatchKeeps ==
  ASSUME TypeInv, StreamInv, NEW g \in Completers, MatchStream(g)
  PROVE  StreamInv'
<1>1. /\ UNCHANGED <<approved, created, run, stream, chat, failures, handler, mu>>
      /\ completer[g].pc = "match" /\ mu = g
  BY DEF MatchStream, otherVars, chatVars, StreamInv, CompleterInv
<1>2. PICK x \in completer[g].todo:
         LET matches == stream[x].action = completer[g].action /\ ~stream[x].stopped
         IN  /\ completer' = [completer EXCEPT ![g].todo = @ \ {x},
                             ![g].list = IF matches THEN @ \cup {x} ELSE @]
             /\ streams' = IF matches THEN [streams EXCEPT ![stream[x].user] = None] ELSE streams
  BY DEF MatchStream
<1>3. x \in Ids /\ InMap(x) /\ x # None
  BY <1>1, CompleterStreamType, ZeroNoId DEF StreamInv, CompleterInv
<1>4. /\ x <= created /\ ~stream[x].stopped /\ ~stream[x].deleteOnExit /\ stream[x].user \in Users
  BY <1>3 DEF StreamInv, MapInv, InMap, TypeInv, TypeOK, StreamRecord
<1>5. /\ completer'[g].pc = "match" /\ completer'[g].todo = completer[g].todo \ {x}
      /\ \A h \in Completers \ {g}: completer'[h] = completer[h]
      /\ \/ completer'[g].list = completer[g].list /\ streams' = streams
         \/ /\ completer'[g].list = completer[g].list \cup {x}
            /\ streams' = [streams EXCEPT ![stream[x].user] = None]
  BY <1>1, <1>2 DEF TypeInv, TypeOK, CompleterRecord
<1>6. streams \in [Users -> Ids \cup {None}] BY DEF TypeInv, TypeOK
<1>7. \A u \in Users: streams'[u] = streams[u] \/ (u = stream[x].user /\ streams'[u] = None)
  BY <1>4, <1>5, <1>6
<1>8. \A y \in Ids \ {x}: InMap(y)' <=> InMap(y)
  BY <1>1, <1>3, <1>7, ZeroNoId DEF InMap, TypeInv, TypeOK, StreamRecord
<1>9. \A h \in Completers \ {g}: completer[h].pc # "match"
  BY <1>1 DEF StreamInv, CompleterInv
<1>10. handler.pc \notin {"lock", "retag"} /\ handler.stream # x
  <2>1. handler.pc \notin {"lock", "retag"} BY <1>1 DEF StreamInv, HandlerInv
  <2>2. ASSUME handler.stream = x PROVE FALSE
    <3>1. handler.pc = "call" BY <1>3, <2>1, <2>2 DEF StreamInv, HandlerInv
    <3>2. streams[handler.user] = None /\ stream[x].user = handler.user
      BY <2>2, <3>1 DEF StreamInv, HandlerInv
    <3> QED BY <1>3, <3>2 DEF InMap
  <2> QED BY <2>1, <2>2
<1>11. MapInv' BY <1>1, <1>7 DEF StreamInv, MapInv
<1>12. FreshInv' BY <1>1 DEF StreamInv, FreshInv
<1>13. HandlerInv'
  <2>1. completer'["handler"].pc # "idle" <=> completer["handler"].pc # "idle"
    BY <1>1, <1>5 DEF Completers
  <2>2. handler.user \in Users BY HandlerStreamType
  <2> QED BY <1>1, <1>7, <1>10, <2>1, <2>2 DEF StreamInv, HandlerInv
<1>14. RevokedInv' BY <1>1, <1>7 DEF StreamInv, RevokedInv
<1>15. CompleterInv(g)'
  <2>1. CompleterInv(g) /\ completer[g].list \in SUBSET Ids /\ completer[g].todo \in SUBSET Ids
    BY CompleterStreamType DEF StreamInv
  <2>2. \A y \in completer'[g].todo: InMap(y)' BY <1>1, <1>5, <1>8, <2>1 DEF CompleterInv
  <2>3. x \notin completer[g].list /\ \A h \in Completers: x \notin completer[h].list
    BY <1>3 DEF StreamInv, CompleterInv
  <2>4. \A y \in completer[g].list:
          /\ y <= created /\ ~InMap(y)' /\ ~stream[y].deleteOnExit /\ handler.stream # y
          /\ \A h \in Completers \ {g}: y \notin completer'[h].list
          /\ ~stream[y].stopped
    BY <1>1, <1>5, <1>8, <2>1, <2>3 DEF CompleterInv, CompleterEnds
  <2>5. completer'[g].list # completer[g].list => ~InMap(x)'
    BY <1>1, <1>3, <1>4, <1>5, <1>6 DEF InMap
  <2> QED BY <1>1, <1>4, <1>5, <1>10, <2>2, <2>3, <2>4, <2>5 DEF CompleterInv, CompleterEnds
<1>16. ASSUME NEW h \in Completers \ {g} PROVE CompleterInv(h)'
  <2>1. CompleterInv(h) /\ completer[h].list \in SUBSET Ids BY CompleterStreamType DEF StreamInv
  <2>2. \A y \in completer[h].list: y # x /\ ~InMap(y)'
    BY <1>3, <1>8, <2>1 DEF CompleterInv
  <2>3. \A y \in completer[h].list: \A k \in Completers \ {h}: y \notin completer'[k].list
    BY <1>5, <2>1, <2>2 DEF CompleterInv
  <2> QED BY <1>1, <1>5, <1>9, <2>1, <2>2, <2>3 DEF CompleterInv, CompleterEnds
<1>17. ASSUME NEW y \in Ids PROVE RunInv(y)' /\ ChatInv(y)' /\ Found(y)'
  <2>1. RunInv(y) /\ ChatInv(y) /\ Found(y) BY DEF StreamInv
  <2>2. RunInv(y)' BY <1>1, <2>1 DEF RunInv
  <2>3. \A h \in Completers: CompleterEnds(h, y) => CompleterEnds(h, y)'
    BY <1>1, <1>5 DEF CompleterEnds
  <2>4. ChatInv(y)' BY <1>1, <2>1, <2>3 DEF ChatInv, HandlerEnds
  <2>5. Completing(y) => Completing(y)' BY <1>5 DEF Completing
  <2>6. InMap(x)' \/ Completing(x)'
    BY <1>1, <1>3, <1>5 DEF Completing, InMap
  <2>7. Found(y)' BY <1>1, <1>8, <2>1, <2>5, <2>6 DEF Found
  <2> QED BY <2>2, <2>4, <2>7
<1> QED BY <1>11, <1>12, <1>13, <1>14, <1>15, <1>16, <1>17 DEF StreamInv

LEMMA MatchedKeeps ==
  ASSUME TypeInv, StreamInv, NEW g \in Completers, AllMatched(g)
  PROVE  StreamInv'
<1>1. /\ UNCHANGED <<approved, created, run, stream, streams, chat, failures, handler>>
      /\ completer[g].pc = "match" /\ mu = g /\ mu' = Free
  BY DEF AllMatched, otherVars, chatVars, StreamInv, CompleterInv
<1>2. /\ completer'[g].pc = "next" /\ completer'[g].list = completer[g].list
      /\ \A h \in Completers \ {g}: completer'[h] = completer[h]
  BY DEF AllMatched, TypeInv, TypeOK, CompleterRecord
<1>3. Calm BY <1>1, <1>2, SameFailures DEF Calm, Quiet, SameFlags
<1>4. \A h \in Completers \ {g}: completer[h].pc # "match"
  BY <1>1 DEF StreamInv, CompleterInv
<1>5. handler.pc \notin {"lock", "retag"} BY <1>1 DEF StreamInv, HandlerInv
<1>6. HandlerInv'
  <2>1. completer'["handler"].pc # "idle" <=> completer["handler"].pc # "idle"
    BY <1>1, <1>2 DEF Completers
  <2> QED BY <1>1, <1>5, <2>1 DEF StreamInv, HandlerInv
<1>7. RevokedInv' BY <1>1 DEF StreamInv, RevokedInv
<1>8. CompleterInv(g)'
  <2>1. CompleterInv(g) BY DEF StreamInv
  <2> QED BY <1>1, <1>2, <2>1 DEF CompleterInv, CompleterEnds, InMap
<1>9. \A h \in Completers \ {g}: CompleterInv(h)' BY <1>2, <1>3, <1>4, CalmCompleter
<1> QED BY <1>3, <1>6, <1>7, <1>8, <1>9, CalmKeeps DEF StreamInv

\* The completer marks one of its streams, under the lock of the stream.
LEMMA MarkKeeps ==
  ASSUME TypeInv, StreamInv, NEW g \in Completers, EndStream(g)
  PROVE  StreamInv'
<1>1. /\ UNCHANGED <<approved, created, run, streams, chat, failures, handler, mu>>
      /\ completer[g].pc = "next"
  BY DEF EndStream, mapVars, otherVars, chatVars
<1>2. PICK x \in completer[g].list:
         /\ stream[x].mu = Free
         /\ stream' = [stream EXCEPT ![x] = [Stopped(stream[x]) EXCEPT !.mu = g]]
         /\ completer' = [completer EXCEPT ![g].pc = "call", ![g].stream = x]
  BY DEF EndStream
<1>3. /\ x \in Ids /\ x # None /\ x <= created /\ ~InMap(x) /\ ~stream[x].deleteOnExit
      /\ handler.stream # x /\ ~stream[x].stopped
      /\ \A h \in Completers \ {g}: x \notin completer[h].list
  BY <1>1, CompleterStreamType, ZeroNoId DEF StreamInv, CompleterInv, CompleterEnds
<1>4. /\ stream'[x].mu = g /\ stream'[x].stopped /\ stream'[x].cancelled
      /\ stream'[x].user = stream[x].user /\ stream'[x].deleteOnExit = stream[x].deleteOnExit
      /\ stream'[x].known = stream[x].known
      /\ \A y \in Ids \ {x}: stream'[y] = stream[y]
  BY <1>2, <1>3 DEF Stopped, TypeInv, TypeOK, StreamRecord
<1>5. /\ completer'[g].pc = "call" /\ completer'[g].stream = x
      /\ completer'[g].list = completer[g].list
      /\ \A h \in Completers \ {g}: completer'[h] = completer[h]
  BY <1>2 DEF TypeInv, TypeOK, CompleterRecord
<1>6. chat[x].kind \in {"none", "live"}
  <2>1. run[x].pc # "done" BY <1>3 DEF StreamInv, RunInv
  <2> QED BY <1>3, <2>1 DEF StreamInv, ChatInv, TypeInv, TypeOK, Message
<1>7. \A y \in Ids: InMap(y)' <=> InMap(y) BY <1>1, <1>3, <1>4 DEF InMap
<1>8. MapInv'
  <2>1. \A u \in Users: streams[u] # x BY <1>3, ZeroNoId DEF StreamInv, MapInv, InMap
  <2> QED BY <1>1, <1>4, <2>1, ZeroNoId DEF StreamInv, MapInv, TypeInv, TypeOK
<1>9. FreshInv' BY <1>1 DEF StreamInv, FreshInv
<1>10. HandlerInv'
  <2>1. completer'["handler"].pc # "idle" <=> completer["handler"].pc # "idle"
    BY <1>1, <1>5 DEF Completers
  <2>2. handler.pc \in {"lock", "call"} => stream'[handler.stream] = stream[handler.stream]
    BY <1>3, <1>4, HandlerStreamType
  <2> QED BY <1>1, <2>1, <2>2 DEF StreamInv, HandlerInv
<1>11. RevokedInv' BY <1>1 DEF StreamInv, RevokedInv
<1>12. CompleterInv(g)'
  <2>1. CompleterInv(g) /\ completer[g].list \in SUBSET Ids BY CompleterStreamType DEF StreamInv
  <2>2. \A y \in completer[g].list:
          /\ y <= created /\ ~InMap(y)' /\ ~stream'[y].deleteOnExit /\ handler.stream # y
          /\ \A h \in Completers \ {g}: y \notin completer'[h].list
          /\ stream'[y].stopped <=> y = x
    BY <1>1, <1>3, <1>4, <1>5, <1>7, <2>1 DEF CompleterInv, CompleterEnds
  <2> QED BY <1>1, <1>4, <1>5, <1>6, <2>2 DEF CompleterInv, CompleterEnds
<1>13. ASSUME NEW h \in Completers \ {g} PROVE CompleterInv(h)'
  <2>1. CompleterInv(h) /\ completer[h].list \in SUBSET Ids /\ completer[h].todo \in SUBSET Ids
    BY CompleterStreamType DEF StreamInv
  <2>2. \A y \in completer[h].list: y # x /\ stream'[y] = stream[y] /\ ~InMap(y)'
    BY <1>3, <1>4, <1>7, <2>1 DEF CompleterInv
  <2>3. \A y \in completer[h].list: \A k \in Completers \ {h}: y \notin completer'[k].list
    BY <1>5, <2>1 DEF CompleterInv
  <2>4. \A y \in completer[h].todo: InMap(y) => InMap(y)' BY <1>7, <2>1
  <2> QED BY <1>1, <1>5, <2>1, <2>2, <2>3, <2>4 DEF CompleterInv, CompleterEnds
<1>14. ASSUME NEW y \in Ids PROVE RunInv(y)' /\ ChatInv(y)' /\ Found(y)'
  <2>1. RunInv(y) /\ ChatInv(y) /\ Found(y) BY DEF StreamInv
  <2>2. CASE y = x
    <3>1. run[x].pc # "call" BY <1>2, <2>1, <2>2 DEF RunInv, Free
    <3>2. CompleterEnds(g, x)' BY <1>5 DEF CompleterEnds
    <3> QED BY <1>1, <1>3, <1>4, <2>1, <2>2, <3>1, <3>2 DEF RunInv, ChatInv, Found
  <2>3. CASE y # x
    <3>1. stream'[y] = stream[y] BY <1>4, <2>3
    <3>2. \A h \in Completers: CompleterEnds(h, y) => CompleterEnds(h, y)'
      BY <1>1, <1>5 DEF CompleterEnds
    <3>3. RunInv(y)' BY <1>1, <2>1, <3>1 DEF RunInv
    <3>4. ChatInv(y)' BY <1>1, <2>1, <3>1, <3>2 DEF ChatInv, HandlerEnds
    <3>5. Found(y)' BY <1>1, <1>5, <1>7, <2>1, <3>1 DEF Found, Completing
    <3> QED BY <3>3, <3>4, <3>5
  <2> QED BY <2>2, <2>3
<1> QED BY <1>8, <1>9, <1>10, <1>11, <1>12, <1>13, <1>14 DEF StreamInv

\* The last page of x is published, or was lost: the completer is done with x.
LEMMA FinalKeeps ==
  ASSUME TypeInv, StreamInv, NEW g \in Completers, FinalLine(g)
  PROVE  StreamInv'
<1> DEFINE x == completer[g].stream
<1>1. /\ UNCHANGED <<approved, created, run, streams, handler, mu>>
      /\ completer[g].pc = "call" /\ x \in Ids /\ x \in completer[g].list
      /\ stream[x].mu = g /\ stream[x].stopped
  BY CompleterStreamType DEF FinalLine, mapVars, otherVars, StreamInv, CompleterInv, CompleterEnds
<1>2. Ends(x, "final") BY <1>1, FinalizeEnds DEF FinalLine
<1>3. /\ \A y \in Ids: SameFlags(y) /\ stream'[y].known = stream[y].known
      /\ \A y \in Ids \ {x}: stream'[y].mu = stream[y].mu
  BY <1>1 DEF FinalLine, SameFlags, TypeInv, TypeOK, StreamRecord
<1>4. /\ completer'[g].pc = "next" /\ completer'[g].list = completer[g].list \ {x}
      /\ \A h \in Completers \ {g}: completer'[h] = completer[h]
  BY DEF FinalLine, TypeInv, TypeOK, CompleterRecord
<1>5. /\ x <= created /\ ~InMap(x) /\ handler.stream # x
      /\ \A h \in Completers \ {g}: x \notin completer[h].list
  BY <1>1 DEF StreamInv, CompleterInv
<1> HIDE DEF x
<1>6. MapInv' BY <1>1, <1>3 DEF StreamInv, MapInv, SameFlags, TypeInv, TypeOK
<1>7. FreshInv'
  BY <1>1, <1>2, <1>5, ZeroNoId DEF StreamInv, FreshInv, Ends, TypeInv, TypeOK
<1>8. HandlerInv'
  <2>1. completer'["handler"].pc # "idle" <=> completer["handler"].pc # "idle"
    BY <1>1, <1>4 DEF Completers, x
  <2>2. handler.pc \in {"lock", "call"} =>
          LET y == handler.stream
          IN  SameFlags(y) /\ stream'[y].mu = stream[y].mu /\ chat'[y] = chat[y]
    BY <1>2, <1>3, <1>5, HandlerStreamType DEF Ends
  <2> QED BY <1>1, <2>1, <2>2 DEF StreamInv, HandlerInv, SameFlags
<1>9. RevokedInv' BY <1>1 DEF StreamInv, RevokedInv
<1>10. CompleterInv(g)'
  <2>1. CompleterInv(g) /\ completer[g].list \in SUBSET Ids BY CompleterStreamType DEF StreamInv
  <2>2. \A y \in completer'[g].list:
          /\ y <= created /\ ~InMap(y)' /\ ~stream'[y].deleteOnExit /\ handler.stream # y
          /\ \A h \in Completers \ {g}: y \notin completer'[h].list
          /\ ~stream'[y].stopped
    BY <1>1, <1>3, <1>4, <2>1 DEF CompleterInv, CompleterEnds, InMap, SameFlags, x
  <2> QED BY <1>1, <1>4, <2>2 DEF CompleterInv, CompleterEnds
<1>11. ASSUME NEW h \in Completers \ {g} PROVE CompleterInv(h)'
  <2>1. /\ CompleterInv(h) /\ completer[h].list \in SUBSET Ids /\ completer[h].todo \in SUBSET Ids
    BY CompleterStreamType DEF StreamInv
  <2>2. \A y \in completer[h].list: /\ y # x /\ SameFlags(y) /\ stream'[y].mu = stream[y].mu
                                    /\ chat'[y] = chat[y]
    BY <1>2, <1>3, <1>5, <2>1 DEF Ends
  <2>3. \A y \in completer[h].todo: SameFlags(y) BY <1>3, <2>1
  <2>4. \A k \in Completers: completer'[k].list \subseteq completer[k].list BY <1>4
  <2> QED BY <1>1, <1>4, <2>1, <2>2, <2>3, <2>4
          DEF CompleterInv, CompleterEnds, InMap, SameFlags
<1>12. ASSUME NEW y \in Ids PROVE RunInv(y)' /\ ChatInv(y)' /\ Found(y)'
  <2>1. RunInv(y) /\ ChatInv(y) /\ Found(y) /\ SameFlags(y) BY <1>3 DEF StreamInv
  <2>2. RunInv(y)'
    <3>1. y = x => run[y].pc # "call" BY <1>1, <2>1 DEF RunInv
    <3> QED BY <1>1, <1>3, <2>1, <3>1 DEF RunInv, SameFlags
  <2>3. Completing(y) /\ y # x => Completing(y)' BY <1>4 DEF Completing
  <2>4. Found(y)' BY <1>1, <2>1, <2>3 DEF Found, SameFlags, InMap
  <2>5. ChatInv(y)'
    <3>1. CASE y = x
      <4>1. failures' = 0 => chat'[x].kind # "live" BY <1>2 DEF Ends
      <4> QED BY <1>1, <1>2, <1>3, <2>1, <3>1, <4>1 DEF ChatInv, Ends, SameFlags
    <3>2. CASE y # x
      <4>1. chat'[y] = chat[y] BY <1>2, <3>2 DEF Ends
      <4>2. \A h \in Completers: CompleterEnds(h, y) => CompleterEnds(h, y)'
        BY <1>4, <3>2 DEF CompleterEnds, x
      <4>3. failures' = 0 => failures = 0 BY <1>2 DEF Ends
      <4> QED BY <1>1, <1>3, <2>1, <4>1, <4>2, <4>3 DEF ChatInv, SameFlags, HandlerEnds
    <3> QED BY <3>1, <3>2
  <2> QED BY <2>2, <2>4, <2>5
<1> QED BY <1>6, <1>7, <1>8, <1>9, <1>10, <1>11, <1>12 DEF StreamInv

\* A completer that has ended all its streams is idle again.
LEMMA CompletedKeeps ==
  ASSUME TypeInv, StreamInv, NEW g \in Completers, ActionCompleted(g)
  PROVE  StreamInv'
<1>1. /\ UNCHANGED <<approved, created, run, stream, streams, chat, failures, mu>>
      /\ completer[g].pc = "next" /\ completer[g].list = {}
  BY DEF ActionCompleted, mapVars, otherVars, chatVars
<1>2. /\ completer'[g] = IdleCompleter
      /\ \A h \in Completers \ {g}: completer'[h] = completer[h]
  BY DEF ActionCompleted, TypeInv, TypeOK
<1>3. handler' = IF g = "handler" THEN IdleHandler ELSE handler BY DEF ActionCompleted
<1>4. g = "handler" => /\ handler.pc = "complete" /\ handler.stream = None
                       /\ handler.user \in approved
  BY <1>1 DEF StreamInv, HandlerInv
<1>5. Calm BY <1>1, <1>2, <1>3, <1>4, IdleFields, SameFailures DEF Calm, Quiet, SameFlags
<1>6. HandlerInv'
  <2>1. CASE g = "handler"
    BY <1>1, <1>2, <1>3, <2>1, IdleFields DEF HandlerInv, TypeInv, TypeOK
  <2>2. CASE g # "handler"
    BY <1>1, <1>2, <1>3, <2>2 DEF StreamInv, HandlerInv, Completers
  <2> QED BY <2>1, <2>2
<1>7. RevokedInv' BY <1>1, <1>3, <1>4 DEF StreamInv, RevokedInv
<1>8. CompleterInv(g)' BY <1>2, IdleFields DEF CompleterInv
<1>9. \A h \in Completers \ {g}: CompleterInv(h)' BY <1>1, <1>2, <1>5, CalmCompleter
<1> QED BY <1>5, <1>6, <1>7, <1>8, <1>9, CalmKeeps DEF StreamInv

LEMMA StreamInvNext == TypeInv /\ StreamInv /\ [Next]_vars => StreamInv'
<1> SUFFICES ASSUME TypeInv, StreamInv, [Next]_vars PROVE StreamInv' OBVIOUS
<1>1. CASE UNCHANGED vars
  <2>1. /\ UNCHANGED <<Tables, mu>> /\ UNCHANGED <<stream, run, chat, failures>>
    BY <1>1 DEF vars, mapVars, otherVars, chatVars, Tables
  <2>2. \A y \in Ids: Quiet(y) BY <2>1 DEF Quiet, SameFlags
  <2> QED BY <2>1, <2>2, SameFailures, AllQuiet
<1>2. CASE Calls
  BY <1>2, CommandKeeps, ApproveKeeps, HandleEventKeeps, LogKeeps DEF Calls
<1>3. CASE HandlerStep
  BY <1>3, NewKeeps, ReuseKeeps, RetagKeeps, ControllerKeeps, FindKeeps, StopKeeps,
     OlderKeeps, EndKeeps DEF HandlerStep, StartStream
<1>4. CASE Notify BY <1>4, LogKeeps
<1>5. CASE Shutdown BY <1>5, ShutdownKeeps
<1>6. ASSUME NEW g \in Completers, CompleterStep(g) PROVE StreamInv'
  BY <1>6, UntrackKeeps, MatchKeeps, MatchedKeeps, MarkKeeps, FinalKeeps, CompletedKeeps
     DEF CompleterStep
<1>7. ASSUME NEW x \in Ids, RunStep(x) PROVE StreamInv'
  BY <1>7, RunKeeps
<1> QED BY <1>1, <1>2, <1>3, <1>4, <1>5, <1>6, <1>7 DEF Next

-----------------------------------------------------------------------------
(* What the invariant is for.                                              *)

\* The invariant that the results below rest on: what the map, the handler, the
\* completers and the goroutines of logs.go rely on of each other.
THEOREM StreamInvariant == Spec => [](TypeInv /\ StreamInv)
BY TypeInvInit, TypeInvNext, StreamInvInit, StreamInvNext, PTL DEF Spec

\* A stream that may still publish can be found, or somebody is about to end it:
\* none is lost between the map, stopLocked, revokeLocked and completeAction.
THEOREM NoStreamIsLost == Spec => []NoOrphan
<1>1. StreamInv => NoOrphan BY DEF StreamInv, Found, InMap, NoOrphan
<1> QED BY <1>1, StreamInvariant, PTL

\* Once the revocation of the owner returned, the revoked user has no live message
\* but one that an ending action or the shutdown removes, or that a failed call left.
THEOREM RevokedUserHasNoMessage == Spec => []RevokeRemovesOthers
<1>1. ASSUME TypeInv, StreamInv PROVE RevokeRemovesOthers
  <2> SUFFICES ASSUME NEW x \in Ids, chat[x].kind = "live", stream[x].user \notin approved,
                      failures = 0, handler.user # stream[x].user, ~stream[x].deleteOnExit,
                      ~Completing(x)
               PROVE  FALSE
    BY DEF RevokeRemovesOthers
  <2>1. RunInv(x) /\ ChatInv(x) /\ Found(x) /\ FreshInv /\ HandlerInv /\ RevokedInv
    BY <1>1 DEF StreamInv
  <2>2. x \in Nat /\ x # None /\ created \in Nat /\ stream[x].user \in Users
    BY <1>1, ZeroNoId, BoundsAssumption DEF TypeInv, TypeOK, StreamRecord
  <2>3. handler.stream # x
    <3>1. handler.stream = x => handler.pc \in {"lock", "call"} BY <2>1, <2>2 DEF HandlerInv
    <3> QED BY <2>1, <3>1 DEF HandlerInv
  <2>4. ~InMap(x) BY <2>1, <2>2 DEF RevokedInv, InMap
  <2>5. \A g \in Completers: ~CompleterEnds(g, x)
    BY <1>1 DEF StreamInv, CompleterInv, CompleterEnds, Completing
  <2>6. ~stream[x].stopped BY <2>1, <2>3, <2>5 DEF ChatInv, HandlerEnds
  <2>7. run[x].pc \notin {"none", "exit", "cleanup", "done"}
    BY <2>1, <2>2, <2>6 DEF FreshInv, RunInv
  <2>8. ~stream[x].cancelled BY <2>1, <2>6 DEF RunInv
  <2> QED BY <2>1, <2>3, <2>4, <2>6, <2>7, <2>8 DEF Found
<1> QED BY <1>1, StreamInvariant, PTL

LEMMA FinalStep ==
  ASSUME TypeInv, StreamInv, Next, NEW x \in Ids, chat[x].kind \in {"final", "deleted"}
  PROVE  chat'[x] = chat[x]
<1>1. RunInv(x) /\ ChatInv(x) BY DEF StreamInv
<1>2. CASE Calls \/ Notify \/ Shutdown
  <2>1. ASSUME NEW u \in Users, NEW a \in Action, NEW c \in Commands \ {"revoke"}, Command(c, u, a)
        PROVE  chat'[x] = chat[x]
    BY <2>1 DEF Command, chatVars
  <2>2. ASSUME NEW u \in Users, Revoke(u) \/ Approve(u) PROVE chat'[x] = chat[x]
    BY <2>2 DEF Revoke, Approve, chatVars
  <2>3. CASE HandleEvent \/ AddLog \/ BeginShutdown \/ Notify \/ Shutdown
    BY <2>3 DEF HandleEvent, AddLog, BeginShutdown, Notify, Shutdown, chatVars
  <2> QED BY <1>2, <2>1, <2>2, <2>3 DEF Calls
<1>3. CASE HandlerStep
  <2>1. CASE EndMessage
    <3>1. /\ handler.pc = "call" /\ handler.stream \in Ids
          /\ chat[handler.stream].kind \in {"none", "live"}
      BY <2>1, HandlerStreamType DEF EndMessage, StreamInv, HandlerInv
    <3>2. Ends(handler.stream, "final") \/ Ends(handler.stream, "deleted")
      BY <2>1, <3>1, FinalizeEnds, DeleteEnds DEF EndMessage
    <3> QED BY <3>1, <3>2 DEF Ends
  <2>2. CASE ~EndMessage
    BY <1>3, <2>2 DEF HandlerStep, StartStream, Retag, ControllerReturns, FindStream,
                      StopStream, ShowOlder, chatVars
  <2> QED BY <2>1, <2>2
<1>4. ASSUME NEW g \in Completers, CompleterStep(g) PROVE chat'[x] = chat[x]
  <2>1. CASE FinalLine(g)
    <3>1. completer[g].stream \in Ids /\ chat[completer[g].stream].kind \in {"none", "live"}
      BY <2>1, CompleterStreamType DEF FinalLine, StreamInv, CompleterInv
    <3>2. Ends(completer[g].stream, "final") BY <2>1, <3>1, FinalizeEnds DEF FinalLine
    <3> QED BY <3>1, <3>2 DEF Ends
  <2>2. CASE ~FinalLine(g)
    BY <1>4, <2>2 DEF CompleterStep, UntrackAction, MatchStream, AllMatched, EndStream,
                      ActionCompleted, chatVars
  <2> QED BY <2>1, <2>2
<1>5. ASSUME NEW y \in Ids, RunStep(y) PROVE chat'[x] = chat[x]
  <2>1. CASE EditReturns(y) \/ SendReturns(y)
    <3>1. y # x BY <1>1, <2>1 DEF EditReturns, SendReturns, RunInv, ChatInv
    <3> QED BY <2>1, <3>1 DEF EditReturns, SendReturns, Succeeds, RefreshFails, Showing,
                              TypeInv, TypeOK
  <2>2. CASE CleanupAfterShutdown(y)
    <3>1. y # x BY <1>1, <2>2 DEF CleanupAfterShutdown, RunInv, ChatInv
    <3>2. Ends(y, "deleted") BY <2>2, DeleteEnds DEF CleanupAfterShutdown
    <3> QED BY <3>1, <3>2 DEF Ends
  <2>3. CASE ~EditReturns(y) /\ ~SendReturns(y) /\ ~CleanupAfterShutdown(y)
    BY <1>5, <2>3 DEF RunStep, CheckAccess, ReadLogs, SeeCancel, SeeUpdate, Tick, Leave,
                      OnlyRun, chatVars
  <2> QED BY <2>1, <2>2, <2>3
<1> QED BY <1>2, <1>3, <1>4, <1>5 DEF Next

\* The last page of a message and its deletion are final: no edit or send of a
\* refresh that was under way, no second end and no cleanup changes it.
THEOREM LastPageIsFinal == Spec => FinalStays
<1>1. ASSUME TypeInv, StreamInv, [Next]_vars
      PROVE  [\A x \in Ids: chat[x].kind \in {"final", "deleted"} => chat'[x] = chat[x]]_vars
  BY <1>1, FinalStep
<1> QED BY <1>1, StreamInvariant, PTL DEF Spec, FinalStays
==================================================================================
