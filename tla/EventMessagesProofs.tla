-------------------------- MODULE EventMessagesProofs --------------------------
(***************************************************************************)
(* EventMessages for any number of users, events and failures, any length  *)
(* of a message and any threshold of compaction: its types, that a chat    *)
(* reads its events in order, that a Flush that returns nil has delivered  *)
(* them all, and that only a message that was quiet is ended by its timer. *)
(***************************************************************************)
EXTENDS EventMessages, FiniteSetTheorems, TLAPS

\* The event taken from the queue last.
Taken == accepted - Len(queue) + head

\* The dispatcher has an event; the recipients that are still to get it.
Busy    == dispatcher.pc \in {"snapshot", "push", "call"}
Fresh(u) == Busy /\ (dispatcher.pc = "snapshot" \/ u \in dispatcher.todo)

\* The queue holds the newest events, each of them once.
QueueInv ==
    /\ Len(queue) <= accepted
    /\ \A i \in 1..Len(queue): queue[i] = accepted - Len(queue) + i
    /\ inFlight <=> Busy
    /\ Busy => dispatcher.event = Taken /\ Taken > 0

\* Flush goes on when there is nothing to deliver, and nothing comes after it.
FlushInv ==
    /\ eventStopping <=> flush # "idle"
    /\ flush \in {"shutdown", "end", "call", "ok"} \/ stopping
         => ~inFlight /\ head = Len(queue)
    /\ flush \in {"end", "call", "ok"} => stopping
    /\ stopping => flush \in {"end", "call", "ok", "timeout"}
    /\ flush = "ok" => ~expired /\ \A u \in Users: streams[u] = None

\* Who holds eventStreams.mu.
LockInv ==
    /\ mu = "dispatcher" <=> dispatcher.pc = "call"
    /\ mu = "flush" <=> flush \in {"end", "call"}
    /\ ending # None <=> mu = "timer" \/ flush = "call"
    /\ mu = "timer" => ~stopping
    /\ dispatcher.pc = "call" => streams[dispatcher.user] # None
    /\ flush = "call" => streams[stream[ending].user] = ending
    /\ ending <= created

\* The stream of a user is the newest one; the others are not made yet or over.
StreamInv ==
    /\ \A u \in Users: streams[u] # None =>
         /\ streams[u] <= created /\ stream[streams[u]].user = u
         /\ \A x \in 1..created: stream[x].user = u => x <= streams[u]
    /\ \A x \in Ids: x > created =>
         stream[x] = NoStream /\ message[x] = [kind |-> "none", shown |-> <<>>]

\* The events of a struct: those it has now and those its message shows.
Has(x) == {stream[x].events[i]: i \in DOMAIN stream[x].events}
            \cup {message[x].shown[i]: i \in DOMAIN message[x].shown}

Increasing(es) == \A i, j \in DOMAIN es: i < j => es[i] < es[j]

EventInv(x) ==
    /\ Increasing(stream[x].events) /\ Increasing(message[x].shown)
    /\ \A e \in Has(x): e <= Taken /\ (Fresh(stream[x].user) => e < Taken)

OrderInv ==
    \A x, y \in Ids: x < y /\ stream[x].user = stream[y].user
        => \A d \in Has(x), e \in Has(y): d < e

\* Every push is a new event, and is counted by the generation.
CountInv(x) ==
    x <= created => /\ Len(stream[x].events) > 0
                    /\ stream[x].generation <= stream[x].events[Len(stream[x].events)]

TimerInv ==
    /\ \A x \in Ids: stream[x].timer => stream[x].generation > 0
    /\ \A x \in Ids, g \in Events: <<x, g>> \in fired =>
         g <= stream[x].generation /\ (g = stream[x].generation => quiet[x])
    /\ mu = "timer" => quiet[ending]

LiveInv ==
    \A x \in Ids: message[x].kind = "live" /\ failures = 0 /\ ~expired
        => streams[stream[x].user] = x \/ ending = x

\* The owner has got every event, up to the one that is on its way.
OwnerInv == pushed[Owner] = [i \in 1..(IF Fresh(Owner) THEN Taken - 1 ELSE Taken) |-> i]

MessageInv ==
    /\ QueueInv /\ FlushInv /\ LockInv /\ StreamInv
    /\ \A x \in Ids: EventInv(x) /\ CountInv(x)
    /\ OrderInv /\ TimerInv /\ LiveInv /\ OwnerInv

Inv == TypeOK /\ MessageInv

-----------------------------------------------------------------------------
(* What the operators of the model return.                                 *)

\* The fields of a struct, and of the dispatcher.
StructType     == [user: Users, known: BOOLEAN, events: Window, generation: 0..MaxEvents,
                   timer: BOOLEAN]
DispatcherType == [pc: {"none", "wait", "snapshot", "push", "call", "ended"},
                   event: Events \cup {0}, todo: SUBSET Users, user: Users]

LEMMA WindowIsSeq ==
  ASSUME NEW es \in Window
  PROVE  /\ es \in Seq(Events) /\ Len(es) \in 0..MaxShown /\ DOMAIN es = 1..Len(es)
         /\ \A i \in DOMAIN es: es[i] \in Events
<1>1. PICK n \in 0..MaxShown: es \in [1..n -> Events] BY DEF Window
<1> QED BY <1>1, BoundsAssumption

LEMMA SeqIsWindow ==
  ASSUME NEW es \in Seq(Events), Len(es) <= MaxShown
  PROVE  es \in Window
<1>1. es \in [1..Len(es) -> Events] /\ Len(es) \in 0..MaxShown BY BoundsAssumption
<1> QED BY <1>1 DEF Window

\* Newest drops events from the front only.
LEMMA NewestEffect ==
  ASSUME NEW es \in Window, NEW e \in Events
  PROVE  LET new == Newest(Append(es, e))
         IN  /\ new \in Window /\ Len(new) > 0 /\ new[Len(new)] = e
             /\ \A i \in DOMAIN new: new[i] = e \/ \E j \in DOMAIN es: new[i] = es[j]
             /\ Increasing(es) /\ (\A j \in DOMAIN es: es[j] < e) => Increasing(new)
<1> DEFINE all == Append(es, e)
           k   == IF Len(all) > MaxShown THEN Len(all) - MaxShown + 1 ELSE 1
           new == SubSeq(all, k, Len(all))
<1>1. /\ es \in Seq(Events) /\ Len(es) \in 0..MaxShown /\ DOMAIN es = 1..Len(es)
      /\ \A i \in DOMAIN es: es[i] \in Events
  BY WindowIsSeq
<1>2. /\ all \in Seq(Events) /\ Len(all) = Len(es) + 1 /\ all[Len(all)] = e
      /\ \A i \in 1..Len(es): all[i] = es[i]
  BY <1>1
<1>3. k \in 1..Len(all) /\ Len(all) - k + 1 <= MaxShown /\ k \in Nat
  BY <1>1, <1>2, BoundsAssumption
<1> HIDE DEF all, k
<1>4. /\ new \in Seq(Events) /\ Len(new) = Len(all) - k + 1 /\ DOMAIN new = 1..Len(new)
      /\ \A i \in 1..Len(new): new[i] = all[i + k - 1]
  BY <1>1, <1>2, <1>3
<1>5. new \in Window BY <1>3, <1>4, SeqIsWindow
<1>6. new[Len(new)] = e /\ Len(new) > 0 BY <1>1, <1>2, <1>3, <1>4
<1>7. \A i \in DOMAIN new: new[i] = e \/ (i + k - 1 \in DOMAIN es /\ new[i] = es[i + k - 1])
  BY <1>1, <1>2, <1>3, <1>4
<1>8. Increasing(es) /\ (\A j \in DOMAIN es: es[j] < e) => Increasing(new)
  BY <1>1, <1>2, <1>3, <1>4 DEF Increasing
<1>9. Newest(Append(es, e)) = new BY DEF Newest, all, k
<1> HIDE DEF new
<1> QED BY <1>5, <1>6, <1>7, <1>8, <1>9

\* Compaction drops consumed events only.
LEMMA CompactEffect ==
  ASSUME NEW q \in Seq(Events), NEW h \in 0..Len(q)
  PROVE  LET c == Compact(q, h)
         IN  /\ c.queue \in Seq(Events) /\ c.head \in 0..Len(c.queue)
             /\ Len(c.queue) - c.head = Len(q) - h /\ Len(c.queue) <= Len(q)
             /\ \A i \in 1..Len(c.queue): c.queue[i] = q[i + Len(q) - Len(c.queue)]
<1>1. CASE h > CompactAt /\ h * 2 >= Len(q)
  <2> DEFINE new == SubSeq(q, h + 1, Len(q))
  <2>1. /\ new \in Seq(Events) /\ Len(new) = Len(q) - h
        /\ \A i \in 1..Len(new): new[i] = q[i + h]
    OBVIOUS
  <2>2. Compact(q, h).queue = new /\ Compact(q, h).head = 0 BY <1>1 DEF Compact
  <2> HIDE DEF new
  <2>3. \A i \in 1..Len(new): i + Len(q) - Len(new) = i + h BY <2>1
  <2>4. \A i \in 1..Len(new): new[i] = q[i + Len(q) - Len(new)] BY <2>1, <2>3
  <2>5. /\ new \in Seq(Events) /\ 0 \in 0..Len(new) /\ Len(new) - 0 = Len(q) - h
        /\ Len(new) <= Len(q)
    BY <2>1
  <2> QED BY <2>2, <2>4, <2>5
<1>2. CASE ~(h > CompactAt /\ h * 2 >= Len(q))
  <2>1. Compact(q, h).queue = q /\ Compact(q, h).head = h BY <1>2 DEF Compact
  <2> QED BY <2>1
<1> QED BY <1>1, <1>2

LEMMA EventTypes ==
  ASSUME TypeOK
  PROVE  /\ Len(queue) \in Nat /\ head \in Nat /\ accepted \in Nat /\ Taken \in Int
         /\ head <= Len(queue)
BY BoundsAssumption DEF TypeOK, Taken

LEMMA EventTypesNext ==
  ASSUME TypeOK'
  PROVE  Taken' \in Int
BY BoundsAssumption DEF TypeOK, Taken

\* Has(x) is made of events.
LEMMA HasEvents ==
  ASSUME TypeOK, NEW x \in Ids
  PROVE  Has(x) \subseteq Events
<1>1. stream[x].events \in Window /\ message[x].shown \in Window
  BY DEF TypeOK, Message
<1> QED BY <1>1, WindowIsSeq DEF Has

-----------------------------------------------------------------------------
(* There is a struct for every push, because the last events of two        *)
(* structs of a user differ.                                               *)

LEMMA IdsRange ==
  ASSUME TypeOK
  PROVE  created \in Nat /\ 1..created \subseteq Ids /\ \A x \in Ids: x \in Nat \ {None}
<1>1. Cardinality(Users) \in Nat BY UsersAssumption, FS_CardinalityType
<1>2. MaxEvents * Cardinality(Users) \in Nat BY <1>1, BoundsAssumption
<1> QED BY <1>2 DEF TypeOK, Ids, None

LEMMA HasLast ==
  ASSUME Inv, NEW x \in 1..created
  PROVE  /\ x \in Ids /\ stream[x].events[Len(stream[x].events)] \in Has(x) \cap Events
         /\ stream[x].user \in Users
<1>1. x \in Ids BY IdsRange DEF Inv
<1>2. stream[x].events \in Window /\ stream[x].user \in Users BY <1>1 DEF Inv, TypeOK
<1>3. Len(stream[x].events) > 0 BY <1>1 DEF Inv, MessageInv, CountInv
<1>4. Len(stream[x].events) \in DOMAIN stream[x].events BY <1>2, <1>3, WindowIsSeq
<1> QED BY <1>1, <1>2, <1>4, WindowIsSeq DEF Has

LEMMA RoomForStruct ==
  ASSUME Inv, NEW u \in Users, Fresh(u)
  PROVE  created + 1 \in Ids
<1> DEFINE last(x) == stream[x].events[Len(stream[x].events)]
           f == [x \in 1..created |-> <<stream[x].user, last(x)>>]
           All == Users \X Events
           T == All \ {<<u, Taken>>}
<1>1. created \in Nat /\ Taken \in Events
  BY EventTypes DEF Inv, TypeOK, MessageInv, QueueInv, Fresh, Events, Taken
<1>2. ASSUME NEW x \in 1..created PROVE f[x] \in T
  <2>1. stream[x].user = u => last(x) < Taken
    BY HasLast DEF Inv, MessageInv, EventInv
  <2> QED BY <1>1, <2>1, HasLast DEF Events
<1>3. ASSUME NEW x \in 1..created, NEW y \in 1..created, f[x] = f[y] PROVE x = y
  <2>1. stream[x].user = stream[y].user /\ last(x) = last(y) BY <1>3
  <2>2. last(x) \in Has(x) /\ last(y) \in Has(y) /\ last(x) \in Int /\ x \in Ids /\ y \in Ids
    BY HasLast DEF Events
  <2>3. ~(x < y) /\ ~(y < x) BY <2>1, <2>2 DEF Inv, MessageInv, OrderInv
  <2> QED BY <1>1, <2>3
<1>4. f \in Injection(1..created, T)
  BY <1>2, <1>3 DEF Injection, IsInjective
<1>5. IsFiniteSet(Users) /\ IsFiniteSet(Events) /\ Cardinality(Events) = MaxEvents
  BY UsersAssumption, BoundsAssumption, FS_Interval DEF Events
<1>6. IsFiniteSet(All) /\ Cardinality(All) = Cardinality(Users) * MaxEvents
  BY <1>5, FS_Product
<1>7. IsFiniteSet(T) /\ Cardinality(T) = Cardinality(Users) * MaxEvents - 1
  <2>1. <<u, Taken>> \in All BY <1>1
  <2> HIDE DEF All
  <2> QED BY <1>6, <2>1, FS_RemoveElement
<1>8. created <= Cardinality(Users) * MaxEvents - 1
  <2>1. Cardinality(1..created) = created BY <1>1, FS_Interval
  <2> HIDE DEF T, f
  <2> QED BY <1>4, <1>7, <2>1, FS_Injection
<1>9. Cardinality(Users) \in Nat BY <1>5, FS_CardinalityType
<1> QED BY <1>1, <1>8, <1>9, BoundsAssumption DEF Ids

-----------------------------------------------------------------------------
(* What a push does to the struct of the user.                             *)

Target(u) == IF streams[u] = None THEN created + 1 ELSE streams[u]

LEMMA TargetFacts ==
  ASSUME Inv, NEW u \in Users, Fresh(u)
  PROVE  /\ Target(u) \in Ids /\ Taken \in Events /\ dispatcher.event = Taken
         /\ streams[u] = None => stream[Target(u)] = NoStream
         /\ streams[u] # None => Target(u) <= created /\ stream[Target(u)].user = u
         /\ stream[Target(u)].generation < Taken
         /\ \A e \in Has(Target(u)): e < Taken
<1> DEFINE x == Target(u)
<1>1. x \in Ids BY RoomForStruct DEF Target, Inv, TypeOK
<1>2. Taken \in Events /\ dispatcher.event = Taken /\ created \in Nat
  BY EventTypes DEF Inv, TypeOK, MessageInv, QueueInv, Fresh, Events, Taken
<1>3. CASE streams[u] = None
  <2>1. stream[x] = NoStream /\ message[x] = [kind |-> "none", shown |-> <<>>]
    BY <1>1, <1>2, <1>3 DEF Inv, MessageInv, StreamInv, Target
  <2>2. Has(x) = {} BY <2>1 DEF Has, NoStream
  <2> QED BY <1>1, <1>2, <1>3, <2>1, <2>2 DEF NoStream, Events
<1>4. CASE streams[u] # None
  <2>1. x <= created /\ stream[x].user = u /\ x \in 1..created
    BY <1>1, <1>2, <1>4, IdsRange DEF Inv, MessageInv, StreamInv, Target, Ids
  <2>2. \A e \in Has(x): e < Taken BY <1>1, <2>1 DEF Inv, MessageInv, EventInv
  <2>3. stream[x].generation <= stream[x].events[Len(stream[x].events)]
    BY <1>1, <2>1 DEF Inv, MessageInv, CountInv
  <2>4. stream[x].generation \in Int BY <1>1 DEF Inv, TypeOK
  <2>5. stream[x].generation < Taken BY <1>2, <2>1, <2>2, <2>3, <2>4, HasLast DEF Events
  <2> QED BY <1>1, <1>2, <1>4, <2>1, <2>2, <2>5
<1> QED BY <1>3, <1>4

LEMMA PushEffect ==
  ASSUME Inv, NEW u \in Users, Push(u)
  PROVE  LET x == Target(u)
         IN  /\ Fresh(u) /\ mu = Free /\ ~stopping /\ dispatcher.pc = "push"
             /\ dispatcher' = [dispatcher EXCEPT !.pc = "call", !.todo = @ \ {u}, !.user = u]
             /\ mu' = "dispatcher" /\ streams' = [streams EXCEPT ![u] = x]
             /\ created' = IF streams[u] = None THEN x ELSE created
             /\ pushed' = [pushed EXCEPT ![u] = Append(@, Taken)]
             /\ quiet' = [quiet EXCEPT ![x] = FALSE]
             /\ stream' \in [Ids -> StructType] /\ \A y \in Ids \ {x}: stream'[y] = stream[y]
             /\ stream'[x].user = u /\ stream'[x].generation = stream[x].generation + 1
             /\ stream'[x].timer /\ stream'[x].events = Newest(Append(stream[x].events, Taken))
             /\ UNCHANGED <<approved, queueVars, ending, stopping, fired, flushVars, chatVars>>
<1> DEFINE x == Target(u)
           s == IF streams[u] = None THEN [NoStream EXCEPT !.user = u] ELSE stream[x]
           new == Newest(Append(stream[x].events, Taken))
           r == [ResetTimer(s) EXCEPT !.events = Newest(Append(@, dispatcher.event))]
<1>1. dispatcher.pc = "push" /\ u \in dispatcher.todo /\ mu = Free
      /\ UNCHANGED <<approved, queueVars, ending, stopping, fired, flushVars, chatVars>>
  BY DEF Push
<1>2. Fresh(u) BY <1>1 DEF Fresh, Busy
<1>3. ~stopping BY <1>1 DEF Inv, MessageInv, QueueInv, FlushInv, Busy
<1>4. /\ x \in Ids /\ Taken \in Events /\ dispatcher.event = Taken
      /\ stream[x].generation < Taken
      /\ streams[u] = None => stream[x] = NoStream
      /\ streams[u] # None => stream[x].user = u
  BY <1>2, TargetFacts
<1>5. /\ dispatcher' = [dispatcher EXCEPT !.pc = "call", !.todo = @ \ {u}, !.user = u]
      /\ mu' = "dispatcher" /\ streams' = [streams EXCEPT ![u] = x]
      /\ created' = IF streams[u] = None THEN x ELSE created
      /\ pushed' = [pushed EXCEPT ![u] = Append(@, Taken)]
      /\ quiet' = [quiet EXCEPT ![x] = FALSE]
      /\ stream' = [stream EXCEPT ![x] = r]
  BY <1>3, <1>4 DEF Push, Target
<1>6. stream[x] \in StructType BY <1>4 DEF Inv, TypeOK, StructType
<1>7. s \in StructType /\ s.events = stream[x].events /\ s.generation = stream[x].generation
      /\ s.user = u
  <2>1. CASE streams[u] = None
    <3>1. s = [NoStream EXCEPT !.user = u] /\ stream[x] = NoStream BY <1>4, <2>1
    <3> QED BY <1>6, <3>1 DEF NoStream, StructType
  <2>2. CASE streams[u] # None BY <1>4, <1>6, <2>2
  <2> QED BY <2>1, <2>2
<1>8. new \in Window BY <1>4, <1>6, NewestEffect DEF StructType
<1>9. stream[x].generation + 1 \in 0..MaxEvents
  BY <1>4, <1>6, BoundsAssumption DEF StructType, Events
<1>10. r = [s EXCEPT !.generation = @ + 1, !.timer = TRUE, !.events = new]
  <2> HIDE DEF s
  <2> QED BY <1>4, <1>7 DEF ResetTimer, StructType
<1>11. r \in StructType /\ r.user = u /\ r.generation = stream[x].generation + 1 /\ r.timer
       /\ r.events = new
  <2> HIDE DEF s, new, r
  <2> QED BY <1>7, <1>8, <1>9, <1>10 DEF StructType
<1>12. stream \in [Ids -> StructType] BY DEF Inv, TypeOK, StructType
<1> HIDE DEF r, x
<1>13. stream' \in [Ids -> StructType] /\ stream'[x] = r /\ \A y \in Ids \ {x}: stream'[y] = stream[y]
  BY <1>4, <1>5, <1>11, <1>12
<1> QED BY <1>1, <1>2, <1>3, <1>5, <1>11, <1>13 DEF x

-----------------------------------------------------------------------------
(* Type correctness.                                                       *)

LEMMA InitialTypes ==
  /\ <<>> \in Window /\ NoStream \in StructType
  /\ IdleDispatcher \in DispatcherType /\ [IdleDispatcher EXCEPT !.pc = "none"] \in DispatcherType
<1>1. <<>> \in Window
  <2>1. <<>> \in Seq(Events) /\ Len(<<>>) <= MaxShown BY BoundsAssumption
  <2> QED BY <2>1, SeqIsWindow
<1>2. NoStream \in StructType
  BY <1>1, UsersAssumption, BoundsAssumption DEF NoStream, StructType
<1>3. IdleDispatcher \in DispatcherType BY UsersAssumption DEF IdleDispatcher, DispatcherType
<1> QED BY <1>1, <1>2, <1>3 DEF DispatcherType

LEMMA TypesInit == Init => TypeOK
<1> SUFFICES ASSUME Init PROVE TypeOK OBVIOUS
<1>1. /\ stream \in [Ids -> StructType] /\ dispatcher \in DispatcherType
      /\ message \in [Ids -> Message]
  BY InitialTypes DEF Init, Message
<1>2. queue \in Seq(Events) /\ head \in 0..Len(queue) /\ pushed \in [Users -> Seq(Events)]
  BY DEF Init
<1>3. created \in 0..(MaxEvents * Cardinality(Users)) /\ failures \in 0..MaxFailures
      /\ accepted \in 0..MaxEvents
  <2>1. MaxEvents * Cardinality(Users) \in Nat
    BY UsersAssumption, BoundsAssumption, FS_CardinalityType
  <2> QED BY <2>1, BoundsAssumption DEF Init
<1> QED BY <1>1, <1>2, <1>3 DEF Init, TypeOK, StructType, DispatcherType

\* The dispatcher and the queue.
LEMMA QueueTypes ==
  ASSUME TypeOK,
         \/ \E u \in Users: Decide(u)
         \/ Notify \/ StartDispatcher \/ DispatchTakes \/ Recipients \/ DispatchDone \/ DispatchEnds
  PROVE  TypeOK'
<1> USE DEF queueVars, streamVars, lockVars, flushVars, chatVars
<1>0. dispatcher \in DispatcherType BY DEF TypeOK, DispatcherType
<1>1. CASE \E u \in Users: Decide(u)
  BY <1>1 DEF Decide, TypeOK
<1>2. CASE Notify
  <2>1. accepted + 1 \in Events /\ accepted' \in 0..MaxEvents
    BY <1>2, BoundsAssumption DEF Notify, TypeOK, Events
  <2>2. queue' \in Seq(Events) /\ head \in 0..Len(queue')
    BY <1>2, <2>1, EventTypes DEF Notify, TypeOK
  <2> QED BY <1>2, <2>1, <2>2 DEF Notify, TypeOK
<1>3. CASE StartDispatcher \/ Recipients \/ DispatchEnds
  <2>1. dispatcher' \in DispatcherType
    <3>1. CASE StartDispatcher BY <3>1, InitialTypes DEF StartDispatcher
    <3>2. CASE Recipients
      <4>1. {Owner} \cup approved \in SUBSET Users BY UsersAssumption DEF TypeOK
      <4> QED BY <1>0, <3>2, <4>1 DEF Recipients, DispatcherType
    <3>3. CASE DispatchEnds BY <1>0, <3>3 DEF DispatchEnds, DispatcherType
    <3> QED BY <1>3, <3>1, <3>2, <3>3
  <2> QED BY <1>3, <2>1 DEF StartDispatcher, Recipients, DispatchEnds, TypeOK, DispatcherType
<1>4. CASE DispatchTakes
  <2>1. queue[head + 1] \in Events /\ head + 1 \in 0..Len(queue)
    BY <1>4, EventTypes DEF DispatchTakes, TypeOK
  <2>2. dispatcher' \in DispatcherType BY <1>0, <1>4, <2>1 DEF DispatchTakes, DispatcherType
  <2> QED BY <1>4, <2>1, <2>2 DEF DispatchTakes, TypeOK, DispatcherType
<1>5. CASE DispatchDone
  <2>1. queue' \in Seq(Events) /\ head' \in 0..Len(queue')
    BY <1>5, CompactEffect DEF DispatchDone, TypeOK
  <2>2. dispatcher' \in DispatcherType BY <1>5, InitialTypes DEF DispatchDone
  <2> QED BY <1>5, <2>1, <2>2 DEF DispatchDone, TypeOK, DispatcherType
<1> QED BY <1>1, <1>2, <1>3, <1>4, <1>5

\* A field of one struct is set that the events do not depend on.
LEMMA StructSet ==
  ASSUME NEW s \in StructType, NEW b \in BOOLEAN
  PROVE  LET k == [s EXCEPT !.known = b]
             t == [s EXCEPT !.timer = b]
         IN  /\ k \in StructType /\ k.user = s.user /\ k.events = s.events
             /\ k.generation = s.generation /\ k.timer = s.timer
             /\ t \in StructType /\ t.user = s.user /\ t.events = s.events
             /\ t.generation = s.generation /\ t.timer = b
BY DEF StructType

\* A message shows what its struct holds.
LEMMA ShowsType ==
  ASSUME TypeOK, NEW x \in Ids, NEW kind \in {"none", "live", "final", "stray"},
         Succeeds(x, kind) \/ Fails(x, kind)
  PROVE  /\ message' \in [Ids -> Message] /\ failures' \in 0..MaxFailures
         /\ \A y \in Ids \ {x}: message'[y] = message[y]
         /\ message'[x] \in {message[x], [kind |-> kind, shown |-> stream[x].events]}
         /\ failures' = 0 => failures = 0 /\ message'[x].kind = kind
<1> DEFINE new == [kind |-> kind, shown |-> stream[x].events]
<1>1. new \in Message BY DEF TypeOK, Message
<1>2. \/ failures' = failures /\ message' = [message EXCEPT ![x] = new]
      \/ /\ failures < MaxFailures /\ failures' = failures + 1
         /\ message' \in {message, [message EXCEPT ![x] = new]}
  <2>1. CASE Succeeds(x, kind) BY <2>1 DEF Succeeds, Shows
  <2>2. CASE Fails(x, kind) BY <2>2 DEF Fails, Shows
  <2> QED BY <2>1, <2>2
<1>3. new.kind = kind OBVIOUS
<1> HIDE DEF new
<1>4. message \in [Ids -> Message] BY DEF TypeOK
<1>5. /\ message' \in [Ids -> Message] /\ \A y \in Ids \ {x}: message'[y] = message[y]
      /\ message'[x] \in {message[x], new}
  BY <1>1, <1>2, <1>4
<1>6. failures' \in 0..MaxFailures /\ (failures' = 0 => failures = 0 /\ message'[x].kind = kind)
  BY <1>2, <1>3, <1>4, BoundsAssumption DEF TypeOK
<1> QED BY <1>5, <1>6 DEF new

\* The call of a push returns.
LEMMA ReturnTypes ==
  ASSUME Inv, SendReturns \/ EditReturns
  PROVE  LET x == streams[dispatcher.user]
         IN  /\ x \in Ids /\ stream[x].user = dispatcher.user /\ x <= created
             /\ dispatcher.pc = "call" /\ dispatcher.user \in Users
             /\ \E kind \in {"live", "stray"}:
                  /\ Succeeds(x, kind) \/ Fails(x, kind)
                  /\ streams' = streams \/ (streams' = [streams EXCEPT ![dispatcher.user] = None]
                                           /\ kind = "stray" /\ failures' = failures + 1)
                  /\ failures' = failures => kind = "live"
             /\ stream' \in [Ids -> StructType]
             /\ \A y \in Ids: /\ stream'[y].user = stream[y].user
                              /\ stream'[y].events = stream[y].events
                              /\ stream'[y].generation = stream[y].generation
                              /\ stream'[y].timer => stream[y].timer
                              /\ y > created => stream'[y] = stream[y]
             /\ dispatcher' = [dispatcher EXCEPT !.pc = "push"] /\ mu' = Free
             /\ UNCHANGED <<approved, queueVars, ending, stopping, created, pushed, quiet, fired,
                            flushVars>>
<1> DEFINE x == streams[dispatcher.user]
<1>1. dispatcher.pc = "call" /\ dispatcher.user \in Users BY DEF SendReturns, EditReturns, Inv, TypeOK
<1>2. x \in Ids /\ stream[x].user = dispatcher.user /\ x <= created
  BY <1>1 DEF Inv, TypeOK, MessageInv, LockInv, StreamInv
<1>3. stream \in [Ids -> StructType] /\ x \in Nat /\ created \in Nat
  BY <1>2, IdsRange DEF Inv, TypeOK, StructType
<1>4. \/ stream' = stream \/ stream' = [stream EXCEPT ![x].known = TRUE]
      \/ stream' = [stream EXCEPT ![x].timer = FALSE]
  BY DEF SendReturns, EditReturns
<1> HIDE DEF x
<1>5. /\ stream' \in [Ids -> StructType]
      /\ \A y \in Ids: /\ stream'[y].user = stream[y].user
                       /\ stream'[y].events = stream[y].events
                       /\ stream'[y].generation = stream[y].generation
                       /\ stream'[y].timer => stream[y].timer
                       /\ y > created => stream'[y] = stream[y]
  <2>1. CASE stream' = stream BY <1>3, <2>1
  <2>2. CASE stream' = [stream EXCEPT ![x].known = TRUE]
    <3> DEFINE new == [stream[x] EXCEPT !.known = TRUE]
    <3>1. stream' = [stream EXCEPT ![x] = new] BY <2>2
    <3>2. /\ new \in StructType /\ new.user = stream[x].user /\ new.events = stream[x].events
          /\ new.generation = stream[x].generation /\ new.timer = stream[x].timer
      BY <1>2, <1>3, StructSet
    <3> HIDE DEF new
    <3> QED BY <1>2, <1>3, <3>1, <3>2
  <2>3. CASE stream' = [stream EXCEPT ![x].timer = FALSE]
    <3> DEFINE new == [stream[x] EXCEPT !.timer = FALSE]
    <3>1. stream' = [stream EXCEPT ![x] = new] BY <2>3
    <3>2. /\ new \in StructType /\ new.user = stream[x].user /\ new.events = stream[x].events
          /\ new.generation = stream[x].generation /\ new.timer = FALSE
      BY <1>2, <1>3, StructSet
    <3> HIDE DEF new
    <3> QED BY <1>2, <1>3, <3>1, <3>2
  <2> QED BY <1>4, <2>1, <2>2, <2>3
<1>6. \E kind \in {"live", "stray"}:
        /\ Succeeds(x, kind) \/ Fails(x, kind)
        /\ streams' = streams \/ (streams' = [streams EXCEPT ![dispatcher.user] = None]
                                 /\ kind = "stray" /\ failures' = failures + 1)
        /\ failures' = failures => kind = "live"
  <2>1. failures \in Nat BY BoundsAssumption DEF Inv, TypeOK
  <2> QED BY <2>1 DEF SendReturns, EditReturns, Succeeds, Fails, x
<1> QED BY <1>1, <1>2, <1>5, <1>6 DEF SendReturns, EditReturns, Returns, x


LEMMA PushTypes ==
  ASSUME Inv, (\E u \in Users: Push(u)) \/ SendReturns \/ EditReturns
  PROVE  TypeOK'
<1>0. TypeOK /\ dispatcher \in DispatcherType BY DEF Inv, TypeOK, DispatcherType
<1> USE DEF queueVars, streamVars, lockVars, flushVars, chatVars
<1>1. ASSUME NEW u \in Users, Push(u) PROVE TypeOK'
  <2>1. Fresh(u) BY <1>1, PushEffect
  <2>2. Target(u) \in Ids /\ Taken \in Events BY <2>1, TargetFacts
  <2>3. dispatcher' \in DispatcherType
    <3>1. dispatcher' = [dispatcher EXCEPT !.pc = "call", !.todo = @ \ {u}, !.user = u]
      BY <1>1, PushEffect
    <3> QED BY <1>0, <3>1 DEF DispatcherType
  <2> DEFINE x == Target(u)
  <2>8. /\ streams' = [streams EXCEPT ![u] = x] /\ created' \in {x, created}
        /\ pushed' = [pushed EXCEPT ![u] = Append(@, Taken)]
        /\ quiet' = [quiet EXCEPT ![x] = FALSE]
    BY <1>1, PushEffect
  <2> HIDE DEF x
  <2>4. created' \in 0..(MaxEvents * Cardinality(Users))
    BY <1>0, <2>2, <2>8 DEF TypeOK, Ids, x
  <2>5. pushed' \in [Users -> Seq(Events)] BY <1>0, <2>2, <2>8 DEF TypeOK
  <2>6. streams' \in [Users -> Ids \cup {None}] /\ quiet' \in [Ids -> BOOLEAN]
    BY <1>0, <2>2, <2>8 DEF TypeOK, x
  <2>7. stream' \in [Ids -> StructType] /\ mu' = "dispatcher"
        /\ UNCHANGED <<approved, queueVars, ending, stopping, fired, flushVars, chatVars>>
    BY <1>1, PushEffect
  <2> QED BY <1>0, <2>3, <2>4, <2>5, <2>6, <2>7 DEF TypeOK, StructType, DispatcherType
<1>2. CASE SendReturns \/ EditReturns
  <2> DEFINE x == streams[dispatcher.user]
  <2>1. x \in Ids /\ dispatcher.user \in Users
        /\ UNCHANGED <<approved, queueVars, ending, stopping, created, pushed, quiet, fired, flushVars>>
        /\ stream' \in [Ids -> StructType] /\ mu' = Free
        /\ dispatcher' = [dispatcher EXCEPT !.pc = "push"]
        /\ (streams' = streams \/ streams' = [streams EXCEPT ![dispatcher.user] = None])
    BY <1>2, ReturnTypes
  <2>2. message' \in [Ids -> Message] /\ failures' \in 0..MaxFailures
    BY <1>0, <1>2, ReturnTypes, ShowsType
  <2>3. dispatcher' \in DispatcherType BY <1>0, <2>1 DEF DispatcherType
  <2>4. streams' \in [Users -> Ids \cup {None}] BY <1>0, <2>1 DEF TypeOK
  <2> QED BY <1>0, <2>1, <2>2, <2>3, <2>4 DEF TypeOK, StructType, DispatcherType
<1> QED BY <1>1, <1>2

\* A timer fires for the generation it was started for, and shutdown stops those
\* that run.
LEMMA TimerFields ==
  ASSUME TypeOK, StopTimers \/ \E x \in Ids: Fire(x)
  PROVE  /\ stream' \in [Ids -> StructType]
         /\ \A y \in Ids: /\ stream'[y].user = stream[y].user /\ stream'[y].events = stream[y].events
                          /\ stream'[y].generation = stream[y].generation
                          /\ stream'[y].timer => stream[y].timer
                          /\ ~stream[y].timer => stream'[y] = stream[y]
<1>1. stream \in [Ids -> StructType] BY DEF TypeOK, StructType
<1>2. CASE StopTimers
  <2> DEFINE new(x) == [stream[x] EXCEPT !.timer = @ /\ streams[stream[x].user] # x]
  <2>1. stream' = [x \in Ids |-> new(x)] BY <1>2 DEF StopTimers
  <2>2. ASSUME NEW x \in Ids
        PROVE  /\ new(x) \in StructType /\ new(x).user = stream[x].user
               /\ new(x).events = stream[x].events /\ new(x).generation = stream[x].generation
               /\ new(x).timer => stream[x].timer
               /\ ~stream[x].timer => new(x) = stream[x]
    <3>1. stream[x] \in StructType BY <1>1
    <3>2. CASE streams[stream[x].user] # x
      <4>1. new(x) = stream[x] BY <3>1, <3>2 DEF StructType
      <4> QED BY <3>1, <4>1
    <3>3. CASE streams[stream[x].user] = x
      <4> DEFINE s == [stream[x] EXCEPT !.timer = FALSE]
      <4>1. new(x) = s BY <3>1, <3>3
      <4>2. /\ s \in StructType /\ s.user = stream[x].user /\ s.events = stream[x].events
            /\ s.generation = stream[x].generation /\ s.timer = FALSE
        BY <3>1, StructSet
      <4>3. ~stream[x].timer => s = stream[x] BY <3>1 DEF StructType
      <4> HIDE DEF new, s
      <4> QED BY <4>1, <4>2, <4>3
    <3> QED BY <3>2, <3>3
  <2> HIDE DEF new
  <2> QED BY <2>1, <2>2
<1>3. ASSUME NEW x \in Ids, Fire(x)
      PROVE  /\ stream' \in [Ids -> StructType]
             /\ \A y \in Ids: /\ stream'[y].user = stream[y].user
                              /\ stream'[y].events = stream[y].events
                              /\ stream'[y].generation = stream[y].generation
                              /\ stream'[y].timer => stream[y].timer
                              /\ ~stream[y].timer => stream'[y] = stream[y]
  <2> DEFINE new == [stream[x] EXCEPT !.timer = FALSE]
  <2>1. stream' = [stream EXCEPT ![x] = new] /\ stream[x].timer BY <1>3 DEF Fire
  <2>2. /\ new \in StructType /\ new.user = stream[x].user /\ new.events = stream[x].events
        /\ new.generation = stream[x].generation
    BY <1>1, StructSet
  <2> HIDE DEF new
  <2> QED BY <1>1, <2>1, <2>2
<1> QED BY <1>2, <1>3

LEMMA TimerTypes ==
  ASSUME Inv, TimerStep \/ IdleReturns
  PROVE  TypeOK'
<1>0. TypeOK BY DEF Inv
<1> USE DEF queueVars, streamVars, lockVars, flushVars, chatVars
<1>1. ASSUME NEW x \in Ids, Fire(x) PROVE TypeOK'
  <2>1. stream' \in [Ids -> StructType] BY <1>0, <1>1, TimerFields
  <2>2. stream[x].generation \in Events
    BY <1>0, <1>1 DEF Fire, Inv, MessageInv, TimerInv, TypeOK, Events
  <2> QED BY <1>0, <1>1, <2>1, <2>2 DEF Fire, TypeOK, StructType
<1>2. ASSUME NEW x \in Ids, NEW g \in Events, FinalizeIdle(x, g) PROVE TypeOK'
  <2>1. stream[x].user \in Users BY <1>0 DEF TypeOK
  <2> QED BY <1>0, <1>2, <2>1 DEF FinalizeIdle, TypeOK
<1>3. CASE IdleReturns
  <2>1. ending \in Ids BY <1>0, <1>3 DEF IdleReturns, Inv, MessageInv, LockInv, TypeOK
  <2>2. message' \in [Ids -> Message] /\ failures' \in 0..MaxFailures
    BY <1>0, <1>3, <2>1, ShowsType DEF IdleReturns, Finalize
  <2> QED BY <1>0, <1>3, <2>2 DEF IdleReturns, TypeOK
<1> QED BY <1>1, <1>2, <1>3 DEF TimerStep

LEMMA FlushTypes ==
  ASSUME Inv, FlushStarts \/ Expire \/ FlushStep
  PROVE  TypeOK'
<1>0. TypeOK BY DEF Inv
<1> USE DEF queueVars, streamVars, lockVars, flushVars, chatVars, Waiting
<1>1. CASE FlushStarts \/ Expire \/ LogStreamsEnd
  BY <1>0, <1>1 DEF FlushStarts, Expire, LogStreamsEnd, TypeOK
<1>2. CASE FlushWaits
  <2>1. queue' \in Seq(Events) /\ head' \in 0..Len(queue')
    <3>1. UNCHANGED <<queue, head>> \/ (queue' = <<>> /\ head' = 0) BY <1>2 DEF FlushWaits
    <3>2. CASE UNCHANGED <<queue, head>> BY <1>0, <3>2 DEF TypeOK
    <3>3. CASE queue' = <<>> /\ head' = 0 BY <3>3
    <3> QED BY <3>1, <3>2, <3>3
  <2> QED BY <1>0, <1>2, <2>1 DEF FlushWaits, TypeOK
<1>3. CASE StopTimers
  <2>1. stream' \in [Ids -> StructType] BY <1>0, <1>3, TimerFields
  <2> QED BY <1>0, <1>3, <2>1 DEF StopTimers, TypeOK, StructType
<1>4. ASSUME NEW u \in Users, EndNext(u) PROVE TypeOK'
  BY <1>0, <1>4 DEF EndNext, TypeOK
<1>5. CASE EndReturns
  <2>1. ending \in Ids BY <1>0, <1>5 DEF EndReturns, Inv, MessageInv, LockInv, TypeOK
  <2>2. message' \in [Ids -> Message] /\ failures' \in 0..MaxFailures
    BY <1>0, <1>5, <2>1, ShowsType DEF EndReturns, Finalize, TypeOK
  <2>3. streams' \in [Users -> Ids \cup {None}] BY <1>0, <1>5, <2>1 DEF EndReturns, TypeOK
  <2> QED BY <1>0, <1>5, <2>2, <2>3 DEF EndReturns, TypeOK
<1>6. CASE FlushEnds BY <1>0, <1>6 DEF FlushEnds, TypeOK
<1> QED BY <1>1, <1>2, <1>3, <1>4, <1>5, <1>6 DEF FlushStep

LEMMA TypesNext == Inv /\ [Next]_vars => TypeOK'
<1> SUFFICES ASSUME Inv, [Next]_vars PROVE TypeOK' OBVIOUS
<1>0. TypeOK BY DEF Inv
<1>1. CASE UNCHANGED vars
  BY <1>0, <1>1 DEF vars, queueVars, streamVars, lockVars, flushVars, chatVars, TypeOK
<1>2. CASE Next
  BY <1>0, <1>2, QueueTypes, PushTypes, TimerTypes, FlushTypes DEF Next, DispatcherStep
<1> QED BY <1>1, <1>2

-----------------------------------------------------------------------------
(* The queue keeps the invariant.                                          *)

\* Every step but a push: no event is added to a struct, and a message shows at
\* most the events of its struct.
Steady ==
    /\ created' = created /\ Taken' >= Taken
    /\ \A u \in Users: Fresh(u)' => Fresh(u) \/ Taken' > Taken
    /\ \A y \in Ids: /\ stream'[y].user = stream[y].user /\ stream'[y].events = stream[y].events
                     /\ stream'[y].generation = stream[y].generation
                     /\ message'[y].shown \in {message[y].shown, stream[y].events}

LEMMA SteadyKeeps ==
  ASSUME Inv, TypeOK', Steady
  PROVE  (\A x \in Ids: EventInv(x)' /\ CountInv(x)') /\ OrderInv'
<1>1. ASSUME NEW y \in Ids PROVE Has(y)' \subseteq Has(y) BY DEF Steady, Has
<1>2. ASSUME NEW x \in Ids PROVE EventInv(x)' /\ CountInv(x)'
  <2>1. EventInv(x) /\ CountInv(x) BY DEF Inv, MessageInv
  <2>2. Increasing(stream[x].events)' /\ Increasing(message[x].shown)'
    BY <2>1 DEF Steady, EventInv, Increasing
  <2>3. Taken \in Int /\ Taken' \in Int /\ stream[x].user \in Users
    BY EventTypes, EventTypesNext DEF Inv, TypeOK
  <2>4. \A e \in Has(x)': e \in Int /\ e <= Taken /\ (Fresh(stream[x].user) => e < Taken)
    BY <1>1, <2>1, HasEvents DEF Inv, EventInv, Events
  <2>5. \A e \in Has(x)': e <= Taken' /\ (Fresh(stream[x].user)' => e < Taken')
    BY <2>3, <2>4 DEF Steady
  <2> QED BY <2>1, <2>2, <2>5 DEF Steady, EventInv, CountInv
<1>3. OrderInv' BY <1>1 DEF Inv, MessageInv, OrderInv, Steady
<1> QED BY <1>2, <1>3

\* Nothing changes but the queue, the dispatcher and the history.
Tables == <<streams, stream, created, message, mu, ending, fired, quiet, failures, flush, expired,
            stopping>>

LEMMA TablesKeep ==
  ASSUME Inv, TypeOK', UNCHANGED Tables, Taken' >= Taken,
         \A u \in Users: Fresh(u)' => Fresh(u) \/ Taken' > Taken,
         dispatcher'.pc = "call" <=> dispatcher.pc = "call",
         dispatcher.pc = "call" => dispatcher'.user = dispatcher.user,
         QueueInv', FlushInv', OwnerInv'
  PROVE  MessageInv'
<1> USE DEF Tables
<1>1. Steady BY DEF Steady
<1>2. LockInv' BY DEF Inv, MessageInv, LockInv
<1>3. StreamInv' BY DEF Inv, MessageInv, StreamInv
<1>4. TimerInv' BY DEF Inv, MessageInv, TimerInv
<1>5. LiveInv' BY DEF Inv, MessageInv, LiveInv
<1> QED BY <1>1, <1>2, <1>3, <1>4, <1>5, SteadyKeeps DEF MessageInv

LEMMA QueueKeeps ==
  ASSUME Inv, TypeOK',
         \/ \E u \in Users: Decide(u)
         \/ Notify \/ StartDispatcher \/ DispatchTakes \/ Recipients \/ DispatchDone \/ DispatchEnds
  PROVE  MessageInv'
<1> USE DEF queueVars, streamVars, lockVars, flushVars, chatVars
<1>0. /\ QueueInv /\ FlushInv /\ OwnerInv /\ TypeOK /\ Owner \in Users
      /\ Len(queue) \in Nat /\ head \in Nat /\ accepted \in Nat /\ Taken \in Int
      /\ head <= Len(queue) /\ dispatcher \in DispatcherType
  BY EventTypes, UsersAssumption DEF Inv, MessageInv, TypeOK, DispatcherType
<1>1. UNCHANGED Tables /\ UNCHANGED <<pushed, eventStopping>>
  BY DEF Decide, Notify, StartDispatcher, DispatchTakes, Recipients, DispatchDone, DispatchEnds,
         Tables
<1>2. CASE (\E u \in Users: Decide(u)) \/ StartDispatcher \/ DispatchEnds
  <2>1. UNCHANGED <<queue, head, accepted, inFlight>> /\ (Busy' <=> Busy)
        /\ (dispatcher' = dispatcher \/ (~Busy /\ ~Busy'))
    BY <1>0, <1>2 DEF Decide, StartDispatcher, DispatchEnds, Busy, IdleDispatcher, DispatcherType
  <2>2. Taken' = Taken /\ \A u \in Users: Fresh(u)' <=> Fresh(u) BY <2>1 DEF Taken, Fresh, Busy
  <2>3. QueueInv' BY <1>0, <2>1, <2>2 DEF QueueInv
  <2>4. FlushInv' BY <1>0, <1>1, <2>1 DEF FlushInv, Tables
  <2>5. OwnerInv' BY <1>0, <1>1, <2>2 DEF OwnerInv
  <2> QED BY <1>0, <1>1, <2>1, <2>2, <2>3, <2>4, <2>5, TablesKeep DEF Busy
<1>3. CASE Notify
  <2>1. /\ accepted' = accepted + 1 /\ queue' = Append(queue, accepted + 1) /\ flush = "idle"
        /\ UNCHANGED <<head, inFlight, dispatcher>>
    BY <1>0, <1>3 DEF Notify, FlushInv
  <2>2. /\ Len(queue') = Len(queue) + 1 /\ queue'[Len(queue')] = accepted'
        /\ \A i \in 1..Len(queue): queue'[i] = queue[i]
    BY <1>0, <2>1 DEF TypeOK
  <2>3. Taken' = Taken BY <1>0, <2>1, <2>2 DEF Taken
  <2>4. \A u \in Users: Fresh(u)' <=> Fresh(u) BY <2>1 DEF Fresh, Busy
  <2>5. QueueInv'
    <3>1. \A i \in 1..Len(queue'): queue'[i] = accepted' - Len(queue') + i
      BY <1>0, <2>1, <2>2 DEF QueueInv
    <3> QED BY <1>0, <2>1, <2>2, <2>3, <3>1 DEF QueueInv, Busy
  <2>6. FlushInv' BY <1>0, <1>1, <2>1 DEF FlushInv, Tables
  <2>7. OwnerInv' BY <1>0, <1>1, <2>3, <2>4 DEF OwnerInv
  <2> QED BY <1>0, <1>1, <2>1, <2>3, <2>4, <2>5, <2>6, <2>7, TablesKeep
<1>4. CASE DispatchTakes
  <2>1. /\ dispatcher'.pc = "snapshot" /\ dispatcher'.event = queue[head + 1] /\ head < Len(queue)
        /\ head' = head + 1 /\ inFlight' = TRUE /\ dispatcher.pc = "wait"
        /\ UNCHANGED <<queue, accepted>>
    BY <1>0, <1>4 DEF DispatchTakes, DispatcherType
  <2>2. Taken' = Taken + 1 BY <1>0, <2>1 DEF Taken
  <2>3. QueueInv'
    <3>1. queue[head + 1] = Taken' /\ Taken' > 0
      BY <1>0, <2>1, <2>2 DEF QueueInv, Taken
    <3> QED BY <1>0, <2>1, <3>1 DEF QueueInv, Busy
  <2>4. FlushInv' BY <1>0, <1>1, <2>1 DEF FlushInv, Tables
  <2>5. OwnerInv' BY <1>0, <1>1, <2>1, <2>2 DEF OwnerInv, Fresh, Busy
  <2> QED BY <1>0, <1>1, <2>1, <2>2, <2>3, <2>4, <2>5, TablesKeep
<1>5. CASE Recipients
  <2>1. /\ dispatcher.pc = "snapshot" /\ dispatcher'.pc = "push" /\ Owner \in dispatcher'.todo
        /\ dispatcher'.event = dispatcher.event
        /\ UNCHANGED <<queue, head, accepted, inFlight>>
    BY <1>0, <1>5 DEF Recipients, DispatcherType
  <2>2. Taken' = Taken BY <2>1 DEF Taken
  <2>3. \A u \in Users: Fresh(u)' => Fresh(u) BY <2>1 DEF Fresh, Busy
  <2>4. QueueInv' BY <1>0, <2>1, <2>2 DEF QueueInv, Busy
  <2>5. FlushInv' BY <1>0, <1>1, <2>1 DEF FlushInv, Tables
  <2>6. OwnerInv' BY <1>0, <1>1, <2>1, <2>2 DEF OwnerInv, Fresh, Busy
  <2> QED BY <1>0, <1>1, <2>1, <2>2, <2>3, <2>4, <2>5, <2>6, TablesKeep
<1>6. CASE DispatchDone
  <2>1. /\ dispatcher.pc = "push" /\ dispatcher.todo = {} /\ dispatcher'.pc = "wait"
        /\ inFlight' = FALSE /\ accepted' = accepted
    BY <1>6 DEF DispatchDone, IdleDispatcher
  <2>2. /\ queue' \in Seq(Events) /\ head' \in 0..Len(queue')
        /\ Len(queue') - head' = Len(queue) - head /\ Len(queue') <= Len(queue)
        /\ \A i \in 1..Len(queue'): queue'[i] = queue[i + Len(queue) - Len(queue')]
    <3> DEFINE c == Compact(queue, head)
    <3>1. queue' = c.queue /\ head' = c.head BY <1>6 DEF DispatchDone
    <3>2. queue \in Seq(Events) /\ head \in 0..Len(queue) BY <1>0 DEF TypeOK
    <3> QED BY <3>1, <3>2, CompactEffect
  <2>3. Len(queue') \in Nat /\ head' \in Nat BY <2>2
  <2>4. Taken' = Taken BY <1>0, <2>1, <2>2, <2>3 DEF Taken
  <2>5. QueueInv'
    <3>1. ASSUME NEW i \in 1..Len(queue') PROVE queue'[i] = accepted' - Len(queue') + i
      <4>1. i + Len(queue) - Len(queue') \in 1..Len(queue) BY <1>0, <2>2, <2>3
      <4>2. queue'[i] = accepted - Len(queue) + (i + Len(queue) - Len(queue'))
        BY <1>0, <2>2, <4>1 DEF QueueInv
      <4> QED BY <1>0, <2>1, <2>3, <4>2
    <3> QED BY <1>0, <2>1, <2>2, <2>3, <3>1 DEF QueueInv, Busy
  <2>6. \A u \in Users: ~Fresh(u)' /\ ~Fresh(u) BY <2>1 DEF Fresh, Busy
  <2>7. FlushInv' BY <1>0, <1>1, <2>1, <2>2, <2>3 DEF FlushInv, Tables, QueueInv, Busy
  <2>8. OwnerInv' BY <1>0, <1>1, <2>4, <2>6 DEF OwnerInv
  <2> QED BY <1>0, <1>1, <2>1, <2>4, <2>5, <2>6, <2>7, <2>8, TablesKeep
<1> QED BY <1>2, <1>3, <1>4, <1>5, <1>6

-----------------------------------------------------------------------------
(* A push keeps the invariant.                                             *)

\* The events of the struct that is pushed to.
LEMMA PushEvents ==
  ASSUME Inv, NEW u \in Users, Push(u), NEW x \in Ids, x = Target(u)
  PROVE  LET es == stream'[x].events
         IN  /\ Len(es) > 0 /\ es[Len(es)] = Taken /\ Increasing(es)
             /\ Has(x)' \subseteq Has(x) \cup {Taken} /\ \A y \in Ids \ {x}: Has(y)' = Has(y)
<1> DEFINE old == stream[x].events
           es == Newest(Append(old, Taken))
<1>1. Fresh(u) /\ message' = message /\ \A y \in Ids \ {x}: stream'[y] = stream[y]
  BY PushEffect DEF chatVars
<1>8. stream'[x].events = es BY PushEffect
<1>2. x \in Ids /\ Taken \in Events /\ \A e \in Has(x): e < Taken
  BY <1>1, TargetFacts
<1>3. old \in Window BY <1>2 DEF Inv, TypeOK
<1>4. Increasing(old) /\ \A i \in DOMAIN old: old[i] \in Has(x)
  BY <1>2 DEF Inv, MessageInv, EventInv, Has
<1>5. /\ Len(es) > 0 /\ es[Len(es)] = Taken
      /\ \A i \in DOMAIN es: es[i] = Taken \/ \E j \in DOMAIN old: es[i] = old[j]
      /\ Increasing(es)
  BY <1>2, <1>3, <1>4, NewestEffect
<1> HIDE DEF es, old
<1>6. Has(x)' \subseteq Has(x) \cup {Taken}
  <2>1. \A i \in DOMAIN es: es[i] \in Has(x) \cup {Taken} BY <1>4, <1>5
  <2>2. \A i \in DOMAIN message[x].shown: message[x].shown[i] \in Has(x) BY DEF Has
  <2>3. ASSUME NEW e \in Has(x)' PROVE e \in Has(x) \cup {Taken}
    <3>1. CASE \E i \in DOMAIN stream'[x].events: e = stream'[x].events[i]
      BY <1>8, <2>1, <3>1
    <3>2. CASE \E i \in DOMAIN message'[x].shown: e = message'[x].shown[i]
      BY <1>1, <2>2, <3>2
    <3> QED BY <2>3, <3>1, <3>2 DEF Has
  <2> QED BY <2>3
<1>7. \A y \in Ids \ {x}: Has(y)' = Has(y) BY <1>1 DEF Has
<1> QED BY <1>5, <1>6, <1>7, <1>8

LEMMA PushKeeps ==
  ASSUME Inv, TypeOK', NEW u \in Users, Push(u)
  PROVE  MessageInv'
<1>0. PICK x \in Ids: x = Target(u) BY PushEffect, TargetFacts
<1>1. /\ Fresh(u) /\ mu = Free /\ ~stopping /\ dispatcher.pc = "push"
      /\ mu' = "dispatcher" /\ streams' = [streams EXCEPT ![u] = x]
      /\ created' = IF streams[u] = None THEN x ELSE created
      /\ pushed' = [pushed EXCEPT ![u] = Append(@, Taken)]
      /\ quiet' = [quiet EXCEPT ![x] = FALSE]
      /\ \A y \in Ids \ {x}: stream'[y] = stream[y]
      /\ stream'[x].user = u /\ stream'[x].generation = stream[x].generation + 1
      /\ UNCHANGED <<approved, queue, head, inFlight, eventStopping, accepted, ending, stopping,
                     fired, flush, expired, message, failures>>
  BY <1>0, PushEffect DEF queueVars, flushVars, chatVars
<1>2. /\ dispatcher'.pc = "call" /\ dispatcher'.todo = dispatcher.todo \ {u}
      /\ dispatcher'.user = u /\ dispatcher'.event = dispatcher.event
  <2>1. dispatcher' = [dispatcher EXCEPT !.pc = "call", !.todo = @ \ {u}, !.user = u]
    BY PushEffect
  <2> QED BY <2>1 DEF Inv, TypeOK
<1>3. /\ x \in Ids /\ Taken \in Events /\ x # None /\ x \in Nat /\ created \in Nat
      /\ streams[u] = None => stream[x] = NoStream /\ x = created + 1
      /\ streams[u] # None => streams[u] = x /\ x <= created /\ stream[x].user = u
      /\ stream[x].generation < Taken /\ stream[x].generation \in Nat
      /\ \A e \in Has(x): e < Taken
  <2>1. x # None /\ x \in Nat /\ created \in Nat BY IdsRange DEF Inv
  <2>2. stream[x].generation \in Nat BY BoundsAssumption DEF Inv, TypeOK
  <2>3. IF streams[u] = None THEN x = created + 1 ELSE x = streams[u] BY <1>0 DEF Target
  <2> QED BY <1>0, <1>1, <2>1, <2>2, <2>3, TargetFacts
<1>4. LET es == stream'[x].events
      IN  /\ Len(es) > 0 /\ es[Len(es)] = Taken /\ Increasing(es)
          /\ Has(x)' \subseteq Has(x) \cup {Taken} /\ \A y \in Ids \ {x}: Has(y)' = Has(y)
  BY <1>0, PushEvents
<1>5. Taken' = Taken /\ \A w \in Users: Fresh(w)' => Fresh(w) /\ w # u
  BY <1>1, <1>2 DEF Taken, Fresh, Busy
<1>6. streams \in [Users -> Ids \cup {None}] BY DEF Inv, TypeOK
<1>7. QueueInv' BY <1>1, <1>2, <1>5 DEF Inv, MessageInv, QueueInv, Busy
<1>8. FlushInv' BY <1>1 DEF Inv, MessageInv, FlushInv
<1>9. LockInv'
  <2>1. flush \notin {"end", "call"} /\ ending = None
    BY <1>1 DEF Inv, MessageInv, LockInv, Free
  <2> QED BY <1>1, <1>2, <1>3, <1>6, <2>1 DEF LockInv, None
<1>10. StreamInv'
  <2>1. ASSUME NEW w \in Users, streams'[w] # None
        PROVE  /\ streams'[w] <= created' /\ stream'[streams'[w]].user = w
               /\ \A y \in 1..created': stream'[y].user = w => y <= streams'[w]
    <3>1. CASE w = u
      BY <1>1, <1>3, <1>6, <3>1, IdsRange DEF Inv, MessageInv, StreamInv
    <3>2. CASE w # u
      <4>1. streams'[w] = streams[w] /\ streams[w] \in Ids BY <1>1, <1>6, <2>1, <3>2
      <4>2. streams[w] <= created /\ stream[streams[w]].user = w /\ streams[w] # x
        BY <1>3, <2>1, <3>2, <4>1, IdsRange DEF Inv, MessageInv, StreamInv
      <4>3. ASSUME NEW y \in 1..created', stream'[y].user = w PROVE y <= streams[w]
        <5>1. y # x BY <1>1, <3>2, <4>3
        <5>2. y \in 1..created /\ y \in Ids BY <1>1, <1>3, <5>1, IdsRange DEF Inv
        <5> QED BY <1>1, <2>1, <4>1, <4>3, <5>1, <5>2 DEF Inv, MessageInv, StreamInv
      <4>4. created <= created'
        <5>1. created' = created \/ created' = created + 1 BY <1>1, <1>3
        <5> QED BY <1>3, <5>1
      <4>5. streams[w] \in Nat BY <4>1, IdsRange DEF Inv
      <4> QED BY <1>1, <1>3, <4>1, <4>2, <4>3, <4>4, <4>5
    <3> QED BY <3>1, <3>2
  <2>2. ASSUME NEW y \in Ids, y > created'
        PROVE  stream'[y] = NoStream /\ message'[y] = [kind |-> "none", shown |-> <<>>]
    <3>1. y > created /\ y # x BY <1>1, <1>3, <2>2, IdsRange DEF Inv
    <3> QED BY <1>1, <3>1 DEF Inv, MessageInv, StreamInv
  <2> QED BY <2>1, <2>2 DEF StreamInv
<1>11. ASSUME NEW y \in Ids PROVE EventInv(y)' /\ CountInv(y)'
  <2>1. EventInv(y) /\ CountInv(y) BY DEF Inv, MessageInv
  <2>2. CASE y = x
    <3>1. \A e \in Has(x)': e <= Taken BY <1>3, <1>4, HasEvents DEF Inv, Events
    <3>2. EventInv(x)' BY <1>1, <1>4, <1>5, <2>1, <2>2, <3>1 DEF EventInv
    <3>3. CountInv(x)' BY <1>1, <1>3, <1>4 DEF CountInv, Events
    <3> QED BY <2>2, <3>2, <3>3
  <2>3. CASE y # x
    <3>1. stream'[y] = stream[y] /\ Has(y)' = Has(y) /\ stream[y].user \in Users
      BY <1>1, <1>4, <2>3 DEF Inv, TypeOK
    <3>2. EventInv(y)' BY <1>1, <1>5, <2>1, <3>1 DEF EventInv
    <3>3. CountInv(y)'
      <4>1. y <= created' => y <= created BY <1>1, <1>3, <2>3, IdsRange DEF Inv
      <4> QED BY <2>1, <3>1, <4>1 DEF CountInv
    <3> QED BY <3>2, <3>3
  <2> QED BY <2>2, <2>3
<1>12. OrderInv'
  <2> SUFFICES ASSUME NEW y \in Ids, NEW z \in Ids, y < z, stream'[y].user = stream'[z].user,
                      NEW d \in Has(y)', NEW e \in Has(z)'
               PROVE  d < e
    BY DEF OrderInv
  <2>1. CASE y # x /\ z # x
    <3>1. stream'[y] = stream[y] /\ stream'[z] = stream[z] /\ d \in Has(y) /\ e \in Has(z)
      BY <1>1, <1>4, <2>1
    <3> QED BY <3>1 DEF Inv, MessageInv, OrderInv
  <2>2. CASE z = x
    <3>1. y # x /\ stream[y].user = u /\ d \in Has(y)
      BY <1>1, <1>3, <1>4, <2>2, IdsRange DEF Inv
    <3>2. d < Taken BY <1>1, <3>1 DEF Inv, MessageInv, EventInv
    <3>3. CASE e = Taken BY <3>2, <3>3
    <3>4. CASE e \in Has(x)
      <4>1. streams[u] # None
        <5>1. x > created => message[x].shown = <<>>
          BY <1>3 DEF Inv, MessageInv, StreamInv
        <5>2. x > created => Has(x) = {}
          BY <1>3, <5>1 DEF Has, NoStream, Inv, MessageInv, StreamInv
        <5> QED BY <1>3, <3>4, <5>2
      <4> QED BY <1>3, <2>2, <3>1, <3>4, <4>1 DEF Inv, MessageInv, OrderInv
    <3> QED BY <1>4, <2>2, <3>3, <3>4
  <2>3. CASE y = x
    <3>1. z # x /\ stream[z].user = u /\ e \in Has(z) /\ z > x /\ z \in Nat
      <4>0. z \in Nat BY IdsRange DEF Inv
      <4>1. z # x /\ z > x /\ z \in Nat BY <1>3, <2>3, <4>0
      <4>2. stream'[z] = stream[z] BY <1>1, <4>1
      <4> QED BY <1>1, <1>4, <2>3, <4>1, <4>2
    <3>2. z <= created
      <4>1. z > created => Has(z) = {}
        BY DEF Has, NoStream, Inv, MessageInv, StreamInv
      <4> QED BY <1>3, <3>1, <4>1
    <3>3. streams[u] # None /\ z \in 1..created
      BY <1>3, <3>1, <3>2
    <3>4. z <= x BY <1>3, <3>1, <3>3 DEF Inv, MessageInv, StreamInv
    <3> QED BY <1>3, <3>1, <3>4
  <2> QED BY <2>1, <2>2, <2>3
<1>13. TimerInv'
  <2>1. ASSUME NEW y \in Ids, stream'[y].timer PROVE stream'[y].generation > 0
    <3>1. CASE y = x BY <1>1, <1>3, <3>1
    <3>2. CASE y # x BY <1>1, <2>1, <3>2 DEF Inv, MessageInv, TimerInv
    <3> QED BY <3>1, <3>2
  <2>2. ASSUME NEW y \in Ids, NEW g \in Events, <<y, g>> \in fired
        PROVE  g <= stream'[y].generation /\ (g = stream'[y].generation => quiet'[y])
    <3>1. g <= stream[y].generation /\ (g = stream[y].generation => quiet[y])
      BY <2>2 DEF Inv, MessageInv, TimerInv
    <3>2. CASE y = x BY <1>1, <1>3, <3>1, <3>2 DEF Events
    <3>3. CASE y # x BY <1>1, <3>1, <3>3 DEF Inv, TypeOK
    <3> QED BY <3>2, <3>3
  <2> QED BY <1>1, <2>1, <2>2 DEF TimerInv
<1>14. LiveInv'
  <2> SUFFICES ASSUME NEW y \in Ids, message[y].kind = "live", failures = 0, ~expired
               PROVE  streams'[stream'[y].user] = y
    BY <1>1 DEF LiveInv
  <2>1. ending = None BY <1>1 DEF Inv, MessageInv, LockInv, Free
  <2>2. streams[stream[y].user] = y
    BY <2>1, IdsRange DEF Inv, MessageInv, LiveInv
  <2>3. CASE y = x BY <1>1, <1>6, <2>3
  <2>4. CASE y # x
    <3>1. stream[y].user \in Users /\ stream'[y] = stream[y] /\ y # None
      BY <1>1, <2>4, IdsRange DEF Inv, TypeOK
    <3>2. stream[y].user # u BY <1>3, <2>2, <2>4, <3>1
    <3> QED BY <1>1, <1>6, <2>2, <3>1, <3>2
  <2> QED BY <2>3, <2>4
<1>15. OwnerInv'
  <2>1. pushed \in [Users -> Seq(Events)] /\ Owner \in Users /\ OwnerInv
    BY UsersAssumption DEF Inv, TypeOK, MessageInv
  <2>2. CASE u = Owner
    <3>1. pushed[Owner] = [i \in 1..(Taken - 1) |-> i] BY <1>1, <2>1, <2>2 DEF OwnerInv
    <3>2. pushed'[Owner] = Append(pushed[Owner], Taken) BY <1>1, <2>1, <2>2
    <3>3. pushed'[Owner] = [i \in 1..Taken |-> i]
      <4>1. Append([i \in 1..(Taken - 1) |-> i], Taken) = [i \in 1..Taken |-> i]
        BY <1>3 DEF Events
      <4> QED BY <3>1, <3>2, <4>1
    <3>4. ~Fresh(Owner)' BY <1>5, <2>1, <2>2
    <3> QED BY <1>5, <3>3, <3>4 DEF OwnerInv
  <2>3. CASE u # Owner
    <3>1. pushed'[Owner] = pushed[Owner] BY <1>1, <2>1, <2>3
    <3>2. Fresh(Owner)' <=> Fresh(Owner) BY <1>1, <1>2, <2>3 DEF Fresh, Busy
    <3> QED BY <1>5, <2>1, <3>1, <3>2 DEF OwnerInv
  <2> QED BY <2>2, <2>3
<1> QED BY <1>7, <1>8, <1>9, <1>10, <1>11, <1>12, <1>13, <1>14, <1>15 DEF MessageInv

-----------------------------------------------------------------------------
(* Parts of the invariant that most of the other steps keep for the same   *)
(* reason.                                                                 *)

\* Streams end, and the structs that are not made yet are left alone.
LEMMA StreamsEnd ==
  ASSUME Inv, TypeOK', Steady, \A u \in Users: streams'[u] \in {streams[u], None},
         \A x \in Ids: x > created => stream'[x] = stream[x] /\ message'[x] = message[x]
  PROVE  StreamInv'
<1>1. 1..created \subseteq Ids /\ created' = created BY IdsRange DEF Inv, Steady
<1>2. ASSUME NEW u \in Users, streams'[u] # None
      PROVE  /\ streams'[u] <= created' /\ stream'[streams'[u]].user = u
             /\ \A x \in 1..created': stream'[x].user = u => x <= streams'[u]
  <2>1. streams'[u] = streams[u] /\ streams[u] \in Ids BY <1>2 DEF Inv, TypeOK
  <2> QED BY <1>1, <1>2, <2>1 DEF Steady, Inv, MessageInv, StreamInv
<1>3. ASSUME NEW x \in Ids, x > created'
      PROVE  stream'[x] = NoStream /\ message'[x] = [kind |-> "none", shown |-> <<>>]
  BY <1>1, <1>3 DEF Inv, MessageInv, StreamInv
<1> QED BY <1>2, <1>3 DEF StreamInv

\* The dispatcher is not at work, or goes on with the event it has.
LEMMA OwnerKeeps ==
  ASSUME Inv, UNCHANGED pushed, Taken' = Taken, Fresh(Owner)' <=> Fresh(Owner)
  PROVE  OwnerInv'
BY DEF Inv, MessageInv, OwnerInv

-----------------------------------------------------------------------------
(* The answer of Telegram to a push keeps the invariant.                   *)

LEMMA ReturnKeeps ==
  ASSUME Inv, TypeOK', SendReturns \/ EditReturns
  PROVE  MessageInv'
<1>0. PICK x \in Ids: x = streams[dispatcher.user] BY ReturnTypes
<1>1. /\ dispatcher.user \in Users /\ stream[x].user = dispatcher.user /\ x <= created
      /\ dispatcher.pc = "call" /\ mu' = Free
      /\ dispatcher' = [dispatcher EXCEPT !.pc = "push"]
      /\ UNCHANGED <<approved, queueVars, ending, stopping, created, pushed, quiet, fired, flushVars>>
      /\ \A y \in Ids: /\ stream'[y].user = stream[y].user
                       /\ stream'[y].events = stream[y].events
                       /\ stream'[y].generation = stream[y].generation
                       /\ stream'[y].timer => stream[y].timer
                       /\ y > created => stream'[y] = stream[y]
  BY <1>0, ReturnTypes
<1>2. PICK kind \in {"live", "stray"}:
        /\ Succeeds(x, kind) \/ Fails(x, kind)
        /\ streams' = streams \/ (streams' = [streams EXCEPT ![dispatcher.user] = None]
                                 /\ kind = "stray" /\ failures' = failures + 1)
        /\ failures' = failures => kind = "live"
  BY <1>0, ReturnTypes
<1>3. /\ \A y \in Ids \ {x}: message'[y] = message[y]
      /\ message'[x] \in {message[x], [kind |-> kind, shown |-> stream[x].events]}
      /\ failures' = 0 => failures = 0 /\ message'[x].kind = kind
  BY <1>2, ShowsType DEF Inv
<1>4. /\ dispatcher'.pc = "push" /\ dispatcher'.todo = dispatcher.todo
      /\ dispatcher'.event = dispatcher.event
  BY <1>1 DEF Inv, TypeOK
<1>5. /\ Busy /\ Busy' /\ inFlight /\ ~stopping /\ mu = "dispatcher" /\ ending = None
      /\ flush \notin {"shutdown", "end", "call", "ok"}
  BY <1>1, <1>4 DEF Inv, MessageInv, QueueInv, FlushInv, LockInv, Busy
<1>6. Taken' = Taken /\ \A u \in Users: Fresh(u)' <=> Fresh(u)
  BY <1>1, <1>4, <1>5 DEF Taken, queueVars, Fresh
<1>7. Steady
  <2>1. \A y \in Ids: message'[y].shown \in {message[y].shown, stream[y].events}
    BY <1>3
  <2>2. Taken \in Int BY EventTypes DEF Inv
  <2> QED BY <1>1, <1>6, <2>1, <2>2 DEF Steady
<1>8. \A u \in Users: streams'[u] \in {streams[u], None}
  BY <1>2 DEF Inv, TypeOK
<1>9. QueueInv' BY <1>1, <1>4, <1>5, <1>6 DEF Inv, MessageInv, QueueInv, queueVars
<1>10. FlushInv' BY <1>1, <1>5 DEF Inv, MessageInv, FlushInv, queueVars, flushVars
<1>11. LockInv' BY <1>1, <1>4, <1>5 DEF Inv, MessageInv, LockInv, flushVars, Free
<1>12. StreamInv'
  <2>1. \A y \in Ids: y > created => stream'[y] = stream[y] /\ message'[y] = message[y]
    BY <1>1, <1>3, IdsRange DEF Inv
  <2> QED BY <1>7, <1>8, <2>1, StreamsEnd
<1>13. TimerInv'
  BY <1>1 DEF Inv, MessageInv, TimerInv, Free
<1>14. LiveInv'
  <2> SUFFICES ASSUME NEW y \in Ids, message'[y].kind = "live", failures' = 0, ~expired
               PROVE  streams'[stream'[y].user] = y
    BY <1>1 DEF LiveInv, flushVars
  <2>1. failures = 0 /\ message'[x].kind = kind BY <1>3
  <2>2. kind = "live" /\ streams' = streams BY <1>2, <2>1
  <2>3. CASE y = x BY <1>0, <1>1, <2>2, <2>3
  <2>4. CASE y # x
    <3>1. message[y].kind = "live" BY <1>3, <2>4
    <3>2. streams[stream[y].user] = y
      BY <1>5, <2>1, <3>1, IdsRange DEF Inv, MessageInv, LiveInv
    <3> QED BY <1>1, <2>2, <3>2
  <2> QED BY <2>3, <2>4
<1>15. OwnerInv' BY <1>1, <1>6, OwnerKeeps, UsersAssumption
<1> QED BY <1>7, <1>9, <1>10, <1>11, <1>12, <1>13, <1>14, <1>15, SteadyKeeps DEF MessageInv

-----------------------------------------------------------------------------
(* The timers keep the invariant.                                          *)

\* A timer that fires is due for the generation that its struct has now.
LEMMA FireKeeps ==
  ASSUME Inv, TypeOK', NEW x \in Ids, Fire(x)
  PROVE  MessageInv'
<1>1. /\ stream[x].timer /\ fired' = fired \cup {<<x, stream[x].generation>>}
      /\ quiet' = [quiet EXCEPT ![x] = TRUE]
      /\ UNCHANGED <<queue, head, inFlight, eventStopping, accepted, dispatcher, mu, ending, stopping,
                     streams, created, pushed, flush, expired, message, failures>>
  BY DEF Fire, queueVars, lockVars, flushVars, chatVars
<1>2. \A y \in Ids: /\ stream'[y].user = stream[y].user /\ stream'[y].events = stream[y].events
                    /\ stream'[y].generation = stream[y].generation
                    /\ stream'[y].timer => stream[y].timer
                    /\ ~stream[y].timer => stream'[y] = stream[y]
  BY TimerFields DEF Inv
<1>3. Taken' = Taken /\ (\A u \in Users: Fresh(u)' <=> Fresh(u)) /\ (Busy' <=> Busy)
  BY <1>1 DEF Taken, Fresh, Busy
<1>4. Steady
  <2>1. Taken \in Int BY EventTypes DEF Inv
  <2> QED BY <1>1, <1>2, <1>3, <2>1 DEF Steady
<1>5. QueueInv' BY <1>1, <1>3 DEF Inv, MessageInv, QueueInv
<1>6. FlushInv' BY <1>1 DEF Inv, MessageInv, FlushInv
<1>7. LockInv'
  <2>1. flush = "call" => ending \in Ids BY DEF Inv, MessageInv, LockInv, TypeOK
  <2> QED BY <1>1, <1>2, <2>1 DEF Inv, MessageInv, LockInv
<1>8. StreamInv'
  <2>1. \A y \in Ids: y > created => stream'[y] = stream[y] /\ message'[y] = message[y]
    BY <1>1, <1>2 DEF Inv, MessageInv, StreamInv, NoStream
  <2> QED BY <1>1, <1>4, <2>1, StreamsEnd
<1>9. TimerInv'
  <2>1. \A y \in Ids: quiet[y] => quiet'[y] BY <1>1 DEF Inv, TypeOK
  <2>2. ASSUME NEW y \in Ids, NEW g \in Events, <<y, g>> \in fired'
        PROVE  g <= stream'[y].generation /\ (g = stream'[y].generation => quiet'[y])
    <3>1. CASE <<y, g>> \in fired BY <1>2, <2>1, <3>1 DEF Inv, MessageInv, TimerInv
    <3>2. CASE <<y, g>> = <<x, stream[x].generation>>
      <4>1. y = x /\ g = stream[x].generation /\ g \in Nat BY <3>2 DEF Events
      <4>2. quiet'[x] BY <1>1 DEF Inv, TypeOK
      <4> QED BY <1>2, <4>1, <4>2
    <3> QED BY <1>1, <2>2, <3>1, <3>2
  <2>3. mu = "timer" => ending \in Ids BY DEF Inv, MessageInv, LockInv, TypeOK
  <2>4. \A y \in Ids: stream'[y].timer => stream'[y].generation > 0
    BY <1>2 DEF Inv, MessageInv, TimerInv
  <2>5. mu' = "timer" => quiet'[ending']
    BY <1>1, <2>1, <2>3 DEF Inv, MessageInv, TimerInv
  <2> QED BY <2>2, <2>4, <2>5 DEF TimerInv
<1>10. LiveInv' BY <1>1, <1>2 DEF Inv, MessageInv, LiveInv
<1>11. OwnerInv' BY <1>1, <1>3, OwnerKeeps, UsersAssumption
<1> QED BY <1>4, <1>5, <1>6, <1>7, <1>8, <1>9, <1>10, <1>11, SteadyKeeps DEF MessageInv

\* finalizeIdle ends the stream of its own generation only.
LEMMA FinalizeIdleKeeps ==
  ASSUME Inv, TypeOK', NEW x \in Ids, NEW g \in Events, FinalizeIdle(x, g)
  PROVE  MessageInv'
<1>1. /\ <<x, g>> \in fired /\ mu = Free /\ fired' \subseteq fired
      /\ UNCHANGED <<queue, head, inFlight, eventStopping, accepted, dispatcher, stopping, stream,
                     created, pushed, quiet, flush, expired, message, failures>>
  BY DEF FinalizeIdle, queueVars, flushVars, chatVars
<1>2. Taken' = Taken /\ (\A u \in Users: Fresh(u)' <=> Fresh(u)) /\ (Busy' <=> Busy)
  BY <1>1 DEF Taken, Fresh, Busy
<1>3. Steady
  <2>1. Taken \in Int BY EventTypes DEF Inv
  <2> QED BY <1>1, <1>2, <2>1 DEF Steady
<1>4. QueueInv' BY <1>1, <1>2 DEF Inv, MessageInv, QueueInv
<1>5. OwnerInv' BY <1>1, <1>2, OwnerKeeps, UsersAssumption
<1>6. ending = None /\ flush \notin {"end", "call"} /\ dispatcher.pc # "call"
  BY <1>1 DEF Inv, MessageInv, LockInv, Free
<1>7. stream[x].user \in Users /\ x # None BY IdsRange DEF Inv, TypeOK
<1>8. CASE EndsStream(x, g)
  <2>1. /\ ~stopping /\ streams[stream[x].user] = x /\ stream[x].generation = g
        /\ streams' = [streams EXCEPT ![stream[x].user] = None] /\ mu' = "timer" /\ ending' = x
    BY <1>8 DEF FinalizeIdle, EndsStream
  <2>2. \A u \in Users: streams'[u] = IF u = stream[x].user THEN None ELSE streams[u]
    BY <2>1 DEF Inv, TypeOK
  <2>3. FlushInv'
    BY <1>1, <2>1, <2>2 DEF Inv, MessageInv, FlushInv
  <2>4. LockInv'
    <3>1. x <= created BY <1>7, <2>1 DEF Inv, MessageInv, StreamInv
    <3> QED BY <1>1, <1>6, <1>7, <2>1, <3>1 DEF LockInv
  <2>5. StreamInv' BY <1>1, <1>3, <2>2, StreamsEnd
  <2>6. TimerInv'
    <3>1. quiet[x] BY <1>1, <2>1 DEF Inv, MessageInv, TimerInv
    <3> QED BY <1>1, <2>1, <3>1 DEF Inv, MessageInv, TimerInv
  <2>7. LiveInv'
    <3> SUFFICES ASSUME NEW y \in Ids, message[y].kind = "live", failures = 0, ~expired, y # x
                 PROVE  streams'[stream[y].user] = y
      BY <1>1, <2>1 DEF LiveInv
    <3>1. streams[stream[y].user] = y /\ stream[y].user \in Users
      BY <1>6, IdsRange DEF Inv, TypeOK, MessageInv, LiveInv
    <3> QED BY <2>1, <2>2, <3>1
  <2> QED BY <1>3, <1>4, <1>5, <2>3, <2>4, <2>5, <2>6, <2>7, SteadyKeeps DEF MessageInv
<1>9. CASE ~EndsStream(x, g)
  <2>1. UNCHANGED <<streams, mu, ending>> BY <1>9 DEF FinalizeIdle
  <2>2. FlushInv' BY <1>1, <2>1 DEF Inv, MessageInv, FlushInv
  <2>3. LockInv' BY <1>1, <2>1 DEF Inv, MessageInv, LockInv
  <2>4. StreamInv' BY <1>1, <1>3, <2>1, StreamsEnd
  <2>5. TimerInv' BY <1>1, <2>1 DEF Inv, MessageInv, TimerInv
  <2>6. LiveInv' BY <1>1, <2>1 DEF Inv, MessageInv, LiveInv
  <2> QED BY <1>3, <1>4, <1>5, <2>2, <2>3, <2>4, <2>5, <2>6, SteadyKeeps DEF MessageInv
<1> QED BY <1>8, <1>9

\* The message that finalizeLocked works on is ended, or the call failed.
LEMMA FinalizeEffect ==
  ASSUME Inv, NEW x \in Ids, x = ending, Finalize(x)
  PROVE  /\ \A y \in Ids: message'[y].shown \in {message[y].shown, stream[y].events}
         /\ \A y \in Ids: y > created => message'[y] = message[y]
         /\ \A y \in Ids: message'[y].kind = "live" /\ failures' = 0
              => message[y].kind = "live" /\ failures = 0 /\ y # x
<1>1. /\ \A y \in Ids \ {x}: message'[y] = message[y]
      /\ message'[x] \in {message[x], [kind |-> "final", shown |-> stream[x].events]}
      /\ failures' = 0 => failures = 0 /\ message'[x].kind = "final"
  BY ShowsType DEF Inv, Finalize
<1>2. x <= created /\ x \in Nat /\ created \in Nat BY IdsRange DEF Inv, MessageInv, LockInv
<1> QED BY <1>1, <1>2

LEMMA IdleReturnsKeeps ==
  ASSUME Inv, TypeOK', IdleReturns
  PROVE  MessageInv'
<1>0. PICK x \in Ids: x = ending BY DEF IdleReturns, Inv, MessageInv, LockInv, TypeOK
<1>1. /\ mu = "timer" /\ mu' = Free /\ ending' = None /\ Finalize(x)
      /\ UNCHANGED <<queue, head, inFlight, eventStopping, accepted, dispatcher, stopping, streams,
                     stream, created, pushed, quiet, fired, flush, expired>>
  BY <1>0 DEF IdleReturns, queueVars, streamVars, flushVars
<1>2. /\ \A y \in Ids: message'[y].shown \in {message[y].shown, stream[y].events}
      /\ \A y \in Ids: y > created => message'[y] = message[y]
      /\ \A y \in Ids: message'[y].kind = "live" /\ failures' = 0
           => message[y].kind = "live" /\ failures = 0 /\ y # x
  BY <1>0, <1>1, FinalizeEffect
<1>3. Taken' = Taken /\ (\A u \in Users: Fresh(u)' <=> Fresh(u)) /\ (Busy' <=> Busy)
  BY <1>1 DEF Taken, Fresh, Busy
<1>4. Steady
  <2>1. Taken \in Int BY EventTypes DEF Inv
  <2> QED BY <1>1, <1>2, <1>3, <2>1 DEF Steady
<1>5. QueueInv' BY <1>1, <1>3 DEF Inv, MessageInv, QueueInv
<1>6. OwnerInv' BY <1>1, <1>3, OwnerKeeps, UsersAssumption
<1>7. FlushInv' BY <1>1 DEF Inv, MessageInv, FlushInv
<1>8. LockInv'
  <2>1. created \in Nat BY IdsRange DEF Inv
  <2> QED BY <1>1, <2>1 DEF Inv, MessageInv, LockInv, Free, None
<1>9. StreamInv' BY <1>1, <1>2, <1>4, StreamsEnd
<1>10. TimerInv' BY <1>1 DEF Inv, MessageInv, TimerInv, Free
<1>11. LiveInv' BY <1>0, <1>1, <1>2 DEF Inv, MessageInv, LiveInv
<1> QED BY <1>4, <1>5, <1>6, <1>7, <1>8, <1>9, <1>10, <1>11, SteadyKeeps DEF MessageInv

-----------------------------------------------------------------------------
(* Flush keeps the invariant.                                              *)

\* Flush waits, and leaves the streams alone.
LEMMA WaitingKeeps ==
  ASSUME Inv, TypeOK', Taken' = Taken, expired => expired',
         flush' \in {"end", "call"} <=> flush \in {"end", "call"},
         flush' = "call" <=> flush = "call",
         UNCHANGED <<dispatcher, mu, ending, stopping, streams, stream, created, pushed, quiet, fired,
                     message, failures>>,
         QueueInv', FlushInv'
  PROVE  MessageInv'
<1>1. \A u \in Users: Fresh(u)' <=> Fresh(u) BY DEF Fresh, Busy
<1>2. Steady
  <2>1. Taken \in Int BY EventTypes DEF Inv
  <2> QED BY <1>1, <2>1 DEF Steady
<1>3. LockInv' BY DEF Inv, MessageInv, LockInv
<1>4. StreamInv' BY DEF Inv, MessageInv, StreamInv
<1>5. TimerInv' BY DEF Inv, MessageInv, TimerInv
<1>6. LiveInv' BY DEF Inv, MessageInv, LiveInv, TypeOK
<1>7. OwnerInv' BY <1>1, OwnerKeeps, UsersAssumption
<1> QED BY <1>2, <1>3, <1>4, <1>5, <1>6, <1>7, SteadyKeeps DEF MessageInv

LEMMA FlushWaitingKeeps ==
  ASSUME Inv, TypeOK', FlushStarts \/ Expire \/ LogStreamsEnd \/ FlushWaits
  PROVE  MessageInv'
<1> USE DEF Waiting, queueVars, lockVars, streamVars, chatVars
<1>0. /\ QueueInv /\ FlushInv /\ Len(queue) \in Nat /\ head \in Nat /\ head <= Len(queue)
      /\ accepted \in Nat
  BY EventTypes DEF Inv, MessageInv
<1>1. CASE FlushStarts
  <2>1. Taken' = Taken BY <1>1 DEF FlushStarts, Taken
  <2>2. QueueInv' BY <1>0, <1>1 DEF FlushStarts, QueueInv, Busy, Taken
  <2>3. FlushInv' BY <1>0, <1>1 DEF FlushStarts, FlushInv
  <2> QED BY <1>1, <2>1, <2>2, <2>3, WaitingKeeps DEF FlushStarts
<1>2. CASE Expire
  <2>1. Taken' = Taken BY <1>2 DEF Expire, Taken
  <2>2. QueueInv' BY <1>0, <1>2 DEF Expire, QueueInv, Busy, Taken
  <2>3. FlushInv' BY <1>0, <1>2 DEF Expire, FlushInv
  <2> QED BY <1>2, <2>1, <2>2, <2>3, WaitingKeeps DEF Expire
<1>3. CASE LogStreamsEnd
  <2>1. Taken' = Taken BY <1>3 DEF LogStreamsEnd, Taken
  <2>2. QueueInv' BY <1>0, <1>3 DEF LogStreamsEnd, QueueInv, Busy, Taken
  <2>3. FlushInv' BY <1>0, <1>3 DEF LogStreamsEnd, FlushInv
  <2> QED BY <1>3, <2>1, <2>2, <2>3, WaitingKeeps DEF LogStreamsEnd
<1>4. CASE FlushWaits
  <2>1. CASE Undelivered
    <3>1. flush' = "timeout" /\ flush = "wait" /\ expired
          /\ UNCHANGED <<queue, head, expired, inFlight, eventStopping, accepted, Waiting, mu, ending>>
      BY <1>4, <2>1 DEF FlushWaits
    <3>2. Taken' = Taken BY <3>1 DEF Taken
    <3>3. QueueInv' BY <1>0, <3>1 DEF QueueInv, Busy, Taken
    <3>4. FlushInv' BY <1>0, <3>1 DEF FlushInv
    <3> QED BY <3>1, <3>2, <3>3, <3>4, WaitingKeeps
  <2>2. CASE ~Undelivered
    <3>1. flush' = "shutdown" /\ flush = "wait" /\ queue' = <<>> /\ head' = 0
          /\ UNCHANGED <<expired, inFlight, eventStopping, accepted, Waiting, mu, ending>>
      BY <1>4, <2>2 DEF FlushWaits
    <3>2. head = Len(queue) /\ ~inFlight BY <1>0, <2>2 DEF Undelivered
    <3>3. Len(queue') = 0 /\ Taken' = Taken BY <1>0, <3>1, <3>2 DEF Taken
    <3>4. QueueInv' BY <1>0, <3>1, <3>2, <3>3 DEF QueueInv, Busy
    <3>5. FlushInv' BY <1>0, <3>1, <3>2, <3>3 DEF FlushInv
    <3> QED BY <3>1, <3>3, <3>4, <3>5, WaitingKeeps
  <2> QED BY <2>1, <2>2
<1> QED BY <1>1, <1>2, <1>3, <1>4

\* shutdown takes the lock after the last push.
LEMMA StopTimersKeeps ==
  ASSUME Inv, TypeOK', StopTimers
  PROVE  MessageInv'
<1>1. /\ flush = "shutdown" /\ mu = Free /\ flush' = "end" /\ mu' = "flush" /\ stopping'
      /\ UNCHANGED <<expired, queue, head, inFlight, eventStopping, accepted, dispatcher, ending,
                     streams, created, pushed, quiet, fired, message, failures>>
  BY DEF StopTimers, queueVars, chatVars
<1>2. \A y \in Ids: /\ stream'[y].user = stream[y].user /\ stream'[y].events = stream[y].events
                    /\ stream'[y].generation = stream[y].generation
                    /\ stream'[y].timer => stream[y].timer
                    /\ ~stream[y].timer => stream'[y] = stream[y]
  BY TimerFields DEF Inv
<1>3. Taken' = Taken /\ (\A u \in Users: Fresh(u)' <=> Fresh(u)) /\ (Busy' <=> Busy)
  BY <1>1 DEF Taken, Fresh, Busy
<1>4. Steady
  <2>1. Taken \in Int BY EventTypes DEF Inv
  <2> QED BY <1>1, <1>2, <1>3, <2>1 DEF Steady
<1>5. ending = None /\ dispatcher.pc # "call" BY <1>1 DEF Inv, MessageInv, LockInv, Free
<1>6. QueueInv' BY <1>1, <1>3 DEF Inv, MessageInv, QueueInv
<1>7. FlushInv' BY <1>1 DEF Inv, MessageInv, FlushInv
<1>8. LockInv' BY <1>1, <1>5 DEF Inv, MessageInv, LockInv
<1>9. StreamInv'
  <2>1. \A y \in Ids: y > created => stream'[y] = stream[y] /\ message'[y] = message[y]
    BY <1>1, <1>2 DEF Inv, MessageInv, StreamInv, NoStream
  <2> QED BY <1>1, <1>4, <2>1, StreamsEnd
<1>10. TimerInv' BY <1>1, <1>2 DEF Inv, MessageInv, TimerInv
<1>11. LiveInv' BY <1>1, <1>2 DEF Inv, MessageInv, LiveInv
<1>12. OwnerInv' BY <1>1, <1>3, OwnerKeeps, UsersAssumption
<1> QED BY <1>4, <1>6, <1>7, <1>8, <1>9, <1>10, <1>11, <1>12, SteadyKeeps DEF MessageInv

LEMMA EndNextKeeps ==
  ASSUME Inv, TypeOK', NEW u \in Users, EndNext(u)
  PROVE  MessageInv'
<1>1. /\ flush = "end" /\ streams[u] # None /\ flush' = "call" /\ ending' = streams[u]
      /\ UNCHANGED <<expired, queue, head, inFlight, eventStopping, accepted, dispatcher, mu, stopping,
                     streams, stream, created, pushed, quiet, fired, message, failures>>
  BY DEF EndNext, Waiting, queueVars, streamVars, chatVars
<1>2. Taken' = Taken /\ (\A w \in Users: Fresh(w)' <=> Fresh(w)) /\ (Busy' <=> Busy)
  BY <1>1 DEF Taken, Fresh, Busy
<1>3. Steady
  <2>1. Taken \in Int BY EventTypes DEF Inv
  <2> QED BY <1>1, <1>2, <2>1 DEF Steady
<1>4. ending = None /\ mu = "flush" BY <1>1 DEF Inv, MessageInv, LockInv
<1>5. QueueInv' BY <1>1, <1>2 DEF Inv, MessageInv, QueueInv
<1>6. FlushInv' BY <1>1 DEF Inv, MessageInv, FlushInv
<1>7. LockInv'
  <2>1. streams[u] <= created /\ stream[streams[u]].user = u
    BY <1>1 DEF Inv, MessageInv, StreamInv
  <2> QED BY <1>1, <1>4, <2>1 DEF Inv, MessageInv, LockInv
<1>8. StreamInv' BY <1>1, <1>3, StreamsEnd
<1>9. TimerInv' BY <1>1, <1>4 DEF Inv, MessageInv, TimerInv
<1>10. LiveInv' BY <1>1, <1>4, IdsRange DEF Inv, MessageInv, LiveInv
<1>11. OwnerInv' BY <1>1, <1>2, OwnerKeeps, UsersAssumption
<1> QED BY <1>3, <1>5, <1>6, <1>7, <1>8, <1>9, <1>10, <1>11, SteadyKeeps DEF MessageInv

LEMMA EndReturnsKeeps ==
  ASSUME Inv, TypeOK', EndReturns
  PROVE  MessageInv'
<1>0. PICK x \in Ids: x = ending BY DEF EndReturns, Inv, MessageInv, LockInv, TypeOK
<1>1. /\ flush = "call" /\ flush' = "end" /\ ending' = None
      /\ Finalize(x) \/ (expired /\ UNCHANGED <<message, failures>>)
      /\ streams' = [streams EXCEPT ![stream[x].user] = None]
      /\ UNCHANGED <<expired, queue, head, inFlight, eventStopping, accepted, dispatcher, mu, stopping,
                     stream, created, pushed, quiet, fired>>
  BY <1>0 DEF EndReturns, queueVars, chatVars
<1>2. /\ \A y \in Ids: message'[y].shown \in {message[y].shown, stream[y].events}
      /\ \A y \in Ids: y > created => message'[y] = message[y]
      /\ \A y \in Ids: message'[y].kind = "live" /\ failures' = 0 /\ ~expired
           => message[y].kind = "live" /\ failures = 0 /\ y # x
  <2>1. CASE Finalize(x) BY <1>0, <2>1, FinalizeEffect
  <2>2. CASE expired /\ UNCHANGED <<message, failures>> BY <2>2
  <2> QED BY <1>1, <2>1, <2>2
<1>3. Taken' = Taken /\ (\A w \in Users: Fresh(w)' <=> Fresh(w)) /\ (Busy' <=> Busy)
  BY <1>1 DEF Taken, Fresh, Busy
<1>4. Steady
  <2>1. Taken \in Int BY EventTypes DEF Inv
  <2> QED BY <1>1, <1>2, <1>3, <2>1 DEF Steady
<1>5. /\ stream[x].user \in Users /\ streams[stream[x].user] = x /\ mu = "flush"
      /\ \A w \in Users: streams'[w] = IF w = stream[x].user THEN None ELSE streams[w]
  BY <1>0, <1>1 DEF Inv, TypeOK, MessageInv, LockInv
<1>6. QueueInv' BY <1>1, <1>3 DEF Inv, MessageInv, QueueInv
<1>7. FlushInv' BY <1>1 DEF Inv, MessageInv, FlushInv
<1>8. LockInv'
  <2>1. created \in Nat BY IdsRange DEF Inv
  <2> QED BY <1>1, <1>5, <2>1 DEF Inv, MessageInv, LockInv, None
<1>9. StreamInv' BY <1>1, <1>2, <1>4, <1>5, StreamsEnd
<1>10. TimerInv' BY <1>1, <1>5 DEF Inv, MessageInv, TimerInv
<1>11. LiveInv'
  <2> SUFFICES ASSUME NEW y \in Ids, message'[y].kind = "live", failures' = 0, ~expired
               PROVE  streams'[stream[y].user] = y
    BY <1>1 DEF LiveInv
  <2>1. message[y].kind = "live" /\ failures = 0 /\ y # x BY <1>2
  <2>2. streams[stream[y].user] = y /\ stream[y].user \in Users
    BY <1>0, <2>1 DEF Inv, TypeOK, MessageInv, LiveInv
  <2> QED BY <1>5, <2>1, <2>2
<1>12. OwnerInv' BY <1>1, <1>3, OwnerKeeps, UsersAssumption
<1> QED BY <1>4, <1>6, <1>7, <1>8, <1>9, <1>10, <1>11, <1>12, SteadyKeeps DEF MessageInv

\* shutdown drops the streams it had no time for, and tells of it.
LEMMA FlushEndsKeeps ==
  ASSUME Inv, TypeOK', FlushEnds
  PROVE  MessageInv'
<1>1. /\ flush = "end" /\ flush' = (IF expired THEN "timeout" ELSE "ok") /\ mu' = Free
      /\ ~expired => \A u \in Users: streams[u] = None
      /\ \A u \in Users: streams'[u] = None
      /\ UNCHANGED <<expired, queue, head, inFlight, eventStopping, accepted, dispatcher, ending,
                     stopping, stream, created, pushed, quiet, fired, message, failures>>
  BY DEF FlushEnds, queueVars, chatVars
<1>2. Taken' = Taken /\ (\A w \in Users: Fresh(w)' <=> Fresh(w)) /\ (Busy' <=> Busy)
  BY <1>1 DEF Taken, Fresh, Busy
<1>3. Steady
  <2>1. Taken \in Int BY EventTypes DEF Inv
  <2> QED BY <1>1, <1>2, <2>1 DEF Steady
<1>4. ending = None /\ mu = "flush" BY <1>1 DEF Inv, MessageInv, LockInv
<1>5. QueueInv' BY <1>1, <1>2 DEF Inv, MessageInv, QueueInv
<1>6. FlushInv' BY <1>1 DEF Inv, MessageInv, FlushInv
<1>7. LockInv' BY <1>1, <1>4 DEF Inv, MessageInv, LockInv, Free
<1>8. StreamInv' BY <1>1, <1>3, StreamsEnd
<1>9. TimerInv' BY <1>1 DEF Inv, MessageInv, TimerInv, Free
<1>10. LiveInv'
  <2> SUFFICES ASSUME NEW y \in Ids, message[y].kind = "live", failures = 0, ~expired
               PROVE  FALSE
    BY <1>1 DEF LiveInv
  <2>1. streams[stream[y].user] = y /\ stream[y].user \in Users /\ y # None
    BY <1>4, IdsRange DEF Inv, TypeOK, MessageInv, LiveInv
  <2> QED BY <1>1, <2>1
<1>11. OwnerInv' BY <1>1, <1>2, OwnerKeeps, UsersAssumption
<1> QED BY <1>3, <1>5, <1>6, <1>7, <1>8, <1>9, <1>10, <1>11, SteadyKeeps DEF MessageInv

-----------------------------------------------------------------------------
(* The invariant.                                                          *)

LEMMA MessageInit == Init => MessageInv
<1> SUFFICES ASSUME Init PROVE MessageInv OBVIOUS
<1>1. /\ queue = <<>> /\ head = 0 /\ accepted = 0 /\ ~inFlight /\ ~eventStopping /\ ~stopping
      /\ dispatcher.pc = "none" /\ mu = Free /\ ending = None /\ flush = "idle" /\ ~expired
      /\ created = 0 /\ failures = 0 /\ fired = {}
      /\ \A u \in Users: streams[u] = None
      /\ \A x \in Ids: stream[x] = NoStream /\ message[x] = [kind |-> "none", shown |-> <<>>]
  BY DEF Init, IdleDispatcher
<1>2. Taken = 0 /\ ~Busy /\ \A u \in Users: ~Fresh(u)
  <2>1. ~Busy BY <1>1 DEF Busy
  <2>2. accepted = 0 /\ head = 0 /\ Len(queue) = 0 BY <1>1
  <2>3. Taken = 0 BY <2>2 DEF Taken
  <2> QED BY <2>1, <2>3 DEF Fresh
<1>3. QueueInv BY <1>1, <1>2 DEF QueueInv
<1>4. FlushInv BY <1>1 DEF FlushInv
<1>5. LockInv BY <1>1 DEF LockInv, Free, None
<1>6. StreamInv BY <1>1 DEF StreamInv
<1>7. ASSUME NEW x \in Ids PROVE Has(x) = {} /\ EventInv(x) /\ CountInv(x)
  <2>1. stream[x].events = <<>> /\ message[x].shown = <<>> BY <1>1 DEF NoStream
  <2>2. Has(x) = {} BY <2>1 DEF Has
  <2>3. x > created BY <1>1, IdsRange, TypesInit DEF None
  <2> QED BY <2>1, <2>2, <2>3, <1>1, IdsRange, TypesInit DEF EventInv, Increasing, CountInv
<1>8. OrderInv BY <1>7 DEF OrderInv
<1>9. TimerInv BY <1>1 DEF TimerInv, NoStream, Free
<1>10. LiveInv BY <1>1 DEF LiveInv
<1>11. OwnerInv
  <2>1. pushed[Owner] = <<>> /\ ~Fresh(Owner) BY <1>2, UsersAssumption DEF Init
  <2>2. [i \in 1..0 |-> i] = <<>> OBVIOUS
  <2> QED BY <1>2, <2>1, <2>2 DEF OwnerInv
<1> QED BY <1>3, <1>4, <1>5, <1>6, <1>7, <1>8, <1>9, <1>10, <1>11 DEF MessageInv

LEMMA MessageNext == Inv /\ [Next]_vars => Inv'
<1> SUFFICES ASSUME Inv, [Next]_vars PROVE Inv' OBVIOUS
<1>1. TypeOK' BY TypesNext
<1>2. CASE UNCHANGED vars
  <2>1. UNCHANGED Tables /\ UNCHANGED <<queue, head, accepted, inFlight, eventStopping, dispatcher, pushed>>
    BY <1>2 DEF vars, Tables, queueVars, streamVars, lockVars, flushVars, chatVars
  <2>2. Taken' = Taken /\ (\A u \in Users: Fresh(u)' <=> Fresh(u)) /\ (Busy' <=> Busy)
    BY <2>1 DEF Taken, Fresh, Busy
  <2>3. Taken \in Int BY EventTypes DEF Inv
  <2>4. QueueInv' BY <2>1, <2>2 DEF Inv, MessageInv, QueueInv
  <2>5. FlushInv' BY <2>1 DEF Inv, MessageInv, FlushInv, Tables
  <2>6. OwnerInv' BY <2>1, <2>2, OwnerKeeps, UsersAssumption
  <2>7. MessageInv' BY <1>1, <2>1, <2>2, <2>3, <2>4, <2>5, <2>6, TablesKeep
  <2> QED BY <1>1, <2>7 DEF Inv
<1>3. CASE Next
  <2>1. MessageInv'
    BY <1>1, <1>3, QueueKeeps, PushKeeps, ReturnKeeps, FireKeeps, FinalizeIdleKeeps, IdleReturnsKeeps,
       FlushWaitingKeeps, StopTimersKeeps, EndNextKeeps, EndReturnsKeeps, FlushEndsKeeps
    DEF Next, DispatcherStep, TimerStep, FlushStep
  <2> QED BY <1>1, <2>1 DEF Inv
<1> QED BY <1>2, <1>3

\* The inductive invariant: the queue of service.go, the lock of
\* event_stream.go, the structs, their timers and the messages in Telegram fit
\* together in every state.
THEOREM MessageInvariant == Spec => []Inv
<1>1. Init => Inv BY TypesInit, MessageInit DEF Inv
<1> QED BY <1>1, MessageNext, PTL DEF Spec

\* Every variable of the event messages keeps its type; above all a push always
\* finds a struct that was not used before.
THEOREM EventMessageTypes == Spec => []TypeOK
<1>1. Inv => TypeOK BY DEF Inv
<1> QED BY <1>1, MessageInvariant, PTL

\* A chat reads its events in the order they happened and no event twice, over
\* all the messages that event_stream.go sends and edits.
THEOREM ChatIsInOrder == Spec => []InOrder
<1>1. Inv => InOrder
  <2> SUFFICES ASSUME Inv, NEW x \in Ids, NEW y \in Ids,
                      NEW i \in DOMAIN message[x].shown, NEW j \in DOMAIN message[y].shown,
                      stream[x].user = stream[y].user, x < y \/ (x = y /\ i < j)
               PROVE  message[x].shown[i] < message[y].shown[j]
    BY DEF InOrder
  <2>1. message[x].shown[i] \in Has(x) /\ message[y].shown[j] \in Has(y) BY DEF Has
  <2>2. CASE x < y BY <2>1, <2>2 DEF Inv, MessageInv, OrderInv
  <2>3. CASE x = y /\ i < j BY <2>3 DEF Inv, MessageInv, EventInv, Increasing
  <2> QED BY <2>2, <2>3
<1> QED BY <1>1, MessageInvariant, PTL

\* A Flush of service.go that returns nil has given the owner every event that
\* notify accepted, and has ended every message unless a call failed.
THEOREM FlushIsComplete == Spec => []FlushComplete
<1>1. Inv => FlushComplete
  <2> SUFFICES ASSUME Inv, flush = "ok"
               PROVE  /\ pushed[Owner] = [i \in 1..accepted |-> i]
                      /\ \A x \in Ids: message[x].kind # "live" \/ failures > 0
    BY DEF FlushComplete
  <2>1. /\ ~inFlight /\ head = Len(queue) /\ stopping /\ ~expired
        /\ \A u \in Users: streams[u] = None
    BY DEF Inv, MessageInv, FlushInv
  <2>2. pushed[Owner] = [i \in 1..accepted |-> i]
    <3>1. Taken = accepted BY <2>1, EventTypes DEF Taken, Inv
    <3>2. ~Fresh(Owner) BY <2>1 DEF Inv, MessageInv, QueueInv, Fresh
    <3> QED BY <3>1, <3>2 DEF Inv, MessageInv, OwnerInv
  <2>3. ASSUME NEW x \in Ids PROVE message[x].kind # "live" \/ failures > 0
    <3>1. ending = None BY <2>1 DEF Inv, MessageInv, LockInv
    <3>2. stream[x].user \in Users /\ x # None /\ failures \in Nat
      BY IdsRange, BoundsAssumption DEF Inv, TypeOK
    <3> QED BY <2>1, <3>1, <3>2 DEF Inv, MessageInv, LiveInv
  <2> QED BY <2>2, <2>3
<1> QED BY <1>1, MessageInvariant, PTL

\* "After 30 seconds without another event, the bot marks that stream idle":
\* while a timer holds the lock only the message of a stream whose last event is
\* thirty seconds old changes, whatever timer was stopped too late.
THEOREM OnlyQuietStreamsEnd == Spec => QuietWhenEnded
<1> DEFINE Ends == \A x \in Ids: mu = "timer" /\ message'[x] # message[x] => quiet[x]
<1>1. Inv /\ [Next]_vars => Ends
  <2> SUFFICES ASSUME Inv, [Next]_vars, NEW x \in Ids, mu = "timer", message'[x] # message[x]
               PROVE  quiet[x]
    OBVIOUS
  <2>1. message' # message OBVIOUS
  <2>2. dispatcher.pc # "call" /\ flush # "call" BY DEF Inv, MessageInv, LockInv
  <2>3. IdleReturns
    <3>1. CASE UNCHANGED vars BY <2>1, <3>1 DEF vars, chatVars
    <3>2. CASE DispatcherStep
      <4>1. ASSUME NEW u \in Users PROVE ~Push(u) BY DEF Push, Free
      <4>2. ~SendReturns /\ ~EditReturns BY <2>2 DEF SendReturns, EditReturns
      <4> QED BY <2>1, <3>2, <4>1, <4>2 DEF DispatcherStep, DispatchTakes, Recipients, DispatchDone,
                                            DispatchEnds, chatVars
    <3>3. CASE TimerStep BY <2>1, <3>3 DEF TimerStep, Fire, FinalizeIdle, chatVars
    <3>4. CASE FlushStep
      BY <2>1, <2>2, <3>4 DEF FlushStep, LogStreamsEnd, FlushWaits, StopTimers, EndNext, EndReturns,
                              FlushEnds, Waiting, chatVars
    <3>5. CASE (\E u \in Users: Decide(u)) \/ Notify \/ StartDispatcher \/ FlushStarts \/ Expire
      BY <2>1, <3>5 DEF Decide, Notify, StartDispatcher, FlushStarts, Expire, Waiting, chatVars
    <3> QED BY <3>1, <3>2, <3>3, <3>4, <3>5 DEF Next
  <2>4. ending \in Ids BY <2>3 DEF IdleReturns, Inv, MessageInv, LockInv, TypeOK
  <2>5. x = ending BY <2>3, <2>4, ShowsType DEF IdleReturns, Finalize, Inv
  <2> QED BY <2>5 DEF Inv, MessageInv, TimerInv
<1> QED BY <1>1, MessageInvariant, PTL DEF Spec, QuietWhenEnded
================================================================================
