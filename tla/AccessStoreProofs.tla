--------------------------- MODULE AccessStoreProofs ---------------------------
(***************************************************************************)
(* AccessStore for any number of users, failures and restarts: the bot     *)
(* acts on what is in the file, the store implements DurableStore, and     *)
(* while the clock is not set back the file always loads.                  *)
(*                                                                         *)
(* The bounds play no role, so times are integers here.                    *)
(***************************************************************************)
EXTENDS AccessStore, TLAPS

Saving    == hand.pc \in {"write", "rename"}
AnyRecord == [status: Statuses, requestedAt: Int, decidedAt: Int]

HandTypes ==
    [pc: {"idle", "write", "rename", "tell", "card"}, user: Users \cup {Idle.user},
     old: AnyRecord, asks: BOOLEAN]

\* The types that the steps below need.
Types ==
    /\ bot \in {"up", "disabled", "down"}
    /\ users \in [Users -> AnyRecord] /\ file \in [Users -> AnyRecord]
    /\ hand \in HandTypes
    /\ clock \in Int /\ clock > 0

\* A handler at work keeps the bot up and has a user.
HandInv == hand.pc # "idle" => bot = "up" /\ hand.user \in Users

\* In the middle of a save the memory is the file with one decision more, and
\* the handler can take it back.
SaveInv ==
    Saving => /\ hand.old = file[hand.user]
              /\ users = [file EXCEPT ![hand.user] = users[hand.user]]
              /\ <<hand.old.status, users[hand.user].status>> \in Durable!Decided

StoreInv == Types /\ HandInv /\ SaveInv /\ MemoryIsFile

LEMMA NoRecordType == NoRecord \in AnyRecord
  BY DEF NoRecord, AnyRecord, Statuses, Nil

LEMMA IdleType == Idle \in HandTypes /\ Idle.pc = "idle"
  BY NoRecordType DEF Idle, HandTypes

\* The save that a handler begins: Upsert and Delete.
LEMMA UpsertKeeps ==
  ASSUME StoreInv, bot = "up", hand.pc = "idle", NEW u \in Users, NEW record \in AnyRecord,
         NEW asks \in BOOLEAN, Upsert(u, record, asks),
         <<users[u].status, record.status>> \in Durable!Decided,
         UNCHANGED <<bot, file, clock, setBack>>
  PROVE  StoreInv'
<1>1. users = file BY DEF StoreInv, MemoryIsFile
<1>2. Types'
  BY DEF StoreInv, Types, Upsert, HandTypes
<1>3. hand'.pc = "write" /\ hand'.user = u /\ hand'.old = users[u] BY DEF Upsert
<1>4. users'[u] = record BY DEF Upsert, StoreInv, Types
<1>5. SaveInv'
  <2>1. users' = [file EXCEPT ![u] = users'[u]] BY <1>1, <1>4 DEF Upsert
  <2> QED BY <1>1, <1>3, <1>4, <2>1 DEF SaveInv, Saving
<1>6. HandInv' /\ MemoryIsFile' BY <1>3 DEF HandInv, MemoryIsFile
<1> QED BY <1>2, <1>5, <1>6 DEF StoreInv

\* A failed save leaves the memory as the file is.
LEMMA RollbackRestores ==
  ASSUME StoreInv, Saving, Rollback, UNCHANGED file
  PROVE  users' = file /\ hand' = Idle
<1>1. users' = [users EXCEPT ![hand.user] = hand.old] /\ hand' = Idle BY DEF Rollback
<1>2. users = [file EXCEPT ![hand.user] = users[hand.user]] /\ hand.old = file[hand.user]
  BY DEF StoreInv, SaveInv
<1>3. users \in [Users -> AnyRecord] /\ file \in [Users -> AnyRecord] /\ hand.user \in Users
  BY DEF StoreInv, Types, HandInv, Saving
<1>4. \A x \in Users: users'[x] = file[x] BY <1>1, <1>2, <1>3
<1>5. users' \in [Users -> AnyRecord] BY <1>1, <1>2, <1>3
<1> QED BY <1>1, <1>3, <1>4, <1>5

\* A state in which no save is under way and the memory is the file.
LEMMA SettledKeeps ==
  ASSUME StoreInv, Types', hand'.pc = "idle" \/ (hand'.user \in Users /\ bot' = "up"),
         hand'.pc \notin {"write", "rename"}, bot' = "up" => users' = file'
  PROVE  StoreInv'
BY DEF StoreInv, HandInv, SaveInv, Saving, MemoryIsFile
-----------------------------------------------------------------------------
(* StoreInv is inductive.                                                  *)

LEMMA StoreInvInit == AccessInit => StoreInv
<1> SUFFICES ASSUME AccessInit PROVE StoreInv OBVIOUS
<1>1. users \in [Users -> AnyRecord] /\ file = users
  BY NoRecordType DEF AccessInit
<1>2. hand = Idle /\ hand.pc = "idle" /\ hand \in HandTypes BY IdleType DEF AccessInit
<1>3. clock = 1 /\ setBack = FALSE /\ bot = "up" BY DEF AccessInit
<1>4. Types BY <1>1, <1>2, <1>3 DEF Types
<1> QED BY <1>1, <1>2, <1>4 DEF StoreInv, HandInv, SaveInv, Saving, MemoryIsFile

\* A request and a decision begin a save of a legal change.
LEMMA StartKeeps ==
  ASSUME StoreInv, NEW u \in Users, Start(u)
  PROVE  StoreInv'
<1>1. bot = "up" /\ hand.pc = "idle" /\ UNCHANGED <<bot, file, clock, setBack>> BY DEF Start
<1>2. CASE users[u].status = "none"
  <2> DEFINE record == [status |-> "pending", requestedAt |-> clock, decidedAt |-> Nil]
  <2>1. record \in AnyRecord BY DEF StoreInv, Types, AnyRecord, Statuses, Nil
  <2>2. Upsert(u, record, TRUE) BY <1>2 DEF Start
  <2>3. <<users[u].status, record.status>> \in Durable!Decided BY <1>2 DEF Durable!Decided
  <2> HIDE DEF record
  <2> QED BY <1>1, <2>1, <2>2, <2>3, UpsertKeeps
<1>3. CASE users[u].status # "none"
  <2>1. hand' = [Idle EXCEPT !.pc = "tell", !.user = u] /\ users' = users BY <1>3 DEF Start
  <2>2. hand' \in HandTypes /\ hand'.pc = "tell" /\ hand'.user = u
    BY <2>1, IdleType DEF HandTypes
  <2>3. Types' BY <1>1, <2>1, <2>2 DEF StoreInv, Types
  <2>4. users = file BY <1>1 DEF StoreInv, MemoryIsFile
  <2> QED BY <1>1, <2>1, <2>2, <2>3, <2>4, SettledKeeps
<1> QED BY <1>2, <1>3

LEMMA DecideKeeps ==
  ASSUME StoreInv, NEW u \in Users, NEW verb \in Verbs, Decide(u, verb)
  PROVE  StoreInv'
<1> DEFINE decided == [users[u] EXCEPT !.status = IF verb = "approve" THEN "approved" ELSE "denied",
                                       !.decidedAt = clock]
           record  == IF verb = "revoke" THEN NoRecord ELSE decided
<1>1. bot = "up" /\ hand.pc = "idle" /\ UNCHANGED <<bot, file, clock, setBack>>
      /\ Upsert(u, record, FALSE) /\ users[u].status \in From(verb)
  BY DEF Decide
<1>2. users[u] \in AnyRecord /\ clock \in Int BY DEF StoreInv, Types
<1>3. decided \in AnyRecord
      /\ decided.status = IF verb = "approve" THEN "approved" ELSE "denied"
  BY <1>2 DEF AnyRecord, Statuses
<1>4. record \in AnyRecord BY <1>3, NoRecordType
<1>5. <<users[u].status, record.status>> \in Durable!Decided
  <2>1. CASE verb = "approve" BY <1>1, <1>3, <2>1 DEF From, Durable!Decided
  <2>2. CASE verb = "deny" BY <1>1, <1>3, <2>2 DEF From, Durable!Decided
  <2>3. CASE verb = "revoke" BY <1>1, <2>3 DEF From, Durable!Decided, NoRecord
  <2> QED BY <2>1, <2>2, <2>3 DEF Verbs
<1> HIDE DEF record
<1> QED BY <1>1, <1>4, <1>5, UpsertKeeps

\* A handler that returns leaves memory and file alike.
LEMMA ReturnKeeps ==
  ASSUME StoreInv, hand' = Idle, users' = file', users' \in [Users -> AnyRecord],
         UNCHANGED <<bot, clock, setBack>>
  PROVE  StoreInv'
<1>1. Types' BY IdleType DEF StoreInv, Types
<1> QED BY <1>1, IdleType, SettledKeeps

LEMMA WriteTempKeeps ==
  ASSUME StoreInv, WriteTemp
  PROVE  StoreInv'
<1>1. hand.pc = "write" /\ UNCHANGED <<bot, file, clock, setBack>> BY DEF WriteTemp
<1>2. CASE hand' = [hand EXCEPT !.pc = "rename"] /\ users' = users
  <2>1. hand' \in HandTypes /\ hand'.pc = "rename" /\ hand'.user = hand.user /\ hand'.old = hand.old
    BY <1>2 DEF StoreInv, Types, HandTypes
  <2>2. Types' BY <1>1, <1>2, <2>1 DEF StoreInv, Types
  <2> QED BY <1>1, <1>2, <2>1, <2>2 DEF StoreInv, HandInv, SaveInv, Saving, MemoryIsFile
<1>3. CASE Rollback
  <2>1. users' = file /\ hand' = Idle BY <1>1, <1>3, RollbackRestores DEF Saving
  <2> QED BY <1>1, <2>1, ReturnKeeps DEF StoreInv, Types
<1> QED BY <1>2, <1>3 DEF WriteTemp

LEMMA RenameKeeps ==
  ASSUME StoreInv, Rename
  PROVE  StoreInv'
<1>1. hand.pc = "rename" /\ UNCHANGED <<bot, clock, setBack>> BY DEF Rename
<1>2. hand.user \in Users /\ bot = "up" BY <1>1 DEF StoreInv, HandInv
<1>3. users \in [Users -> AnyRecord] BY DEF StoreInv, Types
<1>4. CASE file' = users /\ users' = users /\ hand' = Idle
  BY <1>1, <1>3, <1>4, ReturnKeeps
<1>5. CASE file' = users /\ users' = users /\ hand' = [hand EXCEPT !.pc = "tell"]
  <2>1. hand' \in HandTypes /\ hand'.pc = "tell" /\ hand'.user = hand.user
    BY <1>5 DEF StoreInv, Types, HandTypes
  <2>2. Types' BY <1>1, <1>3, <1>5, <2>1 DEF StoreInv, Types
  <2> QED BY <1>1, <1>2, <1>5, <2>1, <2>2, SettledKeeps
<1>6. CASE Rollback /\ file' = file
  <2>1. users' = file /\ hand' = Idle BY <1>1, <1>6, RollbackRestores DEF Saving
  <2> QED BY <1>1, <1>6, <2>1, ReturnKeeps DEF StoreInv, Types
<1> QED BY <1>4, <1>5, <1>6 DEF Rename

\* The two messages change nothing that StoreInv speaks of.
LEMMA MessageKeeps ==
  ASSUME StoreInv, TellUser \/ SendCard
  PROVE  StoreInv'
<1>1. hand.pc \in {"tell", "card"} /\ UNCHANGED <<bot, users, file, clock, setBack>>
      /\ (hand' = Idle \/ hand' = [hand EXCEPT !.pc = "card"])
  BY DEF TellUser, SendCard
<1>2. users = file /\ bot = "up" /\ hand.user \in Users
  BY <1>1 DEF StoreInv, MemoryIsFile, HandInv
<1>3. CASE hand' = Idle BY <1>1, <1>2, <1>3, ReturnKeeps DEF StoreInv, Types
<1>4. CASE hand' = [hand EXCEPT !.pc = "card"]
  <2>1. hand' \in HandTypes /\ hand'.pc = "card" /\ hand'.user = hand.user
    BY <1>4 DEF StoreInv, Types, HandTypes
  <2>2. Types' BY <1>1, <2>1 DEF StoreInv, Types
  <2> QED BY <1>1, <1>2, <2>1, <2>2, SettledKeeps
<1> QED BY <1>1, <1>3, <1>4

LEMMA AccessProcessKeeps ==
  ASSUME StoreInv, AccessCrash \/ AccessRestart
  PROVE  StoreInv'
<1>1. CASE AccessCrash
  <2>1. bot' = "down" /\ hand' = Idle /\ users' \in [Users -> AnyRecord]
        /\ UNCHANGED <<file, clock, setBack>>
    BY <1>1, NoRecordType DEF AccessCrash
  <2>2. Types' BY <2>1, IdleType DEF StoreInv, Types
  <2> QED BY <2>1, <2>2, IdleType, SettledKeeps
<1>2. CASE AccessRestart
  <2>1. bot = "down" /\ hand.pc = "idle" /\ UNCHANGED <<file, hand, clock, setBack>>
    BY <1>2 DEF AccessRestart, StoreInv, HandInv
  <2>2. (bot' = "up" /\ users' = file) \/ (bot' = "disabled" /\ users' = users)
    BY <1>2 DEF AccessRestart
  <2>3. Types' BY <2>1, <2>2 DEF StoreInv, Types
  <2> QED BY <2>1, <2>2, <2>3, SettledKeeps
<1> QED BY <1>1, <1>2

LEMMA ClockKeeps ==
  ASSUME StoreInv, Tick \/ SetBack \/ Recipients \/ UNCHANGED accessVars
  PROVE  StoreInv'
<1>1. UNCHANGED <<bot, users, file, hand>> BY DEF Tick, SetBack, Recipients, accessVars
<1>2. clock' \in Int /\ clock' > 0
  <2>1. clock \in Int /\ clock > 0 BY DEF StoreInv, Types
  <2>2. CASE Tick BY <2>1, <2>2 DEF Tick
  <2>3. CASE SetBack
    <3>1. clock' \in 1..(clock - 1) BY <2>3 DEF SetBack
    <3> QED BY <2>1, <3>1
  <2>4. CASE Recipients \/ UNCHANGED accessVars BY <2>1, <2>4 DEF Recipients, accessVars
  <2> QED BY <2>2, <2>3, <2>4
<1> QED BY <1>1, <1>2 DEF StoreInv, Types, HandInv, SaveInv, Saving, MemoryIsFile

LEMMA StoreInvNext == StoreInv /\ [AccessNext]_accessVars => StoreInv'
<1> SUFFICES ASSUME StoreInv, [AccessNext]_accessVars PROVE StoreInv' OBVIOUS
<1>1. ASSUME NEW u \in Users, Start(u) PROVE StoreInv' BY <1>1, StartKeeps
<1>2. ASSUME NEW u \in Users, NEW v \in Verbs, Decide(u, v) PROVE StoreInv' BY <1>2, DecideKeeps
<1>3. CASE HandlerStep
  BY <1>3, WriteTempKeeps, RenameKeeps, MessageKeeps DEF HandlerStep
<1>4. CASE AccessCrash \/ AccessRestart BY <1>4, AccessProcessKeeps
<1>5. CASE Tick \/ SetBack \/ Recipients \/ UNCHANGED accessVars BY <1>5, ClockKeeps
<1> QED BY <1>1, <1>2, <1>3, <1>4, <1>5 DEF AccessNext

THEOREM StoreInvariant == AccessSpec => []StoreInv
BY StoreInvInit, StoreInvNext, PTL DEF AccessSpec

\* What the bot acts on is what a restart would read (Upsert, Delete, saveLocked).
THEOREM MemoryMatchesFile == AccessSpec => []MemoryIsFile
<1>1. StoreInv => MemoryIsFile BY DEF StoreInv
<1> QED BY <1>1, StoreInvariant, PTL
-----------------------------------------------------------------------------
(* The refinement.                                                         *)

Stutters == UNCHANGED <<bot, file, told, seen>>

LEMMA StutterRefines == Stutters => UNCHANGED Durable!vars
BY DEF Stutters, Durable!vars

\* The rename is the decision, in both worlds.
LEMMA RenameRefines ==
  ASSUME StoreInv, Rename
  PROVE  Durable!Next \/ UNCHANGED Durable!vars
<1>1. hand.pc = "rename" /\ UNCHANGED <<bot, told, seen>> BY DEF Rename
<1>2. hand.user \in Users /\ bot = "up" BY <1>1 DEF StoreInv, HandInv
<1>3. CASE file' = file BY <1>1, <1>3, StutterRefines DEF Stutters
<1>4. CASE file' = users
  <2>1. users \in [Users -> AnyRecord] /\ file \in [Users -> AnyRecord]
    BY DEF StoreInv, Types
  <2>2. PICK u \in Users: u = hand.user BY <1>2
  <2>3. PICK s: s = users[u].status OBVIOUS
  <2>4. users = [file EXCEPT ![u] = users[u]] /\ <<file[u].status, s>> \in Durable!Decided
    BY <1>1, <2>2, <2>3 DEF StoreInv, SaveInv, Saving
  <2>5. s \in Durable!Statuses BY <2>1, <2>3 DEF AnyRecord, Statuses, Durable!Statuses
  <2>6. [x \in Users |-> file'[x].status]
          = [[x \in Users |-> file[x].status] EXCEPT ![u] = s]
    BY <1>4, <2>1, <2>3, <2>4
  <2>7. Durable!Commit(u)
    BY <1>1, <1>2, <2>4, <2>5, <2>6 DEF Durable!Commit
  <2> QED BY <2>7 DEF Durable!Next
<1> QED BY <1>3, <1>4 DEF Rename

\* What a user is told is what the file says.
LEMMA TellRefines ==
  ASSUME StoreInv, TellUser
  PROVE  Durable!Next \/ UNCHANGED Durable!vars
<1>1. hand.pc = "tell" /\ UNCHANGED <<bot, file, seen>> BY DEF TellUser
<1>2. hand.user \in Users /\ bot = "up" /\ users = file
  BY <1>1 DEF StoreInv, HandInv, MemoryIsFile
<1>3. CASE told' = told BY <1>1, <1>3, StutterRefines DEF Stutters
<1>4. CASE told' = [told EXCEPT ![hand.user] = users[hand.user].status]
  <2>1. Durable!Tell(hand.user) BY <1>1, <1>2, <1>4 DEF Durable!Tell
  <2> QED BY <1>2, <2>1 DEF Durable!Next
<1> QED BY <1>3, <1>4 DEF TellUser

\* The recipients of an event are those whom the file approves.
LEMMA RecipientsRefine ==
  ASSUME StoreInv, Recipients
  PROVE  Durable!Next
<1>1. bot = "up" /\ hand.pc \notin {"write", "rename"}
      /\ seen' = {u \in Users: users[u].status = "approved"} /\ UNCHANGED <<bot, file, told>>
  BY DEF Recipients
<1>2. users = file BY <1>1 DEF StoreInv, MemoryIsFile
<1>3. Durable!Read BY <1>1, <1>2 DEF Durable!Read
<1> QED BY <1>3 DEF Durable!Next

LEMMA ProcessRefines ==
  ASSUME AccessCrash \/ AccessRestart
  PROVE  Durable!Next
<1>1. UNCHANGED <<file, told, seen>> BY DEF AccessCrash, AccessRestart
<1>2. (bot' = "up") \in BOOLEAN OBVIOUS
<1>3. Durable!CrashOrRestart BY <1>1, <1>2 DEF Durable!CrashOrRestart
<1> QED BY <1>3 DEF Durable!Next

LEMMA DurableInit == AccessInit => Durable!Init
BY DEF AccessInit, Durable!Init, NoRecord

LEMMA DurableNext == StoreInv /\ [AccessNext]_accessVars => [Durable!Next]_(Durable!vars)
<1> SUFFICES ASSUME StoreInv, [AccessNext]_accessVars
             PROVE  Durable!Next \/ UNCHANGED Durable!vars
  OBVIOUS
<1>1. ASSUME NEW u \in Users, Start(u) PROVE UNCHANGED Durable!vars
  BY <1>1, StutterRefines DEF Start, Stutters
<1>2. ASSUME NEW u \in Users, NEW v \in Verbs, Decide(u, v) PROVE UNCHANGED Durable!vars
  BY <1>2, StutterRefines DEF Decide, Stutters
<1>3. CASE WriteTemp \/ SendCard \/ Tick \/ SetBack \/ UNCHANGED accessVars
  BY <1>3, StutterRefines DEF WriteTemp, SendCard, Tick, SetBack, accessVars, Stutters
<1>4. CASE Rename BY <1>4, RenameRefines
<1>5. CASE TellUser BY <1>5, TellRefines
<1>6. CASE Recipients BY <1>6, RecipientsRefine
<1>7. CASE AccessCrash \/ AccessRestart BY <1>7, ProcessRefines
<1> QED BY <1>1, <1>2, <1>3, <1>4, <1>5, <1>6, <1>7 DEF AccessNext, HandlerStep

\* "The decision is persisted before the user is notified", for any number of
\* users, failures and restarts.
THEOREM StoreIsDurable == AccessSpec => ImplementsDurable
BY DurableInit, DurableNext, StoreInvariant, PTL DEF AccessSpec, ImplementsDurable, Durable!Spec
-----------------------------------------------------------------------------
(* The file always loads, as long as nobody sets the clock back.           *)

\* The times of a record are in order and not ahead of now.
Honest(r, now) ==
    /\ r.requestedAt <= now
    /\ r.status = "pending" => r.decidedAt = Nil
    /\ r.status \in {"approved", "denied"} =>
         r.decidedAt # Nil /\ r.requestedAt <= r.decidedAt /\ r.decidedAt <= now

\* In memory too, for that is what the next save writes.
HonestInv ==
    ~setBack => \A u \in Users: Honest(users[u], clock) /\ Honest(file[u], clock)

LEMMA NoRecordHonest == ASSUME NEW now \in Int, now > 0 PROVE Honest(NoRecord, now)
  BY DEF Honest, NoRecord, Nil

LEMMA HonestLater ==
  ASSUME NEW r \in AnyRecord, NEW now \in Int, NEW later \in Int, now <= later, Honest(r, now)
  PROVE  Honest(r, later)
  BY DEF Honest, AnyRecord, Nil

\* One more honest record in memory.
LEMMA UpsertHonest ==
  ASSUME StoreInv, HonestInv, NEW u \in Users, NEW record, NEW asks, Upsert(u, record, asks),
         ~setBack => Honest(record, clock), UNCHANGED <<file, clock, setBack>>
  PROVE  HonestInv'
<1> SUFFICES ASSUME ~setBack, NEW x \in Users
             PROVE  Honest(users'[x], clock) /\ Honest(file[x], clock)
  BY DEF HonestInv
<1>1. users' = [users EXCEPT ![u] = record] BY DEF Upsert
<1>2. users \in [Users -> AnyRecord] BY DEF StoreInv, Types
<1>3. CASE x = u BY <1>1, <1>2, <1>3 DEF HonestInv
<1>4. CASE x # u BY <1>1, <1>2, <1>4 DEF HonestInv
<1> QED BY <1>3, <1>4

LEMMA StartHonest ==
  ASSUME StoreInv, HonestInv, NEW u \in Users, Start(u)
  PROVE  HonestInv'
<1>1. UNCHANGED <<file, clock, setBack>> BY DEF Start
<1>2. CASE users[u].status = "none"
  <2> DEFINE record == [status |-> "pending", requestedAt |-> clock, decidedAt |-> Nil]
  <2>1. Upsert(u, record, TRUE) BY <1>2 DEF Start
  <2>2. Honest(record, clock) BY DEF Honest, StoreInv, Types
  <2> HIDE DEF record
  <2> QED BY <1>1, <2>1, <2>2, UpsertHonest
<1>3. CASE users[u].status # "none"
  <2>1. users' = users BY <1>3 DEF Start
  <2> QED BY <1>1, <2>1 DEF HonestInv
<1> QED BY <1>2, <1>3

LEMMA DecideHonest ==
  ASSUME StoreInv, HonestInv, NEW u \in Users, NEW verb \in Verbs, Decide(u, verb)
  PROVE  HonestInv'
<1> DEFINE decided == [users[u] EXCEPT !.status = IF verb = "approve" THEN "approved" ELSE "denied",
                                       !.decidedAt = clock]
           record  == IF verb = "revoke" THEN NoRecord ELSE decided
<1>1. Upsert(u, record, FALSE) /\ UNCHANGED <<file, clock, setBack>> BY DEF Decide
<1>2. users[u] \in AnyRecord /\ clock \in Int /\ clock > 0 BY DEF StoreInv, Types
<1>3. decided.requestedAt = users[u].requestedAt /\ decided.decidedAt = clock
      /\ decided.status \in {"approved", "denied"}
  BY <1>2 DEF AnyRecord
<1>4. ASSUME ~setBack PROVE Honest(decided, clock)
  <2>1. users[u].requestedAt <= clock BY <1>4 DEF HonestInv, Honest
  <2> HIDE DEF decided
  <2> QED BY <1>2, <1>3, <2>1 DEF Honest, Nil
<1>5. ~setBack => Honest(record, clock) BY <1>2, <1>4, NoRecordHonest
<1> HIDE DEF record
<1> QED BY <1>1, <1>5, UpsertHonest

\* A save ends with the memory in the file or the file in memory.
LEMMA SaveHonest ==
  ASSUME StoreInv, HonestInv, WriteTemp \/ Rename
  PROVE  HonestInv'
<1>1. hand.pc \in {"write", "rename"} /\ UNCHANGED <<clock, setBack>> BY DEF WriteTemp, Rename
<1>2. CASE Rollback /\ UNCHANGED file
  <2>1. users' = file BY <1>1, <1>2, RollbackRestores DEF Saving
  <2> QED BY <1>1, <1>2, <2>1 DEF HonestInv
<1>3. CASE users' = users /\ file' \in {file, users} BY <1>1, <1>3 DEF HonestInv
<1> QED BY <1>2, <1>3 DEF WriteTemp, Rename

LEMMA ProcessHonest ==
  ASSUME StoreInv, HonestInv, AccessCrash \/ AccessRestart
  PROVE  HonestInv'
<1>1. UNCHANGED <<file, clock, setBack>> /\ clock \in Int /\ clock > 0
  BY DEF AccessCrash, AccessRestart, StoreInv, Types
<1>2. CASE users' = [u \in Users |-> NoRecord]
  <2>1. Honest(NoRecord, clock) BY <1>1, NoRecordHonest
  <2> QED BY <1>1, <1>2, <2>1 DEF HonestInv
<1>3. CASE users' \in {users, file} BY <1>1, <1>3 DEF HonestInv
<1> QED BY <1>2, <1>3 DEF AccessCrash, AccessRestart

LEMMA TickHonest ==
  ASSUME StoreInv, HonestInv, Tick
  PROVE  HonestInv'
<1>1. clock' = clock + 1 /\ UNCHANGED <<users, file, setBack>> BY DEF Tick
<1>2. users \in [Users -> AnyRecord] /\ file \in [Users -> AnyRecord] /\ clock \in Int
  BY DEF StoreInv, Types
<1> SUFFICES ASSUME ~setBack, NEW u \in Users
             PROVE  Honest(users[u], clock') /\ Honest(file[u], clock')
  BY <1>1 DEF HonestInv
<1>3. Honest(users[u], clock) /\ Honest(file[u], clock) BY DEF HonestInv
<1>4. clock' \in Int /\ clock <= clock' BY <1>1, <1>2
<1> QED BY <1>2, <1>3, <1>4, HonestLater

LEMMA HonestInit == AccessInit => HonestInv
<1> SUFFICES ASSUME AccessInit, NEW u \in Users
             PROVE  Honest(users[u], clock) /\ Honest(file[u], clock)
  BY DEF HonestInv
<1> QED BY NoRecordHonest DEF AccessInit

LEMMA HonestNext == StoreInv /\ HonestInv /\ [AccessNext]_accessVars => HonestInv'
<1> SUFFICES ASSUME StoreInv, HonestInv, [AccessNext]_accessVars PROVE HonestInv' OBVIOUS
<1>1. ASSUME NEW u \in Users, Start(u) PROVE HonestInv' BY <1>1, StartHonest
<1>2. ASSUME NEW u \in Users, NEW v \in Verbs, Decide(u, v) PROVE HonestInv' BY <1>2, DecideHonest
<1>3. CASE WriteTemp \/ Rename BY <1>3, SaveHonest
<1>4. CASE TellUser \/ SendCard \/ Recipients \/ UNCHANGED accessVars
  BY <1>4 DEF HonestInv, TellUser, SendCard, Recipients, accessVars
<1>5. CASE AccessCrash \/ AccessRestart BY <1>5, ProcessHonest
<1>6. CASE Tick BY <1>6, TickHonest
<1>7. CASE SetBack BY <1>7 DEF SetBack, HonestInv
<1> QED BY <1>1, <1>2, <1>3, <1>4, <1>5, <1>6, <1>7 DEF AccessNext, HandlerStep

\* An honest record passes the checks of a start.
LEMMA HonestIsValid ==
  ASSUME StoreInv, NEW u \in Users, Honest(file[u], clock)
  PROVE  Valid(file[u])
<1>1. file[u] \in AnyRecord /\ clock \in Int BY DEF StoreInv, Types
<1> QED BY <1>1, ToleranceAssumption DEF Honest, Valid, AnyRecord

\* No decision, no failed save and no moment of a crash leaves a file that the
\* next start refuses (NewAccessStore), unless the clock was set back.
THEOREM FileLoads == AccessSpec => []LoadsUnlessSetBack
<1>1. AccessSpec => []HonestInv
  BY StoreInvariant, HonestInit, HonestNext, PTL DEF AccessSpec
<1>2. StoreInv /\ HonestInv => LoadsUnlessSetBack
  BY HonestIsValid DEF HonestInv, LoadsUnlessSetBack, Loadable
<1> QED BY <1>1, <1>2, StoreInvariant, PTL
=============================================================================
