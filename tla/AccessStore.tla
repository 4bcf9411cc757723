------------------------------ MODULE AccessStore ------------------------------
(***************************************************************************)
(* Who may use the Telegram bot: telegram/access_store.go with the         *)
(* handlers that change it, start and accessCallback of service.go.  The   *)
(* records live in memory and in a JSON file, which is replaced by         *)
(* renaming a temporary one and is checked as a whole when the process     *)
(* starts.  The owner has no record.                                       *)
(*                                                                         *)
(* A handler holds Service.authorizationMu from start to end, so there is  *)
(* one; hand is its place.  AccessStore.mu is held exactly in "write" and  *)
(* "rename".  The process may be killed in every state, in the middle of a *)
(* save too; the file system itself survives.  Times are wall-clock times, *)
(* and the wall clock may be set back.                                     *)
(***************************************************************************)
EXTENDS Integers

CONSTANTS
    Users,       \* users other than the owner
    Tolerance,   \* how far a time may be ahead at a start, one minute in the code
    MaxClock,    \* bound: the latest time
    MaxFailures  \* bound: failed saves and failed calls to Telegram

ASSUME ToleranceAssumption == Tolerance \in Nat
ASSUME ClockAssumption     == MaxClock \in Nat \ {0} /\ MaxFailures \in Nat /\ Users # {}

VARIABLES
    bot,         \* the Telegram service: "up", "disabled", or "down" with the process
    users,       \* AccessStore.users
    file,        \* external: the records in the file
    hand,        \* the handler that holds authorizationMu
    clock,       \* external: time.Now
    setBack,     \* history: the clock was set back
    told,        \* external: the decision a user was told last
    cards,       \* external: users whose request card the owner received
    seen,        \* recipients of the last event
    failures     \* saves and calls that failed

accessVars == <<bot, users, file, hand, clock, setBack, told, cards, seen, failures>>

Time     == 0..MaxClock
Nil      == 0          \* no DecidedAt; the clock starts at 1
Statuses == {"none", "pending", "approved", "denied"}
Record   == [status: Statuses, requestedAt: Time, decidedAt: Time]
NoRecord == [status |-> "none", requestedAt |-> Nil, decidedAt |-> Nil]
Verbs    == {"approve", "deny", "revoke"}
Idle     == [pc |-> "idle", user |-> CHOOSE u \in Users: TRUE, old |-> NoRecord, asks |-> FALSE]

AccessTypeOK ==
    /\ bot \in {"up", "disabled", "down"}
    /\ users \in [Users -> Record] /\ file \in [Users -> Record]
    /\ hand \in [pc: {"idle", "write", "rename", "tell", "card"}, user: Users,
                 old: Record, asks: BOOLEAN]
    /\ clock \in Time /\ setBack \in BOOLEAN
    /\ told \in [Users -> Statuses]
    /\ cards \in SUBSET Users /\ seen \in SUBSET Users
    /\ failures \in 0..MaxFailures

AccessInit ==
    /\ bot = "up"
    /\ users = [u \in Users |-> NoRecord] /\ file = users
    /\ hand = Idle
    /\ clock = 1 /\ setBack = FALSE
    /\ told = [u \in Users |-> "none"] /\ cards = {} /\ seen = {}
    /\ failures = 0

NextFailure == failures < MaxFailures /\ failures' = failures + 1

-----------------------------------------------------------------------------
(* Upsert and Delete: the memory first, then the file.                     *)

Upsert(u, record, asks) ==
    /\ users' = [users EXCEPT ![u] = record]
    /\ hand' = [pc |-> "write", user |-> u, old |-> users[u], asks |-> asks]

\* Mutant: a failed save leaves the new record in memory.
KeepNew == UNCHANGED users /\ hand' = Idle
Rollback == users' = [users EXCEPT ![hand.user] = hand.old] /\ hand' = Idle

\* saveLocked up to the rename.
WriteTemp ==
    /\ hand.pc = "write"
    /\ \/ hand' = [hand EXCEPT !.pc = "rename"] /\ UNCHANGED <<users, failures>>
       \/ NextFailure /\ Rollback
    /\ UNCHANGED <<bot, file, clock, setBack, told, cards, seen>>

\* Mutant: the error of the rename is not looked at.
RenameIgnoresError ==
    /\ hand.pc = "rename"
    /\ \/ file' = users /\ UNCHANGED failures
       \/ NextFailure /\ UNCHANGED file
    /\ hand' = [hand EXCEPT !.pc = "tell"]
    /\ UNCHANGED <<users, bot, clock, setBack, told, cards, seen>>

\* A revocation tells the user nothing.
Rename ==
    /\ hand.pc = "rename"
    /\ \/ /\ file' = users
          /\ hand' = IF users[hand.user].status = "none" THEN Idle ELSE [hand EXCEPT !.pc = "tell"]
          /\ UNCHANGED <<users, failures>>
       \/ NextFailure /\ Rollback /\ UNCHANGED file
    /\ UNCHANGED <<bot, clock, setBack, told, cards, seen>>

-----------------------------------------------------------------------------
(* The handlers.                                                           *)

\* start, of a user without a record or with one; an approved user gets the menu.
Start(u) ==
    /\ bot = "up" /\ hand.pc = "idle"
    /\ IF users[u].status = "none"
       THEN Upsert(u, [status |-> "pending", requestedAt |-> clock, decidedAt |-> Nil], TRUE)
       ELSE hand' = [Idle EXCEPT !.pc = "tell", !.user = u] /\ UNCHANGED users
    /\ UNCHANGED <<bot, file, clock, setBack, told, cards, seen, failures>>

From(verb) == CASE verb = "approve" -> {"pending", "denied"}
                [] verb = "deny"    -> {"pending"}
                [] verb = "revoke"  -> {"approved"}

\* accessCallback.  Approve and Deny are buttons of the request card; nothing in
\* the code offers Revoke, the callback is there for it.
Decide(u, verb) ==
    /\ bot = "up" /\ hand.pc = "idle"
    /\ verb # "revoke" => u \in cards
    /\ users[u].status \in From(verb)
    /\ Upsert(u, IF verb = "revoke" THEN NoRecord
                 ELSE [users[u] EXCEPT !.status = IF verb = "approve" THEN "approved" ELSE "denied",
                                       !.decidedAt = clock], FALSE)
    /\ UNCHANGED <<bot, file, clock, setBack, told, cards, seen, failures>>

\* The message with the decision, or for a request, that it is pending.
TellUser ==
    /\ hand.pc = "tell"
    /\ \/ /\ told' = [told EXCEPT ![hand.user] = users[hand.user].status]
          /\ UNCHANGED failures
       \/ NextFailure /\ UNCHANGED told
    /\ hand' = IF hand.asks THEN [hand EXCEPT !.pc = "card"] ELSE Idle
    /\ UNCHANGED <<bot, users, file, clock, setBack, cards, seen>>

\* The card for the owner, once; its error is dropped (send).
SendCard ==
    /\ hand.pc = "card"
    /\ \/ cards' = cards \cup {hand.user} /\ UNCHANGED failures
       \/ NextFailure /\ UNCHANGED cards
    /\ hand' = Idle
    /\ UNCHANGED <<bot, users, file, clock, setBack, told, seen>>

\* dispatchEvents asks for a Snapshot, which waits for AccessStore.mu only.
Recipients ==
    /\ bot = "up" /\ hand.pc \notin {"write", "rename"}
    /\ seen' = {u \in Users: users[u].status = "approved"}
    /\ UNCHANGED <<bot, users, file, hand, clock, setBack, told, cards, failures>>

HandlerStep == WriteTemp \/ Rename \/ TellUser \/ SendCard

-----------------------------------------------------------------------------
(* The process and the clock.                                              *)

\* Mutant: a decision in the moment of the request is refused.
ValidStrict(record) ==
    /\ record.requestedAt <= clock + Tolerance
    /\ record.status \in {"approved", "denied"} =>
         /\ record.decidedAt > record.requestedAt
         /\ record.decidedAt <= clock + Tolerance
\* NewAccessStore: the times of one record.
Valid(record) ==
    /\ record.requestedAt <= clock + Tolerance
    /\ record.status = "pending" => record.decidedAt = Nil
    /\ record.status \in {"approved", "denied"} =>
         /\ record.decidedAt # Nil
         /\ record.decidedAt >= record.requestedAt
         /\ record.decidedAt <= clock + Tolerance

Loadable == \A u \in Users: Valid(file[u])

AccessCrash ==
    /\ bot # "down"
    /\ bot' = "down"
    /\ users' = [u \in Users |-> NoRecord] /\ hand' = Idle
    /\ UNCHANGED <<file, clock, setBack, told, cards, seen, failures>>

\* Mutant: a file that is not accepted keeps the process from starting.
RestartGivesUp ==
    /\ bot = "down"
    /\ IF Loadable THEN bot' = "up" /\ users' = file ELSE UNCHANGED <<bot, users>>
    /\ UNCHANGED <<file, hand, clock, setBack, told, cards, seen, failures>>

\* One bad record disables the bot; the rest of the process runs.
AccessRestart ==
    /\ bot = "down"
    /\ IF Loadable THEN bot' = "up" /\ users' = file ELSE bot' = "disabled" /\ UNCHANGED users
    /\ UNCHANGED <<file, hand, clock, setBack, told, cards, seen, failures>>

Tick ==
    /\ clock < MaxClock
    /\ clock' = clock + 1
    /\ UNCHANGED <<bot, users, file, hand, setBack, told, cards, seen, failures>>

SetBack ==
    /\ ~setBack /\ clock > 1
    /\ clock' \in 1..(clock - 1) /\ setBack' = TRUE
    /\ UNCHANGED <<bot, users, file, hand, told, cards, seen, failures>>

AccessNext ==
    \/ \E u \in Users: Start(u) \/ \E v \in Verbs: Decide(u, v)
    \/ HandlerStep \/ Recipients
    \/ AccessCrash \/ AccessRestart \/ Tick \/ SetBack

AccessSpec == AccessInit /\ [][AccessNext]_accessVars

-----------------------------------------------------------------------------
(* Properties.                                                             *)

\* What the bot acts on is what a restart would read: failed saves are taken
\* back, and nobody reads the memory while the file is written.
MemoryIsFile == bot = "up" /\ hand.pc \notin {"write", "rename"} => users = file

\* While nobody sets the clock back, the file is one that the next start
\* accepts, whenever the process is killed: no decision ever disables the bot.
LoadsUnlessSetBack == ~setBack => Loadable

\* "The decision is persisted before the user is notified" (docs/telegram.md),
\* and no restart, failed save or concurrent reader ever shows another one.
Durable == INSTANCE DurableStore
             WITH store <- [u \in Users |-> file[u].status], up <- bot = "up"
ImplementsDurable == Durable!Spec
=============================================================================
