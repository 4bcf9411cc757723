----------------------------- MODULE DurableStore -----------------------------
(***************************************************************************)
(* What the access decisions of the bot promise, without files, locks and  *)
(* failed writes: the status of a user changes along the arrows of Decided *)
(* and in no other way, a restart changes nothing, and whoever is told or  *)
(* asks for a status gets the one that a restart would find.               *)
(***************************************************************************)
CONSTANT Users

VARIABLES
    store,  \* the status of every user
    up,     \* the bot runs
    told,   \* what a user was told last
    seen    \* the recipients that the last event was sent to

vars == <<store, up, told, seen>>

Statuses == {"none", "pending", "approved", "denied"}
Decided  == {<<"none", "pending">>, <<"pending", "approved">>, <<"pending", "denied">>,
             <<"denied", "approved">>, <<"approved", "none">>}

Init ==
    /\ store = [u \in Users |-> "none"] /\ up = TRUE
    /\ told = [u \in Users |-> "none"] /\ seen = {}

Commit(u) ==
    /\ up
    /\ \E s \in Statuses: <<store[u], s>> \in Decided /\ store' = [store EXCEPT ![u] = s]
    /\ UNCHANGED <<up, told, seen>>

Tell(u) == up /\ told' = [told EXCEPT ![u] = store[u]] /\ UNCHANGED <<store, up, seen>>

Read == up /\ seen' = {u \in Users: store[u] = "approved"} /\ UNCHANGED <<store, up, told>>

CrashOrRestart == up' \in BOOLEAN /\ UNCHANGED <<store, told, seen>>

Next == Read \/ CrashOrRestart \/ \E u \in Users: Commit(u) \/ Tell(u)

Spec == Init /\ [][Next]_vars
=============================================================================
