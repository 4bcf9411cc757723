----------------------------- MODULE EventStream -----------------------------
(* What Manager.OnEvent promises: the callback gets every lifecycle event,  *)
(* once, in the order of emission, as it was at its emission.               *)
EXTENDS Naturals, Sequences

VARIABLES
    emitted,      \* the events emitted so far
    delivered,    \* the events the callback was given
    registered    \* there is a callback

vars == <<emitted, delivered, registered>>

Init == emitted = <<>> /\ delivered = <<>> /\ registered = FALSE

\* Events are only added at the end.
Emit ==
    /\ Len(emitted) <= Len(emitted')
    /\ \A i \in 1..Len(emitted): emitted'[i] = emitted[i]
    /\ UNCHANGED <<delivered, registered>>

Register == registered' = TRUE /\ UNCHANGED <<emitted, delivered>>

Deliver ==
    /\ registered /\ Len(delivered) < Len(emitted)
    /\ delivered' = Append(delivered, emitted[Len(delivered) + 1])
    /\ UNCHANGED <<emitted, registered>>

Next == Emit \/ Register \/ Deliver

SafeSpec == Init /\ [][Next]_vars
Spec     == SafeSpec /\ WF_vars(Deliver)
=============================================================================
