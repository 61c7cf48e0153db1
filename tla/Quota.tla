------------------------------- MODULE Quota -------------------------------
(***************************************************************************)
(* What a VSA with the exact gate promises to the rest of the program,     *)
(* without stripes, locks or loads: a budget of Limit units, of which      *)
(* `used` are taken and `committed` can no longer be given back because    *)
(* they have been folded into the durable scalar.                          *)
(***************************************************************************)
EXTENDS Integers

CONSTANT Limit    \* the initial scalar

VARIABLES used, committed

vars == <<used, committed>>

Init ==
    /\ used = 0
    /\ committed = 0

\* A successful TryConsume, never past the limit.
Consume(a) ==
    /\ a <= Limit - used
    /\ used' = used + a
    /\ UNCHANGED committed

\* A successful TryRefund: at most what is taken and not yet committed.
Refund(a) ==
    /\ a <= used - committed
    /\ used' = used - a
    /\ UNCHANGED committed

\* A Commit: folds part of what is taken and not yet committed.
Commit(a) ==
    /\ a <= used - committed
    /\ committed' = committed + a
    /\ UNCHANGED used

Next ==
    \/ \E a \in 1..(Limit - used) : Consume(a)
    \/ \E a \in 1..(used - committed) : Refund(a) \/ Commit(a)

Spec == Init /\ [][Next]_vars
=============================================================================
