----------------------------- MODULE GridOrder -----------------------------
(***************************************************************************)
(* What a scan of a grid promises: it asks for the next point that it has  *)
(* not asked for, and is over when there is none.  The points are ordered  *)
(* by the last parameter in which they differ, so that the first parameter *)
(* changes fastest.  Nothing is said of frames, resets and increments.     *)
(***************************************************************************)
EXTENDS Naturals, Sequences

CONSTANTS
    Pars,       \* the parameters, numbers
    Grid        \* the points: functions from the parameters to numbers

VARIABLES
    asked,      \* the points asked for, in order
    over

vars == <<asked, over>>

Before(p, q) == \E k \in Pars : p[k] < q[k] /\ \A j \in Pars : j > k => p[j] = q[j]

Open == {p \in Grid : \A i \in 1 .. Len(asked) : asked[i] # p}

Ask(p) ==
    /\ ~over
    /\ asked' = Append(asked, p)
    /\ \A q \in Open : q = p \/ Before(p, q)
    /\ UNCHANGED over

End ==
    /\ over' = TRUE
    /\ UNCHANGED asked
    /\ Open = {}

Init == asked = <<>> /\ over = FALSE

Next == (\E p \in Open : Ask(p)) \/ End

Spec == Init /\ [][Next]_vars
=============================================================================
