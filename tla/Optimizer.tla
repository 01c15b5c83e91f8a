------------------------------ MODULE Optimizer ------------------------------
(***************************************************************************)
(* kernel/src/OptimizerBase.cpp: an optimizer evaluates the model, lets    *)
(* the concrete algorithm look for a better point, and goes on until the   *)
(* chi2 or the number of iterations stops it.  Here the algorithm may try  *)
(* any points, in any order, and settle on any.  The model is a function   *)
(* from points to chi2 values; what it predicts is represented by the      *)
(* point it was evaluated for.                                             *)
(***************************************************************************)
EXTENDS Naturals

CONSTANTS
    Points,          \* vectors of values of the free parameters
    NoPoint,         \* what a model predicts that was not evaluated
    Infinity,        \* stands for an infinite chi2
    Chi2,            \* the chi2 of a point
    AbortCriterion,  \* _abortCriterion
    MaxIterations,   \* _maxNumberOfIterations
    FirstChi2s,      \* what the input file may say of _chi2
    FirstIterations  \* and of _iterationCounter

ASSUME OptimizerAssumption ==
    /\ NoPoint \notin Points
    /\ Infinity \in Nat
    /\ Chi2 \in [Points -> 0 .. Infinity]
    /\ AbortCriterion \in Nat
    /\ MaxIterations \in Nat
    /\ FirstChi2s \subseteq 0 .. Infinity
    /\ FirstIterations \subseteq 0 .. MaxIterations

VARIABLES
    pc,         \* where Execute is
    par,        \* the values of the parameters
    updated,    \* some parameter's _updated
    predicted,  \* the point the model's predictions and chi2 are of
    chi2,       \* _chi2
    iteration,  \* _iterationCounter
    from,       \* its value in the input file
    entry       \* the entry of the tree

modelVars == <<par, updated, predicted>>
vars == <<pc, modelVars, chi2, iteration, from, entry>>

Chi2Values == 0 .. Infinity
NoEntry == [par |-> NoPoint, predicted |-> NoPoint]

TypeOK ==
    /\ pc \in {"loop", "update", "terminate", "done"}
    /\ par \in Points
    /\ updated \in BOOLEAN
    /\ predicted \in Points \cup {NoPoint}
    /\ chi2 \in Chi2Values
    /\ from \in FirstIterations
    /\ iteration \in from .. MaxIterations
    /\ entry \in [par : Points \cup {NoPoint}, predicted : Points \cup {NoPoint}]

-----------------------------------------------------------------------------
\* GetChi2 evaluates when a parameter was set.
Evaluated == IF updated THEN par ELSE predicted

GoesOn == chi2 > AbortCriterion /\ iteration < MaxIterations

\* Mutant: the iterations are not counted.
IterateUncounted ==
    /\ pc = "loop"
    /\ GoesOn
    /\ predicted' = Evaluated
    /\ updated' = FALSE
    /\ chi2' = Chi2[Evaluated]
    /\ pc' = "update"
    /\ UNCHANGED <<par, iteration, from, entry>>

\* The loop of Execute, up to UpdateModel.  PrintStatus asks once more.
Iterate ==
    /\ pc = "loop"
    /\ GoesOn
    /\ predicted' = Evaluated
    /\ updated' = FALSE
    /\ chi2' = Chi2[Evaluated]
    /\ iteration' = iteration + 1
    /\ pc' = "update"
    /\ UNCHANGED <<par, from, entry>>

\* UpdateModel sets the parameters and asks for the chi2.
Try(p) ==
    /\ pc = "update"
    /\ par' = p
    /\ predicted' = p
    /\ updated' = FALSE
    /\ UNCHANGED <<pc, chi2, iteration, from, entry>>

\* UpdateModel sets the parameters of its choice, and returns.
Settle(p) ==
    /\ pc = "update"
    /\ par' = p
    /\ updated' = TRUE
    /\ pc' = "loop"
    /\ UNCHANGED <<predicted, chi2, iteration, from, entry>>

\* The end of the loop.
Stop ==
    /\ pc = "loop"
    /\ ~GoesOn
    /\ pc' = "terminate"
    /\ UNCHANGED <<modelVars, chi2, iteration, from, entry>>

\* Terminate: FillTree reads the parameters and the predictions as they are.
Terminate ==
    /\ pc = "terminate"
    /\ entry' = [par |-> par, predicted |-> predicted]
    /\ pc' = "done"
    /\ UNCHANGED <<modelVars, chi2, iteration, from>>

Done == pc = "done" /\ UNCHANGED vars

\* An input file gives the first chi2 and the number of the first iteration,
\* or an earlier process does.
Init ==
    /\ pc = "loop"
    /\ par \in Points
    /\ updated = TRUE
    /\ predicted \in Points \cup {NoPoint}
    /\ chi2 \in FirstChi2s
    /\ from \in FirstIterations
    /\ iteration = from
    /\ entry = NoEntry

Next ==
    \/ Iterate
    \/ \E p \in Points : Try(p) \/ Settle(p)
    \/ Stop
    \/ Terminate
    \/ Done

Spec == Init /\ [][Next]_vars

-----------------------------------------------------------------------------
\* FillTree saves "model parameters and observable predictions at a certain
\* iteration step" (AnalysisTool.h): an entry shows one point.
EntryShowsOnePoint == entry.par = entry.predicted
=============================================================================
