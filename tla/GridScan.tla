------------------------------ MODULE GridScan ------------------------------
(***************************************************************************)
(* samplers/src/SimpleSampler.cpp: a scan over a grid in the space of the  *)
(* free parameters, as a client of the model.  Scan calls itself for the   *)
(* parameter before; the frames of the call are those of the parameters    *)
(* above, so that the parameter of the innermost frame says it all.        *)
(* Parameters are numbered from 1, the lower bounds are 0, and the unit is *)
(* a common divisor of the bounds and the steps.                           *)
(***************************************************************************)
EXTENDS Model, Sequences

CONSTANTS
    NumPars,    \* the number of free parameters
    Upper,      \* their upper bounds
    Width,      \* their steps: GetError
    Top         \* bound: no value is larger

Pars == 1 .. NumPars

ASSUME GridAssumption ==
    /\ NumPars \in Nat \ {0}
    /\ Top \in Nat
    /\ Upper \in [Pars -> Nat]
    /\ Width \in [Pars -> Nat \ {0}]
    /\ \A k \in Pars : Upper[k] + Width[k] <= Top + 1
    /\ Points = [Pars -> 0 .. Top]
    /\ StartPoint = [k \in Pars |-> 0]

VARIABLES
    scan,          \* what the innermost frame does next
    level,         \* its parameter
    iteration,     \* _iterationCounter
    visited        \* the points the chi2 was asked for, in order

frame == <<scan, level, iteration, visited>>
scanVars == <<vars, frame>>

ScanTypeOK ==
    /\ TypeOK
    /\ scan \in {"test", "evaluate", "reset", "update", "done"}
    /\ level \in Pars
    /\ iteration \in Nat
    /\ visited \in Seq(Points)

-----------------------------------------------------------------------------
\* Mutant: a step must end below the bound as well.
BelowWithStep == par[level] + Width[level] <= Upper[level]

\* The condition of the two loops.
Below == par[level] < Upper[level]

\* Scan( iParameter - 1 ).
Descend ==
    /\ scan = "test"
    /\ level > 1
    /\ Below
    /\ level' = level - 1
    /\ UNCHANGED <<vars, scan, iteration, visited>>

\* The loop of the first parameter, up to GetChi2.
Ask ==
    /\ scan = "test"
    /\ level = 1
    /\ Below
    /\ iteration' = iteration + 1
    /\ visited' = Append(visited, par)
    /\ Update \/ Return
    /\ scan' = "evaluate"
    /\ UNCHANGED level

\* The rest of GetChi2, and PrintStatus.
Evaluate == scan = "evaluate" /\ Evaluation /\ UNCHANGED frame

Fill ==
    /\ scan = "evaluate"
    /\ FillTree
    /\ scan' = "update"
    /\ UNCHANGED <<level, iteration, visited>>

\* Mutant: the body of the loop ends with the call.
AscendIdly ==
    /\ scan = "test"
    /\ level < NumPars
    /\ ~Below
    /\ level' = level + 1
    /\ UNCHANGED <<vars, scan, iteration, visited>>

\* Scan returns into the loop of the next parameter.
Ascend ==
    /\ scan = "test"
    /\ level < NumPars
    /\ ~Below
    /\ level' = level + 1
    /\ scan' = "reset"
    /\ UNCHANGED <<vars, iteration, visited>>

\* Mutant: only the parameter just scanned is reset.
ResetOne ==
    /\ scan = "reset"
    /\ SetParameters([par EXCEPT ![1] = 0])
    /\ scan' = "update"
    /\ UNCHANGED <<level, iteration, visited>>

ResetValues ==
    /\ scan = "reset"
    /\ SetParameters([k \in Pars |-> IF k < level THEN 0 ELSE par[k]])
    /\ scan' = "update"
    /\ UNCHANGED <<level, iteration, visited>>

UpdateValues ==
    /\ scan = "update"
    /\ SetParameters([par EXCEPT ![level] = @ + Width[level]])
    /\ scan' = "test"
    /\ UNCHANGED <<level, iteration, visited>>

\* The outermost Scan returns.
EndScan ==
    /\ scan = "test"
    /\ level = NumPars
    /\ ~Below
    /\ scan' = "done"
    /\ UNCHANGED <<vars, level, iteration, visited>>

Ended == (scan = "done" \/ tool = "dead") /\ UNCHANGED scanVars

\* The constructor sets every parameter to its lower bound.
ScanInit ==
    /\ Init
    /\ scan = "test"
    /\ level = NumPars
    /\ iteration = 0
    /\ visited = <<>>

ScanStep ==
    \/ Descend
    \/ Ask
    \/ Evaluate
    \/ Fill
    \/ Ascend
    \/ ResetValues
    \/ UpdateValues
    \/ EndScan

ScanNext == ScanStep \/ Ended

ScanSpec == ScanInit /\ [][ScanNext]_scanVars
FairScanSpec == ScanSpec /\ WF_scanVars(ScanStep)

-----------------------------------------------------------------------------
\* The points of the grid: from the lower bounds, in steps, below the upper
\* bounds.
Multiple(v, w) == \E n \in 0 .. v : v = n * w
Grid == {p \in Points : \A k \in Pars : p[k] < Upper[k] /\ Multiple(p[k], Width[k])}

\* No point of the grid is asked for twice, none outside of it, and a scan that
\* is over has asked for all of them.  No loop counts them: the order in which
\* the frames test, reset and update does.
EachPointOnce ==
    /\ \A i, j \in 1 .. Len(visited) : i # j => visited[i] # visited[j]
    /\ \A i \in 1 .. Len(visited) : visited[i] \in Grid
    /\ scan = "done" => \A g \in Grid : \E i \in 1 .. Len(visited) : visited[i] = g

\* The frames, none of which knows what the others have done, ask for the points
\* in one order, in which the first parameter changes fastest: what is asked for
\* is always the next point of the whole grid, and the scan is over when there
\* is none, whatever the calculators do to the points before.
InOrder == INSTANCE GridOrder WITH asked <- visited, over <- scan = "done"
ScanIsInOrder == InOrder!Spec

\* A scan ends, if only with the process.
ScanEnds == <>[](scan = "done" \/ tool = "dead")
=============================================================================
