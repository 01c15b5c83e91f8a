------------------------------- MODULE Model -------------------------------
(***************************************************************************)
(* kernel/src/ModelBase.cpp, models/src/PhysicsModel.cpp: a model predicts *)
(* with the calculators it owns, one after the other, and turns what they  *)
(* predict into a chi2.  It is evaluated when somebody asks for the chi2   *)
(* and a parameter has been set since the last time.                       *)
(*                                                                         *)
(* A prediction is represented by the point it was calculated for, and a   *)
(* chi2 by the predictions it was calculated from, so that a stale value   *)
(* shows.  The tool here is any sampler: it sets the parameters, asks for  *)
(* the chi2, prints the status (which asks again) and fills the tree.  It  *)
(* sets the parameters in as many steps as it likes.  Of the tree only the *)
(* latest entry is kept: entries never change.                             *)
(***************************************************************************)
EXTENDS Naturals

CONSTANTS
    Points,       \* the values the free parameters can have, together
    StartPoint,   \* their values in the input file
    NoPoint,      \* what a calculator holds that has not calculated
    Torn,         \* what it holds when it was interrupted
    NumCalcs,     \* the number of calculators
    Physics       \* a PhysicsModel, or another model

ASSUME ModelAssumption ==
    /\ StartPoint \in Points
    /\ NoPoint \notin Points
    /\ Torn \notin Points
    /\ NumCalcs \in Nat
    /\ Physics \in BOOLEAN

VARIABLES
    par,          \* the values of the parameters
    updated,      \* some free parameter's _updated
    next,         \* the calculator to run next; 0: the model is not evaluating
    predictions,  \* what each calculator has predicted
    chi2,         \* _chi2
    terminator,   \* _terminator; 0: empty
    error,        \* _error is not empty
    requirements, \* _requirementsFulfilled of the model
    failed,       \* calculators whose requirements this evaluation found not met
    tool,         \* where the tool is
    entry         \* the latest entry of the tree

results == <<predictions, chi2, terminator, error, requirements, failed>>
vars == <<par, updated, next, results, tool, entry>>

Calcs == 1 .. NumCalcs
Held == Points \cup {NoPoint, Torn}
Predictions == [Calcs -> Held]
Finite(of) == [finite |-> TRUE, of |-> of]
Infinite == [finite |-> FALSE, of |-> [i \in Calcs |-> NoPoint]]
Chi2s == [finite : BOOLEAN, of : Predictions]
Entries == [par : Points \cup {NoPoint}, predictions : Predictions, chi2 : Chi2s,
            terminator : 0 .. NumCalcs, error : BOOLEAN, requirements : BOOLEAN,
            failed : SUBSET Calcs]
NoEntry == [par |-> NoPoint, predictions |-> [i \in Calcs |-> NoPoint], chi2 |-> Infinite,
            terminator |-> 0, error |-> FALSE, requirements |-> TRUE, failed |-> {}]

TypeOK ==
    /\ par \in Points
    /\ updated \in BOOLEAN
    /\ next \in 0 .. NumCalcs + 1
    /\ predictions \in Predictions
    /\ chi2 \in Chi2s
    /\ terminator \in 0 .. NumCalcs
    /\ error \in BOOLEAN
    /\ requirements \in BOOLEAN
    /\ failed \subseteq Calcs
    /\ tool \in {"set", "print", "fill", "dead"}
    /\ entry \in Entries

-----------------------------------------------------------------------------
\* Mutant: the flag of the parameter is forgotten.
SetParametersQuietly(p) ==
    /\ tool = "set"
    /\ next = 0
    /\ par' = p
    /\ UNCHANGED <<updated, next, results, tool, entry>>

\* The tool calls SetValue of a free parameter, or of several.
SetParameters(p) ==
    /\ tool = "set"
    /\ next = 0
    /\ par' = p
    /\ updated' = TRUE
    /\ UNCHANGED <<next, results, tool, entry>>

Asking == tool \in {"set", "print"} /\ next = 0

\* GetChi2 returns, to the tool or to PrintStatus of it.
Returns == tool' = IF tool = "set" THEN "print" ELSE "fill"
Goes(calculator) == next' = calculator /\ UNCHANGED tool
Ends == next' = 0 /\ Returns

\* GetChi2, Update and the head of Evaluate.  The flags are cleared before
\* anything is calculated.
Update ==
    /\ Asking
    /\ updated
    /\ updated' = FALSE
    /\ Goes(1)
    /\ terminator' = 0
    /\ error' = FALSE
    /\ failed' = {}
    /\ chi2' = IF Physics THEN chi2 ELSE Finite([i \in Calcs |-> NoPoint])
    /\ UNCHANGED <<par, predictions, requirements, entry>>

\* GetChi2 with no flag set returns what is there.
Return ==
    /\ Asking
    /\ ~updated
    /\ Returns
    /\ UNCHANGED <<par, updated, next, results, entry>>

Calculating == next \in Calcs

\* Mutant: the flag is only ever cleared.
CalculateSilently(held) ==
    /\ Calculating
    /\ predictions' = [predictions EXCEPT ![next] = held]
    /\ Goes(next + 1)
    /\ UNCHANGED <<par, updated, chi2, terminator, error, requirements, failed, entry>>

\* A calculator has predicted, and its requirements are met.
CalculateWith(held) ==
    /\ Calculating
    /\ predictions' = [predictions EXCEPT ![next] = held]
    /\ requirements' = IF Physics THEN requirements ELSE TRUE
    /\ Goes(next + 1)
    /\ UNCHANGED <<par, updated, chi2, terminator, error, failed, entry>>

\* What it has predicted is of the parameters as they are.
Calculate == CalculateWith(par)

\* A calculator has predicted, and Calculate returns that its requirements are
\* not met.  ModelBase ends the evaluation, PhysicsModel does not look.
RequirementsNotMet ==
    /\ Calculating
    /\ predictions' = [predictions EXCEPT ![next] = par]
    /\ failed' = failed \cup {next}
    /\ \/ /\ Physics
          /\ Goes(next + 1)
          /\ UNCHANGED <<chi2, terminator, requirements>>
       \/ /\ ~Physics
          /\ requirements' = FALSE
          /\ terminator' = next
          /\ chi2' = Infinite
          /\ Ends
    /\ UNCHANGED <<par, updated, error, entry>>

\* Mutant: the handler falls through to the chi2 contributions.
ThrowAndGoOn(held) ==
    /\ Calculating
    /\ predictions' = [predictions EXCEPT ![next] = held]
    /\ chi2' = Infinite
    /\ terminator' = next
    /\ error' = TRUE
    /\ Goes(NumCalcs + 1)
    /\ UNCHANGED <<par, updated, requirements, failed, entry>>

\* A CalculatorException.
ThrowWith(held) ==
    /\ Calculating
    /\ predictions' = [predictions EXCEPT ![next] = held]
    /\ chi2' = Infinite
    /\ terminator' = next
    /\ error' = TRUE
    /\ Ends
    /\ UNCHANGED <<par, updated, requirements, failed, entry>>

\* The predictions are done, not done or half done.
Throw ==
    /\ Calculating
    /\ \E held \in {predictions[next], par, Torn} : ThrowWith(held)

\* Any other exception leaves the model, the tool and main.
Die ==
    /\ Calculating
    /\ tool' = "dead"
    /\ next' = 0
    /\ UNCHANGED <<par, updated, results, entry>>

\* The observables, the covariance matrix and the chi2 contributions.
Conclude ==
    /\ next = NumCalcs + 1
    /\ chi2' = Finite(predictions)
    /\ Ends
    /\ UNCHANGED <<par, updated, predictions, terminator, error, requirements, failed,
                   entry>>

\* The branches of the tree refer to the model's own variables.  A cut may keep
\* the point out of the tree.
FillTree ==
    /\ tool = "fill"
    /\ \/ entry' = [par |-> par, predictions |-> predictions, chi2 |-> chi2,
                    terminator |-> terminator, error |-> error,
                    requirements |-> requirements, failed |-> failed]
       \/ UNCHANGED entry
    /\ tool' = "set"
    /\ UNCHANGED <<par, updated, next, results>>

Dead == tool = "dead" /\ UNCHANGED vars

\* A calculator's constructor may calculate; _requirementsFulfilled of the
\* model is not initialized.
Init ==
    /\ par = StartPoint
    /\ updated = TRUE
    /\ next = 0
    /\ predictions \in [Calcs -> {NoPoint, StartPoint}]
    /\ chi2 = Finite(predictions)
    /\ terminator = 0
    /\ error = FALSE
    /\ requirements \in BOOLEAN
    /\ failed = {}
    /\ tool = "set"
    /\ entry = NoEntry

Evaluation == Update \/ Return \/ Calculate \/ RequirementsNotMet \/ Throw \/ Die \/ Conclude

Next ==
    \/ \E p \in Points : SetParameters(p)
    \/ Evaluation
    \/ FillTree
    \/ Dead

Spec == Init /\ [][Next]_vars

-----------------------------------------------------------------------------
\* An entry of the tree shows one point: the predictions beside its parameters
\* are of these parameters.  When the evaluation was ended, that is true of the
\* calculators before the one that ended it; the others show older points.
EntryIsOnePoint ==
    entry # NoEntry =>
        \A i \in Calcs :
            entry.terminator = 0 \/ i < entry.terminator => entry.predictions[i] = entry.par

\* A finite chi2 in the tree comes from the predictions beside it, all of them
\* of the point beside it, and an infinite one names who caused it.
EntryHasItsChi2 ==
    entry # NoEntry =>
        /\ entry.chi2.finite => \A i \in Calcs : entry.chi2.of[i] = entry.par
        /\ entry.chi2.finite <=> entry.terminator = 0

\* The branch RequirementsFullfilled of an entry is about that entry's point
\* only when no exception ended the evaluation: otherwise it still holds what
\* an earlier evaluation, or the memory, left there.  PhysicsModel leaves it
\* alone.
RequirementsAreOfThisPoint ==
    ~Physics /\ NumCalcs > 0 /\ entry # NoEntry /\ ~entry.error =>
        (entry.requirements <=> entry.failed = {})

\* Except in PhysicsModel, a point whose requirements are not met is excluded.
FailedPointIsExcluded ==
    ~Physics /\ entry # NoEntry /\ entry.failed # {} =>
        ~entry.chi2.finite /\ entry.terminator \in entry.failed

\* All four: an entry's predictions, chi2, terminator and requirements belong to
\* its parameters, and to one another.
EntryBelongsTogether ==
    /\ EntryIsOnePoint
    /\ EntryHasItsChi2
    /\ RequirementsAreOfThisPoint
    /\ FailedPointIsExcluded
=============================================================================
