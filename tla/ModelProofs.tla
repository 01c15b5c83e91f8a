------------------------------ MODULE ModelProofs ------------------------------
(***************************************************************************)
(* The model, alone and with what is built around it.  What an entry of    *)
(* the tree shows belongs together, for any number of calculators and any  *)
(* set of parameter points.  A scan of the grid is one of the tools this   *)
(* holds of, and asks for every point once.  Whatever programs,            *)
(* calculators and files there are: the predictions of careful calculators *)
(* are of the present point, and a model of careful calculators is the     *)
(* model of Model.  FileCalculators and GridScan assume of their own       *)
(* constants what they are: the theorems about Spec do not depend on them. *)
(***************************************************************************)
EXTENDS GridScan, NamedCalculators, FiniteSetTheorems, TLAPS

USE ModelAssumption

-----------------------------------------------------------------------------
(***************************************************************************)
(* The model itself.                                                       *)
(***************************************************************************)
\* Types: every step of the model and of the tool keeps them.
LEMMA TypeInvariant == Spec => []TypeOK
<1>1. Init => TypeOK
  <2> SUFFICES ASSUME Init PROVE TypeOK
    OBVIOUS
  <2>1. predictions \in Predictions
    BY DEF Init, Predictions, Held
  <2>2. chi2 \in Chi2s
    BY <2>1 DEF Init, Chi2s, Finite
  <2>3. entry \in Entries
    BY DEF Init, NoEntry, Entries, Predictions, Held, Chi2s, Infinite
  <2>4. next \in 0 .. NumCalcs + 1 /\ terminator \in 0 .. NumCalcs
    BY DEF Init
  <2>5. par \in Points /\ updated \in BOOLEAN /\ error \in BOOLEAN /\ requirements \in BOOLEAN
    BY DEF Init
  <2>6. failed \subseteq Calcs /\ tool \in {"set", "print", "fill", "dead"}
    BY DEF Init
  <2> QED
    BY <2>1, <2>2, <2>3, <2>4, <2>5, <2>6, Zenon DEF TypeOK
<1>2. TypeOK /\ [Next]_vars => TypeOK'
  <2> SUFFICES ASSUME TypeOK, [Next]_vars PROVE TypeOK'
    OBVIOUS
  <2> USE DEF TypeOK
  <2>1. Infinite \in Chi2s
    BY DEF Infinite, Chi2s, Predictions, Held
  <2>2. ASSUME NEW of \in Predictions PROVE Finite(of) \in Chi2s
    BY <2>2 DEF Finite, Chi2s
  <2>3. [i \in Calcs |-> NoPoint] \in Predictions
    BY DEF Predictions, Held
  <2>4. ASSUME NEW i \in Calcs, NEW h \in Held
        PROVE  [predictions EXCEPT ![i] = h] \in Predictions
    BY <2>4 DEF Predictions
  <2>5. par \in Held /\ Torn \in Held /\ \A i \in Calcs : predictions[i] \in Held
    BY DEF Held, Predictions
  <2>6. ASSUME NEW p \in Points, SetParameters(p) PROVE TypeOK'
    BY <2>6 DEF SetParameters, results
  <2>7. CASE Update
    <3>1. chi2' \in Chi2s
      BY <2>7, <2>2, <2>3 DEF Update
    <3>2. next' \in 0 .. NumCalcs + 1 /\ terminator' \in 0 .. NumCalcs
      BY <2>7 DEF Update, Goes
    <3> QED
      BY <2>7, <3>1, <3>2 DEF Update, Goes
  <2>8. CASE Return
    BY <2>8 DEF Return, Returns, Asking, results
  <2>9. CASE Calculate
    <3>1. predictions' \in Predictions
      BY <2>9, <2>4, <2>5 DEF Calculate, CalculateWith, Calculating
    <3>2. next' \in 0 .. NumCalcs + 1
      BY <2>9 DEF Calculate, CalculateWith, Calculating, Calcs, Goes
    <3> QED
      BY <2>9, <3>1, <3>2 DEF Calculate, CalculateWith, Goes
  <2>10. CASE RequirementsNotMet
    <3>1. predictions' \in Predictions /\ next \in Calcs
      BY <2>10, <2>4, <2>5 DEF RequirementsNotMet, Calculating
    <3>2. next' \in 0 .. NumCalcs + 1 /\ next \in 0 .. NumCalcs
      BY <2>10, <3>1 DEF RequirementsNotMet, Goes, Ends, Calcs
    <3>3. CASE Physics
      BY <2>10, <3>1, <3>2, <3>3 DEF RequirementsNotMet, Goes
    <3>4. CASE ~Physics
      BY <2>10, <3>1, <3>2, <3>4, <2>1 DEF RequirementsNotMet, Ends, Returns
    <3> QED
      BY <3>3, <3>4
  <2>11. CASE Throw
    <3>1. next \in Calcs /\ next \in 0 .. NumCalcs
      BY <2>11 DEF Throw, ThrowWith, Calculating, Calcs
    <3>a. PICK x \in {predictions[next], par, Torn} : ThrowWith(x)
      BY <2>11 DEF Throw
    <3>b. x \in Held
      BY <3>a, <3>1, <2>4, <2>5 DEF Predictions, Held
    <3>2. predictions' \in Predictions
      BY <3>a, <3>b, <2>5 DEF ThrowWith, Predictions
    <3> QED
      BY <2>11, <3>1, <3>2, <2>1 DEF Throw, ThrowWith, Ends, Returns
  <2>12. CASE Die
    BY <2>12 DEF Die, results
  <2>13. CASE Conclude
    BY <2>13, <2>2 DEF Conclude, Ends, Returns
  <2>14. CASE FillTree
    <3>1. entry' \in Entries
      BY <2>14 DEF FillTree, Entries
    <3> QED
      BY <2>14, <3>1 DEF FillTree, results
  <2>15. CASE Dead \/ UNCHANGED vars
    BY <2>15 DEF Dead, vars, results
  <2> QED
    BY <2>6, <2>7, <2>8, <2>9, <2>10, <2>11, <2>12, <2>13, <2>14, <2>15
       DEF Next, Evaluation
<1> QED
  BY <1>1, <1>2, PTL DEF Spec

\* TypeOK for every number of calculators and every set of points.
THEOREM ModelTyping == Spec => []TypeOK
BY TypeInvariant

-----------------------------------------------------------------------------
\* While the model evaluates, the calculators that have run hold predictions of
\* the present point, and nothing has gone wrong yet.
WhileEvaluating ==
    next # 0 =>
        /\ tool = "set"
        /\ ~updated
        /\ terminator = 0
        /\ ~error
        /\ \A i \in Calcs : i < next => predictions[i] = par
        /\ ~Physics => failed = {} /\ (next > 1 => requirements)

\* An evaluated model belongs together in the way its entries do.
Evaluated ==
    next = 0 /\ ~updated /\ tool # "dead" =>
        /\ \A i \in Calcs : terminator = 0 \/ i < terminator => predictions[i] = par
        /\ chi2.finite => \A i \in Calcs : chi2.of[i] = par
        /\ chi2.finite <=> terminator = 0
        /\ ~Physics /\ NumCalcs > 0 /\ ~error => (requirements <=> failed = {})
        /\ ~Physics /\ failed # {} => ~chi2.finite /\ terminator \in failed

AskedFor == tool \in {"print", "fill"} => ~updated /\ next = 0

EntryInv ==
    /\ EntryIsOnePoint
    /\ EntryHasItsChi2
    /\ RequirementsAreOfThisPoint
    /\ FailedPointIsExcluded

ModelInv == WhileEvaluating /\ Evaluated /\ AskedFor /\ EntryInv

\* Whatever leaves the entry alone keeps what is said of it.
LEMMA EntryIsKept == ASSUME EntryInv, UNCHANGED entry PROVE EntryInv'
BY DEF EntryInv, EntryIsOnePoint, EntryHasItsChi2, RequirementsAreOfThisPoint,
       FailedPointIsExcluded

\* The steps of an evaluation keep the invariant.
LEMMA EvaluationKeeps ==
    ASSUME TypeOK, ModelInv, Evaluation
    PROVE  WhileEvaluating' /\ Evaluated' /\ AskedFor' /\ UNCHANGED entry
<1> USE DEF TypeOK, ModelInv, WhileEvaluating, Evaluated, AskedFor, Goes, Ends, Returns
<1>1. CASE Update
  <2>1. /\ next' = 1 /\ tool' = tool /\ tool = "set"
        /\ ~updated' /\ terminator' = 0 /\ ~error' /\ failed' = {} /\ entry' = entry
    BY <1>1 DEF Update, Asking
  <2>2. \A i \in Calcs : ~(i < 1)
    BY DEF Calcs
  <2> QED
    BY <2>1, <2>2
<1>2. CASE Return
  BY <1>2 DEF Return, Asking, results
<1>3. CASE Calculate
  <2>1. next \in Calcs /\ next' = next + 1 /\ UNCHANGED <<par, updated, terminator, error, failed, tool, entry>>
    BY <1>3 DEF Calculate, CalculateWith, Calculating
  <2>2. ASSUME NEW i \in Calcs, i < next' PROVE predictions'[i] = par'
    BY <1>3, <2>1, <2>2 DEF Calculate, CalculateWith, Predictions, Calcs
  <2>3. ~Physics => requirements'
    BY <1>3 DEF Calculate, CalculateWith
  <2>4. next' # 0
    BY <2>1 DEF Calcs
  <2> QED
    BY <2>1, <2>2, <2>3, <2>4 DEF Calcs
<1>4. CASE RequirementsNotMet
  <2>1. next \in Calcs /\ UNCHANGED <<par, updated, error, entry>>
    BY <1>4 DEF RequirementsNotMet, Calculating
  <2>2. ASSUME NEW i \in Calcs, i < next + 1 PROVE predictions'[i] = par'
    BY <1>4, <2>1, <2>2 DEF RequirementsNotMet, Predictions, Calcs
  <2>3. CASE Physics
    <3>1. next' = next + 1 /\ UNCHANGED <<tool, terminator>> /\ next' # 0
      BY <1>4, <2>1, <2>3 DEF RequirementsNotMet, Calcs
    <3> QED
      BY <2>1, <2>2, <2>3, <3>1 DEF Calcs
  <2>4. CASE ~Physics
    <3>1. next' = 0 /\ terminator' = next /\ ~requirements' /\ chi2' = Infinite
      BY <1>4, <2>4 DEF RequirementsNotMet
    <3>2. next \in failed'
      BY <1>4 DEF RequirementsNotMet
    <3>3. ~chi2'.finite
      BY <3>1 DEF Infinite
    <3>4. tool' = "print"
      <4>1. tool = "set"
        BY <2>1 DEF Calcs
      <4> QED
        BY <1>4, <2>4, <4>1 DEF RequirementsNotMet
    <3> QED
      BY <2>1, <2>2, <2>4, <3>1, <3>2, <3>3, <3>4 DEF Calcs
  <2> QED
    BY <2>3, <2>4
<1>5. CASE Throw
  <2>1. next \in Calcs /\ UNCHANGED <<par, updated, requirements, failed, entry>>
    BY <1>5 DEF Throw, ThrowWith, Calculating
  <2>2. next' = 0 /\ terminator' = next /\ error' /\ ~chi2'.finite
    BY <1>5 DEF Throw, ThrowWith, Infinite
  <2>3. ASSUME NEW i \in Calcs, i < next PROVE predictions'[i] = par'
    BY <1>5, <2>1, <2>3 DEF Throw, ThrowWith, Predictions, Calcs
  <2> QED
    BY <2>1, <2>2, <2>3, <1>5 DEF Throw, ThrowWith, Calcs
<1>6. CASE Die
  BY <1>6 DEF Die, Calculating, Calcs, results
<1>7. CASE Conclude
  <2>1. \A i \in Calcs : predictions[i] = par
    BY <1>7 DEF Conclude, Calcs
  <2>2. chi2'.finite /\ \A i \in Calcs : chi2'.of[i] = par
    BY <1>7, <2>1 DEF Conclude, Finite
  <2>3. ~Physics /\ NumCalcs > 0 => requirements /\ failed = {}
    BY <1>7 DEF Conclude
  <2>4. ~updated /\ terminator = 0 /\ (~Physics => failed = {})
    BY <1>7 DEF Conclude
  <2> QED
    BY <1>7, <2>1, <2>2, <2>3, <2>4 DEF Conclude
<1> QED
  BY <1>1, <1>2, <1>3, <1>4, <1>5, <1>6, <1>7 DEF Evaluation

\* The invariant of the model and the tool.
LEMMA Consistency == Spec => []ModelInv
<1>1. Init => ModelInv
  <2> SUFFICES ASSUME Init PROVE ModelInv
    OBVIOUS
  <2>1. next = 0 /\ updated = TRUE /\ tool = "set" /\ entry = NoEntry
    BY DEF Init
  <2>2. EntryInv
    BY <2>1 DEF EntryInv, EntryIsOnePoint, EntryHasItsChi2, RequirementsAreOfThisPoint,
                FailedPointIsExcluded
  <2> QED
    BY <2>1, <2>2 DEF ModelInv, WhileEvaluating, Evaluated, AskedFor
<1>2. TypeOK /\ ModelInv /\ [Next]_vars => ModelInv'
  <2> SUFFICES ASSUME TypeOK, ModelInv, [Next]_vars PROVE ModelInv'
    OBVIOUS
  <2>1. ASSUME NEW p \in Points, SetParameters(p) PROVE ModelInv'
    <3>1. UNCHANGED <<next, entry, tool>> /\ updated' /\ tool = "set" /\ next = 0
      BY <2>1 DEF SetParameters
    <3>2. EntryInv'
      BY <3>1, EntryIsKept DEF ModelInv
    <3> QED
      BY <3>1, <3>2 DEF ModelInv, WhileEvaluating, Evaluated, AskedFor
  <2>2. CASE Evaluation
    <3>1. WhileEvaluating' /\ Evaluated' /\ AskedFor' /\ UNCHANGED entry
      BY <2>2, EvaluationKeeps
    <3> QED
      BY <3>1, EntryIsKept DEF ModelInv
  <2>3. CASE FillTree
    <3>1. next = 0 /\ ~updated /\ tool' = "set" /\ UNCHANGED <<par, updated, next, results>>
      BY <2>3 DEF FillTree, ModelInv, AskedFor
    <3>2. WhileEvaluating' /\ Evaluated' /\ AskedFor'
      <4>1. tool # "dead" /\ UNCHANGED <<predictions, chi2, terminator, error, requirements, failed>>
        BY <2>3, <3>1 DEF FillTree, results
      <4>2. Evaluated'
        BY <3>1, <4>1 DEF ModelInv, Evaluated
      <4> QED
        BY <3>1, <4>2 DEF WhileEvaluating, AskedFor
    <3>3. CASE UNCHANGED entry
      BY <3>2, <3>3, EntryIsKept DEF ModelInv
    <3>4. CASE ~UNCHANGED entry
      <4>1. /\ entry'.par = par
            /\ entry'.predictions = predictions
            /\ entry'.chi2 = chi2
            /\ entry'.terminator = terminator
            /\ entry'.error = error
            /\ entry'.requirements = requirements
            /\ entry'.failed = failed
        BY <2>3, <3>4 DEF FillTree
      <4>2. EntryIsOnePoint'
        BY <2>3, <3>1, <4>1 DEF FillTree, ModelInv, Evaluated, EntryIsOnePoint
      <4>3. EntryHasItsChi2'
        BY <2>3, <3>1, <4>1 DEF FillTree, ModelInv, Evaluated, EntryHasItsChi2
      <4>4. RequirementsAreOfThisPoint'
        BY <2>3, <3>1, <4>1 DEF FillTree, ModelInv, Evaluated, RequirementsAreOfThisPoint
      <4>5. FailedPointIsExcluded'
        BY <2>3, <3>1, <4>1 DEF FillTree, ModelInv, Evaluated, FailedPointIsExcluded
      <4> QED
        BY <3>2, <4>2, <4>3, <4>4, <4>5 DEF ModelInv, EntryInv
    <3> QED
      BY <3>3, <3>4
  <2>4. CASE Dead \/ UNCHANGED vars
    <3>1. UNCHANGED <<par, updated, next, predictions, chi2, terminator, error, requirements,
                      failed, tool, entry>>
      BY <2>4 DEF Dead, vars, results
    <3>2. EntryInv'
      BY <3>1, EntryIsKept DEF ModelInv
    <3> QED
      BY <3>1, <3>2 DEF ModelInv, WhileEvaluating, Evaluated, AskedFor
  <2> QED
    BY <2>1, <2>2, <2>3, <2>4 DEF Next
<1> QED
  BY <1>1, <1>2, TypeInvariant, PTL DEF Spec

\* EntryBelongsTogether: whatever the calculators do and whichever tool asks, an
\* entry's predictions, chi2, terminator and requirements are of its point.
THEOREM EntriesBelongTogether == Spec => []EntryBelongsTogether
<1>1. ModelInv => EntryBelongsTogether
  BY DEF ModelInv, EntryInv, EntryBelongsTogether
<1> QED
  BY <1>1, Consistency, PTL

\* EntryIsOnePoint: every entry shows the predictions of its own point, up to
\* the calculator that ended the evaluation.
THEOREM EntriesAreOnePoint == Spec => []EntryIsOnePoint
<1>1. ModelInv => EntryIsOnePoint
  BY DEF ModelInv, EntryInv
<1> QED
  BY <1>1, Consistency, PTL

\* EntryHasItsChi2: a finite chi2 comes from the predictions beside it.
THEOREM EntriesHaveTheirChi2 == Spec => []EntryHasItsChi2
<1>1. ModelInv => EntryHasItsChi2
  BY DEF ModelInv, EntryInv
<1> QED
  BY <1>1, Consistency, PTL

\* RequirementsAreOfThisPoint: the branch RequirementsFullfilled is about the
\* entry's own point, unless an exception ended the evaluation.
THEOREM RequirementsAreCurrent == Spec => []RequirementsAreOfThisPoint
<1>1. ModelInv => RequirementsAreOfThisPoint
  BY DEF ModelInv, EntryInv
<1> QED
  BY <1>1, Consistency, PTL

-----------------------------------------------------------------------------
(***************************************************************************)
(* The scan asks for every point of the grid exactly once, for any number  *)
(* of parameters.  The points are ordered by the last parameter in which   *)
(* they differ; the scan goes through them in this order.                  *)
(***************************************************************************)
HIDE ModelAssumption
USE GridAssumption

\* p comes before q, and it is a parameter from k0 on that says so.
Earlier(k0, p, q) ==
    \E k \in Pars : k >= k0 /\ p[k] < q[k] /\ \A j \in Pars : j > k => p[j] = q[j]

\* p and q do not differ from k0 on.
Same(k0, p, q) == \A j \in Pars : j >= k0 => p[j] = q[j]

Seen(g) == \E i \in 1 .. Len(visited) : visited[i] = g

\* The values of the parameters in the frames: those of the frames outside are
\* below their bounds, those that have still to be scanned are at the lower one.
Values ==
    /\ par \in Points
    /\ level \in Pars
    /\ scan \in {"test", "evaluate", "reset", "update", "done"}
    /\ \A k \in Pars : Multiple(par[k], Width[k])
    /\ \A k \in Pars : k > level => par[k] < Upper[k]
    /\ scan \in {"evaluate", "reset", "update"} => par[level] < Upper[level]
    /\ scan = "evaluate" => level = 1
    /\ scan \in {"test", "update"} => \A k \in Pars : k < level => par[k] = 0

\* What has been asked for is what comes before the present point.
Order ==
    /\ visited \in Seq(Points)
    /\ scan = "test" => \A i \in 1 .. Len(visited) : Earlier(level, visited[i], par)
    /\ scan \in {"evaluate", "reset", "update"} =>
           \A i \in 1 .. Len(visited) : Earlier(level, visited[i], par) \/ Same(level, visited[i], par)

Complete ==
    /\ scan = "test" => \A g \in Grid : Earlier(level, g, par) => Seen(g)
    /\ scan \in {"evaluate", "reset", "update"} =>
           \A g \in Grid : Earlier(level, g, par) \/ Same(level, g, par) => Seen(g)

ScanInv == Values /\ Order /\ Complete /\ EachPointOnce

-----------------------------------------------------------------------------
\* A multiple and its step: the next multiple.
LEMMA NextMultiple ==
    ASSUME NEW v \in Nat, NEW w \in Nat \ {0}, Multiple(v, w)
    PROVE  Multiple(v + w, w)
<1>1. PICK n \in 0 .. v : v = n * w
  BY DEF Multiple
<1>2. n + 1 \in 0 .. v + w /\ v + w = (n + 1) * w
  BY <1>1
<1> QED
  BY <1>2 DEF Multiple

\* There is no multiple between one and the next.
LEMMA NoMultipleBetween ==
    ASSUME NEW u \in Nat, NEW v \in Nat, NEW w \in Nat \ {0},
           Multiple(u, w), Multiple(v, w), u < v + w
    PROVE  u <= v
<1>1. PICK m \in 0 .. u : u = m * w
  BY DEF Multiple
<1>2. PICK n \in 0 .. v : v = n * w
  BY DEF Multiple
<1>3. CASE m <= n
  <2>1. PICK d \in Nat : n = m + d
    BY <1>3
  <2>2. n * w = m * w + d * w /\ d * w >= 0
    BY <2>1
  <2> QED
    BY <1>1, <1>2, <2>2
<1>4. CASE m > n
  <2>1. PICK d \in Nat : m = n + 1 + d
    <3>1. m - n - 1 \in Nat /\ m = n + 1 + (m - n - 1)
      BY <1>4
    <3> QED
      BY <3>1
  <2>2. m * w = n * w + w + d * w /\ d * w >= 0
    BY <2>1
  <2> QED
    BY <1>1, <1>2, <2>2
<1> QED
  BY <1>3, <1>4

\* Facts about the order.
LEMMA ValuesAreNumbers == ASSUME NEW p \in Points, NEW k \in Pars PROVE p[k] \in Nat
OBVIOUS

LEMMA EarlierAfterLower ==
    ASSUME NEW k0 \in Pars, NEW k1 \in Pars, k1 <= k0, NEW p \in Points, NEW q \in Points,
           Earlier(k0, p, q)
    PROVE  Earlier(k1, p, q)
<1>1. PICK k \in Pars : k >= k0 /\ p[k] < q[k] /\ \A j \in Pars : j > k => p[j] = q[j]
  BY DEF Earlier
<1>2. k >= k1
  BY <1>1 DEF Pars
<1> QED
  BY <1>1, <1>2 DEF Earlier

LEMMA EarlierDiffers ==
    ASSUME NEW k0 \in Pars, NEW p \in Points, NEW q \in Points, Earlier(k0, p, q)
    PROVE  p # q
BY DEF Earlier

LEMMA SameFromFirst ==
    ASSUME NEW p \in Points, NEW q \in Points, Same(1, p, q)
    PROVE  p = q
BY DEF Same, Pars

\* Coming before in the frame l, seen from the frame around it.
LEMMA EarlierSeenFromAbove ==
    ASSUME NEW l \in Pars, l + 1 \in Pars, NEW p \in Points, NEW q \in Points,
           Earlier(l, p, q)
    PROVE  Earlier(l + 1, p, q) \/ Same(l + 1, p, q)
<1>1. PICK k \in Pars : k >= l /\ p[k] < q[k] /\ \A j \in Pars : j > k => p[j] = q[j]
  BY DEF Earlier
<1>2. CASE k = l
  BY <1>1, <1>2 DEF Same, Pars
<1>3. CASE k >= l + 1
  BY <1>1, <1>3 DEF Earlier
<1> QED
  BY <1>1, <1>2, <1>3 DEF Pars

\* And the other way round, when the frame l is through: v is at its bound.
LEMMA SeenFromAboveIsEarlier ==
    ASSUME NEW l \in Pars, l + 1 \in Pars, NEW p \in Points, NEW q \in Points,
           Earlier(l + 1, p, q) \/ Same(l + 1, p, q), p[l] < q[l]
    PROVE  Earlier(l, p, q)
<1>1. CASE Earlier(l + 1, p, q)
  BY <1>1 DEF Earlier, Pars
<1>2. CASE Same(l + 1, p, q)
  BY <1>2 DEF Earlier, Same, Pars
<1> QED
  BY <1>1, <1>2

\* A step of the frame l puts everything up to now before the new point.
LEMMA StepPutsBefore ==
    ASSUME NEW l \in Pars, NEW p \in Points, NEW q \in Points, NEW r \in Points,
           Earlier(l, p, q) \/ Same(l, p, q),
           q[l] < r[l], \A j \in Pars : j > l => r[j] = q[j]
    PROVE  Earlier(l, p, r)
<1>1. CASE Same(l, p, q)
  <2>1. l >= l /\ p[l] < r[l]
    BY <1>1 DEF Same, Pars
  <2>2. \A j \in Pars : j > l => p[j] = r[j]
    BY <1>1 DEF Same, Pars
  <2> QED
    BY <2>1, <2>2 DEF Earlier
<1>2. CASE Earlier(l, p, q)
  <2>1. PICK k \in Pars : k >= l /\ p[k] < q[k] /\ \A j \in Pars : j > k => p[j] = q[j]
    BY <1>2 DEF Earlier
  <2>2. p[k] < r[k]
    <3>1. CASE k = l
      <4>1. p[l] \in Nat /\ q[l] \in Nat /\ r[l] \in Nat
        BY ValuesAreNumbers
      <4> QED
        BY <2>1, <3>1, <4>1
    <3>2. CASE k > l
      BY <2>1, <3>2
    <3> QED
      BY <2>1, <3>1, <3>2 DEF Pars
  <2>3. \A j \in Pars : j > k => p[j] = r[j]
    BY <2>1 DEF Pars
  <2> QED
    BY <2>1, <2>2, <2>3 DEF Earlier
<1> QED
  BY <1>1, <1>2

\* And nothing of the grid lies between the two.
LEMMA StepSkipsNothing ==
    ASSUME NEW l \in Pars, NEW g \in Grid, NEW q \in Points, NEW r \in Points,
           Multiple(q[l], Width[l]), r[l] = q[l] + Width[l],
           \A j \in Pars : j > l => r[j] = q[j],
           Earlier(l, g, r)
    PROVE  Earlier(l, g, q) \/ Same(l, g, q)
<1>1. PICK k \in Pars : k >= l /\ g[k] < r[k] /\ \A j \in Pars : j > k => g[j] = r[j]
  BY DEF Earlier
<1>2. CASE k > l
  <2>1. g[k] < q[k]
    BY <1>1, <1>2
  <2>2. ASSUME NEW j \in Pars, j > k PROVE g[j] = q[j]
    <3>1. j > l
      BY <1>2, <2>2 DEF Pars
    <3> QED
      BY <1>1, <2>2, <3>1
  <2> QED
    BY <1>1, <2>1, <2>2 DEF Earlier
<1>3. CASE k = l
  <2>1. g[l] \in Nat /\ q[l] \in Nat /\ Multiple(g[l], Width[l]) /\ g[l] < q[l] + Width[l]
    BY <1>1, <1>3 DEF Grid
  <2>2. g[l] <= q[l]
    BY <2>1, NoMultipleBetween
  <2>3. \A j \in Pars : j > l => g[j] = q[j]
    BY <1>1, <1>3
  <2>4. CASE g[l] = q[l]
    <3>1. ASSUME NEW j \in Pars, j >= l PROVE g[j] = q[j]
      <4>1. j = l \/ j > l
        BY <3>1 DEF Pars
      <4> QED
        BY <2>3, <2>4, <4>1
    <3> QED
      BY <3>1 DEF Same
  <2>5. CASE g[l] < q[l]
    <3>1. l >= l
      BY DEF Pars
    <3> QED
      BY <2>3, <2>5, <3>1 DEF Earlier
  <2> QED
    BY <2>1, <2>2, <2>4, <2>5
<1> QED
  BY <1>1, <1>2, <1>3 DEF Pars

-----------------------------------------------------------------------------
\* The model's own steps do not touch the parameters.
LEMMA EvaluationKeepsPar == Evaluation \/ FillTree => par' = par
BY DEF Evaluation, Update, Return, Calculate, CalculateWith, RequirementsNotMet, Throw, ThrowWith, Die, Conclude, FillTree

\* A frame and the one it calls.
LEMMA Frames ==
    ASSUME NEW l \in Pars, NEW m \in Pars, m = l - 1, NEW k \in Pars
    PROVE  /\ k > m => k = l \/ k > l
           /\ k < m => k < l
           /\ k >= m /\ k # m => k >= l
           /\ m <= l /\ m < l
BY DEF Pars

LEMMA DescendKeeps == ASSUME ScanInv, Descend PROVE ScanInv'
<1> USE DEF ScanInv
<1>1. /\ par' = par /\ scan = "test" /\ scan' = "test" /\ visited' = visited
      /\ level' = level - 1 /\ level' \in Pars /\ par[level] < Upper[level]
      /\ level \in Pars /\ par \in Points
  BY DEF Descend, Values, Below, vars, Pars
<1>2. Values'
  <2>1. ASSUME NEW k \in Pars, k > level' PROVE par'[k] < Upper[k]
    <3>1. k = level \/ k > level
      BY <1>1, <2>1, Frames
    <3> QED
      BY <1>1, <3>1 DEF Values
  <2>2. ASSUME NEW k \in Pars, k < level' PROVE par'[k] = 0
    <3>1. k < level
      BY <1>1, <2>2, Frames
    <3> QED
      BY <1>1, <3>1 DEF Values
  <2> QED
    BY <1>1, <2>1, <2>2 DEF Values
<1>3. Order'
  <2>1. ASSUME NEW i \in 1 .. Len(visited) PROVE Earlier(level', visited[i], par)
    <3>1. visited[i] \in Points
      BY DEF Order
    <3>2. level' <= level
      BY <1>1, Frames
    <3>3. Earlier(level, visited[i], par)
      BY <1>1 DEF Order
    <3> QED
      BY <1>1, <3>1, <3>2, <3>3, EarlierAfterLower
  <2> QED
    BY <1>1, <2>1 DEF Order
<1>4. Complete'
  <2>1. ASSUME NEW g \in Grid, Earlier(level', g, par) PROVE Seen(g)
    <3>1. PICK k \in Pars : k >= level' /\ g[k] < par[k] /\ \A j \in Pars : j > k => g[j] = par[j]
      BY <2>1 DEF Earlier
    <3>2. k # level'
      <4>1. par[level'] = 0
        BY <1>1, Frames DEF Values
      <4>2. g[level'] \in Nat
        BY <1>1, ValuesAreNumbers DEF Grid
      <4> QED
        BY <3>1, <4>1, <4>2
    <3>3. k >= level
      BY <1>1, <3>1, <3>2, Frames
    <3>4. Earlier(level, g, par)
      BY <3>1, <3>3 DEF Earlier
    <3> QED
      BY <1>1, <3>4 DEF Complete
  <2> QED
    BY <1>1, <2>1 DEF Complete, Seen
<1>5. EachPointOnce'
  BY <1>1 DEF EachPointOnce
<1> QED
  BY <1>2, <1>3, <1>4, <1>5

LEMMA AscendKeeps == ASSUME ScanInv, Ascend PROVE ScanInv'
<1> USE DEF ScanInv
<1>1. /\ par' = par /\ scan = "test" /\ scan' = "reset" /\ visited' = visited
      /\ level' = level + 1 /\ level \in Pars /\ level + 1 \in Pars /\ ~(par[level] < Upper[level])
      /\ par \in Points
  BY DEF Ascend, Values, Below, vars, Pars
<1>2. Values'
  <2>1. ASSUME NEW k \in Pars, k >= level' PROVE par'[k] < Upper[k]
    <3>1. k > level
      BY <1>1, <2>1 DEF Pars
    <3> QED
      BY <1>1, <3>1 DEF Values
  <2>2. \A k \in Pars : k > level' => k >= level'
    BY <1>1 DEF Pars
  <2>3. level' >= level'
    BY <1>1 DEF Pars
  <2> QED
    BY <1>1, <2>1, <2>2, <2>3 DEF Values
<1>3. Order'
  <2>1. ASSUME NEW i \in 1 .. Len(visited)
        PROVE  Earlier(level + 1, visited[i], par) \/ Same(level + 1, visited[i], par)
    <3>1. visited[i] \in Points
      BY DEF Order
    <3>2. Earlier(level, visited[i], par)
      BY <1>1 DEF Order
    <3> QED
      BY <1>1, <3>1, <3>2, EarlierSeenFromAbove
  <2> QED
    BY <1>1, <2>1 DEF Order
<1>4. Complete'
  <2>1. ASSUME NEW g \in Grid, Earlier(level + 1, g, par) \/ Same(level + 1, g, par) PROVE Seen(g)
    <3>1. g \in Points /\ g[level] < par[level]
      <4>1. g \in Points /\ g[level] < Upper[level]
        BY <1>1 DEF Grid
      <4>2. g[level] \in Nat /\ par[level] \in Nat /\ Upper[level] \in Nat
        BY <1>1, <4>1, ValuesAreNumbers
      <4> QED
        BY <1>1, <4>1, <4>2
    <3>2. Earlier(level, g, par)
      BY <1>1, <2>1, <3>1, SeenFromAboveIsEarlier
    <3> QED
      BY <1>1, <3>2 DEF Complete
  <2> QED
    BY <1>1, <2>1 DEF Complete, Seen
<1>5. EachPointOnce'
  BY <1>1 DEF EachPointOnce
<1> QED
  BY <1>2, <1>3, <1>4, <1>5

LEMMA AskKeeps == ASSUME ScanInv, Ask PROVE ScanInv'
<1> USE DEF ScanInv
<1>1. /\ par' = par /\ par \in Points /\ scan = "test" /\ scan' = "evaluate"
      /\ level' = level /\ level = 1 /\ 1 \in Pars /\ par[1] < Upper[1]
      /\ visited' = Append(visited, par) /\ visited \in Seq(Points)
  BY EvaluationKeepsPar DEF Ask, Evaluation, Values, Order, Below, Pars
<1>2. /\ visited' \in Seq(Points)
      /\ Len(visited') = Len(visited) + 1
      /\ visited'[Len(visited) + 1] = par
      /\ \A i \in 1 .. Len(visited) : visited'[i] = visited[i]
  BY <1>1
<1>3. Values'
  BY <1>1 DEF Values
<1>4. par \in Grid
  <2>1. ASSUME NEW k \in Pars PROVE par[k] < Upper[k] /\ Multiple(par[k], Width[k])
    <3>1. k = 1 \/ k > level
      BY <1>1 DEF Pars
    <3> QED
      BY <1>1, <3>1 DEF Values
  <2> QED
    BY <1>1, <2>1 DEF Grid
<1>5. \A i \in 1 .. Len(visited) : Earlier(1, visited[i], par)
  BY <1>1 DEF Order
<1>6. Order'
  <2>1. ASSUME NEW i \in 1 .. Len(visited') PROVE Earlier(1, visited'[i], par) \/ Same(1, visited'[i], par)
    <3>1. CASE i \in 1 .. Len(visited)
      BY <3>1, <1>2, <1>5
    <3>2. CASE i = Len(visited) + 1
      BY <3>2, <1>2 DEF Same
    <3> QED
      BY <1>2, <3>1, <3>2
  <2> QED
    BY <1>1, <1>2, <2>1 DEF Order
<1>7. ASSUME NEW g \in Points, Seen(g) \/ g = par PROVE Seen(g)'
  <2>1. CASE Seen(g)
    <3>1. PICK i \in 1 .. Len(visited) : visited[i] = g
      BY <2>1 DEF Seen
    <3>2. i \in 1 .. Len(visited') /\ visited'[i] = g
      BY <3>1, <1>1, <1>2
    <3> QED
      BY <3>2 DEF Seen
  <2>2. CASE g = par
    <3>1. Len(visited) + 1 \in 1 .. Len(visited')
      BY <1>1, <1>2
    <3> QED
      BY <2>2, <3>1, <1>2 DEF Seen
  <2> QED
    BY <1>7, <2>1, <2>2
<1>8. Complete'
  <2>1. ASSUME NEW g \in Grid, Earlier(1, g, par) \/ Same(1, g, par) PROVE Seen(g)'
    <3>1. g \in Points
      BY DEF Grid
    <3>2. CASE Earlier(1, g, par)
      BY <3>1, <3>2, <1>1, <1>7 DEF Complete
    <3>3. CASE Same(1, g, par)
      <4>1. g = par
        BY <3>1, <3>3, <1>1, SameFromFirst
      <4> QED
        BY <3>1, <4>1, <1>7
    <3> QED
      BY <2>1, <3>2, <3>3
  <2> QED
    BY <1>1, <2>1 DEF Complete
<1>9. EachPointOnce'
  <2>1. \A i \in 1 .. Len(visited) : visited[i] # par
    BY <1>1, <1>5, EarlierDiffers
  <2>2. ASSUME NEW i \in 1 .. Len(visited'), NEW j \in 1 .. Len(visited'), i # j
        PROVE  visited'[i] # visited'[j]
    <3>1. CASE i \in 1 .. Len(visited) /\ j \in 1 .. Len(visited)
      BY <3>1, <2>2, <1>2 DEF EachPointOnce
    <3>2. CASE i = Len(visited) + 1 /\ j \in 1 .. Len(visited)
      BY <3>2, <1>2, <2>1
    <3>3. CASE j = Len(visited) + 1 /\ i \in 1 .. Len(visited)
      BY <3>3, <1>2, <2>1
    <3> QED
      BY <2>2, <1>2, <3>1, <3>2, <3>3
  <2>3. ASSUME NEW i \in 1 .. Len(visited') PROVE visited'[i] \in Grid
    <3>1. CASE i \in 1 .. Len(visited)
      BY <3>1, <1>2 DEF EachPointOnce
    <3>2. CASE i = Len(visited) + 1
      BY <3>2, <1>2, <1>4
    <3> QED
      BY <1>2, <3>1, <3>2
  <2> QED
    BY <1>1, <2>2, <2>3 DEF EachPointOnce
<1> QED
  BY <1>3, <1>6, <1>8, <1>9

\* The steps of the model and of the tree while the point is evaluated.
LEMMA EvaluateKeeps == ASSUME ScanInv, Evaluate \/ Fill PROVE ScanInv'
<1>1. /\ par' = par /\ level' = level /\ visited' = visited
      /\ scan = "evaluate" /\ scan' \in {"evaluate", "update"} /\ level = 1
  BY EvaluationKeepsPar DEF Evaluate, Fill, frame, ScanInv, Values
<1>2. Values'
  <2>1. \A k \in Pars : ~(k < 1)
    BY DEF Pars
  <2> QED
    BY <1>1, <2>1 DEF ScanInv, Values
<1>3. Order' /\ Complete' /\ EachPointOnce'
  BY <1>1 DEF ScanInv, Order, Complete, Seen, EachPointOnce
<1> QED
  BY <1>2, <1>3 DEF ScanInv

LEMMA ResetKeeps == ASSUME ScanInv, ResetValues PROVE ScanInv'
<1> USE DEF ScanInv
<1>1. /\ par' = [k \in Pars |-> IF k < level THEN 0 ELSE par[k]]
      /\ scan = "reset" /\ scan' = "update" /\ level' = level /\ visited' = visited
      /\ par \in Points /\ level \in Pars
  BY DEF ResetValues, SetParameters, Values
<1>2. \A k \in Pars : par'[k] = IF k < level THEN 0 ELSE par[k]
  BY <1>1
<1>3. Values'
  <2>1. par' \in Points
    BY <1>1
  <2>2. ASSUME NEW k \in Pars PROVE Multiple(par'[k], Width[k])
    <3>1. Multiple(0, Width[k])
      BY DEF Multiple
    <3> QED
      BY <1>2, <3>1 DEF Values
  <2>3. ASSUME NEW k \in Pars, k >= level PROVE par'[k] < Upper[k]
    <3>1. par'[k] = par[k] /\ (k = level \/ k > level)
      BY <1>1, <1>2, <2>3 DEF Pars
    <3> QED
      BY <1>1, <3>1 DEF Values
  <2>4. level >= level /\ \A k \in Pars : k > level => k >= level
    BY <1>1 DEF Pars
  <2>5. \A k \in Pars : k < level => par'[k] = 0
    BY <1>2
  <2> QED
    BY <1>1, <2>1, <2>2, <2>3, <2>4, <2>5 DEF Values
<1>4. \A k \in Pars : k >= level => par'[k] = par[k]
  BY <1>1, <1>2 DEF Pars
<1>5. ASSUME NEW p \in Points
      PROVE  Earlier(level, p, par') <=> Earlier(level, p, par)
  <2>1. ASSUME NEW k \in Pars, NEW j \in Pars, k >= level, j > k PROVE j >= level
    BY <1>1, <2>1 DEF Pars
  <2> QED
    BY <1>4, <2>1 DEF Earlier
<1>6. ASSUME NEW p \in Points PROVE Same(level, p, par') <=> Same(level, p, par)
  BY <1>4 DEF Same
<1>7. \A i \in 1 .. Len(visited) : visited[i] \in Points
  BY DEF Order
<1>8. Order'
  BY <1>1, <1>5, <1>6, <1>7 DEF Order
<1>9. Complete'
  BY <1>1, <1>5, <1>6 DEF Complete, Seen, Grid
<1>10. EachPointOnce'
  BY <1>1 DEF EachPointOnce
<1> QED
  BY <1>3, <1>8, <1>9, <1>10

LEMMA UpdateKeeps == ASSUME ScanInv, UpdateValues PROVE ScanInv'
<1> USE DEF ScanInv
<1>1. /\ par' = [par EXCEPT ![level] = @ + Width[level]]
      /\ scan = "update" /\ scan' = "test" /\ level' = level /\ visited' = visited
      /\ par \in Points /\ level \in Pars /\ par[level] < Upper[level]
      /\ Multiple(par[level], Width[level])
  BY DEF UpdateValues, SetParameters, Values
<1>2. /\ par[level] \in Nat /\ Upper[level] \in Nat /\ Width[level] \in Nat \ {0}
      /\ Upper[level] + Width[level] <= Top + 1
  BY <1>1, ValuesAreNumbers
<1>3. /\ par'[level] = par[level] + Width[level]
      /\ \A k \in Pars : k # level => par'[k] = par[k]
  BY <1>1
<1>4. par' \in Points
  <2>1. par[level] + Width[level] \in 0 .. Top
    BY <1>1, <1>2
  <2> QED
    BY <1>1, <2>1
<1>5. \A k \in Pars : k > level => par'[k] = par[k]
  BY <1>1, <1>3 DEF Pars
<1>6. Values'
  <2>1. ASSUME NEW k \in Pars PROVE Multiple(par'[k], Width[k])
    <3>1. CASE k = level
      BY <3>1, <1>1, <1>2, <1>3, NextMultiple
    <3>2. CASE k # level
      BY <3>2, <1>3 DEF Values
    <3> QED
      BY <3>1, <3>2
  <2>2. \A k \in Pars : k > level => par'[k] < Upper[k]
    BY <1>5 DEF Values
  <2>3. \A k \in Pars : k < level => par'[k] = 0
    BY <1>1, <1>3 DEF Values, Pars
  <2> QED
    BY <1>1, <1>4, <2>1, <2>2, <2>3 DEF Values
<1>7. Order'
  <2>1. ASSUME NEW i \in 1 .. Len(visited) PROVE Earlier(level, visited[i], par')
    <3>1. visited[i] \in Points
      BY DEF Order
    <3>2. Earlier(level, visited[i], par) \/ Same(level, visited[i], par)
      BY <1>1 DEF Order
    <3>3. par[level] < par'[level]
      BY <1>2, <1>3
    <3> QED
      BY <1>1, <1>4, <1>5, <3>1, <3>2, <3>3, StepPutsBefore
  <2> QED
    BY <1>1, <2>1 DEF Order
<1>8. Complete'
  <2>1. ASSUME NEW g \in Grid, Earlier(level, g, par') PROVE Seen(g)
    <3>1. Earlier(level, g, par) \/ Same(level, g, par)
      BY <1>1, <1>3, <1>4, <1>5, <2>1, StepSkipsNothing
    <3> QED
      BY <1>1, <3>1 DEF Complete
  <2> QED
    BY <1>1, <2>1 DEF Complete, Seen
<1>9. EachPointOnce'
  BY <1>1 DEF EachPointOnce
<1> QED
  BY <1>6, <1>7, <1>8, <1>9

LEMMA EndScanKeeps == ASSUME ScanInv, EndScan PROVE ScanInv'
<1> USE DEF ScanInv
<1>1. /\ par' = par /\ scan = "test" /\ scan' = "done" /\ visited' = visited
      /\ level' = level /\ level = NumPars /\ level \in Pars /\ ~(par[level] < Upper[level])
      /\ par \in Points
  BY DEF EndScan, Values, Below, vars
<1>2. ASSUME NEW g \in Grid PROVE Seen(g)
  <2>1. g \in Points /\ g[level] < Upper[level]
    BY <1>1 DEF Grid
  <2>2. g[level] \in Nat /\ par[level] \in Nat /\ Upper[level] \in Nat
    BY <1>1, <2>1, ValuesAreNumbers
  <2>3. g[level] < par[level] /\ level >= level
    BY <1>1, <2>1, <2>2 DEF Pars
  <2>4. \A j \in Pars : ~(j > level)
    BY <1>1 DEF Pars
  <2>5. Earlier(level, g, par)
    BY <1>1, <2>3, <2>4 DEF Earlier
  <2> QED
    BY <1>1, <2>5 DEF Complete
<1>3. EachPointOnce'
  BY <1>1, <1>2 DEF EachPointOnce, Seen
<1>4. Values' /\ Order' /\ Complete'
  BY <1>1 DEF Values, Order, Complete
<1> QED
  BY <1>3, <1>4

-----------------------------------------------------------------------------
LEMMA ScanStarts == ScanInit => ScanInv
<1> SUFFICES ASSUME ScanInit PROVE ScanInv
  OBVIOUS
<1>1. /\ par = [k \in Pars |-> 0] /\ level = NumPars /\ scan = "test" /\ visited = <<>>
  BY DEF ScanInit, Init
<1>2. par \in Points
  BY <1>1
<1>3. Values
  <2>1. \A k \in Pars : ~(k > level)
    BY <1>1 DEF Pars
  <2>2. \A k \in Pars : Multiple(par[k], Width[k])
    BY <1>1 DEF Multiple
  <2>3. level \in Pars
    BY <1>1 DEF Pars
  <2> QED
    BY <1>1, <1>2, <2>1, <2>2, <2>3 DEF Values
<1>4. visited \in Seq(Points) /\ Len(visited) = 0
  BY <1>1
<1>5. Order
  BY <1>1, <1>4 DEF Order
<1>6. Complete
  <2>1. ASSUME NEW g \in Grid PROVE ~Earlier(level, g, par)
    <3>1. g \in Points
      BY DEF Grid
    <3>2. ASSUME NEW k \in Pars PROVE ~(g[k] < par[k])
      <4>1. g[k] \in Nat /\ par[k] = 0
        BY <1>1, <3>1, ValuesAreNumbers
      <4> QED
        BY <4>1
    <3> QED
      BY <3>2 DEF Earlier
  <2> QED
    BY <1>1, <2>1 DEF Complete
<1>7. EachPointOnce
  BY <1>1, <1>4 DEF EachPointOnce
<1> QED
  BY <1>3, <1>5, <1>6, <1>7 DEF ScanInv

LEMMA ScanKeeps == ScanInv /\ [ScanNext]_scanVars => ScanInv'
<1> SUFFICES ASSUME ScanInv, [ScanNext]_scanVars PROVE ScanInv'
  OBVIOUS
<1>1. CASE Descend
  BY <1>1, DescendKeeps
<1>2. CASE Ask
  BY <1>2, AskKeeps
<1>3. CASE Evaluate \/ Fill
  BY <1>3, EvaluateKeeps
<1>4. CASE Ascend
  BY <1>4, AscendKeeps
<1>5. CASE ResetValues
  BY <1>5, ResetKeeps
<1>6. CASE UpdateValues
  BY <1>6, UpdateKeeps
<1>7. CASE EndScan
  BY <1>7, EndScanKeeps
<1>8. CASE UNCHANGED scanVars
  <2>1. par' = par /\ scan' = scan /\ level' = level /\ visited' = visited
    BY <1>8 DEF scanVars, vars, frame
  <2>2. Values' /\ Order' /\ Complete' /\ EachPointOnce'
    BY <2>1 DEF ScanInv, Values, Order, Complete, Seen, EachPointOnce
  <2> QED
    BY <2>2 DEF ScanInv
<1> QED
  BY <1>1, <1>2, <1>3, <1>4, <1>5, <1>6, <1>7, <1>8 DEF ScanNext, ScanStep, Ended

LEMMA ScanInvariant == ScanSpec => []ScanInv
BY ScanStarts, ScanKeeps, PTL DEF ScanSpec

\* For any number of parameters, any bounds and any steps: the recursion of
\* SimpleSampler::Scan goes through the grid without repeating or leaving out
\* a point.
THEOREM ScanIsComplete == ScanSpec => []EachPointOnce
<1>1. ScanInv => EachPointOnce
  BY DEF ScanInv
<1> QED
  BY <1>1, ScanInvariant, PTL

\* A set of numbers has a least one, and one of parameters a greatest.
LEMMA LeastNumber ==
    ASSUME NEW T \in SUBSET Nat, T # {}
    PROVE  \E n \in T : \A m \in T : n <= m
<1> DEFINE R == StrictSubsetOrdering(Nat)
           F == FiniteSubsetsOf(Nat)
           U == {1 .. n : n \in T}
<1>1. IsWellFoundedOn(R, F)
  BY FS_StrictSubsetOrderingWellFounded
<1>2. U \subseteq F /\ U # {}
  <2>1. U \subseteq F
    BY FS_Interval DEF FiniteSubsetsOf
  <2>2. U # {}
    OBVIOUS
  <2> QED
    BY <2>1, <2>2
<1>3. \E x \in U : \A y \in U : ~(<<y, x>> \in R)
  <2> HIDE DEF R, F, U
  <2> QED
    BY <1>1, <1>2, WFMin
<1>4. PICK n \in T : \A m \in T : ~(<<1 .. m, 1 .. n>> \in R)
  BY <1>3
<1>5. ASSUME NEW m \in T, m < n PROVE FALSE
  <2>1. 1 .. m \subseteq 1 .. n /\ n \in 1 .. n /\ n \notin 1 .. m
    BY <1>5
  <2>2. 1 .. m \in SUBSET Nat /\ 1 .. n \in SUBSET Nat
    OBVIOUS
  <2> QED
    BY <1>4, <2>1, <2>2 DEF StrictSubsetOrdering
<1> QED
  BY <1>5

LEMMA GreatestParameter ==
    ASSUME NEW T \in SUBSET Pars, T # {}
    PROVE  \E k \in T : \A j \in T : j <= k
<1> DEFINE U == {NumPars - k : k \in T}
<1>1. U \in SUBSET Nat /\ U # {}
  <2>1. \A k \in T : NumPars - k \in Nat
    BY DEF Pars
  <2>2. U \in SUBSET Nat
    BY <2>1
  <2>3. U # {}
    OBVIOUS
  <2> QED
    BY <2>2, <2>3
<1>2. PICK n \in U : \A m \in U : n <= m
  <2> HIDE DEF U
  <2> QED
    BY <1>1, LeastNumber
<1>3. PICK k \in T : n = NumPars - k
  BY <1>2
<1>4. ASSUME NEW j \in T PROVE j <= k
  <2>1. NumPars - j \in U
    OBVIOUS
  <2>2. NumPars - k <= NumPars - j
    BY <1>2, <1>3, <2>1
  <2> QED
    BY <2>2 DEF Pars
<1> QED
  BY <1>4

\* Of two points one comes before the other.
LEMMA EarlierOrLater ==
    ASSUME NEW p \in Points, NEW q \in Points, p # q
    PROVE  Earlier(1, p, q) \/ Earlier(1, q, p)
<1> DEFINE T == {k \in Pars : p[k] # q[k]}
<1>1. T \in SUBSET Pars /\ T # {}
  OBVIOUS
<1>2. PICK k \in T : \A j \in T : j <= k
  BY <1>1, GreatestParameter
<1>3. \A j \in Pars : j > k => p[j] = q[j]
  BY <1>2 DEF Pars
<1>4. k \in Pars /\ k >= 1 /\ p[k] \in Nat /\ q[k] \in Nat /\ p[k] # q[k]
  BY ValuesAreNumbers DEF Pars
<1> QED
  BY <1>3, <1>4 DEF Earlier

\* The order of the frames is the one of GridOrder.
LEMMA EarlierIsBefore ==
    ASSUME NEW p, NEW q, Earlier(1, p, q)
    PROVE  InOrder!Before(p, q)
BY DEF Earlier, InOrder!Before

\* What is asked for is the next point of the grid.
LEMMA AskIsInOrder == ASSUME ScanInv, ScanInv', Ask PROVE InOrder!Next
<1>1. /\ scan = "test" /\ scan' = "evaluate" /\ level = 1
      /\ visited' = Append(visited, par) /\ visited \in Seq(Points) /\ par \in Points
  BY DEF Ask, ScanInv, Order, Values
<1>2. par \in Grid
  <2>1. Len(visited) + 1 \in 1 .. Len(visited') /\ visited'[Len(visited) + 1] = par
    BY <1>1
  <2> QED
    BY <2>1 DEF ScanInv, EachPointOnce
<1>3. ASSUME NEW i \in 1 .. Len(visited) PROVE visited[i] # par
  <2>1. 1 \in Pars
    BY DEF Pars
  <2>2. Earlier(1, visited[i], par)
    BY <1>1 DEF ScanInv, Order
  <2>3. visited[i] \in Points
    BY <1>1
  <2> QED
    BY <1>1, <2>1, <2>2, <2>3, EarlierDiffers
<1>4. par \in InOrder!Open
  BY <1>2, <1>3 DEF InOrder!Open
<1>5. ASSUME NEW q \in InOrder!Open PROVE q = par \/ InOrder!Before(par, q)
  <2>1. q \in Grid /\ q \in Points /\ ~Seen(q)
    BY DEF InOrder!Open, Grid, Seen
  <2>2. ~Earlier(1, q, par)
    BY <1>1, <2>1 DEF ScanInv, Complete
  <2> QED
    BY <1>1, <2>1, <2>2, EarlierOrLater, EarlierIsBefore
<1>6. InOrder!Ask(par)
  BY <1>1, <1>5 DEF InOrder!Ask
<1> QED
  BY <1>4, <1>6 DEF InOrder!Next

LEMMA StepsAreInOrder == ScanInv /\ ScanInv' /\ [ScanNext]_scanVars => [InOrder!Next]_(InOrder!vars)
<1> SUFFICES ASSUME ScanInv, ScanInv', [ScanNext]_scanVars PROVE [InOrder!Next]_(InOrder!vars)
  OBVIOUS
<1>1. CASE Ask
  BY <1>1, AskIsInOrder
<1>2. CASE EndScan
  <2>1. visited' = visited /\ scan' = "done"
    BY <1>2 DEF EndScan
  <2>2. \A g \in Grid : \E i \in 1 .. Len(visited) : visited[i] = g
    BY <2>1 DEF ScanInv, EachPointOnce
  <2> QED
    BY <2>1, <2>2 DEF InOrder!Next, InOrder!End, InOrder!Open
<1>3. CASE Descend \/ Evaluate \/ Fill \/ Ascend \/ ResetValues \/ UpdateValues \/ UNCHANGED scanVars
  <2>1. visited' = visited /\ (scan' = "done") = (scan = "done")
    BY <1>3 DEF Descend, Evaluate, Fill, Ascend, ResetValues, UpdateValues, scanVars, frame
  <2> QED
    BY <2>1 DEF InOrder!vars
<1> QED
  BY <1>1, <1>2, <1>3 DEF ScanNext, ScanStep, Ended

\* For any number of parameters, any bounds and any steps: what the frames of the
\* recursion ask for, one after the other, is the next point of the whole grid,
\* and the outermost one returns when there is none left.
THEOREM ScanFollowsTheOrder == ScanSpec => ScanIsInOrder
<1>1. ScanInit => InOrder!Init
  BY DEF ScanInit, InOrder!Init
<1> QED
  BY <1>1, ScanInvariant, StepsAreInOrder, PTL DEF ScanSpec, ScanIsInOrder, InOrder!Spec

\* A step of the scan is a step of the tool of the model, or none of the
\* model's business.
LEMMA ScanStepIsAToolStep == ScanInv' /\ [ScanNext]_scanVars => [Next]_vars
<1> SUFFICES ASSUME ScanInv', [ScanNext]_scanVars PROVE [Next]_vars
  OBVIOUS
<1>1. CASE Descend \/ Ascend \/ EndScan \/ UNCHANGED scanVars
  BY <1>1 DEF Descend, Ascend, EndScan, scanVars
<1>2. CASE Ask \/ Evaluate \/ Fill
  BY <1>2 DEF Ask, Evaluate, Fill, Next, Evaluation
<1>3. CASE ResetValues \/ UpdateValues
  <2>1. PICK p : SetParameters(p)
    BY <1>3 DEF ResetValues, UpdateValues
  <2>2. p \in Points
    BY <2>1 DEF SetParameters, ScanInv, Values
  <2> QED
    BY <2>1, <2>2 DEF Next
<1> QED
  BY <1>1, <1>2, <1>3 DEF ScanNext, ScanStep, Ended

\* SimpleSampler sets parameters, asks and fills in the order the model is
\* specified for: the entries of a scan show their own points.
THEOREM ScannedEntriesBelongTogether == ScanSpec => []EntryBelongsTogether
<1>1. ScanInit => Init
  BY DEF ScanInit
<1>2. ScanSpec => Spec
  BY <1>1, ScanInvariant, ScanStepIsAToolStep, PTL DEF ScanSpec, Spec
<1> QED
  BY <1>2, EntriesBelongTogether, PTL

HIDE GridAssumption
USE ModelAssumption

-----------------------------------------------------------------------------
(***************************************************************************)
(* The calculators and their files.                                        *)
(***************************************************************************)
USE FileAssumption

\* Types.

LEMMA ChainTypes ==
    ASSUME FilesTypeOK, NEW i \in Calcs
    PROVE  /\ chain[i].clears \subseteq Files
           /\ Steps(i) \in Seq(StepSet)
           /\ Len(Steps(i)) \in Nat
           /\ DOMAIN Steps(i) = 1 .. Len(Steps(i))
           /\ \A k \in DOMAIN Steps(i) : Steps(i)[k] \in StepSet
<1>1. chain[i] \in Programs
  BY DEF FilesTypeOK
<1>2. chain[i].clears \subseteq Files /\ Steps(i) \in Seq(StepSet)
  BY <1>1 DEF Programs, Steps
<1> QED
  BY <1>2

\* Numbers made of numbers are of a point, of none, or torn.
LEMMA BlendType == ASSUME NEW S PROVE Blend(S) \in Held
<1>1. CASE S = {}
  BY <1>1 DEF Blend, Held
<1>2. CASE S # {} /\ \E x \in Held : S = {x}
  BY <1>2 DEF Blend
<1>3. CASE S # {} /\ ~ \E x \in Held : S = {x}
  BY <1>3 DEF Blend, Held
<1> QED
  BY <1>1, <1>2, <1>3

\* Numbers made of one number are that number.
LEMMA BlendOne ==
    ASSUME NEW x \in Held, NEW S, S # {}, S \subseteq {x}
    PROVE  Blend(S) = x
<1>1. S = {x}
  OBVIOUS
<1>2. \A y : S = {y} => y = x
  BY <1>1
<1> QED
  BY <1>1, <1>2 DEF Blend

LEMMA PutType ==
    ASSUME FilesTypeOK, NEW out, NEW c \in Contents, Put(out, c)
    PROVE  files' \in [Files -> Contents]
BY DEF Put, FilesTypeOK

\* Where nothing is written the files are as they were.
LEMMA PutElsewhere ==
    ASSUME FilesTypeOK, NEW out, NEW c, Put(out, c), NEW f \in Files
    PROVE  files'[f] = IF f \in out THEN c ELSE files[f]
BY DEF Put

\* The types of the predictions a calculator leaves.
LEMMA CalculateType ==
    ASSUME TypeOK, NEW h \in Held, CalculateWith(h)
    PROVE  TypeOK'
<1>1. next \in Calcs
  BY DEF CalculateWith, Calculating
<1>2. predictions' \in Predictions
  BY <1>1 DEF CalculateWith, TypeOK, Predictions
<1>3. next' \in 0 .. NumCalcs + 1
  BY <1>1 DEF CalculateWith, Goes, Calcs
<1>4. requirements' \in BOOLEAN
  BY DEF CalculateWith, TypeOK
<1> QED
  BY <1>2, <1>3, <1>4 DEF CalculateWith, Goes, TypeOK

LEMMA ThrowType ==
    ASSUME TypeOK, NEW h \in Held, ThrowWith(h)
    PROVE  TypeOK'
<1>1. next \in Calcs
  BY DEF ThrowWith, Calculating
<1>2. predictions' \in Predictions
  BY <1>1 DEF ThrowWith, TypeOK, Predictions
<1>3. next' \in 0 .. NumCalcs + 1 /\ terminator' \in 0 .. NumCalcs
  BY <1>1 DEF ThrowWith, Ends, Calcs
<1>4. chi2' \in Chi2s
  BY DEF ThrowWith, Infinite, Chi2s, Predictions, Held
<1>5. tool' \in {"set", "print", "fill", "dead"}
  BY DEF ThrowWith, Ends, Returns
<1> QED
  BY <1>2, <1>3, <1>4, <1>5 DEF ThrowWith, TypeOK

\* What the tool and the model do around the calculators keeps the types.
LEMMA AroundType ==
    ASSUME TypeOK, Update \/ Conclude \/ Return \/ FillTree \/ Dead \/ Die
                   \/ UNCHANGED vars \/ \E p \in Points : SetParameters(p)
    PROVE  TypeOK'
<1> USE DEF TypeOK
<1>1. ASSUME NEW of \in Predictions PROVE Finite(of) \in Chi2s
  BY <1>1 DEF Finite, Chi2s
<1>2. [i \in Calcs |-> NoPoint] \in Predictions
  BY DEF Predictions, Held
<1>3. CASE Update
  <2>1. chi2' \in Chi2s
    BY <1>3, <1>1, <1>2 DEF Update
  <2>2. next' \in 0 .. NumCalcs + 1 /\ terminator' \in 0 .. NumCalcs
    BY <1>3 DEF Update, Goes
  <2> QED
    BY <1>3, <2>1, <2>2 DEF Update, Goes
<1>4. CASE Conclude
  BY <1>4, <1>1 DEF Conclude, Ends, Returns
<1>5. CASE Return
  BY <1>5 DEF Return, Returns, results
<1>6. CASE FillTree
  <2>1. entry' \in Entries
    BY <1>6 DEF FillTree, Entries
  <2> QED
    BY <1>6, <2>1 DEF FillTree, results
<1>7. CASE Die
  BY <1>7 DEF Die, results
<1>8. CASE Dead \/ UNCHANGED vars
  BY <1>8 DEF Dead, vars, results
<1>9. CASE \E p \in Points : SetParameters(p)
  BY <1>9 DEF SetParameters, results
<1> QED
  BY <1>3, <1>4, <1>5, <1>6, <1>7, <1>8, <1>9

FileTypes == TypeOK /\ FilesTypeOK

\* Every number there is, is of a point, of none, or torn.
LEMMA TakenType ==
    ASSUME FileTypes, NEW found, Take(found)
    PROVE  held' \in Held
BY BlendType DEF Take

LEMMA ProceedType ==
    ASSUME FileTypes, Proceeds, held' \in Held, files' \in [Files -> Contents]
    PROVE  FileTypes'
<1>1. TypeOK'
  BY AroundType DEF FileTypes, Proceeds
<1> QED
  BY <1>1 DEF FileTypes, FilesTypeOK, Proceeds

LEMMA RefuseType ==
    ASSUME FileTypes, NEW h \in Held, ThrowWith(h), Leaves, files' \in [Files -> Contents]
    PROVE  FileTypes'
<1>1. TypeOK'
  BY ThrowType DEF FileTypes
<1> QED
  BY <1>1 DEF FileTypes, FilesTypeOK, Leaves, Held

LEMMA AbortType ==
    ASSUME FileTypes, Abort, files' \in [Files -> Contents]
    PROVE  FileTypes'
<1>1. TypeOK'
  BY AroundType DEF FileTypes, Abort
<1> QED
  BY <1>1 DEF FileTypes, FilesTypeOK, Abort, Leaves, Held

LEMMA MissingType ==
    ASSUME FileTypes, NEW policy, Missing(policy), UNCHANGED files
    PROVE  FileTypes'
<1>0. held \in Held /\ files' \in [Files -> Contents]
  BY DEF FileTypes, FilesTypeOK
<1>1. CASE Refuse
  BY <1>0, <1>1, RefuseType DEF Refuse
<1>2. CASE Abort
  BY <1>0, <1>2, AbortType
<1> QED
  BY <1>1, <1>2 DEF Missing

LEMMA LibraryType ==
    ASSUME FileTypes, CallLibrary
    PROVE  FileTypes'
<1> DEFINE found == Sources(Now)
           some == {held, Blend({held} \cup (found \ {Absent}))}
<1>0. held \in Held /\ files' \in [Files -> Contents]
  BY DEF CallLibrary, FileTypes, FilesTypeOK
<1>1. some \subseteq Held
  BY <1>0, BlendType
<1>2. CASE Missing(Now.absent)
  BY <1>2, MissingType DEF CallLibrary
<1>3. CASE Take(found)
  BY <1>0, <1>3, TakenType, ProceedType DEF Take
<1>4. CASE \E half \in some : ThrowWith(half) /\ Leaves
  BY <1>0, <1>1, <1>4, RefuseType
<1>5. CASE Abort
  BY <1>0, <1>5, AbortType
<1>6. CASE held' \in some /\ Proceeds
  BY <1>0, <1>1, <1>6, ProceedType
<1> QED
  BY <1>2, <1>3, <1>4, <1>5, <1>6 DEF CallLibrary

LEMMA FileStepTypes == FileTypes /\ [FilesNext]_fvars => FileTypes'
<1> SUFFICES ASSUME FileTypes, [FilesNext]_fvars PROVE FileTypes'
  OBVIOUS
<1>0. held \in Held /\ files \in [Files -> Contents]
  BY DEF FileTypes, FilesTypeOK
<1>1. ASSUME NEW out, NEW c \in Contents, Put(out, c)
      PROVE  files' \in [Files -> Contents]
  BY <1>1, PutType DEF FileTypes
<1>2. Absent \in Contents /\ Torn \in Contents /\ NoPoint \in Contents
      /\ \A S : Blend(S) \in Contents
  BY BlendType DEF Contents, Held
<1>r. ASSUME Refuse, files' \in [Files -> Contents] PROVE FileTypes'
  BY <1>0, <1>r, RefuseType DEF Refuse
<1>h. ASSUME HalfWritten PROVE files' \in [Files -> Contents]
  BY <1>h, <1>0, <1>1, <1>2 DEF HalfWritten
<1>3. CASE Begin
  <2>1. next \in Calcs /\ predictions[next] \in Held
    BY <1>3 DEF Begin, Calculating, FileTypes, TypeOK, Predictions
  <2>2. files' \in [Files -> Contents]
    BY <1>1, <1>2, <1>3 DEF Begin
  <2>3. TypeOK'
    BY <1>3, AroundType DEF Begin, FileTypes
  <2> QED
    BY <1>3, <2>1, <2>2, <2>3 DEF Begin, FileTypes, FilesTypeOK
<1>4. CASE ClearFiles
  BY <1>0, <1>1, <1>2, <1>4, ProceedType DEF ClearFiles
<1>5. CASE WriteFiles
  BY <1>0, <1>1, <1>2, <1>5, ProceedType, AbortType DEF WriteFiles
<1>6. CASE CopyFile
  BY <1>0, <1>1, <1>2, <1>6, ProceedType DEF CopyFile
<1>7. CASE RunEndsWell
  BY <1>0, <1>1, <1>2, <1>7, ProceedType DEF RunEndsWell
<1>8. CASE RunFails
  BY <1>0, <1>h, <1>8, <1>r, ProceedType, AbortType DEF RunFails
<1>9. CASE RunTimesOut
  BY <1>h, <1>9, <1>r DEF RunTimesOut
<1>10. CASE RunIsImpossible
  BY <1>0, <1>10, <1>r, AbortType DEF RunIsImpossible
<1>11. CASE ReadFiles
  <2>1. CASE \E policy \in Policies \cup {Now.absent, Now.torn} : Missing(policy)
    BY <1>11, <2>1, MissingType DEF ReadFiles
  <2>2. CASE Take(Sources(Now))
    BY <1>0, <1>11, <2>2, TakenType, ProceedType DEF ReadFiles, Take
  <2> QED
    BY <1>11, <2>1, <2>2 DEF ReadFiles
<1>12. CASE CallLibrary
  BY <1>12, LibraryType
<1>13. CASE TestPredictions
  BY <1>0, <1>13, <1>r, ProceedType DEF TestPredictions
<1>14. CASE Finish
  <2>1. TypeOK'
    BY <1>0, <1>14, CalculateType DEF Finish, FileTypes
  <2> QED
    BY <1>0, <1>14, <2>1 DEF Finish, FileTypes, FilesTypeOK, Leaves, Held
<1>15. CASE BeginEvaluation \/ Around \/ ReadForEver \/ UNCHANGED fvars
  <2>1. TypeOK'
    BY <1>15, AroundType DEF BeginEvaluation, Around, ReadForEver, fvars, FileTypes
  <2>2. UNCHANGED <<chain, files, step, held>>
    BY <1>15 DEF BeginEvaluation, Around, ReadForEver, fvars, fileVars
  <2> QED
    BY <2>1, <2>2 DEF FileTypes, FilesTypeOK
<1> QED
  BY <1>3, <1>4, <1>5, <1>6, <1>7, <1>8, <1>9, <1>10, <1>11, <1>12, <1>13, <1>14, <1>15
     DEF FilesNext, Calculation

\* Every content of a file and every prediction is one of those that are said
\* to exist, whatever the programs do.
THEOREM FileTyping == FilesSpec => []FileTypes
<1>1. FilesInit => FileTypes
  <2> SUFFICES ASSUME FilesInit PROVE FileTypes
    OBVIOUS
  <2>1. predictions \in Predictions /\ chi2 \in Chi2s
    BY DEF FilesInit, Init, Predictions, Held, Chi2s, Finite
  <2>2. entry \in Entries
    BY DEF FilesInit, Init, NoEntry, Entries, Predictions, Held, Chi2s, Infinite
  <2>a. next \in 0 .. NumCalcs + 1 /\ terminator \in 0 .. NumCalcs
    BY DEF FilesInit, Init
  <2>b. /\ par \in Points /\ updated \in BOOLEAN /\ error \in BOOLEAN
        /\ requirements \in BOOLEAN /\ failed \subseteq Calcs
        /\ tool \in {"set", "print", "fill", "dead"}
    BY DEF FilesInit, Init
  <2>3. TypeOK
    BY <2>1, <2>2, <2>a, <2>b, Zenon DEF TypeOK
  <2>4. PICK left \in Points \cup {Absent} :
           files = [f \in Files |->
                     IF \E i \in Calcs : f \in FilesOf(chain[i]) THEN left ELSE Absent]
    BY DEF FilesInit
  <2>5. files \in [Files -> Contents]
    BY <2>4 DEF Contents, Held
  <2> QED
    BY <2>3, <2>5 DEF FileTypes, FilesTypeOK, FilesInit, Held
<1> QED
  BY <1>1, FileStepTypes, PTL DEF FilesSpec

-----------------------------------------------------------------------------
\* What is careful does not depend on anything that changes.
LEMMA CarefulStays ==
    ASSUME UNCHANGED chain, NEW i
    PROVE  CarefulUpTo(i)' <=> CarefulUpTo(i)
BY DEF CarefulUpTo, Careful, CarefulStep, UsesFresh, HasSources, Fresh, Predicted, Steps

\* The calculators before a careful one are careful.
LEMMA CarefulBefore ==
    ASSUME NEW i \in Nat, NEW j \in Nat, j <= i, CarefulUpTo(i)
    PROVE  CarefulUpTo(j)
BY DEF CarefulUpTo

\* The files that are fresh when calculator i has not begun.
FreshBefore(i) ==
    {f \in Files :
        \E j \in 1 .. i - 1 :
            \/ f \in chain[j].clears
            \/ \E m \in DOMAIN Steps(j) :
                  /\ \/ Steps(j)[m].op = "clear"
                     \/ Steps(j)[m].op = "write" /\ Fatal(Steps(j)[m].absent)
                  /\ f \in Steps(j)[m].out}

\* A step adds the files it removes or writes to those that are fresh.
Renews(s) == s.op = "clear" \/ (s.op = "write" /\ Fatal(s.absent))

LEMMA FreshAtFirst ==
    ASSUME FilesTypeOK, NEW i \in Calcs, NEW f \in Fresh(i, 1)
    PROVE  f \in FreshBefore(i) \/ f \in chain[i].clears
<1>1. \A m \in DOMAIN Steps(i) : ~ (m < 1)
  BY ChainTypes
<1> QED
  BY <1>1 DEF Fresh, FreshBefore, Calcs

LEMMA FreshAtNext ==
    ASSUME FilesTypeOK, NEW i \in Calcs, NEW k \in DOMAIN Steps(i), NEW f \in Fresh(i, k + 1)
    PROVE  f \in Fresh(i, k) \/ (Renews(Steps(i)[k]) /\ f \in Steps(i)[k].out)
<1>1. DOMAIN Steps(i) \subseteq Nat
  BY ChainTypes
<1>2. \A m \in DOMAIN Steps(i) : m < k + 1 => m < k \/ m = k
  BY <1>1
<1>3. PICK j \in 1 .. i :
         \/ f \in chain[j].clears
         \/ \E m \in DOMAIN Steps(j) :
               (j < i \/ m < k + 1) /\ Renews(Steps(j)[m]) /\ f \in Steps(j)[m].out
  BY DEF Fresh, Renews
<1>4. f \in Files
  BY DEF Fresh
<1>5. CASE f \in chain[j].clears
  BY <1>4, <1>5 DEF Fresh
<1>6. CASE j < i
  BY <1>3, <1>4, <1>6 DEF Fresh, Renews
<1>7. CASE j = i
  <2>1. CASE f \in chain[j].clears
    BY <1>5, <2>1
  <2>2. CASE \E m \in DOMAIN Steps(i) : m < k + 1 /\ Renews(Steps(i)[m]) /\ f \in Steps(i)[m].out
    <3>1. PICK m \in DOMAIN Steps(i) : m < k + 1 /\ Renews(Steps(i)[m]) /\ f \in Steps(i)[m].out
      BY <2>2
    <3>2. CASE m = k
      BY <3>1, <3>2
    <3>3. CASE m < k
      BY <1>3, <1>4, <1>7, <3>1, <3>3 DEF Fresh, Renews
    <3> QED
      BY <1>2, <3>1, <3>2, <3>3
  <2> QED
    BY <1>3, <1>7, <2>1, <2>2
<1> QED
  BY <1>3, <1>6, <1>7 DEF Calcs

\* When it has done its last step, everything it has made fresh counts.
LEMMA FreshAtLast ==
    ASSUME FilesTypeOK, NEW i \in Calcs
    PROVE  FreshBefore(i + 1) \subseteq Fresh(i, Len(Steps(i)) + 1)
<1>1. \A m \in DOMAIN Steps(i) : m < Len(Steps(i)) + 1
  BY ChainTypes
<1>2. \A j \in 1 .. (i + 1) - 1 : j \in 1 .. i /\ (j < i \/ j = i)
  BY DEF Calcs
<1> QED
  BY <1>1, <1>2 DEF Fresh, FreshBefore

LEMMA PredictedAtNext ==
    ASSUME FilesTypeOK, NEW i \in Calcs, NEW k \in DOMAIN Steps(i), Predicted(i, k + 1)
    PROVE  Predicted(i, k) \/ Steps(i)[k].op \in {"read", "library"}
<1>1. DOMAIN Steps(i) \subseteq Nat
  BY ChainTypes
<1>2. \A m \in DOMAIN Steps(i) : m < k + 1 => m < k \/ m = k
  BY <1>1
<1> QED
  BY <1>2 DEF Predicted

LEMMA PredictedAtFirst ==
    ASSUME FilesTypeOK, NEW i \in Calcs
    PROVE  ~Predicted(i, 1)
<1>1. \A m \in DOMAIN Steps(i) : ~ (m < 1)
  BY ChainTypes
<1> QED
  BY <1>1 DEF Predicted

-----------------------------------------------------------------------------
Clean(some) == \A f \in some : files[f] \in {Absent, par}

\* The evaluation: the careful calculators that have run have predicted the
\* present point, and what a careful one finds fresh is of the present point.
Evaluating ==
    /\ next \notin Calcs => step = 0
    /\ next # 0 => ~updated /\ tool = "set"
    /\ \A j \in Calcs : j < next /\ CarefulUpTo(j) => predictions[j] = par

Beginning ==
    next \in Calcs /\ step = 0 /\ CarefulUpTo(next - 1) => Clean(FreshBefore(next))

Within ==
    next \in Calcs /\ step > 0 /\ CarefulUpTo(next) =>
        /\ Clean(Fresh(next, step))
        /\ Predicted(next, step) => held = par
        /\ held \in {predictions[next], par}

\* The evaluated model.
Outcome ==
    next = 0 /\ ~updated /\ tool # "dead" /\ chi2.finite =>
        \A i \in Calcs : CarefulUpTo(i) => chi2.of[i] = par

Asked == tool \in {"print", "fill"} => ~updated /\ next = 0

CarefulInv == Evaluating /\ Beginning /\ Within /\ Outcome /\ Asked /\ CarefulIsCurrent

\* Whatever leaves the entry and the calculators alone keeps what is said of it.
LEMMA EntryStays ==
    ASSUME CarefulIsCurrent, UNCHANGED <<entry, chain>>
    PROVE  CarefulIsCurrent'
BY CarefulStays DEF CarefulIsCurrent

\* The running calculator goes on with its next step.
LEMMA Proceeding ==
    ASSUME FileTypes, CarefulInv, next \in Calcs, step \in DOMAIN Steps(next), Proceeds,
           CarefulUpTo(next) =>
               /\ \A f \in Fresh(next, step) : files'[f] \in {Absent, par}
               /\ Renews(Now) => \A f \in Now.out \cap Files : files'[f] \in {Absent, par}
               /\ Now.op \in {"read", "library"} => held' = par
               /\ held' \in {held, par}
    PROVE  CarefulInv'
<1>0. step \in Nat /\ step > 0 /\ FilesTypeOK
  BY ChainTypes DEF FileTypes, FilesTypeOK
<1>1. /\ UNCHANGED <<next, updated, tool, predictions, par, chi2, entry, chain>>
      /\ step' = step + 1
  BY DEF Proceeds, vars, results
<1>2. \A i : CarefulUpTo(i)' <=> CarefulUpTo(i)
  BY <1>1, CarefulStays
<1>3. Evaluating'
  BY <1>1, <1>2 DEF CarefulInv, Evaluating
<1>4. Beginning'
  BY <1>0, <1>1 DEF Beginning
<1>5. Within'
  <2> SUFFICES ASSUME CarefulUpTo(next)
               PROVE  /\ \A f \in Fresh(next, step + 1) : files'[f] \in {Absent, par}
                      /\ Predicted(next, step + 1) => held' = par
                      /\ held' \in {predictions[next], par}
    <3>1. Fresh(next, step)' = Fresh(next, step + 1) /\ (Predicted(next, step)' <=> Predicted(next, step + 1))
      BY <1>1 DEF Fresh, Predicted, Steps
    <3> QED
      BY <1>1, <1>2, <3>1 DEF Within, Clean
  <2>1. /\ Clean(Fresh(next, step))
        /\ Predicted(next, step) => held = par
        /\ held \in {predictions[next], par}
    BY <1>0 DEF CarefulInv, Within
  <2>2. ASSUME NEW f \in Fresh(next, step + 1) PROVE files'[f] \in {Absent, par}
    <3>1. f \in Files
      BY DEF Fresh
    <3>2. f \in Fresh(next, step) \/ (Renews(Now) /\ f \in Now.out)
      BY <1>0, <2>2, FreshAtNext DEF Now
    <3> QED
      BY <3>1, <3>2
  <2>3. Predicted(next, step + 1) => held' = par
    BY <1>0, <2>1, PredictedAtNext DEF Now
  <2> QED
    BY <2>1, <2>2, <2>3
<1>6. Outcome'
  BY <1>1, <1>2 DEF CarefulInv, Outcome
<1>7. Asked'
  BY <1>1 DEF CarefulInv, Asked
<1>8. CarefulIsCurrent'
  BY <1>1, EntryStays DEF CarefulInv
<1> QED
  BY <1>3, <1>4, <1>5, <1>6, <1>7, <1>8 DEF CarefulInv

\* The evaluation ends without a finite chi2, or the process does.
LEMMA Ending ==
    ASSUME FileTypes, CarefulInv, next \in Calcs, next' = 0, step' = 0,
           UNCHANGED <<par, updated, entry, chain>>,
           tool' = "dead" \/ (tool' \in {"print", "fill"} /\ ~chi2'.finite)
    PROVE  CarefulInv'
<1>1. 0 \notin Calcs /\ next # 0
  BY DEF Calcs
<1>2. Evaluating'
  <2>1. \A j \in Calcs : ~ (j < next')
    BY DEF Calcs
  <2> QED
    BY <1>1, <2>1 DEF Evaluating
<1>3. Beginning' /\ Within'
  BY <1>1 DEF Beginning, Within, Calcs
<1>4. Outcome'
  BY DEF Outcome
<1>5. Asked'
  BY <1>1 DEF CarefulInv, Evaluating, Asked
<1>6. CarefulIsCurrent'
  BY EntryStays DEF CarefulInv
<1> QED
  BY <1>2, <1>3, <1>4, <1>5, <1>6 DEF CarefulInv

LEMMA Refusing ==
    ASSUME FileTypes, CarefulInv, NEW h, ThrowWith(h), Leaves
    PROVE  CarefulInv'
<1>1. next \in Calcs /\ next' = 0 /\ step' = 0 /\ UNCHANGED <<par, updated, entry, chain>>
  BY DEF ThrowWith, Calculating, Ends, Leaves
<1>2. tool' \in {"print", "fill"} /\ ~chi2'.finite
  BY DEF ThrowWith, Ends, Returns, Infinite
<1> QED
  BY <1>1, <1>2, Ending

LEMMA Aborting ==
    ASSUME FileTypes, CarefulInv, Abort
    PROVE  CarefulInv'
<1>1. next \in Calcs /\ next' = 0 /\ step' = 0 /\ UNCHANGED <<par, updated, entry, chain>>
      /\ tool' = "dead"
  BY DEF Abort, Die, Calculating, Leaves
<1> QED
  BY <1>1, Ending

LEMMA MissingEnds ==
    ASSUME FileTypes, CarefulInv, NEW policy, Missing(policy)
    PROVE  CarefulInv'
BY Refusing, Aborting DEF Missing, Refuse

-----------------------------------------------------------------------------
\* What a careful calculator makes numbers of is there and of the present
\* point, or it is a file that does not exist.
LEMMA CarefulSources ==
    ASSUME FileTypes, CarefulInv, next \in Calcs, step \in DOMAIN Steps(next),
           CarefulUpTo(next), UsesFresh(next, step)
    PROVE  /\ Sources(Now) # {}
           /\ Sources(Now) \subseteq {par, Absent}
           /\ Now.in = {} => Absent \notin Sources(Now)
<1>0. step \in Nat /\ step > 0 /\ FilesTypeOK
  BY ChainTypes DEF FileTypes, FilesTypeOK
<1>1. /\ Clean(Fresh(next, step))
      /\ Predicted(next, step) => held = par
  BY <1>0 DEF CarefulInv, Within
<1>2. /\ HasSources(next, Now)
      /\ "gathered" \notin Now.uses
      /\ "own" \in Now.uses => held = par
      /\ Now.in \subseteq Fresh(next, step)
  BY <1>1 DEF UsesFresh, Now
<1>3. \A j \in 1 .. next - 1 : predictions[j] = par
  <2> SUFFICES ASSUME NEW j \in 1 .. next - 1 PROVE predictions[j] = par
    OBVIOUS
  <2>1. j \in Calcs /\ j < next /\ j \in Nat /\ next \in Nat /\ j <= next
    BY DEF Calcs
  <2>2. CarefulUpTo(j)
    BY <2>1, CarefulBefore
  <2> QED
    BY <2>1, <2>2 DEF CarefulInv, Evaluating
<1>4. NumbersFrom(Now.uses) \subseteq {par}
  BY <1>2, <1>3 DEF NumbersFrom
<1>5. {files[f] : f \in Now.in} \subseteq {par, Absent}
  BY <1>1, <1>2 DEF Clean
<1>6. Sources(Now) # {}
  <2>1. CASE Now.in # {}
    BY <2>1 DEF Sources
  <2>2. CASE Now.uses \cap {"parameters", "own"} # {}
    BY <2>2 DEF Sources, NumbersFrom
  <2>3. CASE next > 1 /\ "before" \in Now.uses
    <3>1. 1 \in 1 .. next - 1
      BY <2>3 DEF Calcs
    <3>2. predictions[1] \in NumbersFrom(Now.uses)
      BY <2>3, <3>1 DEF NumbersFrom
    <3> QED
      BY <3>2 DEF Sources
  <2> QED
    BY <1>2, <2>1, <2>2, <2>3 DEF HasSources
<1>7. par # Absent
  BY DEF FileTypes, TypeOK, Held
<1> QED
  BY <1>4, <1>5, <1>6, <1>7 DEF Sources

LEMMA CarefulNow ==
    ASSUME CarefulUpTo(next), next \in Calcs, step \in DOMAIN Steps(next)
    PROVE  CarefulStep(next, step)
BY DEF CarefulUpTo, Careful, Calcs

\* What such a calculator writes is of the present point.
LEMMA CarefulBlend ==
    ASSUME FileTypes, NEW S, S # {}, S \subseteq {par, Absent}, Absent \notin S
    PROVE  Blend(S) = par /\ S = {par}
<1>1. par \in Held
  BY DEF FileTypes, TypeOK, Held
<1> QED
  BY <1>1, BlendOne

LEMMA CarefulTake ==
    ASSUME FileTypes, NEW S, S # {}, S \subseteq {par, Absent}, Absent \notin S, Take(S)
    PROVE  held' = par
<1>1. par \in Held /\ par # Absent /\ S = {par}
  BY DEF FileTypes, TypeOK, Held
<1>2. {Taken(content) : content \in S} = {par}
  BY <1>1 DEF Taken
<1> QED
  BY <1>1, <1>2, BlendOne DEF Take

LEMMA StepsOfEvaluation ==
    ASSUME FileTypes, CarefulInv,
           ClearFiles \/ WriteFiles \/ CopyFile \/ RunEndsWell \/ RunFails \/ RunTimesOut
               \/ RunIsImpossible \/ TestPredictions
    PROVE  CarefulInv'
<1>0. next \in Calcs /\ step \in DOMAIN Steps(next)
  BY DEF ClearFiles, WriteFiles, CopyFile, RunEndsWell, RunFails, RunTimesOut,
         RunIsImpossible, TestPredictions, Doing
<1>1. CarefulUpTo(next) => CarefulStep(next, step)
  BY <1>0, CarefulNow
<1>2. step \in Nat /\ step > 0 /\ FilesTypeOK
  BY <1>0, ChainTypes DEF FileTypes, FilesTypeOK
<1>3. CarefulUpTo(next) => Clean(Fresh(next, step)) /\ Fresh(next, step) \subseteq Files
  BY <1>0, <1>2 DEF CarefulInv, Within, Fresh
<1>4. ASSUME NEW out, NEW c \in {Absent, par}, Put(out, c), CarefulUpTo(next)
      PROVE  /\ \A f \in Fresh(next, step) : files'[f] \in {Absent, par}
             /\ \A f \in out \cap Files : files'[f] \in {Absent, par}
  BY <1>2, <1>3, <1>4, PutElsewhere DEF Clean
<1>r. ASSUME Refuse PROVE CarefulInv'
  BY <1>r, Refusing DEF Refuse
<1>c. CASE ClearFiles
  <2>1. Now.op = "clear" /\ Put(Now.out, Absent) /\ Proceeds /\ held' = held
    BY <1>c DEF ClearFiles, Doing
  <2> QED
    BY <1>0, <1>4, <2>1, Proceeding
<1>w. CASE WriteFiles
  <2>1. Now.op = "write"
    BY <1>w DEF WriteFiles, Doing
  <2>2. CASE Abort
    BY <2>2, Aborting
  <2>3. CASE Put(Now.out, Blend(Sources(Now))) /\ Proceeds /\ UNCHANGED held
    <3>1. CarefulUpTo(next) => Blend(Sources(Now)) = par
      <4> SUFFICES ASSUME CarefulUpTo(next) PROVE Blend(Sources(Now)) = par
        OBVIOUS
      <4>1. UsesFresh(next, step) /\ Now.in = {}
        BY <1>1, <2>1 DEF CarefulStep, Now
      <4> QED
        BY <1>0, <4>1, CarefulSources, CarefulBlend
    <3> QED
      BY <1>0, <1>4, <2>1, <2>3, <3>1, Proceeding
  <2>4. CASE Now.absent = "keep" /\ Proceeds /\ UNCHANGED <<files, held>>
    <3>1. ~Renews(Now)
      BY <2>1, <2>4 DEF Renews, Fatal
    <3> QED
      BY <1>0, <1>3, <2>1, <2>4, <3>1, Proceeding DEF Clean
  <2> QED
    BY <1>w, <2>2, <2>3, <2>4 DEF WriteFiles
<1>y. CASE CopyFile
  <2>1. Now.op = "copy" /\ Proceeds /\ held' = held
    BY <1>y DEF CopyFile, Doing
  <2>2. ~CarefulUpTo(next)
    BY <1>1, <2>1 DEF CarefulStep, Now
  <2> QED
    BY <1>0, <2>1, <2>2, Proceeding
<1>e. CASE RunEndsWell
  <2>1. Now.op = "run" /\ Proceeds /\ held' = held /\ ~Renews(Now)
    BY <1>e DEF RunEndsWell, Doing, Renews
  <2>2. CASE UNCHANGED files
    BY <1>0, <1>3, <2>1, <2>2, Proceeding DEF Clean
  <2>3. CASE Absent \notin Sources(Now) /\ Put(Now.out, Blend(Sources(Now)))
    <3>1. CarefulUpTo(next) => Blend(Sources(Now)) = par
      <4> SUFFICES ASSUME CarefulUpTo(next) PROVE Blend(Sources(Now)) = par
        OBVIOUS
      <4>1. UsesFresh(next, step)
        BY <1>1, <2>1 DEF CarefulStep, Now
      <4> QED
        BY <1>0, <2>3, <4>1, CarefulSources, CarefulBlend
    <3> QED
      BY <1>0, <1>4, <2>1, <2>3, <3>1, Proceeding
  <2> QED
    BY <1>e, <2>2, <2>3 DEF RunEndsWell
<1>f. CASE RunFails
  <2>1. Now.op = "run"
    BY <1>f DEF RunFails, Doing
  <2>2. CASE Refuse \/ Abort
    BY <1>r, <2>2, Aborting
  <2>3. CASE "status" \notin Now.guards /\ Proceeds /\ UNCHANGED held
    <3>1. ~CarefulUpTo(next)
      BY <1>1, <2>1, <2>3 DEF CarefulStep, Now
    <3> QED
      BY <1>0, <2>3, <3>1, Proceeding
  <2> QED
    BY <1>f, <2>2, <2>3 DEF RunFails
<1>t. CASE RunTimesOut
  BY <1>r, <1>t DEF RunTimesOut
<1>i. CASE RunIsImpossible
  BY <1>r, <1>i, Aborting DEF RunIsImpossible
<1>p. CASE TestPredictions
  <2>1. CASE Refuse
    BY <1>r, <2>1
  <2>2. CASE Proceeds /\ UNCHANGED held
    <3>1. Now.op = "test" /\ files' = files /\ ~Renews(Now)
      BY <1>p DEF TestPredictions, Doing, Renews
    <3> QED
      BY <1>0, <1>3, <2>2, <3>1, Proceeding DEF Clean
  <2> QED
    BY <1>p, <2>1, <2>2 DEF TestPredictions
<1> QED
  BY <1>c, <1>w, <1>y, <1>e, <1>f, <1>t, <1>i, <1>p

LEMMA Reading ==
    ASSUME FileTypes, CarefulInv, ReadFiles \/ CallLibrary
    PROVE  CarefulInv'
<1> DEFINE found == Sources(Now)
           some == {held, Blend({held} \cup (found \ {Absent}))}
<1>0. next \in Calcs /\ step \in DOMAIN Steps(next)
  BY DEF ReadFiles, CallLibrary, Doing
<1>1. CarefulUpTo(next) => CarefulStep(next, step)
  BY <1>0, CarefulNow
<1>2. step \in Nat /\ step > 0 /\ FilesTypeOK
  BY <1>0, ChainTypes DEF FileTypes, FilesTypeOK
<1>3. CarefulUpTo(next) => Clean(Fresh(next, step))
  BY <1>0, <1>2 DEF CarefulInv, Within
<1>4. Now.op \in {"read", "library"} /\ files' = files /\ ~Renews(Now)
  BY DEF ReadFiles, CallLibrary, Doing, Renews
<1>5. CarefulUpTo(next) => UsesFresh(next, step) /\ (Now.in = {} \/ Fatal(Now.absent))
                           /\ (Now.op = "library" => Fatal(Now.torn))
  BY <1>1, <1>4 DEF CarefulStep, Now
<1>6. CASE \E policy \in {Now.absent, Now.torn} : Missing(policy)
  BY <1>6, MissingEnds
<1>7. CASE Take(found) /\ (Absent \in found => ~Fatal(Now.absent))
  <2>1. CarefulUpTo(next) => held' = par
    <3> SUFFICES ASSUME CarefulUpTo(next) PROVE held' = par
      OBVIOUS
    <3>1. /\ found # {}
          /\ found \subseteq {par, Absent}
          /\ Now.in = {} => Absent \notin found
      BY <1>0, <1>5, CarefulSources
    <3>2. Absent \notin found
      BY <1>5, <1>7, <3>1
    <3> QED
      BY <1>7, <3>1, <3>2, CarefulTake
  <2>2. Proceeds
    BY <1>7 DEF Take
  <2> QED
    BY <1>0, <1>3, <1>4, <2>1, <2>2, Proceeding DEF Clean
<1>8. CASE \E half \in some : ThrowWith(half) /\ Leaves
  BY <1>8, Refusing
<1>9. CASE Abort
  BY <1>9, Aborting
<1>10. CASE Now.op = "library" /\ Now.torn = "keep" /\ Proceeds
  <2>1. ~CarefulUpTo(next)
    BY <1>5, <1>10 DEF Fatal
  <2> QED
    BY <1>0, <1>10, <2>1, Proceeding
<1>11. CASE ReadFiles
  BY <1>6, <1>7, <1>11 DEF ReadFiles
<1>12. CASE CallLibrary
  BY <1>6, <1>7, <1>8, <1>9, <1>10, <1>12 DEF CallLibrary, Doing
<1> QED
  BY <1>11, <1>12

LEMMA Beginnings ==
    ASSUME FileTypes, CarefulInv, Begin
    PROVE  CarefulInv'
<1>0. next \in Calcs /\ step = 0 /\ step' = 1 /\ held' = predictions[next] /\ FilesTypeOK
  BY DEF Begin, Calculating, FileTypes
<1>1. UNCHANGED <<next, updated, tool, predictions, par, chi2, entry, chain>>
  BY DEF Begin, vars, results
<1>2. \A i : CarefulUpTo(i)' <=> CarefulUpTo(i)
  BY <1>1, CarefulStays
<1>3. Evaluating'
  BY <1>0, <1>1, <1>2 DEF CarefulInv, Evaluating
<1>4. Beginning'
  BY <1>0 DEF Beginning
<1>5. Within'
  <2> SUFFICES ASSUME CarefulUpTo(next)
               PROVE  /\ \A f \in Fresh(next, 1) : files'[f] \in {Absent, par}
                      /\ ~Predicted(next, 1)
    <3>1. Fresh(next, step)' = Fresh(next, 1) /\ (Predicted(next, step)' <=> Predicted(next, 1))
      BY <1>0, <1>1 DEF Fresh, Predicted, Steps
    <3> QED
      BY <1>0, <1>1, <1>2, <3>1 DEF Within, Clean
  <2>1. CarefulUpTo(next - 1)
    <3>1. next \in Nat /\ next - 1 \in Nat /\ next - 1 <= next
      BY <1>0 DEF Calcs
    <3> QED
      BY <3>1, CarefulBefore
  <2>2. Clean(FreshBefore(next))
    BY <1>0, <2>1 DEF CarefulInv, Beginning
  <2>3. ASSUME NEW f \in Fresh(next, 1) PROVE files'[f] \in {Absent, par}
    <3>1. f \in Files /\ (f \in FreshBefore(next) \/ f \in chain[next].clears)
      BY <1>0, <2>3, FreshAtFirst DEF Fresh
    <3>2. files'[f] = IF f \in chain[next].clears THEN Absent ELSE files[f]
      BY <1>0, <3>1, PutElsewhere DEF Begin
    <3> QED
      BY <2>2, <3>1, <3>2 DEF Clean
  <2>4. ~Predicted(next, 1)
    BY <1>0, PredictedAtFirst
  <2> QED
    BY <2>3, <2>4
<1>6. Outcome'
  BY <1>1, <1>2 DEF CarefulInv, Outcome
<1>7. Asked'
  BY <1>1 DEF CarefulInv, Asked
<1>8. CarefulIsCurrent'
  BY <1>1, EntryStays DEF CarefulInv
<1> QED
  BY <1>3, <1>4, <1>5, <1>6, <1>7, <1>8 DEF CarefulInv

\* A careful calculator that ends has predicted the present point.
LEMMA FinishedIsCurrent ==
    ASSUME FileTypes, CarefulInv, Finish, CarefulUpTo(next)
    PROVE  held = par /\ Clean(FreshBefore(next + 1))
<1>0. next \in Calcs /\ step = Len(Steps(next)) + 1 /\ FilesTypeOK
  BY DEF Finish, Calculating, FileTypes
<1>1. step > 0
  BY <1>0, ChainTypes
<1>2. Clean(Fresh(next, step)) /\ (Predicted(next, step) => held = par)
  BY <1>0, <1>1 DEF CarefulInv, Within
<1>3. Predicted(next, step)
  BY <1>0 DEF CarefulUpTo, Careful, Calcs
<1>4. FreshBefore(next + 1) \subseteq Fresh(next, step)
  BY <1>0, FreshAtLast
<1> QED
  BY <1>2, <1>3, <1>4 DEF Clean

LEMMA Finishing ==
    ASSUME FileTypes, CarefulInv, Finish
    PROVE  CarefulInv'
<1>0. next \in Calcs /\ step' = 0 /\ next' = next + 1 /\ next \in Nat
  BY DEF Finish, CalculateWith, Calculating, Goes, Leaves, Calcs
<1>1. UNCHANGED <<updated, tool, par, chi2, entry, chain, files>>
  BY DEF Finish, CalculateWith, Goes, Leaves
<1>2. \A i : CarefulUpTo(i)' <=> CarefulUpTo(i)
  BY <1>1, CarefulStays
<1>3. predictions' = [predictions EXCEPT ![next] = held] /\ predictions \in [Calcs -> Held]
  BY DEF Finish, CalculateWith, FileTypes, TypeOK, Predictions
<1>4. Evaluating'
  <2>1. ASSUME NEW j \in Calcs, j < next + 1, CarefulUpTo(j) PROVE predictions'[j] = par
    <3>1. CASE j = next
      BY <1>0, <1>3, <2>1, <3>1, FinishedIsCurrent
    <3>2. CASE j < next
      BY <1>0, <1>3, <2>1, <3>2 DEF CarefulInv, Evaluating
    <3> QED
      BY <1>0, <2>1, <3>1, <3>2 DEF Calcs
  <2>2. next # 0
    BY <1>0 DEF Calcs
  <2> QED
    BY <1>0, <1>1, <1>2, <2>1, <2>2 DEF CarefulInv, Evaluating
<1>5. Beginning'
  <2>1. CarefulUpTo(next) => Clean(FreshBefore(next + 1))
    BY FinishedIsCurrent
  <2>2. FreshBefore(next)' = FreshBefore(next + 1) /\ next' - 1 = next
    BY <1>0, <1>1 DEF FreshBefore, Steps
  <2> QED
    BY <1>1, <1>2, <2>1, <2>2 DEF Beginning, Clean
<1>6. Within'
  BY <1>0 DEF Within
<1>7. Outcome' /\ Asked'
  BY <1>0, <1>1 DEF CarefulInv, Evaluating, Outcome, Asked, Calcs
<1>8. CarefulIsCurrent'
  BY <1>1, EntryStays DEF CarefulInv
<1> QED
  BY <1>4, <1>5, <1>6, <1>7, <1>8 DEF CarefulInv

\* The model and the tool between two evaluations.
LEMMA BeginningEvaluations ==
    ASSUME FileTypes, CarefulInv, BeginEvaluation
    PROVE  CarefulInv'
<1>0. /\ next = 0 /\ next' = 1 /\ updated' = FALSE
      /\ UNCHANGED <<tool, predictions, par, entry, chain, files, step, held>>
  BY DEF BeginEvaluation, Update, Asking, Goes
<1>1. step = 0 /\ tool = "set"
  BY <1>0 DEF BeginEvaluation, Update, Asking, CarefulInv, Evaluating, Asked, Calcs
<1>2. Evaluating'
  BY <1>0, <1>1 DEF Evaluating, Calcs
<1>3. Beginning'
  BY <1>0 DEF Beginning, Clean, FreshBefore
<1>4. Within' /\ Outcome' /\ Asked'
  BY <1>0, <1>1 DEF Within, Outcome, Asked
<1>5. CarefulIsCurrent'
  BY <1>0, EntryStays DEF CarefulInv
<1> QED
  BY <1>2, <1>3, <1>4, <1>5 DEF CarefulInv

LEMMA AroundCalculators ==
    ASSUME FileTypes, CarefulInv, Around \/ UNCHANGED fvars
    PROVE  CarefulInv'
<1>0. UNCHANGED <<chain, files, step, held>>
  BY DEF Around, fileVars, fvars
<1>1. \A i : CarefulUpTo(i)' <=> CarefulUpTo(i)
  BY <1>0, CarefulStays
<1>2. ASSUME NEW p \in Points, SetParameters(p) PROVE CarefulInv'
  <2>1. /\ next = 0 /\ updated' = TRUE /\ tool = "set"
        /\ UNCHANGED <<next, tool, predictions, entry>>
    BY <1>2 DEF SetParameters, results
  <2>2. Evaluating' /\ Beginning' /\ Within'
    BY <1>0, <2>1 DEF CarefulInv, Evaluating, Beginning, Within, Calcs
  <2>3. Outcome' /\ Asked'
    BY <2>1 DEF Outcome, Asked
  <2> QED
    BY <1>0, <2>1, <2>2, <2>3, EntryStays DEF CarefulInv
<1>3. CASE Return
  <2>1. /\ next = 0 /\ ~updated /\ tool \in {"set", "print"}
        /\ UNCHANGED <<par, updated, next, predictions, chi2, entry>>
    BY <1>3 DEF Return, Asking, results
  <2>2. Evaluating' /\ Beginning' /\ Within'
    BY <1>0, <2>1 DEF CarefulInv, Evaluating, Beginning, Within, Calcs
  <2>3. Outcome' /\ Asked'
    BY <1>1, <2>1 DEF CarefulInv, Outcome, Asked
  <2> QED
    BY <1>0, <2>1, <2>2, <2>3, EntryStays DEF CarefulInv
<1>4. CASE Conclude
  <2>1. /\ next = NumCalcs + 1 /\ next' = 0 /\ ~updated /\ chi2' = Finite(predictions)
        /\ tool' \in {"print", "fill"}
        /\ UNCHANGED <<par, updated, predictions, entry>>
    BY <1>4 DEF Conclude, Ends, Returns, CarefulInv, Evaluating
  <2>2. step = 0
    BY <2>1 DEF CarefulInv, Evaluating, Calcs
  <2>3. Evaluating' /\ Beginning' /\ Within'
    BY <1>0, <2>1, <2>2 DEF Evaluating, Beginning, Within, Calcs
  <2>4. \A i \in Calcs : CarefulUpTo(i) => predictions[i] = par
    BY <2>1 DEF CarefulInv, Evaluating, Calcs
  <2>5. Outcome' /\ Asked'
    BY <1>1, <2>1, <2>4 DEF Outcome, Asked, Finite
  <2> QED
    BY <1>0, <2>1, <2>3, <2>5, EntryStays DEF CarefulInv
<1>5. CASE FillTree
  <2>1. /\ tool = "fill" /\ tool' = "set"
        /\ UNCHANGED <<par, updated, next, predictions, chi2>>
    BY <1>5 DEF FillTree, results
  <2>2. next = 0 /\ ~updated
    BY <2>1 DEF CarefulInv, Asked
  <2>3. Evaluating' /\ Beginning' /\ Within'
    BY <1>0, <2>1, <2>2 DEF CarefulInv, Evaluating, Beginning, Within, Calcs
  <2>4. Outcome' /\ Asked'
    BY <1>1, <2>1, <2>2 DEF CarefulInv, Outcome, Asked
  <2>5. CarefulIsCurrent'
    <3>1. CASE UNCHANGED entry
      BY <1>0, <3>1, EntryStays DEF CarefulInv
    <3>2. CASE entry'.chi2 = chi2 /\ entry'.par = par
      BY <1>1, <2>1, <2>2, <3>2 DEF CarefulInv, Outcome, CarefulIsCurrent
    <3> QED
      BY <1>5, <3>1, <3>2 DEF FillTree
  <2> QED
    BY <2>3, <2>4, <2>5 DEF CarefulInv
<1>6. CASE UNCHANGED vars
  <2>1. UNCHANGED <<par, updated, next, predictions, chi2, tool, entry>>
    BY <1>6 DEF vars, results
  <2>2. Evaluating'
    BY <1>0, <1>1, <2>1 DEF CarefulInv, Evaluating
  <2>3. Beginning' /\ Within'
    <3>1. /\ FreshBefore(next)' = FreshBefore(next)
          /\ Fresh(next, step)' = Fresh(next, step)
          /\ Predicted(next, step)' <=> Predicted(next, step)
      BY <1>0, <2>1 DEF FreshBefore, Fresh, Predicted, Steps
    <3> QED
      BY <1>0, <1>1, <2>1, <3>1 DEF CarefulInv, Beginning, Within, Clean
  <2>4. Outcome' /\ Asked'
    BY <1>1, <2>1 DEF CarefulInv, Outcome, Asked
  <2> QED
    BY <1>0, <2>1, <2>2, <2>3, <2>4, EntryStays DEF CarefulInv
<1> QED
  BY <1>2, <1>3, <1>4, <1>5, <1>6 DEF Around, Dead, fvars

LEMMA CarefulStepsKeep == FileTypes /\ CarefulInv /\ [FilesNext]_fvars => CarefulInv'
<1> SUFFICES ASSUME FileTypes, CarefulInv, [FilesNext]_fvars PROVE CarefulInv'
  OBVIOUS
<1>1. CASE Begin
  BY <1>1, Beginnings
<1>2. CASE \/ ClearFiles
          \/ WriteFiles
          \/ CopyFile
          \/ RunEndsWell
          \/ RunFails
          \/ RunTimesOut
          \/ RunIsImpossible
          \/ TestPredictions
  BY <1>2, StepsOfEvaluation
<1>3. CASE ReadFiles \/ CallLibrary
  BY <1>3, Reading
<1>4. CASE Finish
  BY <1>4, Finishing
<1>5. CASE BeginEvaluation
  BY <1>5, BeginningEvaluations
<1>6. CASE Around \/ ReadForEver \/ UNCHANGED fvars
  BY <1>6, AroundCalculators DEF ReadForEver
<1> QED
  BY <1>1, <1>2, <1>3, <1>4, <1>5, <1>6 DEF FilesNext, Calculation

LEMMA CarefulAtFirst == FilesInit => CarefulInv
<1> SUFFICES ASSUME FilesInit PROVE CarefulInv
  OBVIOUS
<1>1. next = 0 /\ step = 0 /\ updated = TRUE /\ tool = "set" /\ entry = NoEntry
  BY DEF FilesInit, Init
<1>2. Evaluating /\ Beginning /\ Within
  BY <1>1 DEF Evaluating, Beginning, Within, Calcs
<1>3. Outcome /\ Asked /\ CarefulIsCurrent
  BY <1>1 DEF Outcome, Asked, CarefulIsCurrent
<1> QED
  BY <1>2, <1>3 DEF CarefulInv

LEMMA CarefulInvariant == FilesSpec => [](FileTypes /\ CarefulInv)
<1>1. FileTypes /\ CarefulInv /\ [FilesNext]_fvars => CarefulInv'
  BY CarefulStepsKeep
<1> QED
  BY <1>1, CarefulAtFirst, FileTyping, PTL DEF FilesSpec

\* A calculator that looks at every status and reads nothing it has not renamed
\* or written contributes to a finite chi2 of the tree with its predictions of
\* the point beside it: for any calculators, files and number of points, and
\* whatever the programs do.
THEOREM CarefulEntries == FilesSpec => []CarefulIsCurrent
<1>1. CarefulInv => CarefulIsCurrent
  BY DEF CarefulInv
<1> QED
  BY <1>1, CarefulInvariant, PTL

-----------------------------------------------------------------------------
\* Half done, the predictions of a careful calculator are the old ones, the
\* present ones, or torn.
LEMMA ThrowsAsTheModel ==
    ASSUME FileTypes, NEW h, h \in {predictions[next], par, Torn}, ThrowWith(h)
    PROVE  Next
<1>1. Throw
  BY DEF ThrowWith, Throw
<1> QED
  BY <1>1 DEF Next, Evaluation

LEMMA LibraryIsModel ==
    ASSUME FileTypes, CarefulInv, CarefulUpTo(NumCalcs), CallLibrary
    PROVE  [Next]_vars
<1> DEFINE found == Sources(Now)
           some == {held, Blend({held} \cup (found \ {Absent}))}
<1>0. next \in Calcs /\ step \in DOMAIN Steps(next) /\ next \in Nat /\ NumCalcs \in Nat
      /\ next <= NumCalcs /\ FilesTypeOK
  BY DEF CallLibrary, Doing, Calcs, FileTypes
<1>1. CarefulUpTo(next)
  BY <1>0, CarefulBefore
<1>2. step > 0
  BY <1>0, ChainTypes
<1>3. held \in {predictions[next], par}
  BY <1>0, <1>1, <1>2 DEF CarefulInv, Within
<1>4. Now.op = "library" /\ UsesFresh(next, step)
  <2>1. Now.op = "library"
    BY DEF CallLibrary, Doing
  <2> QED
    BY <1>0, <1>1, <2>1, CarefulNow DEF CarefulStep, Now
<1>5. found \ {Absent} \subseteq {par}
  BY <1>0, <1>1, <1>4, CarefulSources
<1>6. par \in Held /\ held \in Held
  BY DEF FileTypes, TypeOK, FilesTypeOK, Held
<1>7. Blend({held} \cup (found \ {Absent})) \in {held, par, Torn}
  <2>1. CASE found \ {Absent} = {}
    BY <1>6, <2>1, BlendOne
  <2>2. CASE found \ {Absent} = {par} /\ held = par
    BY <1>6, <2>2, BlendOne
  <2>3. CASE found \ {Absent} = {par} /\ held # par
    <3>1. {held} \cup {par} # {} /\ ~ \E x \in Held : {held} \cup {par} = {x}
      BY <2>3
    <3> QED
      BY <2>3, <3>1 DEF Blend
  <2> QED
    BY <1>5, <2>1, <2>2, <2>3
<1>8. CASE \E half \in some : ThrowWith(half) /\ Leaves
  BY <1>3, <1>7, <1>8, ThrowsAsTheModel
<1>9. CASE Proceeds
  BY <1>9 DEF Proceeds
<1>10. CASE Abort
  BY <1>10 DEF Abort, Next, Evaluation
<1>11. CASE Refuse
  BY <1>3, <1>11, ThrowsAsTheModel DEF Refuse
<1> QED
  BY <1>8, <1>9, <1>10, <1>11 DEF CallLibrary, Missing, Take

LEMMA StepsOfTheModel ==
    ASSUME FileTypes, CarefulInv, CarefulUpTo(NumCalcs), [FilesNext]_fvars
    PROVE  [Next]_vars
<1>r. ASSUME Refuse, next \in Calcs, step \in DOMAIN Steps(next) PROVE [Next]_vars
  <2>1. /\ next \in Nat
        /\ NumCalcs \in Nat
        /\ next <= NumCalcs
        /\ FilesTypeOK
    BY <1>r DEF Calcs, FileTypes
  <2>2. CarefulUpTo(next) /\ step > 0
    BY <1>r, <2>1, CarefulBefore, ChainTypes
  <2>3. held \in {predictions[next], par}
    BY <1>r, <2>2 DEF CarefulInv, Within
  <2> QED
    BY <1>r, <2>3, ThrowsAsTheModel DEF Refuse
<1>a. ASSUME Abort PROVE [Next]_vars
  BY <1>a DEF Abort, Next, Evaluation
<1>p. ASSUME Proceeds PROVE [Next]_vars
  BY <1>p DEF Proceeds
<1>1. CASE Begin
  BY <1>1 DEF Begin
<1>2. CASE ClearFiles \/ WriteFiles \/ CopyFile
  BY <1>2, <1>a, <1>p DEF ClearFiles, WriteFiles, CopyFile
<1>3. CASE RunEndsWell \/ RunFails \/ RunTimesOut \/ RunIsImpossible
  BY <1>3, <1>r, <1>a, <1>p DEF RunEndsWell, RunFails, RunTimesOut, RunIsImpossible, Doing
<1>4. CASE ReadFiles \/ TestPredictions
  BY <1>4, <1>r, <1>a, <1>p DEF ReadFiles, TestPredictions, Missing, Take, Doing
<1>5. CASE CallLibrary
  BY <1>5, LibraryIsModel
<1>6. CASE Finish
  <2>1. CarefulUpTo(next)
    <3>1. next \in Nat /\ NumCalcs \in Nat /\ next <= NumCalcs
      BY <1>6 DEF Finish, Calculating, Calcs
    <3> QED
      BY <3>1, CarefulBefore
  <2>2. Calculate
    BY <1>6, <2>1, FinishedIsCurrent DEF Finish, Calculate
  <2> QED
    BY <2>2 DEF Next, Evaluation
<1>7. CASE BeginEvaluation
  BY <1>7 DEF BeginEvaluation, Next, Evaluation
<1>8. CASE Around
  BY <1>8 DEF Around, Next, Evaluation
<1>9. CASE ReadForEver \/ UNCHANGED fvars
  BY <1>9 DEF ReadForEver, fvars
<1> QED
  BY <1>1, <1>2, <1>3, <1>4, <1>5, <1>6, <1>7, <1>8, <1>9 DEF FilesNext, Calculation

\* A model of careful calculators does what Model says, and nothing that is
\* proved of Model depends on files: what EntryIsOnePoint and EntryHasItsChi2 say
\* holds of it too.
THEOREM CarefulModels == FilesSpec => CarefulIsModel
<1>1. FileTypes /\ CarefulInv /\ [FilesNext]_fvars => [[Next]_vars \/ ~CarefulUpTo(NumCalcs)]_fvars
  BY StepsOfTheModel
<1> QED
  BY <1>1, CarefulInvariant, PTL DEF FilesSpec, CarefulIsModel

-----------------------------------------------------------------------------
(***************************************************************************)
(* Calculators by name.  First those that test what they have predicted    *)
(* before they return.                                                     *)
(***************************************************************************)
LastStep(i) == Steps(i)[Len(Steps(i))]
TestsItself(i) ==
    /\ Steps(i) # << >>
    /\ LastStep(i).op = "test"
    /\ LastStep(i).uses = {"own"}
    /\ LastStep(i).in = {}

\* After its last step such a calculator holds no predictions that the test
\* refuses, nor does it leave any.
PassedNow ==
    next \in Calcs /\ step = Len(Steps(next)) + 1 /\ TestsItself(next) => held \notin Rejected
PassedBefore ==
    \A i \in Calcs : i < next /\ TestsItself(i) => predictions[i] \notin Rejected
PassedOutcome ==
    next = 0 /\ ~updated /\ tool # "dead" /\ chi2.finite =>
        \A i \in Calcs : TestsItself(i) => chi2.of[i] \notin Rejected
PassedEntry ==
    entry # NoEntry /\ entry.chi2.finite =>
        \A i \in Calcs : TestsItself(i) => entry.chi2.of[i] \notin Rejected

PassedInv == PassedNow /\ PassedBefore /\ PassedOutcome /\ PassedEntry

LEMMA TestsStay ==
    ASSUME UNCHANGED chain, NEW i
    PROVE  TestsItself(i)' <=> TestsItself(i)
BY DEF TestsItself, LastStep, Steps

LEMMA PassedEntryStays ==
    ASSUME PassedEntry, UNCHANGED <<entry, chain>>
    PROVE  PassedEntry'
BY TestsStay DEF PassedEntry

\* The calculator goes on: only a test brings one of these to its end.
LEMMA PassedProceeds ==
    ASSUME FileTypes, PassedInv, next \in Calcs, step \in DOMAIN Steps(next), Proceeds,
           Now.op # "test" \/ (held' = held /\ Blend(Sources(Now)) \notin Rejected)
    PROVE  PassedInv'
<1>0. /\ step \in Nat
      /\ FilesTypeOK
      /\ DOMAIN Steps(next) = 1 .. Len(Steps(next))
      /\ Len(Steps(next)) \in Nat
  BY ChainTypes DEF FileTypes, FilesTypeOK
<1>1. /\ UNCHANGED <<next, updated, tool, predictions, par, chi2, entry, chain>>
      /\ step' = step + 1
  BY DEF Proceeds, vars, results
<1>2. \A i : TestsItself(i)' <=> TestsItself(i)
  BY <1>1, TestsStay
<1>3. ASSUME step + 1 = Len(Steps(next)) + 1, TestsItself(next)
      PROVE  held' \notin Rejected
  <2>1. Now.op = "test" /\ Now.uses = {"own"} /\ Now.in = {}
    BY <1>0, <1>3 DEF TestsItself, LastStep, Now
  <2>2. Sources(Now) = {held}
    BY <2>1 DEF Sources, NumbersFrom
  <2>3. held \in Held
    BY <1>0 DEF FilesTypeOK
  <2>4. Blend({held}) = held
    BY <2>3, BlendOne
  <2> QED
    BY <2>1, <2>2, <2>4
<1>4. PassedNow'
  <2>1. Len(Steps(next))' = Len(Steps(next))
    BY <1>1 DEF Steps
  <2> QED
    BY <1>1, <1>2, <1>3, <2>1 DEF PassedNow
<1>5. PassedBefore' /\ PassedOutcome'
  BY <1>1, <1>2 DEF PassedInv, PassedBefore, PassedOutcome
<1> QED
  BY <1>1, <1>4, <1>5, PassedEntryStays DEF PassedInv

\* The evaluation ends without a finite chi2, or the process does.
LEMMA PassedEnds ==
    ASSUME FileTypes, PassedInv, next' = 0, UNCHANGED <<entry, chain>>,
           tool' = "dead" \/ ~chi2'.finite
    PROVE  PassedInv'
<1>1. 0 \notin Calcs /\ \A i \in Calcs : ~ (i < 0)
  BY DEF Calcs
<1> QED
  BY <1>1, PassedEntryStays DEF PassedInv, PassedNow, PassedBefore, PassedOutcome

LEMMA PassedAround ==
    ASSUME FileTypes, CarefulInv, PassedInv, Around \/ BeginEvaluation \/ UNCHANGED fvars
    PROVE  PassedInv'
<1>0. UNCHANGED <<chain, step, held>>
  BY DEF Around, BeginEvaluation, fileVars, fvars
<1>1. \A i : TestsItself(i)' <=> TestsItself(i)
  BY <1>0, TestsStay
<1>2. /\ 0 \notin Calcs
      /\ NumCalcs + 1 \notin Calcs
      /\ \A i \in Calcs : ~ (i < 0) /\ ~ (i < 1) /\ i < NumCalcs + 1
  BY DEF Calcs
<1>3. CASE BeginEvaluation
  <2>1. next' = 1 /\ UNCHANGED entry /\ step = 0
    BY <1>2, <1>3 DEF BeginEvaluation, Update, Asking, Goes, CarefulInv, Evaluating
  <2>2. ASSUME 1 \in Calcs, 0 = Len(Steps(1)') + 1 PROVE FALSE
    <3>1. Len(Steps(1)) \in Nat
      BY <2>2, ChainTypes DEF FileTypes
    <3> QED
      BY <1>0, <2>2, <3>1 DEF Steps
  <2>3. PassedNow'
    <3>1. ASSUME next' \in Calcs PROVE step' # Len(Steps(next)') + 1
      BY <1>0, <2>1, <2>2, <3>1
    <3> QED
      BY <3>1 DEF PassedNow
  <2> QED
    BY <1>0, <1>2, <2>1, <2>3, PassedEntryStays DEF PassedInv, PassedBefore, PassedOutcome
<1>4. ASSUME NEW p \in Points, SetParameters(p) PROVE PassedInv'
  <2>1. next = 0 /\ next' = 0 /\ updated' = TRUE /\ UNCHANGED entry
    BY <1>4 DEF SetParameters
  <2> QED
    BY <1>0, <1>2, <2>1, PassedEntryStays
       DEF PassedInv, PassedNow, PassedBefore, PassedOutcome
<1>5. CASE Return
  <2>1. next = 0 /\ tool # "dead" /\ UNCHANGED <<next, updated, chi2, entry>>
    BY <1>5 DEF Return, Asking, results
  <2> QED
    BY <1>0, <1>1, <1>2, <2>1, PassedEntryStays
       DEF PassedInv, PassedNow, PassedBefore, PassedOutcome
<1>6. CASE Conclude
  <2>1. next = NumCalcs + 1 /\ next' = 0 /\ chi2' = Finite(predictions) /\ UNCHANGED entry
    BY <1>6 DEF Conclude, Ends
  <2>2. \A i \in Calcs : TestsItself(i) => chi2'.of[i] \notin Rejected
    BY <1>2, <2>1 DEF PassedInv, PassedBefore, Finite
  <2> QED
    BY <1>0, <1>1, <1>2, <2>1, <2>2, PassedEntryStays
       DEF PassedInv, PassedNow, PassedBefore, PassedOutcome
<1>7. CASE FillTree
  <2>1. /\ tool = "fill" /\ tool' = "set" /\ next = 0 /\ ~updated
        /\ UNCHANGED <<updated, next, predictions, chi2>>
    BY <1>7 DEF FillTree, results, CarefulInv, Asked
  <2>2. PassedNow' /\ PassedBefore' /\ PassedOutcome'
    BY <1>0, <1>1, <1>2, <2>1 DEF PassedInv, PassedNow, PassedBefore, PassedOutcome
  <2>3. CASE UNCHANGED entry
    BY <1>0, <2>2, <2>3, PassedEntryStays DEF PassedInv
  <2>4. CASE entry'.chi2 = chi2
    BY <1>1, <2>1, <2>2, <2>4 DEF PassedInv, PassedOutcome, PassedEntry
  <2> QED
    BY <1>7, <2>3, <2>4 DEF FillTree
<1>8. CASE UNCHANGED vars
  <2>1. UNCHANGED <<next, updated, tool, predictions, chi2, entry>>
    BY <1>8 DEF vars, results
  <2>2. Len(Steps(next))' = Len(Steps(next))
    BY <1>0, <2>1 DEF Steps
  <2>3. PassedNow' /\ PassedBefore' /\ PassedOutcome'
    BY <1>0, <1>1, <2>1, <2>2 DEF PassedInv, PassedNow, PassedBefore, PassedOutcome
  <2> QED
    BY <1>0, <2>1, <2>3, PassedEntryStays DEF PassedInv
<1> QED
  BY <1>3, <1>4, <1>5, <1>6, <1>7, <1>8 DEF Around, Dead, fvars

LEMMA PassedFinish ==
    ASSUME FileTypes, CarefulInv, PassedInv, Finish \/ Begin
    PROVE  PassedInv'
<1>0. next \in Calcs /\ UNCHANGED <<tool, updated, chi2, entry, chain>> /\ 0 \notin Calcs
  <2>1. 0 \notin Calcs
    BY DEF Calcs
  <2>2. CASE Finish
    BY <2>1, <2>2 DEF Finish, CalculateWith, Calculating, Goes, Leaves
  <2>3. CASE Begin
    BY <2>1, <2>3 DEF Begin, Calculating, vars, results
  <2> QED
    BY <2>2, <2>3
<1>1. \A i : TestsItself(i)' <=> TestsItself(i)
  BY <1>0, TestsStay
<1>2. Len(Steps(next)) \in Nat /\ FilesTypeOK /\ \A i \in Calcs : Len(Steps(i)) \in Nat
  BY <1>0, ChainTypes DEF FileTypes
<1>3. \A i \in Calcs : i \in Nat
  BY DEF Calcs
<1>4. CASE Begin
  <2>1. step' = 1 /\ UNCHANGED <<next, predictions>>
    BY <1>4 DEF Begin, vars, results
  <2>2. TestsItself(next) => Len(Steps(next)) # 0
    <3>1. Steps(next) \in Seq(StepSet)
      BY <1>0, <1>2, ChainTypes
    <3> QED
      BY <3>1 DEF TestsItself
  <2>3. PassedNow'
    <3>1. Len(Steps(next))' = Len(Steps(next))
      BY <1>0, <2>1 DEF Steps
    <3> QED
      BY <1>0, <1>1, <1>2, <2>1, <2>2, <3>1 DEF PassedNow
  <2> QED
    BY <1>0, <1>1, <2>1, <2>3, PassedEntryStays DEF PassedInv, PassedBefore, PassedOutcome
<1>5. CASE Finish
  <2>1. /\ step = Len(Steps(next)) + 1
        /\ step' = 0
        /\ next' = next + 1
        /\ predictions' = [predictions EXCEPT ![next] = held]
        /\ predictions \in [Calcs -> Held]
    BY <1>5 DEF Finish, CalculateWith, Goes, Leaves, FileTypes, TypeOK, Predictions
  <2>2. TestsItself(next) => held \notin Rejected
    BY <1>0, <2>1 DEF PassedInv, PassedNow
  <2>3. PassedBefore'
    <3>1. ASSUME NEW i \in Calcs, i < next + 1, TestsItself(i) PROVE predictions'[i] \notin Rejected
      <4>1. CASE i = next
        BY <2>1, <2>2, <3>1, <4>1
      <4>2. CASE i < next
        BY <2>1, <3>1, <4>2, <1>3, <1>0 DEF PassedInv, PassedBefore
      <4> QED
        BY <1>0, <1>3, <3>1, <4>1, <4>2
    <3> QED
      BY <1>1, <2>1, <3>1 DEF PassedBefore
  <2>4. PassedNow'
    <3>1. ASSUME next' \in Calcs PROVE step' # Len(Steps(next)') + 1
      <4>1. PICK after \in Calcs : after = next'
        BY <3>1
      <4>2. Len(Steps(after)) \in Nat /\ Steps(after)' = Steps(after)
        BY <1>0, <1>2 DEF Steps
      <4>3. Steps(next)' = Steps(after)
        BY <1>0, <4>1, <4>2 DEF Steps
      <4> QED
        BY <2>1, <4>2, <4>3
    <3> QED
      BY <3>1 DEF PassedNow
  <2>5. PassedOutcome'
    <3>1. next' # 0
      BY <1>0, <1>3, <2>1
    <3> QED
      BY <3>1 DEF PassedOutcome
  <2> QED
    BY <1>0, <2>3, <2>4, <2>5, PassedEntryStays DEF PassedInv
<1> QED
  BY <1>4, <1>5

LEMMA PassedSteps == FileTypes /\ CarefulInv /\ PassedInv /\ [FilesNext]_fvars => PassedInv'
<1> SUFFICES ASSUME FileTypes, CarefulInv, PassedInv, [FilesNext]_fvars PROVE PassedInv'
  OBVIOUS
<1>r. ASSUME NEW h, ThrowWith(h), Leaves PROVE PassedInv'
  <2>1. next' = 0 /\ UNCHANGED <<entry, chain>> /\ ~chi2'.finite
    BY <1>r DEF ThrowWith, Ends, Leaves, Infinite
  <2> QED
    BY <2>1, PassedEnds
<1>f. ASSUME Refuse PROVE PassedInv'
  BY <1>f, <1>r DEF Refuse
<1>a. ASSUME Abort PROVE PassedInv'
  <2>1. next' = 0 /\ UNCHANGED <<entry, chain>> /\ tool' = "dead"
    BY <1>a DEF Abort, Die, Leaves
  <2> QED
    BY <2>1, PassedEnds
<1>m. ASSUME NEW policy, Missing(policy) PROVE PassedInv'
  BY <1>m, <1>f, <1>a DEF Missing
<1>1. CASE Begin \/ Finish
  BY <1>1, PassedFinish
<1>2. CASE ClearFiles \/ WriteFiles \/ CopyFile
  BY <1>2, <1>a, PassedProceeds DEF ClearFiles, WriteFiles, CopyFile, Doing
<1>3. CASE RunEndsWell \/ RunFails \/ RunTimesOut \/ RunIsImpossible
  BY <1>3, <1>a, <1>f, PassedProceeds
     DEF RunEndsWell, RunFails, RunTimesOut, RunIsImpossible, Doing
<1>4. CASE ReadFiles
  BY <1>4, <1>m, PassedProceeds DEF ReadFiles, Take, Doing
<1>5. CASE CallLibrary
  BY <1>5, <1>m, <1>r, <1>a, PassedProceeds DEF CallLibrary, Take, Doing
<1>6. CASE TestPredictions
  BY <1>6, <1>f, PassedProceeds DEF TestPredictions, Doing
<1>7. CASE BeginEvaluation \/ Around \/ ReadForEver \/ UNCHANGED fvars
  BY <1>7, PassedAround DEF ReadForEver
<1> QED
  BY <1>1, <1>2, <1>3, <1>4, <1>5, <1>6, <1>7 DEF FilesNext, Calculation

\* The predictions a calculator leaves have passed the test it ends with,
\* whatever calculators and files are around it.
LEMMA PassedInvariant == FilesSpec => []PassedInv
<1>1. FilesInit => PassedInv
  <2> SUFFICES ASSUME FilesInit PROVE PassedInv
    OBVIOUS
  <2>1. next = 0 /\ updated = TRUE /\ entry = NoEntry
    BY DEF FilesInit, Init
  <2>2. 0 \notin Calcs /\ \A i \in Calcs : ~ (i < 0)
    BY DEF Calcs
  <2> QED
    BY <2>1, <2>2 DEF PassedInv, PassedNow, PassedBefore, PassedOutcome, PassedEntry
<1>2. FileTypes /\ CarefulInv /\ PassedInv /\ [FilesNext]_fvars => PassedInv'
  BY PassedSteps
<1> QED
  BY <1>1, <1>2, CarefulInvariant, PTL DEF FilesSpec

\* UnitarityIsRequired: in no model, wherever SARAHSPhenoSLHA stands in it and
\* whatever its program does, has a point that violates unitarity a finite chi2.
THEOREM UnitarityHolds == FilesSpec => []UnitarityIsRequired
<1>1. PassedInv => UnitarityIsRequired
  <2>1. ASSUME NEW i \in Calcs, chain[i] = SARAHSPhenoSLHA PROVE TestsItself(i)
    <3>1. Steps(i) = SARAHSPhenoSLHA.steps
      BY <2>1 DEF Steps
    <3> QED
      BY <3>1 DEF TestsItself, LastStep, SARAHSPhenoSLHA, Program, Write, Run, Read, Test, Step
  <2> QED
    BY <2>1 DEF PassedInv, PassedEntry, UnitarityIsRequired
<1> QED
  BY <1>1, PassedInvariant, PTL

-----------------------------------------------------------------------------
(***************************************************************************)
(* The calculators the Catalogue trusts are careful, each in its place.    *)
(***************************************************************************)
LEMMA StepFields ==
    ASSUME NEW op, NEW out, NEW in, NEW uses, NEW guards, NEW absent, NEW torn
    PROVE  /\ Step(op, out, in, uses, guards, absent, torn).op = op
           /\ Step(op, out, in, uses, guards, absent, torn).out = out
           /\ Step(op, out, in, uses, guards, absent, torn).in = in
           /\ Step(op, out, in, uses, guards, absent, torn).uses = uses
           /\ Step(op, out, in, uses, guards, absent, torn).guards = guards
           /\ Step(op, out, in, uses, guards, absent, torn).absent = absent
           /\ Step(op, out, in, uses, guards, absent, torn).torn = torn
BY DEF Step

\* What is removed before a step is fresh at it.
LEMMA RemovedIsFresh ==
    ASSUME NEW i \in Calcs, NEW k \in Nat, NEW m \in DOMAIN Steps(i), m < k,
           Steps(i)[m].op = "clear", NEW f \in Steps(i)[m].out \cap Files
    PROVE  f \in Fresh(i, k)
<1>1. i \in 1 .. i
  BY DEF Calcs
<1> QED
  BY <1>1 DEF Fresh

\* So is what CalculatorBase renames, of this calculator or of one before.
LEMMA RenamedIsFresh ==
    ASSUME NEW i \in Calcs, NEW k, NEW j \in 1 .. i, NEW f \in chain[j].clears \cap Files
    PROVE  f \in Fresh(i, k)
BY DEF Fresh

LEMMA SPhenoIsCareful ==
    ASSUME FilesTypeOK, NEW i \in Calcs, chain[i] = SPhenoSLHA
    PROVE  Careful(i)
<1>1. /\ Steps(i) = << Write({"LesHouches.in"}, Parameters),
                       Run({"SPheno.spc"}, {"LesHouches.in"}, {}, {"status", "timeout"}),
                       Read({"SPheno.spc"}, "throw", "keep") >>
      /\ chain[i].clears = {"LesHouches.in", "SPheno.spc"}
  BY DEF SPhenoSLHA, Program, Steps
<1>2. chain[i].clears \subseteq Files /\ i \in 1 .. i
  BY ChainTypes DEF Calcs
<1>3. ASSUME NEW k PROVE {"LesHouches.in", "SPheno.spc"} \subseteq Fresh(i, k)
  BY <1>1, <1>2, RenamedIsFresh
<1>4. /\ Len(Steps(i)) = 3
      /\ DOMAIN Steps(i) = {1, 2, 3}
      /\ Steps(i)[1] = Write({"LesHouches.in"}, Parameters)
      /\ Steps(i)[2] = Run({"SPheno.spc"}, {"LesHouches.in"}, {}, {"status", "timeout"})
      /\ Steps(i)[3] = Read({"SPheno.spc"}, "throw", "keep")
  BY <1>1
<1>5. CarefulStep(i, 1)
  BY <1>4, StepFields DEF CarefulStep, UsesFresh, HasSources, Write, Parameters
<1>6. CarefulStep(i, 2)
  BY <1>3, <1>4, StepFields DEF CarefulStep, UsesFresh, HasSources, Run
<1>7. CarefulStep(i, 3)
  BY <1>3, <1>4, StepFields DEF CarefulStep, UsesFresh, HasSources, Read, Fatal
<1>8. Predicted(i, Len(Steps(i)) + 1)
  BY <1>4, StepFields DEF Predicted, Read
<1> QED
  BY <1>4, <1>5, <1>6, <1>7, <1>8 DEF Careful

\* A calculator with one step that calculates or asks a library.
LEMMA OneStepIsCareful ==
    ASSUME FilesTypeOK, NEW i \in Calcs, NEW s, Steps(i) = << s >>,
           s.op \in {"read", "library"}, s.in = {}, HasSources(i, s),
           s.uses \subseteq {"parameters", "before"}, s.op = "library" => Fatal(s.torn)
    PROVE  Careful(i)
<1>1. Len(Steps(i)) = 1 /\ DOMAIN Steps(i) = {1} /\ Steps(i)[1] = s
  OBVIOUS
<1>2. CarefulStep(i, 1)
  BY <1>1 DEF CarefulStep, UsesFresh
<1>3. Predicted(i, Len(Steps(i)) + 1)
  BY <1>1 DEF Predicted
<1> QED
  BY <1>1, <1>2, <1>3 DEF Careful

LEMMA FormulasAreCareful ==
    ASSUME FilesTypeOK, NEW i \in Calcs,
           \/ chain[i] = Minimum
           \/ chain[i] = LHCNeuralNet
           \/ chain[i] = FeynHiggsRescaling /\ i > 1
    PROVE  Careful(i)
<1>1. CASE chain[i] = Minimum
  <2>1. Steps(i) = << Formula(Quantities) >>
    BY <1>1 DEF Minimum, FormulaOf, Program, Steps
  <2> QED
    BY <2>1, StepFields, OneStepIsCareful DEF Formula, HasSources, Quantities
<1>2. CASE chain[i] = LHCNeuralNet
  <2>1. Steps(i) = << Library({}, Quantities, "die", "die") >>
    BY <1>2 DEF LHCNeuralNet, Program, Steps
  <2> QED
    BY <2>1, StepFields, OneStepIsCareful DEF Library, HasSources, Quantities, Fatal
<1>3. CASE chain[i] = FeynHiggsRescaling /\ i > 1
  <2>1. Steps(i) = << Formula({"before"}) >>
    BY <1>3 DEF FeynHiggsRescaling, Program, Steps
  <2> QED
    BY <1>3, <2>1, StepFields, OneStepIsCareful DEF Formula, HasSources
<1> QED
  BY <1>1, <1>2, <1>3

LEMMA FeynHiggsIsCareful ==
    ASSUME FilesTypeOK, NEW i \in Calcs, chain[i] = FeynHiggs
    PROVE  Careful(i)
<1>1. Steps(i) = << Clear(FeynHiggsOutput) >> \o << Clear({"FeynHiggs.in"}),
                    PrintTo({"FeynHiggs.in"}, Quantities) >>
                    \o << Library({"FeynHiggs.in"}, {}, "throw", "throw") >>
  BY DEF FeynHiggs, FeynHiggsInput, FeynHiggsCalls, Program, Steps
<1>2. Len(Steps(i)) = 4
  BY <1>1
<1>3. DOMAIN Steps(i) = {1, 2, 3, 4}
  BY <1>2, ChainTypes
<1>4. /\ Steps(i)[1] = Clear(FeynHiggsOutput)
      /\ Steps(i)[2] = Clear({"FeynHiggs.in"})
      /\ Steps(i)[3] = PrintTo({"FeynHiggs.in"}, Quantities)
      /\ Steps(i)[4] = Library({"FeynHiggs.in"}, {}, "throw", "throw")
  BY <1>1
<1>5. "FeynHiggs.in" \in Files
  <2>1. Steps(i)[2] \in StepSet
    BY <1>3, ChainTypes
  <2> QED
    BY <1>4, <2>1, StepFields DEF StepSet, Clear
<1>6. "FeynHiggs.in" \in Fresh(i, 4)
  BY <1>3, <1>4, <1>5, StepFields, RemovedIsFresh DEF Clear
<1>7. CarefulStep(i, 1) /\ CarefulStep(i, 2)
  BY <1>4, StepFields DEF CarefulStep, Clear
<1>8. CarefulStep(i, 3)
  BY <1>4, StepFields DEF CarefulStep, UsesFresh, HasSources, PrintTo, Quantities
<1>9. CarefulStep(i, 4)
  BY <1>4, <1>6, StepFields DEF CarefulStep, UsesFresh, HasSources, Library, Fatal
<1>10. Predicted(i, Len(Steps(i)) + 1)
  BY <1>2, <1>3, <1>4, StepFields DEF Predicted, Library
<1> QED
  BY <1>3, <1>7, <1>8, <1>9, <1>10 DEF Careful

\* What FeynHiggs removes for itself it has to find removed; the spectrum it
\* reads is that of the SPheno before it.
LEMMA FeynHiggsSLHAIsCareful ==
    ASSUME FilesTypeOK, NEW i \in Calcs, chain[i] = FeynHiggsSLHA,
           NEW j \in 1 .. i - 1, chain[j] = SPhenoSLHA
    PROVE  Careful(i)
<1>1. Steps(i) = << Clear(FeynHiggsOutput) >>
                    \o << Library({"SPheno.spc"}, {}, "throw", "throw") >>
                    \o << Write({"FeynHiggs.spc"}, {"own"}),
                          Read({"SPheno.spc", "FeynHiggs.spc"}, "die", "keep"),
                          PrintTo({"SPheno_FeynHiggs.spc"}, {"own"}) >>
  BY DEF FeynHiggsSLHA, FeynHiggsCopies, FeynHiggsCalls, Program, Steps
<1>2. Len(Steps(i)) = 5
  BY <1>1
<1>3. DOMAIN Steps(i) = {1, 2, 3, 4, 5}
  BY <1>2, ChainTypes
<1>4. /\ Steps(i)[1] = Clear(FeynHiggsOutput)
      /\ Steps(i)[2] = Library({"SPheno.spc"}, {}, "throw", "throw")
      /\ Steps(i)[3] = Write({"FeynHiggs.spc"}, {"own"})
      /\ Steps(i)[4] = Read({"SPheno.spc", "FeynHiggs.spc"}, "die", "keep")
      /\ Steps(i)[5] = PrintTo({"SPheno_FeynHiggs.spc"}, {"own"})
  BY <1>1
<1>5. "SPheno.spc" \in Files /\ "FeynHiggs.spc" \in Files
  <2>1. Steps(i)[4] \in StepSet
    BY <1>3, ChainTypes
  <2> QED
    BY <1>4, <2>1, StepFields DEF StepSet, Read
<1>6. ASSUME NEW k PROVE "SPheno.spc" \in Fresh(i, k)
  <2>1. "SPheno.spc" \in chain[j].clears /\ j \in 1 .. i
    BY DEF SPhenoSLHA, Program, Calcs
  <2> QED
    BY <1>5, <2>1, RenamedIsFresh
<1>7. "FeynHiggs.spc" \in Fresh(i, 4)
  BY <1>3, <1>4, <1>5, StepFields, RemovedIsFresh DEF Clear, FeynHiggsOutput
<1>8. CarefulStep(i, 1)
  BY <1>4, StepFields DEF CarefulStep, Clear
<1>9. CarefulStep(i, 2)
  BY <1>4, <1>6, StepFields DEF CarefulStep, UsesFresh, HasSources, Library, Fatal
<1>10. ASSUME NEW k \in {3, 4, 5, 6} PROVE Predicted(i, k)
  BY <1>3, <1>4, StepFields DEF Predicted, Library
<1>11. CarefulStep(i, 3)
  BY <1>4, <1>10, StepFields DEF CarefulStep, UsesFresh, HasSources, Write
<1>12. CarefulStep(i, 4)
  BY <1>4, <1>6, <1>7, StepFields DEF CarefulStep, UsesFresh, HasSources, Read, Fatal
<1>13. CarefulStep(i, 5)
  BY <1>4, <1>10, StepFields DEF CarefulStep, UsesFresh, HasSources, PrintTo
<1> QED
  BY <1>2, <1>3, <1>8, <1>9, <1>10, <1>11, <1>12, <1>13 DEF Careful

\* TrustedIsCurrent: wherever the input file puts the trusted calculators, as
\* long as FeynHiggsSLHA comes after SPheno and FeynHiggsRescaling not first,
\* what they contribute to a finite chi2 is of the point beside it.  Without the
\* assumption the spectrum FeynHiggsSLHA reads may be that of any point.
THEOREM TrustedEntries == ASSUME WellOrdered PROVE FilesSpec => []TrustedIsCurrent
<1>1. ASSUME FileTypes, NEW i \in Calcs, \A j \in 1 .. i : chain[j] \in Trusted
      PROVE  CarefulUpTo(i)
  <2> SUFFICES ASSUME NEW j \in 1 .. i PROVE Careful(j)
    BY DEF CarefulUpTo
  <2>1. j \in Calcs /\ chain[j] \in Trusted /\ FilesTypeOK /\ chain \in Chains
    BY <1>1 DEF Calcs, FileTypes, FilesTypeOK
  <2>2. CASE chain[j] = FeynHiggsSLHA
    <3>1. PICK l \in 1 .. j - 1 : chain[l] = SPhenoSLHA
      BY <2>1, <2>2 DEF WellOrdered
    <3> QED
      BY <2>1, <2>2, <3>1, FeynHiggsSLHAIsCareful
  <2>3. CASE chain[j] = FeynHiggsRescaling
    BY <2>1, <2>3, FormulasAreCareful DEF WellOrdered
  <2> QED
    BY <2>1, <2>2, <2>3, SPhenoIsCareful, FeynHiggsIsCareful, FormulasAreCareful DEF Trusted
<1>2. FileTypes /\ CarefulInv => TrustedIsCurrent
  BY <1>1 DEF CarefulInv, CarefulIsCurrent, TrustedIsCurrent
<1> QED
  BY <1>2, CarefulInvariant, PTL
=============================================================================
