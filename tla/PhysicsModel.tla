---------------------------- MODULE PhysicsModel ----------------------------
(***************************************************************************)
(* kernel/src/ModelBase.cpp, CalculatorBase.cpp, Collection.h and          *)
(* models/src/PhysicsModel.cpp: a model is built from its input file, one  *)
(* calculator after the other, and then evaluated at one point after the   *)
(* other.  While it is built a calculator can bind only the quantities     *)
(* that are known by then; a name that is looked up when the calculator    *)
(* calculates may be anybody's.                                            *)
(*                                                                         *)
(* Points are counted: the number of a point is its position in "points",  *)
(* the first of which is the start of the input file.  Of a calculator the *)
(* model keeps the number of the oldest point its predictions depend on,   *)
(* 0 when it has never calculated.  (That a point's numbers may come from  *)
(* a file of an earlier one is the matter of FileCalculators.)             *)
(*                                                                         *)
(* The requirements of a calculator play no part: a PhysicsModel does not  *)
(* look at what Calculate returns, and the formulas have been updated by   *)
(* then.  Toys, which change what the measurements are, are left out.      *)
(***************************************************************************)
EXTENDS CalculatorFactory, Measurements, Observables

CONSTANTS
    Inputs,       \* the input files
    Libraries,    \* what Fittino was built with
    Start,        \* the value of the parameters in the input file
    MaxPoints     \* bound on the number of points, the start included

\* An input file, as far as its form goes: a Chi2Calculator asks for the predictions of
\* its measurements.
IsInput(file) ==
    /\ file.values \subseteq Int
    /\ file.nodes \in Seq(Range(file.nodes))
    /\ \A node \in Range(file.nodes) :
          /\ node.measurements \in Seq(MeasurementNodes)
          /\ node.correlations \in Seq(CorrelationNodes)
          /\ node.class = "Chi2Calculator" => {m.of : m \in Range(node.measurements)} \subseteq node.formulas
    /\ file.observables \in Seq(ObservableNodes)
    /\ file.matrices \in Seq(Seq(RowNodes))

ASSUME PhysicsAssumption ==
    /\ Start \in Int
    /\ MaxPoints \in Nat
    /\ \A file \in Inputs : IsInput(file)

VARIABLES
    input,        \* the input file
    pc,           \* "build", "ready", "evaluate", "refused" or "ended"
    calculators,  \* _calculators: the ones that have been created
    known,        \* the names of _collectionOfQuantities, and whose they are
    made,         \* the oldest point each calculator's predictions depend on
    inside,       \* the matrices of the calculators that have some
    points,       \* the values of the parameters, point by point
    next,         \* the calculator to run next
    chi2,         \* what _chi2 is since the latest evaluation
    squaredErrors, covariance, correlation, fit, inverse   \* of the observables

building == <<calculators, known>>
observing == <<squaredErrors, covariance, correlation, fit, inverse>>
vars == <<input, pc, building, made, inside, points, next, chi2, observing>>

ModelItself == {<<"", "Chi2">>, <<"", "RequirementsFullfilled">>}
Refuse == pc' = "refused"

-----------------------------------------------------------------------------
\* A parameter is of this point; a calculator that never calculated holds
\* whatever its memory held.  The model's own chi2 is, during an evaluation, the
\* one of the evaluation before, and 0 in the first.
OwnPoint == IF Len(points) > 2 THEN Len(points) - 1 ELSE 0
PointOf(owner) ==
    IF owner = 0 THEN Len(points)
    ELSE IF owner \in DOMAIN made THEN made[owner]
    ELSE OwnPoint
ValueOf(owner, memory) == IF PointOf(owner) = 0 THEN memory ELSE points[PointOf(owner)]
ValuesOf(quantities, memory) == [q \in quantities |-> ValueOf(known[q], memory)]
OldestPoint(quantities) == Min({Len(points)} \cup {PointOf(known[q]) : q \in quantities})

CalculateIn(node, state, memory) ==
    IF node.class = "Chi2Calculator"
    THEN CalculateChi2(node, state, ValuesOf({m.of : m \in Range(node.measurements)}, memory))
    ELSE [ok |-> TRUE, state |-> state]

-----------------------------------------------------------------------------
\* InitializeParameters, and an input file.
Init ==
    /\ input \in Inputs
    /\ pc = "build"
    /\ calculators = << >>
    /\ known = [q \in input.parameters |-> 0]
    /\ made = << >>
    /\ inside = << >>
    /\ points = <<Start>>
    /\ next = 1
    /\ chi2 = "none"
    /\ squaredErrors = << >>
    /\ covariance = << >>
    /\ correlation = << >>
    /\ fit = << >>
    /\ inverse = << >>

\* InitializeCalculators: the next node of the input file.
Node == input.nodes[Len(calculators) + 1]
Created == CreateCalculator(DOMAIN known, Node)
Building == pc = "build" /\ Len(calculators) < Len(input.nodes)

\* The names a constructor asks for are there; neither the tag nor the name of what
\* it adds is missing.
Constructible ==
    /\ Created.known
    /\ Created.libraries \subseteq Libraries
    /\ Created.calculator.binds \subseteq DOMAIN known
    /\ <<"", "">> \notin Created.calculator.publishes
    /\ Node.class = "Chi2Calculator" => ConfiguredMeasurements(Node)

\* Collection: nobody has added an element of that name.
NewNames == Created.calculator.publishes \cap DOMAIN known = {}

AddCalculator ==
    LET c == Created.calculator
        owner == Len(calculators) + 1
    IN  /\ Building
        /\ Constructible
        /\ NewNames
        /\ \E memory \in input.values :
              LET result == CalculateIn(Node, NotInverted, memory)
              IN  /\ result.ok
                  /\ inside' = Append(inside, result.state)
        /\ calculators' = Append(calculators, c)
        /\ known' = [q \in DOMAIN known \cup c.publishes |->
                       IF q \in c.publishes THEN owner ELSE known[q]]
        /\ made' = Append(made, IF c.atConstruction = "calculates" THEN OldestPoint(c.binds) ELSE 0)
        /\ UNCHANGED <<input, pc, points, next, chi2, observing>>

RefuseCalculator ==
    /\ Building
    /\ ~Constructible \/ ~NewNames \/ Created.calculator.refuses
    /\ Refuse
    /\ UNCHANGED <<input, building, made, inside, points, next, chi2, observing>>

\* No other exception of a constructor is caught: a program that fails, a matrix
\* that cannot be inverted.
ConstructorThrows ==
    /\ Building
    /\ Constructible
    /\ \/ Created.calculator.atConstruction = "starts"
       \/ \E memory \in input.values : ~CalculateIn(Node, NotInverted, memory).ok
    /\ pc' = "ended"
    /\ UNCHANGED <<input, building, made, inside, points, next, chi2, observing>>

\* The rest of the constructors: the predictions of the model itself, the collection of
\* the calculators, whose names are different, and the observables, of which no two
\* are of the same prediction.
Built == pc = "build" /\ Len(calculators) = Len(input.nodes)
Nameable ==
    /\ ModelItself \cap DOMAIN known = {}
    /\ DistinctNames(calculators)
    /\ \A i, j \in DOMAIN input.observables :
          input.observables[i].of = input.observables[j].of => i = j

Initialize ==
    LET obs == input.observables
        errors == [i \in DOMAIN obs |-> SquaredError(obs[i], obs[i].bestFit)]
        sorted == SortedMatrix(obs, input.matrices, errors)
    IN  /\ Built
        /\ Nameable
        /\ known' = [q \in DOMAIN known \cup ModelItself |->
                       IF q \in ModelItself THEN Len(calculators) + 1 ELSE known[q]]
        /\ squaredErrors' = errors
        /\ covariance' = sorted
        /\ correlation' = CorrelationMatrix(sorted)
        /\ fit' = InPlace(FitMatrix(obs, sorted))
        /\ inverse' = InverseOf(FitMatrix(obs, sorted))
        /\ pc' = "ready"
        /\ UNCHANGED <<input, calculators, made, inside, points, next, chi2>>

RefuseModel ==
    /\ Built
    /\ ~Nameable
    /\ Refuse
    /\ UNCHANGED <<input, building, made, inside, points, next, chi2, observing>>

-----------------------------------------------------------------------------
\* Somebody sets the parameters and asks for the chi2.  Mutant: the evaluation goes on
\* where the one before has ended.
BeginWhereItEnded ==
    /\ pc = "ready"
    /\ Len(points) < MaxPoints
    /\ \E value \in input.values : points' = Append(points, value)
    /\ pc' = "evaluate"
    /\ UNCHANGED <<input, building, made, inside, next, chi2, observing>>
BeginEvaluation ==
    /\ pc = "ready"
    /\ Len(points) < MaxPoints
    /\ \E value \in input.values : points' = Append(points, value)
    /\ next' = 1
    /\ pc' = "evaluate"
    /\ UNCHANGED <<input, building, made, inside, chi2, observing>>

Running == pc = "evaluate" /\ next \in DOMAIN calculators

\* What a calculator looks up by name is there, and found where it looks for it; what it
\* adds is new.
IsParameter(q) == known[q] = 0
NamesAreRight ==
    LET c == calculators[next]
    IN  /\ c.reads \subseteq DOMAIN known
        /\ c.inOrder \/ \A q, r \in c.reads : IsParameter(q) = IsParameter(r)
        /\ c.adds = {}

Asks(c) == c.binds \cup c.reads

Calculate ==
    /\ Running
    /\ NamesAreRight
    /\ LET result == CalculateIn(input.nodes[next], inside[next], Start)
       IN  /\ result.ok
           /\ inside' = [inside EXCEPT ![next] = result.state]
    /\ made' = [made EXCEPT ![next] = OldestPoint(Asks(calculators[next]))]
    /\ next' = next + 1
    /\ UNCHANGED <<input, pc, building, points, chi2, observing>>

\* A CalculatorException ends the evaluation, and the calculators behind keep what
\* they have.
CalculatorThrows ==
    /\ Running
    /\ NamesAreRight
    /\ LET result == CalculateIn(input.nodes[next], inside[next], Start)
       IN  /\ ~result.ok \/ (calculators[next].throws /\ UNCHANGED inside)
           /\ inside' = [inside EXCEPT ![next] = result.state]
    /\ chi2' = "infinite"
    /\ pc' = "ready"
    /\ UNCHANGED <<input, building, made, points, next, observing>>

\* A name that is not there or not looked for, or one that is there already: a
\* ConfigurationException, which no model expects.
NameIsWrong ==
    /\ Running
    /\ ~NamesAreRight
    /\ pc' = "ended"
    /\ UNCHANGED <<input, building, made, inside, points, next, chi2, observing>>

\* Observable::UpdatePrediction, then UpdateCovarianceMatrix when an observable that
\* is updated has a relative error.
UpdatedErrors ==
    [i \in DOMAIN input.observables |->
       LET o == input.observables[i]
       IN  IF IsRelative(o) /\ ~o.noUpdate
           THEN SquaredError(o, ValueOf(known[o.of], Start))
           ELSE squaredErrors[i]]

FinishEvaluation ==
    LET obs == input.observables
        cov == UpdatedCovariance(obs, covariance, correlation, UpdatedErrors)
    IN  /\ pc = "evaluate"
        /\ next = Len(calculators) + 1
        /\ squaredErrors' = UpdatedErrors
        /\ IF \E o \in Range(obs) : IsRelative(o) /\ ~o.noUpdate
           THEN /\ covariance' = cov
                /\ inverse' = InverseOf(UpdatedFit(obs, cov, fit))
                /\ fit' = InPlace(UpdatedFit(obs, cov, fit))
           ELSE UNCHANGED <<covariance, fit, inverse>>
        /\ chi2' = "finite"
        /\ pc' = "ready"
        /\ UNCHANGED <<input, building, made, inside, points, next, correlation>>

Next ==
    \/ AddCalculator
    \/ RefuseCalculator
    \/ ConstructorThrows
    \/ Initialize
    \/ RefuseModel
    \/ BeginEvaluation
    \/ Calculate
    \/ CalculatorThrows
    \/ NameIsWrong
    \/ FinishEvaluation

Spec == Init /\ [][Next]_vars

-----------------------------------------------------------------------------
Evaluated == pc = "ready" /\ chi2 = "finite"

\* A calculator is in order when it belongs to a group of calculators each of which asks
\* for nothing but parameters and predictions of earlier ones of the group.
Asked(i) == {known[q] : q \in Asks(calculators[i])} \ {0}
InOrder(i) ==
    \E group \in SUBSET DOMAIN calculators :
        /\ i \in group
        /\ \A j \in group : \A asked \in Asked(j) : asked < j /\ asked \in group

\* After an evaluation that went through, the predictions of a calculator are those of
\* this point, all the way back to the parameters, if it is in order; otherwise they
\* are not.  No order of failures and successes before it changes that: the binding
\* of names at construction is what makes the order of the calculators safe
\* (ModelBase::InitializeCalculators, FormulaQuantity, PhysicsModel::Evaluate).
ValuesAreOfThisPoint ==
    Evaluated => \A i \in DOMAIN calculators : made[i] = Len(points) <=> InOrder(i)

\* The matrices of the input file are squares, and name configured observables, each in
\* one row.
WellConfigured ==
    LET matrices == input.matrices
    IN  /\ \A m \in DOMAIN matrices :
              /\ matrices[m] # << >>
              /\ \A x \in DOMAIN matrices[m] :
                    /\ Len(matrices[m][x].columns) = Len(matrices[m])
                    /\ \E o \in Range(input.observables) : o.of = matrices[m][x].name
        /\ \A m, n \in DOMAIN matrices : \A x \in DOMAIN matrices[m], y \in DOMAIN matrices[n] :
              matrices[m][x].name = matrices[n][y].name => m = n /\ x = y

\* What the input file says of two observables, by their names alone.
RowOf(matrix, o) == CHOOSE x \in DOMAIN matrix : matrix[x].name = o.of
Names(matrix, o) == \E x \in DOMAIN matrix : matrix[x].name = o.of
IsCorrelated(o) == \E matrix \in Range(input.matrices) : Names(matrix, o)
ConfiguredEntry(a, b) ==
    IF IsCorrelated(a)
    THEN LET matrix == CHOOSE m \in Range(input.matrices) : Names(m, a)
         IN  IF Names(matrix, b) THEN matrix[RowOf(matrix, a)].columns[RowOf(matrix, b)] ELSE 0
    ELSE IF a = b THEN SquaredError(a, a.bestFit) ELSE 0

\* The covariance of two observables is the one the input file gives for their names, in
\* whatever order the matrices and the observables are written
\* (PhysicsModel::InitializeCovarianceMatrix).
ConfiguredCovariance ==
    pc = "ready" /\ Len(points) = 1 /\ WellConfigured =>
        \A i, j \in DOMAIN input.observables :
            covariance[i][j] = ConfiguredEntry(input.observables[i], input.observables[j])

\* The matrix whose inverse the chi2 of this point was calculated with: the configured
\* covariances, with the errors relative to the predictions of this very point,
\* although the matrix of the fit is inverted in place each time and refilled; or that
\* matrix itself, when it has no inverse, which nobody notices.  (Not
\* for a relative error of a correlated observable, which UpdateCovarianceMatrix gets
\* wrong, nor when a relative error meets one that is zero at the best fit, as it
\* is when the input file names none: the correlation is not a number then.)
HasError(o) == ConfiguredEntry(o, o) > 0
CurrentEntry(a, b) ==
    IF a = b /\ IsRelative(a)
    THEN SquaredError(a, IF a.noUpdate THEN a.bestFit ELSE ValueOf(known[a.of], Start))
    ELSE ConfiguredEntry(a, b)
FitInverseOfThisPoint ==
    Evaluated /\ WellConfigured
    /\ (\A o, q \in Range(input.observables) : IsRelative(o) => ~IsCorrelated(o) /\ HasError(q)) =>
        LET of == Fitted(input.observables)
        IN  inverse = InverseOf(Table(Len(of), LAMBDA x, y : Exact(
                                    CurrentEntry(input.observables[of[x]], input.observables[of[y]]))))

\* The observables are fitted with the covariances of the input file, before the first
\* point and at every point (PhysicsModel::InitializeCovarianceMatrix and
\* UpdateCovarianceMatrix).
ObservablesAsConfigured == ConfiguredCovariance /\ FitInverseOfThisPoint

\* The inverse a Chi2Calculator used is that of the covariance matrix of this point: it
\* is kept while the matrix stays the same, and made anew after every change and
\* after a matrix that could not be inverted.  (With at most one correlation of a
\* pair; a second one makes the matrix unsymmetric.)
Between(node, i, j) ==
    {c \in Range(node.correlations) : {FirstIndex(node, c), SecondIndex(node, c)} = {i, j}}
PointEntry(node, value, i, j) ==
    IF i = j THEN Variance(node.measurements[i], value)
    ELSE IF Between(node, i, j) = {} THEN 0
    ELSE Covariance(node, CHOOSE c \in Between(node, i, j) : TRUE, value)
Chi2InverseOfThisPoint ==
    Evaluated =>
        \A n \in DOMAIN calculators :
            LET node == input.nodes[n]
                value == ValuesOf({m.of : m \in Range(node.measurements)}, Start)
            IN  node.class = "Chi2Calculator" /\ node.correlations # << >> =>
                    \A i, j \in DOMAIN node.measurements :
                        Cardinality(Between(node, i, j)) <= 1 =>
                            inside[n].inverseOf[i][j] = PointEntry(node, value, i, j)

=============================================================================
