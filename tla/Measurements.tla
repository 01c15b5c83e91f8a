----------------------------- MODULE Measurements -----------------------------
(***************************************************************************)
(* calculators/src/Chi2Calculator.cpp, Measurement.cpp, Correlation.cpp:   *)
(* the covariance matrix a Chi2Calculator builds anew at each point, and   *)
(* the inverse it keeps as long as the matrix stays the same.              *)
(*                                                                         *)
(* A measurement has a prediction and a sequence of uncertainties; each is *)
(* a number, or that number times the prediction, and the ones with a name *)
(* can be correlated with those of the same name of another measurement.   *)
(* An inverse is represented by the matrix it is the inverse of.           *)
(***************************************************************************)
EXTENDS Integers, SequencesExt

\* A quantity is a pair of its tag and its name.
UncertaintyNodes == [name : STRING, size : Int, relative : BOOLEAN]
MeasurementNodes == [name : STRING, of : STRING \X STRING, uncertainties : Seq(UncertaintyNodes)]
CorrelationNodes == [name : STRING, between : STRING \X STRING, value : Int]

NoMatrix == << >>
Matrix(n, entry(_, _)) == [i \in 1 .. n |-> [j \in 1 .. n |-> entry(i, j)]]

\* "of" says what the measurement's prediction is, "value" what it amounts to now.
Uncertainty(u, prediction) == IF u.relative THEN u.size * prediction ELSE u.size
Variance(m, value) ==
    FoldLeft(LAMBDA sum, u : sum + Uncertainty(u, value[m.of]) * Uncertainty(u, value[m.of]),
             0, m.uncertainties)

\* The first of that name.
NamedUncertainty(m, name, value) ==
    LET index == Min({i \in DOMAIN m.uncertainties : m.uncertainties[i].name = name})
    IN  Uncertainty(m.uncertainties[index], value[m.of])
HasUncertainty(m, name) == \E u \in Range(m.uncertainties) : u.name = name

GetIndex(node, name) == CHOOSE i \in DOMAIN node.measurements : node.measurements[i].name = name
FirstIndex(node, c) == Min({GetIndex(node, c.between[1]), GetIndex(node, c.between[2])})
SecondIndex(node, c) == Max({GetIndex(node, c.between[1]), GetIndex(node, c.between[2])})

Covariance(node, c, value) ==
    c.value * NamedUncertainty(node.measurements[FirstIndex(node, c)], c.name, value)
            * NamedUncertainty(node.measurements[SecondIndex(node, c)], c.name, value)

-----------------------------------------------------------------------------
\* Measurements have names of their own, and so have the uncertainties of one.  A
\* correlation is between two measurements that have an uncertainty of its name,
\* and no two of one name are between the same pair.
DistinctNames(s) == \A i, j \in DOMAIN s : s[i].name = s[j].name => i = j
ConfiguredCorrelation(node, c) ==
    /\ \A name \in Range(c.between) : name \in {m.name : m \in Range(node.measurements)}
    /\ c.between[1] # c.between[2]
    /\ \A i \in {FirstIndex(node, c), SecondIndex(node, c)} : HasUncertainty(node.measurements[i], c.name)
SameCorrelation(node, c, d) ==
    c.name = d.name /\ Range(c.between) = Range(d.between)
ConfiguredMeasurements(node) ==
    /\ DistinctNames(node.measurements)
    /\ \A m \in Range(node.measurements) :
          DistinctNames(SelectSeq(m.uncertainties, LAMBDA u : u.name # ""))
    /\ \A i \in DOMAIN node.correlations :
          /\ ConfiguredCorrelation(node, node.correlations[i])
          /\ \A j \in DOMAIN node.correlations :
                SameCorrelation(node, node.correlations[i], node.correlations[j]) => i = j

-----------------------------------------------------------------------------
Diagonal(node, value) ==
    Matrix(Len(node.measurements),
           LAMBDA i, j : IF i = j THEN Variance(node.measurements[i], value) ELSE 0)

\* The upper half first; the lower half adds what is there by now.
AddCorrelation(node, matrix, c, value) ==
    LET i == FirstIndex(node, c)
        j == SecondIndex(node, c)
        upper == matrix[i][j] + Covariance(node, c, value)
    IN  [matrix EXCEPT ![i][j] = upper, ![j][i] = @ + upper]

\* With the correlations up to each of them, in their order.
Correlated(node, value) ==
    LET matrix[n \in 0 .. Len(node.correlations)] ==
          IF n = 0 THEN Diagonal(node, value)
          ELSE AddCorrelation(node, matrix[n - 1], node.correlations[n], value)
    IN  matrix
CovarianceMatrix(node, value) == Correlated(node, value)[Len(node.correlations)]

\* For two measurements; the correlated ones of the instances are no more.
Singular(matrix) ==
    Len(matrix) = 2 /\ matrix[1][1] * matrix[2][2] = matrix[1][2] * matrix[2][1]

-----------------------------------------------------------------------------
NotInverted == [cov |-> NoMatrix, inverted |-> FALSE, inverseOf |-> NoMatrix]

\* Mutant: the inverse of the first point is kept.
KeepsInverseAlways(state, cov) == state.inverted
KeepsInverse(state, cov) == state.inverted /\ cov = state.cov

\* CalculatePredictions: what becomes of the matrices, and whether the matrix could
\* be inverted.  Without correlations none is.
CalculateChi2(node, state, value) ==
    LET cov == CovarianceMatrix(node, value)
    IN  IF node.correlations = << >>
        THEN [ok |-> TRUE, state |-> [state EXCEPT !.cov = cov]]
        ELSE IF KeepsInverse(state, cov)
        THEN [ok |-> TRUE, state |-> [state EXCEPT !.cov = cov]]
        ELSE IF Singular(cov)
        THEN [ok |-> FALSE, state |-> [cov |-> cov, inverted |-> FALSE, inverseOf |-> NoMatrix]]
        ELSE [ok |-> TRUE, state |-> [cov |-> cov, inverted |-> TRUE, inverseOf |-> cov]]

=============================================================================
