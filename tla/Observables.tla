------------------------------ MODULE Observables ------------------------------
(***************************************************************************)
(* models/src/PhysicsModel.cpp, models/src/Observable.cpp: how the         *)
(* covariance matrix of the observables is made of the matrices of the     *)
(* input file, and what becomes of it when an uncertainty is relative to a *)
(* prediction.                                                             *)
(*                                                                         *)
(* Uncertainties are integers, and enter as their squares; a correlation   *)
(* coefficient is a number of halves, unless an error is zero.  An inverse *)
(* is represented by the matrix it is the inverse of, if it has one: ROOT  *)
(* leaves a matrix that it cannot invert as it was.                        *)
(***************************************************************************)
EXTENDS Integers, SequencesExt

CONSTANTS
    NotANumber,   \* zero divided by zero, and whatever is made of it
    NotInvertible(_)  \* TMatrixDSym::Invert cannot invert this matrix

ASSUME NotANumberAssumption == NotANumber \notin Int

\* A quantity is a pair of its tag and its name.
ObservableNodes ==
    [of : STRING \X STRING, error : Int, relative : Int, bestFit : Int, noFit : BOOLEAN, noUpdate : BOOLEAN]
RowNodes == [name : STRING \X STRING, columns : Seq(Int)]

Square(x) == x * x
\* Its whole part.
SquareRoot(x) == CHOOSE r \in 0 .. x : Square(r) <= x /\ x < Square(r + 1)

Table(n, entry(_, _)) == [i \in 1 .. n |-> [j \in 1 .. n |-> entry(i, j)]]

\* The numbers up to n that are in S, in their order.
Ascending(n, S) ==
    LET upTo[i \in 0 .. n] ==
            IF i = 0 THEN << >>
            ELSE IF i \in S THEN Append(upTo[i - 1], i) ELSE upTo[i - 1]
    IN  upTo[n]

\* _measuredError, squared, for a value of the prediction.
SquaredError(o, prediction) == Square(o.error) + Square(o.relative * prediction)
IsRelative(o) == o.relative > 0

-----------------------------------------------------------------------------
\* InitializeCovarianceMatrix.  Its first part reads the matrices row by row and
\* gives the observables they name their index, the first time one is named.
RowsUpTo(matrices) ==
    LET rows[m \in 0 .. Len(matrices)] ==
            IF m = 0 THEN << >> ELSE rows[m - 1] \o matrices[m]
    IN  rows
RowsOf(matrices) == RowsUpTo(matrices)[Len(matrices)]

NamesOfRows(matrices) ==
    LET rows == RowsOf(matrices)
        names[x \in 0 .. Len(rows)] ==
            IF x = 0 THEN << >>
            ELSE IF Contains(names[x - 1], rows[x].name) THEN names[x - 1]
                 ELSE Append(names[x - 1], rows[x].name)
    IN  names[Len(rows)]

\* The observables no matrix names follow, in their order.  Mutant: all of them are in
\* their order.
Others(observables, matrices) ==
    Ascending(Len(observables),
              {i \in DOMAIN observables : ~Contains(NamesOfRows(matrices), observables[i].of)})
IndexOfObservables(observables, matrices) == [i \in DOMAIN observables |-> observables[i].of]
IndexOfNames(observables, matrices) ==
    LET others == Others(observables, matrices)
    IN  NamesOfRows(matrices) \o [k \in DOMAIN others |-> observables[others[k]].of]

\* The matrix that has the x-th row, and what rows are before it: at most one matrix is
\* left behind at each row.
ActiveMatrices(matrices, n) ==
    LET active[x \in 0 .. n] ==
            IF x = 0 THEN [matrix |-> 1, offset |-> 0]
            ELSE LET a == active[x - 1]
                     nRows == Len(matrices[a.matrix])
                 IN  IF x - a.offset > nRows
                     THEN [matrix |-> IF a.matrix < Len(matrices) THEN a.matrix + 1 ELSE a.matrix,
                           offset |-> a.offset + nRows]
                     ELSE a
    IN  active

\* The matrices one after the other along the diagonal.  What a row does not say is zero.
UnorderedEntry(matrices, active, x, y) ==
    LET correlated == Len(RowsOf(matrices))
        matrix == matrices[active[x].matrix]
        row == x - active[x].offset
        column == y - active[x].offset
    IN  IF /\ matrices # << >>
           /\ x <= correlated /\ y <= correlated
           /\ row \in DOMAIN matrix /\ column \in DOMAIN matrix
           /\ column \in DOMAIN matrix[row].columns
        THEN matrix[row].columns[column]
        ELSE 0

\* Then the squared errors of the others.
UnorderedMatrix(observables, matrices, squaredErrors) ==
    LET correlated == Len(RowsOf(matrices))
        others == Others(observables, matrices)
        active == ActiveMatrices(matrices, Len(observables))
    IN  Table(Len(observables),
              LAMBDA x, y : IF x = y /\ x - correlated \in DOMAIN others
                            THEN squaredErrors[others[x - correlated]]
                            ELSE UnorderedEntry(matrices, active, x, y))

\* In the order of the observables.
SortedMatrix(observables, matrices, squaredErrors) ==
    LET unordered == UnorderedMatrix(observables, matrices, squaredErrors)
        names == IndexOfNames(observables, matrices)
        index == [i \in DOMAIN observables |->
                    CHOOSE x \in DOMAIN names : names[x] = observables[i].of]
    IN  Table(Len(observables), LAMBDA i, j : unordered[index[i]][index[j]])

\* A covariance divided by the two errors.
Coefficient(covariance, variance1, variance2) ==
    IF variance1 > 0 /\ variance2 > 0
    THEN (2 * covariance) \div SquareRoot(variance1 * variance2)
    ELSE NotANumber

CorrelationMatrix(covariance) ==
    Table(Len(covariance),
          LAMBDA i, j : Coefficient(covariance[i][j], covariance[i][i], covariance[j][j]))

-----------------------------------------------------------------------------
\* The observables the fit uses, and their part of the matrix.  ROOT inverts a
\* matrix in place: afterwards it holds its own inverse, or what it held.
Fitted(observables) ==
    Ascending(Len(observables), {i \in DOMAIN observables : ~observables[i].noFit})

Exact(n) == [exact |-> TRUE, entry |-> n]
OfInverse == [exact |-> FALSE, entry |-> 0]
InPlace(fit) == IF NotInvertible(fit) THEN fit ELSE Table(Len(fit), LAMBDA x, y : OfInverse)
InverseOf(fit) == [of |-> fit, inverted |-> ~NotInvertible(fit)]

FitMatrix(observables, covariance) ==
    LET of == Fitted(observables)
    IN  Table(Len(of), LAMBDA x, y : Exact(covariance[of[x]][of[y]]))

\* UpdateCovarianceMatrix: both errors are the one of the first observable.
UpdatedCovariance(observables, covariance, correlation, squaredErrors) ==
    Table(Len(observables),
          LAMBDA i, j : IF ~IsRelative(observables[i]) /\ ~IsRelative(observables[j])
                        THEN covariance[i][j]
                        ELSE IF correlation[i][j] = NotANumber THEN NotANumber
                        ELSE (correlation[i][j] * squaredErrors[i]) \div 2)

\* Mutant: only the entries that have changed are copied into the matrix of the fit.
UpdatedFitWhereChanged(observables, covariance, fit) ==
    LET of == Fitted(observables)
    IN  Table(Len(of),
              LAMBDA x, y : IF IsRelative(observables[of[x]]) \/ IsRelative(observables[of[y]])
                            THEN Exact(covariance[of[x]][of[y]])
                            ELSE fit[x][y])
UpdatedFit(observables, covariance, fit) == FitMatrix(observables, covariance)

=============================================================================
