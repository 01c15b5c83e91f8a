--------------------------- MODULE PhysicsProofs ---------------------------
(***************************************************************************)
(* What PhysicsModel keeps, whatever is in the input file: the predictions *)
(* of a calculator are of this point exactly when it is in order, the      *)
(* inverse a Chi2Calculator keeps is that of the matrix of this point, and *)
(* the observables are fitted with the configured covariances.             *)
(***************************************************************************)
EXTENDS PhysicsModel, SequenceTheorems, FiniteSetTheorems, WellFoundedInduction, TLAPS

-----------------------------------------------------------------------------
\* A set of numbers has a least one.
LEMMA LeastNumber ==
    ASSUME NEW T \in SUBSET Nat, T # {}
    PROVE  \E n \in T : \A m \in T : n <= m
<1> DEFINE R == StrictSubsetOrdering(Nat)
           F == FiniteSubsetsOf(Nat)
           U == {1 .. n : n \in T}
<1>1. IsWellFoundedOn(R, F)
  BY FS_StrictSubsetOrderingWellFounded
<1>2. U \subseteq F
  BY FS_Interval DEF FiniteSubsetsOf
<1>3. U # {}
  OBVIOUS
<1>4. \E x \in U : \A y \in U : ~(<<y, x>> \in R)
  <2> HIDE DEF R, F, U
  <2> QED
    BY <1>1, <1>2, <1>3, WFMin
<1>5. PICK n \in T : \A m \in T : ~(<<1 .. m, 1 .. n>> \in R)
  BY <1>4
<1>6. ASSUME NEW m \in T, m < n PROVE FALSE
  <2>1. 1 .. m \subseteq 1 .. n /\ n \in 1 .. n /\ n \notin 1 .. m
    BY <1>6
  <2>2. 1 .. m \in SUBSET Nat /\ 1 .. n \in SUBSET Nat
    OBVIOUS
  <2>3. <<1 .. m, 1 .. n>> \in R
    BY <2>1, <2>2 DEF StrictSubsetOrdering
  <2> QED
    BY <1>5, <2>3
<1> QED
  BY <1>6
\* What is put behind a sequence of anything.
Listed(s) == s \in Seq(Range(s))

LEMMA FunctionIsSeq ==
    ASSUME NEW S, NEW n \in Nat, NEW f \in [1 .. n -> S]
    PROVE  f \in Seq(S)
OBVIOUS

LEMMA Appending ==
    ASSUME NEW s, Listed(s), NEW e
    PROVE  /\ Listed(Append(s, e))
           /\ Len(s) \in Nat
           /\ Len(Append(s, e)) = Len(s) + 1
           /\ DOMAIN Append(s, e) = 1 .. Len(s) + 1
           /\ \A i \in 1 .. Len(s) : Append(s, e)[i] = s[i]
           /\ Append(s, e)[Len(s) + 1] = e
<1> DEFINE S == Range(s) \cup {e}
           t == Append(s, e)
<1>1. s \in Seq(S)
  <2>1. s \in Seq(Range(s))
    BY DEF Listed
  <2> HIDE DEF S
  <2>2. Range(s) \subseteq S
    BY DEF S
  <2> QED
    BY <2>1, <2>2
<1>2. e \in S
  OBVIOUS
<1> HIDE DEF S
<1>3. /\ t \in Seq(S)
      /\ Len(t) = Len(s) + 1
      /\ \A i \in 1 .. Len(s) : t[i] = s[i]
      /\ t[Len(s) + 1] = e
  BY <1>1, <1>2, AppendProperties
<1>4. Len(s) \in Nat /\ DOMAIN t = 1 .. Len(s) + 1
  BY <1>1, <1>3, LenProperties
<1>5. t \in Seq(Range(t))
  <2> HIDE DEF t
  <2>1. \A i \in 1 .. Len(t) : t[i] \in Range(t)
    BY <1>3, <1>4 DEF Range
  <2> QED
    BY <1>3, <2>1
<1> QED
  BY <1>3, <1>4, <1>5 DEF Listed

-----------------------------------------------------------------------------
(***************************************************************************)
(* The points the predictions are of.  While a model is evaluated, of the  *)
(* calculators that have run those are of this point that ask only for     *)
(* parameters and for earlier calculators that are; those to come are of   *)
(* an earlier point.                                                       *)
(***************************************************************************)
Fresh(i) == made[i] = Len(points)
FollowsAsked(i) ==
    /\ Asks(calculators[i]) \subseteq DOMAIN known
    /\ Fresh(i) <=> \A asked \in Asked(i) : asked < i /\ Fresh(asked)
RunUpTo(n) ==
    \A i \in DOMAIN calculators : IF i < n THEN FollowsAsked(i) ELSE made[i] < Len(points)

Form ==
    /\ IsInput(input)
    /\ Listed(calculators)
    /\ made \in Seq(Nat) /\ Len(made) = Len(calculators)
    /\ points \in Seq(Int) /\ points # << >>
    /\ \A i \in DOMAIN made : made[i] <= Len(points)

\* While the model is built nobody is asked for but parameters and calculators that
\* are there, and what a calculator binds belongs to an earlier one.
Owners ==
    /\ known \in [DOMAIN known -> 0 .. Len(calculators) + 1]
    /\ pc = "build" => \A q \in DOMAIN known : known[q] <= Len(calculators)
    /\ \A i \in DOMAIN calculators : \A q \in calculators[i].binds : q \in DOMAIN known /\ known[q] < i

Stage ==
    /\ pc = "build" => chi2 = "none"
    /\ pc = "evaluate" => next \in 1 .. Len(calculators) + 1 /\ RunUpTo(next)
    /\ Evaluated => RunUpTo(Len(calculators) + 1)

PointsInv == Form /\ Owners /\ Stage

\* The least of a set of numbers.
LEMMA MinIsLeast ==
    ASSUME NEW S \in SUBSET Nat, S # {}
    PROVE  Min(S) \in S /\ \A x \in S : Min(S) <= x
BY LeastNumber DEF Min

\* Nothing is of a later point than the latest, and of that one are the parameters
\* and the calculators that are.
LEMMA PointsOfOwners ==
    ASSUME Form, NEW owner
    PROVE  /\ PointOf(owner) \in 0 .. Len(points)
           /\ PointOf(owner) = Len(points) <=> owner = 0 \/ (owner \in DOMAIN made /\ Fresh(owner))
<1>1. Len(points) \in Nat \ {0}
  BY EmptySeq, LenProperties DEF Form
<1>2. CASE owner = 0
  BY <1>1, <1>2 DEF PointOf
<1>3. CASE owner # 0 /\ owner \in DOMAIN made
  <2>1. made[owner] \in Nat /\ made[owner] <= Len(points)
    BY <1>3 DEF Form
  <2> QED
    BY <1>1, <1>3, <2>1 DEF PointOf, Fresh
<1>4. CASE owner # 0 /\ owner \notin DOMAIN made
  <2>1. OwnPoint \in 0 .. Len(points) - 1
    BY <1>1 DEF OwnPoint
  <2>2. PointOf(owner) = OwnPoint
    BY <1>4 DEF PointOf
  <2> QED
    BY <1>1, <1>4, <2>1, <2>2
<1> QED
  BY <1>2, <1>3, <1>4

\* What a calculator makes is of this point when everything it asks for is.
LEMMA OldestIsLeast ==
    ASSUME Form, NEW quantities
    PROVE  /\ OldestPoint(quantities) \in 0 .. Len(points)
           /\ OldestPoint(quantities) = Len(points)
                <=> \A q \in quantities : PointOf(known[q]) = Len(points)
<1> DEFINE S == {Len(points)} \cup {PointOf(known[q]) : q \in quantities}
<1>1. Len(points) \in Nat \ {0}
  BY EmptySeq, LenProperties DEF Form
<1>2. \A q \in quantities : PointOf(known[q]) \in 0 .. Len(points)
  BY PointsOfOwners
<1>3. S \in SUBSET (0 .. Len(points))
  BY <1>1, <1>2
<1>4. OldestPoint(quantities) \in S /\ \A x \in S : OldestPoint(quantities) <= x
  <2>1. S \in SUBSET Nat /\ S # {}
    BY <1>3
  <2>2. OldestPoint(quantities) = Min(S)
    BY DEF OldestPoint
  <2> HIDE DEF S
  <2> QED
    BY <2>1, <2>2, MinIsLeast
<1> QED
  BY <1>1, <1>2, <1>3, <1>4

-----------------------------------------------------------------------------
LEMMA PointsBegin == Init => PointsInv
<1> SUFFICES ASSUME Init PROVE PointsInv
  OBVIOUS
<1>1. /\ input \in Inputs /\ pc = "build" /\ calculators = << >> /\ made = << >>
      /\ known = [q \in input.parameters |-> 0] /\ points = <<Start>> /\ chi2 = "none"
  BY DEF Init
<1>2. Start \in Int /\ IsInput(input)
  BY <1>1, PhysicsAssumption
<1>3. Form
  BY <1>1, <1>2 DEF Form, Listed
<1>4. Owners
  BY <1>1 DEF Owners
<1>5. Stage
  BY <1>1 DEF Stage, Evaluated
<1> QED
  BY <1>3, <1>4, <1>5 DEF PointsInv

\* A calculator that is created is put behind the others, and so is what it makes.
LEMMA PointsOfAdded ==
    ASSUME PointsInv, AddCalculator
    PROVE  PointsInv'
<1> DEFINE c == Created.calculator
           n == Len(calculators)
<1> USE DEF PointsInv
<1>1. /\ pc = "build" /\ Constructible /\ NewNames
      /\ calculators' = Append(calculators, c)
      /\ known' = [q \in DOMAIN known \cup c.publishes |-> IF q \in c.publishes THEN n + 1 ELSE known[q]]
      /\ made' = Append(made, IF c.atConstruction = "calculates" THEN OldestPoint(c.binds) ELSE 0)
      /\ UNCHANGED <<input, pc, points, chi2>>
  BY DEF AddCalculator, Building
<1>2. /\ Listed(calculators') /\ n \in Nat /\ Len(calculators') = n + 1
      /\ DOMAIN calculators' = 1 .. n + 1
      /\ \A i \in 1 .. n : calculators'[i] = calculators[i]
      /\ calculators'[n + 1] = c
  <2> HIDE DEF c
  <2> QED
    BY <1>1, Appending DEF Form
<1>3. DOMAIN calculators = 1 .. n
  BY DEF Form, Listed
<1>4. Form'
  <2>1. PICK m : m = IF c.atConstruction = "calculates" THEN OldestPoint(c.binds) ELSE 0
    OBVIOUS
  <2>2. Len(points) \in Nat /\ m \in 0 .. Len(points)
    BY <2>1, OldestIsLeast, LenProperties DEF Form
  <2> HIDE DEF c
  <2>3. made' = Append(made, m) /\ made \in Seq(Nat) /\ Len(made) = n
    BY <1>1, <2>1 DEF Form
  <2>4. /\ made' \in Seq(Nat) /\ Len(made') = n + 1
        /\ \A i \in 1 .. n : made'[i] = made[i]
        /\ made'[n + 1] = m
    BY <2>2, <2>3, AppendProperties
  <2>5. DOMAIN made = 1 .. n /\ DOMAIN made' = 1 .. n + 1
    BY <1>2, <2>3, <2>4, LenProperties
  <2>6. \A i \in DOMAIN made' : made'[i] <= Len(points)
    BY <1>2, <2>2, <2>4, <2>5 DEF Form
  <2> QED
    BY <1>1, <1>2, <2>4, <2>6 DEF Form
<1>5. Owners'
  <2>1. \A q \in DOMAIN known : known[q] \in 0 .. n
    BY <1>1, <1>2 DEF Owners
  <2>2. c.binds \subseteq DOMAIN known /\ c.publishes \cap DOMAIN known = {}
    BY <1>1 DEF Constructible, NewNames
  <2> HIDE DEF c
  <2>3. \A q \in DOMAIN known : q \in DOMAIN known' /\ known'[q] = known[q]
    BY <1>1, <2>2
  <2>4. \A q \in DOMAIN known' : known'[q] \in 0 .. n + 1
    BY <1>1, <1>2, <2>1
  <2>5. known' \in [DOMAIN known' -> 0 .. (n + 1) + 1]
    <3>1. known' = [q \in DOMAIN known' |-> known'[q]]
      BY <1>1
    <3>2. \A q \in DOMAIN known' : known'[q] \in 0 .. (n + 1) + 1
      BY <1>2, <2>4
    <3> QED
      BY <3>1, <3>2
  <2>6. ASSUME NEW i \in 1 .. n + 1, NEW q \in calculators'[i].binds
        PROVE  q \in DOMAIN known' /\ known'[q] < i
    <3>1. CASE i = n + 1
      BY <1>2, <2>1, <2>2, <2>3, <2>6, <3>1
    <3>2. CASE i \in 1 .. n
      BY <1>2, <1>3, <2>3, <2>6, <3>2 DEF Owners
    <3> QED
      BY <1>2, <2>6, <3>1, <3>2
  <2> QED
    BY <1>2, <2>4, <2>5, <2>6 DEF Owners
<1>6. Stage'
  <2>1. pc' = "build" /\ chi2' = "none"
    BY <1>1 DEF Stage
  <2> QED
    BY <2>1 DEF Stage, Evaluated
<1> QED
  BY <1>4, <1>5, <1>6

\* The predictions of the model itself are asked for while it is evaluated only.
LEMMA PointsOfInitialized ==
    ASSUME PointsInv, Initialize
    PROVE  PointsInv'
<1> DEFINE n == Len(calculators)
<1> USE DEF PointsInv
<1>1. /\ pc = "build" /\ pc' = "ready" /\ ModelItself \cap DOMAIN known = {}
      /\ known' = [q \in DOMAIN known \cup ModelItself |-> IF q \in ModelItself THEN n + 1 ELSE known[q]]
      /\ UNCHANGED <<input, calculators, made, points, chi2>>
  BY DEF Initialize, Built, Nameable
<1>2. n \in Nat
  BY LenProperties DEF Form, Listed
<1>3. Form'
  BY <1>1 DEF Form
<1>4. Owners'
  <2>1. \A q \in DOMAIN known : known[q] \in 0 .. n
    BY <1>1, <1>2 DEF Owners
  <2>2. \A q \in DOMAIN known : q \in DOMAIN known' /\ known'[q] = known[q]
    BY <1>1
  <2>3. known' \in [DOMAIN known' -> 0 .. n + 1]
    <3>1. known' = [q \in DOMAIN known' |-> known'[q]]
      BY <1>1
    <3>2. \A q \in DOMAIN known' : known'[q] \in 0 .. n + 1
      BY <1>1, <1>2, <2>1
    <3> QED
      BY <3>1, <3>2
  <2> QED
    BY <1>1, <2>2, <2>3 DEF Owners
<1>5. Stage'
  BY <1>1 DEF Stage, Evaluated
<1> QED
  BY <1>3, <1>4, <1>5

\* A new point comes: nothing is of this point yet.
LEMMA PointsOfBegun ==
    ASSUME PointsInv, BeginEvaluation
    PROVE  PointsInv'
<1> USE DEF PointsInv
<1>1. PICK value \in input.values : points' = Append(points, value)
  BY DEF BeginEvaluation
<1>2. /\ pc' = "evaluate" /\ next' = 1
      /\ UNCHANGED <<input, calculators, known, made, chi2>>
  BY DEF BeginEvaluation, building
<1>3. /\ points' \in Seq(Int) /\ points' # << >>
      /\ Len(points) \in Nat /\ Len(points') = Len(points) + 1
  <2>1. value \in Int
    BY DEF Form, IsInput
  <2> QED
    BY <1>1, <2>1, AppendProperties, LenProperties, EmptySeq DEF Form
<1>4. \A i \in DOMAIN made : made[i] \in Nat /\ made[i] <= Len(points)
  BY DEF Form
<1>5. Form'
  BY <1>2, <1>3, <1>4 DEF Form
<1>6. Owners'
  BY <1>2 DEF Owners
<1>7. Stage'
  <2>1. Len(calculators) \in Nat /\ DOMAIN calculators = 1 .. Len(calculators)
        /\ DOMAIN made = DOMAIN calculators
    BY LenProperties DEF Form, Listed
  <2>2. RunUpTo(1)'
    BY <1>2, <1>3, <1>4, <2>1 DEF RunUpTo
  <2> QED
    BY <1>2, <2>1, <2>2 DEF Stage, Evaluated
<1> QED
  BY <1>5, <1>6, <1>7

\* The next calculator calculates.
LEMMA PointsOfCalculated ==
    ASSUME PointsInv, Calculate
    PROVE  PointsInv'
<1> DEFINE n == Len(calculators)
           m == OldestPoint(Asks(calculators[next]))
<1> USE DEF PointsInv
<1>1. /\ pc = "evaluate" /\ next \in DOMAIN calculators
      /\ calculators[next].reads \subseteq DOMAIN known
      /\ made' = [made EXCEPT ![next] = m]
      /\ next' = next + 1
      /\ UNCHANGED <<input, pc, calculators, known, points, chi2>>
  BY DEF Calculate, Running, NamesAreRight, building
<1>2. /\ n \in Nat /\ DOMAIN calculators = 1 .. n /\ DOMAIN made = 1 .. n
      /\ Len(points) \in Nat
  BY LenProperties DEF Form, Listed
<1>3. next \in 1 .. n
  BY <1>1, <1>2
<1>4. m \in 0 .. Len(points)
  BY OldestIsLeast
<1> HIDE DEF m
<1>5. /\ DOMAIN made' = 1 .. n /\ made'[next] = m
      /\ \A i \in 1 .. n : i # next => made'[i] = made[i]
  BY <1>1, <1>2, <1>3
<1>6. Form'
  <2>1. made \in [1 .. n -> Nat]
    BY <1>2 DEF Form
  <2>2. made' \in [1 .. n -> Nat]
    BY <1>1, <1>3, <1>4, <2>1
  <2>3. made' \in Seq(Nat) /\ Len(made') = n
    BY <1>2, <2>2, LenProperties
  <2>4. \A i \in 1 .. n : made'[i] <= Len(points)
    BY <1>2, <1>4, <1>5 DEF Form
  <2> QED
    BY <1>1, <1>2, <2>2, <2>3, <2>4 DEF Form
<1>7. Owners'
  BY <1>1 DEF Owners
<1>8. PICK x : x = next
  OBVIOUS
<1>9. RunUpTo(x + 1)'
  <2>1. RunUpTo(x)
    BY <1>1, <1>8 DEF Stage
  <2>2. Asks(calculators[x]) \subseteq DOMAIN known
    BY <1>1, <1>8 DEF Asks, Owners
  <2>3. FollowsAsked(x)'
    <3>1. m = Len(points) <=> \A q \in Asks(calculators[x]) : PointOf(known[q]) = Len(points)
      BY <1>8, OldestIsLeast DEF m
    <3>2. ASSUME NEW q \in Asks(calculators[x])
          PROVE  PointOf(known[q]) = Len(points)
                   <=> known[q] = 0 \/ (known[q] < x /\ Fresh(known[q])')
      <4>1. known[q] \in 0 .. n + 1
        BY <1>2, <2>2, <3>2 DEF Owners
      <4>2. PointOf(known[q]) = Len(points) <=> known[q] = 0 \/ (known[q] \in 1 .. n /\ Fresh(known[q]))
        BY <1>2, PointsOfOwners
      <4>3. ASSUME known[q] \in 1 .. n, known[q] >= x PROVE ~Fresh(known[q])
        <5>1. made[known[q]] < Len(points) /\ made[known[q]] \in Nat
          BY <1>2, <1>3, <1>8, <2>1, <4>3 DEF RunUpTo, Form
        <5> QED
          BY <1>2, <5>1 DEF Fresh
      <4>4. ASSUME known[q] \in 1 .. n, known[q] < x PROVE Fresh(known[q])' <=> Fresh(known[q])
        BY <1>1, <1>3, <1>8, <1>5, <4>4 DEF Fresh
      <4> QED
        BY <1>2, <1>3, <1>8, <4>1, <4>2, <4>3, <4>4
    <3>3. Fresh(x)' <=> m = Len(points)
      BY <1>1, <1>5, <1>8 DEF Fresh
    <3>4. Fresh(x)' <=> \A asked \in Asked(x)' : asked < x /\ Fresh(asked)'
      BY <1>1, <3>1, <3>2, <3>3 DEF Asked
    <3> QED
      BY <1>1, <2>2, <3>4 DEF FollowsAsked
  <2>4. ASSUME NEW i \in 1 .. n, i < x PROVE FollowsAsked(i)'
    <3>1. FollowsAsked(i)
      BY <1>2, <2>1, <2>4 DEF RunUpTo
    <3>2. Fresh(i)' <=> Fresh(i)
      BY <1>1, <1>3, <1>8, <1>5, <2>4 DEF Fresh
    <3>3. ASSUME NEW asked \in Asked(i)
          PROVE  (asked < i /\ Fresh(asked)') <=> (asked < i /\ Fresh(asked))
      <4>1. asked \in 1 .. n + 1
        BY <1>2, <3>1 DEF FollowsAsked, Asked, Owners
      <4>2. asked < i => made'[asked] = made[asked]
        BY <1>2, <1>3, <1>8, <1>5, <2>4, <4>1
      <4> QED
        BY <1>1, <4>2 DEF Fresh
    <3> QED
      BY <1>1, <3>1, <3>2, <3>3 DEF FollowsAsked, Asked
  <2>5. ASSUME NEW i \in 1 .. n, i > x PROVE made'[i] < Len(points)
    <3>1. made'[i] = made[i]
      BY <1>3, <1>8, <1>5, <2>5
    <3>2. ~(i < x)
      BY <1>3, <1>8, <2>5
    <3> QED
      BY <1>2, <2>1, <3>1, <3>2 DEF RunUpTo
  <2>6. ASSUME NEW i \in 1 .. n
        PROVE  IF i < x + 1 THEN FollowsAsked(i)' ELSE made'[i] < Len(points)
    <3>1. i < x \/ i = x \/ i > x
      BY <1>3, <1>8
    <3>2. i < x + 1 <=> i < x \/ i = x
      BY <1>3, <1>8
    <3>3. ~(i > x /\ (i < x \/ i = x))
      BY <1>3, <1>8
    <3> QED
      BY <2>3, <2>4, <2>5, <3>1, <3>2, <3>3
  <2> QED
    BY <1>1, <1>2, <2>6 DEF RunUpTo
<1>10. Stage'
  BY <1>1, <1>2, <1>3, <1>8, <1>9 DEF Stage, Evaluated
<1> QED
  BY <1>6, <1>7, <1>10

\* An evaluation goes through when everybody has run.
LEMMA PointsOfFinished ==
    ASSUME PointsInv, FinishEvaluation
    PROVE  PointsInv'
<1> USE DEF PointsInv
<1>1. /\ pc = "evaluate" /\ pc' = "ready" /\ next = Len(calculators) + 1
      /\ UNCHANGED <<input, calculators, known, made, points>>
  BY DEF FinishEvaluation, building
<1>2. Form'
  BY <1>1 DEF Form
<1>3. Owners'
  BY <1>1 DEF Owners
<1>4. PICK n : n = Len(calculators) + 1
  OBVIOUS
<1>5. RunUpTo(n)
  BY <1>1, <1>4 DEF Stage
<1>6. RunUpTo(n)'
  BY <1>1, <1>5 DEF RunUpTo, FollowsAsked, Fresh, Asked
<1>7. Stage'
  BY <1>1, <1>4, <1>6 DEF Stage
<1> QED
  BY <1>2, <1>3, <1>7

\* No other step touches the predictions, and none is followed by a chi2 that is.
OtherStep ==
    RefuseCalculator \/ ConstructorThrows \/ RefuseModel \/ CalculatorThrows \/ NameIsWrong \/ UNCHANGED vars

LEMMA PointsOfOthers ==
    ASSUME PointsInv, OtherStep
    PROVE  PointsInv'
<1> USE DEF PointsInv
<1>1. /\ UNCHANGED <<input, calculators, known, made, points, next>>
      /\ pc' \in {"refused", "ended"} \/ (pc' = "ready" /\ chi2' = "infinite") \/ UNCHANGED <<pc, chi2>>
  BY DEF OtherStep, RefuseCalculator, ConstructorThrows, RefuseModel, CalculatorThrows, NameIsWrong,
         Refuse, building, vars
<1>2. Form'
  BY <1>1 DEF Form
<1>3. Owners'
  <2>1. pc' = "build" => pc = "build"
    BY <1>1
  <2> QED
    BY <1>1, <2>1 DEF Owners
<1>4. Stage'
  <2>1. ASSUME NEW n, RunUpTo(n) PROVE RunUpTo(n)'
    BY <1>1, <2>1 DEF RunUpTo, FollowsAsked, Fresh, Asked
  <2>2. CASE pc' \in {"refused", "ended"} \/ (pc' = "ready" /\ chi2' = "infinite")
    BY <2>2 DEF Stage, Evaluated
  <2>3. CASE UNCHANGED <<pc, chi2>>
    <3>1. PICK n, x : n = Len(calculators) + 1 /\ x = next
      OBVIOUS
    <3>2. /\ pc = "evaluate" => x \in 1 .. n /\ RunUpTo(x)
          /\ Evaluated => RunUpTo(n)
      BY <3>1 DEF Stage
    <3>3. /\ pc = "evaluate" => x \in 1 .. n /\ RunUpTo(x)'
          /\ Evaluated => RunUpTo(n)'
      BY <2>1, <3>2
    <3>4. n = Len(calculators') + 1 /\ x = next'
      BY <1>1, <3>1
    <3> QED
      BY <1>1, <2>3, <3>3, <3>4 DEF Stage, Evaluated
  <2> QED
    BY <1>1, <2>2, <2>3
<1> QED
  BY <1>2, <1>3, <1>4

\* The points of the predictions are kept: every step of the model, whatever was
\* refused, thrown or finished before it.
THEOREM PredictionsKeepTheirPoints == Spec => []PointsInv
<1>1. Init => PointsInv
  BY PointsBegin
<1>2. PointsInv /\ [Next]_vars => PointsInv'
  BY PointsOfAdded, PointsOfInitialized, PointsOfBegun, PointsOfCalculated, PointsOfFinished,
     PointsOfOthers DEF Next, OtherStep
<1> QED
  BY <1>1, <1>2, PTL DEF Spec

\* Those that are of this point form a group in order; and of a group in order the
\* first that is not of this point would ask only for what is.
LEMMA FreshIsInOrder ==
    ASSUME PointsInv, Evaluated, NEW i \in DOMAIN calculators
    PROVE  Fresh(i) <=> InOrder(i)
<1> DEFINE n == Len(calculators)
<1>1. n \in Nat /\ DOMAIN calculators = 1 .. n
  BY LenProperties DEF PointsInv, Form, Listed
<1>2. \A j \in 1 .. n : FollowsAsked(j)
  <2>1. RunUpTo(n + 1)
    BY DEF PointsInv, Stage
  <2>2. \A j \in 1 .. n : j < n + 1
    BY <1>1
  <2> QED
    BY <1>1, <2>1, <2>2 DEF RunUpTo
<1>3. \A j \in 1 .. n : \A asked \in Asked(j) : asked \in 1 .. n + 1
  BY <1>1, <1>2 DEF FollowsAsked, Asked, PointsInv, Owners
<1>4. ASSUME Fresh(i) PROVE InOrder(i)
  <2> DEFINE group == {j \in 1 .. n : Fresh(j)}
  <2>1. i \in group /\ group \in SUBSET DOMAIN calculators
    BY <1>1, <1>4
  <2>2. ASSUME NEW j \in group, NEW asked \in Asked(j)
        PROVE  asked < j /\ asked \in group
    <3>1. asked < j /\ Fresh(asked)
      BY <1>2, <2>2 DEF FollowsAsked
    <3>2. asked \in 1 .. n
      BY <1>1, <1>3, <2>2, <3>1
    <3> QED
      BY <3>1, <3>2
  <2> HIDE DEF group
  <2> QED
    BY <2>1, <2>2 DEF InOrder
<1>5. ASSUME InOrder(i) PROVE Fresh(i)
  <2>1. PICK group \in SUBSET DOMAIN calculators :
            /\ i \in group
            /\ \A j \in group : \A asked \in Asked(j) : asked < j /\ asked \in group
    BY <1>5 DEF InOrder
  <2> DEFINE late == {j \in group : ~Fresh(j)}
  <2>2. ASSUME late # {} PROVE FALSE
    <3>1. late \in SUBSET Nat
      BY <1>1
    <3>2. PICK j \in late : \A k \in late : j <= k
      <4> HIDE DEF late
      <4> QED
        BY <2>2, <3>1, LeastNumber
    <3>3. ASSUME NEW asked \in Asked(j) PROVE asked < j /\ Fresh(asked)
      <4>1. asked < j /\ asked \in group /\ asked \in 1 .. n + 1
        BY <1>1, <1>3, <2>1, <3>2, <3>3
      <4> QED
        BY <1>1, <3>1, <3>2, <4>1
    <3>4. j \in 1 .. n
      BY <1>1, <3>2
    <3> QED
      BY <1>2, <3>2, <3>3, <3>4 DEF FollowsAsked
  <2> QED
    BY <2>1, <2>2
<1> QED
  BY <1>4, <1>5

\* For every input file and every order of failures and successes: after an evaluation
\* that went through, the predictions that are of this point are those of the
\* calculators in order.
THEOREM PredictionsAreOfThisPoint == Spec => []ValuesAreOfThisPoint
<1>1. PointsInv => ValuesAreOfThisPoint
  BY FreshIsInOrder DEF ValuesAreOfThisPoint, Fresh
<1> QED
  BY <1>1, PredictionsKeepTheirPoints, PTL

-----------------------------------------------------------------------------
(***************************************************************************)
(* The inverses of the calculators of a chi2.  One that is kept is always  *)
(* that of the matrix kept with it; and the matrix of a calculator that    *)
(* has run is that of this point, because what it measures was made by     *)
(* earlier calculators, which do not run again.                            *)
(***************************************************************************)
IsChi2(node) == node.class = "Chi2Calculator" /\ node.correlations # << >>
Measured(node) == {m.of : m \in Range(node.measurements)}

IsState(state) ==
    state = [cov |-> state.cov, inverted |-> state.inverted, inverseOf |-> state.inverseOf]
Keeps(state) == IsState(state) /\ (state.inverted => state.inverseOf = state.cov)

InvertedNow(n) ==
    /\ inside[n].inverted
    /\ inside[n].cov = CovarianceMatrix(input.nodes[n], ValuesOf(Measured(input.nodes[n]), Start))
InvertedUpTo(n) == \A i \in DOMAIN calculators : i < n /\ IsChi2(input.nodes[i]) => InvertedNow(i)

Configured ==
    /\ Len(calculators) <= Len(input.nodes)
    /\ \A i \in DOMAIN calculators :
          input.nodes[i].class = "Chi2Calculator" =>
              /\ ConfiguredMeasurements(input.nodes[i])
              /\ Measured(input.nodes[i]) \subseteq calculators[i].binds
Kept ==
    /\ Listed(inside) /\ Len(inside) = Len(calculators)
    /\ \A i \in DOMAIN calculators : IsChi2(input.nodes[i]) => Keeps(inside[i])
Inverting ==
    /\ pc = "evaluate" => InvertedUpTo(next)
    /\ Evaluated => InvertedUpTo(Len(calculators) + 1)

InverseInv == Configured /\ Kept /\ Inverting

LEMMA NotInvertedKeeps == Keeps(NotInverted) /\ IsState(NotInverted)
BY DEF Keeps, IsState, NotInverted

\* What becomes of the matrices when the chi2 is calculated.
LEMMA InversionKeeps ==
    ASSUME NEW node, NEW state, NEW value, node.correlations # << >>, Keeps(state)
    PROVE  LET result == CalculateChi2(node, state, value)
           IN  /\ Keeps(result.state)
               /\ result.ok => result.state.inverted /\ result.state.cov = CovarianceMatrix(node, value)
<1> DEFINE cov == CovarianceMatrix(node, value)
           result == CalculateChi2(node, state, value)
           kept == [state EXCEPT !.cov = cov]
<1> HIDE DEF cov
<1>1. CASE KeepsInverse(state, cov)
  <2>1. result = [ok |-> TRUE, state |-> kept]
    BY <1>1 DEF CalculateChi2, cov
  <2>2. kept.cov = cov /\ kept.inverted = state.inverted /\ kept.inverseOf = state.inverseOf /\ IsState(kept)
    BY DEF Keeps, IsState
  <2>3. state.inverted /\ state.inverseOf = cov
    BY <1>1 DEF KeepsInverse, Keeps
  <2> HIDE DEF kept, result
  <2>4. Keeps(result.state) /\ result.state.inverted /\ result.state.cov = cov
    <3>1. result.state = kept
      BY <2>1
    <3> QED
      BY <2>2, <2>3, <3>1 DEF Keeps
  <2> QED
    BY <2>4 DEF result, cov
<1>2. CASE ~KeepsInverse(state, cov) /\ Singular(cov)
  <2>1. result = [ok |-> FALSE, state |-> [cov |-> cov, inverted |-> FALSE, inverseOf |-> NoMatrix]]
    BY <1>2 DEF CalculateChi2, cov
  <2> HIDE DEF result
  <2>2. Keeps(result.state) /\ ~result.ok
    BY <2>1 DEF Keeps, IsState
  <2> QED
    BY <2>2 DEF result
<1>3. CASE ~KeepsInverse(state, cov) /\ ~Singular(cov)
  <2>1. result = [ok |-> TRUE, state |-> [cov |-> cov, inverted |-> TRUE, inverseOf |-> cov]]
    BY <1>3 DEF CalculateChi2, cov
  <2> HIDE DEF result
  <2>2. Keeps(result.state) /\ result.state.inverted /\ result.state.cov = cov
    BY <2>1 DEF Keeps, IsState
  <2> QED
    BY <2>2 DEF result, cov
<1> QED
  BY <1>1, <1>2, <1>3

\* A Chi2Calculator asks for its formulas.
LEMMA Chi2Binds ==
    ASSUME NEW names, NEW node, node.class = "Chi2Calculator"
    PROVE  CreateCalculator(names, node).calculator.binds = node.formulas
<1>1. CreateCalculator(names, node) = With({}, Chi2Calculator(node))
  BY DEF CreateCalculator, CreateAToG
<1>2. CreateCalculator(names, node).calculator = Chi2Calculator(node)
  BY <1>1 DEF With
<1>3. PICK name, tag, out : SetName(node, "Chi2Calculator",
                {"Chi2", "CorrelatedChi2"} \cup
                    IF node.makes = {} THEN {} ELSE {"Measurement_*", "Deviation_*", "Pull_*", "Chi2_*"})
              = Calculator(name, tag, out)
  BY DEF SetName
<1>4. Chi2Calculator(node) = Calculating(Binding(node.formulas, Calculator(name, tag, out)))
  BY <1>3 DEF Chi2Calculator
<1>5. Calculating(Binding(node.formulas, Calculator(name, tag, out))).binds = node.formulas
  BY DEF Calculating, Binding, Calculator
<1> QED
  BY <1>2, <1>4, <1>5

\* The values of what earlier calculators have made stay while later ones calculate.
LEMMA ValuesStay ==
    ASSUME UNCHANGED <<known, points>>, DOMAIN made' = DOMAIN made, NEW quantities,
           \A q \in quantities : known[q] \in DOMAIN made => made'[known[q]] = made[known[q]]
    PROVE  ValuesOf(quantities, Start)' = ValuesOf(quantities, Start)
<1>1. ASSUME NEW q \in quantities PROVE PointOf(known[q])' = PointOf(known[q])
  BY <1>1 DEF PointOf, OwnPoint
<1>2. ASSUME NEW q \in quantities PROVE ValueOf(known[q], Start)' = ValueOf(known[q], Start)
  BY <1>1, <1>2 DEF ValueOf
<1> QED
  BY <1>2 DEF ValuesOf

LEMMA InversesBegin == Init => InverseInv
<1> SUFFICES ASSUME Init PROVE InverseInv
  OBVIOUS
<1>1. pc = "build" /\ calculators = << >> /\ inside = << >> /\ IsInput(input)
  BY PhysicsAssumption DEF Init
<1>2. Len(input.nodes) \in Nat
  <2>1. input.nodes \in Seq(Range(input.nodes))
    BY <1>1 DEF IsInput
  <2> QED
    BY <2>1, LenProperties
<1> QED
  BY <1>1, <1>2 DEF InverseInv, Configured, Kept, Inverting, Listed, Evaluated

LEMMA InversesOfAdded ==
    ASSUME PointsInv, InverseInv, AddCalculator
    PROVE  InverseInv'
<1> DEFINE n == Len(calculators)
           c == Created.calculator
<1>1. /\ pc = "build" /\ n < Len(input.nodes) /\ Constructible
      /\ calculators' = Append(calculators, c)
      /\ UNCHANGED <<input, pc, chi2>>
  BY DEF AddCalculator, Building
<1>2. PICK state, memory : /\ state = CalculateIn(Node, NotInverted, memory).state
                           /\ inside' = Append(inside, state)
  BY DEF AddCalculator
<1>3. /\ n \in Nat /\ Len(calculators') = n + 1
      /\ DOMAIN calculators = 1 .. n /\ DOMAIN calculators' = 1 .. n + 1
      /\ \A i \in 1 .. n : calculators'[i] = calculators[i]
      /\ calculators'[n + 1] = c
  <2> HIDE DEF c
  <2> QED
    BY <1>1, Appending, LenProperties DEF PointsInv, Form, Listed
<1>4. /\ Listed(inside') /\ Len(inside') = n + 1
      /\ \A i \in 1 .. n : inside'[i] = inside[i]
      /\ inside'[n + 1] = state
  BY <1>2, <1>3, Appending DEF InverseInv, Kept
<1>5. Node = input.nodes[n + 1] /\ Node \in Range(input.nodes) /\ Len(input.nodes) \in Nat
  <2>1. input.nodes \in Seq(Range(input.nodes))
    BY DEF PointsInv, Form, IsInput
  <2>2. Len(input.nodes) \in Nat /\ DOMAIN input.nodes = 1 .. Len(input.nodes)
    BY <2>1, LenProperties
  <2>3. n + 1 \in DOMAIN input.nodes
    BY <1>1, <1>3, <2>2
  <2> QED
    BY <2>2, <2>3 DEF Node, Range
<1>6. Node.class = "Chi2Calculator" => ConfiguredMeasurements(Node) /\ Measured(Node) \subseteq c.binds
  <2> SUFFICES ASSUME Node.class = "Chi2Calculator"
               PROVE  ConfiguredMeasurements(Node) /\ Measured(Node) \subseteq c.binds
    OBVIOUS
  <2>1. c.binds = Node.formulas
    BY Chi2Binds DEF Created
  <2>2. Measured(Node) \subseteq Node.formulas
    BY <1>5 DEF PointsInv, Form, IsInput, Measured
  <2> QED
    BY <1>1, <2>1, <2>2 DEF Constructible
<1>7. IsChi2(Node) => Keeps(state)
  BY <1>2, InversionKeeps, NotInvertedKeeps DEF IsChi2, CalculateIn
<1> HIDE DEF c
<1>8. Configured'
  BY <1>1, <1>3, <1>5, <1>6 DEF InverseInv, Configured
<1>9. Kept'
  BY <1>1, <1>3, <1>4, <1>5, <1>7 DEF InverseInv, Kept
<1>10. Inverting'
  <2>1. pc' = "build" /\ chi2' = "none"
    BY <1>1 DEF PointsInv, Stage
  <2> QED
    BY <2>1 DEF Inverting, Evaluated
<1> QED
  BY <1>8, <1>9, <1>10 DEF InverseInv

\* What a calculator of a chi2 does, in a step of its evaluation.
LEMMA InversesOfRun ==
    ASSUME PointsInv, InverseInv, next \in DOMAIN calculators, UNCHANGED <<input, calculators>>,
           inside' = [inside EXCEPT ![next] =
                         CalculateIn(input.nodes[next], inside[next], Start).state]
    PROVE  Configured' /\ Kept'
<1> DEFINE state == CalculateIn(input.nodes[next], inside[next], Start).state
           n == Len(calculators)
<1>1. n \in Nat /\ DOMAIN calculators = 1 .. n /\ inside \in Seq(Range(inside)) /\ Len(inside) = n
  BY LenProperties DEF PointsInv, Form, Listed, InverseInv, Kept
<1>2. DOMAIN inside = 1 .. n
  BY <1>1, LenProperties
<1>3. IsChi2(input.nodes[next]) => Keeps(state)
  BY InversionKeeps DEF IsChi2, CalculateIn, InverseInv, Kept
<1> HIDE DEF state
<1>4. /\ DOMAIN inside' = 1 .. n /\ inside'[next] = state
      /\ \A i \in 1 .. n : i # next => inside'[i] = inside[i]
      /\ inside' = [i \in 1 .. n |-> inside'[i]]
  BY <1>1, <1>2 DEF state
<1>5. Listed(inside') /\ Len(inside') = n
  <2>1. \A i \in 1 .. n : inside'[i] \in Range(inside')
    BY <1>4 DEF Range
  <2>2. inside' \in [1 .. n -> Range(inside')]
    BY <1>4, <2>1
  <2>3. inside' \in Seq(Range(inside'))
    <3> DEFINE S == Range(inside')
    <3> HIDE DEF S
    <3>1. inside' \in [1 .. n -> S]
      BY <2>2 DEF S
    <3>2. inside' \in Seq(S)
      BY <1>1, <3>1, FunctionIsSeq
    <3> QED
      BY <3>2 DEF S
  <2> QED
    BY <1>1, <1>4, <2>3, LenProperties DEF Listed
<1>6. ASSUME NEW i \in 1 .. n, IsChi2(input.nodes[i]) PROVE Keeps(inside'[i])
  <2>1. CASE i = next
    BY <1>3, <1>4, <1>6, <2>1
  <2>2. CASE i # next
    BY <1>1, <1>4, <1>6, <2>2 DEF InverseInv, Kept
  <2> QED
    BY <2>1, <2>2
<1> QED
  BY <1>1, <1>5, <1>6 DEF InverseInv, Configured, Kept

\* What a Chi2Calculator measures belongs to parameters and to calculators before it.
LEMMA MeasuredIsEarlier ==
    ASSUME PointsInv, InverseInv, NEW i \in DOMAIN calculators, input.nodes[i].class = "Chi2Calculator",
           NEW q \in Measured(input.nodes[i])
    PROVE  q \in DOMAIN known /\ known[q] \in 0 .. Len(calculators) + 1 /\ known[q] < i
BY DEF PointsInv, Owners, InverseInv, Configured

LEMMA InversesOfCalculated ==
    ASSUME PointsInv, InverseInv, Calculate
    PROVE  InverseInv'
<1> DEFINE n == Len(calculators)
<1>1. PICK x : x = next
  OBVIOUS
<1>2. /\ pc = "evaluate" /\ x \in DOMAIN calculators
      /\ UNCHANGED <<input, pc, calculators, known, points, chi2>>
      /\ next' = x + 1
      /\ made' = [made EXCEPT ![x] = OldestPoint(Asks(calculators[x]))]
  BY <1>1 DEF Calculate, Running, building
<1>3. LET result == CalculateIn(input.nodes[x], inside[x], Start)
      IN  result.ok /\ inside' = [inside EXCEPT ![x] = result.state]
  BY <1>1 DEF Calculate
<1>4. /\ n \in Nat /\ DOMAIN calculators = 1 .. n /\ DOMAIN made = 1 .. n /\ x \in 1 .. n
      /\ DOMAIN inside = 1 .. n
  BY <1>2, LenProperties DEF PointsInv, Form, Listed, InverseInv, Kept
<1>5. Configured' /\ Kept'
  BY <1>1, <1>2, <1>3, InversesOfRun
<1>6. InvertedUpTo(x)
  BY <1>1, <1>2 DEF InverseInv, Inverting
<1>7. ASSUME NEW i \in 1 .. n, i <= x, IsChi2(input.nodes[i])
      PROVE  ValuesOf(Measured(input.nodes[i]), Start)' = ValuesOf(Measured(input.nodes[i]), Start)
  <2>1. PICK Q : Q = Measured(input.nodes[i])
    OBVIOUS
  <2>2. \A q \in Q : known[q] \in DOMAIN made => made'[known[q]] = made[known[q]]
    <3>1. \A q \in Q : known[q] \in 0 .. n + 1 /\ known[q] < i
      BY <1>4, <1>7, <2>1, MeasuredIsEarlier DEF IsChi2
    <3>2. \A j \in DOMAIN made : j # x => made'[j] = made[j]
      BY <1>2, <1>4
    <3> QED
      BY <1>4, <1>7, <3>1, <3>2
  <2>3. DOMAIN made' = DOMAIN made
    BY <1>2
  <2>4. ValuesOf(Q, Start)' = ValuesOf(Q, Start)
    BY <1>2, <2>2, <2>3, ValuesStay
  <2> QED
    BY <1>2, <2>1, <2>4
<1>8. ASSUME NEW i \in 1 .. n, i < x + 1, IsChi2(input.nodes[i])
      PROVE  InvertedNow(i)'
  <2>1. i <= x
    BY <1>4, <1>8
  <2>2. PICK node, values : node = input.nodes[i] /\ values = ValuesOf(Measured(node), Start)
    OBVIOUS
  <2>3. node = (input.nodes[i])' /\ values = ValuesOf(Measured(node), Start)'
    BY <1>2, <1>7, <1>8, <2>1, <2>2
  <2>4. inside'[i].inverted /\ inside'[i].cov = CovarianceMatrix(node, values)
    <3>1. CASE i = x
      <4>1. PICK result : result = CalculateChi2(node, inside[i], values)
        OBVIOUS
      <4>2. CalculateIn(input.nodes[x], inside[x], Start) = result
        BY <1>8, <2>2, <3>1, <4>1 DEF CalculateIn, IsChi2, Measured
      <4>3. result.ok /\ inside'[i] = result.state
        BY <1>3, <1>4, <3>1, <4>2
      <4>4. node.correlations # << >> /\ Keeps(inside[i])
        BY <1>4, <1>8, <2>2 DEF InverseInv, Kept, IsChi2
      <4>5. result.state.inverted /\ result.state.cov = CovarianceMatrix(node, values)
        BY <4>1, <4>3, <4>4, InversionKeeps
      <4> QED
        BY <4>3, <4>5
    <3>2. CASE i < x
      <4>1. InvertedNow(i)
        BY <1>4, <1>6, <1>8, <3>2 DEF InvertedUpTo
      <4>2. inside'[i] = inside[i]
        BY <1>3, <1>4, <3>2
      <4> QED
        BY <2>2, <4>1, <4>2 DEF InvertedNow
    <3> QED
      BY <1>4, <2>1, <3>1, <3>2
  <2>5. CovarianceMatrix(input.nodes[i], ValuesOf(Measured(input.nodes[i]), Start))'
          = CovarianceMatrix(node, values)
    BY <2>2, <2>3
  <2> QED
    BY <2>4, <2>5 DEF InvertedNow
<1>9. InvertedUpTo(x + 1)'
  BY <1>2, <1>4, <1>8 DEF InvertedUpTo
<1>10. Inverting'
  BY <1>2, <1>9 DEF Inverting, Evaluated
<1> QED
  BY <1>5, <1>10 DEF InverseInv

\* A step that leaves the matrices, the points and the calculators alone.
LEMMA InvertedStays ==
    ASSUME UNCHANGED <<input, calculators, known, made, points, inside>>, NEW n, InvertedUpTo(n)
    PROVE  InvertedUpTo(n)'
<1>1. ASSUME NEW Q PROVE ValuesOf(Q, Start)' = ValuesOf(Q, Start)
  BY ValuesStay
<1>2. ASSUME NEW i, InvertedNow(i) PROVE InvertedNow(i)'
  <2>1. PICK node : node = input.nodes[i]
    OBVIOUS
  <2>2. ValuesOf(Measured(node), Start)' = ValuesOf(Measured(node), Start)
    BY <1>1
  <2> QED
    BY <1>2, <2>1, <2>2 DEF InvertedNow
<1> QED
  BY <1>2 DEF InvertedUpTo

LEMMA InversesOfFinished ==
    ASSUME PointsInv, InverseInv, FinishEvaluation
    PROVE  InverseInv'
<1>1. /\ pc = "evaluate" /\ pc' = "ready" /\ next = Len(calculators) + 1
      /\ UNCHANGED <<input, calculators, known, made, points, inside>>
  BY DEF FinishEvaluation, building
<1>2. Configured' /\ Kept'
  BY <1>1 DEF InverseInv, Configured, Kept
<1>3. PICK n : n = Len(calculators) + 1
  OBVIOUS
<1>4. InvertedUpTo(n)
  BY <1>1, <1>3 DEF InverseInv, Inverting
<1>5. InvertedUpTo(n)'
  BY <1>1, <1>4, InvertedStays
<1>6. Inverting'
  BY <1>1, <1>3, <1>5 DEF Inverting
<1> QED
  BY <1>2, <1>6 DEF InverseInv

LEMMA InversesOfBegun ==
    ASSUME PointsInv, InverseInv, BeginEvaluation
    PROVE  InverseInv'
<1>1. pc' = "evaluate" /\ next' = 1 /\ UNCHANGED <<input, calculators, inside>>
  BY DEF BeginEvaluation, building
<1>2. Configured' /\ Kept'
  BY <1>1 DEF InverseInv, Configured, Kept
<1>3. DOMAIN calculators = 1 .. Len(calculators) /\ Len(calculators) \in Nat
  BY LenProperties DEF PointsInv, Form, Listed
<1>4. InvertedUpTo(1)'
  BY <1>1, <1>3 DEF InvertedUpTo
<1>5. Inverting'
  BY <1>1, <1>4 DEF Inverting, Evaluated
<1> QED
  BY <1>2, <1>5 DEF InverseInv

LEMMA InversesOfInitialized ==
    ASSUME PointsInv, InverseInv, Initialize
    PROVE  InverseInv'
<1>1. pc = "build" /\ pc' = "ready" /\ UNCHANGED <<input, calculators, inside, chi2>>
  BY DEF Initialize, Built
<1>2. Configured' /\ Kept'
  BY <1>1 DEF InverseInv, Configured, Kept
<1>3. chi2' = "none"
  BY <1>1 DEF PointsInv, Stage
<1> QED
  BY <1>1, <1>2, <1>3 DEF InverseInv, Inverting, Evaluated

LEMMA InversesOfThrown ==
    ASSUME PointsInv, InverseInv, CalculatorThrows
    PROVE  InverseInv'
<1>1. /\ next \in DOMAIN calculators /\ pc' = "ready" /\ chi2' = "infinite"
      /\ UNCHANGED <<input, calculators>>
      /\ inside' = [inside EXCEPT ![next] = CalculateIn(input.nodes[next], inside[next], Start).state]
  BY DEF CalculatorThrows, Running, building
<1>2. Configured' /\ Kept'
  BY <1>1, InversesOfRun
<1> QED
  BY <1>1, <1>2 DEF InverseInv, Inverting, Evaluated

LEMMA InversesOfOthers ==
    ASSUME PointsInv, InverseInv,
           RefuseCalculator \/ ConstructorThrows \/ RefuseModel \/ NameIsWrong \/ UNCHANGED vars
    PROVE  InverseInv'
<1>1. /\ UNCHANGED <<input, calculators, known, made, points, next, inside>>
      /\ pc' \in {"refused", "ended"} \/ UNCHANGED <<pc, chi2>>
  BY DEF RefuseCalculator, ConstructorThrows, RefuseModel, NameIsWrong, Refuse, building, vars
<1>2. Configured' /\ Kept'
  BY <1>1 DEF InverseInv, Configured, Kept
<1>3. Inverting'
  <2>1. CASE pc' \in {"refused", "ended"}
    BY <2>1 DEF Inverting, Evaluated
  <2>2. CASE UNCHANGED <<pc, chi2>>
    <3>1. PICK n, x : n = Len(calculators) + 1 /\ x = next
      OBVIOUS
    <3>2. (pc = "evaluate" => InvertedUpTo(x)) /\ (Evaluated => InvertedUpTo(n))
      BY <3>1 DEF InverseInv, Inverting
    <3>3. (pc = "evaluate" => InvertedUpTo(x)') /\ (Evaluated => InvertedUpTo(n)')
      BY <1>1, <3>2, InvertedStays
    <3> QED
      BY <1>1, <2>2, <3>1, <3>3 DEF Inverting, Evaluated
  <2> QED
    BY <1>1, <2>1, <2>2
<1> QED
  BY <1>2, <1>3 DEF InverseInv

\* No failure, and no evaluation that is cut short, leaves an inverse with another
\* matrix than its own.
THEOREM InversesAreKept == Spec => []InverseInv
<1>1. Init => InverseInv
  BY InversesBegin
<1>2. PointsInv /\ InverseInv /\ [Next]_vars => InverseInv'
  BY InversesOfAdded, InversesOfInitialized, InversesOfBegun, InversesOfCalculated,
     InversesOfThrown, InversesOfFinished, InversesOfOthers DEF Next
<1> QED
  BY <1>1, <1>2, PredictionsKeepTheirPoints, PTL DEF Spec

\* What the inverse of an evaluated calculator is the inverse of.
LEMMA InverseIsOfThisPoint ==
    ASSUME PointsInv, InverseInv, Evaluated, NEW n \in DOMAIN calculators, IsChi2(input.nodes[n])
    PROVE  /\ inside[n].inverseOf
                = CovarianceMatrix(input.nodes[n], ValuesOf(Measured(input.nodes[n]), Start))
           /\ ConfiguredMeasurements(input.nodes[n])
           /\ ValuesOf(Measured(input.nodes[n]), Start) \in [Measured(input.nodes[n]) -> Int]
<1>1. InvertedNow(n)
  <2>1. InvertedUpTo(Len(calculators) + 1)
    BY DEF InverseInv, Inverting
  <2>2. DOMAIN calculators = 1 .. Len(calculators) /\ Len(calculators) \in Nat
    BY LenProperties DEF PointsInv, Form, Listed
  <2>3. n < Len(calculators) + 1
    BY <2>2
  <2> QED
    BY <2>1, <2>3 DEF InvertedUpTo
<1>2. inside[n].inverseOf = inside[n].cov
  BY <1>1 DEF InverseInv, Kept, Keeps, InvertedNow
<1>3. ConfiguredMeasurements(input.nodes[n])
  BY DEF InverseInv, Configured, IsChi2
<1>4. ASSUME NEW owner PROVE ValueOf(owner, Start) \in Int
  <2>1. PointOf(owner) \in 0 .. Len(points)
    BY PointsOfOwners DEF PointsInv
  <2>2. points \in Seq(Int) /\ Len(points) \in Nat
    BY LenProperties DEF PointsInv, Form
  <2>3. PointOf(owner) # 0 => points[PointOf(owner)] \in Int
    BY <2>1, <2>2, ElementOfSeq
  <2> QED
    BY <2>3, PhysicsAssumption DEF ValueOf
<1>5. ValuesOf(Measured(input.nodes[n]), Start) \in [Measured(input.nodes[n]) -> Int]
  BY <1>4 DEF ValuesOf
<1> QED
  BY <1>1, <1>2, <1>3, <1>5 DEF InvertedNow

-----------------------------------------------------------------------------
(***************************************************************************)
(* The covariance matrix of a Chi2Calculator: made of the correlations one *)
(* after the other, it has the variances on its diagonal and, where there  *)
(* is one correlation of two measurements, that one on either side of it.  *)
(***************************************************************************)
\* Up to a number, from step to step.
LEMMA Climb ==
    ASSUME NEW n \in Nat, NEW T, 0 \in T, \A i \in 0 .. n - 1 : i \in T => i + 1 \in T
    PROVE  \A i \in 0 .. n : i \in T
<1> DEFINE rest == {i \in 0 .. n : i \notin T}
<1> SUFFICES ASSUME rest # {} PROVE FALSE
  OBVIOUS
<1>1. PICK i \in rest : \A j \in rest : i <= j
  <2>1. rest \in SUBSET Nat
    OBVIOUS
  <2> HIDE DEF rest
  <2> QED
    BY <2>1, LeastNumber
<1>2. i # 0 /\ i - 1 \in 0 .. n - 1 /\ (i - 1) + 1 = i
  BY <1>1
<1>3. i - 1 \in T
  BY <1>1, <1>2
<1> QED
  BY <1>1, <1>2, <1>3

\* There is a function that begins and goes on as it should.
GoesOn(p, base, step, n) ==
    p[0] = base /\ \A i \in 1 .. n : p[i] = step[<<p[i - 1], i>>]
HasSteps(X, base, step, n) == \E p \in [0 .. n -> X] : GoesOn(p, base, step, n)

LEMMA StepsExist ==
    ASSUME NEW X, NEW base \in X, NEW n \in Nat, NEW step \in [X \X (1 .. n) -> X]
    PROVE  HasSteps(X, base, step, n)
<1> DEFINE T == {i \in 0 .. n : HasSteps(X, base, step, i)}
<1>1. 0 \in T
  <2> DEFINE p == [i \in 0 .. 0 |-> base]
  <2>1. p \in [0 .. 0 -> X] /\ GoesOn(p, base, step, 0)
    BY DEF GoesOn
  <2> QED
    BY <2>1 DEF HasSteps
<1>2. ASSUME NEW i \in 0 .. n - 1, i \in T PROVE i + 1 \in T
  <2>1. PICK p \in [0 .. i -> X] : GoesOn(p, base, step, i)
    BY <1>2 DEF HasSteps
  <2> DEFINE q == [j \in 0 .. i + 1 |-> IF j <= i THEN p[j] ELSE step[<<p[i], i + 1>>]]
  <2>2. step[<<p[i], i + 1>>] \in X
    <3>1. <<p[i], i + 1>> \in X \X (1 .. n)
      OBVIOUS
    <3> QED
      BY <3>1
  <2>3. q \in [0 .. i + 1 -> X]
    BY <2>2
  <2>4. \A j \in 0 .. i : q[j] = p[j]
    OBVIOUS
  <2>5. q[i + 1] = step[<<p[i], i + 1>>]
    OBVIOUS
  <2> HIDE DEF q
  <2>6. ASSUME NEW j \in 1 .. i + 1 PROVE q[j] = step[<<q[j - 1], j>>]
    <3>1. CASE j = i + 1
      <4>1. j - 1 = i /\ i \in 0 .. i
        BY <3>1
      <4> QED
        BY <2>4, <2>5, <3>1, <4>1
    <3>2. CASE j \in 1 .. i
      <4>1. j \in 0 .. i /\ j - 1 \in 0 .. i
        BY <3>2
      <4> QED
        BY <2>1, <2>4, <3>2, <4>1 DEF GoesOn
    <3> QED
      BY <2>6, <3>1, <3>2
  <2>7. q[0] = base
    <3>1. 0 \in 0 .. i
      OBVIOUS
    <3> QED
      BY <2>1, <2>4, <3>1 DEF GoesOn
  <2>8. HasSteps(X, base, step, i + 1)
    BY <2>3, <2>6, <2>7 DEF HasSteps, GoesOn
  <2> QED
    BY <2>8
<1> HIDE DEF T
<1>3. n \in T
  BY <1>1, <1>2, Climb
<1> QED
  BY <1>3 DEF T

\* The less and the greater of two numbers.
LEMMA MinAndMax ==
    ASSUME NEW a \in Nat, NEW b \in Nat, a # b
    PROVE  /\ Min({a, b}) \in {a, b} /\ Max({a, b}) \in {a, b}
           /\ Min({a, b}) # Max({a, b}) /\ {Min({a, b}), Max({a, b})} = {a, b}
<1>1. Min({a, b}) = IF a < b THEN a ELSE b
  BY DEF Min
<1>2. Max({a, b}) = IF a < b THEN b ELSE a
  BY DEF Max
<1> QED
  BY <1>1, <1>2

IsChi2Node(node) ==
    /\ node.measurements \in Seq(MeasurementNodes)
    /\ node.correlations \in Seq(CorrelationNodes)
    /\ ConfiguredMeasurements(node)

\* A correlation is between two measurements.
LEMMA CorrelationIndices ==
    ASSUME NEW node, IsChi2Node(node), NEW l \in DOMAIN node.correlations
    PROVE  LET i == FirstIndex(node, node.correlations[l])
               j == SecondIndex(node, node.correlations[l])
           IN  i \in DOMAIN node.measurements /\ j \in DOMAIN node.measurements /\ i # j
<1>1. PICK c \in CorrelationNodes : c = node.correlations[l]
  BY DEF IsChi2Node
<1>2. PICK s, t : c.between = <<s, t>>
  <2>1. c.between \in STRING \X STRING
    BY DEF CorrelationNodes
  <2>2. c.between = <<c.between[1], c.between[2]>>
    BY <2>1
  <2> QED
    BY <2>2
<1>3. ConfiguredCorrelation(node, c)
  BY <1>1 DEF IsChi2Node, ConfiguredMeasurements
<1>4. s # t /\ {s, t} \subseteq {m.name : m \in Range(node.measurements)}
  <2>1. Range(c.between) = {s, t} /\ c.between[1] = s /\ c.between[2] = t
    BY <1>2 DEF Range
  <2> QED
    BY <1>3, <2>1 DEF ConfiguredCorrelation
<1>5. ASSUME NEW name \in {s, t}
      PROVE  /\ GetIndex(node, name) \in DOMAIN node.measurements
             /\ node.measurements[GetIndex(node, name)].name = name
  BY <1>4, <1>5 DEF GetIndex, Range
<1>6. GetIndex(node, s) # GetIndex(node, t)
  BY <1>4, <1>5
<1>7. DOMAIN node.measurements \subseteq Nat
  BY DEF IsChi2Node
<1>8. GetIndex(node, s) \in Nat /\ GetIndex(node, t) \in Nat
  BY <1>5, <1>7
<1>9. /\ FirstIndex(node, c) = Min({GetIndex(node, s), GetIndex(node, t)})
      /\ SecondIndex(node, c) = Max({GetIndex(node, s), GetIndex(node, t)})
  BY <1>2 DEF FirstIndex, SecondIndex
<1> QED
  BY <1>1, <1>5, <1>6, <1>8, <1>9, MinAndMax

\* Its covariance is a number when the values are.
LEMMA CovarianceIsANumber ==
    ASSUME NEW node, IsChi2Node(node), NEW l \in DOMAIN node.correlations,
           NEW value \in [Measured(node) -> Int]
    PROVE  Covariance(node, node.correlations[l], value) \in Int
<1>1. PICK c \in CorrelationNodes : c = node.correlations[l]
  BY DEF IsChi2Node
<1>2. PICK i, j : i = FirstIndex(node, c) /\ j = SecondIndex(node, c)
  OBVIOUS
<1>3. i \in DOMAIN node.measurements /\ j \in DOMAIN node.measurements
  BY <1>1, <1>2, CorrelationIndices
<1>4. ConfiguredCorrelation(node, c)
  BY <1>1 DEF IsChi2Node, ConfiguredMeasurements
<1>5. ASSUME NEW x \in DOMAIN node.measurements, HasUncertainty(node.measurements[x], c.name)
      PROVE  NamedUncertainty(node.measurements[x], c.name, value) \in Int
  <2>1. PICK m \in MeasurementNodes : m = node.measurements[x] /\ m.of \in Measured(node)
    <3>1. node.measurements[x] \in MeasurementNodes
      BY <1>5 DEF IsChi2Node
    <3>2. node.measurements[x].of \in Measured(node)
      BY <1>5 DEF Measured, Range
    <3> QED
      BY <3>1, <3>2
  <2>2. value[m.of] \in Int
    BY <2>1
  <2> DEFINE named == {k \in DOMAIN m.uncertainties : m.uncertainties[k].name = c.name}
  <2>3. m.uncertainties \in Seq(UncertaintyNodes)
    BY DEF MeasurementNodes
  <2>4. named \in SUBSET Nat /\ named # {}
    <3>1. DOMAIN m.uncertainties \subseteq Nat
      BY <2>3
    <3>2. named # {}
      BY <1>5, <2>1 DEF HasUncertainty, Range
    <3> QED
      BY <3>1, <3>2
  <2> HIDE DEF named
  <2>5. Min(named) \in named
    BY <2>4, MinIsLeast
  <2>6. PICK u \in UncertaintyNodes : u = m.uncertainties[Min(named)]
    <3>1. Min(named) \in DOMAIN m.uncertainties
      BY <2>5 DEF named
    <3>2. \A k \in DOMAIN m.uncertainties : m.uncertainties[k] \in UncertaintyNodes
      BY <2>3
    <3> QED
      BY <3>1, <3>2
  <2>7. Uncertainty(u, value[m.of]) \in Int
    <3>1. u.size \in Int
      BY DEF UncertaintyNodes
    <3>2. u.size * value[m.of] \in Int
      BY <2>2, <3>1
    <3> QED
      BY <3>1, <3>2 DEF Uncertainty
  <2>8. NamedUncertainty(m, c.name, value) = Uncertainty(u, value[m.of])
    BY <2>6, Zenon DEF NamedUncertainty, named
  <2> QED
    BY <2>1, <2>7, <2>8
<1>6. PICK a \in Int : a = NamedUncertainty(node.measurements[i], c.name, value)
  BY <1>2, <1>3, <1>4, <1>5 DEF ConfiguredCorrelation
<1>7. PICK b \in Int : b = NamedUncertainty(node.measurements[j], c.name, value)
  BY <1>2, <1>3, <1>4, <1>5 DEF ConfiguredCorrelation
<1>8. c.value \in Int
  BY DEF CorrelationNodes
<1>9. Covariance(node, c, value) = c.value * a * b
  BY <1>2, <1>6, <1>7 DEF Covariance
<1> QED
  BY <1>1, <1>8, <1>9

\* Matrices with numbers beside their diagonal.
Matrices(n, V) ==
    {matrix \in [1 .. n -> [1 .. n -> V]] : \A i, j \in 1 .. n : i # j => matrix[i][j] \in Int}

\* What a correlation that is added changes: two entries, one of them by the sum of
\* what was in both.
Adds(new, old, n, i, j, c) ==
    /\ new[i][j] = old[i][j] + c
    /\ new[j][i] = old[j][i] + (old[i][j] + c)
    /\ \A x, y \in 1 .. n : {x, y} # {i, j} => new[x][y] = old[x][y]

SetsEntry(new, matrix, n, V, i, j, entry) ==
    /\ new \in [1 .. n -> [1 .. n -> V]]
    /\ new[i][j] = entry
    /\ \A x, y \in 1 .. n : <<x, y>> # <<i, j>> => new[x][y] = matrix[x][y]

LEMMA EntryIsSet ==
    ASSUME NEW n, NEW V, NEW matrix \in [1 .. n -> [1 .. n -> V]], NEW i \in 1 .. n, NEW j \in 1 .. n,
           NEW entry \in V
    PROVE  SetsEntry([matrix EXCEPT ![i][j] = entry], matrix, n, V, i, j, entry)
<1> DEFINE row == [matrix[i] EXCEPT ![j] = entry]
           new == [matrix EXCEPT ![i] = row]
<1>1. row \in [1 .. n -> V] /\ row[j] = entry /\ \A y \in 1 .. n : y # j => row[y] = matrix[i][y]
  OBVIOUS
<1>2. [matrix EXCEPT ![i][j] = entry] = new
  OBVIOUS
<1> HIDE DEF row
<1>3. new \in [1 .. n -> [1 .. n -> V]] /\ new[i] = row
      /\ \A x \in 1 .. n : x # i => new[x] = matrix[x]
  BY <1>1
<1> HIDE DEF new
<1> QED
  BY <1>1, <1>2, <1>3 DEF SetsEntry

LEMMA AddingChanges ==
    ASSUME NEW n \in Nat, NEW V, Int \subseteq V, NEW old \in Matrices(n, V),
           NEW node, NEW c, NEW value, Covariance(node, c, value) \in Int,
           FirstIndex(node, c) \in 1 .. n, SecondIndex(node, c) \in 1 .. n,
           FirstIndex(node, c) # SecondIndex(node, c)
    PROVE  /\ AddCorrelation(node, old, c, value) \in Matrices(n, V)
           /\ Adds(AddCorrelation(node, old, c, value), old, n, FirstIndex(node, c),
                   SecondIndex(node, c), Covariance(node, c, value))
<1>1. PICK i \in 1 .. n, j \in 1 .. n, d \in Int :
          i = FirstIndex(node, c) /\ j = SecondIndex(node, c) /\ d = Covariance(node, c, value)
  OBVIOUS
<1>2. i # j /\ old \in [1 .. n -> [1 .. n -> V]]
      /\ \A x, y \in 1 .. n : x # y => old[x][y] \in Int
  BY <1>1 DEF Matrices
<1>3. PICK upper \in Int : upper = old[i][j] + d
  BY <1>1, <1>2
<1>4. PICK lower \in Int : lower = old[j][i] + upper
  <2>1. old[j][i] \in Int
    BY <1>1, <1>2
  <2> QED
    BY <1>3, <2>1
<1> DEFINE between == [old EXCEPT ![i][j] = upper]
           new == [between EXCEPT ![j][i] = @ + upper]
<1>5. AddCorrelation(node, old, c, value) = new
  BY <1>1, <1>3 DEF AddCorrelation
<1>6. /\ between \in [1 .. n -> [1 .. n -> V]]
      /\ between[i][j] = upper
      /\ \A x, y \in 1 .. n : <<x, y>> # <<i, j>> => between[x][y] = old[x][y]
  <2>1. upper \in V
    BY <1>3
  <2>2. SetsEntry(between, old, n, V, i, j, upper)
    BY <1>2, <2>1, EntryIsSet
  <2> HIDE DEF between
  <2> QED
    BY <2>2 DEF SetsEntry
<1>7. between[j][i] + upper = lower
  BY <1>1, <1>2, <1>4, <1>6
<1> HIDE DEF between
<1>8. /\ new \in [1 .. n -> [1 .. n -> V]]
      /\ new[j][i] = lower
      /\ \A x, y \in 1 .. n : <<x, y>> # <<j, i>> => new[x][y] = between[x][y]
  <2>1. new = [between EXCEPT ![j][i] = lower] /\ lower \in V
    <3>1. new = [between EXCEPT ![j][i] = between[j][i] + upper]
      BY <1>6
    <3> QED
      BY <1>4, <1>7, <3>1
  <2> HIDE DEF new
  <2>2. SetsEntry([between EXCEPT ![j][i] = lower], between, n, V, j, i, lower)
    BY <1>6, <2>1, EntryIsSet
  <2> QED
    BY <2>1, <2>2 DEF SetsEntry
<1> HIDE DEF new
<1>9. new[i][j] = upper
  BY <1>1, <1>2, <1>6, <1>8
<1>10. ASSUME NEW x \in 1 .. n, NEW y \in 1 .. n, {x, y} # {i, j}
       PROVE  new[x][y] = old[x][y]
  BY <1>6, <1>8, <1>10
<1>11. ASSUME NEW x \in 1 .. n, NEW y \in 1 .. n, x # y PROVE new[x][y] \in Int
  <2>1. {x, y} # {i, j} \/ <<x, y>> = <<i, j>> \/ <<x, y>> = <<j, i>>
    OBVIOUS
  <2> QED
    BY <1>2, <1>8, <1>9, <1>10, <1>11, <2>1
<1>12. new \in Matrices(n, V)
  BY <1>8, <1>11 DEF Matrices
<1>13. Adds(new, old, n, i, j, d)
  BY <1>3, <1>4, <1>8, <1>9, <1>10 DEF Adds
<1> QED
  BY <1>1, <1>5, <1>12, <1>13

\* The entries of a matrix: numbers, and the variances whatever they are.
Entries(node, value) ==
    Int \cup {Variance(node.measurements[i], value) : i \in 1 .. Len(node.measurements)}

\* The matrix of every correlation, from the diagonal on.
Accumulates(matrix, node, value) ==
    LET n == Len(node.measurements)
        c(l) == node.correlations[l]
    IN  /\ matrix[0] = Diagonal(node, value)
        /\ \A l \in 0 .. Len(node.correlations) : matrix[l] \in Matrices(n, Entries(node, value))
        /\ \A l \in 1 .. Len(node.correlations) :
              Adds(matrix[l], matrix[l - 1], n, FirstIndex(node, c(l)), SecondIndex(node, c(l)),
                   Covariance(node, c(l), value))

LEMMA CovariancesAccumulate ==
    ASSUME NEW node, IsChi2Node(node), NEW value \in [Measured(node) -> Int]
    PROVE  \E matrix : /\ Accumulates(matrix, node, value)
                       /\ CovarianceMatrix(node, value) = matrix[Len(node.correlations)]
<1> DEFINE X == Matrices(Len(node.measurements), Entries(node, value))
           base == Diagonal(node, value)
           step(n) == [mi \in X \X (1 .. n) |-> AddCorrelation(node, mi[1], node.correlations[mi[2]], value)]
           Solves(f) == f = [n \in 0 .. Len(node.correlations) |->
                               IF n = 0 THEN Diagonal(node, value)
                               ELSE AddCorrelation(node, f[n - 1], node.correlations[n], value)]
           c == CHOOSE f : Solves(f)
<1>1. PICK n \in Nat, k \in Nat : n = Len(node.measurements) /\ k = Len(node.correlations)
  BY LenProperties DEF IsChi2Node
<1>2. DOMAIN node.measurements = 1 .. n /\ DOMAIN node.correlations = 1 .. k
  BY <1>1, LenProperties DEF IsChi2Node
<1>3. base \in X
  <2>1. base = [i \in 1 .. n |-> [j \in 1 .. n |->
                  IF i = j THEN Variance(node.measurements[i], value) ELSE 0]]
    BY <1>1 DEF Diagonal, Matrix
  <2>2. \A i \in 1 .. n : Variance(node.measurements[i], value) \in Entries(node, value)
    BY <1>1 DEF Entries
  <2>3. 0 \in Int /\ Int \subseteq Entries(node, value)
    BY DEF Entries
  <2> QED
    BY <1>1, <2>1, <2>2, <2>3 DEF Matrices
<1>4. ASSUME NEW old \in X, NEW l \in 1 .. k
      PROVE  LET d == node.correlations[l]
             IN  /\ AddCorrelation(node, old, d, value) \in X
                 /\ Adds(AddCorrelation(node, old, d, value), old, n, FirstIndex(node, d),
                         SecondIndex(node, d), Covariance(node, d, value))
  <2>1. PICK d : d = node.correlations[l]
    OBVIOUS
  <2>2. /\ FirstIndex(node, d) \in 1 .. n /\ SecondIndex(node, d) \in 1 .. n
        /\ FirstIndex(node, d) # SecondIndex(node, d)
    BY <1>2, <2>1, CorrelationIndices
  <2>3. Covariance(node, d, value) \in Int
    BY <1>2, <2>1, CovarianceIsANumber
  <2>4. Int \subseteq Entries(node, value) /\ old \in Matrices(n, Entries(node, value))
    BY <1>1 DEF Entries
  <2> QED
    BY <1>1, <2>1, <2>2, <2>3, <2>4, AddingChanges
<1> HIDE DEF X
<1>5. step(k) \in [X \X (1 .. k) -> X]
  <2>1. \A mi \in X \X (1 .. k) : AddCorrelation(node, mi[1], node.correlations[mi[2]], value) \in X
    BY <1>4
  <2> QED
    BY <2>1
<1>6. PICK p \in [0 .. k -> X] : GoesOn(p, base, step(k), k)
  <2> HIDE DEF step, base
  <2> QED
    BY <1>3, <1>5, StepsExist DEF HasSteps
<1>7. ASSUME NEW l \in 1 .. k PROVE p[l] = AddCorrelation(node, p[l - 1], node.correlations[l], value)
  <2>1. <<p[l - 1], l>> \in X \X (1 .. k)
    OBVIOUS
  <2>2. p[l] = step(k)[<<p[l - 1], l>>]
    <3> HIDE DEF step
    <3> QED
      BY <1>6 DEF GoesOn
  <2> QED
    BY <2>1, <2>2
<1> HIDE DEF step
<1>8. Solves(p)
  <2>1. p = [l \in 0 .. k |-> p[l]]
    OBVIOUS
  <2>2. ASSUME NEW l \in 0 .. k
        PROVE  p[l] = IF l = 0 THEN Diagonal(node, value)
                      ELSE AddCorrelation(node, p[l - 1], node.correlations[l], value)
    <3>1. l = 0 \/ l \in 1 .. k
      OBVIOUS
    <3> QED
      BY <1>6, <1>7, <3>1 DEF GoesOn
  <2> QED
    BY <1>1, <2>1, <2>2
<1>9. Solves(c)
  <2> HIDE DEF Solves
  <2> QED
    BY <1>8
<1>10. CovarianceMatrix(node, value) = c[k]
  BY <1>1 DEF CovarianceMatrix, Correlated
<1> HIDE DEF c
<1>11. /\ c[0] = base
       /\ \A l \in 1 .. k : c[l] = AddCorrelation(node, c[l - 1], node.correlations[l], value)
  <2>1. 0 \in 0 .. k /\ \A l \in 1 .. k : l \in 0 .. k /\ l # 0
    OBVIOUS
  <2> QED
    BY <1>1, <1>9, <2>1
<1> HIDE DEF base, Solves
<1>12. \A l \in 0 .. k : c[l] \in X
  <2> DEFINE T == {l \in 0 .. k : c[l] \in X}
  <2>1. 0 \in T
    BY <1>3, <1>11
  <2>2. ASSUME NEW l \in 0 .. k - 1, l \in T PROVE l + 1 \in T
    <3>1. l + 1 \in 1 .. k /\ (l + 1) - 1 = l /\ l + 1 \in 0 .. k
      OBVIOUS
    <3>2. c[l + 1] \in X
      BY <1>4, <1>11, <2>2, <3>1
    <3> QED
      BY <3>1, <3>2
  <2> HIDE DEF T
  <2>3. \A l \in 0 .. k : l \in T
    BY <2>1, <2>2, Climb
  <2> QED
    BY <2>3 DEF T
<1>13. ASSUME NEW l \in 1 .. k
       PROVE  Adds(c[l], c[l - 1], n, FirstIndex(node, node.correlations[l]),
                   SecondIndex(node, node.correlations[l]), Covariance(node, node.correlations[l], value))
  <2>1. c[l - 1] \in X
    <3>1. l - 1 \in 0 .. k
      OBVIOUS
    <3> QED
      BY <1>12, <3>1
  <2> QED
    BY <1>4, <1>11, <2>1
<1>14. Accumulates(c, node, value)
  BY <1>1, <1>11, <1>12, <1>13 DEF Accumulates, base, X
<1> QED
  BY <1>1, <1>10, <1>14

\* The pair of measurements of the l-th correlation.
PairOf(node, l) ==
    {FirstIndex(node, node.correlations[l]), SecondIndex(node, node.correlations[l])}

LEMMA DiagonalStays ==
    ASSUME NEW node, IsChi2Node(node), NEW value, NEW matrix, Accumulates(matrix, node, value),
           NEW i \in 1 .. Len(node.measurements)
    PROVE  matrix[Len(node.correlations)][i][i] = Variance(node.measurements[i], value)
<1>1. PICK n \in Nat, k \in Nat : n = Len(node.measurements) /\ k = Len(node.correlations)
  BY LenProperties DEF IsChi2Node
<1>2. DOMAIN node.correlations = 1 .. k
  BY <1>1, LenProperties DEF IsChi2Node
<1> DEFINE T == {l \in 0 .. k : matrix[l][i][i] = Variance(node.measurements[i], value)}
<1>3. 0 \in T
  BY <1>1 DEF Accumulates, Diagonal, Matrix
<1>4. ASSUME NEW l \in 0 .. k - 1, l \in T PROVE l + 1 \in T
  <2>1. l + 1 \in 1 .. k /\ (l + 1) - 1 = l /\ l + 1 \in 0 .. k
    OBVIOUS
  <2>2. PICK a, b, d : Adds(matrix[l + 1], matrix[l], n, a, b, d) /\ a # b
    <3>1. PICK c : c = node.correlations[l + 1]
      OBVIOUS
    <3>2. FirstIndex(node, c) # SecondIndex(node, c)
      BY <1>2, <2>1, <3>1, CorrelationIndices
    <3>3. Adds(matrix[l + 1], matrix[(l + 1) - 1], n, FirstIndex(node, c), SecondIndex(node, c),
               Covariance(node, c, value))
      BY <1>1, <2>1, <3>1 DEF Accumulates
    <3> QED
      BY <2>1, <3>2, <3>3
  <2>3. matrix[l + 1][i][i] = matrix[l][i][i]
    <3>1. {i, i} # {a, b}
      <4>1. a \in {a, b} /\ b \in {a, b} /\ (a \notin {i, i} \/ b \notin {i, i})
        BY <2>2
      <4> QED
        BY <4>1
    <3> QED
      BY <1>1, <2>2, <3>1 DEF Adds
  <2> QED
    BY <1>4, <2>1, <2>3
<1> HIDE DEF T
<1>5. \A l \in 0 .. k : l \in T
  BY <1>3, <1>4, Climb
<1> QED
  BY <1>1, <1>5 DEF T

\* Until the one correlation of a pair is added its entries are 0; then they are its
\* covariance, on both sides of the diagonal.
Both(matrix, i, j, entry) == matrix[i][j] = entry /\ matrix[j][i] = entry

LEMMA PairIsAddedOnce ==
    ASSUME NEW node, IsChi2Node(node), NEW value \in [Measured(node) -> Int],
           NEW matrix, Accumulates(matrix, node, value),
           NEW i \in 1 .. Len(node.measurements), NEW j \in 1 .. Len(node.measurements), i # j
    PROVE  /\ (\A l \in DOMAIN node.correlations : PairOf(node, l) # {i, j})
                 => Both(matrix[Len(node.correlations)], i, j, 0)
           /\ \A h \in DOMAIN node.correlations :
                 PairOf(node, h) = {i, j}
                 /\ (\A l \in DOMAIN node.correlations : PairOf(node, l) = {i, j} => l = h)
                 => Both(matrix[Len(node.correlations)], i, j, Covariance(node, node.correlations[h], value))
<1>1. PICK n \in Nat, k \in Nat : n = Len(node.measurements) /\ k = Len(node.correlations)
  BY LenProperties DEF IsChi2Node
<1>2. DOMAIN node.correlations = 1 .. k
  BY <1>1, LenProperties DEF IsChi2Node
<1>3. Both(matrix[0], i, j, 0)
  BY <1>1 DEF Accumulates, Diagonal, Matrix, Both
<1>4. ASSUME NEW l \in 1 .. k, PairOf(node, l) # {i, j}, NEW e, Both(matrix[l - 1], i, j, e)
      PROVE  Both(matrix[l], i, j, e)
  <2>1. PICK a, b, d : Adds(matrix[l], matrix[l - 1], n, a, b, d) /\ PairOf(node, l) = {a, b}
    BY <1>1 DEF Accumulates, PairOf
  <2>2. {i, j} # {a, b} /\ {j, i} # {a, b}
    BY <1>4, <2>1
  <2> QED
    BY <1>1, <1>4, <2>1, <2>2 DEF Adds, Both
<1>5. ASSUME NEW h \in 1 .. k, PairOf(node, h) = {i, j}, Both(matrix[h - 1], i, j, 0)
      PROVE  Both(matrix[h], i, j, Covariance(node, node.correlations[h], value))
  <2>1. PICK d \in Int : d = Covariance(node, node.correlations[h], value)
    BY <1>2, CovarianceIsANumber
  <2>2. PICK a, b : Adds(matrix[h], matrix[h - 1], n, a, b, d) /\ PairOf(node, h) = {a, b}
    BY <1>1, <2>1 DEF Accumulates, PairOf
  <2>3. (a = i /\ b = j) \/ (a = j /\ b = i)
    BY <1>5, <2>2
  <2>4. 0 + d = d /\ 0 + (0 + d) = d
    BY <2>1
  <2> QED
    BY <1>5, <2>1, <2>2, <2>3, <2>4 DEF Adds, Both
<1>6. ASSUME \A l \in 1 .. k : PairOf(node, l) # {i, j} PROVE Both(matrix[k], i, j, 0)
  <2> DEFINE T == {l \in 0 .. k : Both(matrix[l], i, j, 0)}
  <2>1. 0 \in T
    BY <1>3
  <2>2. ASSUME NEW l \in 0 .. k - 1, l \in T PROVE l + 1 \in T
    <3>1. l + 1 \in 1 .. k /\ (l + 1) - 1 = l
      OBVIOUS
    <3> QED
      BY <1>4, <1>6, <2>2, <3>1
  <2> HIDE DEF T
  <2>3. \A l \in 0 .. k : l \in T
    BY <2>1, <2>2, Climb
  <2> QED
    BY <2>3 DEF T
<1>7. ASSUME NEW h \in 1 .. k, PairOf(node, h) = {i, j},
             \A l \in 1 .. k : PairOf(node, l) = {i, j} => l = h
      PROVE  Both(matrix[k], i, j, Covariance(node, node.correlations[h], value))
  <2>1. PICK d : d = Covariance(node, node.correlations[h], value)
    OBVIOUS
  <2> DEFINE T == {l \in 0 .. k : /\ l < h => Both(matrix[l], i, j, 0)
                                  /\ l >= h => Both(matrix[l], i, j, d)}
  <2>2. 0 \in T
    BY <1>3
  <2>3. ASSUME NEW l \in 0 .. k - 1, l \in T PROVE l + 1 \in T
    <3>1. l + 1 \in 1 .. k /\ (l + 1) - 1 = l
      OBVIOUS
    <3>2. CASE l + 1 < h
      BY <1>4, <1>7, <2>3, <3>1, <3>2
    <3>3. CASE l + 1 = h
      <4>1. Both(matrix[h - 1], i, j, 0)
        BY <2>3, <3>1, <3>3
      <4> QED
        BY <1>5, <1>7, <2>1, <3>1, <3>3, <4>1
    <3>4. CASE l + 1 > h
      <4>1. PairOf(node, l + 1) # {i, j}
        BY <1>7, <3>1, <3>4
      <4>2. Both(matrix[(l + 1) - 1], i, j, d)
        BY <2>3, <3>1, <3>4
      <4> QED
        BY <1>4, <3>1, <3>4, <4>1, <4>2
    <3> QED
      BY <3>2, <3>3, <3>4
  <2> HIDE DEF T
  <2>4. \A l \in 0 .. k : l \in T
    BY <2>2, <2>3, Climb
  <2> QED
    BY <2>1, <2>4 DEF T
<1> QED
  BY <1>1, <1>2, <1>6, <1>7

\* Of a pair with at most one correlation, the entries of the matrix.
LEMMA MatrixIsConfigured ==
    ASSUME NEW node, IsChi2Node(node), NEW value \in [Measured(node) -> Int],
           NEW i \in DOMAIN node.measurements, NEW j \in DOMAIN node.measurements,
           Cardinality(Between(node, i, j)) <= 1
    PROVE  CovarianceMatrix(node, value)[i][j] = PointEntry(node, value, i, j)
<1>1. PICK n \in Nat, k \in Nat : n = Len(node.measurements) /\ k = Len(node.correlations)
  BY LenProperties DEF IsChi2Node
<1>2. DOMAIN node.measurements = 1 .. n /\ DOMAIN node.correlations = 1 .. k
  BY <1>1, LenProperties DEF IsChi2Node
<1>3. PICK matrix : Accumulates(matrix, node, value) /\ CovarianceMatrix(node, value) = matrix[k]
  BY <1>1, CovariancesAccumulate
<1>4. CASE i = j
  BY <1>1, <1>2, <1>3, <1>4, DiagonalStays DEF PointEntry
<1>5. CASE i # j
  <2>1. \A l \in 1 .. k : PairOf(node, l) = {i, j} <=> node.correlations[l] \in Between(node, i, j)
    BY <1>2 DEF PairOf, Between, Range
  <2>2. CASE Between(node, i, j) = {}
    <3>1. Both(matrix[k], i, j, 0)
      BY <1>1, <1>2, <1>3, <1>5, <2>1, <2>2, PairIsAddedOnce
    <3> QED
      BY <1>3, <1>5, <2>2, <3>1 DEF Both, PointEntry
  <2>3. CASE Between(node, i, j) # {}
    <3>1. PICK c : c \in Between(node, i, j) /\ c = CHOOSE x \in Between(node, i, j) : TRUE
      BY <2>3
    <3>2. Between(node, i, j) = {c}
      <4>1. IsFiniteSet(Between(node, i, j))
        <5>1. IsFiniteSet(1 .. k)
          BY FS_Interval
        <5>2. node.correlations \in Surjection(1 .. k, Range(node.correlations))
          <6>1. node.correlations \in [1 .. k -> Range(node.correlations)]
            <7>1. node.correlations = [l \in 1 .. k |-> node.correlations[l]]
              BY <1>1, LenProperties DEF IsChi2Node
            <7>2. \A l \in 1 .. k : node.correlations[l] \in Range(node.correlations)
              BY <1>2 DEF Range
            <7> QED
              BY <7>1, <7>2
          <6> QED
            BY <1>2, <6>1 DEF Surjection, Range
        <5>3. IsFiniteSet(Range(node.correlations))
          BY <5>1, <5>2, FS_Surjection DEF ExistsSurjection
        <5>4. Between(node, i, j) \in SUBSET Range(node.correlations)
          BY DEF Between
        <5> QED
          BY <5>3, <5>4, FS_Subset
      <4>2. Cardinality(Between(node, i, j)) = 1
        <5>1. Cardinality(Between(node, i, j)) \in Nat
          BY <4>1, FS_CardinalityType
        <5>2. Cardinality(Between(node, i, j)) # 0
          BY <2>3, <4>1, FS_EmptySet
        <5> QED
          BY <5>1, <5>2
      <4>3. \E x : Between(node, i, j) = {x}
        BY <4>1, <4>2, FS_Singleton
      <4> QED
        BY <3>1, <4>3
    <3>3. PICK h \in 1 .. k : node.correlations[h] = c
      BY <1>2, <3>1 DEF Between, Range
    <3>4. ASSUME NEW l \in 1 .. k, PairOf(node, l) = {i, j} PROVE l = h
      <4>1. node.correlations[l] = node.correlations[h]
        BY <2>1, <3>2, <3>3, <3>4
      <4>2. SameCorrelation(node, node.correlations[l], node.correlations[h])
        BY <4>1 DEF SameCorrelation
      <4> QED
        BY <1>2, <4>2 DEF IsChi2Node, ConfiguredMeasurements
    <3>5. PairOf(node, h) = {i, j}
      BY <2>1, <3>1, <3>3
    <3>6. Both(matrix[k], i, j, Covariance(node, c, value))
      <4>1. i \in 1 .. Len(node.measurements) /\ j \in 1 .. Len(node.measurements)
        BY <1>1, <1>2
      <4>2. h \in DOMAIN node.correlations
            /\ \A l \in DOMAIN node.correlations : PairOf(node, l) = {i, j} => l = h
        BY <1>2, <3>4
      <4> QED
        BY <1>1, <1>3, <1>5, <3>3, <3>5, <4>1, <4>2, PairIsAddedOnce
    <3>7. PointEntry(node, value, i, j) = Covariance(node, c, value)
      BY <1>5, <2>3, <3>1 DEF PointEntry
    <3> QED
      BY <1>3, <3>6, <3>7 DEF Both
  <2> QED
    BY <2>2, <2>3
<1> QED
  BY <1>4, <1>5

\* For any measurements and correlations, any values and any order of failures: the
\* inverse behind the chi2 of an evaluated Chi2Calculator is that of the matrix of its
\* uncertainties and correlations at this point.
THEOREM InversesAreOfThisPoint == Spec => []Chi2InverseOfThisPoint
<1>1. ASSUME PointsInv, InverseInv PROVE Chi2InverseOfThisPoint
  <2> SUFFICES ASSUME Evaluated, NEW n \in DOMAIN calculators, IsChi2(input.nodes[n]),
                      NEW i \in DOMAIN input.nodes[n].measurements,
                      NEW j \in DOMAIN input.nodes[n].measurements,
                      Cardinality(Between(input.nodes[n], i, j)) <= 1
               PROVE  inside[n].inverseOf[i][j]
                        = PointEntry(input.nodes[n], ValuesOf(Measured(input.nodes[n]), Start), i, j)
    BY DEF Chi2InverseOfThisPoint, IsChi2, Measured
  <2>1. PICK node, value : node = input.nodes[n] /\ value = ValuesOf(Measured(node), Start)
    OBVIOUS
  <2>2. /\ inside[n].inverseOf = CovarianceMatrix(node, value)
        /\ ConfiguredMeasurements(node) /\ value \in [Measured(node) -> Int]
    BY <1>1, <2>1, InverseIsOfThisPoint
  <2>3. node \in Range(input.nodes)
    <3>1. input.nodes \in Seq(Range(input.nodes)) /\ Len(calculators) <= Len(input.nodes)
      BY <1>1 DEF PointsInv, Form, IsInput, InverseInv, Configured
    <3>2. DOMAIN input.nodes = 1 .. Len(input.nodes) /\ Len(input.nodes) \in Nat
      BY <3>1, LenProperties
    <3>3. DOMAIN calculators = 1 .. Len(calculators) /\ Len(calculators) \in Nat
      BY <1>1, LenProperties DEF PointsInv, Form, Listed
    <3>4. n \in DOMAIN input.nodes
      BY <3>1, <3>2, <3>3
    <3> QED
      BY <2>1, <3>4 DEF Range
  <2>4. IsChi2Node(node)
    BY <1>1, <2>2, <2>3 DEF IsChi2Node, PointsInv, Form, IsInput
  <2> QED
    BY <2>1, <2>2, <2>4, MatrixIsConfigured
<1> QED
  BY <1>1, PredictionsKeepTheirPoints, InversesAreKept, PTL

-----------------------------------------------------------------------------
(***************************************************************************)
(* The covariance matrix of the observables: where a row of the input file *)
(* and an observable that no row names come to lie, and that sorting finds *)
(* them again.                                                             *)
(***************************************************************************)
\* The numbers that are chosen, one after the other.
LEMMA AscendingSteps ==
    ASSUME NEW n \in Nat, NEW S
    PROVE  \E p \in [0 .. n -> Seq(1 .. n)] :
               /\ p[0] = << >>
               /\ \A i \in 1 .. n : p[i] = IF i \in S THEN Append(p[i - 1], i) ELSE p[i - 1]
               /\ Ascending(n, S) = p[n]
<1> DEFINE X == Seq(1 .. n)
           step == [xi \in X \X (1 .. n) |-> IF xi[2] \in S THEN Append(xi[1], xi[2]) ELSE xi[1]]
           Solves(f) == f = [i \in 0 .. n |->
                               IF i = 0 THEN << >>
                               ELSE IF i \in S THEN Append(f[i - 1], i) ELSE f[i - 1]]
           c == CHOOSE f : Solves(f)
<1>1. << >> \in X /\ step \in [X \X (1 .. n) -> X]
  <2>1. ASSUME NEW xi \in X \X (1 .. n)
        PROVE  (IF xi[2] \in S THEN Append(xi[1], xi[2]) ELSE xi[1]) \in X
    <3>1. xi[1] \in X /\ xi[2] \in 1 .. n
      OBVIOUS
    <3> QED
      BY <3>1, AppendProperties
  <2>2. << >> \in X
    OBVIOUS
  <2> HIDE DEF X
  <2> QED
    BY <2>1, <2>2
<1>2. PICK p \in [0 .. n -> X] : GoesOn(p, << >>, step, n)
  <2> HIDE DEF step, X
  <2> QED
    BY <1>1, StepsExist DEF HasSteps
<1>3. p[0] = << >> /\ \A i \in 1 .. n : p[i] = IF i \in S THEN Append(p[i - 1], i) ELSE p[i - 1]
  <2>1. ASSUME NEW i \in 1 .. n PROVE p[i] = IF i \in S THEN Append(p[i - 1], i) ELSE p[i - 1]
    <3>1. i - 1 \in 0 .. n /\ <<p[i - 1], i>> \in X \X (1 .. n)
      BY <1>2
    <3>2. p[i] = step[<<p[i - 1], i>>]
      BY <1>2 DEF GoesOn
    <3> QED
      BY <3>1, <3>2
  <2> QED
    BY <1>2, <2>1 DEF GoesOn
<1>4. Solves(p)
  <2> HIDE DEF X
  <2>1. p = [i \in 0 .. n |-> p[i]]
    BY <1>2
  <2>2. \A i \in 0 .. n : i = 0 \/ i \in 1 .. n
    OBVIOUS
  <2> QED
    BY <1>3, <2>1, <2>2
<1>5. Solves(c)
  <2> HIDE DEF Solves
  <2> QED
    BY <1>4
<1>6. Ascending(n, S) = c[n]
  BY DEF Ascending
<1> HIDE DEF c
<1>7. c[0] = << >> /\ \A i \in 1 .. n : c[i] = IF i \in S THEN Append(c[i - 1], i) ELSE c[i - 1]
  <2>1. 0 \in 0 .. n /\ \A i \in 1 .. n : i \in 0 .. n /\ i # 0
    OBVIOUS
  <2> QED
    BY <1>5, <2>1
<1>8. c \in [0 .. n -> X]
  <2> DEFINE T == {i \in 0 .. n : c[i] \in X}
  <2>1. 0 \in T
    <3> HIDE DEF X
    <3> QED
      BY <1>1, <1>7
  <2>2. ASSUME NEW i \in 0 .. n - 1, i \in T PROVE i + 1 \in T
    <3>1. i + 1 \in 1 .. n /\ i + 1 \in 0 .. n /\ (i + 1) - 1 = i
      OBVIOUS
    <3>2. c[i] \in X
      BY <2>2
    <3>3. c[i + 1] = IF i + 1 \in S THEN Append(c[i], i + 1) ELSE c[i]
      BY <1>7, <3>1
    <3>4. Append(c[i], i + 1) \in X
      BY <3>1, <3>2, AppendProperties
    <3> HIDE DEF X
    <3> QED
      BY <3>1, <3>2, <3>3, <3>4
  <2> HIDE DEF T
  <2>3. \A i \in 0 .. n : i \in T
    BY <2>1, <2>2, Climb
  <2>4. \A i \in 0 .. n : c[i] \in X
    BY <2>3 DEF T
  <2> HIDE DEF X
  <2> QED
    BY <1>5, <2>4
<1> QED
  BY <1>6, <1>7, <1>8

\* They are each there once.
LEMMA Ascends ==
    ASSUME NEW n \in Nat, NEW S
    PROVE  LET s == Ascending(n, S)
           IN  /\ s \in Seq(1 .. n)
               /\ \A k \in 1 .. Len(s) : s[k] \in S
               /\ \A i \in 1 .. n : i \in S => \E k \in 1 .. Len(s) : s[k] = i
               /\ \A k, l \in 1 .. Len(s) : s[k] = s[l] => k = l
<1>1. PICK p \in [0 .. n -> Seq(1 .. n)] :
          /\ p[0] = << >>
          /\ \A i \in 1 .. n : p[i] = IF i \in S THEN Append(p[i - 1], i) ELSE p[i - 1]
          /\ Ascending(n, S) = p[n]
  BY AscendingSteps
<1> DEFINE Right(i) ==
             /\ \A k \in 1 .. Len(p[i]) : p[i][k] \in S /\ p[i][k] <= i
             /\ \A j \in 1 .. i : j \in S => \E k \in 1 .. Len(p[i]) : p[i][k] = j
             /\ \A k, l \in 1 .. Len(p[i]) : p[i][k] = p[i][l] => k = l
           T == {i \in 0 .. n : Right(i)}
<1>2. 0 \in T
  <2>1. Len(p[0]) = 0
    BY <1>1
  <2> QED
    BY <2>1
<1>3. ASSUME NEW i \in 0 .. n - 1, i \in T PROVE i + 1 \in T
  <2>0. /\ i + 1 \in 1 .. n /\ i + 1 \in 0 .. n /\ (i + 1) - 1 = i /\ i \in 0 .. n
        /\ Right(i)
    BY <1>3
  <2>1. CASE i + 1 \in S
    <3>1. p[i + 1] = Append(p[i], i + 1) /\ p[i] \in Seq(1 .. n)
      BY <1>1, <2>0, <2>1
    <3>2. PICK s \in Seq(1 .. n), t \in Seq(1 .. n), m \in Nat : s = p[i] /\ t = p[i + 1] /\ m = Len(s)
      BY <1>1, <2>0, LenProperties
    <3>3. /\ Len(t) = m + 1 /\ t[m + 1] = i + 1
          /\ \A k \in 1 .. m : t[k] = s[k]
      BY <2>0, <3>1, <3>2, AppendProperties
    <3>4. \A k \in 1 .. m : s[k] \in S /\ s[k] \in 1 .. n /\ s[k] <= i
      BY <2>0, <3>2, ElementOfSeq
    <3> HIDE DEF T, Right
    <3>5. ASSUME NEW k \in 1 .. m + 1 PROVE t[k] \in S /\ t[k] <= i + 1
      <4>1. CASE k = m + 1
        BY <2>1, <3>3, <4>1
      <4>2. CASE k \in 1 .. m
        <5>1. t[k] = s[k] /\ s[k] \in S /\ s[k] \in Int /\ s[k] <= i
          BY <3>3, <3>4, <4>2
        <5>2. i \in Int
          BY <2>0
        <5> QED
          <6>1. s[k] <= i + 1
            BY <5>1, <5>2
          <6> QED
            BY <5>1, <6>1
      <4> QED
        BY <4>1, <4>2
    <3>6. ASSUME NEW j \in 1 .. i + 1, j \in S PROVE \E k \in 1 .. m + 1 : t[k] = j
      <4>1. CASE j = i + 1
        BY <3>3, <4>1
      <4>2. CASE j \in 1 .. i
        <5>1. PICK k \in 1 .. m : s[k] = j
          BY <2>0, <3>2, <3>6, <4>2 DEF Right
        <5> QED
          BY <3>3, <5>1
      <4> QED
        BY <4>1, <4>2
    <3>7. ASSUME NEW k \in 1 .. m + 1, NEW l \in 1 .. m + 1, t[k] = t[l] PROVE k = l
      <4>1. ASSUME NEW h \in 1 .. m PROVE t[h] # i + 1
        <5>1. t[h] = s[h] /\ s[h] \in Int /\ s[h] <= i
          BY <3>3, <3>4
        <5>2. i \in Int
          BY <2>0
        <5> QED
          BY <5>1, <5>2
      <4>2. \A g, h \in 1 .. m : s[g] = s[h] => g = h
        BY <2>0, <3>2 DEF Right
      <4> QED
        BY <3>3, <3>7, <4>1, <4>2
    <3>8. Right(i + 1)
      BY <3>2, <3>3, <3>5, <3>6, <3>7 DEF Right
    <3> QED
      BY <2>0, <3>8 DEF T
  <2>2. CASE i + 1 \notin S
    <3>1. p[i + 1] = p[i] /\ p[i] \in Seq(1 .. n)
      BY <1>1, <2>0, <2>2
    <3>2. PICK s \in Seq(1 .. n), m \in Nat : s = p[i] /\ m = Len(s)
      BY <1>1, <2>0, LenProperties
    <3>3. \A k \in 1 .. m : s[k] \in S /\ s[k] \in 1 .. n /\ s[k] <= i
      BY <2>0, <3>2, ElementOfSeq
    <3>4. ASSUME NEW j \in 1 .. i + 1, j \in S PROVE j \in 1 .. i
      <4>1. j # i + 1
        BY <2>2, <3>4
      <4> QED
        BY <4>1
    <3>5. Right(i + 1)
      BY <2>0, <3>1, <3>2, <3>3, <3>4
    <3> QED
      BY <2>0, <3>5
  <2> QED
    BY <2>1, <2>2
<1>4. n \in T
  <2> HIDE DEF T
  <2>1. \A i \in 0 .. n : i \in T
    BY <1>2, <1>3, Climb
  <2> QED
    BY <2>1
<1>5. Right(n) /\ p[n] \in Seq(1 .. n) /\ Len(p[n]) \in Nat
  BY <1>1, <1>4, LenProperties
<1> QED
  BY <1>1, <1>5

\* The rows of the matrices, matrix by matrix.
Rows(ms, rows) ==
    /\ rows \in [0 .. Len(ms) -> Seq(RowNodes)]
    /\ rows[0] = << >>
    /\ \A m \in 1 .. Len(ms) : rows[m] = rows[m - 1] \o ms[m]

LEMMA RowsSteps ==
    ASSUME NEW ms \in Seq(Seq(RowNodes))
    PROVE  Rows(ms, RowsUpTo(ms))
<1> DEFINE X == Seq(RowNodes)
           n == Len(ms)
           step == [xi \in X \X (1 .. n) |-> xi[1] \o ms[xi[2]]]
           Solves(f) == f = [m \in 0 .. Len(ms) |-> IF m = 0 THEN << >> ELSE f[m - 1] \o ms[m]]
           c == CHOOSE f : Solves(f)
<1>0. n \in Nat /\ \A m \in 1 .. n : ms[m] \in X
  BY LenProperties, ElementOfSeq
<1>1. << >> \in X /\ step \in [X \X (1 .. n) -> X]
  <2>1. ASSUME NEW xi \in X \X (1 .. n) PROVE xi[1] \o ms[xi[2]] \in X
    <3>1. xi[1] \in X /\ ms[xi[2]] \in X
      BY <1>0
    <3> QED
      BY <3>1, ConcatProperties
  <2>2. << >> \in X
    OBVIOUS
  <2> HIDE DEF X, n
  <2> QED
    BY <2>1, <2>2
<1>2. PICK p \in [0 .. n -> X] : GoesOn(p, << >>, step, n)
  <2> HIDE DEF step, X, n
  <2> QED
    BY <1>0, <1>1, StepsExist DEF HasSteps
<1>3. p[0] = << >> /\ \A m \in 1 .. n : p[m] = p[m - 1] \o ms[m]
  <2>1. ASSUME NEW m \in 1 .. n PROVE p[m] = p[m - 1] \o ms[m]
    <3>1. m - 1 \in 0 .. n /\ <<p[m - 1], m>> \in X \X (1 .. n)
      <4>1. m - 1 \in 0 .. n
        BY <1>0
      <4> HIDE DEF X, n
      <4> QED
        BY <1>2, <4>1
    <3>2. p[m] = step[<<p[m - 1], m>>]
      BY <1>2 DEF GoesOn
    <3> HIDE DEF X, n
    <3> QED
      BY <3>1, <3>2
  <2> QED
    BY <1>2, <2>1 DEF GoesOn
<1>4. Solves(p)
  <2> HIDE DEF X
  <2>1. p = [m \in 0 .. n |-> p[m]]
    BY <1>2
  <2>2. \A m \in 0 .. n : m = 0 \/ m \in 1 .. n
    BY <1>0
  <2> QED
    BY <1>3, <2>1, <2>2
<1>5. Solves(c)
  <2> HIDE DEF Solves
  <2> QED
    BY <1>4
<1>6. RowsUpTo(ms) = c
  BY DEF RowsUpTo
<1> HIDE DEF c
<1>7. c[0] = << >> /\ \A m \in 1 .. n : c[m] = c[m - 1] \o ms[m]
  <2>1. 0 \in 0 .. n /\ \A m \in 1 .. n : m \in 0 .. n /\ m # 0
    BY <1>0
  <2> QED
    BY <1>5, <2>1
<1>8. c \in [0 .. n -> X]
  <2> DEFINE T == {i \in 0 .. n : c[i] \in X}
  <2>1. 0 \in T
    <3> HIDE DEF X
    <3> QED
      BY <1>0, <1>1, <1>7
  <2>2. ASSUME NEW i \in 0 .. n - 1, i \in T PROVE i + 1 \in T
    <3>1. i + 1 \in 1 .. n /\ (i + 1) - 1 = i
      BY <1>0
    <3>2. c[i] \in X /\ ms[i + 1] \in X
      BY <1>0, <2>2, <3>1
    <3>3. c[i + 1] = c[i] \o ms[i + 1]
      <4> HIDE DEF n
      <4> QED
        BY <1>7, <3>1
    <3>4. c[i + 1] \in X
      BY <3>2, <3>3, ConcatProperties
    <3> QED
      BY <1>0, <3>1, <3>4
  <2> HIDE DEF T
  <2>3. \A i \in 0 .. n : i \in T
    BY <1>0, <2>1, <2>2, Climb
  <2>4. \A i \in 0 .. n : c[i] \in X
    BY <2>3 DEF T
  <2> HIDE DEF X
  <2> QED
    BY <1>5, <2>4
<1> QED
  BY <1>6, <1>7, <1>8 DEF Rows

\* No matrix is empty.
Filled(ms) == ms \in Seq(Seq(RowNodes)) /\ \A m \in 1 .. Len(ms) : Len(ms[m]) > 0

\* The rows so far are those of before and those of one more matrix.
Grows(ms, rows, m) ==
    /\ Len(rows[m]) = Len(rows[m - 1]) + Len(ms[m])
    /\ \A z \in 1 .. Len(rows[m - 1]) : rows[m][z] = rows[m - 1][z]
    /\ \A x \in 1 .. Len(ms[m]) : rows[m][Len(rows[m - 1]) + x] = ms[m][x]

\* They do, matrix by matrix.
LEMMA RowsGrow ==
    ASSUME NEW ms, Filled(ms), NEW rows, Rows(ms, rows)
    PROVE  /\ \A m \in 0 .. Len(ms) : Len(rows[m]) \in Nat
           /\ \A m \in 1 .. Len(ms) : Grows(ms, rows, m)
<1>0. /\ Len(ms) \in Nat
      /\ \A m \in 1 .. Len(ms) : ms[m] \in Seq(RowNodes)
      /\ \A m \in 0 .. Len(ms) : rows[m] \in Seq(RowNodes)
      /\ rows[0] = << >>
  BY LenProperties, ElementOfSeq DEF Filled, Rows
<1>1. /\ \A m \in 0 .. Len(ms) : Len(rows[m]) \in Nat
      /\ \A m \in 1 .. Len(ms) : Len(ms[m]) \in Nat
  BY <1>0, LenProperties
<1>2. ASSUME NEW m \in 1 .. Len(ms)
      PROVE  Grows(ms, rows, m)
  <2>1. PICK s \in Seq(RowNodes), t \in Seq(RowNodes) : s = rows[m - 1] /\ t = ms[m]
    <3>1. m - 1 \in 0 .. Len(ms)
      BY <1>0
    <3> QED
      BY <1>0, <3>1
  <2>2. rows[m] = s \o t
    BY <2>1 DEF Rows
  <2>3. PICK a \in Nat, b \in Nat : a = Len(s) /\ b = Len(t)
    BY LenProperties
  <2>7. /\ Len(s \o t) = a + b
        /\ \A i \in 1 .. a + b : (s \o t)[i] = IF i <= a THEN s[i] ELSE t[i - a]
    BY <2>3, ConcatProperties
  <2>4. PICK u : /\ u = s \o t
                 /\ Len(u) = a + b
                 /\ \A i \in 1 .. a + b : u[i] = IF i <= a THEN s[i] ELSE t[i - a]
    BY <2>7
  <2>5. \A z \in 1 .. a : u[z] = s[z]
    BY <2>3, <2>4
  <2>6. ASSUME NEW x \in 1 .. b PROVE u[a + x] = t[x]
    <3>1. a + x \in 1 .. a + b /\ ~(a + x <= a) /\ (a + x) - a = x
      OBVIOUS
    <3> QED
      BY <2>4, <3>1
  <2> QED
    BY <2>1, <2>2, <2>3, <2>4, <2>5, <2>6 DEF Grows
<1> QED
  BY <1>0, <1>1, <1>2

\* Where the rows of a matrix are, among all rows.
PlacedAt(ms, rows, m, y) ==
    /\ Len(rows[m - 1]) + y \in 1 .. Len(rows[Len(ms)])
    /\ rows[Len(ms)][Len(rows[m - 1]) + y] = ms[m][y]

\* A row of a matrix lies behind the rows of the matrices before.
LEMMA RowsPlaced ==
    ASSUME NEW ms, Filled(ms), NEW rows, Rows(ms, rows),
           NEW k \in 1 .. Len(ms), NEW v \in 1 .. Len(ms[k])
    PROVE  PlacedAt(ms, rows, k, v)
<1>0. Len(ms) \in Nat /\ \A m \in 1 .. Len(ms) : Len(ms[m]) \in Nat
  BY LenProperties, ElementOfSeq DEF Filled
<1>1. \A m \in 0 .. Len(ms) : Len(rows[m]) \in Nat
  BY RowsGrow
<1>2. \A m \in 1 .. Len(ms) : Grows(ms, rows, m)
  BY RowsGrow
<1> DEFINE Right(m) ==
             \A l \in 1 .. m : \A x \in 1 .. Len(ms[l]) :
                 /\ Len(rows[l - 1]) + x \in 1 .. Len(rows[m])
                 /\ rows[m][Len(rows[l - 1]) + x] = ms[l][x]
           T == {m \in 0 .. Len(ms) : Right(m)}
<1>3. 0 \in T
  BY <1>0
<1>4. ASSUME NEW m \in 0 .. Len(ms) - 1, m \in T PROVE m + 1 \in T
  <2>1. /\ m + 1 \in 1 .. Len(ms) /\ m + 1 \in 0 .. Len(ms) /\ (m + 1) - 1 = m /\ m \in 0 .. Len(ms)
        /\ Right(m)
    <3>1. m + 1 \in 1 .. Len(ms) /\ m + 1 \in 0 .. Len(ms) /\ (m + 1) - 1 = m /\ m \in 0 .. Len(ms)
      BY <1>0
    <3> HIDE DEF Right
    <3> QED
      BY <1>4, <3>1
  <2>2. PICK a \in Nat, b \in Nat : a = Len(rows[m]) /\ b = Len(ms[m + 1]) /\ Len(rows[m + 1]) = a + b
    <3>1. Len(rows[m]) \in Nat /\ Len(ms[m + 1]) \in Nat
      BY <1>0, <1>1, <2>1
    <3>2. Grows(ms, rows, m + 1)
      BY <1>2, <2>1
    <3>3. Len(rows[m + 1]) = Len(rows[m]) + Len(ms[m + 1])
      BY <2>1, <3>2 DEF Grows
    <3> QED
      BY <3>1, <3>3
  <2> HIDE DEF T, Right
  <2>3. ASSUME NEW l \in 1 .. m + 1, NEW x \in 1 .. Len(ms[l])
        PROVE  /\ Len(rows[l - 1]) + x \in 1 .. Len(rows[m + 1])
               /\ rows[m + 1][Len(rows[l - 1]) + x] = ms[l][x]
    <3>1. CASE l = m + 1
      <4>1. rows[m + 1][a + x] = ms[m + 1][x]
        BY <1>2, <2>1, <2>2, <3>1 DEF Grows
      <4>2. a + x \in 1 .. a + b
        <5>1. PICK y \in 1 .. b : y = x
          BY <2>2, <3>1
        <5>2. a + y \in 1 .. a + b
          OBVIOUS
        <5> QED
          BY <5>1, <5>2
      <4> QED
        BY <2>1, <2>2, <3>1, <4>1, <4>2
    <3>2. CASE l \in 1 .. m
      <4>1. /\ Len(rows[l - 1]) + x \in 1 .. Len(rows[m])
            /\ rows[m][Len(rows[l - 1]) + x] = ms[l][x]
        BY <2>1, <3>2 DEF Right
      <4>2. PICK z \in 1 .. a : z = Len(rows[l - 1]) + x
        BY <2>2, <4>1
      <4>3. rows[m + 1][z] = rows[m][z]
        <5>1. \A y \in 1 .. Len(rows[(m + 1) - 1]) : rows[m + 1][y] = rows[(m + 1) - 1][y]
          BY <1>2, <2>1 DEF Grows
        <5> QED
          BY <2>1, <2>2, <5>1
      <4>4. z \in 1 .. a + b
        OBVIOUS
      <4> QED
        BY <2>2, <4>1, <4>2, <4>3, <4>4
    <3> QED
      BY <2>1, <3>1, <3>2
  <2>4. Right(m + 1)
    BY <2>3 DEF Right
  <2> QED
    BY <2>1, <2>4 DEF T
<1> HIDE DEF T
<1>5. \A m \in 0 .. Len(ms) : m \in T
  BY <1>0, <1>3, <1>4, Climb
<1>6. Right(Len(ms))
  <2>1. Len(ms) \in 0 .. Len(ms)
    BY <1>0
  <2> HIDE DEF Right
  <2> QED
    BY <1>5, <2>1 DEF T
<1> QED
  BY <1>6 DEF PlacedAt

\* The x-th row, and the matrix it is in.
ActiveAt(ms, rows, x, active) ==
    /\ active.matrix \in 1 .. Len(ms)
    /\ active.offset = Len(rows[active.matrix - 1])
    /\ x - active.offset \in 1 .. Len(ms[active.matrix])
    /\ rows[Len(ms)][x] = ms[active.matrix][x - active.offset]

\* At each row the current matrix is the one that has it.
LEMMA RowsAreActive ==
    ASSUME NEW ms, Filled(ms), NEW n \in Nat, NEW rows, Rows(ms, rows),
           NEW x \in 1 .. Len(rows[Len(ms)]), x <= n
    PROVE  ActiveAt(ms, rows, x, ActiveMatrices(ms, n)[x])
<1> DEFINE k == Len(ms)
           X == [matrix : 1 .. k, offset : Nat]
           after(a, z) ==
             IF z - a.offset > Len(ms[a.matrix])
             THEN [matrix |-> IF a.matrix < k THEN a.matrix + 1 ELSE a.matrix,
                   offset |-> a.offset + Len(ms[a.matrix])]
             ELSE a
           base == [matrix |-> 1, offset |-> 0]
           step == [az \in X \X (1 .. n) |-> after(az[1], az[2])]
           Solves(f) == f = [z \in 0 .. n |->
                               IF z = 0 THEN [matrix |-> 1, offset |-> 0]
                               ELSE LET a == f[z - 1]
                                        nRows == Len(ms[a.matrix])
                                    IN  IF z - a.offset > nRows
                                        THEN [matrix |-> IF a.matrix < Len(ms) THEN a.matrix + 1 ELSE a.matrix,
                                              offset |-> a.offset + nRows]
                                        ELSE a]
           c == CHOOSE f : Solves(f)
<1>0. /\ k \in Nat /\ \A m \in 1 .. k : Len(ms[m]) \in Nat /\ Len(ms[m]) > 0
      /\ \A m \in 0 .. k : Len(rows[m]) \in Nat
      /\ \A m \in 1 .. k : Len(rows[m]) = Len(rows[m - 1]) + Len(ms[m])
      /\ rows[0] = << >>
  <2>1. ms \in Seq(Seq(RowNodes)) /\ \A m \in 1 .. k : Len(ms[m]) > 0
    BY DEF Filled
  <2>2. k \in Nat /\ \A m \in 1 .. k : Len(ms[m]) \in Nat
    BY <2>1, LenProperties, ElementOfSeq
  <2>3. \A m \in 0 .. Len(ms) : Len(rows[m]) \in Nat
    BY RowsGrow
  <2>4. \A m \in 1 .. Len(ms) : Grows(ms, rows, m)
    BY RowsGrow
  <2>5. \A m \in 1 .. Len(ms) : Len(rows[m]) = Len(rows[m - 1]) + Len(ms[m])
    BY <2>4 DEF Grows
  <2> QED
    BY <2>1, <2>2, <2>3, <2>5 DEF Rows
<1>1. k > 0
  BY <1>0
<1>2. base \in X /\ step \in [X \X (1 .. n) -> X]
  <2>1. ASSUME NEW a \in X, NEW z \in 1 .. n PROVE after(a, z) \in X
    <3>1. a.matrix \in 1 .. k /\ a.offset \in Nat /\ Len(ms[a.matrix]) \in Nat
      BY <1>0
    <3> QED
      BY <1>0, <3>1
  <2>2. base \in X
    BY <1>0, <1>1
  <2> HIDE DEF X, after, base
  <2> QED
    BY <2>1, <2>2
<1>3. PICK p \in [0 .. n -> X] : GoesOn(p, base, step, n)
  <2> HIDE DEF step, X, base
  <2> QED
    BY <1>2, StepsExist DEF HasSteps
<1>4. p[0] = base /\ \A z \in 1 .. n : p[z] = after(p[z - 1], z)
  <2>1. ASSUME NEW z \in 1 .. n PROVE p[z] = after(p[z - 1], z)
    <3>1. z - 1 \in 0 .. n
      OBVIOUS
    <3> HIDE DEF X, after
    <3>2. <<p[z - 1], z>> \in X \X (1 .. n)
      BY <1>3, <3>1
    <3>3. p[z] = step[<<p[z - 1], z>>]
      BY <1>3 DEF GoesOn
    <3> QED
      BY <3>2, <3>3
  <2> HIDE DEF after
  <2> QED
    BY <1>3, <2>1 DEF GoesOn
<1>5. Solves(p)
  <2> HIDE DEF X
  <2>1. p = [z \in 0 .. n |-> p[z]]
    BY <1>3
  <2>2. \A z \in 0 .. n : z = 0 \/ z \in 1 .. n
    OBVIOUS
  <2> QED
    BY <1>4, <2>1, <2>2
<1>6. Solves(c)
  <2> HIDE DEF Solves
  <2> QED
    BY <1>5
<1>7. ActiveMatrices(ms, n) = c
  BY DEF ActiveMatrices
<1> HIDE DEF c
<1>8. c[0] = base /\ \A z \in 1 .. n : c[z] = after(c[z - 1], z)
  <2>1. 0 \in 0 .. n /\ \A z \in 1 .. n : z \in 0 .. n /\ z # 0
    OBVIOUS
  <2> QED
    BY <1>6, <2>1
<1> DEFINE R == Len(rows[k])
           At(m, o, z) == m \in 1 .. k /\ o = Len(rows[m - 1]) /\ o < z /\ z <= o + Len(ms[m])
           T == {i \in 0 .. n : i + 1 <= R /\ i + 1 <= n => At(c[i + 1].matrix, c[i + 1].offset, i + 1)}
<1> HIDE DEF Solves, step, X
<1>9. 0 \in T
  <2> SUFFICES ASSUME 1 <= n PROVE At(c[1].matrix, c[1].offset, 1)
    OBVIOUS
  <2>1. c[1] = after(base, 1)
    <3>1. 1 \in 1 .. n /\ 1 - 1 = 0
      OBVIOUS
    <3> HIDE DEF after, base
    <3> QED
      BY <1>8, <3>1
  <2>2. Len(ms[1]) \in Nat /\ Len(ms[1]) > 0 /\ Len(rows[0]) = 0 /\ 1 \in 1 .. k
    BY <1>0, <1>1
  <2>3. c[1] = base
    BY <2>1, <2>2
  <2> QED
    BY <2>2, <2>3
<1>10. ASSUME NEW i \in 0 .. n - 1, i \in T PROVE i + 1 \in T
  <2> SUFFICES ASSUME i + 2 <= R, i + 2 <= n PROVE At(c[i + 2].matrix, c[i + 2].offset, i + 2)
    <3> HIDE DEF At, R
    <3>1. i + 1 \in 0 .. n /\ (i + 1) + 1 = i + 2
      OBVIOUS
    <3> QED
      BY <3>1
  <2>1. R \in Nat
    BY <1>0
  <2>2. i \in Nat /\ i + 1 <= R /\ i + 1 <= n /\ i + 2 \in 1 .. n /\ (i + 2) - 1 = i + 1
    <3> HIDE DEF R
    <3> QED
      BY <2>1
  <2>3. c[i + 2] = after(c[i + 1], i + 2)
    <3> HIDE DEF after, R
    <3> QED
      BY <1>8, <2>2
  <2>4. At(c[i + 1].matrix, c[i + 1].offset, i + 1)
    <3> HIDE DEF At, R
    <3> QED
      BY <1>10, <2>2
  <2>0. PICK h \in Nat : h = k
    BY <1>0
  <2>5. PICK m \in 1 .. h, o \in Nat, b \in Nat :
            /\ m = c[i + 1].matrix /\ o = c[i + 1].offset /\ b = Len(ms[m])
            /\ o = Len(rows[m - 1]) /\ o < i + 1 /\ i + 1 <= o + b
    <3>1. PICK m : m = c[i + 1].matrix
      OBVIOUS
    <3>2. m \in 1 .. h
      BY <2>0, <2>4, <3>1
    <3>3. m - 1 \in 0 .. k
      BY <2>0, <3>2
    <3>4. PICK o \in Nat, b \in Nat : o = Len(rows[m - 1]) /\ b = Len(ms[m])
      BY <1>0, <2>0, <3>2, <3>3
    <3> QED
      BY <2>4, <3>1, <3>2, <3>4
  <2>8. o < i + 1 /\ i + 1 <= o + b
    BY <2>5
  <2>6. Len(rows[m]) = o + b
    BY <1>0, <2>0, <2>5
  <2>7. CASE i + 2 > o + b
    <3>1. m < k
      <4>1. SUFFICES ASSUME m = h PROVE FALSE
        BY <2>0
      <4>2. R = o + b
        BY <2>0, <2>6, <4>1
      <4>3. i + 2 <= o + b
        BY <4>2
      <4> QED
        BY <2>7, <4>3
    <3>2. (i + 2) - o > b
      BY <2>7
    <3>3. c[i + 2] = [matrix |-> m + 1, offset |-> o + b]
      BY <2>3, <2>5, <3>1, <3>2
    <3>4. m + 1 \in 1 .. h /\ (m + 1) - 1 = m
      BY <2>0, <3>1
    <3>6. PICK d \in Nat : d = Len(ms[m + 1]) /\ d > 0
      <4> HIDE DEF k
      <4> QED
        BY <1>0, <2>0, <3>4
    <3>7. o + b < i + 2 /\ i + 2 <= (o + b) + d
      <4>1. d >= 1
        BY <3>6
      <4> QED
        BY <2>7, <2>8, <4>1
    <3>5. At(m + 1, o + b, i + 2)
      <4> HIDE DEF k
      <4> QED
        BY <2>0, <2>6, <3>4, <3>6, <3>7
    <3> HIDE DEF At
    <3> QED
      BY <3>3, <3>5
  <2>9. CASE ~(i + 2 > o + b)
    <3>1. ~((i + 2) - o > b)
      BY <2>9
    <3>2. c[i + 2] = c[i + 1]
      BY <2>3, <2>5, <3>1
    <3>3. o < i + 2 /\ i + 2 <= o + b
      BY <2>8, <2>9
    <3>4. At(m, o, i + 2)
      BY <2>0, <2>5, <3>3
    <3> HIDE DEF At
    <3> QED
      BY <2>5, <3>2, <3>4
  <2> QED
    BY <2>7, <2>9
<1> HIDE DEF T, At
<1>11. \A i \in 0 .. n : i \in T
  BY <1>9, <1>10, Climb
<1>12. At(c[x].matrix, c[x].offset, x)
  <2>1. x - 1 \in 0 .. n /\ (x - 1) + 1 = x /\ x <= R /\ x <= n
    BY <1>0
  <2> HIDE DEF R
  <2> QED
    BY <1>11, <2>1 DEF T
<1>16. PICK h \in Nat, w \in Nat : h = k /\ w = x
  BY <1>0
<1>13. PICK m \in 1 .. h, o \in Nat, b \in Nat :
          /\ m = c[x].matrix /\ o = c[x].offset /\ b = Len(ms[m])
          /\ o = Len(rows[m - 1]) /\ o < w /\ w <= o + b
  <2>1. PICK m : m = c[x].matrix
    OBVIOUS
  <2>2. m \in 1 .. h
    BY <1>12, <1>16, <2>1 DEF At
  <2>3. m - 1 \in 0 .. k
    BY <1>16, <2>2
  <2>4. PICK o \in Nat, b \in Nat : o = Len(rows[m - 1]) /\ b = Len(ms[m])
    BY <1>0, <1>16, <2>2, <2>3
  <2> QED
    BY <1>12, <1>16, <2>1, <2>2, <2>4 DEF At
<1>14. /\ m \in 1 .. k /\ o = Len(rows[m - 1]) /\ x - o \in 1 .. Len(ms[m]) /\ o + (x - o) = x
  <2>2. o < w /\ w <= o + b
    BY <1>13
  <2>1. w - o \in 1 .. b /\ o + (w - o) = w
    BY <2>2
  <2> QED
    BY <1>13, <1>16, <2>1
<1>15. rows[k][x] = ms[m][x - o]
  <2>1. PICK y \in 1 .. Len(ms[m]) : y = x - o
    BY <1>14
  <2>2. rows[Len(ms)][Len(rows[m - 1]) + y] = ms[m][y]
    <3>1. m \in 1 .. Len(ms)
      BY <1>14
    <3>2. PlacedAt(ms, rows, m, y)
      BY <3>1, RowsPlaced
    <3> QED
      BY <3>2 DEF PlacedAt
  <2> QED
    BY <1>14, <2>1, <2>2
<1> QED
  BY <1>7, <1>13, <1>14, <1>15, <1>16 DEF ActiveAt

\* What is asked of the matrices and the observables.
Arranged(ms, obs) ==
    /\ Filled(ms)
    /\ obs \in Seq(ObservableNodes)
    /\ \A i, j \in DOMAIN obs : obs[i].of = obs[j].of => i = j
    /\ \A m \in DOMAIN ms : \A x \in DOMAIN ms[m] :
          /\ Len(ms[m][x].columns) = Len(ms[m])
          /\ \E o \in Range(obs) : o.of = ms[m][x].name
    /\ \A m, n \in DOMAIN ms : \A x \in DOMAIN ms[m], y \in DOMAIN ms[n] :
          ms[m][x].name = ms[n][y].name => m = n /\ x = y

\* Rows of different names, of observables.
RowsDiffer(r) == \A x, z \in 1 .. Len(r) : r[x].name = r[z].name => x = z
RowsAreOf(r, obs) == \A x \in 1 .. Len(r) : \E i \in 1 .. Len(obs) : obs[i].of = r[x].name

\* Every row is one of a matrix, names an observable, and no two name the same.
LEMMA RowsAreSomewhere ==
    ASSUME NEW ms, NEW obs, Arranged(ms, obs)
    PROVE  /\ Len(RowsOf(ms)) \in Nat
           /\ RowsOf(ms) \in Seq(RowNodes)
           /\ \A x \in 1 .. Len(RowsOf(ms)) : \E m \in 1 .. Len(ms) : \E y \in 1 .. Len(ms[m]) :
                 RowsOf(ms)[x] = ms[m][y] /\ x = Len(RowsUpTo(ms)[m - 1]) + y
           /\ RowsDiffer(RowsOf(ms))
           /\ RowsAreOf(RowsOf(ms), obs)
<1>0. Filled(ms) /\ ms \in Seq(Seq(RowNodes)) /\ Len(ms) \in Nat
      /\ DOMAIN ms = 1 .. Len(ms)
  BY LenProperties DEF Arranged, Filled
<1>1. \A m \in 1 .. Len(ms) : DOMAIN ms[m] = 1 .. Len(ms[m])
  BY <1>0, LenProperties, ElementOfSeq
<1>2. PICK rows : rows = RowsUpTo(ms) /\ Rows(ms, rows)
  BY <1>0, RowsSteps
<1>3. PICK r \in Seq(RowNodes), R \in Nat : r = RowsOf(ms) /\ r = rows[Len(ms)] /\ R = Len(r)
  <2>1. rows[Len(ms)] \in Seq(RowNodes)
    BY <1>0, <1>2 DEF Rows
  <2> QED
    BY <1>2, <2>1, LenProperties DEF RowsOf
<1>7. \A m \in 1 .. Len(ms) : \A x \in 1 .. Len(ms[m]) : \E o \in Range(obs) : o.of = ms[m][x].name
  BY <1>0, <1>1 DEF Arranged
<1>8. \A m, l \in 1 .. Len(ms) : \A x \in 1 .. Len(ms[m]), y \in 1 .. Len(ms[l]) :
          ms[m][x].name = ms[l][y].name => m = l /\ x = y
  <2>1. \A m, l \in 1 .. Len(ms) : \A x \in DOMAIN ms[m], y \in DOMAIN ms[l] :
          ms[m][x].name = ms[l][y].name => m = l /\ x = y
    BY <1>0 DEF Arranged
  <2> QED
    BY <1>1, <2>1
<1>4. ASSUME NEW x \in 1 .. R
      PROVE  \E m \in 1 .. Len(ms) : \E y \in 1 .. Len(ms[m]) :
                 r[x] = ms[m][y] /\ x = Len(rows[m - 1]) + y
  <2>1. PICK a : a = ActiveMatrices(ms, R)[x]
    OBVIOUS
  <2>2. /\ a.matrix \in 1 .. Len(ms)
        /\ a.offset = Len(rows[a.matrix - 1])
        /\ x - a.offset \in 1 .. Len(ms[a.matrix])
        /\ r[x] = ms[a.matrix][x - a.offset]
    <3>1. x \in 1 .. Len(rows[Len(ms)]) /\ x <= R /\ R \in Nat
      BY <1>3
    <3>2. ActiveAt(ms, rows, x, a)
      BY <1>0, <1>2, <2>1, <3>1, RowsAreActive
    <3> QED
      BY <1>3, <3>2 DEF ActiveAt
  <2>3. Len(rows[a.matrix - 1]) \in Nat
    <3>1. a.matrix - 1 \in 0 .. Len(ms)
      BY <1>0, <2>2
    <3> QED
      BY <1>0, <1>2, <3>1, RowsGrow
  <2>4. PICK m \in 1 .. Len(ms), o \in Nat : m = a.matrix /\ o = a.offset
    BY <2>2, <2>3
  <2>5. o + (x - o) = x
    OBVIOUS
  <2>6. PICK y \in 1 .. Len(ms[m]) : y = x - o
    BY <2>2, <2>4
  <2> QED
    BY <2>2, <2>4, <2>5, <2>6
<1>5. ASSUME NEW x \in 1 .. R, NEW z \in 1 .. R, r[x].name = r[z].name PROVE x = z
  <2>1. PICK m \in 1 .. Len(ms) : \E y \in 1 .. Len(ms[m]) : r[x] = ms[m][y] /\ x = Len(rows[m - 1]) + y
    BY <1>4
  <2>2. PICK y \in 1 .. Len(ms[m]) : r[x] = ms[m][y] /\ x = Len(rows[m - 1]) + y
    BY <2>1
  <2>3. PICK l \in 1 .. Len(ms) : \E w \in 1 .. Len(ms[l]) : r[z] = ms[l][w] /\ z = Len(rows[l - 1]) + w
    BY <1>4
  <2>4. PICK w \in 1 .. Len(ms[l]) : r[z] = ms[l][w] /\ z = Len(rows[l - 1]) + w
    BY <2>3
  <2>6. ms[m][y].name = ms[l][w].name
    BY <1>5, <2>2, <2>4
  <2>5. m = l /\ y = w
    BY <1>8, <2>6
  <2> QED
    BY <2>2, <2>4, <2>5
<1>6. ASSUME NEW x \in 1 .. R PROVE \E i \in 1 .. Len(obs) : obs[i].of = r[x].name
  <2>1. PICK m \in 1 .. Len(ms) : \E y \in 1 .. Len(ms[m]) : r[x] = ms[m][y]
    BY <1>4
  <2>2. PICK o \in Range(obs) : o.of = r[x].name
    BY <1>7, <2>1
  <2>3. DOMAIN obs = 1 .. Len(obs)
    BY LenProperties DEF Arranged
  <2> QED
    BY <2>2, <2>3 DEF Range
<1>9. RowsDiffer(r)
  BY <1>3, <1>5 DEF RowsDiffer
<1>10. RowsAreOf(r, obs)
  BY <1>3, <1>6 DEF RowsAreOf
<1> QED
  BY <1>2, <1>3, <1>4, <1>9, <1>10

\* No name is left out for being there already.
LEMMA NamesInOrder ==
    ASSUME NEW ms, NEW obs, Arranged(ms, obs)
    PROVE  NamesOfRows(ms) = [x \in 1 .. Len(RowsOf(ms)) |-> RowsOf(ms)[x].name]
<1>1. PICK r \in Seq(RowNodes), R \in Nat : r = RowsOf(ms) /\ R = Len(r)
  BY RowsAreSomewhere
<1>2. \A x, z \in 1 .. R : r[x].name = r[z].name => x = z
  <2>1. RowsDiffer(r)
    BY <1>1, RowsAreSomewhere
  <2> QED
    BY <1>1, <2>1 DEF RowsDiffer
<1> DEFINE N == STRING \X STRING
           Solves(f) == f = [x \in 0 .. R |->
                               IF x = 0 THEN << >>
                               ELSE IF Contains(f[x - 1], r[x].name) THEN f[x - 1]
                                    ELSE Append(f[x - 1], r[x].name)]
           c == CHOOSE f : Solves(f)
           p == [x \in 0 .. R |-> [z \in 1 .. x |-> r[z].name]]
<1>3. \A x \in 1 .. R : r[x].name \in N
  <2>1. \A x \in 1 .. R : r[x] \in RowNodes
    BY <1>1, ElementOfSeq
  <2> QED
    BY <2>1 DEF RowNodes
<1>4. ASSUME NEW x \in 1 .. R
      PROVE  p[x] = IF Contains(p[x - 1], r[x].name) THEN p[x - 1] ELSE Append(p[x - 1], r[x].name)
  <2>1. p[x] = [z \in 1 .. x |-> r[z].name] /\ p[x - 1] = [z \in 1 .. x - 1 |-> r[z].name]
    OBVIOUS
  <2>2. PICK s \in Seq(N) : s = p[x - 1] /\ Len(s) = x - 1
    <3>1. \A z \in 1 .. x - 1 : r[z].name \in N
      BY <1>3
    <3>2. [z \in 1 .. x - 1 |-> r[z].name] \in Seq(N)
      BY <3>1
    <3>3. Len([z \in 1 .. x - 1 |-> r[z].name]) = x - 1
      OBVIOUS
    <3> HIDE DEF p, N
    <3> QED
      BY <2>1, <3>2, <3>3
  <2>3. \A z \in 1 .. x - 1 : s[z] = r[z].name
    BY <2>1, <2>2
  <2>4. ~Contains(s, r[x].name)
    <3>1. \A z \in 1 .. x - 1 : s[z] # r[x].name
      BY <1>2, <2>3
    <3> QED
      BY <2>2, <3>1 DEF Contains
  <2>5. PICK t : t = Append(s, r[x].name)
    OBVIOUS
  <2>6. t \in Seq(N) /\ Len(t) = x /\ t[x] = r[x].name /\ \A z \in 1 .. x - 1 : t[z] = r[z].name
    <3>1. t \in Seq(N) /\ Len(t) = Len(s) + 1 /\ t[Len(s) + 1] = r[x].name
          /\ \A z \in 1 .. Len(s) : t[z] = s[z]
      BY <1>3, <2>5, AppendProperties
    <3>2. Len(s) + 1 = x
      BY <2>2
    <3> QED
      BY <2>2, <2>3, <3>1, <3>2
  <2>7. t = [z \in 1 .. x |-> r[z].name]
    <3>1. t = [z \in 1 .. x |-> t[z]]
      BY <2>6, LenProperties
    <3>2. \A z \in 1 .. x : z = x \/ z \in 1 .. x - 1
      OBVIOUS
    <3>3. \A z \in 1 .. x : t[z] = r[z].name
      BY <2>6, <3>2
    <3> QED
      BY <3>1, <3>3
  <2> HIDE DEF p
  <2> QED
    BY <2>1, <2>2, <2>4, <2>5, <2>7
<1>5. p[0] = << >>
  OBVIOUS
<1>6. Solves(p)
  <2>1. p = [x \in 0 .. R |-> p[x]]
    OBVIOUS
  <2>2. \A x \in 0 .. R : x = 0 \/ x \in 1 .. R
    OBVIOUS
  <2> HIDE DEF p
  <2> QED
    BY <1>4, <1>5, <2>1, <2>2
<1>7. Solves(c)
  <2> HIDE DEF Solves, p
  <2> QED
    BY <1>6
<1>8. NamesOfRows(ms) = c[R]
  BY <1>1 DEF NamesOfRows
<1> HIDE DEF c
<1>9. c[0] = << >> /\ \A x \in 1 .. R :
         c[x] = IF Contains(c[x - 1], r[x].name) THEN c[x - 1] ELSE Append(c[x - 1], r[x].name)
  <2>1. 0 \in 0 .. R /\ \A x \in 1 .. R : x \in 0 .. R /\ x # 0
    OBVIOUS
  <2> QED
    BY <1>7, <2>1
<1> HIDE DEF p, Solves
<1>10. c[R] = p[R]
  <2> DEFINE T == {x \in 0 .. R : c[x] = p[x]}
  <2>1. 0 \in T
    BY <1>5, <1>9
  <2>2. ASSUME NEW x \in 0 .. R - 1, x \in T PROVE x + 1 \in T
    <3>1. x + 1 \in 1 .. R /\ x + 1 \in 0 .. R /\ (x + 1) - 1 = x
      OBVIOUS
    <3>2. c[x] = p[x]
      BY <2>2
    <3>3. c[x + 1] = p[x + 1]
      BY <1>4, <1>9, <3>1, <3>2
    <3> QED
      BY <3>1, <3>3
  <2> HIDE DEF T
  <2>3. \A x \in 0 .. R : x \in T
    BY <2>1, <2>2, Climb
  <2> QED
    BY <2>3 DEF T
<1> QED
  BY <1>1, <1>8, <1>10 DEF p

\* The names of the rows, then those of the other observables: they are as many as the
\* observables, each there once.
Indexed(ms, obs, names) ==
    /\ Len(names) \in 0 .. Len(obs)
    /\ DOMAIN names = 1 .. Len(names)
    /\ \A x, y \in 1 .. Len(names) : names[x] = names[y] => x = y
    /\ \A i \in 1 .. Len(obs) : \E x \in 1 .. Len(names) : names[x] = obs[i].of
    /\ Len(names) = Len(RowsOf(ms)) + Len(Others(obs, ms))
    /\ \A x \in 1 .. Len(RowsOf(ms)) : names[x] = RowsOf(ms)[x].name
    /\ \A k \in 1 .. Len(Others(obs, ms)) :
          /\ Others(obs, ms)[k] \in 1 .. Len(obs)
          /\ names[Len(RowsOf(ms)) + k] = obs[Others(obs, ms)[k]].of

\* The index is in order.
LEMMA NamesAreAll ==
    ASSUME NEW ms, NEW obs, Arranged(ms, obs)
    PROVE  Indexed(ms, obs, IndexOfNames(obs, ms))
<1> DEFINE N == STRING \X STRING
<1>1. PICK r \in Seq(RowNodes), R \in Nat, n \in Nat : r = RowsOf(ms) /\ R = Len(r) /\ n = Len(obs)
  <2>1. RowsOf(ms) \in Seq(RowNodes) /\ Len(RowsOf(ms)) \in Nat
    BY RowsAreSomewhere
  <2>2. Len(obs) \in Nat
    BY LenProperties DEF Arranged
  <2> QED
    BY <2>1, <2>2
<1>2. /\ \A x, z \in 1 .. R : r[x].name = r[z].name => x = z
      /\ \A x \in 1 .. R : \E i \in 1 .. n : obs[i].of = r[x].name
  <2>1. RowsDiffer(r) /\ RowsAreOf(r, obs)
    BY <1>1, RowsAreSomewhere
  <2> QED
    BY <1>1, <2>1 DEF RowsDiffer, RowsAreOf
<1>3. /\ DOMAIN obs = 1 .. n
      /\ \A i \in 1 .. n : obs[i].of \in N
      /\ \A i, j \in 1 .. n : obs[i].of = obs[j].of => i = j
  <2>1. DOMAIN obs = 1 .. n /\ \A i \in 1 .. n : obs[i] \in ObservableNodes
    BY <1>1, LenProperties, ElementOfSeq DEF Arranged
  <2>2. \A i \in 1 .. n : obs[i].of \in N
    BY <2>1 DEF ObservableNodes
  <2>3. \A i, j \in 1 .. n : obs[i].of = obs[j].of => i = j
    BY <2>1 DEF Arranged
  <2> HIDE DEF N
  <2> QED
    BY <2>1, <2>2, <2>3
<1>4. PICK s \in Seq(N) : /\ s = NamesOfRows(ms) /\ Len(s) = R
                          /\ \A x \in 1 .. R : s[x] = r[x].name
  <2>1. \A x \in 1 .. R : r[x].name \in N
    <3>1. \A x \in 1 .. R : r[x] \in RowNodes
      BY <1>1, ElementOfSeq
    <3> QED
      BY <3>1 DEF RowNodes
  <2>2. NamesOfRows(ms) = [x \in 1 .. R |-> r[x].name]
    BY <1>1, NamesInOrder
  <2>3. [x \in 1 .. R |-> r[x].name] \in Seq(N) /\ Len([x \in 1 .. R |-> r[x].name]) = R
    BY <2>1
  <2> HIDE DEF N
  <2> QED
    BY <2>2, <2>3
<1>5. PICK others \in Seq(1 .. n), L \in Nat :
         /\ others = Others(obs, ms) /\ L = Len(others)
         /\ \A k \in 1 .. L : others[k] \in 1 .. n /\ ~Contains(s, obs[others[k]].of)
         /\ \A i \in 1 .. n : ~Contains(s, obs[i].of) => \E k \in 1 .. L : others[k] = i
         /\ \A k, l \in 1 .. L : others[k] = others[l] => k = l
  <2> DEFINE S == {i \in DOMAIN obs : ~Contains(NamesOfRows(ms), obs[i].of)}
  <2>1. Others(obs, ms) = Ascending(n, S)
    BY <1>1 DEF Others
  <2>2. \A i \in 1 .. n : i \in S <=> ~Contains(s, obs[i].of)
    BY <1>3, <1>4
  <2> HIDE DEF S
  <2>3. PICK others : others = Ascending(n, S)
    OBVIOUS
  <2>4. /\ others \in Seq(1 .. n)
        /\ \A k \in 1 .. Len(others) : others[k] \in S
        /\ \A i \in 1 .. n : i \in S => \E k \in 1 .. Len(others) : others[k] = i
        /\ \A k, l \in 1 .. Len(others) : others[k] = others[l] => k = l
    BY <2>3, Ascends
  <2>5. PICK L \in Nat : L = Len(others)
    BY <2>4, LenProperties
  <2>6. \A k \in 1 .. L : others[k] \in 1 .. n
    BY <2>4, <2>5, ElementOfSeq
  <2> QED
    BY <2>1, <2>2, <2>3, <2>4, <2>5, <2>6
<1>6. PICK t \in Seq(N) : /\ t = [k \in DOMAIN others |-> obs[others[k]].of] /\ Len(t) = L
                          /\ \A k \in 1 .. L : t[k] = obs[others[k]].of
  <2>1. DOMAIN others = 1 .. L
    BY <1>5, LenProperties
  <2>2. \A k \in 1 .. L : obs[others[k]].of \in N
    BY <1>3, <1>5
  <2>3. [k \in 1 .. L |-> obs[others[k]].of] \in Seq(N) /\ Len([k \in 1 .. L |-> obs[others[k]].of]) = L
    BY <2>2
  <2> HIDE DEF N
  <2> QED
    BY <2>1, <2>3
<1>7. PICK names : names = IndexOfNames(obs, ms) /\ names = s \o t
  BY <1>4, <1>5, <1>6 DEF IndexOfNames
<1>8. /\ names \in Seq(N) /\ Len(names) = R + L
      /\ \A i \in 1 .. R + L : names[i] = IF i <= R THEN s[i] ELSE t[i - R]
  <2> HIDE DEF N
  <2>1. /\ s \o t \in Seq(N) /\ Len(s \o t) = Len(s) + Len(t)
        /\ \A i \in 1 .. Len(s) + Len(t) : (s \o t)[i] = IF i <= Len(s) THEN s[i] ELSE t[i - Len(s)]
    BY ConcatProperties
  <2>2. Len(s) = R /\ Len(t) = L
    BY <1>4, <1>6
  <2> QED
    BY <1>7, <2>1, <2>2
<1>9. \A x \in 1 .. R : names[x] = r[x].name
  BY <1>4, <1>8
<1>10. ASSUME NEW k \in 1 .. L PROVE names[R + k] = obs[others[k]].of
  <2>1. R + k \in 1 .. R + L /\ ~(R + k <= R) /\ (R + k) - R = k
    OBVIOUS
  <2> QED
    BY <1>6, <1>8, <2>1
<1>11. \A x \in 1 .. R + L : x \in 1 .. R \/ \E k \in 1 .. L : x = R + k
  <2> TAKE x \in 1 .. R + L
  <2>1. CASE x <= R
    BY <2>1
  <2>2. CASE ~(x <= R)
    <3>1. x - R \in 1 .. L /\ x = R + (x - R)
      BY <2>2
    <3> QED
      BY <3>1
  <2> QED
    BY <2>1, <2>2
<1>12. \A x \in 1 .. R + L : \E i \in 1 .. n : obs[i].of = names[x]
  <2> TAKE x \in 1 .. R + L
  <2>1. CASE x \in 1 .. R
    BY <1>2, <1>9, <2>1
  <2>2. CASE \E k \in 1 .. L : x = R + k
    <3>1. PICK k \in 1 .. L : x = R + k
      BY <2>2
    <3>2. names[x] = obs[others[k]].of /\ others[k] \in 1 .. n
      BY <1>5, <1>10, <3>1
    <3> QED
      BY <3>2
  <2> QED
    BY <1>11, <2>1, <2>2
<1>13. \A i \in 1 .. n : \E x \in 1 .. R + L : names[x] = obs[i].of
  <2> TAKE i \in 1 .. n
  <2>1. CASE Contains(s, obs[i].of)
    <3>1. PICK x \in 1 .. R : s[x] = obs[i].of
      BY <1>4, <2>1 DEF Contains
    <3>2. x \in 1 .. R + L
      OBVIOUS
    <3> QED
      BY <1>4, <1>9, <3>1, <3>2
  <2>2. CASE ~Contains(s, obs[i].of)
    <3>1. PICK k \in 1 .. L : others[k] = i
      BY <1>5, <2>2
    <3>2. R + k \in 1 .. R + L
      OBVIOUS
    <3> QED
      BY <1>10, <3>1, <3>2
  <2> QED
    BY <2>1, <2>2
<1>14. ASSUME NEW x \in 1 .. R + L, NEW y \in 1 .. R + L, names[x] = names[y] PROVE x = y
  <2>0. ASSUME NEW z \in 1 .. R, NEW k \in 1 .. L PROVE names[z] # names[R + k]
    <3>1. ~Contains(s, obs[others[k]].of)
      BY <1>5
    <3>2. \A w \in 1 .. R : s[w] # obs[others[k]].of
      BY <1>4, <3>1 DEF Contains
    <3> QED
      BY <1>4, <1>9, <1>10, <3>2
  <2>1. CASE x \in 1 .. R /\ y \in 1 .. R
    BY <1>2, <1>9, <1>14, <2>1
  <2>2. CASE x \in 1 .. R /\ \E k \in 1 .. L : y = R + k
    BY <1>14, <2>0, <2>2
  <2>3. CASE y \in 1 .. R /\ \E k \in 1 .. L : x = R + k
    BY <1>14, <2>0, <2>3
  <2>4. CASE (\E k \in 1 .. L : x = R + k) /\ (\E k \in 1 .. L : y = R + k)
    <3>1. PICK k \in 1 .. L, l \in 1 .. L : x = R + k /\ y = R + l
      BY <2>4
    <3>2. obs[others[k]].of = obs[others[l]].of
      BY <1>10, <1>14, <3>1
    <3>3. others[k] = others[l]
      BY <1>3, <1>5, <3>2
    <3> QED
      BY <1>5, <3>1, <3>3
  <2> QED
    BY <1>11, <2>1, <2>2, <2>3, <2>4
<1>15. R + L <= n
  <2> DEFINE f == [x \in 1 .. R + L |-> CHOOSE i \in 1 .. n : obs[i].of = names[x]]
  <2>1. \A x \in 1 .. R + L : f[x] \in 1 .. n /\ obs[f[x]].of = names[x]
    BY <1>12
  <2>2. f \in [1 .. R + L -> 1 .. n]
    BY <1>12
  <2> HIDE DEF f
  <2>3. \A x, y \in 1 .. R + L : f[x] = f[y] => x = y
    BY <1>14, <2>1
  <2>4. f \in Injection(1 .. R + L, 1 .. n)
    BY <2>2, <2>3 DEF Injection, IsInjective
  <2>5. IsFiniteSet(1 .. n) /\ Cardinality(1 .. n) = n /\ Cardinality(1 .. R + L) = R + L
    <3>1. \A a, b \in Int : /\ IsFiniteSet(a .. b)
                            /\ Cardinality(a .. b) = IF a > b THEN 0 ELSE b - a + 1
      BY FS_Interval
    <3>2. Cardinality(1 .. n) = IF 1 > n THEN 0 ELSE n - 1 + 1
      BY <3>1
    <3>3. Cardinality(1 .. R + L) = IF 1 > R + L THEN 0 ELSE R + L - 1 + 1
      BY <3>1
    <3> QED
      BY <3>1, <3>2, <3>3
  <2>6. Cardinality(1 .. R + L) <= Cardinality(1 .. n)
    BY <2>4, <2>5, FS_Injection
  <2> QED
    BY <2>5, <2>6
<1>16. PICK w \in 0 .. n : w = R + L
  BY <1>15
<1>17. DOMAIN names = 1 .. w
  BY <1>8, <1>16, LenProperties
<1>18. Len(names) = w
  BY <1>8, <1>16
<1>19. \A x, y \in 1 .. w : names[x] = names[y] => x = y
  BY <1>14, <1>16
<1>20. \A i \in 1 .. n : \E x \in 1 .. w : names[x] = obs[i].of
  BY <1>13, <1>16
<1>21. \A k \in 1 .. L : others[k] \in 1 .. n /\ names[R + k] = obs[others[k]].of
  BY <1>5, <1>10
<1>22. /\ Len(names) \in 0 .. Len(obs) /\ DOMAIN names = 1 .. Len(names)
       /\ Len(names) = Len(RowsOf(ms)) + Len(Others(obs, ms))
  BY <1>1, <1>5, <1>16, <1>17, <1>18
<1>23. \A x, y \in 1 .. Len(names) : names[x] = names[y] => x = y
  BY <1>18, <1>19
<1>24. \A i \in 1 .. Len(obs) : \E x \in 1 .. Len(names) : names[x] = obs[i].of
  BY <1>1, <1>18, <1>20
<1>25. \A x \in 1 .. Len(RowsOf(ms)) : names[x] = RowsOf(ms)[x].name
  BY <1>1, <1>9
<1>26. \A k \in 1 .. Len(Others(obs, ms)) :
          /\ Others(obs, ms)[k] \in 1 .. Len(obs)
          /\ names[Len(RowsOf(ms)) + k] = obs[Others(obs, ms)[k]].of
  BY <1>1, <1>5, <1>21
<1> QED
  BY <1>7, <1>22, <1>23, <1>24, <1>25, <1>26 DEF Indexed

\* An observable, and the row that names it.
NamedAt(ms, obs, m, z, i) ==
    m \in 1 .. Len(ms) /\ z \in 1 .. Len(ms[m]) /\ ms[m][z].name = obs[i].of
NamedIn(ms, obs, m, i) == \E z \in 1 .. Len(ms[m]) : NamedAt(ms, obs, m, z, i)
Unnamed(ms, obs, i) == \A m \in 1 .. Len(ms) : ~NamedIn(ms, obs, m, i)

PlaceOf(names, obs, i) == CHOOSE x \in DOMAIN names : names[x] = obs[i].of

\* It is the only one.
LEMMA NamedOnce ==
    ASSUME NEW ms, NEW obs, Arranged(ms, obs), NEW i, NEW m, NEW z, NamedAt(ms, obs, m, z, i),
           NEW l, NEW y, NamedAt(ms, obs, l, y, i)
    PROVE  l = m /\ y = z
<1>1. ms \in Seq(Seq(RowNodes)) /\ DOMAIN ms = 1 .. Len(ms)
  BY LenProperties DEF Arranged, Filled
<1>2. DOMAIN ms[m] = 1 .. Len(ms[m]) /\ DOMAIN ms[l] = 1 .. Len(ms[l])
  <2>1. ms[m] \in Seq(RowNodes) /\ ms[l] \in Seq(RowNodes)
    BY <1>1, ElementOfSeq DEF NamedAt
  <2> QED
    BY <2>1, LenProperties
<1>3. ms[m][z].name = ms[l][y].name
  BY DEF NamedAt
<1>4. \A k, n \in DOMAIN ms : \A x \in DOMAIN ms[k], w \in DOMAIN ms[n] :
          ms[k][x].name = ms[n][w].name => k = n /\ x = w
  BY DEF Arranged
<1>5. m \in DOMAIN ms /\ l \in DOMAIN ms /\ z \in DOMAIN ms[m] /\ y \in DOMAIN ms[l]
  BY <1>1, <1>2 DEF NamedAt
<1> QED
  BY <1>3, <1>4, <1>5

\* Where an observable is in the matrix that is not yet sorted.
LEMMA PlaceOfAny ==
    ASSUME NEW ms, NEW obs, Arranged(ms, obs), NEW names, Indexed(ms, obs, names), NEW i \in 1 .. Len(obs)
    PROVE  /\ PlaceOf(names, obs, i) \in 1 .. Len(names)
           /\ PlaceOf(names, obs, i) \in 1 .. Len(obs)
           /\ names[PlaceOf(names, obs, i)] = obs[i].of
           /\ \A x \in 1 .. Len(names) : names[x] = obs[i].of => x = PlaceOf(names, obs, i)
<1>1. \E x \in DOMAIN names : names[x] = obs[i].of
  BY DEF Indexed
<1>2. PICK x \in DOMAIN names : names[x] = obs[i].of /\ x = PlaceOf(names, obs, i)
  BY <1>1 DEF PlaceOf
<1>3. x \in 1 .. Len(names)
  BY <1>2 DEF Indexed
<1>4. x \in 1 .. Len(obs)
  <2>1. PICK a \in Nat, b \in Nat : a = Len(names) /\ b = Len(obs) /\ a <= b
    <3>1. Len(obs) \in Nat
      BY LenProperties DEF Arranged
    <3>2. PICK b \in Nat : b = Len(obs)
      BY <3>1
    <3>3. PICK a \in 0 .. b : a = Len(names)
      <4>1. Len(names) \in 0 .. Len(obs)
        BY DEF Indexed
      <4> QED
        BY <3>2, <4>1
    <3>4. a \in Nat /\ a <= b
      OBVIOUS
    <3> QED
      BY <3>2, <3>3, <3>4
  <2>2. PICK y \in 1 .. a : y = x
    BY <1>3, <2>1
  <2>3. y \in 1 .. b
    BY <2>1
  <2> QED
    BY <2>1, <2>2, <2>3
<1>5. \A y \in 1 .. Len(names) : names[y] = obs[i].of => y = x
  BY <1>2, <1>3 DEF Indexed
<1> QED
  BY <1>2, <1>3, <1>4, <1>5

\* When a row names it, it is there, and the matrix of that row is current.
LEMMA PlaceOfNamed ==
    ASSUME NEW ms, NEW obs, Arranged(ms, obs), NEW names, Indexed(ms, obs, names),
           NEW rows, rows = RowsUpTo(ms), NEW i \in 1 .. Len(obs), NEW m, NEW z, NamedAt(ms, obs, m, z, i)
    PROVE  /\ PlaceOf(names, obs, i) = Len(rows[m - 1]) + z
           /\ PlaceOf(names, obs, i) \in 1 .. Len(RowsOf(ms))
           /\ ActiveMatrices(ms, Len(obs))[PlaceOf(names, obs, i)].matrix = m
           /\ ActiveMatrices(ms, Len(obs))[PlaceOf(names, obs, i)].offset = Len(rows[m - 1])
<1>1. Filled(ms) /\ Rows(ms, rows)
  BY RowsSteps DEF Arranged, Filled
<1>2. m \in 1 .. Len(ms) /\ z \in 1 .. Len(ms[m]) /\ ms[m][z].name = obs[i].of
  BY DEF NamedAt
<1>3. PICK r : r = RowsOf(ms) /\ r = rows[Len(ms)]
  BY DEF RowsOf
<1>4. PICK x \in 1 .. Len(r) : x = Len(rows[m - 1]) + z /\ r[x] = ms[m][z]
  <2>1. PlacedAt(ms, rows, m, z)
    BY <1>1, <1>2, RowsPlaced
  <2> QED
    BY <1>3, <2>1 DEF PlacedAt
<1>5. names[x] = obs[i].of
  <2>1. \A y \in 1 .. Len(RowsOf(ms)) : names[y] = RowsOf(ms)[y].name
    BY DEF Indexed
  <2> QED
    BY <1>2, <1>3, <1>4, <2>1
<1>6. x \in 1 .. Len(names) /\ x <= Len(obs) /\ Len(obs) \in Nat
  <2>1. Len(obs) \in Nat
    BY LenProperties DEF Arranged
  <2>2. Len(r) \in Nat
    BY <1>3, RowsAreSomewhere
  <2>3. PICK a \in Nat, n \in Nat : a = Len(r) /\ n = Len(obs)
    BY <2>1, <2>2
  <2>4. PICK b \in 0 .. n : b = Len(names)
    BY <2>3 DEF Indexed
  <2>5. PICK k \in Nat : k = Len(Others(obs, ms)) /\ b = a + k
    <3>1. Len(Others(obs, ms)) \in Nat
      BY LenProperties, Ascends, <2>1 DEF Others
    <3> QED
      BY <1>3, <2>3, <2>4, <3>1 DEF Indexed
  <2>6. PICK y \in 1 .. a : y = x
    BY <2>3
  <2>7. y \in 1 .. b /\ y <= n
    BY <2>5
  <2> QED
    BY <2>1, <2>3, <2>4, <2>6, <2>7
<1>7. x = PlaceOf(names, obs, i)
  BY <1>5, <1>6, PlaceOfAny
<1>8. PICK active : active = ActiveMatrices(ms, Len(obs))[x]
  OBVIOUS
<1>9. ActiveAt(ms, rows, x, active)
  <2>1. x \in 1 .. Len(rows[Len(ms)])
    BY <1>3
  <2> QED
    BY <1>1, <1>6, <1>8, <2>1, RowsAreActive
<1>10. NamedAt(ms, obs, active.matrix, x - active.offset, i)
  BY <1>2, <1>3, <1>4, <1>9 DEF ActiveAt, NamedAt
<1>11. active.matrix = m /\ x - active.offset = z
  BY <1>10, NamedOnce
<1>12. active.offset = Len(rows[m - 1])
  BY <1>9, <1>11 DEF ActiveAt
<1> QED
  BY <1>3, <1>4, <1>7, <1>8, <1>11, <1>12

\* When none does, it is behind all rows.
LEMMA PlaceOfUnnamed ==
    ASSUME NEW ms, NEW obs, Arranged(ms, obs), NEW names, Indexed(ms, obs, names),
           NEW i \in 1 .. Len(obs), Unnamed(ms, obs, i)
    PROVE  /\ PlaceOf(names, obs, i) - Len(RowsOf(ms)) \in 1 .. Len(Others(obs, ms))
           /\ PlaceOf(names, obs, i) > Len(RowsOf(ms))
           /\ Others(obs, ms)[PlaceOf(names, obs, i) - Len(RowsOf(ms))] = i
<1>1. PICK x \in 1 .. Len(names) : x = PlaceOf(names, obs, i) /\ names[x] = obs[i].of
  BY PlaceOfAny
<1>2. PICK r : r = RowsOf(ms)
  OBVIOUS
<1>3. x \notin 1 .. Len(r)
  <2> SUFFICES ASSUME x \in 1 .. Len(r) PROVE FALSE
    OBVIOUS
  <2>1. r[x].name = obs[i].of
    BY <1>1, <1>2 DEF Indexed
  <2>2. PICK m \in 1 .. Len(ms) : \E y \in 1 .. Len(ms[m]) : r[x] = ms[m][y]
    BY <1>2, RowsAreSomewhere
  <2>3. NamedIn(ms, obs, m, i)
    BY <2>1, <2>2 DEF NamedIn, NamedAt
  <2> QED
    BY <2>2, <2>3 DEF Unnamed
<1>4. PICK others : others = Others(obs, ms)
  OBVIOUS
<1>5. PICK a \in Nat, k \in Nat : a = Len(r) /\ k = Len(others) /\ Len(names) = a + k
  <2>1. Len(obs) \in Nat
    BY LenProperties DEF Arranged
  <2>2. Len(others) \in Nat
    BY <1>4, <2>1, LenProperties, Ascends DEF Others
  <2>3. Len(r) \in Nat
    BY <1>2, RowsAreSomewhere
  <2> QED
    BY <1>2, <1>4, <2>2, <2>3 DEF Indexed
<1>6. PICK y \in 1 .. a + k : y = x /\ ~(y <= a)
  BY <1>3, <1>5
<1>7. y - a \in 1 .. k /\ a + (y - a) = y /\ y > a
  BY <1>6
<1>8. PICK h \in 1 .. k : h = y - a /\ a + h = y
  BY <1>7
<1>9. others[h] \in 1 .. Len(obs) /\ names[a + h] = obs[others[h]].of
  BY <1>2, <1>4, <1>5 DEF Indexed
<1>10. others[h] = i
  <2>1. DOMAIN obs = 1 .. Len(obs)
    BY LenProperties DEF Arranged
  <2>2. obs[others[h]].of = obs[i].of
    BY <1>1, <1>6, <1>8, <1>9
  <2> QED
    BY <1>9, <2>1, <2>2 DEF Arranged
<1> QED
  BY <1>1, <1>2, <1>4, <1>5, <1>6, <1>7, <1>8, <1>10

\* An entry of the sorted matrix is one of the unsorted one.
LEMMA SortedEntry ==
    ASSUME NEW ms, NEW obs, Arranged(ms, obs), NEW errors, NEW i \in 1 .. Len(obs), NEW j \in 1 .. Len(obs),
           NEW x, x = PlaceOf(IndexOfNames(obs, ms), obs, i),
           NEW y, y = PlaceOf(IndexOfNames(obs, ms), obs, j)
    PROVE  SortedMatrix(obs, ms, errors)[i][j]
             = IF x = y /\ x - Len(RowsOf(ms)) \in DOMAIN Others(obs, ms)
               THEN errors[Others(obs, ms)[x - Len(RowsOf(ms))]]
               ELSE UnorderedEntry(ms, ActiveMatrices(ms, Len(obs)), x, y)
<1>1. PICK names : names = IndexOfNames(obs, ms) /\ Indexed(ms, obs, names)
  BY NamesAreAll
<1>2. x \in 1 .. Len(obs) /\ y \in 1 .. Len(obs)
  BY <1>1, PlaceOfAny
<1>3. DOMAIN obs = 1 .. Len(obs)
  BY LenProperties DEF Arranged
<1> DEFINE index == [h \in DOMAIN obs |-> CHOOSE w \in DOMAIN names : names[w] = obs[h].of]
           unordered == UnorderedMatrix(obs, ms, errors)
<1>4. index[i] = x /\ index[j] = y
  BY <1>1, <1>3 DEF PlaceOf
<1>5. SortedMatrix(obs, ms, errors)[i][j] = unordered[index[i]][index[j]]
  <2> HIDE DEF unordered
  <2>1. SortedMatrix(obs, ms, errors) = Table(Len(obs), LAMBDA g, h : unordered[index[g]][index[h]])
    BY <1>1 DEF SortedMatrix, unordered
  <2> HIDE DEF index
  <2> QED
    BY <2>1 DEF Table
<1>6. unordered[x][y] = IF x = y /\ x - Len(RowsOf(ms)) \in DOMAIN Others(obs, ms)
               THEN errors[Others(obs, ms)[x - Len(RowsOf(ms))]]
               ELSE UnorderedEntry(ms, ActiveMatrices(ms, Len(obs)), x, y)
  BY <1>2 DEF UnorderedMatrix, Table
<1> HIDE DEF index, unordered
<1> QED
  BY <1>4, <1>5, <1>6

\* The covariance of two observables that one matrix names is in it, ...
LEMMA SortedNamed ==
    ASSUME NEW ms, NEW obs, Arranged(ms, obs), NEW errors, NEW i \in 1 .. Len(obs), NEW j \in 1 .. Len(obs),
           NEW m, NEW z, NamedAt(ms, obs, m, z, i), NEW w, NamedAt(ms, obs, m, w, j)
    PROVE  SortedMatrix(obs, ms, errors)[i][j] = ms[m][z].columns[w]
<1>1. PICK names, rows : names = IndexOfNames(obs, ms) /\ Indexed(ms, obs, names) /\ rows = RowsUpTo(ms)
  BY NamesAreAll
<1>2. PICK R \in Nat, n \in Nat : R = Len(RowsOf(ms)) /\ n = Len(obs)
  <2>1. Len(obs) \in Nat
    BY LenProperties DEF Arranged
  <2> QED
    BY <2>1, RowsAreSomewhere
<1>13. PICK o : o = Len(rows[m - 1])
  OBVIOUS
<1>3. PICK x \in 1 .. R : /\ x = PlaceOf(names, obs, i) /\ x = o + z
                         /\ ActiveMatrices(ms, n)[x].matrix = m /\ ActiveMatrices(ms, n)[x].offset = o
  BY <1>1, <1>2, <1>13, PlaceOfNamed
<1>4. PICK y \in 1 .. R : y = PlaceOf(names, obs, j) /\ y = o + w
  BY <1>1, <1>2, <1>13, PlaceOfNamed
<1>5. /\ m \in 1 .. Len(ms) /\ ms \in Seq(Seq(RowNodes)) /\ ms[m] \in Seq(RowNodes)
      /\ z \in 1 .. Len(ms[m]) /\ w \in 1 .. Len(ms[m])
  BY ElementOfSeq DEF Arranged, Filled, NamedAt
<1>6. DOMAIN ms[m] = 1 .. Len(ms[m]) /\ Len(ms[m]) \in Nat
  BY <1>5, LenProperties
<1>7. Len(rows[m - 1]) \in Nat
  <2>1. Rows(ms, rows) /\ Filled(ms)
    BY <1>1, <1>5, RowsSteps DEF Arranged
  <2>2. m - 1 \in 0 .. Len(ms)
    <3>1. Len(ms) \in Nat
      BY <1>5, LenProperties
    <3> QED
      BY <1>5, <3>1
  <2> QED
    BY <2>1, <2>2, RowsGrow
<1>8. x - o = z /\ y - o = w
  BY <1>3, <1>4, <1>5, <1>7, <1>13
<1>9. w \in DOMAIN ms[m][z].columns
  <2>1. ms[m][z] \in RowNodes
    BY <1>5, ElementOfSeq
  <2>2. ms[m][z].columns \in Seq(Int)
    BY <2>1 DEF RowNodes
  <2>3. Len(ms[m][z].columns) = Len(ms[m])
    <3>1. DOMAIN ms = 1 .. Len(ms)
      BY <1>5, LenProperties
    <3> QED
      BY <1>5, <1>6, <3>1 DEF Arranged
  <2> QED
    BY <1>5, <2>2, <2>3, LenProperties
<1>10. ms # << >>
  BY <1>5
<1>11. UnorderedEntry(ms, ActiveMatrices(ms, n), x, y) = ms[m][z].columns[w]
  <2>1. PICK active : active = ActiveMatrices(ms, n)
    OBVIOUS
  <2>2. x <= R /\ y <= R
    OBVIOUS
  <2>3. active[x].matrix = m /\ x - active[x].offset = z /\ y - active[x].offset = w
    BY <1>3, <1>8, <2>1
  <2> QED
    BY <1>2, <1>5, <1>6, <1>9, <1>10, <2>1, <2>2, <2>3 DEF UnorderedEntry
<1>12. ~(x - R \in DOMAIN Others(obs, ms))
  <2>1. DOMAIN Others(obs, ms) = 1 .. Len(Others(obs, ms))
    BY <1>2, Ascends, LenProperties DEF Others
  <2>2. ~(x - R >= 1)
    OBVIOUS
  <2> QED
    BY <2>1, <2>2
<1> QED
  <2>1. SortedMatrix(obs, ms, errors)[i][j]
          = IF x = y /\ x - Len(RowsOf(ms)) \in DOMAIN Others(obs, ms)
            THEN errors[Others(obs, ms)[x - Len(RowsOf(ms))]]
            ELSE UnorderedEntry(ms, ActiveMatrices(ms, Len(obs)), x, y)
    <3>1. PICK u, v : u = PlaceOf(IndexOfNames(obs, ms), obs, i) /\ v = PlaceOf(IndexOfNames(obs, ms), obs, j)
      OBVIOUS
    <3>2. SortedMatrix(obs, ms, errors)[i][j]
            = IF u = v /\ u - Len(RowsOf(ms)) \in DOMAIN Others(obs, ms)
              THEN errors[Others(obs, ms)[u - Len(RowsOf(ms))]]
              ELSE UnorderedEntry(ms, ActiveMatrices(ms, Len(obs)), u, v)
      BY <3>1, SortedEntry
    <3>3. u = x /\ v = y
      BY <1>1, <1>3, <1>4, <3>1
    <3> QED
      BY <3>2, <3>3
  <2>2. ~(x - Len(RowsOf(ms)) \in DOMAIN Others(obs, ms))
    BY <1>2, <1>12
  <2> QED
    BY <1>2, <1>11, <2>1, <2>2

\* ... and zero where there is none.
LEMMA SortedApart ==
    ASSUME NEW ms, NEW obs, Arranged(ms, obs), NEW errors, NEW i \in 1 .. Len(obs), NEW j \in 1 .. Len(obs),
           NEW m, NEW z, NamedAt(ms, obs, m, z, i), ~NamedIn(ms, obs, m, j)
    PROVE  SortedMatrix(obs, ms, errors)[i][j] = 0
<1>1. PICK names, rows : names = IndexOfNames(obs, ms) /\ Indexed(ms, obs, names) /\ rows = RowsUpTo(ms)
  BY NamesAreAll
<1>2. PICK R \in Nat, n \in Nat : R = Len(RowsOf(ms)) /\ n = Len(obs)
  <2>1. Len(obs) \in Nat
    BY LenProperties DEF Arranged
  <2> QED
    BY <2>1, RowsAreSomewhere
<1>13. PICK o : o = Len(rows[m - 1])
  OBVIOUS
<1>3. PICK x \in 1 .. R : /\ x = PlaceOf(names, obs, i) /\ x = o + z
                         /\ ActiveMatrices(ms, n)[x].matrix = m /\ ActiveMatrices(ms, n)[x].offset = o
  BY <1>1, <1>2, <1>13, PlaceOfNamed
<1>4. PICK y \in 1 .. n : y = PlaceOf(names, obs, j) /\ names[y] = obs[j].of
  <2>1. PlaceOf(names, obs, j) \in 1 .. Len(obs) /\ names[PlaceOf(names, obs, j)] = obs[j].of
    BY <1>1, PlaceOfAny
  <2> QED
    BY <1>2, <2>1
<1>5. /\ m \in 1 .. Len(ms) /\ ms \in Seq(Seq(RowNodes)) /\ ms[m] \in Seq(RowNodes)
      /\ z \in 1 .. Len(ms[m])
  BY ElementOfSeq DEF Arranged, Filled, NamedAt
<1>6. DOMAIN ms[m] = 1 .. Len(ms[m]) /\ Len(ms[m]) \in Nat
  BY <1>5, LenProperties
<1>7. Rows(ms, rows) /\ Filled(ms) /\ o \in Nat
  <2>1. Rows(ms, rows) /\ Filled(ms)
    BY <1>1, <1>5, RowsSteps DEF Arranged
  <2>2. m - 1 \in 0 .. Len(ms)
    <3>1. Len(ms) \in Nat
      BY <1>5, LenProperties
    <3> QED
      BY <1>5, <3>1
  <2> QED
    BY <1>13, <2>1, <2>2, RowsGrow
<1>8. ~(y <= R /\ y - o \in DOMAIN ms[m])
  <2> SUFFICES ASSUME y <= R, y - o \in DOMAIN ms[m] PROVE FALSE
    OBVIOUS
  <2>1. PICK w \in 1 .. Len(ms[m]) : w = y - o /\ o + w = y
    BY <1>6, <1>7
  <2>2. PlacedAt(ms, rows, m, w)
    BY <1>5, <1>7, RowsPlaced
  <2>3. RowsOf(ms)[y] = ms[m][w]
    BY <1>1, <1>13, <2>1, <2>2 DEF PlacedAt, RowsOf
  <2>4. names[y] = RowsOf(ms)[y].name
    <3>1. \A v \in 1 .. Len(RowsOf(ms)) : names[v] = RowsOf(ms)[v].name
      BY <1>1 DEF Indexed
    <3> QED
      BY <1>2, <3>1
  <2>5. NamedAt(ms, obs, m, w, j)
    BY <1>4, <1>5, <2>3, <2>4 DEF NamedAt
  <2> QED
    BY <2>5 DEF NamedIn
<1>9. UnorderedEntry(ms, ActiveMatrices(ms, n), x, y) = 0
  <2>1. PICK active : active = ActiveMatrices(ms, n)
    OBVIOUS
  <2>2. active[x].matrix = m /\ active[x].offset = o
    BY <1>3, <2>1
  <2> QED
    BY <1>2, <1>8, <2>1, <2>2 DEF UnorderedEntry
<1>10. ~(x - R \in DOMAIN Others(obs, ms))
  <2>1. DOMAIN Others(obs, ms) = 1 .. Len(Others(obs, ms))
    BY <1>2, Ascends, LenProperties DEF Others
  <2>2. ~(x - R >= 1)
    OBVIOUS
  <2> QED
    BY <2>1, <2>2
<1> QED
  <2>1. SortedMatrix(obs, ms, errors)[i][j]
          = IF x = y /\ x - Len(RowsOf(ms)) \in DOMAIN Others(obs, ms)
            THEN errors[Others(obs, ms)[x - Len(RowsOf(ms))]]
            ELSE UnorderedEntry(ms, ActiveMatrices(ms, Len(obs)), x, y)
    <3>1. PICK u, v : u = PlaceOf(IndexOfNames(obs, ms), obs, i) /\ v = PlaceOf(IndexOfNames(obs, ms), obs, j)
      OBVIOUS
    <3>2. SortedMatrix(obs, ms, errors)[i][j]
            = IF u = v /\ u - Len(RowsOf(ms)) \in DOMAIN Others(obs, ms)
              THEN errors[Others(obs, ms)[u - Len(RowsOf(ms))]]
              ELSE UnorderedEntry(ms, ActiveMatrices(ms, Len(obs)), u, v)
      BY <3>1, SortedEntry
    <3>3. u = x /\ v = y
      BY <1>1, <1>3, <1>4, <3>1
    <3> QED
      BY <3>2, <3>3
  <2>2. ~(x - Len(RowsOf(ms)) \in DOMAIN Others(obs, ms))
    BY <1>2, <1>10
  <2> QED
    BY <1>2, <1>9, <2>1, <2>2

\* An observable that no matrix names has its own error, and no covariance.
LEMMA SortedUnnamed ==
    ASSUME NEW ms, NEW obs, Arranged(ms, obs), NEW errors, NEW i \in 1 .. Len(obs), NEW j \in 1 .. Len(obs),
           Unnamed(ms, obs, i)
    PROVE  SortedMatrix(obs, ms, errors)[i][j] = IF i = j THEN errors[i] ELSE 0
<1>1. PICK names : names = IndexOfNames(obs, ms) /\ Indexed(ms, obs, names)
  BY NamesAreAll
<1>2. PICK R \in Nat, n \in Nat : R = Len(RowsOf(ms)) /\ n = Len(obs)
  <2>1. Len(obs) \in Nat
    BY LenProperties DEF Arranged
  <2> QED
    BY <2>1, RowsAreSomewhere
<1>3. PICK x \in 1 .. n : x = PlaceOf(names, obs, i) /\ names[x] = obs[i].of
  <2>1. PlaceOf(names, obs, i) \in 1 .. Len(obs) /\ names[PlaceOf(names, obs, i)] = obs[i].of
    BY <1>1, PlaceOfAny
  <2> QED
    BY <1>2, <2>1
<1>4. PICK y \in 1 .. n : y = PlaceOf(names, obs, j) /\ names[y] = obs[j].of
  <2>1. PlaceOf(names, obs, j) \in 1 .. Len(obs) /\ names[PlaceOf(names, obs, j)] = obs[j].of
    BY <1>1, PlaceOfAny
  <2> QED
    BY <1>2, <2>1
<1>5. x - R \in DOMAIN Others(obs, ms) /\ x > R /\ Others(obs, ms)[x - R] = i
  <2>1. DOMAIN Others(obs, ms) = 1 .. Len(Others(obs, ms))
    BY <1>2, Ascends, LenProperties DEF Others
  <2> QED
    BY <1>1, <1>2, <1>3, <2>1, PlaceOfUnnamed
<1>6. CASE i = j
  <2>1. x = y
    BY <1>3, <1>4, <1>6
  <2> QED
    BY <1>1, <1>2, <1>3, <1>4, <1>5, <1>6, <2>1, SortedEntry
<1>7. CASE i # j
  <2>1. x # y
    <3>1. DOMAIN obs = 1 .. Len(obs)
      BY LenProperties DEF Arranged
    <3>2. obs[i].of # obs[j].of
      BY <1>7, <3>1 DEF Arranged
    <3> QED
      BY <1>3, <1>4, <3>2
  <2>2. UnorderedEntry(ms, ActiveMatrices(ms, n), x, y) = 0
    BY <1>2, <1>5 DEF UnorderedEntry
  <2> QED
    BY <1>1, <1>2, <1>3, <1>4, <1>7, <2>1, <2>2, SortedEntry
<1> QED
  BY <1>6, <1>7

\* Squares grow.
LEMMA SquaresGrow ==
    ASSUME NEW a \in Nat, NEW b \in Nat, a <= b
    PROVE  a * a <= b * b
<1>1. a * a <= a * b
  OBVIOUS
<1>2. a * b <= b * b
  OBVIOUS
<1>3. a * a \in Nat /\ a * b \in Nat /\ b * b \in Nat
  OBVIOUS
<1> QED
  BY <1>1, <1>2, <1>3

\* It is the greatest number whose square is not greater.
LEMMA RootExists ==
    ASSUME NEW x \in Nat, x > 0
    PROVE  /\ SquareRoot(x) \in Nat /\ SquareRoot(x) > 0
           /\ Square(SquareRoot(x)) <= x /\ x < Square(SquareRoot(x) + 1)
<1> DEFINE T == {r \in Nat : x < (r + 1) * (r + 1)}
<1>1. x \in T
  <2>1. (x + 1) * (x + 1) = x * x + x + x + 1 /\ x * x \in Nat
    OBVIOUS
  <2> QED
    BY <2>1
<1>2. PICK r \in T : \A m \in T : r <= m
  <2>1. T \in SUBSET Nat
    OBVIOUS
  <2> HIDE DEF T
  <2> QED
    BY <1>1, <2>1, LeastNumber
<1>3. r \in Nat /\ x < (r + 1) * (r + 1)
  OBVIOUS
<1>4. r > 0
  <2> SUFFICES ASSUME r = 0 PROVE FALSE
    BY <1>3
  <2>1. (r + 1) * (r + 1) = 1
    OBVIOUS
  <2> QED
    BY <1>3, <2>1
<1>5. r * r <= x
  <2>1. PICK p \in Nat : r = p + 1
    <3>1. r - 1 \in Nat /\ r = (r - 1) + 1
      BY <1>3, <1>4
    <3> QED
      BY <3>1
  <2>2. p \notin T
    BY <1>2, <2>1
  <2>3. ~(x < (p + 1) * (p + 1))
    BY <2>2
  <2>4. (p + 1) * (p + 1) \in Nat
    OBVIOUS
  <2> QED
    BY <2>1, <2>3, <2>4
<1>6. r <= x
  <2>1. r * 1 <= r * r
    BY <1>3, <1>4
  <2> QED
    BY <1>3, <1>5, <2>1
<1>7. \E s \in 0 .. x : Square(s) <= x /\ x < Square(s + 1)
  <2>1. r \in 0 .. x
    BY <1>3, <1>6
  <2> QED
    BY <1>3, <1>5, <2>1 DEF Square
<1>8. PICK s \in 0 .. x : s = SquareRoot(x) /\ Square(s) <= x /\ x < Square(s + 1)
  BY <1>7 DEF SquareRoot
<1>9. s > 0
  <2> SUFFICES ASSUME s = 0 PROVE FALSE
    OBVIOUS
  <2>1. Square(s + 1) = 1
    BY DEF Square
  <2> QED
    BY <1>8, <2>1
<1> QED
  BY <1>8, <1>9

\* A number is the root of its square.
LEMMA RootOfSquare ==
    ASSUME NEW v \in Nat, v > 0
    PROVE  SquareRoot(v * v) = v
<1>1. v * v \in Nat /\ v * v > 0
  OBVIOUS
<1>2. PICK r \in Nat : r = SquareRoot(v * v) /\ r * r <= v * v /\ v * v < (r + 1) * (r + 1)
  BY <1>1, RootExists DEF Square
<1>3. ~(r + 1 <= v)
  <2> SUFFICES ASSUME r + 1 <= v PROVE FALSE
    OBVIOUS
  <2>1. (r + 1) * (r + 1) <= v * v
    BY SquaresGrow
  <2>2. (r + 1) * (r + 1) \in Nat
    OBVIOUS
  <2> QED
    BY <1>1, <1>2, <2>1, <2>2
<1>4. ~(v + 1 <= r)
  <2> SUFFICES ASSUME v + 1 <= r PROVE FALSE
    OBVIOUS
  <2>1. (v + 1) * (v + 1) <= r * r
    BY SquaresGrow
  <2>2. (v + 1) * (v + 1) = v * v + v + v + 1
    OBVIOUS
  <2>3. r * r \in Nat
    OBVIOUS
  <2> QED
    BY <1>1, <1>2, <2>1, <2>2, <2>3
<1> QED
  BY <1>2, <1>3, <1>4

\* An error is correlated with itself, and not with one it has no covariance with.
LEMMA CoefficientIsWhole ==
    ASSUME NEW v \in Nat, v > 0, NEW w \in Nat, w > 0
    PROVE  Coefficient(v, v, v) = 2 /\ Coefficient(0, v, w) = 0
<1>1. Coefficient(v, v, v) = 2
  <2>1. SquareRoot(v * v) = v
    BY RootOfSquare
  <2>2. (2 * v) \div v = 2
    OBVIOUS
  <2> QED
    BY <2>1, <2>2 DEF Coefficient
<1>2. Coefficient(0, v, w) = 0
  <2>1. v * w \in Nat /\ v * w > 0
    OBVIOUS
  <2>2. PICK r \in Nat : r = SquareRoot(v * w) /\ r > 0
    BY <2>1, RootExists
  <2>3. (2 * 0) \div r = 0
    BY <2>2
  <2> QED
    BY <2>2, <2>3 DEF Coefficient
<1> QED
  BY <1>1, <1>2

\* What the input file says, by the names alone.
LEMMA ConfiguredNamed ==
    ASSUME Arranged(input.matrices, input.observables), NEW i, NEW m, NEW z,
           NamedAt(input.matrices, input.observables, m, z, i)
    PROVE  /\ IsCorrelated(input.observables[i])
           /\ (CHOOSE x \in Range(input.matrices) : Names(x, input.observables[i])) = input.matrices[m]
           /\ RowOf(input.matrices[m], input.observables[i]) = z
<1>1. PICK ms, obs : ms = input.matrices /\ obs = input.observables
  OBVIOUS
<1>2. ms \in Seq(Seq(RowNodes)) /\ DOMAIN ms = 1 .. Len(ms)
  BY <1>1, LenProperties DEF Arranged, Filled
<1>3. ASSUME NEW l \in 1 .. Len(ms) PROVE DOMAIN ms[l] = 1 .. Len(ms[l])
  <2>1. ms[l] \in Seq(RowNodes)
    BY <1>2, ElementOfSeq
  <2> QED
    BY <2>1, LenProperties
<1>4. m \in 1 .. Len(ms) /\ z \in 1 .. Len(ms[m]) /\ ms[m][z].name = obs[i].of
  BY <1>1 DEF NamedAt
<1>5. ms[m] \in Range(ms) /\ Names(ms[m], obs[i])
  BY <1>2, <1>3, <1>4 DEF Range, Names
<1>6. ASSUME NEW matrix \in Range(ms), Names(matrix, obs[i]) PROVE matrix = ms[m]
  <2>1. PICK l \in 1 .. Len(ms) : matrix = ms[l]
    BY <1>2 DEF Range
  <2>2. PICK y \in 1 .. Len(ms[l]) : ms[l][y].name = obs[i].of
    BY <1>3, <1>6, <2>1 DEF Names
  <2>3. NamedAt(ms, obs, l, y, i) /\ NamedAt(ms, obs, m, z, i)
    BY <1>1, <2>2 DEF NamedAt
  <2>4. l = m
    BY <1>1, <2>3, NamedOnce
  <2> QED
    BY <2>1, <2>4
<1>7. (CHOOSE x \in Range(ms) : Names(x, obs[i])) = ms[m]
  BY <1>5, <1>6
<1>8. RowOf(ms[m], obs[i]) = z
  <2>1. ASSUME NEW y \in DOMAIN ms[m], ms[m][y].name = obs[i].of PROVE y = z
    <3>1. NamedAt(ms, obs, m, y, i) /\ NamedAt(ms, obs, m, z, i)
      BY <1>1, <1>3, <1>4, <2>1 DEF NamedAt
    <3> QED
      BY <1>1, <3>1, NamedOnce
  <2>2. z \in DOMAIN ms[m] /\ ms[m][z].name = obs[i].of
    BY <1>3, <1>4
  <2> QED
    BY <2>1, <2>2 DEF RowOf
<1> QED
  BY <1>1, <1>5, <1>7, <1>8 DEF IsCorrelated

\* An observable is correlated when a row names it.
LEMMA ConfiguredUnnamed ==
    ASSUME Arranged(input.matrices, input.observables), NEW i
    PROVE  /\ Unnamed(input.matrices, input.observables, i) <=> ~IsCorrelated(input.observables[i])
           /\ \A m \in 1 .. Len(input.matrices) :
                 Names(input.matrices[m], input.observables[i])
                   <=> NamedIn(input.matrices, input.observables, m, i)
<1>1. PICK ms, obs : ms = input.matrices /\ obs = input.observables
  OBVIOUS
<1>2. ms \in Seq(Seq(RowNodes)) /\ DOMAIN ms = 1 .. Len(ms)
  BY <1>1, LenProperties DEF Arranged, Filled
<1>3. ASSUME NEW m \in 1 .. Len(ms) PROVE Names(ms[m], obs[i]) <=> NamedIn(ms, obs, m, i)
  <2>1. DOMAIN ms[m] = 1 .. Len(ms[m])
    BY <1>2, ElementOfSeq, LenProperties
  <2> QED
    BY <2>1 DEF Names, NamedIn, NamedAt
<1>4. IsCorrelated(obs[i]) <=> \E m \in 1 .. Len(ms) : Names(ms[m], obs[i])
  BY <1>1, <1>2 DEF IsCorrelated, Range
<1> QED
  BY <1>1, <1>3, <1>4 DEF Unnamed

\* The matrix of the constructor.
InitialErrors == [i \in DOMAIN input.observables |->
                    SquaredError(input.observables[i], input.observables[i].bestFit)]
Sorted == SortedMatrix(input.observables, input.matrices, InitialErrors)

\* Its entries are the configured ones.
LEMMA SortedIsConfigured ==
    ASSUME Arranged(input.matrices, input.observables),
           NEW i \in 1 .. Len(input.observables), NEW j \in 1 .. Len(input.observables)
    PROVE  Sorted[i][j] = ConfiguredEntry(input.observables[i], input.observables[j])
<1>1. PICK ms, obs : ms = input.matrices /\ obs = input.observables
  OBVIOUS
<1>2. DOMAIN obs = 1 .. Len(obs) /\ Arranged(ms, obs)
  BY <1>1, LenProperties DEF Arranged
<1>3. InitialErrors[i] = SquaredError(obs[i], obs[i].bestFit)
  BY <1>1, <1>2 DEF InitialErrors
<1>4. CASE Unnamed(ms, obs, i)
  <2>1. ConfiguredEntry(obs[i], obs[j]) = IF obs[i] = obs[j] THEN InitialErrors[i] ELSE 0
    <3>1. ~IsCorrelated(obs[i])
      BY <1>1, <1>4, ConfiguredUnnamed
    <3> QED
      BY <1>3, <3>1 DEF ConfiguredEntry
  <2>2. obs[i] = obs[j] <=> i = j
    BY <1>1, <1>2 DEF Arranged
  <2>3. Sorted[i][j] = IF i = j THEN InitialErrors[i] ELSE 0
    BY <1>1, <1>2, <1>4, SortedUnnamed DEF Sorted
  <2> QED
    BY <1>1, <2>1, <2>2, <2>3
<1>5. CASE ~Unnamed(ms, obs, i)
  <2>1. PICK m, z : m \in 1 .. Len(ms) /\ NamedAt(ms, obs, m, z, i)
    BY <1>5 DEF Unnamed, NamedIn
  <2>2. /\ IsCorrelated(obs[i])
        /\ (CHOOSE x \in Range(ms) : Names(x, obs[i])) = ms[m]
        /\ RowOf(ms[m], obs[i]) = z
    BY <1>1, <2>1, ConfiguredNamed
  <2>3. ConfiguredEntry(obs[i], obs[j])
          = IF Names(ms[m], obs[j]) THEN ms[m][z].columns[RowOf(ms[m], obs[j])] ELSE 0
    <3>1. ConfiguredEntry(obs[i], obs[j])
            = LET matrix == CHOOSE x \in Range(ms) : Names(x, obs[i])
              IN  IF Names(matrix, obs[j]) THEN matrix[RowOf(matrix, obs[i])].columns[RowOf(matrix, obs[j])]
                  ELSE 0
      BY <1>1, <2>2 DEF ConfiguredEntry
    <3> QED
      BY <2>2, <3>1
  <2>4. Names(ms[m], obs[j]) <=> NamedIn(ms, obs, m, j)
    BY <1>1, <2>1, ConfiguredUnnamed
  <2>5. CASE NamedIn(ms, obs, m, j)
    <3>1. PICK w : NamedAt(ms, obs, m, w, j)
      BY <2>5 DEF NamedIn
    <3>2. RowOf(ms[m], obs[j]) = w
      BY <1>1, <3>1, ConfiguredNamed
    <3>3. Sorted[i][j] = ms[m][z].columns[w]
      BY <1>1, <1>2, <2>1, <3>1, SortedNamed DEF Sorted
    <3> QED
      BY <1>1, <2>3, <2>4, <2>5, <3>2, <3>3
  <2>6. CASE ~NamedIn(ms, obs, m, j)
    <3>1. Sorted[i][j] = 0
      BY <1>1, <1>2, <2>1, <2>6, SortedApart DEF Sorted
    <3> QED
      BY <1>1, <2>3, <2>4, <2>6, <3>1
  <2> QED
    BY <2>5, <2>6
<1> QED
  BY <1>4, <1>5

\* The covariances of an observable that is in no matrix.
LEMMA UncorrelatedEntries ==
    ASSUME Arranged(input.matrices, input.observables),
           NEW i \in 1 .. Len(input.observables), ~IsCorrelated(input.observables[i]),
           NEW j \in 1 .. Len(input.observables)
    PROVE  /\ Sorted[i][j] = IF i = j THEN InitialErrors[i] ELSE 0
           /\ i # j => Sorted[j][i] = 0
<1>1. PICK ms, obs : ms = input.matrices /\ obs = input.observables
  OBVIOUS
<1>2. Unnamed(ms, obs, i) /\ Arranged(ms, obs)
  BY <1>1, ConfiguredUnnamed
<1>3. Sorted[i][j] = IF i = j THEN InitialErrors[i] ELSE 0
  BY <1>1, <1>2, SortedUnnamed DEF Sorted
<1>4. ASSUME i # j PROVE Sorted[j][i] = 0
  <2>1. CASE Unnamed(ms, obs, j)
    BY <1>1, <1>2, <1>4, <2>1, SortedUnnamed DEF Sorted
  <2>2. CASE ~Unnamed(ms, obs, j)
    <3>1. PICK m, z : m \in 1 .. Len(ms) /\ NamedAt(ms, obs, m, z, j)
      BY <2>2 DEF Unnamed, NamedIn
    <3>2. ~NamedIn(ms, obs, m, i)
      BY <1>2, <3>1 DEF Unnamed
    <3> QED
      BY <1>1, <1>2, <3>1, <3>2, SortedApart DEF Sorted
  <2> QED
    BY <2>1, <2>2
<1> QED
  BY <1>3, <1>4

\* It is made of numbers.
LEMMA EntriesAreNumbers ==
    ASSUME Arranged(input.matrices, input.observables),
           NEW i \in 1 .. Len(input.observables), NEW j \in 1 .. Len(input.observables)
    PROVE  Sorted[i][j] \in Int /\ InitialErrors[i] \in Int
<1>1. PICK ms, obs : ms = input.matrices /\ obs = input.observables
  OBVIOUS
<1>2. DOMAIN obs = 1 .. Len(obs) /\ Arranged(ms, obs) /\ obs[i] \in ObservableNodes
  BY <1>1, LenProperties, ElementOfSeq DEF Arranged
<1>3. InitialErrors[i] \in Int
  <2>1. obs[i].error \in Int /\ obs[i].relative \in Int /\ obs[i].bestFit \in Int
    BY <1>2 DEF ObservableNodes
  <2> QED
    BY <1>1, <1>2, <2>1 DEF InitialErrors, SquaredError, Square
<1>4. CASE Unnamed(ms, obs, i)
  BY <1>1, <1>2, <1>3, <1>4, SortedUnnamed DEF Sorted
<1>5. CASE ~Unnamed(ms, obs, i)
  <2>1. PICK m, z : m \in 1 .. Len(ms) /\ NamedAt(ms, obs, m, z, i)
    BY <1>5 DEF Unnamed, NamedIn
  <2>2. CASE NamedIn(ms, obs, m, j)
    <3>1. PICK w : NamedAt(ms, obs, m, w, j)
      BY <2>2 DEF NamedIn
    <3>2. Sorted[i][j] = ms[m][z].columns[w]
      BY <1>1, <1>2, <2>1, <3>1, SortedNamed DEF Sorted
    <3>3. ms \in Seq(Seq(RowNodes)) /\ ms[m] \in Seq(RowNodes) /\ z \in 1 .. Len(ms[m]) /\ w \in 1 .. Len(ms[m])
      BY <1>2, <2>1, <3>1, ElementOfSeq DEF Arranged, Filled, NamedAt
    <3>4. DOMAIN ms = 1 .. Len(ms) /\ DOMAIN ms[m] = 1 .. Len(ms[m])
      BY <3>3, LenProperties
    <3>5. ms[m][z] \in RowNodes
      BY <3>3, ElementOfSeq
    <3>6. ms[m][z].columns \in Seq(Int) /\ Len(ms[m][z].columns) = Len(ms[m])
      BY <1>2, <2>1, <3>3, <3>4, <3>5 DEF RowNodes, Arranged
    <3>7. ms[m][z].columns[w] \in Int
      BY <3>3, <3>6, ElementOfSeq
    <3> QED
      BY <1>3, <3>2, <3>7
  <2>3. CASE ~NamedIn(ms, obs, m, j)
    BY <1>1, <1>2, <1>3, <2>1, <2>3, SortedApart DEF Sorted
  <2> QED
    BY <2>2, <2>3
<1> QED
  BY <1>4, <1>5

-----------------------------------------------------------------------------
(***************************************************************************)
(* The covariance matrix of the observables while the model is evaluated:  *)
(* where no error is relative it stays as it is, elsewhere it is made of   *)
(* the correlations of the beginning and the errors of this point.         *)
(***************************************************************************)
Updated(o) == IsRelative(o) /\ ~o.noUpdate
SomeUpdated == \E o \in Range(input.observables) : Updated(o)
CurrentErrors ==
    [i \in DOMAIN input.observables |->
       LET o == input.observables[i]
       IN  IF Updated(o) THEN SquaredError(o, ValueOf(known[o.of], Start)) ELSE InitialErrors[i]]
Distinct(obs) == \A i, j \in DOMAIN obs : obs[i].of = obs[j].of => i = j
Scaled(coefficient, squaredError) ==
    IF coefficient = NotANumber THEN NotANumber ELSE (coefficient * squaredError) \div 2

ErrorsKept ==
    \A i \in DOMAIN input.observables : ~Updated(input.observables[i]) => squaredErrors[i] = InitialErrors[i]
AbsoluteKept ==
    \A i, j \in DOMAIN input.observables :
        ~IsRelative(input.observables[i]) /\ ~IsRelative(input.observables[j]) =>
            covariance[i][j] = Sorted[i][j]
RelativeOfThisPoint ==
    \A i, j \in DOMAIN input.observables :
        IsRelative(input.observables[i]) \/ IsRelative(input.observables[j]) =>
            covariance[i][j] = Scaled(correlation[i][j], CurrentErrors[i])

ObservedInv ==
    pc \in {"ready", "evaluate"} =>
        /\ Distinct(input.observables)
        /\ correlation = CorrelationMatrix(Sorted)
        /\ ErrorsKept
        /\ AbsoluteKept
        /\ pc = "ready" /\ Len(points) = 1 => covariance = Sorted
        /\ pc = "evaluate" => Len(points) > 1
        /\ ~SomeUpdated => inverse = InverseOf(FitMatrix(input.observables, Sorted))
        /\ Evaluated /\ SomeUpdated => RelativeOfThisPoint /\ inverse = InverseOf(FitMatrix(input.observables, covariance))

\* It depends on the input file alone.
LEMMA SortedStays ==
    ASSUME input' = input
    PROVE  /\ InitialErrors' = InitialErrors /\ Sorted' = Sorted
           /\ SomeUpdated' = SomeUpdated /\ Distinct(input.observables)' = Distinct(input.observables)
<1>1. InitialErrors' = InitialErrors
  BY DEF InitialErrors
<1>2. Sorted' = Sorted
  BY <1>1 DEF Sorted
<1>3. SomeUpdated' = SomeUpdated
  BY DEF SomeUpdated
<1>4. Distinct(input.observables)' = Distinct(input.observables)
  BY DEF Distinct
<1> QED
  BY <1>1, <1>2, <1>3, <1>4

\* The matrix of the constructor is the sorted one.
LEMMA ObservedOfInitialized ==
    ASSUME PointsInv, Initialize
    PROVE  ObservedInv'
<1>1. /\ input' = input /\ points' = points /\ pc' = "ready" /\ chi2' = "none"
      /\ Distinct(input.observables)
      /\ squaredErrors' = InitialErrors /\ covariance' = Sorted
      /\ correlation' = CorrelationMatrix(Sorted)
      /\ inverse' = InverseOf(FitMatrix(input.observables, Sorted))
  <2>1. chi2 = "none"
    BY DEF PointsInv, Stage, Initialize, Built
  <2> QED
    BY <2>1 DEF Initialize, Nameable, Distinct, InitialErrors, Sorted
<1>2. ErrorsKept'
  BY <1>1, SortedStays DEF ErrorsKept
<1>3. AbsoluteKept'
  BY <1>1, SortedStays DEF AbsoluteKept
<1>4. ~Evaluated'
  BY <1>1 DEF Evaluated
<1> QED
  BY <1>1, <1>2, <1>3, <1>4, SortedStays DEF ObservedInv

\* It may stay what it is as long as no evaluation has gone through.
LEMMA ObservedKept ==
    ASSUME ObservedInv, pc \in {"ready", "evaluate"}, input' = input, UNCHANGED observing, ~Evaluated',
           pc' = "ready" => Len(points') # 1, pc' = "evaluate" => Len(points') > 1
    PROVE  ObservedInv'
<1>1. ErrorsKept'
  BY SortedStays DEF ObservedInv, ErrorsKept, observing
<1>2. AbsoluteKept'
  BY SortedStays DEF ObservedInv, AbsoluteKept, observing
<1>3. correlation' = correlation /\ inverse' = inverse
  BY DEF observing
<1> QED
  BY <1>1, <1>2, <1>3, SortedStays DEF ObservedInv

\* An evaluation begins, ...
LEMMA ObservedOfBegun ==
    ASSUME PointsInv, ObservedInv, BeginEvaluation
    PROVE  ObservedInv'
<1>1. PICK value \in input.values : points' = Append(points, value)
  BY DEF BeginEvaluation
<1>2. points \in Seq(Int) /\ points # << >> /\ value \in Int
  <2>1. input.values \subseteq Int
    BY DEF PointsInv, Form, IsInput
  <2> QED
    BY <1>1, <2>1 DEF PointsInv, Form
<1>3. Len(points') > 1
  <2>1. PICK n \in Nat : n = Len(points) /\ n # 0
    BY <1>2, EmptySeq, LenProperties
  <2>2. Len(points') = n + 1
    BY <1>1, <1>2, <2>1, AppendProperties
  <2> QED
    BY <2>1, <2>2
<1>4. pc = "ready" /\ pc' = "evaluate" /\ input' = input /\ UNCHANGED observing
  BY DEF BeginEvaluation
<1>5. ~Evaluated'
  BY <1>4 DEF Evaluated
<1> QED
  BY <1>3, <1>4, <1>5, ObservedKept

\* ... goes on, or is given up, ...
LEMMA ObservedOfRun ==
    ASSUME ObservedInv, Calculate \/ CalculatorThrows
    PROVE  ObservedInv'
<1>1. pc = "evaluate" /\ input' = input /\ points' = points /\ UNCHANGED observing
  BY DEF Calculate, CalculatorThrows, Running
<1>2. Len(points) > 1
  BY <1>1 DEF ObservedInv
<1>3. ~Evaluated'
  BY DEF Calculate, CalculatorThrows, Running, Evaluated
<1>4. Len(points') > 1 /\ Len(points') # 1
  BY <1>1, <1>2
<1> QED
  BY <1>1, <1>3, <1>4, ObservedKept

\* ... or goes through.
LEMMA ObservedOfFinished ==
    ASSUME PointsInv, ObservedInv, FinishEvaluation
    PROVE  ObservedInv'
<1>1. /\ pc = "evaluate" /\ pc' = "ready" /\ input' = input /\ points' = points /\ correlation' = correlation
      /\ known' = known /\ made' = made
      /\ squaredErrors' = UpdatedErrors
      /\ Len(points) > 1
      /\ Distinct(input.observables) /\ correlation = CorrelationMatrix(Sorted) /\ ErrorsKept /\ AbsoluteKept
      /\ ~SomeUpdated => inverse = InverseOf(FitMatrix(input.observables, Sorted))
  BY DEF FinishEvaluation, building, ObservedInv
<1>7. Len(points') # 1
  <2>1. PICK n \in Nat : n = Len(points)
    BY LenProperties DEF PointsInv, Form
  <2>2. n > 1
    BY <1>1, <2>1
  <2>3. n # 1
    BY <2>2
  <2> QED
    BY <1>1, <2>1, <2>3
<1>2. CurrentErrors' = CurrentErrors
  <2>1. \A q : ValueOf(known[q], Start)' = ValueOf(known[q], Start)
    BY <1>1 DEF ValueOf, PointOf, OwnPoint
  <2> QED
    BY <1>1, <2>1, SortedStays DEF CurrentErrors
<1>3. UpdatedErrors = CurrentErrors
  BY <1>1 DEF UpdatedErrors, CurrentErrors, ErrorsKept, Updated
<1>4. ErrorsKept'
  BY <1>1, <1>3, SortedStays DEF ErrorsKept, CurrentErrors
<1>5. CASE SomeUpdated
  <2>1. /\ covariance' = UpdatedCovariance(input.observables, covariance, correlation, CurrentErrors)
        /\ inverse' = InverseOf(FitMatrix(input.observables, covariance'))
    BY <1>3, <1>5 DEF FinishEvaluation, SomeUpdated, Updated, UpdatedFit
  <2>2. DOMAIN input.observables = 1 .. Len(input.observables)
    BY LenProperties DEF PointsInv, Form, IsInput
  <2>3. ASSUME NEW i \in DOMAIN input.observables, NEW j \in DOMAIN input.observables
        PROVE  covariance'[i][j]
                 = IF ~IsRelative(input.observables[i]) /\ ~IsRelative(input.observables[j])
                   THEN covariance[i][j] ELSE Scaled(correlation[i][j], CurrentErrors[i])
    BY <2>1, <2>2 DEF UpdatedCovariance, Table, Scaled
  <2>4. AbsoluteKept'
    BY <1>1, <2>3, SortedStays DEF AbsoluteKept
  <2>5. RelativeOfThisPoint'
    BY <1>1, <1>2, <2>3 DEF RelativeOfThisPoint
  <2> QED
    BY <1>1, <1>4, <1>5, <1>7, <2>1, <2>4, <2>5, SortedStays DEF ObservedInv
<1>6. CASE ~SomeUpdated
  <2>1. covariance' = covariance /\ inverse' = inverse
    BY <1>6 DEF FinishEvaluation, SomeUpdated, Updated
  <2>2. AbsoluteKept'
    BY <1>1, <2>1, SortedStays DEF AbsoluteKept
  <2> QED
    BY <1>1, <1>4, <1>6, <1>7, <2>1, <2>2, SortedStays DEF ObservedInv
<1> QED
  BY <1>5, <1>6

\* Whatever the points and the order of failures, the covariance matrix of the observables
\* is that of the beginning, but for the errors that are relative to a prediction.
THEOREM ObservablesAreKept == Spec => []ObservedInv
<1>1. Init => ObservedInv
  BY DEF Init, ObservedInv
<1>2. ASSUME PointsInv, ObservedInv, [Next]_vars PROVE ObservedInv'
  <2>1. CASE AddCalculator
    BY <2>1 DEF AddCalculator, Building, ObservedInv
  <2>2. CASE RefuseCalculator \/ RefuseModel
    BY <2>2 DEF RefuseCalculator, RefuseModel, Refuse, ObservedInv
  <2>3. CASE ConstructorThrows \/ NameIsWrong
    BY <2>3 DEF ConstructorThrows, NameIsWrong, ObservedInv
  <2>4. CASE Initialize
    BY <1>2, <2>4, ObservedOfInitialized
  <2>5. CASE BeginEvaluation
    BY <1>2, <2>5, ObservedOfBegun
  <2>6. CASE Calculate \/ CalculatorThrows
    BY <1>2, <2>6, ObservedOfRun
  <2>7. CASE FinishEvaluation
    BY <1>2, <2>7, ObservedOfFinished
  <2>8. CASE UNCHANGED vars
    <3>1. /\ input' = input /\ pc' = pc /\ points' = points /\ chi2' = chi2 /\ known' = known /\ made' = made
          /\ squaredErrors' = squaredErrors /\ covariance' = covariance /\ correlation' = correlation
          /\ inverse' = inverse
      BY <2>8 DEF vars, building, observing
    <3>2. ErrorsKept' = ErrorsKept /\ AbsoluteKept' = AbsoluteKept
      BY <3>1, SortedStays DEF ErrorsKept, AbsoluteKept
    <3>3. CurrentErrors' = CurrentErrors
      <4>1. \A q : ValueOf(known[q], Start)' = ValueOf(known[q], Start)
        BY <3>1 DEF ValueOf, PointOf, OwnPoint
      <4> QED
        BY <3>1, <4>1, SortedStays DEF CurrentErrors
    <3>4. RelativeOfThisPoint' = RelativeOfThisPoint
      BY <3>1, <3>3 DEF RelativeOfThisPoint
    <3>5. Evaluated' = Evaluated
      BY <3>1 DEF Evaluated
    <3> QED
      BY <1>2, <3>1, <3>2, <3>4, <3>5, SortedStays DEF ObservedInv
  <2> QED
    BY <1>2, <2>1, <2>2, <2>3, <2>4, <2>5, <2>6, <2>7, <2>8 DEF Next
<1> QED
  BY <1>1, <1>2, PredictionsKeepTheirPoints, PTL DEF Spec

\* A well configured model has its matrices and observables in order.
LEMMA InputIsArranged ==
    ASSUME PointsInv, Distinct(input.observables), WellConfigured
    PROVE  /\ Arranged(input.matrices, input.observables)
           /\ DOMAIN input.observables = 1 .. Len(input.observables)
           /\ Len(input.observables) \in Nat
<1>1. PICK ms, obs : ms = input.matrices /\ obs = input.observables
  OBVIOUS
<1>2. ms \in Seq(Seq(RowNodes)) /\ obs \in Seq(ObservableNodes)
  BY <1>1 DEF PointsInv, Form, IsInput
<1>3. DOMAIN ms = 1 .. Len(ms) /\ DOMAIN obs = 1 .. Len(obs) /\ Len(obs) \in Nat
  BY <1>2, LenProperties
<1>4. ASSUME NEW m \in 1 .. Len(ms) PROVE Len(ms[m]) > 0
  <2>1. ms[m] \in Seq(RowNodes) /\ ms[m] # << >>
    BY <1>1, <1>2, <1>3, ElementOfSeq DEF WellConfigured
  <2>2. Len(ms[m]) \in Nat /\ Len(ms[m]) # 0
    BY <2>1, EmptySeq, LenProperties
  <2> QED
    BY <2>2
<1>5. Filled(ms)
  BY <1>2, <1>4 DEF Filled
<1>6. \A m \in DOMAIN ms : \A x \in DOMAIN ms[m] :
          /\ Len(ms[m][x].columns) = Len(ms[m])
          /\ \E o \in Range(obs) : o.of = ms[m][x].name
  BY <1>1 DEF WellConfigured
<1>7. \A m, n \in DOMAIN ms : \A x \in DOMAIN ms[m], y \in DOMAIN ms[n] :
          ms[m][x].name = ms[n][y].name => m = n /\ x = y
  BY <1>1 DEF WellConfigured
<1>8. \A i, j \in DOMAIN obs : obs[i].of = obs[j].of => i = j
  BY <1>1 DEF Distinct
<1> QED
  BY <1>1, <1>2, <1>3, <1>5, <1>6, <1>7, <1>8 DEF Arranged

\* Before the first point the matrix is the configured one.
LEMMA ConfiguredAtFirst ==
    ASSUME PointsInv, ObservedInv
    PROVE  ConfiguredCovariance
<1> SUFFICES ASSUME pc = "ready", Len(points) = 1, WellConfigured,
                    NEW i \in DOMAIN input.observables, NEW j \in DOMAIN input.observables
             PROVE  covariance[i][j] = ConfiguredEntry(input.observables[i], input.observables[j])
  BY DEF ConfiguredCovariance
<1>1. covariance = Sorted /\ Distinct(input.observables)
  BY DEF ObservedInv
<1>2. Arranged(input.matrices, input.observables) /\ DOMAIN input.observables = 1 .. Len(input.observables)
  BY <1>1, InputIsArranged
<1> QED
  BY <1>1, <1>2, SortedIsConfigured

\* The correlations of the beginning, where an error is relative.
Relatives ==
    \A o, q \in Range(input.observables) : IsRelative(o) => ~IsCorrelated(o) /\ HasError(q)

\* They are those of the errors alone.
LEMMA RelativeCoefficients ==
    ASSUME Arranged(input.matrices, input.observables), Relatives, correlation = CorrelationMatrix(Sorted),
           NEW i \in 1 .. Len(input.observables), NEW j \in 1 .. Len(input.observables),
           IsRelative(input.observables[i]) \/ IsRelative(input.observables[j])
    PROVE  /\ correlation[i][j] = IF i = j THEN 2 ELSE 0
           /\ Sorted[i][j] = IF i = j THEN InitialErrors[i] ELSE 0
<1>0. PICK obs : obs = input.observables
  OBVIOUS
<1>1. PICK n \in Nat : obs = input.observables /\ n = Len(obs) /\ DOMAIN obs = 1 .. n
  BY <1>0, LenProperties DEF Arranged
<1>2. \A h \in 1 .. n : obs[h] \in Range(obs)
  BY <1>1 DEF Range
<1>3. ~IsCorrelated(obs[i]) \/ ~IsCorrelated(obs[j])
  BY <1>1, <1>2 DEF Relatives
<1>4. Sorted[i][j] = IF i = j THEN InitialErrors[i] ELSE 0
  <2>1. CASE ~IsCorrelated(obs[i])
    BY <1>1, <2>1, UncorrelatedEntries
  <2>2. CASE ~IsCorrelated(obs[j])
    <3>1. /\ Sorted[j][i] = IF j = i THEN InitialErrors[j] ELSE 0
          /\ j # i => Sorted[i][j] = 0
      BY <1>1, <2>2, UncorrelatedEntries
    <3> QED
      BY <3>1
  <2> QED
    BY <1>3, <2>1, <2>2
<1>5. ASSUME NEW h \in 1 .. n PROVE Sorted[h][h] \in Nat /\ Sorted[h][h] > 0
  <2>1. HasError(obs[h])
    BY <1>1, <1>2 DEF Relatives
  <2>2. Sorted[h][h] = ConfiguredEntry(obs[h], obs[h]) /\ Sorted[h][h] \in Int
    BY <1>1, SortedIsConfigured, EntriesAreNumbers
  <2> QED
    BY <2>1, <2>2 DEF HasError
<1>6. correlation[i][j] = Coefficient(Sorted[i][j], Sorted[i][i], Sorted[j][j])
  <2>1. Len(Sorted) = n
    <3> DEFINE names == IndexOfNames(input.observables, input.matrices)
               index == [g \in DOMAIN input.observables |->
                           CHOOSE x \in DOMAIN names : names[x] = input.observables[g].of]
               unordered == UnorderedMatrix(input.observables, input.matrices, InitialErrors)
    <3>1. Sorted = Table(Len(input.observables), LAMBDA g, h : unordered[index[g]][index[h]])
      BY DEF Sorted, SortedMatrix
    <3> HIDE DEF index, unordered
    <3>2. Sorted = [g \in 1 .. Len(input.observables) |->
                      [h \in 1 .. Len(input.observables) |-> unordered[index[g]][index[h]]]]
      BY <3>1 DEF Table
    <3> QED
      BY <1>1, <3>2
  <2>2. correlation = [g \in 1 .. n |-> [h \in 1 .. n |-> Coefficient(Sorted[g][h], Sorted[g][g], Sorted[h][h])]]
    BY <2>1 DEF CorrelationMatrix, Table
  <2> QED
    BY <1>1, <2>2
<1>7. CASE i = j
  <2>1. PICK v \in Nat : v = Sorted[i][i] /\ v > 0
    BY <1>1, <1>5
  <2>2. Coefficient(v, v, v) = 2
    BY <2>1, CoefficientIsWhole
  <2> QED
    BY <1>4, <1>6, <1>7, <2>1, <2>2
<1>8. CASE i # j
  <2>1. PICK v \in Nat : v = Sorted[i][i] /\ v > 0
    BY <1>1, <1>5
  <2>2. PICK w \in Nat : w = Sorted[j][j] /\ w > 0
    BY <1>1, <1>5
  <2>3. Coefficient(0, v, w) = 0
    BY <2>1, <2>2, CoefficientIsWhole
  <2> QED
    BY <1>4, <1>6, <1>8, <2>1, <2>2, <2>3
<1> QED
  BY <1>4, <1>7, <1>8

\* The entry of a pair at this point.
LEMMA EntryOfThisPoint ==
    ASSUME PointsInv, ObservedInv, Evaluated, Arranged(input.matrices, input.observables), Relatives,
           NEW i \in 1 .. Len(input.observables), NEW j \in 1 .. Len(input.observables)
    PROVE  /\ SomeUpdated => covariance[i][j] = CurrentEntry(input.observables[i], input.observables[j])
           /\ ~SomeUpdated => Sorted[i][j] = CurrentEntry(input.observables[i], input.observables[j])
<1>1. PICK obs : obs = input.observables /\ DOMAIN obs = 1 .. Len(obs) /\ obs \in Seq(ObservableNodes)
  BY LenProperties DEF Arranged
<1>2. obs[i] = obs[j] <=> i = j
  BY <1>1 DEF Arranged
<1>3. Sorted[i][j] = ConfiguredEntry(obs[i], obs[j])
  BY <1>1, SortedIsConfigured
<1>4. CASE ~IsRelative(obs[i]) /\ ~IsRelative(obs[j])
  <2>1. CurrentEntry(obs[i], obs[j]) = Sorted[i][j]
    BY <1>3, <1>4 DEF CurrentEntry
  <2>2. covariance[i][j] = Sorted[i][j]
    BY <1>1, <1>4 DEF ObservedInv, Evaluated, AbsoluteKept
  <2> QED
    BY <1>1, <2>1, <2>2
<1>5. CASE IsRelative(obs[i]) \/ IsRelative(obs[j])
  <2>1. /\ correlation[i][j] = IF i = j THEN 2 ELSE 0
        /\ Sorted[i][j] = IF i = j THEN InitialErrors[i] ELSE 0
    <3>1. correlation = CorrelationMatrix(Sorted)
      BY DEF ObservedInv, Evaluated
    <3> QED
      BY <1>1, <1>5, <3>1, RelativeCoefficients
  <2>2. CurrentErrors[i] \in Int
    <3>1. InitialErrors[i] \in Int
      BY EntriesAreNumbers
    <3>2. ValueOf(known[obs[i].of], Start) \in Int
      <4>1. PICK owner : owner = known[obs[i].of]
        OBVIOUS
      <4>2. points \in Seq(Int) /\ Len(points) \in Nat /\ DOMAIN points = 1 .. Len(points)
        BY LenProperties DEF PointsInv, Form
      <4>3. PointOf(owner) \in 0 .. Len(points)
        BY PointsOfOwners DEF PointsInv
      <4>4. PointOf(owner) = 0 \/ points[PointOf(owner)] \in Int
        BY <4>2, <4>3, ElementOfSeq
      <4> QED
        BY <4>1, <4>4, PhysicsAssumption DEF ValueOf
    <3>3. obs[i].error \in Int /\ obs[i].relative \in Int
      <4>1. obs[i] \in ObservableNodes
        BY <1>1, ElementOfSeq
      <4> QED
        BY <4>1 DEF ObservableNodes
    <3>4. SquaredError(obs[i], ValueOf(known[obs[i].of], Start)) \in Int
      BY <3>2, <3>3 DEF SquaredError, Square
    <3> QED
      BY <1>1, <3>1, <3>4 DEF CurrentErrors
  <2>3. SomeUpdated => covariance[i][j] = IF i = j THEN CurrentErrors[i] ELSE 0
    <3> SUFFICES ASSUME SomeUpdated PROVE covariance[i][j] = IF i = j THEN CurrentErrors[i] ELSE 0
      OBVIOUS
    <3>1. covariance[i][j] = Scaled(correlation[i][j], CurrentErrors[i])
      BY <1>1, <1>5 DEF ObservedInv, Evaluated, RelativeOfThisPoint
    <3>2. PICK e \in Int : e = CurrentErrors[i]
      BY <2>2
    <3>3. Scaled(2, e) = e /\ Scaled(0, e) = 0
      <4>1. 2 # NotANumber /\ 0 # NotANumber
        BY NotANumberAssumption
      <4>2. (2 * e) \div 2 = e /\ (0 * e) \div 2 = 0
        OBVIOUS
      <4> QED
        BY <4>1, <4>2 DEF Scaled
    <3> QED
      BY <2>1, <3>1, <3>2, <3>3
  <2>4. CASE i = j
    <3>1. IsRelative(obs[i]) /\ obs[i] = obs[j]
      BY <1>5, <2>4
    <3>2. CurrentEntry(obs[i], obs[j])
            = SquaredError(obs[i], IF obs[i].noUpdate THEN obs[i].bestFit ELSE ValueOf(known[obs[i].of], Start))
      BY <3>1 DEF CurrentEntry
    <3>3. InitialErrors[i] = SquaredError(obs[i], obs[i].bestFit)
      BY <1>1 DEF InitialErrors
    <3>4. CurrentErrors[i] = IF obs[i].noUpdate THEN InitialErrors[i]
                             ELSE SquaredError(obs[i], ValueOf(known[obs[i].of], Start))
      BY <1>1, <3>1 DEF CurrentErrors, Updated
    <3>5. CurrentEntry(obs[i], obs[j]) = CurrentErrors[i]
      BY <3>2, <3>3, <3>4
    <3>6. ~SomeUpdated => CurrentErrors[i] = InitialErrors[i]
      <4>1. obs[i] \in Range(obs)
        BY <1>1 DEF Range
      <4> QED
        BY <1>1, <4>1 DEF SomeUpdated, CurrentErrors
    <3> QED
      BY <1>1, <2>1, <2>3, <2>4, <3>5, <3>6
  <2>5. CASE i # j
    <3>1. CurrentEntry(obs[i], obs[j]) = ConfiguredEntry(obs[i], obs[j])
      BY <1>2, <2>5 DEF CurrentEntry
    <3> QED
      BY <1>1, <1>3, <2>1, <2>3, <2>5, <3>1
  <2> QED
    BY <2>4, <2>5
<1> QED
  BY <1>4, <1>5

\* For any input file, any points and any order of failures: the observables are fitted
\* with the covariances of the input file, and with the errors of this point where they
\* are relative.
THEOREM ObservablesAreFittedAsConfigured == Spec => []ObservablesAsConfigured
<1>1. ASSUME PointsInv, ObservedInv PROVE FitInverseOfThisPoint
  <2>1. PICK obs, of : obs = input.observables /\ of = Fitted(obs)
    OBVIOUS
  <2> SUFFICES ASSUME Evaluated, WellConfigured, Relatives
               PROVE  inverse = InverseOf([x \in 1 .. Len(of) |->
                                   [y \in 1 .. Len(of) |-> Exact(CurrentEntry(obs[of[x]], obs[of[y]]))]])
    BY <2>1 DEF FitInverseOfThisPoint, Relatives, Table
  <2>2. Distinct(obs) /\ inverse = InverseOf(FitMatrix(obs, IF SomeUpdated THEN covariance ELSE Sorted))
    BY <1>1, <2>1 DEF ObservedInv, Evaluated
  <2>3. PICK matrix : matrix = IF SomeUpdated THEN covariance ELSE Sorted
    OBVIOUS
  <2>4. Arranged(input.matrices, obs) /\ Len(obs) \in Nat
    BY <1>1, <2>1, <2>2, InputIsArranged
  <2>5. ASSUME NEW i \in 1 .. Len(obs), NEW j \in 1 .. Len(obs) PROVE matrix[i][j] = CurrentEntry(obs[i], obs[j])
    BY <1>1, <2>1, <2>3, <2>4, EntryOfThisPoint
  <2>6. \A x \in 1 .. Len(of) : of[x] \in 1 .. Len(obs)
    <3>1. PICK n \in Nat : n = Len(obs)
      BY <2>4
    <3>2. of \in Seq(1 .. n)
      BY <2>1, <3>1, Ascends DEF Fitted
    <3> QED
      BY <3>1, <3>2, ElementOfSeq
  <2>7. inverse = InverseOf([x \in 1 .. Len(of) |-> [y \in 1 .. Len(of) |-> Exact(matrix[of[x]][of[y]])]])
    BY <2>1, <2>2, <2>3 DEF FitMatrix, Table
  <2>8. \A x, y \in 1 .. Len(of) : matrix[of[x]][of[y]] = CurrentEntry(obs[of[x]], obs[of[y]])
    BY <2>5, <2>6
  <2>9. [x \in 1 .. Len(of) |-> [y \in 1 .. Len(of) |-> Exact(matrix[of[x]][of[y]])]]
          = [x \in 1 .. Len(of) |-> [y \in 1 .. Len(of) |-> Exact(CurrentEntry(obs[of[x]], obs[of[y]]))]]
    BY <2>8
  <2> QED
    BY <2>7, <2>9
<1>2. ASSUME PointsInv, ObservedInv PROVE ObservablesAsConfigured
  BY <1>1, <1>2, ConfiguredAtFirst DEF ObservablesAsConfigured
<1> QED
  BY <1>2, PredictionsKeepTheirPoints, ObservablesAreKept, PTL

=============================================================================
