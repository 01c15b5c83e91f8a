----------------------------- MODULE ChainProofs -----------------------------
(***************************************************************************)
(* What holds of the Markov chain for every set of points, every chi2, all *)
(* bounds and cuts, and chains of any length, resumed or killed any number *)
(* of times; and of the chain with a queue, for every coordinates and all  *)
(* sizes of the queue.  HigherOrderChain assumes of its own constants what *)
(* they are and nothing of those of MarkovChain: the theorems about Spec   *)
(* do not depend on them.                                                  *)
(***************************************************************************)
EXTENDS HigherOrderChain, FiniteSetTheorems, SequenceTheorems, TLAPS


(***************************************************************************)
(* Sums of sequences.  The library adds up a sequence with a fold over the *)
(* set of its indices, the function that takes the last index off every    *)
(* set.  There is such a function, by induction over the length, and what  *)
(* it gives are the sums of the first elements.                            *)
(***************************************************************************)
\* Every set of numbers has a least one: of the intervals that begin at 1, one
\* has no other as a part.
LEMMA LeastNumber ==
    ASSUME NEW T \in SUBSET Nat, T # {}
    PROVE  \E n \in T : \A m \in T : n <= m
<1> DEFINE R == StrictSubsetOrdering(Nat)
<1> DEFINE F == FiniteSubsetsOf(Nat)
<1> DEFINE U == {1 .. n : n \in T}
<1>1. IsWellFoundedOn(R, F)
  BY FS_StrictSubsetOrderingWellFounded
<1>2. U \subseteq F
  BY FS_Interval DEF FiniteSubsetsOf
<1>3. U # {}
  OBVIOUS
<1>4. \E x \in U : \A y \in U : ~(<<y, x>> \in R)
  <2> HIDE DEF R, F, U
  <2> QED BY <1>1, <1>2, <1>3, WFMin
<1>5. PICK n \in T : \A m \in T : ~(<<1 .. m, 1 .. n>> \in R)
  BY <1>4
<1>6. ASSUME NEW m \in T, m < n PROVE FALSE
  <2>1. 1 .. m \subseteq 1 .. n /\ n \in 1 .. n /\ n \notin 1 .. m
    BY <1>6
  <2>2. 1 .. m \in SUBSET Nat /\ 1 .. n \in SUBSET Nat
    OBVIOUS
  <2>3. <<1 .. m, 1 .. n>> \in R
    BY <2>1, <2>2 DEF StrictSubsetOrdering
  <2> QED
    BY <1>5, <2>3
<1> QED
  BY <1>6

\* A set that holds 0 and goes on with every number it holds has all of them.
LEMMA Reaches ==
    ASSUME NEW T, 0 \in T, \A n \in Nat : n \in T => n + 1 \in T
    PROVE  \A n \in Nat : n \in T
<1> SUFFICES ASSUME Nat \ T # {} PROVE FALSE
  OBVIOUS
<1>1. PICK n \in Nat \ T : \A m \in Nat \ T : n <= m
  BY LeastNumber
<1>2. n - 1 \in Nat
  BY <1>1
<1> QED
  BY <1>1, <1>2

\* Two functions that begin alike and go on alike end alike.
SameSteps(p, q, n) ==
    p[0] = q[0] /\ \A i \in 1 .. n : p[i - 1] = q[i - 1] => p[i] = q[i]

LEMMA Agree ==
    ASSUME NEW n \in Nat, NEW p, NEW q, SameSteps(p, q, n)
    PROVE  \A i \in 0 .. n : p[i] = q[i]
<1> DEFINE T == {i \in Nat : i <= n => p[i] = q[i]}
<1> USE DEF SameSteps
<1>1. 0 \in T
  OBVIOUS
<1>2. ASSUME NEW i \in Nat, i \in T PROVE i + 1 \in T
  <2>1. CASE i + 1 > n
    BY <2>1
  <2>2. CASE i + 1 <= n
    <3>1. i + 1 \in 1 .. n /\ p[i] = q[i] /\ (i + 1) - 1 = i
      BY <1>2, <2>2
    <3> QED
      BY <3>1
  <2> QED
    BY <2>1, <2>2
<1>3. \A i \in Nat : i \in T
  <2> HIDE DEF T
  <2> QED
    BY <1>1, <1>2, Reaches
<1> QED
  BY <1>3

\* The greatest element of a set of indices.
LEMMA MaxIsLast ==
    ASSUME NEW n \in Nat, NEW t \in SUBSET (1 .. n)
    PROVE  /\ n \in t => Max(t) = n
           /\ t # {} => Max(t) \in t
<1>1. ASSUME t # {} PROVE \E x \in t : \A y \in t : y <= x
  <2> DEFINE below == {n - x : x \in t}
  <2>1. below \in SUBSET Nat /\ below # {}
    <3>1. \A x \in t : n - x \in Nat
      OBVIOUS
    <3> QED
      BY <1>1, <3>1
  <2>2. PICK b \in below : \A c \in below : b <= c
    BY <2>1, LeastNumber
  <2>3. PICK x \in t : b = n - x
    BY <2>2
  <2>4. \A y \in t : n - x <= n - y
    BY <2>2, <2>3
  <2> QED
    BY <2>4
<1>2. t # {} => Max(t) \in t /\ \A y \in t : y <= Max(t)
  BY <1>1 DEF Max
<1>3. ASSUME n \in t PROVE Max(t) = n
  <2>1. Max(t) \in t /\ n <= Max(t)
    BY <1>2, <1>3
  <2>2. Max(t) \in 1 .. n
    BY <2>1
  <2> QED
    BY <2>1, <2>2
<1> QED
  BY <1>2, <1>3

\* f folds the indices up to m: it takes the last one off every set.
FoldsUpTo(f, base, step, m) ==
    \A t \in SUBSET (1 .. m) :
        f[t] = IF t = {} THEN base ELSE step[<<f[t \ {Max(t)}], Max(t)>>]

HasFold(X, base, step, m) ==
    \E f \in [SUBSET (1 .. m) -> X] : FoldsUpTo(f, base, step, m)

\* The folds of the library are over sets of indices.  With a step that is a
\* function there is one.
LEMMA Folding ==
    ASSUME NEW X, NEW base \in X, NEW n \in Nat, NEW step \in [X \X (1 .. n) -> X]
    PROVE  HasFold(X, base, step, n)
<1> DEFINE T == {m \in Nat : m <= n => HasFold(X, base, step, m)}
<1>1. 0 \in T
  <2> DEFINE f == [t \in SUBSET (1 .. 0) |-> base]
  <2>1. \A t \in SUBSET (1 .. 0) : t = {}
    OBVIOUS
  <2>2. f \in [SUBSET (1 .. 0) -> X] /\ FoldsUpTo(f, base, step, 0)
    BY <2>1 DEF FoldsUpTo
  <2>3. HasFold(X, base, step, 0)
    BY <2>2 DEF HasFold
  <2> QED
    BY <2>3
<1>2. ASSUME NEW m \in Nat, m \in T PROVE m + 1 \in T
  <2> SUFFICES ASSUME m + 1 <= n
               PROVE  HasFold(X, base, step, m + 1)
    OBVIOUS
  <2>1. PICK f \in [SUBSET (1 .. m) -> X] : FoldsUpTo(f, base, step, m)
    <3>1. HasFold(X, base, step, m)
      BY <1>2
    <3> QED
      BY <3>1 DEF HasFold
  <2> DEFINE g == [t \in SUBSET (1 .. m + 1) |->
                      IF m + 1 \in t THEN step[<<f[t \ {m + 1}], m + 1>>] ELSE f[t]]
  <2>2. \A t \in SUBSET (1 .. m + 1) : m + 1 \notin t => t \in SUBSET (1 .. m)
    OBVIOUS
  <2>3. \A t \in SUBSET (1 .. m + 1) : t \ {m + 1} \in SUBSET (1 .. m)
    OBVIOUS
  <2>4. g \in [SUBSET (1 .. m + 1) -> X]
    <3>1. ASSUME NEW t \in SUBSET (1 .. m + 1) PROVE g[t] \in X
      <4>1. CASE m + 1 \in t
        <5>1. <<f[t \ {m + 1}], m + 1>> \in X \X (1 .. n)
          BY <2>1, <2>3
        <5> QED
          BY <4>1, <5>1
      <4>2. CASE m + 1 \notin t
        BY <2>1, <2>2, <4>2
      <4> QED
        BY <4>1, <4>2
    <3> QED
      BY <3>1
  <2>5. ASSUME NEW t \in SUBSET (1 .. m + 1)
        PROVE  g[t] = IF t = {} THEN base ELSE step[<<g[t \ {Max(t)}], Max(t)>>]
    <3>1. CASE m + 1 \in t
      <4>1. Max(t) = m + 1
        BY <3>1, MaxIsLast
      <4>2. g[t \ {m + 1}] = f[t \ {m + 1}]
        BY <2>3
      <4> QED
        BY <3>1, <4>1, <4>2
    <3>2. CASE m + 1 \notin t
      <4>1. t \in SUBSET (1 .. m) /\ t \ {Max(t)} \in SUBSET (1 .. m)
        BY <2>2, <3>2
      <4>2. g[t] = f[t] /\ g[t \ {Max(t)}] = f[t \ {Max(t)}]
        BY <3>2, <4>1
      <4> QED
        BY <2>1, <4>1, <4>2 DEF FoldsUpTo
    <3> QED
      BY <3>1, <3>2
  <2> HIDE DEF g
  <2> QED
    BY <2>4, <2>5 DEF FoldsUpTo, HasFold
<1>3. \A m \in Nat : m \in T
  <2> HIDE DEF T
  <2> QED
    BY <1>1, <1>2, Reaches
<1> QED
  BY <1>3

OnIntervals(f, base, step, n) ==
    /\ f[1 .. 0] = base
    /\ \A i \in 1 .. n : f[1 .. i] = step[<<f[1 .. i - 1], i>>]

\* A function that folds agrees on the intervals with the recursion over them.
LEMMA FoldedIntervals ==
    ASSUME NEW X, NEW base \in X, NEW n \in Nat, NEW step \in [X \X (1 .. n) -> X],
           NEW f \in [SUBSET (1 .. n) -> X], FoldsUpTo(f, base, step, n)
    PROVE  OnIntervals(f, base, step, n)
<1>1. f[1 .. 0] = base
  <2>1. 1 .. 0 = {}
    OBVIOUS
  <2> QED
    BY <2>1 DEF FoldsUpTo
<1>2. ASSUME NEW i \in 1 .. n PROVE f[1 .. i] = step[<<f[1 .. i - 1], i>>]
  <2>1. 1 .. i \in SUBSET (1 .. i) /\ 1 .. i \in SUBSET (1 .. n) /\ 1 .. i # {} /\ i \in 1 .. i
    OBVIOUS
  <2>2. Max(1 .. i) = i
    BY <2>1, MaxIsLast
  <2>3. (1 .. i) \ {i} = 1 .. i - 1
    OBVIOUS
  <2> QED
    BY <2>1, <2>2, <2>3 DEF FoldsUpTo
<1> QED
  BY <1>1, <1>2 DEF OnIntervals

\* What the fold of a sequence of numbers is: the last of its sums.
LEMMA TotalSums ==
    ASSUME NEW s \in Seq(Int)
    PROVE  \E p \in [0 .. Len(s) -> Int] :
               /\ p[0] = 0
               /\ \A i \in 1 .. Len(s) : p[i] = p[i - 1] + s[i]
               /\ Total(s) = p[Len(s)]
<1> DEFINE n == Len(s)
           step == [xi \in Int \X (1 .. n) |-> xi[1] + s[xi[2]]]
           Solves(f) == f = [t \in SUBSET DOMAIN s |->
                                IF t = {} THEN 0 ELSE f[t \ {Max(t)}] + s[Max(t)]]
           fold == CHOOSE f : Solves(f)
<1>1. n \in Nat /\ DOMAIN s = 1 .. n /\ \A i \in 1 .. n : s[i] \in Int
  OBVIOUS
<1>2. step \in [Int \X (1 .. n) -> Int]
  BY <1>1
<1>3. Total(s) = fold[1 .. n]
  BY <1>1 DEF Total, FoldLeft, MapThenFoldSet
<1>4. PICK f \in [SUBSET (1 .. n) -> Int] : FoldsUpTo(f, 0, step, n)
  <2>1. HasFold(Int, 0, step, n)
    <3>1. 0 \in Int
      OBVIOUS
    <3> HIDE DEF n, step
    <3> QED
      BY <1>1, <1>2, <3>1, Folding
  <2> HIDE DEF n, step
  <2> QED
    BY <2>1 DEF HasFold
<1>5. Solves(f)
  <2>1. ASSUME NEW t \in SUBSET (1 .. n), t # {}
        PROVE  f[t] = f[t \ {Max(t)}] + s[Max(t)]
    <3>1. Max(t) \in 1 .. n
      BY <1>1, <2>1, MaxIsLast
    <3>2. <<f[t \ {Max(t)}], Max(t)>> \in Int \X (1 .. n)
      BY <1>4, <3>1
    <3>3. f[t] = step[<<f[t \ {Max(t)}], Max(t)>>]
      BY <1>4, <2>1 DEF FoldsUpTo
    <3> QED
      BY <3>2, <3>3
  <2>2. f[{}] = 0
    BY <1>4 DEF FoldsUpTo
  <2> QED
    BY <1>1, <1>4, <2>1, <2>2
<1>6. Solves(fold)
  <2> HIDE DEF Solves
  <2> QED
    BY <1>5
<1>7. /\ fold[1 .. 0] = 0
      /\ \A i \in 1 .. n : fold[1 .. i] = fold[1 .. i - 1] + s[i]
  <2>1. fold[1 .. 0] = 0
    <3>1. 1 .. 0 = {} /\ {} \in SUBSET DOMAIN s
      OBVIOUS
    <3> HIDE DEF fold
    <3> QED
      BY <1>6, <3>1
  <2>2. ASSUME NEW i \in 1 .. n PROVE fold[1 .. i] = fold[1 .. i - 1] + s[i]
    <3>1. 1 .. i \in SUBSET DOMAIN s /\ 1 .. i # {} /\ i \in 1 .. i /\ i \in Nat
      BY <1>1
    <3>2. Max(1 .. i) = i
      BY <3>1, MaxIsLast
    <3>3. (1 .. i) \ {i} = 1 .. i - 1
      BY <1>1
    <3> HIDE DEF fold
    <3> QED
      BY <1>6, <3>1, <3>2, <3>3
  <2> QED
    BY <2>1, <2>2
<1> DEFINE p == [i \in 0 .. n |-> f[1 .. i]]
           q == [i \in 0 .. n |-> fold[1 .. i]]
<1>8. /\ p \in [0 .. n -> Int]
      /\ p[0] = 0
      /\ \A i \in 1 .. n : p[i] = p[i - 1] + s[i]
  <2>1. \A i \in 0 .. n : 1 .. i \in SUBSET (1 .. n)
    BY <1>1
  <2>2. f[1 .. 0] = 0 /\ \A i \in 1 .. n : f[1 .. i] = step[<<f[1 .. i - 1], i>>]
    <3>1. 0 \in Int
      OBVIOUS
    <3>2. OnIntervals(f, 0, step, n)
      <4> HIDE DEF step, n
      <4> QED
        BY <1>1, <1>2, <1>4, <3>1, FoldedIntervals
    <3> QED
      BY <3>2 DEF OnIntervals
  <2>3. ASSUME NEW i \in 1 .. n PROVE f[1 .. i] = f[1 .. i - 1] + s[i]
    <3>1. i - 1 \in 0 .. n
      BY <1>1
    <3>2. f[1 .. i - 1] \in Int
      BY <1>4, <2>1, <3>1
    <3>3. <<f[1 .. i - 1], i>> \in Int \X (1 .. n)
      BY <3>2
    <3>4. step[<<f[1 .. i - 1], i>>] = f[1 .. i - 1] + s[i]
      BY <3>3
    <3> QED
      BY <2>2, <3>4
  <2>4. \A i \in 0 .. n : f[1 .. i] \in Int
    BY <1>4, <2>1
  <2>5. 0 \in 0 .. n /\ \A i \in 1 .. n : i \in 0 .. n /\ i - 1 \in 0 .. n
    BY <1>1
  <2> QED
    BY <2>2, <2>3, <2>4, <2>5
<1>9. q[0] = 0 /\ \A i \in 1 .. n : q[i] = q[i - 1] + s[i]
  <2> HIDE DEF fold
  <2> QED
    BY <1>1, <1>7
<1>10. \A i \in 0 .. n : p[i] = q[i]
  <2> HIDE DEF p, q, n
  <2> QED
    <3>1. SameSteps(p, q, n)
      BY <1>8, <1>9 DEF SameSteps
    <3> QED
      BY <1>1, <3>1, Agree
<1>11. Total(s) = p[n]
  <2> HIDE DEF p, fold
  <2> QED
    BY <1>1, <1>3, <1>10
<1> HIDE DEF p
<1> QED
  BY <1>1, <1>8, <1>11

\* p holds the sums of the first elements of s.
SumsOf(p, s) == p[0] = 0 /\ \A i \in 1 .. Len(s) : p[i] = p[i - 1] + s[i]

LEMMA TotalHasSums ==
    ASSUME NEW s \in Seq(Int)
    PROVE  \E p \in [0 .. Len(s) -> Int] : SumsOf(p, s) /\ Total(s) = p[Len(s)]
  BY TotalSums DEF SumsOf

\* Whatever adds up the elements ends at the total.
LEMMA TotalOfSums ==
    ASSUME NEW s \in Seq(Int), NEW p, SumsOf(p, s)
    PROVE  Total(s) = p[Len(s)]
<1>1. PICK q \in [0 .. Len(s) -> Int] : SumsOf(q, s) /\ Total(s) = q[Len(s)]
  BY TotalHasSums
<1>2. SameSteps(p, q, Len(s))
  BY <1>1 DEF SumsOf, SameSteps
<1>3. Len(s) \in Nat /\ Len(s) \in 0 .. Len(s)
  BY LenProperties
<1>4. \A i \in 0 .. Len(s) : p[i] = q[i]
  BY <1>2, <1>3, Agree
<1> QED
  BY <1>1, <1>3, <1>4

LEMMA TotalType == ASSUME NEW s \in Seq(Int) PROVE Total(s) \in Int
  BY TotalHasSums, LenProperties

LEMMA TotalConcat ==
    ASSUME NEW s \in Seq(Int), NEW t \in Seq(Int)
    PROVE  Total(s \o t) = Total(s) + Total(t)
<1>1. PICK p \in [0 .. Len(s) -> Int] : SumsOf(p, s) /\ Total(s) = p[Len(s)]
  BY TotalHasSums
<1>2. PICK q \in [0 .. Len(t) -> Int] : SumsOf(q, t) /\ Total(t) = q[Len(t)]
  BY TotalHasSums
<1>3. PICK m \in Nat, n \in Nat : m = Len(s) /\ n = Len(t)
  BY LenProperties
<1>4. PICK u : u = s \o t
  OBVIOUS
<1>5. u \in Seq(Int) /\ Len(u) = m + n
  BY <1>3, <1>4, ConcatProperties
<1>6. \A i \in 1 .. m + n : u[i] = IF i <= m THEN s[i] ELSE t[i - m]
  BY <1>3, <1>4, ConcatProperties
<1> DEFINE r == [i \in 0 .. m + n |-> IF i <= m THEN p[i] ELSE p[m] + q[i - m]]
<1>7. p \in [0 .. m -> Int] /\ q \in [0 .. n -> Int] /\ p[0] = 0 /\ q[0] = 0
  BY <1>1, <1>2, <1>3 DEF SumsOf
<1>8. ASSUME NEW i \in 1 .. m + n
      PROVE  r[i] = r[i - 1] + u[i]
  <2>1. CASE i <= m
    <3>1. p[i] = p[i - 1] + s[i]
      BY <1>1, <1>3, <2>1 DEF SumsOf
    <3> QED
      BY <1>6, <2>1, <3>1
  <2>2. CASE i > m
    <3>1. PICK k \in 1 .. n : k = i - m
      BY <2>2
    <3>2. q[k] = q[k - 1] + t[k] /\ q[k] \in Int /\ q[k - 1] \in Int
      <4>1. k \in 1 .. Len(t)
        BY <1>3
      <4>2. q[k] = q[k - 1] + t[k]
        BY <1>2, <4>1 DEF SumsOf
      <4>3. k \in 0 .. n /\ k - 1 \in 0 .. n
        OBVIOUS
      <4> QED
        BY <1>7, <4>2, <4>3
    <3>3. u[i] = t[k] /\ r[i] = p[m] + q[k] /\ i - 1 = m + (k - 1)
      <4>1. u[i] = t[k]
        <5> HIDE DEF r
        <5> QED
          BY <1>6, <2>2, <3>1
      <4>2. r[i] = p[m] + q[k]
        BY <2>2, <3>1
      <4>3. i - 1 = m + (k - 1)
        BY <3>1
      <4> QED
        BY <4>1, <4>2, <4>3
    <3>4. t[k] \in Int /\ p[m] \in Int
      BY <1>3, <1>7
    <3>5. r[i - 1] = p[m] + q[k - 1]
      <4>1. CASE k = 1
        BY <1>7, <3>3, <4>1
      <4>2. CASE k # 1
        BY <3>3, <4>2
      <4> QED
        BY <4>1, <4>2
    <3> HIDE DEF r
    <3> QED
      BY <3>2, <3>3, <3>4, <3>5
  <2> QED
    BY <2>1, <2>2
<1>9. r[0] = 0
  BY <1>7
<1>10. SumsOf(r, u)
  <2> HIDE DEF r
  <2> QED
    BY <1>5, <1>8, <1>9 DEF SumsOf
<1>11. r[m + n] = p[m] + q[n]
  BY <1>7
<1>12. Total(u) = r[m + n]
  <2> HIDE DEF r
  <2> QED
    BY <1>5, <1>10, TotalOfSums
<1> QED
  BY <1>1, <1>2, <1>3, <1>4, <1>11, <1>12

LEMMA TotalOne ==
    ASSUME NEW w \in Int
    PROVE  Total(<<w>>) = w
<1> DEFINE p == [i \in 0 .. 1 |-> IF i = 0 THEN 0 ELSE w]
<1>1. <<w>> \in Seq(Int) /\ Len(<<w>>) = 1
  OBVIOUS
<1>2. SumsOf(p, <<w>>)
  BY <1>1 DEF SumsOf
<1>3. p[1] = w
  OBVIOUS
<1> HIDE DEF p
<1> QED
  BY <1>1, <1>2, <1>3, TotalOfSums

LEMMA TotalEmpty == Total(<<>>) = 0
<1>1. <<>> \in Seq(Int) /\ Len(<<>>) = 0
  OBVIOUS
<1>2. SumsOf([i \in 0 .. 0 |-> 0], <<>>)
  BY <1>1 DEF SumsOf
<1> QED
  BY <1>1, <1>2, TotalOfSums

LEMMA TotalAppend ==
    ASSUME NEW s \in Seq(Int), NEW w \in Int
    PROVE  Total(Append(s, w)) = Total(s) + w
<1>1. Append(s, w) = s \o <<w>> /\ <<w>> \in Seq(Int)
  BY AppendIsConcat
<1> QED
  BY <1>1, TotalConcat, TotalOne

\* The weights that are held back: nothing but the first counts.
LEMMA TotalHeld ==
    ASSUME NEW w \in Nat, NEW r \in Nat
    PROVE  Total(<<w>> \o [i \in 1 .. r |-> 0]) = w
<1> DEFINE zeros == [i \in 1 .. r |-> 0]
           p == [i \in 0 .. r |-> 0]
<1>1. zeros \in Seq(Int) /\ Len(zeros) = r
  <2>1. zeros \in Seq(Nat) /\ Len(zeros) = r
    BY IsASeq
  <2> HIDE DEF zeros
  <2> QED
    BY <2>1
<1>2. SumsOf(p, zeros)
  <2>1. p[0] = 0 /\ \A i \in 1 .. r : p[i] = p[i - 1] + zeros[i]
    OBVIOUS
  <2> HIDE DEF p, zeros
  <2> QED
    BY <1>1, <2>1 DEF SumsOf
<1>3. p[r] = 0
  OBVIOUS
<1>4. Total(zeros) = 0
  <2> HIDE DEF p, zeros
  <2> QED
    BY <1>1, <1>2, <1>3, TotalOfSums
<1>5. <<w>> \in Seq(Int)
  OBVIOUS
<1> HIDE DEF zeros
<1>6. Total(<<w>> \o zeros) = w
  <2>1. Total(<<w>> \o zeros) = Total(<<w>>) + Total(zeros)
    BY <1>1, <1>5, TotalConcat
  <2>2. Total(<<w>>) = w
    <3>1. w \in Int
      OBVIOUS
    <3> QED
      BY <3>1, TotalOne
  <2> QED
    BY <1>4, <2>1, <2>2
<1> QED
  BY <1>6 DEF zeros

-----------------------------------------------------------------------------
USE ChainAssumption

\* The entries that are held back: how many there are, and that they are
\* weights.
LEMMA PendingProperties ==
    ASSUME NEW w \in Nat, NEW r \in Nat
    PROVE  LET s == <<w>> \o [i \in 1 .. r |-> 0]
           IN  /\ s \in Seq(Nat)
               /\ Len(s) = r + 1
               /\ s[1] = w
               /\ \A i \in 2 .. r + 1 : s[i] = 0
<1> DEFINE zeros == [i \in 1 .. r |-> 0]
<1>1. zeros \in Seq(Nat) /\ Len(zeros) = r
  BY IsASeq
<1>2. <<w>> \in Seq(Nat) /\ Len(<<w>>) = 1
  OBVIOUS
<1>3. /\ <<w>> \o zeros \in Seq(Nat)
      /\ Len(<<w>> \o zeros) = 1 + r
      /\ \A i \in 1 .. 1 + r :
             (<<w>> \o zeros)[i] = IF i <= 1 THEN <<w>>[i] ELSE zeros[i - 1]
  BY <1>1, <1>2, ConcatProperties
<1> QED
  BY <1>3

\* What handing on changes in the files: the mark of the last one.
LEMMA MarkedHandedOn ==
    ASSUME NEW files \in Seq(File)
    PROVE  LET marked == [files EXCEPT ![Len(files)].handedOn = TRUE]
           IN  /\ marked \in Seq(File)
               /\ Len(marked) = Len(files)
               /\ \A r \in 1 .. Len(files) : r # Len(files) => marked[r] = files[r]
               /\ \A r \in 1 .. Len(files) :
                      /\ marked[r].tree = files[r].tree
                      /\ marked[r].pointAccepted = files[r].pointAccepted
                      /\ marked[r].resumed = files[r].resumed
               /\ Len(files) > 0 => marked[Len(files)].handedOn
<1> DEFINE n == Len(files)
           g == [files[n] EXCEPT !.handedOn = TRUE]
           marked == [files EXCEPT ![n] = g]
<1>1. n \in Nat /\ files \in [1 .. n -> File]
  BY LenProperties
<1>2. \A r \in 1 .. n : files[r] \in File
  BY <1>1
<1>3. n \in 1 .. n =>
          g \in File /\ g.tree = files[n].tree /\ g.pointAccepted = files[n].pointAccepted
          /\ g.resumed = files[n].resumed /\ g.handedOn
  BY <1>2 DEF File
<1>4. marked \in [1 .. n -> File]
  BY <1>1, <1>3
<1>5. marked \in Seq(File) /\ Len(marked) = n
  BY <1>1, <1>4, IsASeq, LenProperties
<1>6. \A r \in 1 .. n : marked[r] = IF r = n THEN g ELSE files[r]
  BY <1>1
<1>7. n > 0 => n \in 1 .. n
  BY <1>1
<1> QED
  BY <1>1, <1>3, <1>5, <1>6, <1>7

\* Every step keeps the types.
LEMMA TypesKept == TypeOK /\ [Next]_vars => TypeOK'
<1> USE DEF TypeOK
<1> SUFFICES ASSUME TypeOK, [Next]_vars
             PROVE  TypeOK'
  OBVIOUS
<1> USE DEF memory, model, output, disk
<1>1. ASSUME NEW n \in RunLengths, Construct(n)
      PROVE  TypeOK'
  <2>1. saved.par \in Points /\ steering.given \in [Points -> Points]
    BY DEF Status
  <2>2. Given(saved.par) \in Points
    BY <2>1 DEF Given
  <2> QED
    BY <1>1, <2>2 DEF Construct, InitialWeight, Status
<1>2. CASE BeginExecute
  BY <1>2 DEF BeginExecute, Remember
<1>3. ASSUME NEW p \in Points, DrawFirst(p)
      PROVE  TypeOK'
  BY <1>3 DEF DrawFirst
<1>4. ASSUME NEW p \in Points, Draw(p)
      PROVE  TypeOK'
  BY <1>4 DEF Draw
<1>5. ASSUME UpdateModel
      PROVE  chi2' \in Chi2Values /\ iter' \in Nat /\ tree' \in Seq(Status)
  <2>1. Chi2[par] \in Chi2Values
    BY DEF Chi2Values
  <2> DEFINE entry == [par |-> par, chi2 |-> Chi2[par], iter |-> iter]
  <2>2. entry \in Status
    BY <2>1 DEF Status
  <2>3. Append(tree, entry) \in Seq(Status)
    BY <2>2, AppendProperties
  <2> QED
    BY <1>5, <2>1, <2>3 DEF UpdateModel, FillTree
<1>6. CASE EvaluateFirst
  BY <1>5, <1>6 DEF EvaluateFirst, Chi2Values
<1>7. CASE Evaluate
  BY <1>5, <1>7 DEF Evaluate
<1>8. ASSUME FillBranchPointAccepted
      PROVE  pointAccepted' \in Seq(Nat)
  BY <1>8, PendingProperties, ConcatProperties
     DEF FillBranchPointAccepted, PendingEntries
<1>9. CASE Accept
  BY <1>8, <1>9 DEF Accept, Remember, StartCounting
<1>10. CASE Reject
  BY <1>10 DEF Reject, CountRejected
<1>11. CASE Finish
  BY <1>8, <1>11 DEF Finish, FinalizeStatus
<1>12. CASE CloseFile
  BY <1>12, AppendProperties DEF CloseFile, File
<1>13. CASE HandOver
  <2>1. archive' \in Seq(File)
    BY <1>13, MarkedHandedOn DEF HandOver
  <2> QED
    BY <1>13, <2>1 DEF HandOver, UpdatePropertyTree, Status
<1>14. CASE Crash
  BY <1>14 DEF Crash
<1>15. CASE UNCHANGED vars
  BY <1>15 DEF vars
<1> QED
  BY <1>1, <1>2, <1>3, <1>4, <1>6, <1>7, <1>9, <1>10, <1>11, <1>12, <1>13,
     <1>14, <1>15 DEF Next, Terminated

\* The variables of the sampler always have their types.
THEOREM Typing == Spec => []TypeOK
<1> USE DEF TypeOK
<1>1. Init => TypeOK
  BY DEF Init, Status, Chi2Values
<1>2. TypeOK /\ [Next]_vars => TypeOK'
  BY TypesKept
<1> QED
  BY <1>1, <1>2, PTL DEF Spec
-----------------------------------------------------------------------------
(***************************************************************************)
(* The inductive invariant of the bookkeeping.  Counting entries alone is  *)
(* not inductive: it has to be known that a process starts with nothing    *)
(* counted, that the tree grows with the iteration counter when nothing is *)
(* cut, and that the last entry of the tree is the proposal being compared.*)
(***************************************************************************)
NothingEvaluated ==
    /\ pc \in {"off", "start", "first", "evaluateFirst"} =>
           tree = <<>> /\ pointAccepted = <<>>
    /\ pc \in {"start", "first", "evaluateFirst"} =>
           iter = saved.iter /\ rejected = 0 /\ weight \in {0, 1}

ProposalIsModel ==
    /\ pc = "compare" => chi2 = Chi2[par]
    /\ pc \in {"done", "closed"} =>
           par = parLast /\ chi2 = chi2Last /\ chi2 = Chi2[par] /\ iter # 0

TreeFollowsCounter ==
    Passed = Points =>
        /\ pc \in {"loop", "evaluate", "compare", "done"} => Len(tree) = Evaluated
        /\ pc = "compare" => /\ tree[Len(tree)].par = par
                             /\ tree[Len(tree)].chi2 = chi2

ChainInv ==
    /\ NothingEvaluated
    /\ OneEntryPerPoint
    /\ MemoryIsOnePoint
    /\ ProposalIsModel
    /\ TreeFollowsCounter
    /\ PendingWeightIsOfLastAccepted

\* What FillBranchPointAccepted does to the length of the branch.
LEMMA FillLength ==
    ASSUME TypeOK, FillBranchPointAccepted
    PROVE  /\ pointAccepted' \in Seq(Nat)
           /\ Len(pointAccepted') = Len(pointAccepted) + 1 + rejected
<1>1. pointAccepted \in Seq(Nat) /\ rejected \in Nat /\ weight \in Nat
  BY DEF TypeOK
<1>2. PICK h \in Seq(Nat) : h = PendingEntries /\ Len(h) = rejected + 1
  BY <1>1, PendingProperties DEF PendingEntries
<1>3. /\ pointAccepted \o h \in Seq(Nat)
      /\ Len(pointAccepted \o h) = Len(pointAccepted) + Len(h)
  BY <1>1, ConcatProperties
<1>4. Len(pointAccepted) \in Nat
  BY <1>1, LenProperties
<1> QED
  BY <1>1, <1>2, <1>3, <1>4 DEF FillBranchPointAccepted

\* What UpdateModel appends to the tree when no point is cut.
LEMMA FillTreeAppends ==
    ASSUME TypeOK, UpdateModel, Passed = Points
    PROVE  /\ Len(tree') = Len(tree) + 1
           /\ tree'[Len(tree) + 1].par = par
           /\ tree'[Len(tree) + 1].chi2 = Chi2[par]
           /\ \A i \in 1 .. Len(tree) : tree'[i] = tree[i]
<1> DEFINE entry == [par |-> par, chi2 |-> Chi2[par], iter |-> iter]
<1>1. entry \in Status /\ tree \in Seq(Status)
  BY DEF TypeOK, Status, Chi2Values
<1>2. tree' = Append(tree, entry)
  BY DEF UpdateModel, FillTree, TypeOK
<1> QED
  BY <1>1, <1>2, AppendProperties

\* The first evaluation of a process: the entry that is held back is the point.
LEMMA FirstEntry ==
    ASSUME TypeOK, UpdateModel, Passed = Points, tree = <<>>, pointAccepted' = <<>>
    PROVE  /\ Len(pointAccepted') < Len(tree')
           /\ tree'[Len(pointAccepted') + 1].par = par
           /\ tree'[Len(pointAccepted') + 1].chi2 = Chi2[par]
<1>1. Len(tree) = 0 /\ Len(pointAccepted') = 0
  OBVIOUS
<1>2. Len(tree') = 1 /\ tree'[1].par = par /\ tree'[1].chi2 = Chi2[par]
  BY <1>1, FillTreeAppends
<1> QED
  BY <1>1, <1>2

\* An entry that is appended to the tree leaves the one that is owed its weight.
LEMMA PendingStays ==
    ASSUME PendingWeightIsOfLastAccepted, pc = "evaluate", pointAccepted' = pointAccepted,
           parLast' = parLast, chi2Last' = chi2Last, Len(tree) \in Nat, Len(pointAccepted) \in Nat,
           Passed = Points => /\ Len(tree') = Len(tree) + 1
                              /\ \A i \in 1 .. Len(tree) : tree'[i] = tree[i]
    PROVE  PendingWeightIsOfLastAccepted'
<1> SUFFICES ASSUME Passed = Points
             PROVE  /\ Len(pointAccepted) < Len(tree')
                    /\ tree'[Len(pointAccepted) + 1].par = parLast
                    /\ tree'[Len(pointAccepted) + 1].chi2 = chi2Last
  BY DEF PendingWeightIsOfLastAccepted
<1>1. /\ Len(pointAccepted) < Len(tree)
      /\ tree[Len(pointAccepted) + 1].par = parLast
      /\ tree[Len(pointAccepted) + 1].chi2 = chi2Last
  BY DEF PendingWeightIsOfLastAccepted
<1>2. Len(pointAccepted) + 1 \in 1 .. Len(tree)
  BY <1>1
<1>3. tree'[Len(pointAccepted) + 1] = tree[Len(pointAccepted) + 1]
  BY <1>2
<1> QED
  BY <1>1, <1>3

\* Every step keeps the books.
LEMMA BookkeepingKept == TypeOK /\ TypeOK' /\ ChainInv /\ [Next]_vars => ChainInv'
<1> SUFFICES ASSUME TypeOK, TypeOK', ChainInv, [Next]_vars
             PROVE  ChainInv'
  OBVIOUS
<1> USE DEF ChainInv, NothingEvaluated, OneEntryPerPoint, MemoryIsOnePoint,
            ProposalIsModel, TreeFollowsCounter, PendingWeightIsOfLastAccepted,
            Evaluated, memory, model, output, disk
<1>0. /\ iter \in Nat /\ saved.iter \in Nat /\ rejected \in Nat
      /\ Len(pointAccepted) \in Nat /\ Len(tree) \in Nat
  BY LenProperties DEF TypeOK, Status
<1>1. ASSUME NEW n \in RunLengths, Construct(n)
      PROVE  ChainInv'
  BY <1>1 DEF Construct, InitialWeight
<1>2. CASE BeginExecute
  BY <1>2 DEF BeginExecute, Remember
<1>3. ASSUME NEW p \in Points, DrawFirst(p)
      PROVE  ChainInv'
  BY <1>3 DEF DrawFirst
<1>4. ASSUME NEW p \in Points, Draw(p)
      PROVE  ChainInv'
  BY <1>4 DEF Draw
<1>5. CASE EvaluateFirst
  <2>1. UpdateModel /\ pc = "evaluateFirst" /\ pc' = "loop"
    BY <1>5 DEF EvaluateFirst
  <2>2. iter' = iter + 1 /\ parLast' = par /\ chi2Last' = Chi2[par]
    BY <1>5 DEF EvaluateFirst, UpdateModel
  <2>3. UNCHANGED <<rejected, pointAccepted, saved>>
    BY <1>5 DEF EvaluateFirst
  <2>8. NothingEvaluated' /\ MemoryIsOnePoint' /\ ProposalIsModel'
    BY <1>0, <2>1, <2>2, <2>3
  <2>9. OneEntryPerPoint'
    BY <1>0, <2>1, <2>2, <2>3
  <2>4. NothingEvaluated' /\ OneEntryPerPoint' /\ MemoryIsOnePoint' /\ ProposalIsModel'
    BY <2>8, <2>9
  <2>5. Passed = Points => /\ Len(tree') = Len(tree) + 1
                           /\ tree'[Len(tree) + 1].par = par
                           /\ tree'[Len(tree) + 1].chi2 = Chi2[par]
                           /\ \A i \in 1 .. Len(tree) : tree'[i] = tree[i]
    BY <2>1, FillTreeAppends
  <2>6. TreeFollowsCounter'
    <3> SUFFICES ASSUME Passed = Points
                 PROVE  Len(tree') = Evaluated'
      BY <2>1, <2>2, <2>3, <2>5
    <3>1. Len(tree) = Evaluated
      BY <1>0, <2>1
    <3> QED
      BY <1>0, <2>2, <2>3, <2>5, <3>1
  <2>7. PendingWeightIsOfLastAccepted'
    BY <2>1, <2>2, <2>3, FirstEntry
  <2> QED
    BY <2>4, <2>6, <2>7
<1>6. CASE Evaluate
  <2>1. UpdateModel /\ pc = "evaluate" /\ pc' = "compare"
    BY <1>6 DEF Evaluate
  <2>2. iter' = iter + 1 /\ chi2' = Chi2[par]
    BY <2>1 DEF UpdateModel
  <2>3. UNCHANGED <<par, parLast, chi2Last, rejected, pointAccepted, saved>>
    BY <1>6 DEF Evaluate
  <2>4. NothingEvaluated' /\ MemoryIsOnePoint' /\ ProposalIsModel'
    BY <2>1, <2>2, <2>3
  <2>8. OneEntryPerPoint'
    <3>1. Evaluated = Len(pointAccepted) + 1 + rejected
      BY <2>1
    <3>2. Evaluated' = Evaluated + 1
      <4>1. saved' = saved /\ iter' = iter + 1
        BY <2>2, <2>3
      <4>2. Evaluated' = (iter + 1) - saved.iter
        BY <4>1 DEF Evaluated
      <4> HIDE DEF ChainInv
      <4> QED
        BY <1>0, <4>2 DEF Evaluated
    <3>3. pointAccepted' = pointAccepted /\ rejected' = rejected /\ pc' = "compare"
      BY <2>1, <2>3
    <3> QED
      BY <1>0, <3>1, <3>2, <3>3
  <2>5. Passed = Points => /\ Len(tree') = Len(tree) + 1
                           /\ tree'[Len(tree) + 1].par = par
                           /\ tree'[Len(tree) + 1].chi2 = Chi2[par]
                           /\ \A i \in 1 .. Len(tree) : tree'[i] = tree[i]
    BY <2>1, FillTreeAppends
  <2>6. TreeFollowsCounter'
    <3> SUFFICES ASSUME Passed = Points
                 PROVE  Len(tree') = Evaluated'
      BY <2>1, <2>2, <2>3, <2>5
    <3>1. Len(tree) = Evaluated
      BY <1>0, <2>1
    <3> QED
      BY <1>0, <2>2, <2>3, <2>5, <3>1
  <2>9. PendingWeightIsOfLastAccepted /\ pc = "evaluate"
    BY <2>1
  <2>7. PendingWeightIsOfLastAccepted'
    <3> HIDE DEF PendingWeightIsOfLastAccepted
    <3> QED
      BY <1>0, <2>2, <2>3, <2>5, <2>9, PendingStays
  <2> QED
    BY <2>4, <2>6, <2>7, <2>8
<1>7. CASE Accept
  <2>1. FillBranchPointAccepted /\ pc = "compare" /\ pc' = "loop" /\ rejected' = 0
    BY <1>7 DEF Accept, StartCounting
  <2>2. parLast' = par /\ chi2Last' = chi2 /\ chi2 = Chi2[par]
    BY <1>7 DEF Accept, Remember
  <2>3. UNCHANGED <<par, chi2, iter, tree, saved>>
    BY <1>7 DEF Accept
  <2>4. Len(pointAccepted') = Len(pointAccepted) + 1 + rejected
    BY <2>1, FillLength
  <2>5. NothingEvaluated' /\ OneEntryPerPoint' /\ MemoryIsOnePoint' /\ ProposalIsModel'
    BY <1>0, <2>1, <2>2, <2>3, <2>4
  <2>6. TreeFollowsCounter' /\ PendingWeightIsOfLastAccepted'
    BY <1>0, <2>1, <2>2, <2>3, <2>4
  <2> QED
    BY <2>5, <2>6
<1>8. CASE Reject
  BY <1>0, <1>8 DEF Reject, CountRejected
<1>9. CASE Finish
  BY <1>0, <1>9, FillLength DEF Finish, FinalizeStatus
<1>10. CASE CloseFile
  BY <1>10 DEF CloseFile
<1>11. CASE HandOver
  BY <1>11 DEF HandOver, UpdatePropertyTree
<1>12. CASE Crash
  BY <1>12 DEF Crash
<1>13. CASE UNCHANGED vars
  BY <1>13 DEF vars
<1> QED
  BY <1>1, <1>2, <1>3, <1>4, <1>5, <1>6, <1>7, <1>8, <1>9, <1>10, <1>11,
     <1>12, <1>13 DEF Next, Terminated

\* The bookkeeping of the chain: every evaluated point has one entry, written
\* or held back, the held-back weight belongs to the last accepted point, and
\* the remembered pair of parameters and chi2 is one point.
THEOREM Bookkeeping == Spec => []ChainInv
<1>1. Init => ChainInv
  BY DEF Init, ChainInv, NothingEvaluated, OneEntryPerPoint, MemoryIsOnePoint,
         ProposalIsModel, TreeFollowsCounter, PendingWeightIsOfLastAccepted,
         Evaluated
<1>2. TypeOK /\ TypeOK' /\ ChainInv /\ [Next]_vars => ChainInv'
  BY BookkeepingKept
<1> QED
  BY <1>1, <1>2, Typing, PTL DEF Spec

\* The three parts of the bookkeeping that the runs check.
THEOREM EntriesBelongToPoints ==
    Spec => [](OneEntryPerPoint /\ MemoryIsOnePoint /\ PendingWeightIsOfLastAccepted)
<1>1. ChainInv => OneEntryPerPoint /\ MemoryIsOnePoint /\ PendingWeightIsOfLastAccepted
  BY DEF ChainInv
<1> QED
  BY <1>1, Bookkeeping, PTL

\* The output that is written has a weight beside every entry.
LEMMA MatchKept ==
    ASSUME Passed = Points
    PROVE  TypeOK /\ ChainInv /\ BranchMatchesTree /\ [Next]_vars => BranchMatchesTree'
<1> SUFFICES ASSUME TypeOK, ChainInv, BranchMatchesTree, [Next]_vars
             PROVE  BranchMatchesTree'
  OBVIOUS
<1>1. CASE UNCHANGED archive
  BY <1>1 DEF BranchMatchesTree
<1>2. CASE CloseFile
  <2> DEFINE f == [tree |-> tree, pointAccepted |-> pointAccepted,
                   resumed |-> saved.iter # 0, handedOn |-> FALSE]
  <2>1. f \in File /\ archive \in Seq(File) /\ archive' = Append(archive, f)
    BY <1>2 DEF TypeOK, File, CloseFile
  <2>2. pc = "done"
    BY <1>2 DEF CloseFile
  <2>3. Len(pointAccepted) = Evaluated
    BY <2>2 DEF ChainInv, OneEntryPerPoint
  <2>4. Len(tree) = Evaluated
    BY <2>2 DEF ChainInv, TreeFollowsCounter
  <2>5. Len(f.pointAccepted) = Len(f.tree)
    BY <2>3, <2>4
  <2>6. /\ Len(archive') = Len(archive) + 1
        /\ \A r \in 1 .. Len(archive) : archive'[r] = archive[r]
        /\ archive'[Len(archive) + 1] = f
    BY <2>1, AppendProperties
  <2>7. Len(archive) \in Nat
    BY <2>1, LenProperties
  <2> QED
    BY <2>5, <2>6, <2>7 DEF BranchMatchesTree
<1>3. CASE HandOver
  <2>1. archive \in Seq(File) /\ archive' = [archive EXCEPT ![Len(archive)].handedOn = TRUE]
    BY <1>3 DEF TypeOK, HandOver
  <2>2. /\ Len(archive') = Len(archive)
        /\ \A r \in 1 .. Len(archive) : /\ archive'[r].tree = archive[r].tree
                                        /\ archive'[r].pointAccepted = archive[r].pointAccepted
    BY <2>1, MarkedHandedOn
  <2> QED
    BY <2>2 DEF BranchMatchesTree
<1> QED
  BY <1>1, <1>2, <1>3 DEF Next, vars, disk, output, model, memory, Construct, BeginExecute,
     DrawFirst, EvaluateFirst, Draw, Evaluate, Accept, Reject, Finish, Crash, Terminated

\* Without cuts every output file has as many entries of PointAccepted as its
\* tree has.
THEOREM FilesMatch ==
    ASSUME Passed = Points
    PROVE  Spec => []BranchMatchesTree
<1>1. Init => BranchMatchesTree
  BY DEF Init, BranchMatchesTree
<1> QED
  BY <1>1, MatchKept, Typing, Bookkeeping, PTL DEF Spec

-----------------------------------------------------------------------------
\* The point a resumed process repeats counts nothing.
Repeated == IF saved.iter = 0 THEN 0 ELSE 1

\* While the process runs, what is written and what is held back add up to the
\* iterations so far.
WeightInv ==
    /\ pc \in {"start", "first", "evaluateFirst"} => weight + Repeated = 1
    /\ pc \in {"loop", "evaluate", "compare"} =>
           Total(pointAccepted) + weight + Repeated = Len(pointAccepted) + 1 + rejected
    /\ pc = "done" => Total(pointAccepted) + Repeated = Len(pointAccepted)
    /\ WeightsAddUp

AddsUp(f) == Total(f.pointAccepted) = Len(f.pointAccepted) - (IF f.resumed THEN 1 ELSE 0)

\* What FillBranchPointAccepted adds to the weights.
LEMMA FillTotal ==
    ASSUME TypeOK, FillBranchPointAccepted
    PROVE  Total(pointAccepted') = Total(pointAccepted) + weight
<1>1. pointAccepted \in Seq(Nat) /\ weight \in Nat /\ rejected \in Nat
  BY DEF TypeOK
<1>2. PendingEntries \in Seq(Nat) /\ Total(PendingEntries) = weight
  BY <1>1, PendingProperties, TotalHeld DEF PendingEntries
<1>3. pointAccepted \in Seq(Int) /\ PendingEntries \in Seq(Int)
  BY <1>1, <1>2
<1> QED
  BY <1>2, <1>3, TotalConcat DEF FillBranchPointAccepted

\* Every step keeps the weights.
LEMMA WeightsKept == TypeOK /\ TypeOK' /\ ChainInv /\ WeightInv /\ [Next]_vars => WeightInv'
<1> SUFFICES ASSUME TypeOK, TypeOK', ChainInv, WeightInv, [Next]_vars
             PROVE  WeightInv'
  OBVIOUS
<1> USE DEF WeightInv, Repeated, memory, model, output, disk
<1>0. /\ weight \in Nat /\ rejected \in Nat /\ saved.iter \in Nat
      /\ Len(pointAccepted) \in Nat /\ Total(pointAccepted) \in Int
  <2>1. pointAccepted \in Seq(Int)
    BY DEF TypeOK
  <2> QED
    BY <2>1, TotalType, LenProperties DEF TypeOK, Status
<1>a. UNCHANGED archive => WeightsAddUp'
  BY DEF WeightsAddUp
<1>1. ASSUME NEW n \in RunLengths, Construct(n)
      PROVE  WeightInv'
  BY <1>1, <1>a DEF Construct, InitialWeight
<1>2. CASE BeginExecute
  BY <1>2, <1>a DEF BeginExecute
<1>3. ASSUME NEW p \in Points, DrawFirst(p)
      PROVE  WeightInv'
  BY <1>3, <1>a DEF DrawFirst
<1>4. ASSUME NEW p \in Points, Draw(p)
      PROVE  WeightInv'
  BY <1>4, <1>a DEF Draw
<1>5. CASE EvaluateFirst
  <2>1. pointAccepted = <<>> /\ rejected = 0 /\ weight + Repeated = 1 /\ pc' = "loop"
    BY <1>5 DEF EvaluateFirst, ChainInv, NothingEvaluated
  <2>2. UNCHANGED <<pointAccepted, weight, rejected, saved, archive>>
    BY <1>5 DEF EvaluateFirst
  <2> QED
    BY <1>0, <1>a, <2>1, <2>2, TotalEmpty
<1>6. CASE Evaluate
  BY <1>6, <1>a DEF Evaluate
<1>7. CASE Accept
  <2>1. /\ Total(pointAccepted') = Total(pointAccepted) + weight
        /\ Len(pointAccepted') = Len(pointAccepted) + 1 + rejected
        /\ pc = "compare" /\ pc' = "loop" /\ weight' = 1 /\ rejected' = 0
        /\ UNCHANGED <<saved, archive>>
    BY <1>7, FillTotal, FillLength DEF Accept, StartCounting
  <2> QED
    BY <1>0, <1>a, <2>1
<1>8. CASE Reject
  BY <1>0, <1>8, <1>a DEF Reject, CountRejected
<1>9. CASE Finish
  <2>1. /\ Total(pointAccepted') = Total(pointAccepted) + weight
        /\ Len(pointAccepted') = Len(pointAccepted) + 1 + rejected
        /\ pc = "loop" /\ pc' = "done" /\ UNCHANGED <<saved, archive>>
    BY <1>9, FillTotal, FillLength DEF Finish
  <2> QED
    BY <1>0, <1>a, <2>1
<1>10. CASE CloseFile
  <2> DEFINE f == [tree |-> tree, pointAccepted |-> pointAccepted,
                   resumed |-> saved.iter # 0, handedOn |-> FALSE]
  <2>1. f \in File /\ archive \in Seq(File) /\ archive' = Append(archive, f)
        /\ pc = "done" /\ pc' = "closed"
    BY <1>10 DEF TypeOK, File, CloseFile
  <2>2. AddsUp(f)
    <3>1. f.pointAccepted = pointAccepted /\ (IF f.resumed THEN 1 ELSE 0) = Repeated
      OBVIOUS
    <3>2. Total(pointAccepted) + Repeated = Len(pointAccepted) /\ Repeated \in {0, 1}
      BY <2>1
    <3> HIDE DEF f, Repeated
    <3> QED
      BY <1>0, <3>1, <3>2 DEF AddsUp
  <2>3. /\ Len(archive') = Len(archive) + 1
        /\ \A r \in 1 .. Len(archive) : archive'[r] = archive[r]
        /\ archive'[Len(archive) + 1] = f
    BY <2>1, AppendProperties
  <2>4. Len(archive) \in Nat
    BY <2>1, LenProperties
  <2>5. \A r \in 1 .. Len(archive) : AddsUp(archive[r])
    BY DEF WeightsAddUp, AddsUp
  <2>6. \A r \in 1 .. Len(archive') : AddsUp(archive'[r])
    <3> HIDE DEF f
    <3> QED
      BY <2>2, <2>3, <2>4, <2>5
  <2>7. WeightsAddUp'
    BY <2>6 DEF WeightsAddUp, AddsUp
  <2> QED
    BY <2>1, <2>7
<1>11. CASE HandOver
  <2>1. /\ archive \in Seq(File) /\ pc' = "off"
        /\ archive' = [archive EXCEPT ![Len(archive)].handedOn = TRUE]
    BY <1>11 DEF TypeOK, HandOver
  <2>2. /\ Len(archive') = Len(archive)
        /\ \A r \in 1 .. Len(archive) : /\ archive'[r].resumed = archive[r].resumed
                                        /\ archive'[r].pointAccepted = archive[r].pointAccepted
    BY <2>1, MarkedHandedOn
  <2>3. \A r \in 1 .. Len(archive) : AddsUp(archive[r])
    BY DEF WeightsAddUp, AddsUp
  <2>4. \A r \in 1 .. Len(archive') : AddsUp(archive'[r])
    BY <2>2, <2>3 DEF AddsUp
  <2>5. WeightsAddUp'
    BY <2>4 DEF WeightsAddUp, AddsUp
  <2> QED
    BY <2>1, <2>5
<1>12. CASE Crash
  BY <1>12, <1>a DEF Crash
<1>13. CASE UNCHANGED vars
  BY <1>13, <1>a DEF vars
<1> QED
  BY <1>1, <1>2, <1>3, <1>4, <1>5, <1>6, <1>7, <1>8, <1>9, <1>10, <1>11,
     <1>12, <1>13 DEF Next, Terminated

\* The weights of every output file add up to the iterations it holds, less the
\* point that a resumed chain repeats.
THEOREM FilesAddUp == Spec => []WeightsAddUp
<1>1. Init => WeightInv
  BY DEF Init, WeightInv, WeightsAddUp
<1>2. TypeOK /\ TypeOK' /\ ChainInv /\ WeightInv /\ [Next]_vars => WeightInv'
  BY WeightsKept
<1>3. WeightInv => WeightsAddUp
  BY DEF WeightInv
<1> QED
  BY <1>1, <1>2, <1>3, Typing, Bookkeeping, PTL DEF Spec

-----------------------------------------------------------------------------
\* While the process that resumes at a finite chi2 runs, it is at the point its
\* parameters are given there or has accepted a finite one.
FiniteInv ==
    (StartsFinite /\ saved.iter # 0 /\ saved.chi2 # Infinity) =>
        /\ pc = "start" => Chi2[par] # Infinity
        /\ pc = "first" => Chi2[parLast] # Infinity
        /\ pc = "evaluateFirst" => Chi2[par] # Infinity
        /\ pc \in {"loop", "evaluate", "compare"} => chi2Last # Infinity
        /\ pc \in {"done", "closed"} => chi2 # Infinity

\* Every step of a process that resumed at a finite chi2 keeps it finite.
LEMMA FiniteKept == TypeOK /\ ChainInv /\ FiniteInv /\ [Next]_vars => FiniteInv'
<1> SUFFICES ASSUME TypeOK, ChainInv, FiniteInv, [Next]_vars
             PROVE  FiniteInv'
  OBVIOUS
<1> USE DEF FiniteInv, StartsFinite, Given, FirstPointMoves, memory, model, output, disk
<1>1. ASSUME NEW n \in RunLengths, Construct(n)
      PROVE  FiniteInv'
  <2>1. /\ pc' = "start" /\ par' = Given(saved.par) /\ UNCHANGED <<steering, saved>>
    BY <1>1 DEF Construct
  <2> SUFFICES ASSUME StartsFinite, saved.iter # 0, saved.chi2 # Infinity
               PROVE  Chi2[par'] # Infinity
    BY <2>1
  <2>2. saved.par \in Points /\ Chi2[saved.par] # Infinity
    BY DEF TypeOK, Status, ChainInv, MemoryIsOnePoint
  <2> QED
    BY <2>1, <2>2
<1>2. CASE BeginExecute
  BY <1>2 DEF BeginExecute, Remember
<1>3. ASSUME NEW p \in Points, DrawFirst(p)
      PROVE  FiniteInv'
  BY <1>3 DEF DrawFirst, Proposals
<1>4. ASSUME NEW p \in Points, Draw(p)
      PROVE  FiniteInv'
  BY <1>4 DEF Draw
<1>5. CASE EvaluateFirst
  BY <1>5 DEF EvaluateFirst
<1>6. CASE Evaluate
  BY <1>6 DEF Evaluate
<1>7. CASE Accept
  <2>1. chi2 \in 0 .. Infinity /\ chi2Last \in 0 .. Infinity
    BY DEF TypeOK, Chi2Values
  <2>2. chi2Last # Infinity /\ MayAccept(chi2, chi2Last) => chi2 # Infinity
    BY <2>1 DEF MayAccept
  <2> QED
    BY <1>7, <2>2 DEF Accept, Remember
<1>8. CASE Reject
  BY <1>8 DEF Reject
<1>9. CASE Finish
  BY <1>9 DEF Finish, FinalizeStatus
<1>10. CASE CloseFile
  BY <1>10 DEF CloseFile
<1>11. CASE HandOver
  BY <1>11 DEF HandOver
<1>12. CASE Crash
  BY <1>12 DEF Crash
<1>13. CASE UNCHANGED vars
  BY <1>13 DEF vars
<1> QED
  BY <1>1, <1>2, <1>3, <1>4, <1>5, <1>6, <1>7, <1>8, <1>9, <1>10, <1>11,
     <1>12, <1>13 DEF Next, Terminated

LEMMA FiniteWhileRunning == Spec => []FiniteInv
<1>1. Init => FiniteInv
  BY DEF Init, FiniteInv
<1>2. TypeOK /\ ChainInv /\ FiniteInv /\ [Next]_vars => FiniteInv'
  BY FiniteKept
<1> QED
  BY <1>1, <1>2, Typing, Bookkeeping, PTL DEF Spec

\* No process hands on an infinite chi2 after an earlier one handed on a finite
\* one, when no step moves the first point of a process and no <Parameter> of
\* the sampler puts it where the chi2 is infinite.
THEOREM FiniteChi2 == Spec => FiniteChi2IsKept
<1> DEFINE StaysFinite == (StartsFinite /\ saved.iter # 0 /\ saved.chi2 # Infinity)
                        => saved'.chi2 # Infinity
<1>1. FiniteInv /\ [Next]_vars => [StaysFinite]_saved
  <2> SUFFICES ASSUME FiniteInv, [Next]_vars, saved' # saved
               PROVE  StaysFinite
    OBVIOUS
  <2>1. HandOver
    BY DEF Next, vars, disk, output, model, memory, Construct, BeginExecute, DrawFirst,
       EvaluateFirst, Draw, Evaluate, Accept, Reject, Finish, CloseFile, Crash, Terminated
  <2> QED
    BY <2>1 DEF HandOver, UpdatePropertyTree, FiniteInv
<1> QED
  BY <1>1, FiniteWhileRunning, PTL DEF Spec, FiniteChi2IsKept

-----------------------------------------------------------------------------
\* What a chain that began inside the bounds may accept is inside: a process
\* begins at a point inside, or draws until it is, and only the comparison lets
\* it move on.
InsideInv ==
    (StartPoint \in InBounds /\ StartsInside) =>
        /\ saved.par \in InBounds
        /\ pc = "start" => StrictBounds \/ par \in InBounds
        /\ pc = "first" => StrictBounds \/ parLast \in InBounds
        /\ pc \in {"evaluateFirst", "done", "closed"} => par \in InBounds
        /\ pc \in {"loop", "evaluate", "compare"} => parLast \in InBounds

\* Every step keeps what may be accepted inside.
LEMMA InsideKept == InsideInv /\ [Next]_vars => InsideInv'
<1> SUFFICES ASSUME InsideInv, [Next]_vars
             PROVE  InsideInv'
  OBVIOUS
<1> USE DEF InsideInv, StartsInside, Given, FirstPointMoves, StrictBounds,
            memory, model, output, disk
<1>1. ASSUME NEW n \in RunLengths, Construct(n)
      PROVE  InsideInv'
  BY <1>1 DEF Construct
<1>2. CASE BeginExecute
  BY <1>2 DEF BeginExecute, Remember
<1>3. ASSUME NEW p \in Points, DrawFirst(p)
      PROVE  InsideInv'
  BY <1>3 DEF DrawFirst, Proposals, Kept
<1>4. ASSUME NEW p \in Points, Draw(p)
      PROVE  InsideInv'
  BY <1>4 DEF Draw
<1>5. CASE EvaluateFirst
  BY <1>5 DEF EvaluateFirst
<1>6. CASE Evaluate
  BY <1>6 DEF Evaluate
<1>7. CASE Accept
  BY <1>7 DEF Accept, Remember
<1>8. CASE Reject
  BY <1>8 DEF Reject
<1>9. CASE Finish
  BY <1>9 DEF Finish, FinalizeStatus
<1>10. CASE CloseFile
  BY <1>10 DEF CloseFile
<1>11. CASE HandOver
  BY <1>11 DEF HandOver, UpdatePropertyTree
<1>12. CASE Crash
  BY <1>12 DEF Crash
<1>13. CASE UNCHANGED vars
  BY <1>13 DEF vars
<1> QED
  BY <1>1, <1>2, <1>3, <1>4, <1>5, <1>6, <1>7, <1>8, <1>9, <1>10, <1>11,
     <1>12, <1>13 DEF Next, Terminated

\* A process that started inside the bounds, with bounds that are strict or a
\* first point that neither a step nor a <Parameter> takes out, leaves a point
\* inside to the next one, although proposals outside are evaluated and written
\* to the tree.
THEOREM SavedPointInside == Spec => []SavedPointInBounds
<1>1. Init => InsideInv
  BY DEF Init, InsideInv
<1>2. InsideInv /\ [Next]_vars => InsideInv'
  BY InsideKept
<1>3. InsideInv => SavedPointInBounds
  BY DEF InsideInv, SavedPointInBounds
<1> QED
  BY <1>1, <1>2, <1>3, PTL DEF Spec

-----------------------------------------------------------------------------
(***************************************************************************)
(* The refinement.  The weights of WeightedChain are what is written,      *)
(* followed by what the counters hold back.                                *)
(***************************************************************************)
Held(w, r) == <<w>> \o [i \in 1 .. r |-> 0]

\* Accepting: writing what is held back and holding back a 1 adds a 1.
LEMMA AcceptAppends ==
    ASSUME NEW s \in Seq(Nat), NEW w \in Nat, NEW r \in Nat
    PROVE  (s \o Held(w, r)) \o Held(1, 0) = Append(s \o Held(w, r), 1)
<1>1. Held(w, r) \in Seq(Nat)
  BY PendingProperties DEF Held
<1>2. s \o Held(w, r) \in Seq(Nat)
  BY <1>1, ConcatProperties
<1>3. Held(1, 0) \in Seq(Nat) /\ Len(Held(1, 0)) = 1 /\ Held(1, 0)[1] = 1
  BY PendingProperties DEF Held
<1>4. Held(1, 0) = <<1>>
  <2>1. <<1>> \in Seq(Nat) /\ Len(<<1>>) = 1 /\ <<1>>[1] = 1
    OBVIOUS
  <2>2. \A i \in 1 .. Len(Held(1, 0)) : Held(1, 0)[i] = <<1>>[i]
    BY <1>3, <2>1
  <2> QED
    BY <1>3, <2>1, <2>2, SeqEqual
<1>5. Append(s \o Held(w, r), 1) = (s \o Held(w, r)) \o <<1>>
  BY <1>2, AppendIsConcat
<1> QED
  BY <1>4, <1>5

\* The elements of a concatenation, part by part.
LEMMA ConcatElements ==
    ASSUME NEW s \in Seq(Nat), NEW t \in Seq(Nat)
    PROVE  /\ s \o t \in Seq(Nat)
           /\ Len(s \o t) = Len(s) + Len(t)
           /\ \A i \in 1 .. Len(s) : (s \o t)[i] = s[i]
           /\ \A i \in Len(s) + 1 .. Len(s) + Len(t) : (s \o t)[i] = t[i - Len(s)]
<1>1. Len(s) \in Nat /\ Len(t) \in Nat
  BY LenProperties
<1>2. s \o t \in Seq(Nat) /\ Len(s \o t) = Len(s) + Len(t)
  BY ConcatProperties
<1>3. \A i \in 1 .. Len(s) + Len(t) :
          (s \o t)[i] = IF i <= Len(s) THEN s[i] ELSE t[i - Len(s)]
  BY ConcatProperties
<1>4. ASSUME NEW i \in 1 .. Len(s)
      PROVE  (s \o t)[i] = s[i]
  <2>1. i \in 1 .. Len(s) + Len(t) /\ i <= Len(s)
    BY <1>1
  <2> QED
    BY <1>3, <2>1
<1>5. ASSUME NEW i \in Len(s) + 1 .. Len(s) + Len(t)
      PROVE  (s \o t)[i] = t[i - Len(s)]
  <2>1. i \in 1 .. Len(s) + Len(t) /\ ~(i <= Len(s))
    BY <1>1
  <2> QED
    BY <1>3, <2>1
<1> QED
  BY <1>2, <1>4, <1>5

\* The shape of Held(w, r).
IsHeld(h, w, r) ==
    Len(h) = r + 1 /\ h[1] = w /\ \A i \in 2 .. r + 1 : h[i] = 0

\* Rejecting: one more for the first weight that is held back, and a 0.
LEMMA RejectAppends ==
    ASSUME NEW s \in Seq(Nat), NEW h \in Seq(Nat), NEW g \in Seq(Nat),
           NEW r \in Nat, NEW w \in Nat, IsHeld(h, w, r), IsHeld(g, w + 1, r + 1)
    PROVE  s \o g = Append([s \o h EXCEPT ![Len(s) + 1] = @ + 1], 0)
<1>0. /\ Len(h) = r + 1 /\ h[1] = w /\ \A i \in 2 .. r + 1 : h[i] = 0
      /\ Len(g) = r + 2 /\ g[1] = w + 1 /\ \A i \in 2 .. r + 2 : g[i] = 0
  BY DEF IsHeld
<1>1. PICK n \in Nat : n = Len(s)
  BY LenProperties
<1>1a. n \in Nat
  BY <1>1
<1>2. PICK old : old = s \o h
  OBVIOUS
<1>2a. /\ s \o h \in Seq(Nat)
       /\ Len(s \o h) = Len(s) + Len(h)
       /\ \A i \in 1 .. Len(s) : (s \o h)[i] = s[i]
       /\ \A i \in Len(s) + 1 .. Len(s) + Len(h) : (s \o h)[i] = h[i - Len(s)]
  BY ConcatElements
<1>2b. old \in Seq(Nat) /\ Len(old) = n + (r + 1)
  BY <1>0, <1>1, <1>2, <1>2a
<1>2c. \A i \in 1 .. n : old[i] = s[i]
  BY <1>0, <1>1, <1>2, <1>2a
<1>2d. \A i \in n + 1 .. n + (r + 1) : old[i] = h[i - n]
  BY <1>0, <1>1, <1>2, <1>2a
<1>3. PICK new : new = s \o g
  OBVIOUS
<1>3a. /\ s \o g \in Seq(Nat)
       /\ Len(s \o g) = Len(s) + Len(g)
       /\ \A i \in 1 .. Len(s) : (s \o g)[i] = s[i]
       /\ \A i \in Len(s) + 1 .. Len(s) + Len(g) : (s \o g)[i] = g[i - Len(s)]
  BY ConcatElements
<1>3b. new \in Seq(Nat) /\ Len(new) = n + (r + 2)
  BY <1>0, <1>1, <1>3, <1>3a
<1>3c. \A i \in 1 .. n : new[i] = s[i]
  BY <1>0, <1>1, <1>3, <1>3a
<1>3d. \A i \in n + 1 .. n + (r + 2) : new[i] = g[i - n]
  BY <1>0, <1>1, <1>3, <1>3a
<1>4. 1 \in 1 .. r + 1 /\ 1 \in 1 .. r + 2 /\ n + 1 \in 1 .. n + (r + 1)
  BY <1>1a
<1>5. n + 1 \in 1 .. Len(old) /\ old[n + 1] = w
  <2>1. n + 1 \in n + 1 .. n + (r + 1) /\ (n + 1) - n = 1
    BY <1>1a
  <2>3. old[n + 1] = h[(n + 1) - n]
    BY <1>1a, <1>2d, <2>1
  <2>4. n + 1 \in 1 .. Len(old)
    BY <1>1a, <1>2b, <1>4
  <2> QED
    BY <1>0, <2>1, <2>3, <2>4
<1>6. PICK up : up = [old EXCEPT ![n + 1] = old[n + 1] + 1]
  OBVIOUS
<1>7. /\ up \in Seq(Nat)
      /\ Len(up) = n + (r + 1)
      /\ \A i \in 1 .. n + (r + 1) : up[i] = IF i = n + 1 THEN w + 1 ELSE old[i]
  <2>1. old[n + 1] + 1 \in Nat
    BY <1>1a, <1>5
  <2>2. /\ [old EXCEPT ![n + 1] = old[n + 1] + 1] \in Seq(Nat)
        /\ Len([old EXCEPT ![n + 1] = old[n + 1] + 1]) = Len(old)
        /\ \A i \in 1 .. Len(old) :
               [old EXCEPT ![n + 1] = old[n + 1] + 1][i]
                   = IF i = n + 1 THEN old[n + 1] + 1 ELSE old[i]
    BY <1>1a, <1>2b, <1>5, <2>1, ExceptSeq
  <2> QED
    BY <1>1a, <1>2b, <1>5, <1>6, <2>2
<1>8. PICK app : app = Append(up, 0)
  OBVIOUS
<1>9. /\ app \in Seq(Nat)
      /\ Len(app) = n + (r + 2)
      /\ \A i \in 1 .. n + (r + 1) : app[i] = up[i]
      /\ app[n + (r + 2)] = 0
  <2>1. /\ Append(up, 0) \in Seq(Nat) /\ Len(Append(up, 0)) = Len(up) + 1
        /\ \A i \in 1 .. Len(up) : Append(up, 0)[i] = up[i]
        /\ Append(up, 0)[Len(up) + 1] = 0
    <3>1. 0 \in Nat /\ up \in Seq(Nat)
      BY <1>7
    <3> QED
      BY <3>1, AppendProperties
  <2>2. Len(up) + 1 = n + (r + 2)
    BY <1>1a, <1>7
  <2> QED
    BY <1>1a, <1>7, <1>8, <2>1, <2>2
<1>10. ASSUME NEW i \in 1 .. n + (r + 2)
       PROVE  new[i] = app[i]
  <2>1. CASE i <= n
    <3>1. i \in 1 .. n /\ i \in 1 .. n + (r + 1) /\ i # n + 1
      BY <1>1a, <2>1
    <3> QED
      BY <1>1a, <1>2c, <1>3c, <1>7, <1>9, <3>1
  <2>2. CASE i = n + 1
    <3>1. new[n + 1] = g[1]
      <4>1. n + 1 \in n + 1 .. n + (r + 2) /\ (n + 1) - n = 1
        BY <1>1a
      <4> QED
        BY <1>0, <1>1a, <1>3d, <4>1
    <3>2. app[n + 1] = w + 1
      BY <1>1a, <1>4, <1>7, <1>9
    <3> QED
      BY <1>0, <1>1a, <2>2, <3>1, <3>2
  <2>3. CASE i > n + 1 /\ i <= n + (r + 1)
    <3>1. /\ i \in n + 1 .. n + (r + 2) /\ i \in n + 1 .. n + (r + 1)
          /\ i \in 1 .. n + (r + 1) /\ i # n + 1
          /\ i - n \in 2 .. r + 1 /\ i - n \in 2 .. r + 2
      BY <1>1a, <2>3
    <3>2. new[i] = 0
      BY <1>0, <1>1a, <1>3d, <3>1
    <3>3. app[i] = 0
      BY <1>0, <1>1a, <1>2d, <1>7, <1>9, <3>1
    <3> QED
      BY <3>2, <3>3
  <2>4. CASE i = n + (r + 2)
    <3>1. /\ i \in n + 1 .. n + (r + 2)
          /\ i - n = r + 2 /\ r + 2 \in 2 .. r + 2
      BY <1>1a, <2>4
    <3>2. new[i] = 0
      BY <1>0, <1>1a, <1>3d, <3>1
    <3> QED
      BY <1>1a, <1>9, <2>4, <3>2
  <2> QED
    BY <1>1a, <2>1, <2>2, <2>3, <2>4
<1>11. new = app
  BY <1>1, <1>3b, <1>9, <1>10, SeqEqual
<1> QED
  BY <1>1, <1>2, <1>3, <1>6, <1>8, <1>11

LEMMA HeldShape ==
    ASSUME NEW w \in Nat, NEW r \in Nat
    PROVE  Held(w, r) \in Seq(Nat) /\ IsHeld(Held(w, r), w, r)
  BY PendingProperties DEF Held, IsHeld

\* The late writing of PointAccepted implements weights that are updated at
\* once: every step of the sampler is a step of WeightedChain or changes none of
\* its variables.
THEOREM Refinement == Spec => WeightsAreImmediate
<1> USE DEF Open
<1>1. Init => WC!WCInit
  BY DEF Init, WC!WCInit
<1>2. TypeOK /\ TypeOK' /\ ChainInv /\ ChainInv' /\ [Next]_vars => [WC!WCNext]_(WC!wcVars)
  <2> SUFFICES ASSUME TypeOK, TypeOK', ChainInv, ChainInv', [Next]_vars
               PROVE  [WC!WCNext]_(WC!wcVars)
    OBVIOUS
  <2> USE DEF memory, model, output, disk
  <2>0. /\ pointAccepted \in Seq(Nat) /\ weight \in Nat /\ rejected \in Nat
        /\ parLast \in Points /\ parLast' \in Points
        /\ PendingEntries = Held(weight, rejected)
        /\ PendingEntries' = Held(weight', rejected')
    BY DEF TypeOK, PendingEntries, Held
  <2>1. ASSUME pc \notin {"loop", "evaluate", "compare"}, UNCHANGED parLast,
               pc' \notin {"loop", "evaluate", "compare"}, UNCHANGED pointAccepted
        PROVE  UNCHANGED WC!wcVars
    BY <2>1 DEF WC!wcVars
  <2>2. ASSUME pc' = "off" \/ pc' = "first", pointAccepted' = <<>>
        PROVE  WC!Discard
    BY <2>0, <2>2 DEF WC!Discard
  <2>3. ASSUME NEW n \in RunLengths, Construct(n)
        PROVE  UNCHANGED WC!wcVars
    BY <2>1, <2>3 DEF Construct, ChainInv, NothingEvaluated
  <2>4. BeginExecute => WC!Discard
    BY <2>2 DEF BeginExecute, ChainInv, NothingEvaluated
  <2>5. ASSUME NEW p \in Points, DrawFirst(p)
        PROVE  UNCHANGED WC!wcVars
    BY <2>1, <2>5 DEF DrawFirst
  <2>6. ASSUME pc \in {"loop", "evaluate", "compare"},
               pc' \in {"loop", "evaluate", "compare"},
               UNCHANGED <<pointAccepted, weight, rejected, parLast>>
        PROVE  UNCHANGED WC!wcVars
    BY <2>6 DEF WC!wcVars, PendingEntries
  <2>7. ASSUME NEW p \in Points, Draw(p)
        PROVE  UNCHANGED WC!wcVars
    BY <2>6, <2>7 DEF Draw
  <2>8. CASE Evaluate
    BY <2>6, <2>8 DEF Evaluate
  <2>9. ASSUME EvaluateFirst
        PROVE  WC!Open(par, weight) /\ par \in Points /\ weight \in {0, 1}
    <3>1. /\ pc = "evaluateFirst" /\ pc' = "loop" /\ parLast' = par
          /\ weight' = weight /\ rejected' = 0
          /\ pointAccepted = <<>> /\ pointAccepted' = <<>> /\ weight \in {0, 1}
      BY <2>9 DEF EvaluateFirst, ChainInv, NothingEvaluated
    <3>2. PendingEntries' = <<weight>>
      <4>1. Held(weight, 0) \in Seq(Nat) /\ Len(Held(weight, 0)) = 1
            /\ Held(weight, 0)[1] = weight
        BY <2>0, PendingProperties DEF Held
      <4>2. <<weight>> \in Seq(Nat) /\ Len(<<weight>>) = 1 /\ <<weight>>[1] = weight
        BY <2>0
      <4>3. \A i \in 1 .. Len(<<weight>>) : Held(weight, 0)[i] = <<weight>>[i]
        BY <4>1, <4>2
      <4>4. Held(weight, 0) = <<weight>>
        BY <4>1, <4>2, <4>3, SeqEqual
      <4> QED
        BY <2>0, <3>1, <4>4
    <3>3. <<>> \o PendingEntries' = <<weight>>
      BY <2>0, <3>2, ConcatEmptySeq, <<weight>> \in Seq(Nat)
    <3>4. Len(pointAccepted') + 1 = 1
      BY <3>1
    <3> QED
      BY <3>1, <3>3, <3>4 DEF WC!Open, TypeOK
  <2>10. ASSUME Accept
         PROVE  WC!Move(par) /\ par \in Points
    <3>1. /\ pc = "compare" /\ pc' = "loop" /\ parLast' = par
          /\ weight' = 1 /\ rejected' = 0
          /\ pointAccepted' = pointAccepted \o PendingEntries
      BY <2>10 DEF Accept, Remember, StartCounting, FillBranchPointAccepted
    <3>2. pointAccepted' \o PendingEntries' = Append(pointAccepted \o PendingEntries, 1)
      BY <2>0, <3>1, AcceptAppends
    <3>3. Len(pointAccepted) + 1 # 0
      BY <2>0, LenProperties
    <3> QED
      BY <3>1, <3>2, <3>3 DEF WC!Move, TypeOK
  <2>11. ASSUME Reject
         PROVE  WC!Stay
    <3>1. /\ pc = "compare" /\ pc' = "loop" /\ parLast' = parLast
          /\ weight' = weight + 1 /\ rejected' = rejected + 1
          /\ pointAccepted' = pointAccepted
      BY <2>11 DEF Reject, CountRejected
    <3>2. /\ Held(weight, rejected) \in Seq(Nat)
          /\ IsHeld(Held(weight, rejected), weight, rejected)
          /\ Held(weight', rejected') \in Seq(Nat)
          /\ IsHeld(Held(weight', rejected'), weight + 1, rejected + 1)
      BY <2>0, <3>1, HeldShape
    <3>3. pointAccepted \o PendingEntries'
            = Append([pointAccepted \o PendingEntries
                          EXCEPT ![Len(pointAccepted) + 1] = @ + 1], 0)
      BY <2>0, <3>2, RejectAppends
    <3>4. Len(pointAccepted) + 1 # 0
      BY <2>0, LenProperties
    <3> QED
      BY <3>1, <3>3, <3>4 DEF WC!Stay
  <2>12. ASSUME Finish
         PROVE  WC!Close
    <3>1. /\ pc = "loop" /\ pc' = "done" /\ parLast' = parLast
          /\ pointAccepted' = pointAccepted \o PendingEntries
      BY <2>12 DEF Finish, FillBranchPointAccepted
    <3>2. Len(pointAccepted) + 1 # 0
      BY <2>0, LenProperties
    <3> QED
      BY <3>1, <3>2 DEF WC!Close
  <2>13. CloseFile => UNCHANGED WC!wcVars
    BY <2>1 DEF CloseFile
  <2>14. HandOver => WC!Discard
    BY <2>2 DEF HandOver
  <2>15. Crash => WC!Discard
    BY <2>2 DEF Crash
  <2>16. UNCHANGED vars => UNCHANGED WC!wcVars
    BY DEF vars, WC!wcVars, PendingEntries
  <2> QED
    BY <2>3, <2>4, <2>5, <2>7, <2>8, <2>9, <2>10, <2>11, <2>12, <2>13, <2>14,
       <2>15, <2>16 DEF Next, Terminated, WC!WCNext
<1> QED
  BY <1>1, <1>2, Typing, Bookkeeping, PTL DEF Spec, WeightsAreImmediate, WC!WCSpec

-----------------------------------------------------------------------------
(***************************************************************************)
(* The chain with a queue.                                                 *)
(***************************************************************************)
HIDE ChainAssumption


\* What holds of the chain beside the queue.
PlainInv ==
    /\ TypeOK
    /\ ChainInv
    /\ FiniteInv
    /\ InsideInv
    /\ WeightInv

Edits == \E n \in 0 .. saved.iter : EditCounter(n)

\* Every step is one of the plain chain, but for the edit of the counter.
LEMMA PlainSteps == [HNext]_hvars => [Next]_vars \/ Edits
<1> SUFFICES ASSUME [HNext]_hvars PROVE [Next]_vars \/ Edits
  OBVIOUS
<1>1. ASSUME NEW n \in RunLengths, ConstructQueue(n) PROVE Next
  BY <1>1 DEF ConstructQueue, Next
<1>2. RefuseCounter => UNCHANGED vars
  BY DEF RefuseCounter
<1>3. ASSUME NEW p \in Points, DrawFirstQueue(p) PROVE Next
  BY <1>3 DEF DrawFirstQueue, Next
<1>4. EvaluateFirstQueue => Next
  BY DEF EvaluateFirstQueue, Next
<1>5. ASSUME NEW p \in Points, DrawQueue(p) PROVE Next
  BY <1>5 DEF DrawQueue, Next
<1>6. AcceptQueue => Next
  BY DEF AcceptQueue, Next
<1>7. FinishQueue => Next
  BY DEF FinishQueue, Next
<1>8. HandOverQueue => Next
  BY DEF HandOverQueue, Next
<1>9. Unqueued => Next
  BY DEF Unqueued, Next
<1>10. Terminated => Next
  BY DEF Next
<1>11. UNCHANGED hvars => UNCHANGED vars
  BY DEF hvars
<1> QED
  BY <1>1, <1>2, <1>3, <1>4, <1>5, <1>6, <1>7, <1>8, <1>9, <1>10, <1>11 DEF HNext, Edits

\* The edit of the counter leaves what holds of the chain.
LEMMA EditKeeps == ASSUME PlainInv, Edits PROVE PlainInv'
<1>1. PICK n \in 0 .. saved.iter : EditCounter(n)
  BY DEF Edits
<1>2. /\ pc = "off" /\ n < saved.iter /\ saved' = [saved EXCEPT !.iter = n]
      /\ UNCHANGED <<pc, par, chi2, parLast, chi2Last, iter, maxIter, weight, rejected,
                     tree, pointAccepted, steering, archive, crashes>>
  BY <1>1 DEF EditCounter, model, memory, output
<1>3. saved \in Status
  BY DEF PlainInv, TypeOK
<1>4. /\ saved'.iter = n /\ saved'.par = saved.par /\ saved'.chi2 = saved.chi2
      /\ n \in Nat /\ saved.iter # 0
  BY <1>2, <1>3 DEF Status
<1>5. saved' \in Status
  BY <1>2, <1>3, <1>4 DEF Status
<1>6. TypeOK'
  BY <1>2, <1>5 DEF PlainInv, TypeOK
<1>7. NothingEvaluated' /\ OneEntryPerPoint' /\ ProposalIsModel' /\ TreeFollowsCounter'
      /\ PendingWeightIsOfLastAccepted'
  BY <1>2 DEF PlainInv, ChainInv, NothingEvaluated, OneEntryPerPoint, ProposalIsModel,
              TreeFollowsCounter, PendingWeightIsOfLastAccepted
<1>8. MemoryIsOnePoint'
  BY <1>2, <1>4 DEF PlainInv, ChainInv, MemoryIsOnePoint
<1>9. FiniteInv' /\ InsideInv'
  BY <1>2, <1>4 DEF PlainInv, FiniteInv, InsideInv, StartsFinite, StartsInside, Given,
                    FirstPointMoves, StrictBounds
<1>10. WeightInv'
  BY <1>2 DEF PlainInv, WeightInv, WeightsAddUp
<1> QED
  BY <1>6, <1>7, <1>8, <1>9, <1>10 DEF PlainInv, ChainInv

LEMMA PlainKept == PlainInv /\ [HNext]_hvars => PlainInv'
<1> SUFFICES ASSUME PlainInv, [HNext]_hvars PROVE PlainInv'
  OBVIOUS
<1>1. CASE [Next]_vars
  <2> USE DEF PlainInv
  <2>1. TypeOK'
    BY <1>1, TypesKept
  <2>2. ChainInv'
    BY <1>1, <2>1, BookkeepingKept
  <2>3. FiniteInv' /\ InsideInv'
    BY <1>1, FiniteKept, InsideKept
  <2>4. WeightInv'
    BY <1>1, <2>1, WeightsKept
  <2> QED
    BY <2>1, <2>2, <2>3, <2>4
<1> QED
  BY <1>1, PlainSteps, EditKeeps

LEMMA PlainChain == HSpec => []PlainInv
<1>1. HInit => PlainInv
  BY ChainAssumption DEF HInit, Init, PlainInv, TypeOK, Status, Chi2Values, ChainInv, NothingEvaluated,
         OneEntryPerPoint, MemoryIsOnePoint, ProposalIsModel, TreeFollowsCounter,
         PendingWeightIsOfLastAccepted, FiniteInv, InsideInv, WeightInv, WeightsAddUp
<1> QED
  BY <1>1, PlainKept, PTL DEF HSpec

\* The bookkeeping of the plain chain holds with the queue and with a counter
\* that is set back between two processes.
THEOREM QueuedBookkeeping ==
    HSpec => [](OneEntryPerPoint /\ MemoryIsOnePoint /\ PendingWeightIsOfLastAccepted
                    /\ WeightsAddUp /\ SavedPointInBounds)
<1>1. PlainInv => OneEntryPerPoint /\ MemoryIsOnePoint /\ PendingWeightIsOfLastAccepted
                    /\ WeightsAddUp /\ SavedPointInBounds
  BY DEF PlainInv, ChainInv, WeightInv, InsideInv, SavedPointInBounds
<1> QED
  BY <1>1, PlainChain, PTL

\* A finite chi2 is handed on although the user sets the counter back.
THEOREM QueuedFiniteChi2 == HSpec => FiniteChi2IsKept
<1> DEFINE StaysFinite == (StartsFinite /\ saved.iter # 0 /\ saved.chi2 # Infinity)
                        => saved'.chi2 # Infinity
<1>1. PlainInv /\ [HNext]_hvars => [StaysFinite]_saved
  <2> SUFFICES ASSUME PlainInv, [HNext]_hvars, saved' # saved
               PROVE  StaysFinite
    OBVIOUS
  <2>1. CASE HandOver
    BY <2>1 DEF HandOver, UpdatePropertyTree, PlainInv, FiniteInv
  <2>2. CASE Edits
    <3>1. PICK n \in 0 .. saved.iter : saved' = [saved EXCEPT !.iter = n]
      BY <2>2 DEF Edits, EditCounter
    <3>2. saved \in Status
      BY DEF PlainInv, TypeOK
    <3>3. saved'.chi2 = saved.chi2
      BY <3>1, <3>2 DEF Status
    <3> QED
      BY <3>3
  <2>3. HandOver \/ Edits
    <3>1. [Next]_vars \/ Edits
      BY PlainSteps
    <3> QED
      BY <3>1 DEF Next, vars, disk, output, model, memory, Construct, BeginExecute, DrawFirst,
         EvaluateFirst, Draw, Evaluate, Accept, Reject, Finish, CloseFile, Crash, Terminated
  <2> QED
    BY <2>1, <2>2, <2>3
<1> QED
  BY <1>1, PlainChain, PTL DEF HSpec, FiniteChi2IsKept

-----------------------------------------------------------------------------
(***************************************************************************)
(* The moments.  A coordinate, or a product of two, is a function of the   *)
(* points.                                                                 *)
(***************************************************************************)
First(i) == [p \in Points |-> Coordinates[p][i]]
Second(ik) == [p \in Points |-> Product(p, ik[1], ik[2])]

SumOver(s, v) == Total([k \in DOMAIN s |-> v[s[k]]])
MeanOver(s, v) == [sum |-> SumOver(s, v), over |-> Len(s)]

LEMMA CoordinatesAreNumbers ==
    /\ \A i \in Parameters : First(i) \in [Points -> Int]
    /\ \A ik \in Parameters \X Parameters : Second(ik) \in [Points -> Int]
<1>1. ASSUME NEW p \in Points, NEW i \in Parameters
      PROVE  Coordinates[p][i] \in Int
  <2>1. Coordinates[p] \in Seq(Int) /\ Coordinates[StartPoint] \in Seq(Int)
    BY ChainAssumption, QueueAssumption
  <2>2. Len(Coordinates[p]) = Len(Coordinates[StartPoint])
    BY ChainAssumption, QueueAssumption
  <2>3. i \in 1 .. Len(Coordinates[p])
    BY <2>1, <2>2 DEF Parameters
  <2> QED
    BY <2>1, <2>3, ElementOfSeq
<1>2. ASSUME NEW p \in Points, NEW ik \in Parameters \X Parameters
      PROVE  Product(p, ik[1], ik[2]) \in Int
  <2>1. ik[1] \in Parameters /\ ik[2] \in Parameters
    OBVIOUS
  <2>2. Coordinates[p][ik[1]] \in Int /\ Coordinates[p][ik[2]] \in Int
    BY <1>1, <2>1
  <2> QED
    BY <2>2 DEF Product
<1> QED
  BY <1>1, <1>2 DEF First, Second

\* The values along a sequence of points.
LEMMA ValuesOf ==
    ASSUME NEW s \in Seq(Points), NEW v \in [Points -> Int]
    PROVE  /\ [k \in DOMAIN s |-> v[s[k]]] \in Seq(Int)
           /\ Len([k \in DOMAIN s |-> v[s[k]]]) = Len(s)
           /\ SumOver(s, v) \in Int
<1>1. Len(s) \in Nat /\ DOMAIN s = 1 .. Len(s) /\ \A k \in 1 .. Len(s) : v[s[k]] \in Int
  BY LenProperties, ElementOfSeq
<1>2. [k \in 1 .. Len(s) |-> v[s[k]]] \in Seq(Int) /\ Len([k \in 1 .. Len(s) |-> v[s[k]]]) = Len(s)
  BY <1>1, IsASeq
<1> QED
  BY <1>1, <1>2, TotalType DEF SumOver

LEMMA SumOverAppend ==
    ASSUME NEW s \in Seq(Points), NEW v \in [Points -> Int], NEW p \in Points
    PROVE  SumOver(Append(s, p), v) = SumOver(s, v) + v[p]
<1> DEFINE a == [k \in DOMAIN s |-> v[s[k]]]
           b == [k \in DOMAIN Append(s, p) |-> v[Append(s, p)[k]]]
<1>1. a \in Seq(Int) /\ Len(a) = Len(s)
  BY ValuesOf
<1>2. PICK t : t = Append(s, p)
  OBVIOUS
<1>3. /\ t \in Seq(Points) /\ Len(t) = Len(s) + 1
      /\ \A i \in 1 .. Len(s) : t[i] = s[i]
      /\ t[Len(s) + 1] = p
  BY <1>2, AppendProperties
<1>4. b \in Seq(Int) /\ Len(b) = Len(s) + 1
  BY <1>2, <1>3, ValuesOf
<1>5. PICK w \in Int : w = v[p]
  OBVIOUS
<1>6. /\ Append(a, w) \in Seq(Int) /\ Len(Append(a, w)) = Len(a) + 1
      /\ \A i \in 1 .. Len(a) : Append(a, w)[i] = a[i]
      /\ Append(a, w)[Len(a) + 1] = w
  <2> HIDE DEF a
  <2> QED
    BY <1>1, AppendProperties
<1>7. Len(s) \in Nat /\ DOMAIN s = 1 .. Len(s) /\ DOMAIN t = 1 .. Len(s) + 1
  BY <1>3, LenProperties
<1>8. ASSUME NEW i \in 1 .. Len(s) + 1
      PROVE  b[i] = Append(a, w)[i]
  <2>1. b[i] = v[t[i]]
    BY <1>2, <1>7
  <2>2. CASE i = Len(s) + 1
    BY <1>1, <1>3, <1>5, <1>6, <2>1, <2>2
  <2>3. CASE i # Len(s) + 1
    <3>1. i \in 1 .. Len(s)
      BY <1>7, <2>3
    <3>2. a[i] = v[s[i]]
      BY <1>7, <3>1
    <3> HIDE DEF a
    <3> QED
      BY <1>1, <1>3, <1>6, <2>1, <3>1, <3>2
  <2> QED
    BY <2>2, <2>3
<1>9. b = Append(a, w)
  <2> HIDE DEF a, b
  <2> QED
    BY <1>1, <1>4, <1>6, <1>8, SeqEqual
<1>10. Total(b) = Total(a) + w
  <2> HIDE DEF a, b
  <2> QED
    BY <1>1, <1>9, TotalAppend
<1>11. SumOver(s, v) = Total(a) /\ SumOver(Append(s, p), v) = Total(b)
  BY DEF SumOver
<1> HIDE DEF a, b
<1> QED
  BY <1>5, <1>10, <1>11

LEMMA SumOverTail ==
    ASSUME NEW s \in Seq(Points), NEW v \in [Points -> Int], s # <<>>
    PROVE  SumOver(Tail(s), v) = SumOver(s, v) - v[Head(s)]
<1> DEFINE a == [k \in DOMAIN s |-> v[s[k]]]
           b == [k \in DOMAIN Tail(s) |-> v[Tail(s)[k]]]
<1>1. a \in Seq(Int) /\ Len(a) = Len(s)
  BY ValuesOf
<1>2. PICK t : t = Tail(s)
  OBVIOUS
<1>3. /\ t \in Seq(Points) /\ Len(t) = Len(s) - 1
      /\ \A i \in 1 .. Len(t) : t[i] = s[i + 1]
      /\ Head(s) = s[1] /\ Head(s) \in Points
  BY <1>2, HeadTailProperties
<1>4. b \in Seq(Int) /\ Len(b) = Len(t)
  BY <1>2, <1>3, ValuesOf
<1>5. PICK w \in Int : w = v[Head(s)]
  BY <1>3
<1>6. PICK n \in Nat : n = Len(t) /\ Len(s) = n + 1
  BY <1>3, LenProperties
<1>7. <<w>> \in Seq(Int) /\ Len(<<w>>) = 1 /\ <<w>>[1] = w
  OBVIOUS
<1>8. PICK c : c = <<w>> \o b
  OBVIOUS
<1>9. /\ c \in Seq(Int) /\ Len(c) = 1 + n
      /\ \A i \in 1 .. 1 + n : c[i] = IF i <= 1 THEN <<w>>[i] ELSE b[i - 1]
  <2> HIDE DEF b
  <2> QED
    BY <1>4, <1>6, <1>7, <1>8, ConcatProperties
<1>10. DOMAIN s = 1 .. n + 1 /\ DOMAIN t = 1 .. n
  BY <1>3, <1>6, LenProperties
<1>11. ASSUME NEW i \in 1 .. n + 1
       PROVE  a[i] = c[i]
  <2>1. a[i] = v[s[i]]
    BY <1>10
  <2>2. CASE i = 1
    <3> HIDE DEF a, b
    <3> QED
      BY <1>3, <1>5, <1>7, <1>9, <2>1, <2>2
  <2>3. CASE i # 1
    <3>1. PICK k \in 1 .. n : k = i - 1
      BY <2>3
    <3>2. b[k] = v[t[k]]
      BY <1>2, <1>10
    <3>3. t[k] = s[i]
      BY <1>3, <1>6, <3>1
    <3>4. c[i] = b[k]
      <4>1. i \in 1 .. 1 + n /\ ~(i <= 1) /\ i - 1 = k
        BY <2>3, <3>1
      <4> HIDE DEF b
      <4> QED
        BY <1>9, <4>1
    <3> HIDE DEF a, b
    <3> QED
      BY <2>1, <3>2, <3>3, <3>4
  <2> QED
    BY <2>2, <2>3
<1>12. a = c
  <2> HIDE DEF a, b
  <2>1. Len(a) = Len(c) /\ \A i \in 1 .. Len(a) : a[i] = c[i]
    BY <1>1, <1>6, <1>9, <1>11
  <2> QED
    BY <1>1, <1>9, <2>1, SeqEqual
<1>13. Total(a) = w + Total(b)
  <2> HIDE DEF a, b
  <2>1. Total(<<w>> \o b) = Total(<<w>>) + Total(b)
    BY <1>4, <1>7, TotalConcat
  <2>2. Total(<<w>>) = w
    BY TotalOne
  <2> QED
    BY <1>8, <1>12, <2>1, <2>2
<1>14. Total(b) \in Int /\ Total(a) \in Int
  <2> HIDE DEF a, b
  <2> QED
    BY <1>1, <1>4, TotalType
<1>15. SumOver(s, v) = Total(a) /\ SumOver(Tail(s), v) = Total(b)
  BY DEF SumOver
<1> HIDE DEF a, b
<1> QED
  BY <1>5, <1>13, <1>14, <1>15

\* A mean that a point is added to, or taken from.
LEMMA ShiftedIn ==
    ASSUME NEW s \in Seq(Points), NEW v \in [Points -> Int], NEW p \in Points, NEW mean,
           IF s = <<>> THEN mean = [sum |-> 0, over |-> 1] ELSE mean = MeanOver(s, v)
    PROVE  Shifted(mean, Len(s), 1 * v[p], Len(s) + 1) = MeanOver(Append(s, p), v)
<1>1. PICK n \in Nat : n = Len(s) /\ Len(Append(s, p)) = n + 1
  BY LenProperties, AppendProperties
<1>2. PICK x \in Int : x = v[p]
  OBVIOUS
<1>3. PICK t \in Int : t = SumOver(s, v)
  BY ValuesOf
<1>4. SumOver(Append(s, p), v) = t + x
  BY <1>2, <1>3, SumOverAppend
<1>5. CASE s = <<>>
  <2>1. n = 0 /\ mean = [sum |-> 0, over |-> 1]
    BY <1>1, <1>5
  <2>2. t = 0
    <3>1. [k \in DOMAIN s |-> v[s[k]]] = <<>>
      BY <1>5
    <3> QED
      BY <1>3, <3>1, TotalEmpty DEF SumOver
  <2>3. (0 * 0) \div 1 + 1 * x = t + x
    BY <2>2
  <2>4. Shifted(mean, 0, 1 * x, 1) = [sum |-> (0 * 0) \div 1 + 1 * x, over |-> 1]
    BY <2>1 DEF Shifted, IsNaN
  <2> QED
    BY <1>1, <1>2, <1>4, <2>1, <2>3, <2>4 DEF MeanOver
<1>6. CASE s # <<>>
  <2>1. n # 0 /\ mean = [sum |-> t, over |-> n]
    BY <1>1, <1>3, <1>6, EmptySeq DEF MeanOver
  <2>2. (n * t) \div n + 1 * x = t + x
    <3>1. (n * t) \div n = t
      BY <2>1
    <3> QED
      BY <3>1
  <2>3. Shifted(mean, n, 1 * x, n + 1) = [sum |-> (n * t) \div n + 1 * x, over |-> n + 1]
    BY <2>1 DEF Shifted, IsNaN
  <2> QED
    BY <1>1, <1>2, <1>4, <2>2, <2>3 DEF MeanOver
<1> QED
  BY <1>5, <1>6

LEMMA ShiftedOut ==
    ASSUME NEW s \in Seq(Points), NEW v \in [Points -> Int], Len(s) > 1
    PROVE  Shifted(MeanOver(s, v), Len(s), (-1) * v[Head(s)], Len(Tail(s))) = MeanOver(Tail(s), v)
<1>1. PICK n \in Nat : n = Len(s)
  BY LenProperties
<1>2. s # <<>> /\ Head(s) \in Points /\ Len(Tail(s)) = n - 1
  BY <1>1, HeadTailProperties, EmptySeq
<1>3. PICK x \in Int : x = v[Head(s)]
  BY <1>2
<1>4. PICK t \in Int : t = SumOver(s, v)
  BY ValuesOf
<1>5. SumOver(Tail(s), v) = t - x
  BY <1>2, <1>3, <1>4, SumOverTail
<1>6. (n * t) \div n = t /\ n > 1
  BY <1>1
<1>7. (n * t) \div n + (-1) * x = t - x
  BY <1>6
<1>8. Shifted([sum |-> t, over |-> n], n, (-1) * x, n - 1)
          = [sum |-> (n * t) \div n + (-1) * x, over |-> n - 1]
  BY <1>6 DEF Shifted, IsNaN
<1> QED
  BY <1>1, <1>2, <1>3, <1>4, <1>5, <1>7, <1>8 DEF MeanOver

\* The moments of the queue are those of its points.
HasMoments(q) ==
    IF q.points = <<>>
      THEN /\ \A i \in Parameters : q.first[i] = [sum |-> 0, over |-> 1]
           /\ \A ik \in Parameters \X Parameters : q.second[ik] = [sum |-> 0, over |-> 1]
      ELSE /\ \A i \in Parameters : q.first[i] = MeanOver(q.points, First(i))
           /\ \A ik \in Parameters \X Parameters :
                  q.second[ik] = MeanOver(q.points, Second(ik))

\* What becomes of the moments as p enters or leaves.
IsChanged(c, q, new, p, sign) ==
    /\ c.points = new
    /\ \A i \in Parameters :
           c.first[i] = Shifted(q.first[i], Len(q.points), sign * First(i)[p], Len(new))
    /\ \A ik \in Parameters \X Parameters :
           c.second[ik] = Shifted(q.second[ik], Len(q.points), sign * Second(ik)[p], Len(new))

LEMMA ChangedParts ==
    ASSUME NEW q, NEW new, NEW p \in Points, NEW sign
    PROVE  IsChanged(Changed(q, new, p, sign), q, new, p, sign)
<1>1. ASSUME NEW i \in Parameters PROVE First(i)[p] = Coordinates[p][i]
  BY DEF First
<1>2. ASSUME NEW ik \in Parameters \X Parameters
      PROVE  Second(ik)[p] = Product(p, ik[1], ik[2])
  BY DEF Second
<1> QED
  BY <1>1, <1>2 DEF Changed, IsChanged

LEMMA PushKeepsMoments ==
    ASSUME NEW q, NEW p \in Points, q.points \in Seq(Points), HasMoments(q)
    PROVE  /\ PushNewPoint(q, p).points = Append(q.points, p)
           /\ HasMoments(PushNewPoint(q, p))
<1>1. PICK s \in Seq(Points) : s = q.points
  OBVIOUS
<1>2. PICK t : t = Append(s, p)
  OBVIOUS
<1>3. t # <<>> /\ Len(t) = Len(s) + 1
  <2>1. t # <<>>
    BY <1>2, AppendProperties
  <2>2. Len(t) = Len(s) + 1
    BY <1>2, AppendProperties
  <2> QED
    BY <2>1, <2>2
<1>4. PICK new : new = PushNewPoint(q, p)
  OBVIOUS
<1>5. new = Changed(q, t, p, 1)
  BY <1>1, <1>2, <1>4 DEF PushNewPoint
<1>6. /\ new.points = t
      /\ \A i \in Parameters :
             new.first[i] = Shifted(q.first[i], Len(s), 1 * First(i)[p], Len(s) + 1)
      /\ \A ik \in Parameters \X Parameters :
             new.second[ik] = Shifted(q.second[ik], Len(s), 1 * Second(ik)[p], Len(s) + 1)
  <2>1. IsChanged(new, q, t, p, 1)
    BY <1>5, ChangedParts
  <2> QED
    BY <1>1, <1>3, <2>1 DEF IsChanged
<1>7. ASSUME NEW i \in Parameters
      PROVE  new.first[i] = MeanOver(t, First(i))
  <2>1. First(i) \in [Points -> Int]
    BY CoordinatesAreNumbers
  <2>2. IF s = <<>> THEN q.first[i] = [sum |-> 0, over |-> 1]
                    ELSE q.first[i] = MeanOver(s, First(i))
    BY <1>1 DEF HasMoments
  <2>3. Shifted(q.first[i], Len(s), 1 * First(i)[p], Len(s) + 1) = MeanOver(t, First(i))
    BY <1>2, <2>1, <2>2, ShiftedIn
  <2> QED
    BY <1>6, <2>3
<1>8. ASSUME NEW ik \in Parameters \X Parameters
      PROVE  new.second[ik] = MeanOver(t, Second(ik))
  <2>1. Second(ik) \in [Points -> Int]
    BY CoordinatesAreNumbers
  <2>2. IF s = <<>> THEN q.second[ik] = [sum |-> 0, over |-> 1]
                    ELSE q.second[ik] = MeanOver(s, Second(ik))
    BY <1>1 DEF HasMoments
  <2>3. Shifted(q.second[ik], Len(s), 1 * Second(ik)[p], Len(s) + 1) = MeanOver(t, Second(ik))
    BY <1>2, <2>1, <2>2, ShiftedIn
  <2> QED
    BY <1>6, <2>3
<1>9. HasMoments(new)
  BY <1>3, <1>6, <1>7, <1>8 DEF HasMoments
<1> QED
  BY <1>1, <1>2, <1>4, <1>6, <1>9

LEMMA PopKeepsMoments ==
    ASSUME NEW q, q.points \in Seq(Points), Len(q.points) > 1, HasMoments(q)
    PROVE  /\ PopOldestPoint(q).points = Tail(q.points)
           /\ HasMoments(PopOldestPoint(q))
<1>1. PICK s \in Seq(Points) : s = q.points /\ Len(s) > 1
  OBVIOUS
<1>2. PICK t : t = Tail(s)
  OBVIOUS
<1>3. s # <<>> /\ t # <<>> /\ Head(s) \in Points
  <2>1. s # <<>> /\ Len(s) \in Nat
    BY <1>1, LenProperties, EmptySeq
  <2>2. Head(s) \in Points /\ Len(t) = Len(s) - 1
    BY <1>2, <2>1, HeadTailProperties
  <2>3. t # <<>>
    BY <1>1, <2>1, <2>2
  <2> QED
    BY <2>1, <2>2, <2>3
<1>4. PICK new : new = PopOldestPoint(q)
  OBVIOUS
<1>5. new = Changed(q, t, Head(s), -1)
  BY <1>1, <1>2, <1>4 DEF PopOldestPoint
<1>6. /\ new.points = t
      /\ \A i \in Parameters :
             new.first[i] = Shifted(q.first[i], Len(s), (-1) * First(i)[Head(s)], Len(t))
      /\ \A ik \in Parameters \X Parameters :
             new.second[ik] = Shifted(q.second[ik], Len(s), (-1) * Second(ik)[Head(s)], Len(t))
  <2>1. IsChanged(new, q, t, Head(s), -1)
    BY <1>3, <1>5, ChangedParts
  <2> QED
    BY <1>1, <2>1 DEF IsChanged
<1>7. ASSUME NEW i \in Parameters
      PROVE  new.first[i] = MeanOver(t, First(i))
  <2>1. First(i) \in [Points -> Int]
    BY CoordinatesAreNumbers
  <2>2. q.first[i] = MeanOver(s, First(i))
    BY <1>1, <1>3 DEF HasMoments
  <2>3. Shifted(q.first[i], Len(s), (-1) * First(i)[Head(s)], Len(t)) = MeanOver(t, First(i))
    BY <1>1, <1>2, <2>1, <2>2, ShiftedOut
  <2> QED
    BY <1>6, <2>3
<1>8. ASSUME NEW ik \in Parameters \X Parameters
      PROVE  new.second[ik] = MeanOver(t, Second(ik))
  <2>1. Second(ik) \in [Points -> Int]
    BY CoordinatesAreNumbers
  <2>2. q.second[ik] = MeanOver(s, Second(ik))
    BY <1>1, <1>3 DEF HasMoments
  <2>3. Shifted(q.second[ik], Len(s), (-1) * Second(ik)[Head(s)], Len(t)) = MeanOver(t, Second(ik))
    BY <1>1, <1>2, <2>1, <2>2, ShiftedOut
  <2> QED
    BY <1>6, <2>3
<1>9. HasMoments(new)
  BY <1>3, <1>6, <1>7, <1>8 DEF HasMoments
<1> QED
  BY <1>1, <1>2, <1>4, <1>6, <1>9

-----------------------------------------------------------------------------
\* The end of a sequence: the last n elements, or all of them.
IsEnd(c, s, n) ==
    /\ Len(c) = IF Len(s) > n THEN n ELSE Len(s)
    /\ \A i \in 1 .. Len(c) : c[i] = s[Len(s) - Len(c) + i]

LEMMA LastOfIsEnd ==
    ASSUME NEW s \in Seq(Points), NEW n \in Nat
    PROVE  LastOf(s, n) \in Seq(Points) /\ IsEnd(LastOf(s, n), s, n)
<1>1. PICK k \in Nat : k = Len(s)
  BY LenProperties
<1>2. PICK m \in 1 .. k + 1 : m = IF k > n THEN k - n + 1 ELSE 1
  <2>1. (IF k > n THEN k - n + 1 ELSE 1) \in 1 .. k + 1
    OBVIOUS
  <2> QED
    BY <2>1
<1>3. \A i \in m .. k : s[i] \in Points
  BY <1>1, <1>2, ElementOfSeq
<1>4. PICK c : c = SubSeq(s, m, k)
  OBVIOUS
<1>5. /\ c \in Seq(Points)
      /\ Len(c) = IF m <= k THEN k - m + 1 ELSE 0
      /\ \A i \in 1 .. k - m + 1 : c[i] = s[m + i - 1]
  BY <1>3, <1>4, SubSeqProperties
<1>6. LastOf(s, n) = c
  BY <1>1, <1>2, <1>4 DEF LastOf
<1>7. Len(c) = k - m + 1
  BY <1>5
<1>8. \A i \in 1 .. Len(c) : c[i] = s[Len(s) - Len(c) + i]
  <2>1. ASSUME NEW i \in 1 .. Len(c) PROVE c[i] = s[k - Len(c) + i]
    <3>1. i \in 1 .. k - m + 1 /\ k - Len(c) + i = m + i - 1
      BY <1>7
    <3> QED
      BY <1>5, <3>1
  <2> QED
    BY <1>1, <2>1
<1>9. Len(c) = IF Len(s) > n THEN n ELSE Len(s)
  BY <1>1, <1>2, <1>7
<1> QED
  BY <1>5, <1>6, <1>8, <1>9 DEF IsEnd

\* A sequence that is not longer is its own end.
LEMMA LastOfShort ==
    ASSUME NEW s \in Seq(Points), NEW n \in Nat, Len(s) <= n
    PROVE  LastOf(s, n) = s
<1>1. LastOf(s, n) = SubSeq(s, 1, Len(s))
  <2>1. ~(Len(s) > n)
    BY LenProperties
  <2> QED
    BY <2>1 DEF LastOf
<1> QED
  BY <1>1, SubSeqFull

\* The end goes on as the sequence does.
LEMMA LastOfAppend ==
    ASSUME NEW s \in Seq(Points), NEW n \in Nat, NEW p \in Points
    PROVE  LastOf(Append(LastOf(s, n), p), n) = LastOf(Append(s, p), n)
<1>1. CASE Len(s) <= n
  BY <1>1, LastOfShort
<1>2. CASE ~(Len(s) <= n)
  <2>1. PICK k \in Nat : k = Len(s) /\ k > n
    BY <1>2, LenProperties
  <2>2. PICK c : c = LastOf(s, n)
    OBVIOUS
  <2>3. /\ c \in Seq(Points) /\ Len(c) = n
        /\ \A i \in 1 .. n : c[i] = s[k - n + i]
    BY <2>1, <2>2, LastOfIsEnd DEF IsEnd
  <2>4. PICK a : a = Append(c, p)
    OBVIOUS
  <2>5. /\ a \in Seq(Points) /\ Len(a) = n + 1
        /\ \A i \in 1 .. n : a[i] = c[i]
        /\ a[n + 1] = p
    BY <2>3, <2>4, AppendProperties
  <2>6. PICK b : b = Append(s, p)
    OBVIOUS
  <2>7. /\ b \in Seq(Points) /\ Len(b) = k + 1
        /\ \A i \in 1 .. k : b[i] = s[i]
        /\ b[k + 1] = p
    BY <2>1, <2>6, AppendProperties
  <2>8. PICK x : x = LastOf(a, n)
    OBVIOUS
  <2>9. x \in Seq(Points) /\ Len(x) = n /\ \A i \in 1 .. n : x[i] = a[i + 1]
    <3>1. x \in Seq(Points) /\ IsEnd(x, a, n)
      BY <2>5, <2>8, LastOfIsEnd
    <3>2. Len(x) = n
      BY <2>5, <3>1 DEF IsEnd
    <3>3. ASSUME NEW i \in 1 .. n PROVE x[i] = a[i + 1]
      <4>1. x[i] = a[(n + 1) - n + i]
        BY <2>5, <3>1, <3>2 DEF IsEnd
      <4>2. (n + 1) - n + i = i + 1
        OBVIOUS
      <4> QED
        BY <4>1, <4>2
    <3> QED
      BY <3>1, <3>2, <3>3
  <2>10. PICK y : y = LastOf(b, n)
    OBVIOUS
  <2>11. y \in Seq(Points) /\ Len(y) = n /\ \A i \in 1 .. n : y[i] = b[(k + 1) - n + i]
    <3>1. y \in Seq(Points) /\ IsEnd(y, b, n)
      BY <2>7, <2>10, LastOfIsEnd
    <3>2. Len(y) = n
      BY <2>1, <2>7, <3>1 DEF IsEnd
    <3> QED
      BY <2>7, <3>1, <3>2 DEF IsEnd
  <2>12. ASSUME NEW i \in 1 .. n PROVE x[i] = y[i]
    <3>1. CASE i = n
      <4>1. (k + 1) - n + i = k + 1 /\ i + 1 = n + 1
        BY <3>1
      <4> QED
        BY <2>5, <2>7, <2>9, <2>11, <4>1
    <3>2. CASE i # n
      <4>1. PICK j \in 1 .. n : j = i + 1
        BY <3>2
      <4>2. x[i] = s[k - n + j]
        BY <2>3, <2>5, <2>9, <4>1
      <4>3. (k + 1) - n + i = k - n + j /\ k - n + j \in 1 .. k
        BY <2>1, <4>1
      <4>4. y[i] = s[k - n + j]
        BY <2>7, <2>11, <4>3
      <4> QED
        BY <4>2, <4>4
    <3> QED
      BY <3>1, <3>2
  <2>13. x = y
    <3>1. Len(x) = Len(y) /\ \A i \in 1 .. Len(x) : x[i] = y[i]
      BY <2>9, <2>11, <2>12
    <3> QED
      BY <2>9, <2>11, <3>1, SeqEqual
  <2> QED
    BY <2>2, <2>4, <2>6, <2>8, <2>10, <2>13
<1> QED
  BY <1>1, <1>2

\* A queue that is as long as it may be, with the moments of its points.
QueueOK(q) ==
    /\ q.points \in Seq(Points)
    /\ Len(q.points) <= Maximal
    /\ Maximal > 0 => HasMoments(q)

\* UpdateQueue: the end of the points with the new one, and their moments.
LEMMA UpdateKeeps ==
    ASSUME NEW q, NEW p \in Points, QueueOK(q)
    PROVE  /\ QueueOK(UpdateQueue(q, p))
           /\ UpdateQueue(q, p).points = LastOf(Append(q.points, p), Maximal)
           /\ Len(UpdateQueue(q, p).points) <= Len(q.points) + 1
<1>1. PICK s \in Seq(Points) : s = q.points
  BY DEF QueueOK
<1>2. PICK n \in Nat : n = Len(s)
  BY LenProperties
<1>3. PICK a : a = Append(s, p)
  OBVIOUS
<1>4. a \in Seq(Points) /\ a # <<>> /\ Len(a) = n + 1
  <2>1. a \in Seq(Points) /\ a # <<>>
    BY <1>3, AppendProperties
  <2>2. Len(a) = n + 1
    BY <1>2, <1>3, AppendProperties
  <2> QED
    BY <2>1, <2>2
<1>5. PICK m \in Nat : m = Maximal
  BY QueueAssumption
<1>6. n <= m
  BY <1>1, <1>2, <1>5 DEF QueueOK
<1>7. PICK new : new = PushNewPoint(q, p)
  OBVIOUS
<1>8. new.points = a /\ (m > 0 => HasMoments(new))
  <2>1. new.points = a
    BY <1>1, <1>3, <1>7 DEF PushNewPoint, Changed
  <2>2. ASSUME m > 0 PROVE HasMoments(new)
    BY <1>5, <1>7, <2>2, PushKeepsMoments DEF QueueOK
  <2> QED
    BY <2>1, <2>2
<1>9. PICK u : u = UpdateQueue(q, p)
  OBVIOUS
<1>10. CASE n < m
  <2>1. u = new
    BY <1>4, <1>5, <1>7, <1>8, <1>9, <1>10 DEF UpdateQueue
  <2>2. LastOf(a, m) = a
    BY <1>4, <1>10, LastOfShort
  <2>3. u.points = LastOf(a, m) /\ Len(u.points) = n + 1
    BY <1>4, <1>8, <2>1, <2>2
  <2>4. QueueOK(u)
    BY <1>4, <1>5, <1>8, <1>10, <2>1, <2>3 DEF QueueOK
  <2> QED
    BY <1>1, <1>2, <1>3, <1>5, <1>9, <2>3, <2>4
<1>11. CASE n = m
  <2>1. u = PopOldestPoint(new)
    BY <1>4, <1>5, <1>7, <1>8, <1>9, <1>11 DEF UpdateQueue
  <2>2. u.points = Tail(a)
    BY <1>8, <2>1 DEF PopOldestPoint, Changed
  <2>3. LastOf(a, m) = Tail(a)
    <3>1. LastOf(a, m) = SubSeq(a, 2, Len(a))
      BY <1>4, <1>11 DEF LastOf
    <3> QED
      BY <1>4, <3>1, TailIsSubSeq
  <2>4. Tail(a) \in Seq(Points) /\ Len(Tail(a)) = n
    BY <1>4, HeadTailProperties
  <2>5. ASSUME m > 0 PROVE HasMoments(u)
    <3>1. new.points \in Seq(Points) /\ Len(new.points) > 1
      BY <1>4, <1>8, <1>11, <2>5
    <3> QED
      BY <1>8, <2>1, <2>5, <3>1, PopKeepsMoments
  <2> QED
    BY <1>1, <1>2, <1>3, <1>5, <1>9, <1>11, <2>2, <2>3, <2>4, <2>5 DEF QueueOK
<1> QED
  BY <1>6, <1>10, <1>11

-----------------------------------------------------------------------------
\* Every queue there may be.
MeanType == [sum : Int, over : Nat]
QueueType == [points : Seq(Points),
              first : [Parameters -> MeanType],
              second : [Parameters \X Parameters -> MeanType]]

LEMMA ShiftedType ==
    ASSUME NEW mean \in MeanType, NEW n \in Nat, NEW v \in Int, NEW m \in Nat
    PROVE  Shifted(mean, n, v, m) \in MeanType
<1>1. CASE mean.over = 0 \/ m = 0
  BY <1>1 DEF Shifted, IsNaN, NaN, MeanType
<1>2. CASE ~(mean.over = 0 \/ m = 0)
  <2>1. PICK x \in Int, d \in Nat : x = mean.sum /\ d = mean.over /\ d # 0
    BY <1>2 DEF MeanType
  <2>2. PICK y : y = n * x
    OBVIOUS
  <2>3. y \in Int
    BY <2>2
  <2>4. y \div d \in Int
    BY <2>1, <2>3
  <2>5. Shifted(mean, n, v, m) = [sum |-> y \div d + v, over |-> m]
    BY <1>2, <2>1, <2>2 DEF Shifted, IsNaN
  <2> QED
    BY <2>4, <2>5 DEF MeanType
<1> QED
  BY <1>1, <1>2

LEMMA ChangedType ==
    ASSUME NEW q \in QueueType, NEW new \in Seq(Points), NEW p \in Points, NEW sign \in Int
    PROVE  Changed(q, new, p, sign) \in QueueType
<1>1. PICK n \in Nat, m \in Nat : n = Len(q.points) /\ m = Len(new)
  BY LenProperties DEF QueueType
<1>2. ASSUME NEW i \in Parameters
      PROVE  Shifted(q.first[i], n, sign * Coordinates[p][i], m) \in MeanType
  <2>1. Coordinates[p][i] \in Int
    <3>1. First(i) \in [Points -> Int]
      BY CoordinatesAreNumbers
    <3> QED
      BY <3>1 DEF First
  <2>2. q.first[i] \in MeanType /\ sign * Coordinates[p][i] \in Int
    BY <2>1 DEF QueueType
  <2> QED
    BY <2>2, ShiftedType
<1>3. ASSUME NEW ik \in Parameters \X Parameters
      PROVE  Shifted(q.second[ik], n, sign * Product(p, ik[1], ik[2]), m) \in MeanType
  <2>1. Product(p, ik[1], ik[2]) \in Int
    <3>1. Second(ik) \in [Points -> Int]
      BY CoordinatesAreNumbers
    <3> QED
      BY <3>1 DEF Second
  <2>2. q.second[ik] \in MeanType /\ sign * Product(p, ik[1], ik[2]) \in Int
    BY <2>1 DEF QueueType
  <2> QED
    BY <2>2, ShiftedType
<1>4. Changed(q, new, p, sign) =
          [points |-> new,
           first |-> [i \in Parameters |-> Shifted(q.first[i], n, sign * Coordinates[p][i], m)],
           second |-> [ik \in Parameters \X Parameters |->
               Shifted(q.second[ik], n, sign * Product(p, ik[1], ik[2]), m)]]
  BY <1>1 DEF Changed
<1> QED
  BY <1>2, <1>3, <1>4 DEF QueueType

LEMMA UpdateType ==
    ASSUME NEW q \in QueueType, NEW p \in Points
    PROVE  UpdateQueue(q, p) \in QueueType
<1>1. PICK new : new = PushNewPoint(q, p)
  OBVIOUS
<1>2. Append(q.points, p) \in Seq(Points) /\ Append(q.points, p) # <<>>
  BY AppendProperties DEF QueueType
<1>3. new \in QueueType
  <2>1. 1 \in Int
    OBVIOUS
  <2> QED
    BY <1>1, <1>2, <2>1, ChangedType DEF PushNewPoint
<1>4. new.points = Append(q.points, p)
  BY <1>1 DEF PushNewPoint, Changed
<1>5. Tail(new.points) \in Seq(Points) /\ Head(new.points) \in Points
  BY <1>2, <1>4, HeadTailProperties
<1>6. PopOldestPoint(new) \in QueueType
  <2>1. -1 \in Int
    OBVIOUS
  <2> QED
    BY <1>3, <1>5, <2>1, ChangedType DEF PopOldestPoint
<1> QED
  BY <1>1, <1>3, <1>6 DEF UpdateQueue

LEMMA EmptyQueue == Empty \in QueueType /\ QueueOK(Empty)
<1>1. [sum |-> 0, over |-> 1] \in MeanType
  BY DEF MeanType
<1>2. Empty.points = <<>> /\ <<>> \in Seq(Points) /\ Len(<<>>) <= Maximal
  BY QueueAssumption DEF Empty
<1>3. Empty \in QueueType
  BY <1>1 DEF Empty, QueueType
<1>4. HasMoments(Empty)
  BY DEF Empty, HasMoments
<1> QED
  BY <1>2, <1>3, <1>4 DEF QueueOK

\* PopulateQueue: what becomes of the queue as one saved point after the other
\* is put into it.
LEMMA PopulateSteps ==
    ASSUME savedQueue \in Seq(Points)
    PROVE  \E p : /\ p[0] = Empty
                  /\ \A i \in 1 .. Len(savedQueue) : p[i] = UpdateQueue(p[i - 1], savedQueue[i])
                  /\ PopulateQueue = p[Len(savedQueue)]
<1> DEFINE s == savedQueue
           n == Len(s)
           step == [xi \in QueueType \X (1 .. n) |-> UpdateQueue(xi[1], s[xi[2]])]
           Solves(f) == f = [t \in SUBSET DOMAIN s |->
                                IF t = {} THEN Empty
                                ELSE UpdateQueue(f[t \ {Max(t)}], s[Max(t)])]
           fold == CHOOSE f : Solves(f)
<1>1. n \in Nat /\ DOMAIN s = 1 .. n /\ \A i \in 1 .. n : s[i] \in Points
  BY LenProperties, ElementOfSeq
<1>2. step \in [QueueType \X (1 .. n) -> QueueType]
  <2>1. ASSUME NEW xi \in QueueType \X (1 .. n)
        PROVE  UpdateQueue(xi[1], s[xi[2]]) \in QueueType
    <3>1. xi[1] \in QueueType /\ s[xi[2]] \in Points
      BY <1>1
    <3> QED
      BY <3>1, UpdateType
  <2> QED
    BY <2>1
<1>3. PopulateQueue = fold[1 .. n]
  BY <1>1 DEF PopulateQueue, FoldLeft, MapThenFoldSet
<1>4. PICK f \in [SUBSET (1 .. n) -> QueueType] : FoldsUpTo(f, Empty, step, n)
  <2>1. HasFold(QueueType, Empty, step, n)
    <3> HIDE DEF n, step
    <3> QED
      BY <1>1, <1>2, EmptyQueue, Folding
  <2> HIDE DEF n, step
  <2> QED
    BY <2>1 DEF HasFold
<1>5. Solves(f)
  <2>1. ASSUME NEW t \in SUBSET (1 .. n), t # {}
        PROVE  f[t] = UpdateQueue(f[t \ {Max(t)}], s[Max(t)])
    <3>1. Max(t) \in 1 .. n
      BY <1>1, <2>1, MaxIsLast
    <3>2. <<f[t \ {Max(t)}], Max(t)>> \in QueueType \X (1 .. n)
      BY <1>4, <3>1
    <3>3. f[t] = step[<<f[t \ {Max(t)}], Max(t)>>]
      BY <1>4, <2>1 DEF FoldsUpTo
    <3> QED
      BY <3>2, <3>3
  <2>2. f[{}] = Empty
    BY <1>4 DEF FoldsUpTo
  <2> QED
    BY <1>1, <1>4, <2>1, <2>2
<1>6. Solves(fold)
  <2> HIDE DEF Solves
  <2> QED
    BY <1>5
<1> DEFINE q == [i \in 0 .. n |-> fold[1 .. i]]
<1>7. /\ fold[1 .. 0] = Empty
      /\ \A i \in 1 .. n : fold[1 .. i] = UpdateQueue(fold[1 .. i - 1], s[i])
  <2>1. fold[1 .. 0] = Empty
    <3>1. 1 .. 0 = {} /\ {} \in SUBSET DOMAIN s
      OBVIOUS
    <3> HIDE DEF fold
    <3> QED
      BY <1>6, <3>1
  <2>2. ASSUME NEW i \in 1 .. n PROVE fold[1 .. i] = UpdateQueue(fold[1 .. i - 1], s[i])
    <3>1. 1 .. i \in SUBSET DOMAIN s /\ 1 .. i # {} /\ i \in 1 .. i /\ i \in Nat
      <4> HIDE DEF n
      <4>1. i \in Nat /\ i >= 1 /\ i <= n
        BY <1>1
      <4>2. 1 .. i \subseteq 1 .. n /\ i \in 1 .. i
        BY <1>1, <4>1
      <4> QED
        BY <1>1, <4>1, <4>2
    <3>2. Max(1 .. i) = i
      BY <3>1, MaxIsLast
    <3>3. (1 .. i) \ {i} = 1 .. i - 1
      BY <1>1
    <3> HIDE DEF fold
    <3> QED
      BY <1>6, <3>1, <3>2, <3>3
  <2> QED
    BY <2>1, <2>2
<1>8. q[0] = Empty /\ (\A i \in 1 .. n : q[i] = UpdateQueue(q[i - 1], s[i])) /\ fold[1 .. n] = q[n]
  <2> HIDE DEF fold
  <2> QED
    BY <1>1, <1>7
<1> HIDE DEF q, fold
<1> QED
  BY <1>3, <1>8

\* The queue of a process that goes on: the saved points and their moments.
LEMMA Populated ==
    ASSUME savedQueue \in Seq(Points), Len(savedQueue) <= Maximal
    PROVE  QueueOK(PopulateQueue) /\ PopulateQueue.points = savedQueue
<1>1. PICK s \in Seq(Points), n \in Nat : s = savedQueue /\ n = Len(s)
  BY LenProperties
<1>2. PICK p : /\ p[0] = Empty
               /\ \A i \in 1 .. n : p[i] = UpdateQueue(p[i - 1], s[i])
               /\ PopulateQueue = p[n]
  BY <1>1, PopulateSteps
<1>3. PICK m \in Nat : m = Maximal /\ n <= m
  BY <1>1, QueueAssumption
<1> DEFINE Holds(i) == /\ QueueOK(p[i])
                       /\ Len(p[i].points) = i
                       /\ \A k \in 1 .. i : p[i].points[k] = s[k]
           T == {i \in Nat : i <= n => Holds(i)}
<1>4. 0 \in T
  <2>1. Empty.points = <<>>
    BY DEF Empty
  <2> QED
    BY <1>2, <2>1, EmptyQueue
<1>5. ASSUME NEW i \in Nat, i \in T PROVE i + 1 \in T
  <2> SUFFICES ASSUME i + 1 <= n PROVE Holds(i + 1)
    OBVIOUS
  <2>1. Holds(i) /\ i + 1 \in 1 .. n /\ (i + 1) - 1 = i
    BY <1>5
  <2>2. s[i + 1] \in Points
    BY <1>1, <2>1, ElementOfSeq
  <2>3. PICK u, x : u = p[i].points /\ x = s[i + 1]
    OBVIOUS
  <2>4. /\ QueueOK(p[i + 1])
        /\ p[i + 1].points = LastOf(Append(u, x), m)
    BY <1>2, <1>3, <2>1, <2>2, <2>3, UpdateKeeps
  <2>5. u \in Seq(Points) /\ Len(u) = i
    BY <2>1, <2>3 DEF QueueOK
  <2>6. /\ Append(u, x) \in Seq(Points) /\ Len(Append(u, x)) = i + 1
        /\ \A k \in 1 .. i : Append(u, x)[k] = u[k]
        /\ Append(u, x)[i + 1] = x
    BY <2>2, <2>3, <2>5, AppendProperties
  <2>7. p[i + 1].points = Append(u, x)
    <3>1. i + 1 <= m
      BY <1>3
    <3> QED
      BY <2>4, <2>6, <3>1, LastOfShort
  <2>8. ASSUME NEW k \in 1 .. i + 1 PROVE Append(u, x)[k] = s[k]
    <3>1. CASE k = i + 1
      BY <2>3, <2>6, <3>1
    <3>2. CASE k \in 1 .. i
      BY <2>1, <2>3, <2>6, <3>2
    <3>3. k = i + 1 \/ k \in 1 .. i
      OBVIOUS
    <3> QED
      BY <3>1, <3>2, <3>3
  <2> QED
    BY <2>4, <2>6, <2>7, <2>8
<1>6. \A i \in Nat : i \in T
  <2> HIDE DEF T
  <2> QED
    BY <1>4, <1>5, Reaches
<1>7. Holds(n)
  BY <1>6
<1>8. p[n].points = s
  <2>1. p[n].points \in Seq(Points)
    BY <1>7 DEF QueueOK
  <2> QED
    BY <1>1, <1>7, <2>1, SeqEqual
<1> QED
  BY <1>1, <1>2, <1>7, <1>8

-----------------------------------------------------------------------------
(***************************************************************************)
(* The invariant of the queue.  A proposal is drawn from the queue as it   *)
(* is, the queue is never longer than the counter, and what is handed on   *)
(* is as long as the counter that is handed on with it.                    *)
(***************************************************************************)
QueuesAreShort ==
    /\ treeQueue \in Seq(Points) /\ Len(treeQueue) <= Maximal
    /\ savedQueue \in Seq(Points) /\ Len(savedQueue) <= Maximal
    /\ pc \notin {"off", "done", "closed"} => QueueOK(queue)

CovarianceIsOfQueue ==
    pc \in {"evaluateFirst", "evaluate"} /\ Len(queue.points) >= Minimal => covariance = queue

CounterFits ==
    /\ refused => counterEdited
    /\ ~counterEdited =>
           /\ Len(savedQueue) <= saved.iter
           /\ pc \in {"start", "first", "evaluateFirst", "loop", "evaluate"} =>
                  Len(queue.points) <= iter
           /\ pc = "compare" => Len(queue.points) < iter
           /\ pc \in {"done", "closed"} => Len(treeQueue) <= iter

QueueInv == QueuesAreShort /\ CovarianceIsOfQueue /\ CounterFits

\* Every step keeps the queue.
LEMMA QueueKept == PlainInv /\ QueueInv /\ [HNext]_hvars => QueueInv'
<1> SUFFICES ASSUME PlainInv, QueueInv, [HNext]_hvars
             PROVE  QueueInv'
  OBVIOUS
<1> USE DEF QueueInv, QueuesAreShort, CovarianceIsOfQueue, CounterFits,
            model, memory, output, disk
<1>0. /\ iter \in Nat /\ saved.iter \in Nat /\ par \in Points /\ saved \in Status
      /\ Minimal \in Nat /\ Maximal \in Nat
  BY QueueAssumption DEF PlainInv, TypeOK, Status
<1>1. ASSUME NEW n \in RunLengths, ConstructQueue(n)
      PROVE  QueueInv'
  <2>1. /\ queue' = PopulateQueue /\ treeQueue' = savedQueue /\ pc' = "start" /\ iter' = saved.iter
        /\ UNCHANGED <<savedQueue, saved, counterEdited, refused>>
    BY <1>1 DEF ConstructQueue, Construct
  <2>2. QueueOK(PopulateQueue) /\ PopulateQueue.points = savedQueue
    BY Populated
  <2>3. QueueOK(queue') /\ queue'.points = savedQueue
    BY <2>1, <2>2
  <2>4. QueuesAreShort'
    BY <2>1, <2>3
  <2> QED
    BY <2>1, <2>3, <2>4
<1>2. CASE RefuseCounter
  <2>1. /\ refused' = TRUE /\ saved.iter < Len(PopulateQueue.points)
        /\ UNCHANGED <<pc, iter, saved, queue, treeQueue, savedQueue, covariance, counterEdited>>
    BY <1>2 DEF RefuseCounter, vars
  <2>2. saved.iter < Len(savedQueue) /\ Len(savedQueue) \in Nat
    BY <2>1, Populated, LenProperties
  <2>3. counterEdited
    BY <1>0, <2>2
  <2> QED
    BY <2>1, <2>3
<1>3. ASSUME NEW p \in Points, DrawFirstQueue(p)
      PROVE  QueueInv'
  <2>1. /\ pc = "first" /\ pc' \in {"first", "evaluateFirst"}
        /\ covariance' = IF Len(queue.points) < Minimal THEN covariance ELSE queue
        /\ UNCHANGED <<iter, saved, queue, treeQueue, savedQueue, counterEdited, refused>>
    BY <1>3 DEF DrawFirstQueue, DrawFirst, UpdateParameterValues
  <2>2. Len(queue.points) \in Nat
    BY <2>1, LenProperties DEF QueueOK
  <2>3. CovarianceIsOfQueue'
    BY <1>0, <2>1, <2>2
  <2> QED
    BY <2>1, <2>3
<1>4. ASSUME NEW p \in Points, DrawQueue(p)
      PROVE  QueueInv'
  <2>1. /\ pc = "loop" /\ pc' \in {"loop", "evaluate"}
        /\ covariance' = IF Len(queue.points) < Minimal THEN covariance ELSE queue
        /\ UNCHANGED <<iter, saved, queue, treeQueue, savedQueue, counterEdited, refused>>
    BY <1>4 DEF DrawQueue, Draw, UpdateParameterValues
  <2>2. Len(queue.points) \in Nat
    BY <2>1, LenProperties DEF QueueOK
  <2>3. CovarianceIsOfQueue'
    BY <1>0, <2>1, <2>2
  <2> QED
    BY <2>1, <2>3
<1>5. ASSUME QueueOK(queue)
      PROVE  /\ QueueOK(UpdateQueue(queue, par))
             /\ Len(UpdateQueue(queue, par).points) <= Len(queue.points) + 1
             /\ Len(queue.points) \in Nat /\ Len(UpdateQueue(queue, par).points) \in Nat
  BY <1>0, <1>5, UpdateKeeps, LenProperties DEF QueueOK
<1>6. CASE EvaluateFirstQueue
  <2>1. /\ pc = "evaluateFirst" /\ pc' = "loop" /\ iter' = iter + 1
        /\ queue' = IF PushesFirstPoint THEN UpdateQueue(queue, par) ELSE queue
        /\ UNCHANGED <<saved, treeQueue, savedQueue, counterEdited, refused>>
    BY <1>6 DEF EvaluateFirstQueue, EvaluateFirst, UpdateModel
  <2>2. QueueOK(queue)
    BY <2>1
  <2>3. QueueOK(queue') /\ Len(queue'.points) <= Len(queue.points) + 1
        /\ Len(queue.points) \in Nat /\ Len(queue'.points) \in Nat
    BY <1>5, <2>1, <2>2
  <2> QED
    BY <1>0, <2>1, <2>3
<1>7. CASE AcceptQueue
  <2>1. /\ pc = "compare" /\ pc' = "loop" /\ queue' = UpdateQueue(queue, par)
        /\ UNCHANGED <<iter, saved, treeQueue, savedQueue, counterEdited, refused>>
    BY <1>7 DEF AcceptQueue, Accept
  <2>2. QueueOK(queue)
    BY <2>1
  <2>3. QueueOK(queue') /\ Len(queue'.points) <= Len(queue.points) + 1
        /\ Len(queue.points) \in Nat /\ Len(queue'.points) \in Nat
    BY <1>5, <2>1, <2>2
  <2> QED
    BY <1>0, <2>1, <2>3
<1>8. CASE FinishQueue
  <2>1. /\ pc = "loop" /\ pc' = "done" /\ treeQueue' = queue.points
        /\ UNCHANGED <<iter, saved, savedQueue, counterEdited, refused>>
    BY <1>8 DEF FinishQueue, Finish
  <2> QED
    BY <2>1 DEF QueueOK
<1>9. CASE HandOverQueue
  <2>1. /\ pc = "closed" /\ pc' = "off" /\ savedQueue' = treeQueue /\ saved'.iter = iter
        /\ UNCHANGED <<treeQueue, counterEdited, refused>>
    BY <1>9 DEF HandOverQueue, HandOver, UpdatePropertyTree
  <2> QED
    BY <2>1
<1>10. ASSUME UNCHANGED queueVars
       PROVE  UNCHANGED <<queue, treeQueue, savedQueue, covariance, counterEdited, refused>>
  BY <1>10 DEF queueVars
<1>11. CASE BeginExecute /\ UNCHANGED queueVars
  BY <1>10, <1>11 DEF BeginExecute
<1>12. CASE Evaluate /\ UNCHANGED queueVars
  <2>1. /\ pc = "evaluate" /\ pc' = "compare" /\ iter' = iter + 1
        /\ UNCHANGED <<saved, queue, treeQueue, savedQueue, counterEdited, refused>>
    BY <1>10, <1>12 DEF Evaluate, UpdateModel
  <2>2. Len(queue.points) \in Nat
    BY <2>1, LenProperties DEF QueueOK
  <2> QED
    BY <1>0, <2>1, <2>2
<1>13. CASE Reject /\ UNCHANGED queueVars
  <2>1. /\ pc = "compare" /\ pc' = "loop"
        /\ UNCHANGED <<iter, saved, queue, treeQueue, savedQueue, counterEdited, refused>>
    BY <1>10, <1>13 DEF Reject
  <2>2. Len(queue.points) \in Nat
    BY <2>1, LenProperties DEF QueueOK
  <2> QED
    BY <1>0, <2>1, <2>2
<1>14. CASE Crash /\ UNCHANGED queueVars
  BY <1>10, <1>14 DEF Crash
<1>15. ASSUME NEW n \in 0 .. saved.iter, EditCounter(n)
       PROVE  QueueInv'
  BY <1>15 DEF EditCounter
<1>16. CASE UNCHANGED hvars
  BY <1>10, <1>16 DEF hvars, vars
<1>17. CASE Terminated /\ UNCHANGED queueVars
  BY <1>16, <1>17 DEF Terminated, hvars
<1>18. CASE CloseFile /\ UNCHANGED queueVars
  BY <1>10, <1>18 DEF CloseFile
<1> QED
  BY <1>1, <1>2, <1>3, <1>4, <1>6, <1>7, <1>8, <1>9, <1>11, <1>12, <1>13, <1>14, <1>15,
     <1>16, <1>17, <1>18 DEF HNext, Unqueued

LEMMA Queued == HSpec => []QueueInv
<1>1. HInit => QueueInv
  <2> SUFFICES ASSUME HInit PROVE QueueInv
    OBVIOUS
  <2>1. /\ pc = "off" /\ saved.iter = 0 /\ treeQueue = <<>> /\ savedQueue = <<>>
        /\ ~counterEdited /\ ~refused
    BY DEF HInit, Init
  <2> QED
    BY <2>1, QueueAssumption DEF QueueInv, QueuesAreShort, CovarianceIsOfQueue, CounterFits
<1> QED
  BY <1>1, QueueKept, PlainChain, PTL DEF HSpec

\* The constructor accepts what an earlier process has written: it refuses a
\* counter only where the user has set it back.
THEOREM WrittenCounterIsAccepted == HSpec => []OnlyEditedCounterIsRefused
<1>1. QueueInv => OnlyEditedCounterIsRefused
  BY DEF QueueInv, CounterFits, OnlyEditedCounterIsRefused
<1> QED
  BY <1>1, Queued, PTL

\* A proposal is drawn from the moments of the points in the queue, however
\* many points have entered it and left, and however often it was handed on.
THEOREM ProposalsHaveMoments == HSpec => []ProposalHasMomentsOfQueue
<1>1. QueueInv => ProposalHasMomentsOfQueue
  <2> SUFFICES ASSUME QueueInv, Maximal > 0, Len(queue.points) >= Minimal,
                      pc \in {"evaluateFirst", "evaluate"}, queue.points # <<>>
               PROVE  /\ \A i \in Parameters :
                             covariance.first[i] = Mean(queue.points, LAMBDA p : Coordinates[p][i])
                      /\ \A i, k \in Parameters :
                             covariance.second[<<i, k>>]
                                 = Mean(queue.points, LAMBDA p : Product(p, i, k))
    BY DEF ProposalHasMomentsOfQueue
  <2>1. covariance = queue /\ queue.points \in Seq(Points) /\ HasMoments(queue)
    BY DEF QueueInv, CovarianceIsOfQueue, QueuesAreShort, QueueOK
  <2>2. PICK s \in Seq(Points) : s = queue.points
    BY <2>1
  <2>3. \A k \in DOMAIN s : s[k] \in Points
    BY ElementOfSeq
  <2>4. ASSUME NEW i \in Parameters
        PROVE  covariance.first[i] = Mean(queue.points, LAMBDA p : Coordinates[p][i])
    <3>1. covariance.first[i] = MeanOver(s, First(i))
      BY <2>1, <2>2 DEF HasMoments
    <3>2. \A k \in DOMAIN s : First(i)[s[k]] = Coordinates[s[k]][i]
      BY <2>3 DEF First
    <3>3. [k \in DOMAIN s |-> First(i)[s[k]]] = [k \in DOMAIN s |-> Coordinates[s[k]][i]]
      BY <3>2
    <3>4. MeanOver(s, First(i)) = Mean(s, LAMBDA p : Coordinates[p][i])
      BY <3>3 DEF MeanOver, SumOver, Mean
    <3> QED
      BY <2>2, <3>1, <3>4 DEF Mean
  <2>5. ASSUME NEW i \in Parameters, NEW k \in Parameters
        PROVE  covariance.second[<<i, k>>] = Mean(queue.points, LAMBDA p : Product(p, i, k))
    <3>1. covariance.second[<<i, k>>] = MeanOver(s, Second(<<i, k>>))
      BY <2>1, <2>2 DEF HasMoments
    <3>2. \A j \in DOMAIN s : Second(<<i, k>>)[s[j]] = Product(s[j], i, k)
      BY <2>3 DEF Second
    <3>3. [j \in DOMAIN s |-> Second(<<i, k>>)[s[j]]] = [j \in DOMAIN s |-> Product(s[j], i, k)]
      BY <3>2
    <3>4. MeanOver(s, Second(<<i, k>>)) = Mean(s, LAMBDA p : Product(p, i, k))
      BY <3>3 DEF MeanOver, SumOver, Mean
    <3> QED
      BY <2>2, <3>1, <3>4 DEF Mean
  <2> QED
    BY <2>4, <2>5
<1> QED
  BY <1>1, Queued, PTL

-----------------------------------------------------------------------------
(***************************************************************************)
(* The accepted points of an output, and of all the outputs, are computed  *)
(* by recursion over the entries.  A recursion whose step is a function has*)
(* a solution; two solutions agree.                                        *)
(***************************************************************************)
Recurs(p, base, step, n) ==
    p[0] = base /\ \A i \in 1 .. n : p[i] = step[<<p[i - 1], i>>]

HasRecursion(X, base, step, n) == \E p \in [0 .. n -> X] : Recurs(p, base, step, n)

LEMMA Recursion ==
    ASSUME NEW X, NEW base \in X, NEW n \in Nat, NEW step \in [X \X (1 .. n) -> X]
    PROVE  HasRecursion(X, base, step, n)
<1>1. PICK f \in [SUBSET (1 .. n) -> X] : FoldsUpTo(f, base, step, n)
  <2>1. HasFold(X, base, step, n)
    BY Folding
  <2> QED
    BY <2>1 DEF HasFold
<1>2. OnIntervals(f, base, step, n)
  BY <1>1, FoldedIntervals
<1> DEFINE p == [i \in 0 .. n |-> f[1 .. i]]
<1>3. p \in [0 .. n -> X]
  OBVIOUS
<1>4. Recurs(p, base, step, n)
  BY <1>2 DEF OnIntervals, Recurs
<1> HIDE DEF p
<1> QED
  BY <1>3, <1>4 DEF HasRecursion

Accepts(weights, resumed, i) == weights[i] > 0 /\ (i > 1 \/ ~resumed)

\* The points that are accepted up to an entry.
Collects(a, entries, weights, resumed) ==
    /\ a[0] = <<>>
    /\ \A i \in 1 .. Len(weights) :
           a[i] = IF Accepts(weights, resumed, i) THEN Append(a[i - 1], entries[i].par)
                                                  ELSE a[i - 1]

\* There are as many entries as weights.
Covers(entries, n) == \A i \in 1 .. n : entries[i].par \in Points

LEMMA AcceptedSteps ==
    ASSUME NEW e, NEW w \in Seq(Nat), NEW r, Covers(e, Len(w))
    PROVE  \E a \in [0 .. Len(w) -> Seq(Points)] :
               Collects(a, e, w, r) /\ AcceptedPoints(e, w, r) = a[Len(w)]
<1>1. PICK n \in Nat : n = Len(w)
  BY LenProperties
<1> DEFINE step == [xi \in Seq(Points) \X (1 .. n) |->
                       IF Accepts(w, r, xi[2]) THEN Append(xi[1], e[xi[2]].par) ELSE xi[1]]
           Solves(f) == f = [i \in 0 .. n |->
                                IF i = 0 THEN <<>>
                                ELSE IF w[i] > 0 /\ (i > 1 \/ ~r)
                                       THEN Append(f[i - 1], e[i].par)
                                       ELSE f[i - 1]]
           c == CHOOSE f : Solves(f)
<1>2. step \in [Seq(Points) \X (1 .. n) -> Seq(Points)]
  <2>1. ASSUME NEW xi \in Seq(Points) \X (1 .. n)
        PROVE  (IF Accepts(w, r, xi[2]) THEN Append(xi[1], e[xi[2]].par) ELSE xi[1]) \in Seq(Points)
    <3>1. xi[1] \in Seq(Points) /\ e[xi[2]].par \in Points
      BY <1>1 DEF Covers
    <3> QED
      BY <3>1, AppendProperties
  <2> QED
    BY <2>1
<1>3. PICK a \in [0 .. n -> Seq(Points)] : Recurs(a, <<>>, step, n)
  <2>1. <<>> \in Seq(Points)
    OBVIOUS
  <2> HIDE DEF step
  <2>2. HasRecursion(Seq(Points), <<>>, step, n)
    BY <1>2, <2>1, Recursion
  <2> QED
    BY <2>2 DEF HasRecursion
<1>4. ASSUME NEW i \in 1 .. n
      PROVE  a[i] = IF Accepts(w, r, i) THEN Append(a[i - 1], e[i].par) ELSE a[i - 1]
  <2>1. <<a[i - 1], i>> \in Seq(Points) \X (1 .. n)
    BY <1>3
  <2>2. a[i] = step[<<a[i - 1], i>>]
    <3> HIDE DEF step
    <3> QED
      BY <1>3 DEF Recurs
  <2> QED
    BY <2>1, <2>2
<1> HIDE DEF step
<1>0. a[0] = <<>>
  BY <1>3 DEF Recurs
<1>5. Solves(a)
  <2>1. a = [i \in 0 .. n |-> a[i]]
    BY <1>3
  <2>2. ASSUME NEW i \in 0 .. n
        PROVE  a[i] = IF i = 0 THEN <<>>
                      ELSE IF w[i] > 0 /\ (i > 1 \/ ~r) THEN Append(a[i - 1], e[i].par)
                           ELSE a[i - 1]
    <3>1. i = 0 \/ i \in 1 .. n
      BY <1>1
    <3> QED
      BY <1>0, <1>4, <3>1 DEF Accepts
  <2> QED
    BY <2>1, <2>2
<1>6. Solves(c)
  <2> HIDE DEF Solves
  <2> QED
    BY <1>5
<1>7. AcceptedPoints(e, w, r) = c[n]
  BY <1>1 DEF AcceptedPoints
<1>8. SameSteps(a, c, n)
  <2>1. c[0] = <<>> /\ \A i \in 1 .. n :
            c[i] = IF Accepts(w, r, i) THEN Append(c[i - 1], e[i].par) ELSE c[i - 1]
    <3> HIDE DEF c
    <3>1. 0 \in 0 .. n /\ \A i \in 1 .. n : i \in 0 .. n /\ i # 0
      BY <1>1
    <3> QED
      BY <1>1, <1>6, <3>1 DEF Accepts
  <2> HIDE DEF c
  <2> QED
    BY <1>0, <1>4, <2>1 DEF SameSteps
<1>9. a[n] = c[n]
  <2> HIDE DEF c
  <2> QED
    BY <1>1, <1>8, Agree
<1>10. Collects(a, e, w, r)
  BY <1>0, <1>1, <1>4 DEF Collects
<1> HIDE DEF c
<1> QED
  BY <1>1, <1>3, <1>7, <1>9, <1>10

LEMMA AcceptedBy ==
    ASSUME NEW e, NEW w \in Seq(Nat), NEW r, Covers(e, Len(w)), NEW a, Collects(a, e, w, r)
    PROVE  AcceptedPoints(e, w, r) = a[Len(w)] /\ a[Len(w)] \in Seq(Points)
<1>1. PICK n \in Nat : n = Len(w)
  BY LenProperties
<1>2. PICK b \in [0 .. n -> Seq(Points)] :
          Collects(b, e, w, r) /\ AcceptedPoints(e, w, r) = b[n]
  BY <1>1, AcceptedSteps
<1>3. SameSteps(a, b, n)
  BY <1>1, <1>2 DEF Collects, SameSteps
<1>4. a[n] = b[n]
  BY <1>3, Agree
<1> QED
  BY <1>1, <1>2, <1>4

LEMMA AcceptedEmpty ==
    ASSUME NEW e, NEW r PROVE AcceptedPoints(e, <<>>, r) = <<>>
<1>1. <<>> \in Seq(Nat) /\ Len(<<>>) = 0 /\ Covers(e, 0)
  BY DEF Covers
<1>2. Collects([i \in 0 .. 0 |-> <<>>], e, <<>>, r)
  BY <1>1 DEF Collects
<1> QED
  BY <1>1, <1>2, AcceptedBy

\* One weight more.
LEMMA AcceptedAppend ==
    ASSUME NEW e, NEW w \in Seq(Nat), NEW x \in Nat, NEW r, Covers(e, Len(w) + 1)
    PROVE  AcceptedPoints(e, Append(w, x), r) =
               IF x > 0 /\ (Len(w) > 0 \/ ~r)
                 THEN Append(AcceptedPoints(e, w, r), e[Len(w) + 1].par)
                 ELSE AcceptedPoints(e, w, r)
<1>1. PICK n \in Nat : n = Len(w)
  BY LenProperties
<1>2. PICK v : v = Append(w, x)
  OBVIOUS
<1>3. /\ v \in Seq(Nat) /\ Len(v) = n + 1
      /\ \A i \in 1 .. n : v[i] = w[i]
      /\ v[n + 1] = x
  BY <1>1, <1>2, AppendProperties
<1>4. PICK a : Collects(a, e, v, r) /\ AcceptedPoints(e, v, r) = a[n + 1]
  BY <1>1, <1>3, AcceptedSteps
<1>5. Collects(a, e, w, r)
  <2>1. a[0] = <<>>
    BY <1>4 DEF Collects
  <2>2. ASSUME NEW i \in 1 .. n
        PROVE  a[i] = IF Accepts(w, r, i) THEN Append(a[i - 1], e[i].par) ELSE a[i - 1]
    <3>1. i \in 1 .. Len(v) /\ v[i] = w[i]
      BY <1>3
    <3> QED
      BY <1>4, <3>1 DEF Collects, Accepts
  <2> QED
    BY <1>1, <2>1, <2>2 DEF Collects
<1>6. Covers(e, Len(w))
  BY <1>1 DEF Covers
<1>7. AcceptedPoints(e, w, r) = a[n]
  BY <1>1, <1>5, <1>6, AcceptedBy
<1>8. a[n + 1] = IF Accepts(v, r, n + 1) THEN Append(a[n], e[n + 1].par) ELSE a[n]
  <2>1. n + 1 \in 1 .. Len(v) /\ (n + 1) - 1 = n
    BY <1>3
  <2> QED
    BY <1>4, <2>1 DEF Collects
<1>9. Accepts(v, r, n + 1) <=> x > 0 /\ (n > 0 \/ ~r)
  BY <1>3 DEF Accepts
<1> QED
  BY <1>1, <1>2, <1>4, <1>7, <1>8, <1>9

\* Entries behind the weights do not matter.
LEMMA AcceptedSame ==
    ASSUME NEW e, NEW d, NEW w \in Seq(Nat), NEW r, Covers(e, Len(w)),
           \A i \in 1 .. Len(w) : d[i] = e[i]
    PROVE  AcceptedPoints(d, w, r) = AcceptedPoints(e, w, r)
<1>1. PICK a : Collects(a, e, w, r) /\ AcceptedPoints(e, w, r) = a[Len(w)]
  BY AcceptedSteps
<1>2. Collects(a, d, w, r) /\ Covers(d, Len(w))
  BY <1>1 DEF Collects, Covers
<1> QED
  BY <1>1, <1>2, AcceptedBy

\* Of the weights that are held back only the first may accept.
LEMMA AcceptedHeld ==
    ASSUME NEW e, NEW w \in Seq(Nat), NEW x \in Nat, NEW k \in Nat, NEW r,
           Covers(e, Len(w) + 1 + k)
    PROVE  AcceptedPoints(e, w \o Held(x, k), r) = AcceptedPoints(e, Append(w, x), r)
<1>1. PICK n \in Nat : n = Len(w)
  BY LenProperties
<1>2. PICK h \in Seq(Nat) : h = Held(x, k) /\ Len(h) = k + 1 /\ h[1] = x
                            /\ \A i \in 2 .. k + 1 : h[i] = 0
  BY HeldShape DEF IsHeld
<1>3. PICK v : v = w \o h
  OBVIOUS
<1>4. /\ v \in Seq(Nat) /\ Len(v) = n + k + 1
      /\ \A i \in 1 .. n : v[i] = w[i]
      /\ \A i \in n + 1 .. n + k + 1 : v[i] = h[i - n]
  <2>1. /\ w \o h \in Seq(Nat) /\ Len(w \o h) = Len(w) + Len(h)
        /\ \A i \in 1 .. Len(w) : (w \o h)[i] = w[i]
        /\ \A i \in Len(w) + 1 .. Len(w) + Len(h) : (w \o h)[i] = h[i - Len(w)]
    BY ConcatElements
  <2>2. Len(w) + Len(h) = n + k + 1
    BY <1>1, <1>2
  <2> QED
    BY <1>1, <1>2, <1>3, <2>1, <2>2
<1>5. Covers(e, Len(v))
  <2>1. Len(w) + 1 + k = n + k + 1
    BY <1>1
  <2> QED
    BY <1>4, <2>1
<1>6. PICK a : Collects(a, e, v, r) /\ AcceptedPoints(e, v, r) = a[Len(v)]
  <2>1. v \in Seq(Nat)
    BY <1>4
  <2> QED
    BY <1>5, <2>1, AcceptedSteps
<1>7. PICK u : u = Append(w, x)
  OBVIOUS
<1>8. /\ u \in Seq(Nat) /\ Len(u) = n + 1
      /\ \A i \in 1 .. n + 1 : u[i] = v[i]
  <2>1. /\ u \in Seq(Nat) /\ Len(u) = n + 1
        /\ \A i \in 1 .. n : u[i] = w[i]
        /\ u[n + 1] = x
    BY <1>1, <1>7, AppendProperties
  <2>2. v[n + 1] = x
    <3>1. n + 1 \in n + 1 .. n + k + 1 /\ (n + 1) - n = 1
      OBVIOUS
    <3> QED
      BY <1>2, <1>4, <3>1
  <2>3. ASSUME NEW i \in 1 .. n + 1 PROVE u[i] = v[i]
    <3>1. i \in 1 .. n \/ i = n + 1
      OBVIOUS
    <3> QED
      BY <1>4, <2>1, <2>2, <3>1
  <2> QED
    BY <2>1, <2>3
<1>9. Collects(a, e, u, r) /\ Covers(e, Len(u))
  <2>1. a[0] = <<>>
    BY <1>6 DEF Collects
  <2>2. ASSUME NEW i \in 1 .. n + 1
        PROVE  a[i] = IF Accepts(u, r, i) THEN Append(a[i - 1], e[i].par) ELSE a[i - 1]
    <3>1. i \in 1 .. Len(v) /\ u[i] = v[i]
      BY <1>4, <1>8
    <3> QED
      BY <1>6, <3>1 DEF Collects, Accepts
  <2>3. Covers(e, n + 1)
    BY <1>4, <1>5 DEF Covers
  <2> QED
    BY <1>8, <2>1, <2>2, <2>3 DEF Collects
<1>10. AcceptedPoints(e, u, r) = a[n + 1]
  BY <1>8, <1>9, AcceptedBy
<1> DEFINE p == [j \in 0 .. k |-> a[n + 1 + j]]
           q == [j \in 0 .. k |-> a[n + 1]]
<1>11. ASSUME NEW j \in 1 .. k
       PROVE  p[j] = p[j - 1]
  <2>1. PICK i \in n + 2 .. n + k + 1 : i = n + 1 + j /\ i - 1 = n + 1 + (j - 1)
    OBVIOUS
  <2>2. i \in 1 .. Len(v) /\ i \in n + 1 .. n + k + 1 /\ i - n \in 2 .. k + 1
    BY <1>4
  <2>3. v[i] = 0
    BY <1>2, <1>4, <2>2
  <2>4. a[i] = a[i - 1]
    <3>1. ~Accepts(v, r, i)
      BY <2>3 DEF Accepts
    <3> QED
      BY <1>6, <2>2, <3>1 DEF Collects
  <2> QED
    BY <2>1, <2>4
<1>12. SameSteps(p, q, k)
  <2>1. p[0] = q[0] /\ \A j \in 1 .. k : q[j] = q[j - 1]
    OBVIOUS
  <2> HIDE DEF p, q
  <2> QED
    BY <1>11, <2>1 DEF SameSteps
<1>13. p[k] = q[k]
  <2> HIDE DEF p, q
  <2> QED
    BY <1>12, Agree
<1>14. a[n + k + 1] = a[n + 1]
  <2>1. n + 1 + k = n + k + 1
    OBVIOUS
  <2> QED
    BY <1>13, <2>1
<1> QED
  BY <1>2, <1>3, <1>4, <1>6, <1>7, <1>10, <1>14

-----------------------------------------------------------------------------
(***************************************************************************)
(* The same for the outputs of the processes that ended, one after another.*)
(***************************************************************************)
Gathers(b, files) ==
    /\ b[0] = <<>>
    /\ \A r \in 1 .. Len(files) : b[r] = b[r - 1] \o OfFile(files[r])

FilesOK(files) ==
    /\ files \in Seq(File)
    /\ \A r \in 1 .. Len(files) : Len(files[r].pointAccepted) = Len(files[r].tree)

LEMMA FileAccepted ==
    ASSUME NEW f \in File, Len(f.pointAccepted) = Len(f.tree)
    PROVE  /\ OfFile(f) \in Seq(Points)
           /\ AcceptedPoints(f.tree, f.pointAccepted, f.resumed) \in Seq(Points)
<1>1. PICK e \in Seq(Status) : e = f.tree
  BY DEF File
<1>2. PICK w \in Seq(Nat) : w = f.pointAccepted
  BY DEF File
<1>3. Covers(e, Len(w))
  <2>1. ASSUME NEW i \in 1 .. Len(w) PROVE e[i].par \in Points
    <3>1. e[i] \in Status
      BY <1>1, <1>2, ElementOfSeq
    <3> QED
      BY <3>1 DEF Status
  <2> QED
    BY <2>1 DEF Covers
<1>4. PICK a \in [0 .. Len(w) -> Seq(Points)] : AcceptedPoints(e, w, f.resumed) = a[Len(w)]
  BY <1>3, AcceptedSteps
<1>5. Len(w) \in 0 .. Len(w)
  BY LenProperties
<1>6. AcceptedPoints(f.tree, f.pointAccepted, f.resumed) \in Seq(Points)
  BY <1>1, <1>2, <1>4, <1>5
<1>7. <<>> \in Seq(Points)
  OBVIOUS
<1> QED
  BY <1>6, <1>7 DEF OfFile

LEMMA BeforeSteps ==
    ASSUME NEW files, FilesOK(files)
    PROVE  \E b \in [0 .. Len(files) -> Seq(Points)] :
               Gathers(b, files) /\ BeforeOf(files) = b[Len(files)]
<1>1. PICK n \in Nat : n = Len(files)
  BY LenProperties DEF FilesOK
<1> DEFINE step == [xi \in Seq(Points) \X (1 .. n) |-> xi[1] \o OfFile(files[xi[2]])]
           Solves(f) == f = [r \in 0 .. n |->
                                IF r = 0 THEN <<>> ELSE f[r - 1] \o OfFile(files[r])]
           c == CHOOSE f : Solves(f)
<1>2. step \in [Seq(Points) \X (1 .. n) -> Seq(Points)]
  <2>1. ASSUME NEW xi \in Seq(Points) \X (1 .. n)
        PROVE  xi[1] \o OfFile(files[xi[2]]) \in Seq(Points)
    <3>1. xi[1] \in Seq(Points) /\ xi[2] \in 1 .. n
      OBVIOUS
    <3>2. files[xi[2]] \in File /\ Len(files[xi[2]].pointAccepted) = Len(files[xi[2]].tree)
      BY <1>1, <3>1 DEF FilesOK
    <3> QED
      BY <3>1, <3>2, FileAccepted, ConcatProperties
  <2> QED
    BY <2>1
<1>3. PICK b \in [0 .. n -> Seq(Points)] : Recurs(b, <<>>, step, n)
  <2>1. <<>> \in Seq(Points)
    OBVIOUS
  <2> HIDE DEF step
  <2>2. HasRecursion(Seq(Points), <<>>, step, n)
    BY <1>2, <2>1, Recursion
  <2> QED
    BY <2>2 DEF HasRecursion
<1>4. ASSUME NEW r \in 1 .. n
      PROVE  b[r] = b[r - 1] \o OfFile(files[r])
  <2>1. <<b[r - 1], r>> \in Seq(Points) \X (1 .. n)
    BY <1>3
  <2>2. b[r] = step[<<b[r - 1], r>>]
    <3> HIDE DEF step
    <3> QED
      BY <1>3 DEF Recurs
  <2> QED
    BY <2>1, <2>2
<1> HIDE DEF step
<1>0. b[0] = <<>>
  BY <1>3 DEF Recurs
<1>5. Solves(b)
  <2>1. b = [r \in 0 .. n |-> b[r]]
    BY <1>3
  <2>2. ASSUME NEW r \in 0 .. n
        PROVE  b[r] = IF r = 0 THEN <<>> ELSE b[r - 1] \o OfFile(files[r])
    <3>1. r = 0 \/ r \in 1 .. n
      BY <1>1
    <3> QED
      BY <1>0, <1>4, <3>1
  <2> QED
    BY <2>1, <2>2
<1>6. Solves(c)
  <2> HIDE DEF Solves
  <2> QED
    BY <1>5
<1>7. BeforeOf(files) = c[n]
  BY <1>1 DEF BeforeOf
<1>8. SameSteps(b, c, n)
  <2>1. c[0] = <<>> /\ \A r \in 1 .. n : c[r] = c[r - 1] \o OfFile(files[r])
    <3> HIDE DEF c
    <3>1. 0 \in 0 .. n /\ \A r \in 1 .. n : r \in 0 .. n /\ r # 0
      BY <1>1
    <3> QED
      BY <1>1, <1>6, <3>1
  <2> HIDE DEF c
  <2> QED
    BY <1>0, <1>4, <2>1 DEF SameSteps
<1>9. b[n] = c[n]
  <2> HIDE DEF c
  <2> QED
    BY <1>1, <1>8, Agree
<1>10. Gathers(b, files)
  BY <1>0, <1>1, <1>4 DEF Gathers
<1> HIDE DEF c
<1> QED
  BY <1>1, <1>3, <1>7, <1>9, <1>10

LEMMA BeforeBy ==
    ASSUME NEW files, FilesOK(files), NEW b, Gathers(b, files)
    PROVE  BeforeOf(files) = b[Len(files)] /\ b[Len(files)] \in Seq(Points)
<1>1. Len(files) \in Nat
  BY LenProperties DEF FilesOK
<1>2. PICK c \in [0 .. Len(files) -> Seq(Points)] :
          Gathers(c, files) /\ BeforeOf(files) = c[Len(files)]
  BY BeforeSteps
<1>3. SameSteps(b, c, Len(files))
  BY <1>2 DEF Gathers, SameSteps
<1>4. b[Len(files)] = c[Len(files)]
  BY <1>1, <1>3, Agree
<1> QED
  BY <1>1, <1>2, <1>4

LEMMA BeforeEmpty == BeforeOf(<<>>) = <<>>
<1>1. FilesOK(<<>>) /\ Len(<<>>) = 0
  BY DEF FilesOK
<1>2. Gathers([r \in 0 .. 0 |-> <<>>], <<>>)
  BY <1>1 DEF Gathers
<1> QED
  BY <1>1, <1>2, BeforeBy

\* One output more.
LEMMA BeforeAppend ==
    ASSUME NEW files, FilesOK(files), NEW f \in File, Len(f.pointAccepted) = Len(f.tree)
    PROVE  /\ FilesOK(Append(files, f))
           /\ BeforeOf(files) \in Seq(Points)
           /\ BeforeOf(Append(files, f)) = BeforeOf(files) \o OfFile(f)
<1>1. PICK n \in Nat : n = Len(files)
  BY LenProperties DEF FilesOK
<1>2. PICK g : g = Append(files, f)
  OBVIOUS
<1>3. /\ g \in Seq(File) /\ Len(g) = n + 1
      /\ \A r \in 1 .. n : g[r] = files[r]
      /\ g[n + 1] = f
  BY <1>1, <1>2, AppendProperties DEF FilesOK
<1>4. FilesOK(g)
  <2>1. ASSUME NEW r \in 1 .. n + 1 PROVE Len(g[r].pointAccepted) = Len(g[r].tree)
    <3>1. r \in 1 .. n \/ r = n + 1
      BY <1>1
    <3> QED
      BY <1>1, <1>3, <3>1 DEF FilesOK
  <2> QED
    BY <1>3, <2>1 DEF FilesOK
<1>5. PICK b : Gathers(b, g) /\ BeforeOf(g) = b[Len(g)]
  BY <1>4, BeforeSteps
<1>6. Gathers(b, files)
  <2>1. b[0] = <<>>
    BY <1>5 DEF Gathers
  <2>2. ASSUME NEW r \in 1 .. n PROVE b[r] = b[r - 1] \o OfFile(files[r])
    <3>1. r \in 1 .. Len(g) /\ g[r] = files[r]
      BY <1>3
    <3> QED
      BY <1>5, <3>1 DEF Gathers
  <2> QED
    BY <1>1, <2>1, <2>2 DEF Gathers
<1>7. BeforeOf(files) = b[n] /\ b[n] \in Seq(Points)
  BY <1>1, <1>6, BeforeBy
<1>8. b[n + 1] = b[n] \o OfFile(f)
  <2>1. n + 1 \in 1 .. Len(g) /\ (n + 1) - 1 = n
    BY <1>3
  <2> QED
    BY <1>3, <1>5, <2>1 DEF Gathers
<1> QED
  BY <1>2, <1>3, <1>4, <1>5, <1>7, <1>8

\* The last output is handed on.
LEMMA BeforeHandedOn ==
    ASSUME NEW files, FilesOK(files), Len(files) > 0, ~files[Len(files)].handedOn
    PROVE  LET f == files[Len(files)]
               marked == [files EXCEPT ![Len(files)].handedOn = TRUE]
           IN  /\ FilesOK(marked)
               /\ BeforeOf(files) \in Seq(Points)
               /\ BeforeOf(marked) = BeforeOf(files)
                                         \o AcceptedPoints(f.tree, f.pointAccepted, f.resumed)
<1>1. PICK n \in Nat : n = Len(files)
  BY LenProperties DEF FilesOK
<1>2. PICK g : g = [files EXCEPT ![Len(files)].handedOn = TRUE]
  OBVIOUS
<1>3. /\ g \in Seq(File) /\ Len(g) = n /\ n \in 1 .. n
      /\ \A r \in 1 .. n : r # n => g[r] = files[r]
      /\ \A r \in 1 .. n : /\ g[r].tree = files[r].tree
                           /\ g[r].pointAccepted = files[r].pointAccepted
                           /\ g[r].resumed = files[r].resumed
      /\ g[n].handedOn
  BY <1>1, <1>2, MarkedHandedOn DEF FilesOK
<1>4. FilesOK(g)
  BY <1>1, <1>3 DEF FilesOK
<1>5. PICK b \in [0 .. n -> Seq(Points)] : Gathers(b, g) /\ BeforeOf(g) = b[n]
  BY <1>3, <1>4, BeforeSteps
<1> DEFINE w == AcceptedPoints(files[n].tree, files[n].pointAccepted, files[n].resumed)
           a == [b EXCEPT ![n] = b[n - 1]]
<1>6. b[n] = b[n - 1] \o w
  <2>1. OfFile(g[n]) = w
    BY <1>3 DEF OfFile
  <2> QED
    BY <1>3, <1>5, <2>1 DEF Gathers
<1>7. b[n - 1] \in Seq(Points) /\ b[n - 1] \o <<>> = b[n - 1]
  <2>1. n - 1 \in 0 .. n
    BY <1>3
  <2> QED
    BY <1>5, <2>1, ConcatEmptySeq
<1>8. Gathers(a, files)
  <2>1. a[0] = <<>>
    BY <1>3, <1>5 DEF Gathers
  <2>2. ASSUME NEW r \in 1 .. n PROVE a[r] = a[r - 1] \o OfFile(files[r])
    <3>1. r \in 0 .. n /\ r - 1 \in 0 .. n /\ a[r - 1] = b[r - 1]
      BY <1>1, <1>5
    <3>2. CASE r = n
      <4>1. OfFile(files[r]) = <<>> /\ a[r] = b[n - 1]
        BY <1>1, <1>5, <3>1, <3>2 DEF OfFile
      <4> QED
        BY <1>7, <3>1, <3>2, <4>1
    <3>3. CASE r # n
      <4>1. g[r] = files[r]
        BY <1>3, <3>3
      <4>2. a[r] = b[r]
        BY <1>5, <3>1, <3>3
      <4>3. b[r] = b[r - 1] \o OfFile(g[r])
        <5>1. r \in 1 .. Len(g)
          BY <1>3
        <5> QED
          BY <1>5, <5>1 DEF Gathers
      <4> HIDE DEF a
      <4> QED
        BY <3>1, <4>1, <4>2, <4>3
    <3> QED
      BY <3>2, <3>3
  <2> HIDE DEF a
  <2> QED
    BY <1>1, <2>1, <2>2 DEF Gathers
<1>9. BeforeOf(files) = b[n - 1]
  <2>1. a[n] = b[n - 1]
    BY <1>3, <1>5
  <2> HIDE DEF a
  <2> QED
    BY <1>1, <1>8, <2>1, BeforeBy
<1> QED
  BY <1>1, <1>2, <1>4, <1>5, <1>6, <1>7, <1>9

-----------------------------------------------------------------------------
(***************************************************************************)
(* The queue is the end of the whole chain.                                *)
(***************************************************************************)
NowOf(e, w, x, k, r) == AcceptedPoints(e, w \o Held(x, k), r)

Written == AcceptedPoints(tree, pointAccepted, saved.iter # 0)

\* The output file as CloseFile leaves it.
OutputFile == [tree |-> tree, pointAccepted |-> pointAccepted, resumed |-> saved.iter # 0,
               handedOn |-> FALSE]

\* What the points in the queue are the end of, where the process stands.
EndInv ==
    /\ BranchMatchesTree
    /\ savedQueue = LastOf(BeforeOf(archive), Maximal)
    /\ pc \in {"start", "first", "evaluateFirst"} => queue.points = savedQueue
    /\ Open => queue.points = LastOf(BeforeOf(archive) \o AcceptedNow, Maximal)
    /\ Open /\ weight = 0 => pointAccepted = <<>> /\ saved.iter # 0
    /\ pc \in {"done", "closed"} => treeQueue = LastOf(BeforeOf(archive) \o Written, Maximal)
    /\ pc = "closed" => Len(archive) > 0 /\ archive[Len(archive)] = OutputFile

\* Of what is held back only the first entry may be an accepted point.
AcceptsFirstHeld(e, w, x, k, r) ==
    NowOf(e, w, x, k, r) = IF x > 0 /\ (Len(w) > 0 \/ ~r)
                             THEN Append(AcceptedPoints(e, w, r), e[Len(w) + 1].par)
                             ELSE AcceptedPoints(e, w, r)

LEMMA NowIs ==
    ASSUME NEW e, NEW w \in Seq(Nat), NEW x \in Nat, NEW k \in Nat, NEW r,
           Covers(e, Len(w) + 1 + k)
    PROVE  /\ AcceptedPoints(e, w, r) \in Seq(Points)
           /\ NowOf(e, w, x, k, r) \in Seq(Points)
           /\ AcceptsFirstHeld(e, w, x, k, r)
<1>1. Len(w) \in Nat
  BY LenProperties
<1>2. Covers(e, Len(w)) /\ Covers(e, Len(w) + 1) /\ e[Len(w) + 1].par \in Points
  BY <1>1 DEF Covers
<1>3. AcceptedPoints(e, w, r) \in Seq(Points)
  <2>1. PICK a \in [0 .. Len(w) -> Seq(Points)] : AcceptedPoints(e, w, r) = a[Len(w)]
    BY <1>2, AcceptedSteps
  <2>2. Len(w) \in 0 .. Len(w)
    BY <1>1
  <2> QED
    BY <2>1, <2>2
<1>4. NowOf(e, w, x, k, r) = AcceptedPoints(e, Append(w, x), r)
  BY AcceptedHeld DEF NowOf
<1>5. NowOf(e, w, x, k, r) = IF x > 0 /\ (Len(w) > 0 \/ ~r)
                               THEN Append(AcceptedPoints(e, w, r), e[Len(w) + 1].par)
                               ELSE AcceptedPoints(e, w, r)
  BY <1>2, <1>4, AcceptedAppend
<1>6. Append(AcceptedPoints(e, w, r), e[Len(w) + 1].par) \in Seq(Points)
  BY <1>2, <1>3, AppendProperties
<1> QED
  BY <1>3, <1>5, <1>6 DEF AcceptsFirstHeld

LEMMA NowIsOfHeld ==
    AcceptedNow = NowOf(tree, pointAccepted, weight, rejected, saved.iter # 0)
  BY DEF AcceptedNow, PendingEntries, NowOf, Held

\* One accepted point more.
LEMMA EndGoesOn ==
    ASSUME NEW s \in Seq(Points), NEW t \in Seq(Points), NEW p \in Points, NEW n \in Nat
    PROVE  LastOf(Append(LastOf(s \o t, n), p), n) = LastOf(s \o Append(t, p), n)
<1>1. s \o t \in Seq(Points)
  BY ConcatProperties
<1>2. Append(s \o t, p) = s \o Append(t, p)
  <2>1. <<p>> \in Seq(Points)
    OBVIOUS
  <2>2. Append(t, p) = t \o <<p>> /\ Append(s \o t, p) = (s \o t) \o <<p>>
    BY <1>1, AppendIsConcat
  <2> QED
    BY <2>1, <2>2, ConcatAssociative
<1> QED
  BY <1>1, <1>2, LastOfAppend

LEMMA TreeCovers ==
    ASSUME TypeOK, NEW n \in Nat, n <= Len(tree)
    PROVE  Covers(tree, n)
<1>1. ASSUME NEW i \in 1 .. n PROVE tree[i].par \in Points
  <2>1. tree \in Seq(Status) /\ i \in 1 .. Len(tree)
    BY LenProperties DEF TypeOK
  <2>2. tree[i] \in Status
    BY <2>1, ElementOfSeq
  <2> QED
    BY <2>2 DEF Status
<1> QED
  BY <1>1 DEF Covers

LEMMA ArchiveOK ==
    ASSUME TypeOK, BranchMatchesTree
    PROVE  FilesOK(archive) /\ BeforeOf(archive) \in Seq(Points)
<1>1. FilesOK(archive)
  BY DEF TypeOK, BranchMatchesTree, FilesOK
<1>2. PICK b \in [0 .. Len(archive) -> Seq(Points)] : BeforeOf(archive) = b[Len(archive)]
  BY <1>1, BeforeSteps
<1>3. Len(archive) \in 0 .. Len(archive)
  BY LenProperties DEF TypeOK
<1> QED
  BY <1>1, <1>2, <1>3

\* What is held back while the process runs, and beside which entries.
LEMMA RunningCovers ==
    ASSUME PlainInv, Passed = Points, Open
    PROVE  /\ pointAccepted \in Seq(Nat) /\ weight \in Nat /\ rejected \in Nat
           /\ Len(pointAccepted) \in Nat
           /\ Covers(tree, Len(pointAccepted) + 1 + rejected)
           /\ Len(pointAccepted) + 1 + rejected = Len(tree) - (IF pc = "compare" THEN 1 ELSE 0)
<1>1. /\ pointAccepted \in Seq(Nat) /\ weight \in Nat /\ rejected \in Nat /\ tree \in Seq(Status)
      /\ Len(pointAccepted) \in Nat /\ Len(tree) \in Nat
  BY LenProperties DEF PlainInv, TypeOK
<1>2. Len(tree) = Evaluated
  BY DEF PlainInv, ChainInv, TreeFollowsCounter, Open
<1>3. Len(pointAccepted) + 1 + rejected = Len(tree) - (IF pc = "compare" THEN 1 ELSE 0)
  <2>1. CASE pc = "compare"
    BY <1>1, <1>2, <2>1 DEF PlainInv, ChainInv, OneEntryPerPoint
  <2>2. CASE pc # "compare"
    BY <1>1, <1>2, <2>2 DEF PlainInv, ChainInv, OneEntryPerPoint, Open
  <2> QED
    BY <2>1, <2>2
<1>4. /\ Len(pointAccepted) + 1 + rejected \in Nat
      /\ Len(pointAccepted) + 1 + rejected <= Len(tree)
  BY <1>1, <1>3
<1>5. Covers(tree, Len(pointAccepted) + 1 + rejected)
  BY <1>4, TreeCovers DEF PlainInv
<1> QED
  BY <1>1, <1>3, <1>5

\* What a step within the process has to show.
LEMMA RunsOn ==
    ASSUME EndInv, UNCHANGED <<archive, savedQueue>>, Open',
           queue'.points = LastOf(BeforeOf(archive) \o AcceptedNow', Maximal),
           weight' = 0 => pointAccepted' = <<>> /\ saved'.iter # 0
    PROVE  EndInv'
  BY DEF EndInv, Open, BranchMatchesTree

\* The first point of a process enters the queue only where the chain is new.
LEMMA EndFirst ==
    ASSUME PlainInv, PlainInv', QueueInv, EndInv, Passed = Points, EvaluateFirstQueue
    PROVE  /\ EndInv'
           /\ AcceptedNow' = IF saved.iter = 0 THEN Append(<<>>, par) ELSE <<>>
<1>1. /\ pc = "evaluateFirst" /\ pc' = "loop" /\ UpdateModel
      /\ UNCHANGED <<weight, rejected, pointAccepted, saved, archive, savedQueue>>
      /\ queue' = IF iter' = 1 THEN UpdateQueue(queue, par) ELSE queue
  BY DEF EvaluateFirstQueue, EvaluateFirst, PushesFirstPoint, disk
<1>2. /\ tree = <<>> /\ pointAccepted = <<>> /\ rejected = 0 /\ iter = saved.iter
      /\ weight + Repeated = 1 /\ saved.iter \in Nat /\ weight \in Nat /\ par \in Points
      /\ iter' = iter + 1
  BY <1>1 DEF PlainInv, ChainInv, NothingEvaluated, WeightInv, TypeOK, UpdateModel, Status
<1>3. PICK B \in Seq(Points) : B = BeforeOf(archive)
  BY ArchiveOK DEF PlainInv, EndInv
<1>4. queue.points = LastOf(B, Maximal) /\ Maximal \in Nat /\ QueueOK(queue)
  BY <1>1, <1>3, QueueAssumption DEF EndInv, QueueInv, QueuesAreShort
<1>5. tree'[1].par = par
  <2>1. tree'[Len(tree) + 1].par = par /\ Len(tree) = 0
    BY <1>1, <1>2, FillTreeAppends DEF PlainInv
  <2> QED
    BY <2>1
<1>6. /\ <<>> \in Seq(Nat) /\ Len(<<>>) = 0 /\ 0 \in Nat
      /\ Covers(tree', Len(<<>>) + 1 + 0)
  <2>1. Covers(tree', 1)
    BY <1>2, <1>5 DEF Covers
  <2> QED
    BY <2>1
<1>7. AcceptedNow' = NowOf(tree', <<>>, weight, 0, saved.iter # 0)
  BY <1>1, <1>2 DEF AcceptedNow, PendingEntries, NowOf, Held
<1>8. AcceptedPoints(tree', <<>>, saved.iter # 0) = <<>>
  BY AcceptedEmpty
<1>9. Open'
  BY <1>1 DEF Open
<1>10. CASE saved.iter = 0
  <2>1. weight = 1
    BY <1>2, <1>10 DEF Repeated
  <2>0. PICK none \in Seq(Points) : none = <<>> /\ B \o none = B
    <3>1. <<>> \in Seq(Points) /\ B \o <<>> = B
      BY ConcatEmptySeq
    <3> QED
      BY <3>1
  <2>2. AcceptedNow' = Append(none, par)
    <3>1. AcceptsFirstHeld(tree', <<>>, weight, 0, saved.iter # 0)
      BY <1>2, <1>6, NowIs
    <3>2. AcceptedNow' = Append(AcceptedPoints(tree', <<>>, saved.iter # 0),
                               tree'[Len(<<>>) + 1].par)
      BY <1>6, <1>7, <1>10, <2>1, <3>1 DEF AcceptsFirstHeld
    <3>3. AcceptedPoints(tree', <<>>, saved.iter # 0) = none /\ tree'[Len(<<>>) + 1].par = par
      BY <1>5, <1>6, <1>8, <2>0
    <3> QED
      BY <3>2, <3>3
  <2>3. queue'.points = LastOf(Append(queue.points, par), Maximal)
    BY <1>1, <1>2, <1>4, <1>10, UpdateKeeps
  <2>4. queue'.points = LastOf(B \o Append(none, par), Maximal)
    <3>1. queue'.points = LastOf(Append(LastOf(B \o none, Maximal), par), Maximal)
      BY <1>4, <2>0, <2>3
    <3> QED
      BY <1>2, <1>4, <2>0, <3>1, EndGoesOn
  <2> QED
    BY <1>1, <1>3, <1>9, <1>10, <2>0, <2>1, <2>2, <2>4, RunsOn
<1>11. CASE saved.iter # 0
  <2>1. weight = 0
    BY <1>2, <1>11 DEF Repeated
  <2>2. AcceptedNow' = <<>>
    <3>1. AcceptsFirstHeld(tree', <<>>, weight, 0, saved.iter # 0)
      BY <1>2, <1>6, NowIs
    <3> QED
      BY <1>6, <1>7, <1>8, <2>1, <3>1 DEF AcceptsFirstHeld
  <2>3. queue' = queue
    BY <1>1, <1>2, <1>11
  <2>4. B \o <<>> = B
    BY ConcatEmptySeq
  <2> QED
    BY <1>1, <1>2, <1>3, <1>4, <1>9, <1>11, <2>2, <2>3, <2>4, RunsOn
<1> QED
  BY <1>10, <1>11

\* An evaluated point is not yet accepted.
LEMMA EndEvaluate ==
    ASSUME PlainInv, PlainInv', QueueInv, EndInv, Passed = Points, Evaluate,
           UNCHANGED queueVars
    PROVE  EndInv' /\ AcceptedNow' = AcceptedNow
<1>1. /\ pc = "evaluate" /\ pc' = "compare" /\ UpdateModel
      /\ UNCHANGED <<weight, rejected, pointAccepted, saved, archive, savedQueue, queue>>
  BY DEF Evaluate, disk, queueVars
<1>2. Open /\ Open'
  BY <1>1 DEF Open
<1>3. PICK h \in Seq(Nat) : h = PendingEntries /\ Len(h) = rejected + 1
  BY PendingProperties DEF PendingEntries, PlainInv, TypeOK
<1>4. PICK w \in Seq(Nat) : w = pointAccepted \o h /\ Len(w) = Len(pointAccepted) + Len(h)
  BY ConcatProperties DEF PlainInv, TypeOK
<1>5. Covers(tree, Len(w)) /\ Len(w) = Len(tree)
  <2>1. /\ Len(w) = Len(pointAccepted) + 1 + rejected
        /\ Len(pointAccepted) + 1 + rejected = Len(tree)
        /\ Covers(tree, Len(pointAccepted) + 1 + rejected)
    <3>1. /\ Len(pointAccepted) \in Nat /\ rejected \in Nat /\ Len(tree) \in Nat
          /\ Covers(tree, Len(pointAccepted) + 1 + rejected)
          /\ Len(pointAccepted) + 1 + rejected = Len(tree) - (IF pc = "compare" THEN 1 ELSE 0)
      BY <1>2, RunningCovers, LenProperties DEF PlainInv, TypeOK
    <3> QED
      BY <1>1, <1>3, <1>4, <3>1
  <2> QED
    BY <2>1
<1>6. \A i \in 1 .. Len(w) : tree'[i] = tree[i]
  BY <1>1, <1>5, FillTreeAppends DEF PlainInv
<1>7. AcceptedPoints(tree', w, saved.iter # 0) = AcceptedPoints(tree, w, saved.iter # 0)
  BY <1>5, <1>6, AcceptedSame
<1>8. AcceptedNow' = AcceptedNow
  BY <1>1, <1>3, <1>4, <1>7 DEF AcceptedNow, PendingEntries
<1> QED
  BY <1>1, <1>2, <1>8, RunsOn DEF EndInv

\* The point that is accepted is the next of the chain.
LEMMA EndAccept ==
    ASSUME PlainInv, PlainInv', QueueInv, EndInv, Passed = Points, AcceptQueue
    PROVE  /\ EndInv'
           /\ AcceptedNow \in Seq(Points)
           /\ AcceptedNow' = Append(AcceptedNow, par)
<1>1. /\ pc = "compare" /\ pc' = "loop" /\ FillBranchPointAccepted
      /\ weight' = 1 /\ rejected' = 0 /\ queue' = UpdateQueue(queue, par)
      /\ UNCHANGED <<tree, saved, archive, savedQueue>>
  BY DEF AcceptQueue, Accept, StartCounting, disk
<1>2. Open /\ Open'
  BY <1>1 DEF Open
<1>3. /\ pointAccepted \in Seq(Nat) /\ weight \in Nat /\ rejected \in Nat /\ par \in Points
      /\ saved.iter \in Nat
      /\ Len(pointAccepted) \in Nat /\ Len(tree) \in Nat
      /\ Covers(tree, Len(pointAccepted) + 1 + rejected)
      /\ Len(pointAccepted) + 1 + rejected + 1 = Len(tree)
  BY <1>1, <1>2, RunningCovers, LenProperties DEF PlainInv, TypeOK, Status
<1>4. PICK v \in Seq(Nat) : /\ v = pointAccepted'
                            /\ v = pointAccepted \o Held(weight, rejected)
                            /\ Len(v) = Len(pointAccepted) + 1 + rejected
  BY <1>1, FillLength DEF FillBranchPointAccepted, PendingEntries, Held, PlainInv
<1>5. PICK B \in Seq(Points) : B = BeforeOf(archive)
  BY ArchiveOK DEF PlainInv, EndInv
<1>6. PICK t \in Seq(Points) : t = AcceptedNow
  BY <1>3, NowIs, NowIsOfHeld
<1>7. AcceptedPoints(tree, v, saved.iter # 0) = t
  BY <1>4, <1>6, NowIsOfHeld DEF NowOf
<1>8. AcceptedNow' = Append(t, par)
  <2>1. AcceptedNow' = NowOf(tree, v, 1, 0, saved.iter # 0)
    BY <1>1, <1>4 DEF AcceptedNow, PendingEntries, NowOf, Held
  <2>2. Covers(tree, Len(v) + 1 + 0) /\ Len(v) + 1 = Len(tree) /\ Len(v) > 0
    <3>1. Len(v) + 1 + 0 = Len(tree) /\ Len(v) + 1 + 0 \in Nat
      BY <1>3, <1>4
    <3>2. Covers(tree, Len(v) + 1 + 0)
      BY <3>1, TreeCovers DEF PlainInv
    <3> QED
      BY <1>3, <1>4, <3>1, <3>2
  <2>3. 1 \in Nat /\ 0 \in Nat /\ 1 > 0
    OBVIOUS
  <2>4. AcceptedNow' = Append(AcceptedPoints(tree, v, saved.iter # 0), tree[Len(v) + 1].par)
    <3>1. AcceptsFirstHeld(tree, v, 1, 0, saved.iter # 0)
      BY <2>2, <2>3, NowIs
    <3> QED
      BY <2>1, <2>2, <2>3, <3>1 DEF AcceptsFirstHeld
  <2>5. tree[Len(tree)].par = par
    BY <1>1 DEF PlainInv, ChainInv, TreeFollowsCounter
  <2> QED
    BY <1>7, <2>2, <2>4, <2>5
<1>9. queue'.points = LastOf(Append(LastOf(B \o t, Maximal), par), Maximal)
  <2>1. QueueOK(queue) /\ queue.points = LastOf(B \o t, Maximal)
    BY <1>1, <1>2, <1>5, <1>6 DEF QueueInv, QueuesAreShort, EndInv
  <2> QED
    BY <1>1, <1>3, <2>1, UpdateKeeps
<1>10. queue'.points = LastOf(B \o Append(t, par), Maximal)
  BY <1>3, <1>9, EndGoesOn, QueueAssumption
<1> QED
  BY <1>1, <1>2, <1>5, <1>6, <1>8, <1>10, RunsOn

\* A rejected point weighs on the entry that is held back.
LEMMA EndReject ==
    ASSUME PlainInv, PlainInv', QueueInv, EndInv, Passed = Points, Reject,
           UNCHANGED queueVars
    PROVE  EndInv' /\ AcceptedNow' = AcceptedNow
<1>1. /\ pc = "compare" /\ pc' = "loop" /\ weight' = weight + 1 /\ rejected' = rejected + 1
      /\ UNCHANGED <<tree, pointAccepted, saved, archive, savedQueue, queue>>
  BY DEF Reject, CountRejected, disk, output, queueVars
<1>2. Open /\ Open'
  BY <1>1 DEF Open
<1>3. /\ pointAccepted \in Seq(Nat) /\ weight \in Nat /\ rejected \in Nat /\ saved.iter \in Nat
      /\ Len(pointAccepted) \in Nat /\ Len(tree) \in Nat
      /\ Covers(tree, Len(pointAccepted) + 1 + rejected)
      /\ Len(pointAccepted) + 1 + rejected + 1 = Len(tree)
  BY <1>1, <1>2, RunningCovers, LenProperties DEF PlainInv, TypeOK, Status
<1>4. Covers(tree, Len(pointAccepted) + 1 + (rejected + 1))
  <2>1. /\ Len(pointAccepted) + 1 + (rejected + 1) = Len(tree)
        /\ Len(pointAccepted) + 1 + (rejected + 1) \in Nat
    BY <1>3
  <2> QED
    BY <2>1, TreeCovers DEF PlainInv
<1>5. AcceptedNow' = NowOf(tree, pointAccepted, weight + 1, rejected + 1, saved.iter # 0)
  BY <1>1 DEF AcceptedNow, PendingEntries, NowOf, Held
<1>6. weight + 1 \in Nat /\ rejected + 1 \in Nat /\ weight + 1 > 0
  BY <1>3
<1>7. weight > 0 \/ (Len(pointAccepted) = 0 /\ saved.iter # 0)
  BY <1>2, <1>3 DEF EndInv
<1>8. AcceptedNow = NowOf(tree, pointAccepted, weight, rejected, saved.iter # 0)
  BY NowIsOfHeld
<1>9. /\ AcceptsFirstHeld(tree, pointAccepted, weight, rejected, saved.iter # 0)
      /\ AcceptsFirstHeld(tree, pointAccepted, weight + 1, rejected + 1, saved.iter # 0)
  BY <1>3, <1>4, <1>6, NowIs
<1>10. AcceptedNow' = AcceptedNow
  BY <1>3, <1>5, <1>6, <1>7, <1>8, <1>9 DEF AcceptsFirstHeld
<1>11. weight' # 0
  BY <1>1, <1>6
<1> QED
  BY <1>1, <1>2, <1>10, <1>11, RunsOn DEF EndInv

\* The process ends: the queue goes into the property tree and the weights that
\* were held back beside the entries.
LEMMA EndFinish ==
    ASSUME PlainInv, PlainInv', QueueInv, EndInv, Passed = Points, FinishQueue
    PROVE  EndInv' /\ Written' = AcceptedNow
<1>1. /\ pc = "loop" /\ pc' = "done" /\ FillBranchPointAccepted
      /\ treeQueue' = queue.points
      /\ UNCHANGED <<tree, saved, archive, savedQueue>>
  BY DEF FinishQueue, Finish, disk
<1>2. Open
  BY <1>1 DEF Open
<1>3. Written' = AcceptedNow
  BY <1>1 DEF Written, AcceptedNow, FillBranchPointAccepted
<1> QED
  BY <1>1, <1>2, <1>3 DEF EndInv, BranchMatchesTree, Open

\* The output joins the others, and is no part of the chain yet.
LEMMA EndClose ==
    ASSUME PlainInv, PlainInv', QueueInv, EndInv, Passed = Points, CloseFile,
           UNCHANGED queueVars
    PROVE  EndInv' /\ BeforeOf(archive') = BeforeOf(archive) /\ Written' = Written
<1>0. PICK f : f = OutputFile
  OBVIOUS
<1>1. /\ pc = "done" /\ pc' = "closed" /\ archive' = Append(archive, f)
      /\ UNCHANGED <<tree, pointAccepted, saved, treeQueue, savedQueue>>
  BY <1>0 DEF CloseFile, OutputFile, output, queueVars
<1>2. BranchMatchesTree'
  <2>1. [Next]_vars
    BY DEF Next
  <2> QED
    BY <2>1, MatchKept DEF PlainInv, EndInv
<1>3. f \in File /\ Len(f.pointAccepted) = Len(f.tree)
  <2>1. f \in File
    BY <1>0 DEF PlainInv, TypeOK, File, OutputFile
  <2>2. Len(pointAccepted) = Len(tree)
    BY <1>1 DEF PlainInv, ChainInv, OneEntryPerPoint, TreeFollowsCounter
  <2> QED
    BY <1>0, <2>1, <2>2 DEF OutputFile
<1>4. FilesOK(archive)
  BY ArchiveOK DEF PlainInv, EndInv
<1>5. OfFile(f) = <<>>
  BY <1>0 DEF OfFile, OutputFile
<1>6. BeforeOf(archive') = BeforeOf(archive)
  <2>1. BeforeOf(archive) \in Seq(Points) /\ BeforeOf(archive') = BeforeOf(archive) \o <<>>
    BY <1>1, <1>3, <1>4, <1>5, BeforeAppend
  <2> QED
    BY <2>1, ConcatEmptySeq
<1>7. Len(archive') > 0 /\ archive'[Len(archive')] = f
  <2>1. archive \in Seq(File) /\ Len(archive) \in Nat
    BY LenProperties DEF PlainInv, TypeOK
  <2>2. Len(archive') = Len(archive) + 1 /\ archive'[Len(archive) + 1] = f
    BY <1>1, <1>3, <2>1, AppendProperties
  <2> QED
    BY <2>1, <2>2
<1>8. OutputFile' = f /\ Written' = Written
  BY <1>0, <1>1 DEF OutputFile, Written
<1> QED
  BY <1>1, <1>2, <1>6, <1>7, <1>8 DEF EndInv, Open

\* The output becomes part of the chain, and the queue waits for the next
\* process.
LEMMA EndHandOver ==
    ASSUME PlainInv, PlainInv', QueueInv, EndInv, Passed = Points, HandOverQueue
    PROVE  EndInv' /\ BeforeOf(archive') = BeforeOf(archive) \o Written
<1>1. /\ pc = "closed" /\ pc' = "off" /\ savedQueue' = treeQueue
      /\ archive' = [archive EXCEPT ![Len(archive)].handedOn = TRUE]
  BY DEF HandOverQueue, HandOver
<1>2. BranchMatchesTree'
  <2>1. [Next]_vars
    BY DEF HandOverQueue, Next
  <2> QED
    BY <2>1, MatchKept DEF PlainInv, EndInv
<1>3. Len(archive) > 0 /\ archive[Len(archive)] = OutputFile
  BY <1>1 DEF EndInv
<1>4. FilesOK(archive)
  BY ArchiveOK DEF PlainInv, EndInv
<1>5. ~archive[Len(archive)].handedOn
  BY <1>3 DEF OutputFile
<1>6. BeforeOf(archive') = BeforeOf(archive) \o
          AcceptedPoints(archive[Len(archive)].tree, archive[Len(archive)].pointAccepted,
                         archive[Len(archive)].resumed)
  BY <1>1, <1>3, <1>4, <1>5, BeforeHandedOn
<1>7. BeforeOf(archive') = BeforeOf(archive) \o Written
  BY <1>3, <1>6 DEF OutputFile, Written
<1> QED
  BY <1>1, <1>2, <1>7 DEF EndInv, Open

\* Every step keeps the queue at the end of the chain.
LEMMA EndKept ==
    ASSUME Passed = Points
    PROVE  PlainInv /\ PlainInv' /\ QueueInv /\ EndInv /\ [HNext]_hvars => EndInv'
<1> SUFFICES ASSUME PlainInv, PlainInv', QueueInv, EndInv, [HNext]_hvars
             PROVE  EndInv'
  OBVIOUS
<1> USE DEF model, memory, output, disk
<1>1. ASSUME NEW n \in RunLengths, ConstructQueue(n)
      PROVE  EndInv'
  <2>1. /\ pc' = "start" /\ queue' = PopulateQueue /\ UNCHANGED <<archive, savedQueue>>
    BY <1>1 DEF ConstructQueue, Construct
  <2>2. PopulateQueue.points = savedQueue
    BY Populated DEF QueueInv, QueuesAreShort
  <2> QED
    BY <2>1, <2>2 DEF EndInv, BranchMatchesTree, Open
<1>2. CASE RefuseCounter
  <2>1. pc = "off" /\ UNCHANGED <<pc, archive, savedQueue>>
    BY <1>2 DEF RefuseCounter, vars
  <2> QED
    BY <2>1 DEF EndInv, BranchMatchesTree, Open
<1>3. ASSUME NEW p \in Points, DrawFirstQueue(p)
      PROVE  EndInv'
  <2>1. /\ pc = "first" /\ pc' \in {"first", "evaluateFirst"}
        /\ UNCHANGED <<queue, archive, savedQueue>>
    BY <1>3 DEF DrawFirstQueue, DrawFirst, UpdateParameterValues
  <2> QED
    BY <2>1 DEF EndInv, BranchMatchesTree, Open
<1>4. CASE EvaluateFirstQueue
  BY <1>4, EndFirst
<1>5. ASSUME NEW p \in Points, DrawQueue(p)
      PROVE  EndInv'
  <2>1. /\ pc = "loop" /\ pc' \in {"loop", "evaluate"}
        /\ UNCHANGED <<queue, archive, savedQueue, tree, pointAccepted, weight, rejected, saved>>
    BY <1>5 DEF DrawQueue, Draw, UpdateParameterValues
  <2>2. AcceptedNow' = AcceptedNow /\ Open /\ Open'
    BY <2>1 DEF AcceptedNow, PendingEntries, Open
  <2> QED
    BY <2>1, <2>2, RunsOn DEF EndInv
<1>6. CASE AcceptQueue
  BY <1>6, EndAccept
<1>7. CASE FinishQueue
  BY <1>7, EndFinish
<1>8. CASE HandOverQueue
  BY <1>8, EndHandOver
<1>9. CASE Unqueued /\ UNCHANGED queueVars
  <2>1. CASE BeginExecute
    <3>1. /\ pc = "start" /\ pc' = "first" /\ UNCHANGED <<queue, archive, savedQueue>>
      BY <1>9, <2>1 DEF BeginExecute, queueVars
    <3> QED
      BY <3>1 DEF EndInv, BranchMatchesTree, Open
  <2>2. CASE Evaluate
    BY <1>9, <2>2, EndEvaluate
  <2>3. CASE Reject
    BY <1>9, <2>3, EndReject
  <2>4. CASE Crash
    <3>1. pc' = "off" /\ UNCHANGED <<archive, savedQueue>>
      BY <1>9, <2>4 DEF Crash, queueVars
    <3> QED
      BY <3>1 DEF EndInv, BranchMatchesTree, Open
  <2>5. CASE CloseFile
    BY <1>9, <2>5, EndClose
  <2> QED
    BY <1>9, <2>1, <2>2, <2>3, <2>4, <2>5 DEF Unqueued
<1>10. ASSUME NEW n \in 0 .. saved.iter, EditCounter(n)
       PROVE  EndInv'
  <2>1. pc = "off" /\ UNCHANGED <<pc, archive, savedQueue>>
    BY <1>10 DEF EditCounter
  <2> QED
    BY <2>1 DEF EndInv, BranchMatchesTree, Open
<1>11. CASE UNCHANGED hvars
  <2>1. AcceptedNow' = AcceptedNow /\ Written' = Written /\ OutputFile' = OutputFile
    BY <1>11 DEF hvars, vars, AcceptedNow, Written, OutputFile, PendingEntries
  <2> QED
    BY <1>11, <2>1 DEF hvars, vars, queueVars, EndInv, BranchMatchesTree, Open
<1>12. CASE Terminated /\ UNCHANGED queueVars
  BY <1>11, <1>12 DEF Terminated, hvars
<1> QED
  BY <1>1, <1>2, <1>3, <1>4, <1>5, <1>6, <1>7, <1>8, <1>9, <1>10, <1>11, <1>12 DEF HNext

-----------------------------------------------------------------------------
(***************************************************************************)
(* A process that nothing moves begins at the last point of the chain and  *)
(* stays at the last point it accepted.                                    *)
(***************************************************************************)
LastInv ==
    Continues =>
        /\ saved.iter # 0 => saved.par = Last(BeforeOf(archive))
        /\ pc \in {"start", "evaluateFirst"} => par = saved.par
        /\ pc = "first" => parLast = saved.par
        /\ Open => parLast = Last(BeforeOf(archive) \o AcceptedNow)
        /\ pc \in {"done", "closed"} => par = Last(BeforeOf(archive) \o Written)

\* The last point of a chain that has grown.
LEMMA LastGrown ==
    ASSUME NEW s \in Seq(Points), NEW t \in Seq(Points), NEW p \in Points
    PROVE  Last(s \o Append(t, p)) = p
<1>1. PICK v \in Seq(Points) : v = Append(t, p) /\ Len(v) = Len(t) + 1 /\ v[Len(t) + 1] = p
  <2>1. /\ Append(t, p) \in Seq(Points) /\ Len(Append(t, p)) = Len(t) + 1
        /\ Append(t, p)[Len(t) + 1] = p
    BY AppendProperties
  <2> QED
    BY <2>1
<1>2. Len(s) \in Nat /\ Len(t) \in Nat
  BY LenProperties
<1>3. PICK u : u = s \o v
  OBVIOUS
<1>4. Len(u) = Len(s) + (Len(t) + 1) /\ u[Len(s) + (Len(t) + 1)] = p
  <2>1. /\ Len(u) = Len(s) + (Len(t) + 1)
        /\ \A i \in 1 .. Len(s) + (Len(t) + 1) :
               u[i] = IF i <= Len(s) THEN s[i] ELSE v[i - Len(s)]
    <3>1. Len(s \o v) = Len(s) + Len(v)
          /\ \A i \in 1 .. Len(s) + Len(v) :
                 (s \o v)[i] = IF i <= Len(s) THEN s[i] ELSE v[i - Len(s)]
      BY ConcatProperties
    <3> QED
      BY <1>1, <1>3, <3>1
  <2>2. PICK i \in 1 .. Len(s) + (Len(t) + 1) : i = Len(s) + (Len(t) + 1)
    BY <1>2
  <2>3. ~(i <= Len(s)) /\ i - Len(s) = Len(t) + 1
    BY <1>2, <2>2
  <2> QED
    BY <1>1, <2>1, <2>2, <2>3
<1> QED
  BY <1>1, <1>3, <1>4 DEF Last

\* Every step keeps the process at the last point of the chain.
LEMMA LastKept ==
    ASSUME Passed = Points
    PROVE  PlainInv /\ PlainInv' /\ QueueInv /\ EndInv /\ LastInv /\ [HNext]_hvars => LastInv'
<1> SUFFICES ASSUME PlainInv, PlainInv', QueueInv, EndInv, LastInv, [HNext]_hvars,
                    steering' = steering => Continues
             PROVE  LastInv'
  <2>1. steering' = steering /\ ~Continues => LastInv'
    BY DEF LastInv, Continues, Given, FirstPointMoves
  <2> QED
    BY <2>1
<1> USE DEF model, memory, output, disk
<1>0. /\ BeforeOf(archive) \in Seq(Points) /\ par \in Points /\ saved \in Status
      /\ saved.iter \in Nat
  BY ArchiveOK DEF PlainInv, EndInv, TypeOK, Status
<1>1. ASSUME NEW n \in RunLengths, ConstructQueue(n)
      PROVE  LastInv'
  <2>1. /\ pc' = "start" /\ par' = Given(saved.par) /\ UNCHANGED <<archive, saved, steering>>
    BY <1>1 DEF ConstructQueue, Construct
  <2>2. Given(saved.par) = saved.par
    BY <1>0, <2>1 DEF Continues, Status
  <2> QED
    BY <2>1, <2>2 DEF LastInv, Open
<1>2. ASSUME pc = "off", UNCHANGED <<pc, archive, steering, saved>>
      PROVE  LastInv'
  BY <1>2 DEF LastInv, Open
<1>3. ASSUME NEW p \in Points, DrawFirstQueue(p)
      PROVE  LastInv'
  <2>1. /\ pc = "first" /\ pc' \in {"first", "evaluateFirst"} /\ par' = p
        /\ p \in Proposals(FirstPointMoves)
        /\ UNCHANGED <<parLast, archive, saved, steering>>
    BY <1>3 DEF DrawFirstQueue, DrawFirst
  <2>2. p = parLast
    BY <2>1 DEF Proposals, Continues
  <2> QED
    BY <2>1, <2>2 DEF LastInv, Open
<1>4. CASE EvaluateFirstQueue
  <2>1. /\ pc = "evaluateFirst" /\ pc' = "loop" /\ parLast' = par
        /\ UNCHANGED <<archive, saved, steering>>
    BY <1>4 DEF EvaluateFirstQueue, EvaluateFirst
  <2>2. AcceptedNow' = IF saved.iter = 0 THEN Append(<<>>, par) ELSE <<>>
    BY <1>4, EndFirst
  <2>3. PICK B \in Seq(Points) : B = BeforeOf(archive) /\ B \o <<>> = B
    BY <1>0, ConcatEmptySeq
  <2>4. Last(BeforeOf(archive) \o AcceptedNow') = par
    <3>1. CASE saved.iter = 0
      <4>1. PICK none \in Seq(Points) : none = <<>>
        <5>1. <<>> \in Seq(Points)
          OBVIOUS
        <5> QED
          BY <5>1
      <4>2. AcceptedNow' = Append(none, par)
        BY <2>2, <3>1, <4>1
      <4> QED
        BY <1>0, <2>3, <4>2, LastGrown
    <3>2. CASE saved.iter # 0
      <4>1. AcceptedNow' = <<>>
        BY <2>2, <3>2
      <4>2. saved.par = Last(B) /\ par = saved.par
        BY <2>1, <2>3, <3>2 DEF LastInv
      <4> QED
        BY <2>3, <4>1, <4>2
    <3> QED
      BY <3>1, <3>2
  <2> QED
    BY <2>1, <2>4 DEF LastInv, Open
<1>5. ASSUME Open, Open', UNCHANGED <<parLast, archive, saved, steering>>,
             AcceptedNow' = AcceptedNow
      PROVE  LastInv'
  BY <1>5 DEF LastInv, Open
<1>6. ASSUME NEW p \in Points, DrawQueue(p)
      PROVE  LastInv'
  <2>1. /\ pc = "loop" /\ pc' \in {"loop", "evaluate"}
        /\ UNCHANGED <<parLast, archive, steering, tree, pointAccepted, weight, rejected, saved>>
    BY <1>6 DEF DrawQueue, Draw
  <2>2. AcceptedNow' = AcceptedNow /\ Open /\ Open'
    BY <2>1 DEF AcceptedNow, PendingEntries, Open
  <2> QED
    BY <1>5, <2>1, <2>2
<1>7. CASE AcceptQueue
  <2>1. /\ pc = "compare" /\ pc' = "loop" /\ parLast' = par
        /\ UNCHANGED <<archive, saved, steering>>
    BY <1>7 DEF AcceptQueue, Accept, Remember
  <2>2. PICK t \in Seq(Points) : t = AcceptedNow
    BY <1>7, EndAccept
  <2>3. AcceptedNow' = Append(t, par)
    BY <1>7, <2>2, EndAccept
  <2>4. Last(BeforeOf(archive) \o Append(t, par)) = par
    BY <1>0, LastGrown
  <2> QED
    BY <2>1, <2>3, <2>4 DEF LastInv, Open
<1>8. CASE FinishQueue
  <2>1. /\ pc = "loop" /\ pc' = "done" /\ par' = parLast
        /\ UNCHANGED <<archive, saved, steering>>
    BY <1>8 DEF FinishQueue, Finish, FinalizeStatus
  <2>2. Written' = AcceptedNow
    BY <1>8, EndFinish
  <2> QED
    BY <2>1, <2>2 DEF LastInv, Open
<1>9. CASE HandOverQueue
  <2>1. /\ pc = "closed" /\ pc' = "off" /\ saved'.par = par /\ UNCHANGED steering
    BY <1>9 DEF HandOverQueue, HandOver, UpdatePropertyTree
  <2>2. BeforeOf(archive') = BeforeOf(archive) \o Written
    BY <1>9, EndHandOver
  <2> QED
    BY <2>1, <2>2 DEF LastInv, Open
<1>10. CASE Unqueued /\ UNCHANGED queueVars
  <2>1. CASE BeginExecute
    <3>1. /\ pc = "start" /\ pc' = "first" /\ parLast' = par
          /\ UNCHANGED <<archive, saved, steering>>
      BY <2>1 DEF BeginExecute, Remember
    <3> QED
      BY <3>1 DEF LastInv, Open
  <2>2. CASE Evaluate
    <3>1. /\ pc = "evaluate" /\ pc' = "compare"
          /\ UNCHANGED <<parLast, archive, saved, steering>>
      BY <2>2 DEF Evaluate
    <3>2. AcceptedNow' = AcceptedNow /\ Open /\ Open'
      BY <1>10, <2>2, <3>1, EndEvaluate DEF Open
    <3> QED
      BY <1>5, <3>1, <3>2
  <2>3. CASE Reject
    <3>1. /\ pc = "compare" /\ pc' = "loop"
          /\ UNCHANGED <<parLast, archive, saved, steering>>
      BY <2>3 DEF Reject
    <3>2. AcceptedNow' = AcceptedNow /\ Open /\ Open'
      BY <1>10, <2>3, <3>1, EndReject DEF Open
    <3> QED
      BY <1>5, <3>1, <3>2
  <2>4. CASE CloseFile
    <3>1. /\ pc = "done" /\ pc' = "closed" /\ UNCHANGED <<par, saved, steering>>
      BY <2>4 DEF CloseFile
    <3>2. BeforeOf(archive') = BeforeOf(archive) /\ Written' = Written
      BY <1>10, <2>4, EndClose
    <3> QED
      BY <3>1, <3>2 DEF LastInv, Open
  <2>5. CASE Crash
    <3>1. pc' = "off" /\ UNCHANGED <<archive, saved, steering>>
      BY <2>5 DEF Crash
    <3> QED
      BY <3>1 DEF LastInv, Open
  <2> QED
    BY <1>10, <2>1, <2>2, <2>3, <2>4, <2>5 DEF Unqueued
<1>11. ASSUME NEW n \in 0 .. saved.iter, EditCounter(n)
       PROVE  LastInv'
  <2>1. /\ pc = "off" /\ n < saved.iter /\ saved' = [saved EXCEPT !.iter = n]
        /\ UNCHANGED <<pc, archive, steering>>
    BY <1>11 DEF EditCounter
  <2>2. saved'.par = saved.par /\ saved.iter # 0
    BY <1>0, <2>1 DEF Status
  <2> QED
    BY <2>1, <2>2 DEF LastInv, Open
<1>12. CASE UNCHANGED hvars
  <2>1. /\ UNCHANGED <<pc, par, parLast, archive, saved, steering>>
        /\ AcceptedNow' = AcceptedNow /\ Written' = Written
    BY <1>12 DEF hvars, vars, AcceptedNow, Written, PendingEntries
  <2> QED
    BY <2>1 DEF LastInv, Open
<1>13. CASE RefuseCounter
  BY <1>2, <1>13 DEF RefuseCounter, vars
<1>14. CASE Terminated /\ UNCHANGED queueVars
  BY <1>12, <1>14 DEF Terminated, hvars
<1> QED
  BY <1>1, <1>3, <1>4, <1>6, <1>7, <1>8, <1>9, <1>10, <1>11, <1>12, <1>13, <1>14 DEF HNext

\* Where no point is cut and no step or <Parameter> moves the first point, the
\* queue of a running sampler is the end of the whole chain over all its
\* processes, wherever one of them died, between the closing of its output and
\* the writing of its interface file too, and wherever the counter was set back;
\* so is the queue the next process is given, with the last point of that chain
\* to begin at.
THEOREM QueuesAreEndOfChain ==
    ASSUME Passed = Points
    PROVE  HSpec => []QueueIsEndOfChain
<1>1. HInit => EndInv
  <2> SUFFICES ASSUME HInit PROVE EndInv
    OBVIOUS
  <2>1. pc = "off" /\ archive = <<>> /\ savedQueue = <<>>
    BY DEF HInit, Init
  <2>2. LastOf(BeforeOf(archive), Maximal) = <<>>
    <3>1. PICK none \in Seq(Points) : none = <<>> /\ Len(none) <= Maximal
      <4>1. <<>> \in Seq(Points) /\ Len(<<>>) = 0 /\ 0 <= Maximal
        BY QueueAssumption
      <4> QED
        BY <4>1
    <3>2. LastOf(none, Maximal) = none
      BY <3>1, LastOfShort, QueueAssumption
    <3> QED
      BY <2>1, <3>1, <3>2, BeforeEmpty
  <2> QED
    BY <2>1, <2>2 DEF EndInv, BranchMatchesTree, Open
<1>2. HInit => LastInv
  BY DEF HInit, Init, LastInv, Open
<1>3. PlainInv /\ QueueInv /\ EndInv /\ [HNext]_hvars => EndInv'
  BY PlainKept, EndKept
<1>4. PlainInv /\ QueueInv /\ EndInv /\ LastInv /\ [HNext]_hvars => LastInv'
  BY PlainKept, LastKept
<1>5. EndInv /\ LastInv => QueueIsEndOfChain
  BY DEF EndInv, LastInv, QueueIsEndOfChain, AcceptedBefore, Open
<1> QED
  BY <1>1, <1>2, <1>3, <1>4, <1>5, PlainChain, Queued, PTL DEF HSpec
=============================================================================
