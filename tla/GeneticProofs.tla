--------------------------- MODULE GeneticProofs ---------------------------
(***************************************************************************)
(* The genetic algorithm never loses the fittest point of its population,  *)
(* for any population, any genes and any chi2.                             *)
(***************************************************************************)
EXTENDS GeneticAlgorithm, TLAPS

USE OptimizerAssumption, GeneticAssumption

\* Where UpdateModel is, and that no child takes the first place.
Stages ==
    /\ stage = "idle" <=> pc # "update"
    /\ stage = "mutate" => turn >= 2
    /\ pc = "loop" => updated

\* Whoever says that the chi2 is up to date has it; the fittest always has,
\* after their turn of the evaluation the others too.
Honest ==
    /\ \A i \in Positions : population[i].updatedChi2 => population[i].of = population[i].genes
    /\ population[1].updatedChi2
    /\ stage = "evaluate" => \A i \in Positions : i < turn => population[i].updatedChi2
    /\ stage \in {"idle", "sort"} => \A i \in Positions : population[i].updatedChi2

\* best is the lowest of the chi2s that are up to date, from the sort to the
\* end of the mutation that of the first individual.
Lowest ==
    /\ \A i \in Positions : population[i].updatedChi2 => best <= Chi2[population[i].genes]
    /\ \E i \in Positions : population[i].updatedChi2 /\ Chi2[population[i].genes] = best
    /\ stage \in {"idle", "pair", "mutate"} => Chi2[population[1].genes] = best
    /\ stage = "idle" => par = population[1].genes

\* The chi2 of the tool is the best one of the iteration before, or that of the
\* input file.
Behind ==
    /\ pc = "update" => iteration # from
    /\ IF iteration = from THEN chi2 \in FirstChi2s ELSE chi2 = before /\ best <= chi2

GeneticInv == GeneticTypeOK /\ Stages /\ Honest /\ Lowest /\ Behind

-----------------------------------------------------------------------------
LEMMA Places ==
    /\ 1 \in Positions
    /\ NumberOfFamilies \in Nat
    /\ NumberOfSurvivors \in Nat \ {0}
    /\ \A k \in Families : /\ NumberOfSurvivors + k \in Positions \ {1}
                           /\ NumberOfSurvivors + NumberOfFamilies + k \in Positions \ {1}
                           /\ k \in Positions
                           /\ k + 1 \in 1 .. SizeOfPopulation + 1
<1>1. NumberOfFamilies \in Nat /\ 4 * NumberOfFamilies <= SizeOfPopulation
  BY DEF NumberOfFamilies
<1>2. NumberOfSurvivors = SizeOfPopulation - 2 * NumberOfFamilies
  BY DEF NumberOfSurvivors
<1> QED
  BY <1>1, <1>2 DEF Positions, Families

\* What crosses over is a point again.
LEMMA ChildrenArePoints ==
    ASSUME NEW m \in Points, NEW f \in Points, NEW c \in Genes, NEW v \in Between(m[c], f[c])
    PROVE  FirstChild(m, f, c, v) \in Points /\ SecondChild(m, f, c, v) \in Points
<1>1. m[c] \in Values /\ f[c] \in Values /\ v \in Values
  BY DEF Between
<1>2. m[c] + f[c] - v \in Values
  <2>1. (m[c] <= v /\ v <= f[c]) \/ (f[c] <= v /\ v <= m[c])
    BY DEF Between
  <2> QED
    BY <1>1, <2>1 DEF Values
<1>3. FirstChild(m, f, c, v) \in [Genes -> Values]
  BY <1>1 DEF FirstChild
<1>4. SecondChild(m, f, c, v) \in [Genes -> Values]
  BY <1>2 DEF SecondChild
<1> QED
  BY <1>3, <1>4

LEMMA IndividualsMade ==
    ASSUME NEW p \in Points, NEW x \in Individuals
    PROVE  /\ Child(p) \in Individuals /\ ~Child(p).updatedChi2
           /\ Evaluation(p) \in Individuals /\ Evaluation(p).updatedChi2
           /\ Evaluation(p).of = p /\ Evaluation(p).genes = p
           /\ Changed(x, p) \in Individuals /\ ~Changed(x, p).updatedChi2
BY DEF Child, Evaluation, Changed, Individuals

\* Replacing and mutating: nobody new has a chi2, and the first stays.
OnlyUnevaluatedAreNew ==
    /\ population' \in [Positions -> Individuals]
    /\ \A i \in Positions :
          population'[i] = population[i] \/ (i # 1 /\ ~population'[i].updatedChi2)

LEMMA BreedMakesChildren ==
    ASSUME population \in [Positions -> Individuals], Breed PROVE OnlyUnevaluatedAreNew
<1>0. PICK m \in Families, f \in Families, c \in Genes :
        \E v \in Between(population[m].genes[c], population[f].genes[c]) :
            population' = [population EXCEPT
                ![NumberOfSurvivors + turn] =
                    Child(FirstChild(population[m].genes, population[f].genes, c, v)),
                ![NumberOfSurvivors + NumberOfFamilies + turn] =
                    Child(SecondChild(population[m].genes, population[f].genes, c, v))]
  BY DEF Breed
<1>1. PICK v \in Between(population[m].genes[c], population[f].genes[c]) :
        population' = [population EXCEPT
            ![NumberOfSurvivors + turn] =
                Child(FirstChild(population[m].genes, population[f].genes, c, v)),
            ![NumberOfSurvivors + NumberOfFamilies + turn] =
                Child(SecondChild(population[m].genes, population[f].genes, c, v))]
  BY <1>0
<1>2. turn \in Families
  BY DEF Breed
<1>3. population[m].genes \in Points /\ population[f].genes \in Points
  BY Places DEF Individuals
<1> DEFINE a == Child(FirstChild(population[m].genes, population[f].genes, c, v))
           b == Child(SecondChild(population[m].genes, population[f].genes, c, v))
<1>4. /\ FirstChild(population[m].genes, population[f].genes, c, v) \in Points
      /\ SecondChild(population[m].genes, population[f].genes, c, v) \in Points
  BY <1>3, ChildrenArePoints
<1>5. a \in Individuals /\ b \in Individuals /\ ~a.updatedChi2 /\ ~b.updatedChi2
  BY <1>4 DEF Child, Individuals
<1> HIDE DEF a, b
<1>6. population' = [population EXCEPT ![NumberOfSurvivors + turn] = a,
                                       ![NumberOfSurvivors + NumberOfFamilies + turn] = b]
  BY <1>1 DEF a, b
<1>7. /\ NumberOfSurvivors + turn \in Positions \ {1}
      /\ NumberOfSurvivors + NumberOfFamilies + turn \in Positions \ {1}
  BY <1>2, Places
<1> QED
  BY <1>5, <1>6, <1>7 DEF OnlyUnevaluatedAreNew

LEMMA MutateMakesUnevaluated ==
    ASSUME population \in [Positions -> Individuals], Mutate, turn >= 2
    PROVE  OnlyUnevaluatedAreNew
<1>1. turn \in Positions /\ turn # 1
  BY DEF Mutate, Positions
<1>2. CASE UNCHANGED population
  BY <1>2 DEF OnlyUnevaluatedAreNew
<1>3. CASE \E p \in Points : population' = [population EXCEPT ![turn] = Changed(@, p)]
  <2>1. PICK p \in Points : population' = [population EXCEPT ![turn] = Changed(population[turn], p)]
    BY <1>3
  <2>2. Changed(population[turn], p) \in Individuals /\ ~Changed(population[turn], p).updatedChi2
    BY <1>1, IndividualsMade
  <2> QED
    BY <1>1, <2>1, <2>2 DEF OnlyUnevaluatedAreNew
<1> QED
  BY <1>2, <1>3 DEF Mutate

\* They take nothing from what is known of the population.
LEMMA UnevaluatedAreHarmless ==
    ASSUME GeneticInv, OnlyUnevaluatedAreNew, best' = best,
           stage \in {"pair", "mutate"}, stage' = stage
    PROVE  Honest' /\ Lowest'
<1>1. 1 \in Positions
  BY Places
<1>2. population'[1] = population[1]
  BY <1>1 DEF OnlyUnevaluatedAreNew
<1>3. \A i \in Positions : population'[i].updatedChi2 => population'[i] = population[i]
  BY DEF OnlyUnevaluatedAreNew
<1>4. Honest'
  BY <1>2, <1>3 DEF GeneticInv, Honest
<1>5. population[1].updatedChi2 /\ Chi2[population[1].genes] = best
  BY DEF GeneticInv, Honest, Lowest
<1>6. Lowest'
  BY <1>1, <1>2, <1>3, <1>5 DEF GeneticInv, Lowest
<1> QED
  BY <1>4, <1>6
-----------------------------------------------------------------------------
LEMMA StartKeeps == ASSUME GeneticInv, Start PROVE GeneticInv'
<1>1. /\ pc = "loop" /\ pc' = "update" /\ updated /\ par' = par /\ from' = from
      /\ chi2' = Chi2[par] /\ iteration' = iteration + 1 /\ entry' = entry
      /\ predicted' = par /\ updated' = FALSE
      /\ stage = "idle" /\ stage' = "pair" /\ turn' = 1
      /\ population' = population /\ best' = best /\ before' = best
  BY DEF Start, Iterate, Evaluated, GeneticInv, Stages
<1>2. par \in Points /\ iteration < MaxIterations /\ from \in FirstIterations /\ iteration \in from .. MaxIterations
  BY DEF GeneticInv, GeneticTypeOK, TypeOK, Start, Iterate, GoesOn
<1>3. TypeOK'
  <2>1. Chi2[par] \in Chi2Values
    BY <1>2 DEF Chi2Values
  <2>2. iteration + 1 \in from .. MaxIterations
    BY <1>2
  <2> QED
    BY <1>1, <1>2, <2>1, <2>2 DEF GeneticInv, GeneticTypeOK, TypeOK
<1>4. GeneticTypeOK'
  BY <1>1, <1>3 DEF GeneticInv, GeneticTypeOK
<1>5. Stages' /\ Honest'
  BY <1>1 DEF GeneticInv, Stages, Honest
<1>6. Lowest'
  BY <1>1 DEF GeneticInv, Lowest
<1>7. Behind'
  <2>1. Chi2[par] = best
    BY <1>1 DEF GeneticInv, Lowest
  <2>2. best \in Nat
    BY DEF GeneticInv, GeneticTypeOK, Chi2Values
  <2>3. iteration + 1 # from
    BY <1>2
  <2> QED
    BY <1>1, <2>1, <2>2, <2>3 DEF Behind
<1> QED
  BY <1>4, <1>5, <1>6, <1>7 DEF GeneticInv

LEMMA BreedKeeps == ASSUME GeneticInv, Breed \/ Mutate PROVE GeneticInv'
<1>1. /\ stage' = stage /\ best' = best /\ before' = before /\ turn' = turn + 1 /\ stage \in {"pair", "mutate"}
      /\ UNCHANGED vars /\ turn \in Positions /\ (stage = "mutate" => turn >= 2)
  BY Places DEF Breed, Mutate, GeneticInv, Stages
<1>2. population \in [Positions -> Individuals]
  BY DEF GeneticInv, GeneticTypeOK
<1>3. OnlyUnevaluatedAreNew
  <2>1. CASE Breed
    BY <2>1, <1>2, BreedMakesChildren
  <2>2. CASE Mutate
    <3>1. turn >= 2
      BY <2>2, <1>1 DEF Mutate
    <3> QED
      BY <2>2, <3>1, <1>2, MutateMakesUnevaluated
  <2> QED
    BY <2>1, <2>2
<1>4. Honest' /\ Lowest'
  BY <1>1, <1>3, UnevaluatedAreHarmless
<1>5. GeneticTypeOK'
  <2>1. turn + 1 \in 1 .. SizeOfPopulation + 1
    BY <1>1 DEF Positions
  <2>2. TypeOK'
    BY <1>1 DEF GeneticInv, GeneticTypeOK, TypeOK, vars, modelVars
  <2> QED
    BY <1>1, <1>3, <2>1, <2>2 DEF GeneticInv, GeneticTypeOK, OnlyUnevaluatedAreNew
<1>6. Stages'
  <2>1. stage' = "mutate" => turn' >= 2
    BY <1>1 DEF Positions
  <2> QED
    BY <1>1, <2>1 DEF GeneticInv, Stages, vars, modelVars
<1>7. Behind'
  BY <1>1 DEF GeneticInv, Behind, vars, modelVars
<1> QED
  BY <1>4, <1>5, <1>6, <1>7 DEF GeneticInv

\* From one stage to the next.
LEMMA TurningKeeps ==
    ASSUME GeneticInv, EndBreeding \/ EndMutation \/ EndEvaluation PROVE GeneticInv'
<1>1. UNCHANGED vars /\ population' = population /\ best' = best /\ before' = before
  BY DEF EndBreeding, EndMutation, EndEvaluation
<1>2. \/ stage = "pair" /\ stage' = "mutate" /\ turn' = 2
      \/ stage = "mutate" /\ stage' = "evaluate" /\ turn' = 1
      \/ stage = "evaluate" /\ stage' = "sort" /\ turn' = 1 /\ turn \notin Positions
  BY DEF EndBreeding, EndMutation, EndEvaluation
<1>3. 2 \in 1 .. SizeOfPopulation + 1 /\ 1 \in 1 .. SizeOfPopulation + 1
  OBVIOUS
<1>4. GeneticTypeOK'
  <2>1. TypeOK'
    BY <1>1 DEF GeneticInv, GeneticTypeOK, TypeOK, vars, modelVars
  <2> QED
    BY <1>1, <1>2, <1>3, <2>1 DEF GeneticInv, GeneticTypeOK
<1>5. Stages'
  BY <1>1, <1>2 DEF GeneticInv, Stages, vars, modelVars
<1>6. Honest'
  <2>1. ASSUME stage' = "evaluate", NEW i \in Positions, i < turn' PROVE FALSE
    BY <1>2, <2>1 DEF Positions
  <2>2. ASSUME stage' = "sort", NEW i \in Positions PROVE population[i].updatedChi2
    <3>1. stage = "evaluate" /\ turn \notin Positions /\ turn \in 1 .. SizeOfPopulation + 1
      BY <1>2, <2>2 DEF GeneticInv, GeneticTypeOK
    <3>2. i < turn
      BY <3>1 DEF Positions
    <3> QED
      BY <3>1, <3>2 DEF GeneticInv, Honest
  <2>3. stage' # "idle"
    BY <1>2
  <2> QED
    BY <1>1, <2>1, <2>2, <2>3 DEF GeneticInv, Honest
<1>7. Lowest'
  BY <1>1, <1>2 DEF GeneticInv, Lowest, vars, modelVars
<1>8. Behind'
  BY <1>1 DEF GeneticInv, Behind, vars, modelVars
<1> QED
  BY <1>4, <1>5, <1>6, <1>7, <1>8 DEF GeneticInv

\* The individual at the turn is up to date already.
LEMMA SkipKeeps ==
    ASSUME GeneticInv, stage = "evaluate", turn \in Positions, population[turn].updatedChi2,
           UNCHANGED <<vars, population, best, before, stage>>, turn' = turn + 1
    PROVE  GeneticInv'
<1>1. turn + 1 \in 1 .. SizeOfPopulation + 1
  BY DEF Positions
<1>2. GeneticTypeOK'
  <2>1. TypeOK'
    BY DEF GeneticInv, GeneticTypeOK, TypeOK, vars, modelVars
  <2> QED
    BY <1>1, <2>1 DEF GeneticInv, GeneticTypeOK
<1>3. Stages' /\ Behind' /\ Lowest'
  BY DEF GeneticInv, Stages, Behind, Lowest, vars, modelVars
<1>4. Honest'
  <2>1. ASSUME NEW i \in Positions, i < turn + 1 PROVE population[i].updatedChi2
    <3>1. i = turn \/ i < turn
      BY <2>1 DEF Positions
    <3> QED
      BY <3>1 DEF GeneticInv, Honest
  <2> QED
    BY <2>1 DEF GeneticInv, Honest
<1> QED
  BY <1>2, <1>3, <1>4 DEF GeneticInv

\* It is not.
LEMMA EvaluateOneKeeps ==
    ASSUME GeneticInv, stage = "evaluate", turn \in Positions, ~population[turn].updatedChi2,
           Try(population[turn].genes),
           population' = [population EXCEPT ![turn] = Evaluation(@.genes)],
           best' = Minimum(best, Chi2[population[turn].genes]),
           turn' = turn + 1, stage' = stage, before' = before
    PROVE  GeneticInv'
<1> DEFINE p == population[turn].genes
<1>1. /\ pc = "update" /\ pc' = "update" /\ par' = p /\ predicted' = p /\ updated' = FALSE
      /\ chi2' = chi2 /\ iteration' = iteration /\ from' = from /\ entry' = entry
  BY DEF Try
<1>2. /\ population \in [Positions -> Individuals] /\ p \in Points
      /\ Chi2[p] \in Nat /\ best \in Nat /\ Chi2[p] \in Chi2Values /\ best \in Chi2Values
      /\ chi2 \in Nat /\ 1 \in Positions
  <2>1. population \in [Positions -> Individuals] /\ best \in Chi2Values /\ chi2 \in Chi2Values
    BY DEF GeneticInv, GeneticTypeOK, TypeOK
  <2>2. p \in Points
    BY <2>1 DEF Individuals
  <2>3. Chi2[p] \in Chi2Values
    BY <2>2 DEF Chi2Values
  <2> QED
    BY <2>1, <2>2, <2>3, Places DEF Chi2Values
<1>3. /\ population'[turn] = Evaluation(p)
      /\ \A i \in Positions : i # turn => population'[i] = population[i]
      /\ population' \in [Positions -> Individuals]
  <2>1. Evaluation(p) \in Individuals
    BY <1>2 DEF Evaluation, Individuals
  <2> QED
    BY <1>2, <2>1
<1>4. Evaluation(p).updatedChi2 /\ Evaluation(p).genes = p /\ Evaluation(p).of = p
  BY DEF Evaluation
<1>5. best' \in Chi2Values /\ best' <= best /\ best' <= Chi2[p] /\ (best' = best \/ best' = Chi2[p])
  BY <1>2 DEF Minimum
<1> HIDE DEF p
<1>6. GeneticTypeOK'
  <2>1. TypeOK'
    BY <1>1, <1>2 DEF GeneticInv, GeneticTypeOK, TypeOK
  <2>2. turn + 1 \in 1 .. SizeOfPopulation + 1
    BY DEF Positions
  <2> QED
    BY <1>3, <1>5, <2>1, <2>2 DEF GeneticInv, GeneticTypeOK
<1>7. Stages'
  BY <1>1 DEF GeneticInv, Stages
<1>8. Honest'
  <2>1. \A i \in Positions : population'[i].updatedChi2 => population'[i].of = population'[i].genes
    BY <1>3, <1>4 DEF GeneticInv, Honest
  <2>2. population'[1].updatedChi2
    BY <1>2, <1>3, <1>4 DEF GeneticInv, Honest
  <2>3. ASSUME NEW i \in Positions, i < turn' PROVE population'[i].updatedChi2
    <3>1. i = turn \/ i < turn
      BY <2>3 DEF Positions
    <3> QED
      BY <1>3, <1>4, <3>1 DEF GeneticInv, Honest
  <2> QED
    BY <2>1, <2>2, <2>3 DEF Honest
<1>9. Lowest'
  <2>1. ASSUME NEW i \in Positions, population'[i].updatedChi2
        PROVE  best' <= Chi2[population'[i].genes]
    <3>1. CASE i = turn
      BY <3>1, <1>3, <1>4, <1>5
    <3>2. CASE i # turn
      <4>1. population[i].updatedChi2 /\ population'[i] = population[i]
        BY <2>1, <3>2, <1>3
      <4>2. best <= Chi2[population[i].genes]
        BY <4>1 DEF GeneticInv, Lowest
      <4>3. Chi2[population[i].genes] \in Nat
        BY <1>2 DEF Individuals
      <4> QED
        BY <4>1, <4>2, <4>3, <1>2, <1>5 DEF Chi2Values
    <3> QED
      BY <3>1, <3>2
  <2>2. \E i \in Positions : population'[i].updatedChi2 /\ Chi2[population'[i].genes] = best'
    <3>1. CASE best' = Chi2[p]
      BY <3>1, <1>3, <1>4
    <3>2. CASE best' = best
      <4>1. PICK i \in Positions : population[i].updatedChi2 /\ Chi2[population[i].genes] = best
        BY DEF GeneticInv, Lowest
      <4>2. i # turn
        BY <4>1
      <4> QED
        BY <3>2, <4>1, <4>2, <1>3
    <3> QED
      BY <1>5, <3>1, <3>2
  <2> QED
    BY <2>1, <2>2 DEF Lowest
<1>10. Behind'
  <2>1. best <= chi2 /\ chi2 = before /\ iteration # from
    BY <1>1 DEF GeneticInv, Behind
  <2> QED
    BY <1>1, <1>2, <1>5, <2>1 DEF Behind, Chi2Values
<1> QED
  BY <1>6, <1>7, <1>8, <1>9, <1>10 DEF GeneticInv

LEMMA EvaluateKeeps == ASSUME GeneticInv, Evaluate PROVE GeneticInv'
<1>1. stage = "evaluate" /\ turn \in Positions /\ turn' = turn + 1 /\ stage' = stage /\ before' = before
  BY DEF Evaluate
<1>2. CASE population[turn].updatedChi2
  BY <1>1, <1>2, SkipKeeps DEF Evaluate
<1>3. CASE ~population[turn].updatedChi2
  BY <1>1, <1>3, EvaluateOneKeeps DEF Evaluate
<1> QED
  BY <1>2, <1>3

\* An exchange of the sort.
LEMMA ExchangeKeeps ==
    ASSUME GeneticInv, NEW k \in Positions, NEW l \in Positions, Exchange(k, l)
    PROVE  GeneticInv'
<1>1. /\ UNCHANGED <<vars, stage, turn, best, before>> /\ stage = "sort"
      /\ population' = [population EXCEPT ![k] = population[l], ![l] = population[k]]
  BY DEF Exchange
<1>2. population \in [Positions -> Individuals]
  BY DEF GeneticInv, GeneticTypeOK
<1>3. /\ population' \in [Positions -> Individuals]
      /\ \A i \in Positions : \E j \in Positions : population'[i] = population[j]
      /\ \A j \in Positions : \E i \in Positions : population'[i] = population[j]
  BY <1>1, <1>2
<1>4. GeneticTypeOK'
  <2>1. TypeOK'
    BY <1>1 DEF GeneticInv, GeneticTypeOK, TypeOK, vars, modelVars
  <2> QED
    BY <1>1, <1>3, <2>1 DEF GeneticInv, GeneticTypeOK
<1>5. Stages' /\ Behind'
  BY <1>1 DEF GeneticInv, Stages, Behind, vars, modelVars
<1>6. Honest'
  <2>1. 1 \in Positions
    BY Places
  <2>2. \A i \in Positions : population[i].updatedChi2 /\ population[i].of = population[i].genes
    BY <1>1 DEF GeneticInv, Honest
  <2>3. \A i \in Positions : population'[i].updatedChi2 /\ population'[i].of = population'[i].genes
    BY <1>3, <2>2
  <2> QED
    BY <2>1, <2>3 DEF Honest
<1>7. Lowest'
  <2>1. \A i \in Positions : population'[i].updatedChi2 => best <= Chi2[population'[i].genes]
    BY <1>3 DEF GeneticInv, Lowest
  <2>2. PICK j \in Positions : population[j].updatedChi2 /\ Chi2[population[j].genes] = best
    BY DEF GeneticInv, Lowest
  <2>3. PICK i \in Positions : population'[i] = population[j]
    BY <1>3
  <2>4. \E m \in Positions : population'[m].updatedChi2 /\ Chi2[population'[m].genes] = best
    BY <2>2, <2>3
  <2> QED
    BY <1>1, <2>1, <2>4 DEF Lowest
<1> QED
  BY <1>4, <1>5, <1>6, <1>7 DEF GeneticInv

\* The first of a sorted population is the fittest.
LEMMA FirstIsLowest ==
    ASSUME GeneticInv, stage \in {"sort", "idle"}, Sorted(population)
    PROVE  Chi2[population[1].genes] = best
<1>1. 1 \in Positions
  BY Places
<1>2. PICK j \in Positions : Chi2[population[j].genes] = best
  BY DEF GeneticInv, Lowest
<1>3. \A i \in Positions : population[i].updatedChi2 /\ population[i].of = population[i].genes
  BY DEF GeneticInv, Honest
<1>4. \A i \in Positions : population[i].genes \in Points
  BY DEF GeneticInv, GeneticTypeOK, Individuals
<1>5. \A i \in Positions : Chi2Of(population[i]) = Chi2[population[i].genes]
  BY <1>3, <1>4 DEF Chi2Of
<1>6. best <= Chi2[population[1].genes]
  BY <1>1, <1>3 DEF GeneticInv, Lowest
<1>7. j = 1 \/ ~(Chi2[population[j].genes] < Chi2[population[1].genes])
  <2>1. j = 1 \/ 1 < j
    BY DEF Positions
  <2> QED
    BY <2>1, <1>1, <1>5 DEF Sorted, Fitter
<1>8. Chi2[population[1].genes] \in Nat /\ best \in Nat
  BY <1>1, <1>4 DEF GeneticInv, GeneticTypeOK, Chi2Values
<1> QED
  BY <1>2, <1>6, <1>7, <1>8

LEMMA EndSortKeeps == ASSUME GeneticInv, EndSort PROVE GeneticInv'
<1>1. /\ stage = "sort" /\ stage' = "idle" /\ Sorted(population)
      /\ pc = "update" /\ pc' = "loop" /\ par' = population[1].genes /\ updated' = TRUE
      /\ predicted' = predicted /\ chi2' = chi2 /\ iteration' = iteration /\ from' = from
      /\ entry' = entry /\ population' = population /\ turn' = turn /\ best' = best /\ before' = before
  BY DEF EndSort, Settle
<1>2. Chi2[population[1].genes] = best
  BY <1>1, FirstIsLowest
<1>3. GeneticTypeOK'
  <2>1. population[1].genes \in Points
    BY Places DEF GeneticInv, GeneticTypeOK, Individuals
  <2>2. TypeOK'
    BY <1>1, <2>1 DEF GeneticInv, GeneticTypeOK, TypeOK
  <2> QED
    BY <1>1, <2>2 DEF GeneticInv, GeneticTypeOK
<1>4. Stages' /\ Honest'
  BY <1>1 DEF GeneticInv, Stages, Honest
<1>5. Lowest'
  BY <1>1, <1>2 DEF GeneticInv, Lowest
<1>6. Behind'
  BY <1>1 DEF GeneticInv, Behind
<1> QED
  BY <1>3, <1>4, <1>5, <1>6 DEF GeneticInv

LEMMA LeaveKeeps == ASSUME GeneticInv, Leave PROVE GeneticInv'
<1>1. /\ UNCHANGED <<par, updated, predicted, chi2, iteration, from>>
      /\ UNCHANGED <<population, stage, turn, best, before>>
      /\ pc \in {"loop", "terminate"} /\ pc' \in {"terminate", "done"}
      /\ entry' \in {entry, [par |-> par, predicted |-> predicted]}
  BY DEF Leave, End, Stop, Terminate, geneticVars, modelVars
<1>2. GeneticTypeOK'
  <2>1. entry' \in [par : Points \cup {NoPoint}, predicted : Points \cup {NoPoint}]
    BY <1>1 DEF GeneticInv, GeneticTypeOK, TypeOK
  <2>2. TypeOK'
    BY <1>1, <2>1 DEF GeneticInv, GeneticTypeOK, TypeOK
  <2> QED
    BY <1>1, <2>2 DEF GeneticInv, GeneticTypeOK
<1>3. Stages' /\ Honest' /\ Lowest' /\ Behind'
  BY <1>1 DEF GeneticInv, Stages, Honest, Lowest, Behind
<1> QED
  BY <1>2, <1>3 DEF GeneticInv

LEMMA GeneticStarts == GeneticInit => GeneticInv
<1> SUFFICES ASSUME GeneticInit PROVE GeneticInv
  OBVIOUS
<1>1. PICK genes \in [Positions -> Points] : population = [i \in Positions |-> Evaluation(genes[i])]
  BY DEF GeneticInit
<1>2. /\ pc = "loop" /\ par \in Points /\ updated /\ updated \in BOOLEAN /\ predicted \in Points /\ chi2 \in FirstChi2s
      /\ from \in FirstIterations /\ iteration = from /\ entry = NoEntry
      /\ Sorted(population) /\ par = population[1].genes /\ stage = "idle" /\ turn = 1
      /\ best = Chi2[par] /\ before = best
  BY DEF GeneticInit, Init
<1>3. \A i \in Positions : /\ population[i].updatedChi2
                          /\ population[i].of = genes[i] /\ population[i].genes = genes[i]
  BY <1>1 DEF Evaluation
<1>4. population \in [Positions -> Individuals]
  <2>1. \A i \in Positions : Evaluation(genes[i]) \in Individuals
    BY DEF Evaluation, Individuals
  <2> QED
    BY <1>1, <2>1
<1>5. best \in Chi2Values
  BY <1>2 DEF Chi2Values
<1>6. GeneticTypeOK
  <2>1. entry \in [par : Points \cup {NoPoint}, predicted : Points \cup {NoPoint}]
    BY <1>2 DEF NoEntry
  <2>2. iteration \in from .. MaxIterations /\ chi2 \in Chi2Values
    <3>1. from \in 0 .. MaxIterations /\ MaxIterations \in Nat
      BY <1>2
    <3>2. iteration \in from .. MaxIterations
      BY <1>2, <3>1
    <3>3. chi2 \in 0 .. Infinity
      BY <1>2
    <3> QED
      BY <3>2, <3>3 DEF Chi2Values
  <2>3. TypeOK
    BY <1>2, <2>1, <2>2 DEF TypeOK
  <2>4. turn \in 1 .. SizeOfPopulation + 1
    BY <1>2
  <2> QED
    BY <1>2, <1>4, <1>5, <2>3, <2>4 DEF GeneticTypeOK
<1>7. Stages
  BY <1>2 DEF Stages
<1>8. Honest
  BY <1>2, <1>3, Places DEF Honest
<1>9. ASSUME NEW i \in Positions PROVE best <= Chi2[population[i].genes]
  <2>1. 1 \in Positions
    BY Places
  <2>2. \A j \in Positions : Chi2Of(population[j]) = Chi2[population[j].genes] /\ Chi2[population[j].genes] \in Nat
    BY <1>3 DEF Chi2Of
  <2>3. i = 1 \/ 1 < i
    BY DEF Positions
  <2>4. i = 1 \/ ~(Chi2[population[i].genes] < best)
    BY <1>2, <2>1, <2>2, <2>3 DEF Sorted, Fitter
  <2> QED
    BY <1>2, <2>1, <2>2, <2>4
<1>10. Lowest
  BY <1>2, <1>3, <1>9, Places DEF Lowest
<1>11. Behind
  BY <1>2 DEF Behind
<1> QED
  BY <1>6, <1>7, <1>8, <1>10, <1>11 DEF GeneticInv

LEMMA GeneticKeeps == GeneticInv /\ [GeneticNext]_allVars => GeneticInv'
<1> SUFFICES ASSUME GeneticInv, [GeneticNext]_allVars PROVE GeneticInv'
  OBVIOUS
<1>1. CASE Start
  BY <1>1, StartKeeps
<1>2. CASE Breed \/ Mutate
  BY <1>2, BreedKeeps
<1>3. CASE EndBreeding \/ EndMutation \/ EndEvaluation
  BY <1>3, TurningKeeps
<1>4. CASE Evaluate
  BY <1>4, EvaluateKeeps
<1>5. CASE \E i, j \in Positions : Exchange(i, j)
  BY <1>5, ExchangeKeeps
<1>6. CASE EndSort
  BY <1>6, EndSortKeeps
<1>7. CASE Leave
  BY <1>7, LeaveKeeps
<1>8. CASE UNCHANGED allVars
  <2>1. GeneticTypeOK' /\ Stages' /\ Honest' /\ Lowest' /\ Behind'
    BY <1>8 DEF allVars, vars, modelVars, geneticVars, GeneticInv, GeneticTypeOK, TypeOK, Stages, Honest, Lowest, Behind
  <2> QED
    BY <2>1 DEF GeneticInv
<1> QED
  BY <1>1, <1>2, <1>3, <1>4, <1>5, <1>6, <1>7, <1>8 DEF GeneticNext, Work

LEMMA GeneticInvariant == GeneticSpec => []GeneticInv
BY GeneticStarts, GeneticKeeps, PTL DEF GeneticSpec

\* The state of the tool, the model and the population is well typed: what
\* crosses over is a point, and no position lies outside of the population.
THEOREM GeneticTyping == GeneticSpec => []GeneticTypeOK
<1>1. GeneticInv => GeneticTypeOK
  BY DEF GeneticInv
<1> QED
  BY <1>1, GeneticInvariant, PTL

\* GeneticAlgorithmOptimizer::UpdateModel returns with the fittest individual
\* in the model, and its order is by chi2s that are up to date.
THEOREM FittestStays == GeneticSpec => []FittestIsInTheModel
<1>1. GeneticInv => FittestIsInTheModel
  <2> SUFFICES ASSUME GeneticInv, pc # "update"
               PROVE  /\ \A i \in Positions : population[i].of = population[i].genes
                      /\ par = population[1].genes
                      /\ \A i \in Positions : Chi2[par] <= Chi2[population[i].genes]
    BY DEF FittestIsInTheModel
  <2>1. stage = "idle"
    BY DEF GeneticInv, Stages
  <2>2. \A i \in Positions : population[i].updatedChi2 /\ population[i].of = population[i].genes
    BY <2>1 DEF GeneticInv, Honest
  <2> QED
    BY <2>1, <2>2 DEF GeneticInv, Lowest
<1> QED
  BY <1>1, GeneticInvariant, PTL

\* Breeding, mutation and sorting never lose the fittest point the population
\* has held.
THEOREM NothingBetterIsLost == GeneticSpec => []BestIsKept
<1>1. GeneticInv => BestIsKept
  BY DEF GeneticInv, Stages, Lowest, BestIsKept
<1> QED
  BY <1>1, GeneticInvariant, PTL

\* The chi2 in the interface file is the lowest of the population the last
\* iteration began with, which the parameters beside it reach or surpass.
THEOREM SavedChi2Holds == GeneticSpec => []SavedChi2IsReached
<1>1. GeneticInv => SavedChi2IsReached
  BY DEF GeneticInv, Stages, Lowest, Behind, SavedChi2IsReached
<1> QED
  BY <1>1, GeneticInvariant, PTL
=============================================================================
