-------------------------- MODULE GeneticAlgorithm --------------------------
(***************************************************************************)
(* optimizers/src/GeneticAlgorithmOptimizer.cpp, Individual.cpp: an        *)
(* optimizer that keeps a population, replaces the less fit half by the    *)
(* children of fitter ones, lets all but the fittest mutate, evaluates     *)
(* whoever has changed and settles on the fittest.                         *)
(*                                                                         *)
(* The chi2 of an individual is represented by the point it was evaluated  *)
(* for.  Fathers and mothers are among the fitter ones and outlive the     *)
(* replacement, so the families are taken one after the other.             *)
(***************************************************************************)
EXTENDS Optimizer

CONSTANTS
    Genes,               \* the parameters, numbered from 1
    MaxValue,            \* bound: no gene has a larger value
    SizeOfPopulation     \* _sizeOfPopulation

NumberOfFamilies == SizeOfPopulation \div 4
NoSurvivors == 0     \* mutant: the parents are replaced too
NumberOfSurvivors == SizeOfPopulation - 2 * NumberOfFamilies
Values == 0 .. MaxValue
Positions == 1 .. SizeOfPopulation
Families == 1 .. NumberOfFamilies

ASSUME GeneticAssumption ==
    /\ SizeOfPopulation \in Nat \ {0}
    /\ Genes \subseteq Nat
    /\ MaxValue \in Nat
    /\ Points = [Genes -> Values]

VARIABLES
    population,  \* _population
    stage,       \* where UpdateModel is
    turn,        \* the family or the individual the stage is at
    best,        \* the lowest chi2 an individual of the population ever had
    before       \* what it was when the last iteration began

geneticVars == <<population, stage, turn, best, before>>
allVars == <<vars, geneticVars>>

\* of: the point _chi2 was calculated for; a child holds the chi2 of the
\* individual that the constructor put in its place.
Individuals == [genes : Points, of : Points \cup {NoPoint}, updatedChi2 : BOOLEAN]

GeneticTypeOK ==
    /\ TypeOK
    /\ population \in [Positions -> Individuals]
    /\ stage \in {"idle", "pair", "mutate", "evaluate", "sort"}
    /\ turn \in 1 .. SizeOfPopulation + 1
    /\ best \in Chi2Values
    /\ before \in Chi2Values

-----------------------------------------------------------------------------
\* SetGene and Mutation: other genes, and the chi2 is no longer theirs.
Changed(individual, p) == [individual EXCEPT !.genes = p, !.updatedChi2 = FALSE]

Child(p) == [genes |-> p, of |-> NoPoint, updatedChi2 |-> FALSE]
Evaluation(p) == [genes |-> p, of |-> p, updatedChi2 |-> TRUE]

Chi2Of(individual) == IF individual.of = NoPoint THEN Infinity ELSE Chi2[individual.of]

\* operator<
Fitter(a, b) == Chi2Of(a) < Chi2Of(b)
Sorted(s) == \A i, j \in Positions : i < j => ~Fitter(s[j], s[i])

Minimum(a, b) == IF a < b THEN a ELSE b

\* The children that cross over at c: the genes below c of one parent, above c
\* of the other, and at c two values between the parents' that balance.
FirstChild(mother, father, c, v) ==
    [g \in Genes |-> IF g < c THEN mother[g] ELSE IF g = c THEN v ELSE father[g]]
SecondChild(mother, father, c, v) ==
    [g \in Genes |-> IF g < c THEN father[g]
                     ELSE IF g = c THEN mother[c] + father[c] - v ELSE mother[g]]
Between(a, b) == {v \in Values : (a <= v /\ v <= b) \/ (b <= v /\ v <= a)}

-----------------------------------------------------------------------------
\* The head of the loop, and the call of UpdateModel.
Start ==
    /\ Iterate
    /\ before' = best
    /\ stage' = "pair"
    /\ turn' = 1
    /\ UNCHANGED <<population, best>>

\* Pair, CrossOver and Replace for one family.  The father is drawn until he
\* is not the mother: with a single family the loop never ends, and there is no
\* step.
Breed ==
    /\ stage = "pair"
    /\ turn \in Families
    /\ \E m, f \in Families, c \in Genes :
          /\ m # f
          /\ \E v \in Between(population[m].genes[c], population[f].genes[c]) :
                 LET mother == population[m].genes
                     father == population[f].genes
                 IN  population' = [population EXCEPT
                         ![NumberOfSurvivors + turn] = Child(FirstChild(mother, father, c, v)),
                         ![NumberOfSurvivors + NumberOfFamilies + turn] =
                             Child(SecondChild(mother, father, c, v))]
    /\ turn' = turn + 1
    /\ UNCHANGED <<vars, stage, best, before>>

\* Mutant: the fittest may mutate too.
EndBreedingFirst ==
    /\ stage = "pair"
    /\ turn \notin Families
    /\ stage' = "mutate"
    /\ turn' = 1
    /\ UNCHANGED <<vars, population, best, before>>

\* MutatePopulation begins with the second individual.
EndBreeding ==
    /\ stage = "pair"
    /\ turn \notin Families
    /\ stage' = "mutate"
    /\ turn' = 2
    /\ UNCHANGED <<vars, population, best, before>>

\* An individual mutates, in some genes or in none.
Mutate ==
    /\ stage = "mutate"
    /\ turn \in Positions
    /\ \/ \E p \in Points : population' = [population EXCEPT ![turn] = Changed(@, p)]
       \/ UNCHANGED population
    /\ turn' = turn + 1
    /\ UNCHANGED <<vars, stage, best, before>>

EndMutation ==
    /\ stage = "mutate"
    /\ turn \notin Positions
    /\ stage' = "evaluate"
    /\ turn' = 1
    /\ UNCHANGED <<vars, population, best, before>>

\* UpdateChi2 of an individual that has changed.
Evaluate ==
    /\ stage = "evaluate"
    /\ turn \in Positions
    /\ \/ /\ ~population[turn].updatedChi2
          /\ Try(population[turn].genes)
          /\ population' = [population EXCEPT ![turn] = Evaluation(@.genes)]
          /\ best' = Minimum(best, Chi2[population[turn].genes])
       \/ /\ population[turn].updatedChi2
          /\ UNCHANGED <<vars, population, best>>
    /\ turn' = turn + 1
    /\ UNCHANGED <<stage, before>>

EndEvaluation ==
    /\ stage = "evaluate"
    /\ turn \notin Positions
    /\ stage' = "sort"
    /\ turn' = 1
    /\ UNCHANGED <<vars, population, best, before>>

\* SortPopulation: std::sort exchanges individuals in the wrong order, until
\* there are none.  Those that are equally fit may end in any order.
Exchange(i, j) ==
    /\ stage = "sort"
    /\ i < j
    /\ Fitter(population[j], population[i])
    /\ population' = [population EXCEPT ![i] = population[j], ![j] = population[i]]
    /\ UNCHANGED <<vars, stage, turn, best, before>>

\* Mutant: the model is left with the individual evaluated last.
EndSortSilently ==
    /\ stage = "sort"
    /\ Sorted(population)
    /\ Settle(par)
    /\ stage' = "idle"
    /\ UNCHANGED <<population, turn, best, before>>

\* UpdateModel of the fittest.
EndSort ==
    /\ stage = "sort"
    /\ Sorted(population)
    /\ Settle(population[1].genes)
    /\ stage' = "idle"
    /\ UNCHANGED <<population, turn, best, before>>

\* Terminate of the tool.
End == Stop \/ Terminate
Leave == End /\ UNCHANGED geneticVars

\* The constructor evaluates and sorts a random population; the parameters and
\* the predictions it leaves are the fittest's and the last individual's.
GeneticInit ==
    /\ Init
    /\ \E genes \in [Positions -> Points] :
          population = [i \in Positions |-> Evaluation(genes[i])]
    /\ Sorted(population)
    /\ par = population[1].genes
    /\ predicted \in Points
    /\ stage = "idle"
    /\ turn = 1
    /\ best = Chi2[par]
    /\ before = best

Work ==
    \/ Start
    \/ Breed
    \/ EndBreeding
    \/ Mutate
    \/ EndMutation
    \/ Evaluate
    \/ EndEvaluation
    \/ \E i, j \in Positions : Exchange(i, j)
    \/ EndSort
    \/ Leave

GeneticNext == Work \/ (pc = "done" /\ UNCHANGED allVars)

GeneticSpec == GeneticInit /\ [][GeneticNext]_allVars
FairGeneticSpec == GeneticSpec /\ WF_allVars(Work)

-----------------------------------------------------------------------------
\* Between two iterations every individual's chi2 is of its own genes, and the
\* parameters of the model are those of the fittest one: "The fittest
\* individual of the new population determines how the model is updated."
FittestIsInTheModel ==
    pc # "update" =>
        /\ \A i \in Positions : population[i].of = population[i].genes
        /\ par = population[1].genes
        /\ \A i \in Positions : Chi2[par] <= Chi2[population[i].genes]

\* The fittest individual is never lost, neither to a child nor by a mutation:
\* an optimization ends at the best point its population has ever held.
BestIsKept == pc # "update" => Chi2[par] = best

\* Execute asks for the chi2 before UpdateModel, so that what is saved for the
\* next process is one iteration late: not the chi2 of the parameters saved with
\* it, but the lowest of the population the last iteration began with.  The
\* parameters are at least as good.  A process that never enters the loop saves
\* what its input file says.
SavedChi2IsReached ==
    pc = "done" =>
        IF iteration = from THEN chi2 \in FirstChi2s ELSE chi2 = before /\ Chi2[par] <= chi2

\* The optimization ends, but for one family.
OptimizationEnds == NumberOfFamilies # 1 => <>(pc = "done")
=============================================================================
