----------------------------- MODULE MarkovChain -----------------------------
(***************************************************************************)
(* samplers/src/MarkovChainSampler.cpp: a Metropolis chain that may be     *)
(* continued by a later process from the parameter values, the chi2 and    *)
(* the iteration counter written back into the property tree.              *)
(*                                                                         *)
(* A point stands for a vector of parameter values.  The model is a        *)
(* function from points to chi2 values; Infinity is the chi2 of a point    *)
(* the calculators reject.  The ROOT output has one entry per evaluated    *)
(* point that passes the cuts (AnalysisTool::FillTree), and apart from it  *)
(* the branch PointAccepted, switched off while the tree is filled and     *)
(* filled by hand, an entry late, in FillBranchPointAccepted.              *)
(***************************************************************************)
EXTENDS Integers, SequencesExt

CONSTANTS
    Points,          \* vectors of values of the parameters that are not fixed
    InBounds,        \* the points all of whose values are within the bounds
    Passed,          \* the points that pass every cut of the tool
    Infinity,        \* stands for an infinite chi2
    Chi2,            \* the chi2 of a point: a function from Points to 0..Infinity
    StartPoint,      \* the parameter values of the input file
    Steerings,       \* what the sampler's part of the input file may say
    RunLengths,      \* the values NumberOfIterations may have
    MaxRuns,         \* bound: runs that end
    MaxCrashes       \* bound: runs that die, killed or by an exception

ASSUME ChainAssumption ==
    /\ InBounds \subseteq Points
    /\ Passed \subseteq Points
    /\ Infinity \in Nat
    /\ Chi2 \in [Points -> 0 .. Infinity]
    /\ StartPoint \in Points
    /\ Steerings \subseteq
           [moves : BOOLEAN, strict : BOOLEAN, given : [Points -> Points]]
    /\ RunLengths \subseteq Nat
    /\ MaxRuns \in Nat
    /\ MaxCrashes \in Nat

VARIABLES
    pc,              \* where the sampler is
    par,             \* the values of the model's parameters
    chi2,            \* _chi2
    parLast,         \* _parameterValuesOfLastAcceptedPoint
    chi2Last,        \* _chi2OfLastAcceptedPoint
    iter,            \* _iterationCounter
    maxIter,         \* _numberOfIterations
    weight,          \* _weight
    rejected,        \* _numberOfRejectedPoints
    tree,            \* the entries of _tree without the branch PointAccepted
    pointAccepted,   \* the entries of the branch PointAccepted
    steering,        \* what every process reads beside its status
    saved,           \* the property tree the next process starts from
    archive,         \* the output files that were closed
    crashes          \* the number of runs that died

memory == <<parLast, chi2Last>>
model == <<par, chi2>>
output == <<tree, pointAccepted>>
disk == <<steering, saved, archive, crashes>>
vars == <<pc, model, memory, iter, maxIter, weight, rejected, output, disk>>

Chi2Values == 0 .. Infinity
Status == [par : Points, chi2 : Chi2Values, iter : Nat]
File == [tree : Seq(Status), pointAccepted : Seq(Nat), resumed : BOOLEAN,
         handedOn : BOOLEAN]

FirstPointMoves == steering.moves \* FirstPointScaleFactor # 0
StrictBounds == steering.strict

\* What the nodes <Parameter> of the sampler make of the parameters of the
\* model: the same p where there is none.  No process changes the nodes.
Given(p) == steering.given[p]

TypeOK ==
    /\ pc \in {"off", "start", "first", "evaluateFirst", "loop", "evaluate",
               "compare", "done", "closed"}
    /\ par \in Points
    /\ chi2 \in Chi2Values
    /\ parLast \in Points
    /\ chi2Last \in Chi2Values
    /\ iter \in Nat
    /\ maxIter \in Nat
    /\ weight \in Nat
    /\ rejected \in Nat
    /\ tree \in Seq(Status)
    /\ pointAccepted \in Seq(Nat)
    /\ steering \in Steerings
    /\ saved \in Status
    /\ archive \in Seq(File)
    /\ crashes \in Nat

-----------------------------------------------------------------------------
\* A proposal: a Gaussian step reaches every point, a step of width 0 none.
Proposals(moves) == IF moves THEN Points ELSE {parLast}

\* Mutant: with strict bounds the loop repeats whatever IsInBounds says.
KeptNever(p) == ~StrictBounds

\* UpdateParameterValuesConsideringBounds goes on with p.
Kept(p) == StrictBounds => p \in InBounds

\* Mutant: an infinite chi2 difference is treated as any other.
MayAcceptAnything(new, last) == TRUE

\* IsAccepted.  rho = exp(-(new - last)/2) and the threshold is in (0, 1]:
\* a chi2 that is not larger is always accepted, an infinite one after a
\* finite one never.  When both are infinite the difference is not a number,
\* no comparison with it holds, and the point is accepted.
MustAccept(new, last) == new <= last
MayAccept(new, last) == new <= last \/ new # Infinity

\* Mutant: the loop over the rejected proposals stops one early.
PendingEntriesShort == <<weight>> \o [i \in 1 .. rejected - 1 |-> 0]

\* The entries FillBranchPointAccepted writes.
PendingEntries == <<weight>> \o [i \in 1 .. rejected |-> 0]

-----------------------------------------------------------------------------
\* Mutant: the weight starts at one whether or not the chain is resumed.
InitialWeightOne == 1

\* The point a resumed chain repeats has been counted by the earlier process.
InitialWeight == IF saved.iter = 0 THEN 1 ELSE 0

\* A process reads the input file and constructs the model and the sampler,
\* which sets the parameters its own nodes name.
Construct(n) ==
    /\ pc = "off"
    /\ Len(archive) < MaxRuns
    /\ pc' = "start"
    /\ par' = Given(saved.par)
    /\ chi2' = saved.chi2
    /\ iter' = saved.iter
    /\ maxIter' = saved.iter + n
    /\ weight' = InitialWeight
    /\ rejected' = 0
    /\ tree' = <<>>
    /\ pointAccepted' = <<>>
    /\ UNCHANGED <<memory, disk>>

\* UpdateMemory.
Remember ==
    /\ parLast' = par
    /\ chi2Last' = chi2

\* Execute, up to and with the first UpdateMemory of InitializeMemory.
BeginExecute ==
    /\ pc = "start"
    /\ pc' = "first"
    /\ Remember
    /\ UNCHANGED <<model, iter, maxIter, weight, rejected, output, disk>>

\* One turn of the loop of UpdateParameterValuesConsideringBounds: the first
\* proposal, and the proposal of an iteration.
DrawFirst(p) ==
    /\ pc = "first"
    /\ p \in Proposals(FirstPointMoves)
    /\ par' = p
    /\ pc' = IF Kept(p) THEN "evaluateFirst" ELSE "first"
    /\ UNCHANGED <<chi2, memory, iter, maxIter, weight, rejected, output, disk>>

Draw(p) ==
    /\ pc = "loop"
    /\ iter < maxIter
    /\ p \in Proposals(TRUE)
    /\ par' = p
    /\ pc' = IF Kept(p) THEN "evaluate" ELSE "loop"
    /\ UNCHANGED <<chi2, memory, iter, maxIter, weight, rejected, output, disk>>

\* FillTree: the entry is left out when a cut fails.
FillTree ==
    tree' = IF par \in Passed
              THEN Append(tree, [par |-> par, chi2 |-> Chi2[par], iter |-> iter])
              ELSE tree

\* UpdateModel: evaluate the model, fill the tree, count.
UpdateModel ==
    /\ chi2' = Chi2[par]
    /\ FillTree
    /\ iter' = iter + 1

\* The rest of InitializeMemory: the first point is accepted without a test.
EvaluateFirst ==
    /\ pc = "evaluateFirst"
    /\ UpdateModel
    /\ parLast' = par
    /\ chi2Last' = Chi2[par]
    /\ pc' = "loop"
    /\ UNCHANGED <<par, maxIter, weight, rejected, pointAccepted, disk>>

Evaluate ==
    /\ pc = "evaluate"
    /\ UpdateModel
    /\ pc' = "compare"
    /\ UNCHANGED <<par, memory, maxIter, weight, rejected, pointAccepted, disk>>

FillBranchPointAccepted == pointAccepted' = pointAccepted \o PendingEntries

\* Mutants: one of the two counters is forgotten when a proposal is rejected.
CountRejectedUncounted == weight' = weight + 1 /\ rejected' = rejected
CountRejectedUnweighted == weight' = weight /\ rejected' = rejected + 1

StartCounting == weight' = 1 /\ rejected' = 0
CountRejected == weight' = weight + 1 /\ rejected' = rejected + 1

\* CompareChi2, the proposal is accepted.
Accept ==
    /\ pc = "compare"
    /\ par \in InBounds
    /\ MayAccept(chi2, chi2Last)
    /\ FillBranchPointAccepted
    /\ StartCounting
    /\ Remember
    /\ pc' = "loop"
    /\ UNCHANGED <<model, iter, maxIter, tree, disk>>

\* CompareChi2, the proposal is rejected.
Reject ==
    /\ pc = "compare"
    /\ par \notin InBounds \/ ~MustAccept(chi2, chi2Last)
    /\ CountRejected
    /\ pc' = "loop"
    /\ UNCHANGED <<model, memory, iter, maxIter, output, disk>>

\* Mutant: only one half of the last accepted point is restored.
FinalizeStatusChi2 == chi2' = chi2Last /\ par' = par

FinalizeStatus == chi2' = chi2Last /\ par' = parLast

\* The end of Execute: the last entries, then FinalizeStatus.
Finish ==
    /\ pc = "loop"
    /\ iter >= maxIter
    /\ FillBranchPointAccepted
    /\ FinalizeStatus
    /\ pc' = "done"
    /\ UNCHANGED <<memory, iter, maxIter, weight, rejected, tree, disk>>

\* Mutant: the number of the last iteration is saved, not of the next one.
UpdatePropertyTreeLast == saved' = [par |-> par, chi2 |-> chi2, iter |-> iter - 1]

UpdatePropertyTree == saved' = [par |-> par, chi2 |-> chi2, iter |-> iter]

\* TerminateTool closes the output file.
CloseFile ==
    /\ pc = "done"
    /\ archive' = Append(archive,
           [tree |-> tree, pointAccepted |-> pointAccepted, resumed |-> saved.iter # 0,
            handedOn |-> FALSE])
    /\ pc' = "closed"
    /\ UNCHANGED <<model, memory, iter, maxIter, weight, rejected, output,
                   steering, saved, crashes>>

\* UpdatePropertyTree of the sampler and of the model's parameters: what
\* TerminateFittino writes for the next process to read.
HandOver ==
    /\ pc = "closed"
    /\ UpdatePropertyTree
    /\ archive' = [archive EXCEPT ![Len(archive)].handedOn = TRUE]
    /\ tree' = <<>>
    /\ pointAccepted' = <<>>
    /\ pc' = "off"
    /\ UNCHANGED <<model, memory, iter, maxIter, weight, rejected, steering, crashes>>

\* The process is killed, or ends by an exception that nobody catches, the one
\* of write_xml in the place of HandOver among them: what was only in memory is
\* lost, and a next process is started from the same input as this one.
Crash ==
    /\ pc # "off"
    /\ crashes < MaxCrashes
    /\ crashes' = crashes + 1
    /\ pc' = "off"
    /\ tree' = <<>>
    /\ pointAccepted' = <<>>
    /\ UNCHANGED <<model, memory, iter, maxIter, weight, rejected, steering, saved, archive>>

\* As many runs ended as the bound allows.
Terminated ==
    /\ pc = "off"
    /\ Len(archive) >= MaxRuns
    /\ UNCHANGED vars

Init ==
    /\ pc = "off"
    /\ par = StartPoint
    /\ chi2 = Infinity
    /\ parLast = StartPoint
    /\ chi2Last = Infinity
    /\ iter = 0
    /\ maxIter = 0
    /\ weight = 0
    /\ rejected = 0
    /\ tree = <<>>
    /\ pointAccepted = <<>>
    /\ steering \in Steerings
    /\ saved = [par |-> StartPoint, chi2 |-> Infinity, iter |-> 0]
    /\ archive = <<>>
    /\ crashes = 0

Next ==
    \/ \E n \in RunLengths : Construct(n)
    \/ BeginExecute
    \/ \E p \in Points : DrawFirst(p)
    \/ EvaluateFirst
    \/ \E p \in Points : Draw(p)
    \/ Evaluate
    \/ Accept
    \/ Reject
    \/ Finish
    \/ CloseFile
    \/ HandOver
    \/ Crash
    \/ Terminated

Spec == Init /\ [][Next]_vars

\* A process that is not killed keeps running, and the random generator sooner
\* or later draws a point the loop over the bounds goes on with.
Fairness ==
    /\ WF_vars(BeginExecute)
    /\ WF_vars(\E p \in Points : Kept(p) /\ DrawFirst(p))
    /\ WF_vars(EvaluateFirst)
    /\ WF_vars(\E p \in Points : Kept(p) /\ Draw(p))
    /\ WF_vars(Evaluate)
    /\ WF_vars(Accept \/ Reject)
    /\ WF_vars(Finish)
    /\ WF_vars(CloseFile)
    /\ WF_vars(HandOver)

FairSpec == Spec /\ Fairness
-----------------------------------------------------------------------------
\* The number of points this process has evaluated.
Evaluated == iter - saved.iter

\* Every evaluated point gets exactly one entry of the branch PointAccepted:
\* what is written, plus what the counters still hold back, plus the point
\* being compared.  CompareChi2 and FillBranchPointAccepted keep this up
\* together although neither counts the entries.
OneEntryPerPoint ==
    /\ pc \in {"loop", "evaluate"} =>
           Evaluated = Len(pointAccepted) + 1 + rejected
    /\ pc = "compare" => Evaluated = Len(pointAccepted) + 2 + rejected
    /\ pc = "done" => Evaluated = Len(pointAccepted)

\* What the memory holds is one point: the chi2 of the last accepted point is
\* the chi2 of the remembered parameter values, and the same is true of the
\* pair the next process starts from (FinalizeStatus, UpdatePropertyTree).
MemoryIsOnePoint ==
    /\ pc \in {"loop", "evaluate", "compare", "done"} => chi2Last = Chi2[parLast]
    /\ saved.iter # 0 => saved.chi2 = Chi2[saved.par]

\* The weight that is held back belongs to the tree entry it will be written
\* beside: without cuts, the entry after the written ones is the last accepted
\* point, whatever was proposed and rejected since.
PendingWeightIsOfLastAccepted ==
    (Passed = Points /\ pc \in {"loop", "evaluate", "compare"}) =>
        /\ Len(pointAccepted) < Len(tree)
        /\ tree[Len(pointAccepted) + 1].par = parLast
        /\ tree[Len(pointAccepted) + 1].chi2 = chi2Last

\* In an output file the branch PointAccepted has one entry per tree entry, so
\* that reading entry i of both gives the weight of point i.
BranchMatchesTree ==
    \A r \in 1 .. Len(archive) :
        Len(archive[r].pointAccepted) = Len(archive[r].tree)

Total(s) == FoldLeft(LAMBDA sum, w : sum + w, 0, s)

\* The weights of a file add up to the iterations it holds, but for the first
\* one of a chain that was resumed: its entry counts nothing by itself, whether
\* it repeats the saved point or the first step or a <Parameter> has moved it.
WeightsAddUp ==
    \A r \in 1 .. Len(archive) :
        LET f == archive[r]
        IN  Total(f.pointAccepted) = Len(f.pointAccepted) - (IF f.resumed THEN 1 ELSE 0)

\* The first point of a process, which is accepted untested, is inside when the
\* last one was: it is drawn until it is, or neither a step nor a <Parameter>
\* takes it out.
StartsInside ==
    StrictBounds \/ (~FirstPointMoves /\ \A p \in InBounds : Given(p) \in InBounds)

\* A chain that starts inside the bounds hands a point inside the bounds to the
\* next process, unless its first point may be put outside regardless of them.
SavedPointInBounds ==
    (StartPoint \in InBounds /\ StartsInside) => saved.par \in InBounds

\* Likewise a process goes on at a finite chi2 when no step moves its first
\* point and no <Parameter> puts it where the chi2 is infinite.
StartsFinite ==
    ~FirstPointMoves /\ \A p \in Points : Chi2[p] # Infinity => Chi2[Given(p)] # Infinity

\* Once a process has handed on a finite chi2, no later one hands on an
\* infinite one, although the first point of a run is accepted untested.
FiniteChi2IsKept ==
    [][(StartsFinite /\ saved.iter # 0 /\ saved.chi2 # Infinity)
           => saved'.chi2 # Infinity]_saved

\* The loop over the bounds can end at the first point (:237): a step of width
\* 0 from a point outside repeats that point for ever under strict bounds.
CanLeave == FirstPointMoves \/ ~StrictBounds \/ par \in InBounds

\* A process that does not die ends and leaves its output, from wherever the
\* first point can be drawn at all.
RunsEnd == (pc = "start" /\ CanLeave) ~> (pc = "off")

\* The counters and the late writing implement weights updated at once.
Open == pc \in {"loop", "evaluate", "compare"}
WC == INSTANCE WeightedChain WITH
          weights <- IF Open THEN pointAccepted \o PendingEntries ELSE pointAccepted,
          current <- IF Open THEN Len(pointAccepted) + 1 ELSE 0,
          position <- parLast
WeightsAreImmediate == WC!WCSpec
=============================================================================
