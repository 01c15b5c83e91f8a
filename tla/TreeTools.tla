----------------------------- MODULE TreeTools -----------------------------
(***************************************************************************)
(* The tools that work on the tree of an earlier run.  The model has one   *)
(* parameter, "Entry", and TreeCalculator: asking it for a chi2 loads the  *)
(* entry the parameter names, and an entry that is not in the tree leaves  *)
(* the one before in the quantities.  SimpleOptimizer looks for the best   *)
(* entry, TreeSampler copies entries, and the histogram makers fill their  *)
(* histograms entry by entry.  The tools of an input file run one after    *)
(* the other on the same model, so that each begins where the parameter    *)
(* and the quantities were left.                                           *)
(*                                                                         *)
(* Numbers are counted in tenths, chi2 in units of one.  Plots, the graphs *)
(* handed to the plotter and the choice of the leaves are left out.        *)
(***************************************************************************)
EXTENDS Integers, FiniteSets, Sequences, FiniteSetsExt

CONSTANTS
    Inputs,     \* the inputs: records with the fields
                \*   tree       sequence of entries, functions of the quantities
                \*   start, lower, upper   value and bounds of the parameter
                \*   plan       the tools, in their order
                \*   given      the IterationCounter and the Chi2 of each one's node
                \*   schedule   the histograms' axes: [quantity, log, lower,
                \*              upper, bins], bounds in tenths
                \*   criterion  AbortCriterion of the optimizer
                \*   step       error of the parameter, the optimizer's step
                \*   points     NumberOfIterations of the sampler
    Infinity    \* more than any chi2

Tools == {"SimpleOptimizer", "TreeSampler", "Simple1D", "Simple2D", "Simple3D",
          "Profile", "Contour", "Summary"}

\* With more than three scheduled quantities Simple3DHistogramMaker fills more
\* histograms than it has made.  A chi2 is not negative, and an optimizer whose node
\* gives no chi2 begins with more than any AbortCriterion.
ASSUME InputsAssumption ==
    /\ Infinity \in Int
    /\ \A i \in Inputs :
        /\ Len(i.tree) \in Nat
        /\ \A e \in 1 .. Len(i.tree) : i.tree[e].Chi2 \in Nat
        /\ i.start \in 0 .. Len(i.tree) - 1
        /\ i.lower \in 0 .. Len(i.tree) - 1
        /\ i.upper \in Int /\ i.upper >= i.lower
        /\ i.plan \in Seq(Tools) /\ i.plan # <<>>
        /\ \A k \in DOMAIN i.plan : i.given[k].iteration \in Nat /\ i.given[k].chi2 \in Int
        /\ Len(i.schedule) \in 1 .. 3
        /\ i.criterion \in Int /\ i.criterion < Infinity
        /\ i.step \in Nat \ {0}
        /\ i.points \in Nat \cup {-1}

VARIABLES
    input,      \* the input of this run
    model,      \* the parameter, whether the model is up to date, the entry loaded
    at,         \* the tool of the plan that is constructed or runs
    phase,      \* "construct", "execute" or "terminated"
    tool,       \* what that tool remembers
    output      \* the entries it has written

vars == <<input, model, at, phase, tool, output>>

-----------------------------------------------------------------------------
(* The model and its tree.                                                 *)

Entries == 0 .. Len(input.tree) - 1
ValueOf(quantity, e) == input.tree[e + 1][quantity]

\* Mutant: the setter does not say that the model is out of date.
SetQuietly(m, e) == [m EXCEPT !.entry = e]

SetValue(m, e) == [m EXCEPT !.entry = e, !.upToDate = FALSE]

\* TChain::GetEntry of an entry that is not there reads nothing.
CalculatePredictions(m) ==
    [m EXCEPT !.loaded = IF m.entry \in Entries THEN m.entry ELSE @, !.upToDate = TRUE]

Update(m) == IF m.upToDate THEN m ELSE CalculatePredictions(m)

Chi2(m) == ValueOf("Chi2", m.loaded)

-----------------------------------------------------------------------------
(* Axes and bins.                                                          *)

\* Powers of ten and their logarithms, in tenths.
Pow10(n) == 10 ^ (n \div 10 + 1)
Log10(v) == CHOOSE n \in {-10, 0, 10, 20, 30} : Pow10(n) = v

AxisBound(axis, bound) == IF axis.log THEN Log10(bound) ELSE bound

Edges(axis, raised) ==
    [i \in 0 .. axis.bins |->
        LET low == AxisBound(axis, axis.lower)
            x == low + (i * (AxisBound(axis, axis.upper) - low)) \div axis.bins
        IN  IF raised THEN Pow10(x) ELSE x]

\* Bin 0 is the underflow, the last but one edge begins the last bin.
FindBin(edges, v) == Cardinality({i \in DOMAIN edges : edges[i] <= v})

\* The edges go back to the quantity's scale when the logarithm of the lower
\* bound is positive; the value never does.
LoggedBin(axis, v) ==
    FindBin(Edges(axis, axis.log /\ AxisBound(axis, axis.lower) > 0),
            IF axis.log THEN Log10(v) ELSE v)

\* In two dimensions edges and value have the quantity's scale.
PlainBin(axis, v) == FindBin(Edges(axis, axis.log), v)

\* A histogram is named by the scheduled quantities of its axes; the third
\* quantity of Simple3DHistogramMaker is the one after the second.
HistogramsOf(kind) ==
    LET n == Len(input.schedule)
    IN  CASE kind \in {"Simple1D", "Profile", "Summary"} -> {<<i>> : i \in 1 .. n}
          [] kind \in {"Simple2D", "Contour"} ->
                 {h \in (1 .. n) \X (1 .. n) : h[1] < h[2]}
          [] kind = "Simple3D" ->
                 {h \in (1 .. n) \X (1 .. n) : h[1] < h[2] /\ h[2] < n}

\* The summary has one axis for all its quantities.
AxisOf(kind, h, k) == input.schedule[IF kind = "Summary" THEN 1 ELSE h[k]]

BinOf(kind, h, e) ==
    [k \in DOMAIN h |->
        LET axis == AxisOf(kind, h, k)
            v == ValueOf(input.schedule[h[k]].quantity, e)
        IN  IF kind \in {"Simple2D", "Contour"} THEN PlainBin(axis, v)
                                                ELSE LoggedBin(axis, v)]

Bins(kind, h) ==
    {b \in [DOMAIN h -> 0 .. 1 + Max({a.bins : a \in {input.schedule[i] : i \in DOMAIN input.schedule}})] :
        \A k \in DOMAIN h : b[k] <= AxisOf(kind, h, k).bins + 1}

FilledWith(kind, content) ==
    [h \in HistogramsOf(kind) |-> [b \in Bins(kind, h) |-> content]]

-----------------------------------------------------------------------------
Start(e) == [entry |-> e, upToDate |-> TRUE, loaded |-> 0]

NewTool(kind) ==
    [kind |-> kind, given |-> [iteration |-> 0, chi2 |-> Infinity], iteration |-> 0, iEntry |-> 0,
     chi2 |-> Infinity, bestEntry |-> 0, lowest |-> Infinity, contents |-> <<>>, oneSigma |-> <<>>]

\* An AnalysisTool begins with what its node says.
NewAnalysisTool(kind) ==
    [NewTool(kind) EXCEPT !.given = input.given[at], !.chi2 = input.given[at].chi2]

\* _iterationCounter, of which "iteration" is the part of this run.
IterationCounter == tool.given.iteration + tool.iteration

\* TreeCalculator loads the entry when it is made; the parameter is new and
\* the model is therefore evaluated again when it is asked.
Init ==
    /\ input \in Inputs
    /\ model = SetValue(CalculatePredictions(Start(input.start)), input.start)
    /\ at = 1
    /\ phase = "construct"
    /\ tool = NewTool("TreeSampler")
    /\ output = <<>>

Construct(kinds) == phase = "construct" /\ input.plan[at] \in kinds

\* Every tool begins its output file anew.
Constructed ==
    /\ phase' = "execute"
    /\ output' = <<>>
    /\ UNCHANGED <<input, at>>

Execute(kinds) == phase = "execute" /\ tool.kind \in kinds

Go == UNCHANGED <<input, at, phase>>

Terminate ==
    /\ phase' = "terminated"
    /\ UNCHANGED <<input, at>>

FillTree(m) == output' = Append(output, [entry |-> m.entry, shown |-> m.loaded])

-----------------------------------------------------------------------------
(* SimpleOptimizer in the loop of OptimizerBase.                           *)

MakeOptimizer ==
    /\ Construct({"SimpleOptimizer"})
    /\ tool' = [NewAnalysisTool("SimpleOptimizer") EXCEPT
                   !.iEntry = model.entry, !.bestEntry = model.entry]
    /\ Constructed
    /\ UNCHANGED model

Optimizing == tool.chi2 > input.criterion /\ IterationCounter < Len(input.tree)

\* Mutant: an entry as good as the best one takes its place.
LatestEntry(best, tried) ==
    IF Chi2(tried) <= Chi2(best) THEN tried.entry ELSE tool.bestEntry

BestEntry(best, tried) ==
    IF Chi2(tried) < Chi2(best) THEN tried.entry ELSE tool.bestEntry

\* The best entry is evaluated again, the next one tried and the parameter put
\* back to the better of the two.
Optimize ==
    /\ Execute({"SimpleOptimizer"})
    /\ Optimizing
    /\ LET best == Update(model)
           tried == Update(SetValue(best, tool.iEntry + input.step))
       IN  /\ tool' = [tool EXCEPT !.iteration = @ + 1, !.iEntry = tried.entry,
                                   !.bestEntry = BestEntry(best, tried),
                                   !.chi2 = Min({Chi2(tried), Chi2(best)})]
           /\ model' = SetValue(tried, BestEntry(best, tried))
    /\ Go
    /\ UNCHANGED output

EndOptimizer ==
    /\ Execute({"SimpleOptimizer"})
    /\ ~Optimizing
    /\ FillTree(model)
    /\ Terminate
    /\ UNCHANGED <<model, tool>>

-----------------------------------------------------------------------------
(* TreeSampler.                                                            *)

MakeSampler ==
    /\ Construct({"TreeSampler"})
    /\ tool' = NewAnalysisTool("TreeSampler")
    /\ Constructed
    /\ UNCHANGED model

\* A number of -1 stands for the entries of the input tree.
NumberOfIterations == IF input.points = -1 THEN Len(input.tree) ELSE input.points

Sample ==
    /\ Execute({"TreeSampler"})
    /\ IterationCounter < NumberOfIterations
    /\ LET m == Update(model)
       IN  /\ tool' = [tool EXCEPT !.iteration = @ + 1, !.chi2 = Chi2(m)]
           /\ FillTree(m)
           /\ model' = SetValue(m, m.entry + 1)
    /\ Go

EndSampler ==
    /\ Execute({"TreeSampler"})
    /\ IterationCounter >= NumberOfIterations
    /\ Terminate
    /\ UNCHANGED <<model, tool, output>>

-----------------------------------------------------------------------------
(* The histogram makers.                                                   *)

Simple == {"Simple1D", "Simple2D", "Simple3D"}

MakeSimple ==
    /\ Construct(Simple)
    /\ tool' = [NewTool(input.plan[at]) EXCEPT !.iEntry = input.lower,
                                               !.contents = FilledWith(input.plan[at], 0)]
    /\ Constructed
    /\ UNCHANGED model

\* The entry found when the tool is made is taken for the best.
MakeProfile ==
    /\ Construct({"Profile", "Contour"})
    /\ LET m == Update(SetValue(model, model.entry))
       IN  /\ tool' = [NewTool(input.plan[at]) EXCEPT
                          !.iEntry = input.lower, !.bestEntry = m.entry, !.lowest = Chi2(m),
                          !.contents = FilledWith(input.plan[at], 10)]
           /\ model' = SetValue(m, input.lower)
    /\ Constructed

MakeSummary ==
    /\ Construct({"Summary"})
    /\ LET m == Update(model)
       IN  /\ tool' = [NewTool("Summary") EXCEPT
                          !.iteration = input.lower, !.bestEntry = m.entry, !.lowest = Chi2(m),
                          !.contents = FilledWith("Summary", 0),
                          !.oneSigma = FilledWith("Summary", 0)]
           /\ model' = SetValue(m, input.lower)
    /\ Constructed

\* The content the entry e gives a bin of histogram h that held old.
Counted(h, e, old) == old + 1

ThirdQuantity(h, e, old) == ValueOf(input.schedule[h[2] + 1].quantity, e)

\* Mutant: the latest chi2 is shown, not the lowest.
LatestProfiled(h, e, old) ==
    LET normalizedChi2 == ValueOf("Chi2", e) - tool.lowest
    IN  IF normalizedChi2 < 10 THEN normalizedChi2 ELSE old

Profiled(h, e, old) ==
    LET normalizedChi2 == ValueOf("Chi2", e) - tool.lowest
    IN  IF normalizedChi2 < old THEN normalizedChi2 ELSE old

Content(h, e, old) ==
    CASE tool.kind \in {"Simple1D", "Simple2D"} -> Counted(h, e, old)
      [] tool.kind = "Simple3D" -> ThirdQuantity(h, e, old)
      [] OTHER -> Profiled(h, e, old)

Filled(contents, e) ==
    [h \in DOMAIN contents |->
        [contents[h] EXCEPT ![BinOf(tool.kind, h, e)] = Content(h, e, @)]]

FillHistograms ==
    /\ tool.iteration < input.upper - input.lower
    /\ LET m == Update(SetValue(model, tool.iEntry))
       IN  /\ model' = m
           /\ tool' = [tool EXCEPT
                  !.iteration = @ + 1, !.iEntry = @ + 1,
                  !.contents = Filled(@, m.loaded)]
    /\ Go
    /\ UNCHANGED output

Count == Execute({"Simple1D", "Simple2D"}) /\ FillHistograms
ShowThird == Execute({"Simple3D"}) /\ FillHistograms
ProfileChi2 == Execute({"Profile", "Contour"}) /\ FillHistograms

EndHistograms ==
    /\ Execute(Simple \union {"Profile", "Contour"})
    /\ tool.iteration >= input.upper - input.lower
    /\ Terminate
    /\ UNCHANGED <<model, tool, output>>

\* 1.2 within one sigma, 0.8 between one and two, in tenths.
MarkBins(contents, e, content) ==
    [h \in DOMAIN contents |-> [contents[h] EXCEPT ![BinOf("Summary", h, e)] = content]]

Summarize ==
    /\ Execute({"Summary"})
    /\ tool.iteration < input.upper
    /\ LET m == Update(SetValue(model, tool.iteration))
           normalizedChi2 == Chi2(m) - tool.lowest
       IN  /\ model' = m
           /\ tool' = [tool EXCEPT
                  !.iteration = @ + 1,
                  !.oneSigma = IF normalizedChi2 <= 1 THEN MarkBins(@, m.loaded, 12) ELSE @,
                  !.contents = IF normalizedChi2 \in 2 .. 4 THEN MarkBins(@, m.loaded, 8) ELSE @]
    /\ Go
    /\ UNCHANGED output

EndSummary ==
    /\ Execute({"Summary"})
    /\ tool.iteration >= input.upper
    /\ tool' = [tool EXCEPT !.contents =
                   [h \in DOMAIN @ |-> [b \in DOMAIN @[h] |-> @[h][b] + tool.oneSigma[h][b]]]]
    /\ Terminate
    /\ UNCHANGED <<model, output>>

-----------------------------------------------------------------------------
NextTool ==
    /\ phase = "terminated"
    /\ at < Len(input.plan)
    /\ at' = at + 1
    /\ phase' = "construct"
    /\ UNCHANGED <<input, model, tool, output>>

Next ==
    \/ MakeOptimizer \/ Optimize \/ EndOptimizer
    \/ MakeSampler \/ Sample \/ EndSampler
    \/ MakeSimple \/ MakeProfile \/ MakeSummary
    \/ Count \/ ShowThird \/ ProfileChi2 \/ EndHistograms
    \/ Summarize \/ EndSummary
    \/ NextTool

Spec == Init /\ [][Next]_vars

-----------------------------------------------------------------------------
\* A tool that neither its IterationCounter nor its Chi2 stops short.
BeginsAnew(given) == given.iteration = 0 /\ given.chi2 > input.criterion

\* The entry the optimizer began at, and those it has come to.
FirstEntry == tool.iEntry - tool.iteration * input.step
Reached(e) == \E n \in 0 .. tool.iteration : e = FirstEntry + n * input.step

\* The optimizer leaves the parameter at an entry with the lowest chi2 of those
\* it has come to, from its first on in its steps; if it began anew, these are
\* all there are or one has met the abort criterion; and a tool made after
\* an optimizer that has seen the whole tree measures from the lowest chi2 of
\* the tree.
OptimumIsLowest ==
    /\ tool.kind = "SimpleOptimizer" /\ phase = "terminated" /\ FirstEntry \in Entries =>
          LET reached == {e \in Entries : Reached(e)}
              ahead == {e \in Entries : e >= FirstEntry /\ (e - FirstEntry) % input.step = 0}
          IN  /\ model.entry \in reached
              /\ \A e \in reached : ValueOf("Chi2", model.entry) <= ValueOf("Chi2", e)
              /\ BeginsAnew(tool.given) =>
                     ValueOf("Chi2", model.entry) <= input.criterion \/ reached = ahead
    /\ /\ at = 2 /\ phase # "construct"
       /\ tool.kind \in {"Profile", "Contour", "Summary"}
       /\ input.plan[1] = "SimpleOptimizer"
       /\ input.start = 0 /\ input.step = 1 /\ input.criterion = 0
       /\ BeginsAnew(input.given[1])
       => tool.lowest = Min({ValueOf("Chi2", e) : e \in Entries})

\* What is written for an entry are this entry's quantities, and the sampler
\* writes each entry from its first on, and the last one again for each entry
\* past the end.  An optimizer that stops at its first entry, or short of the
\* end, is the exception: it may have just tried another.
EntriesAreTheirOwn ==
    (tool.kind = "SimpleOptimizer" => BeginsAnew(tool.given) /\ tool.iteration # 1) =>
        \A k \in DOMAIN output :
            /\ output[k].entry \in Entries => output[k].shown = output[k].entry
            /\ output[1].entry \in Entries /\ output[k].entry \notin Entries =>
                   output[k].shown = Len(input.tree) - 1
            /\ output[k].entry = output[1].entry + k - 1

\* Past the end the last entry stands in.
EntryOf(p) == IF p \in Entries THEN p ELSE Len(input.tree) - 1

\* The bin an entry's values belong to.
TrueBin(kind, h, e) ==
    [k \in DOMAIN h |->
        LET axis == AxisOf(kind, h, k)
            v == ValueOf(input.schedule[h[k]].quantity, e)
        IN  FindBin(Edges(axis, FALSE), IF axis.log THEN Log10(v) ELSE v)]

Delta(p) == ValueOf("Chi2", EntryOf(p)) - tool.lowest

\* What some entries say in the bin they belong to.
Said(kind, h, points) ==
    CASE kind \in {"Simple1D", "Simple2D"} -> Cardinality(points)
      [] kind = "Simple3D" ->
             IF points = {} THEN 0
             ELSE ValueOf(input.schedule[h[2] + 1].quantity, EntryOf(Max(points)))
      [] kind \in {"Profile", "Contour"} -> Min({10} \union {Delta(p) : p \in points})
      [] kind = "Summary" ->
             (IF \E p \in points : Delta(p) <= 1 THEN 12 ELSE 0)
           + (IF \E p \in points : Delta(p) > 1 /\ Delta(p) <= 4 THEN 8 ELSE 0)

\* The histograms of a tool that has ended say what the entries between the
\* bounds of the parameter say, in the bins their values belong to: how often,
\* the third quantity of the last, the lowest chi2 up to ten above the best, or
\* the regions of one and two sigma.
HistogramIsOfTheTree ==
    tool.kind \notin {"SimpleOptimizer", "TreeSampler"} /\ phase = "terminated" =>
        \A h \in DOMAIN tool.contents : \A b \in DOMAIN tool.contents[h] :
            tool.contents[h][b] =
                Said(tool.kind, h, {p \in input.lower .. input.upper - 1 :
                                        TrueBin(tool.kind, h, EntryOf(p)) = b})

\* A logarithmic axis of the input i begins at one or below, and raising the edges
\* keeps the entries of the tree in their bins.
AxesAreTrue(i) ==
    \A a \in 1 .. Len(i.schedule) : i.schedule[a].log =>
        /\ ~(AxisBound(i.schedule[a], i.schedule[a].lower) > 0)
        /\ \A e \in 1 .. Len(i.tree) :
              LET v == i.tree[e][i.schedule[a].quantity]
              IN  PlainBin(i.schedule[a], v) = FindBin(Edges(i.schedule[a], FALSE), Log10(v))
=============================================================================
