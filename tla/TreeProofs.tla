------------------------------ MODULE TreeProofs ------------------------------
(***************************************************************************)
(* The tools that read a tree, for trees of any length, any chi2, any      *)
(* steps and any plan of tools.                                            *)
(***************************************************************************)
EXTENDS TreeTools, FiniteSetTheorems, TLAPS

-----------------------------------------------------------------------------
(***************************************************************************)
(* The model.                                                              *)
(***************************************************************************)
Models == [entry : Nat, upToDate : BOOLEAN, loaded : Entries]

\* An entry the model has evaluated is the one that is loaded, if there is one.
IsLoaded(m) == m.upToDate /\ m.entry \in Entries => m.loaded = m.entry

\* What is assumed of the input of this run.
LEMMA InputFacts ==
    ASSUME input \in Inputs
    PROVE  /\ Len(input.tree) \in Nat
           /\ \A e \in Entries : ValueOf("Chi2", e) \in Nat
           /\ \A e : e \in Entries <=> e \in Nat /\ e < Len(input.tree)
           /\ input.start \in Entries
           /\ input.lower \in Entries
           /\ input.upper \in Int /\ input.upper >= input.lower
           /\ input.criterion \in Int /\ input.criterion < Infinity
           /\ input.step \in Nat /\ input.step > 0
           /\ input.points \in Int
           /\ Infinity \in Int
<1>1. /\ Len(input.tree) \in Nat
      /\ \A e \in 1 .. Len(input.tree) : input.tree[e].Chi2 \in Nat
  BY InputsAssumption
<1>2. ASSUME NEW e \in Entries PROVE ValueOf("Chi2", e) \in Nat
  <2>1. e + 1 \in 1 .. Len(input.tree)
    BY <1>1 DEF Entries
  <2> QED
    BY <1>1, <2>1 DEF ValueOf
<1> QED
  BY <1>1, <1>2, InputsAssumption DEF Entries

LEMMA PlanFacts ==
    ASSUME input \in Inputs
    PROVE  /\ Len(input.plan) \in Nat \ {0}
           /\ \A k \in 1 .. Len(input.plan) :
                 input.given[k].iteration \in Nat /\ input.given[k].chi2 \in Int
<1>1. /\ input.plan \in Seq(Tools) /\ input.plan # << >>
      /\ \A k \in DOMAIN input.plan :
            input.given[k].iteration \in Nat /\ input.given[k].chi2 \in Int
  BY InputsAssumption
<1>2. DOMAIN input.plan = 1 .. Len(input.plan) /\ Len(input.plan) \in Nat /\ Len(input.plan) # 0
  BY <1>1
<1> QED
  BY <1>1, <1>2

LEMMA SetValueSets ==
    ASSUME NEW m \in Models, NEW e \in Nat
    PROVE  /\ SetValue(m, e) \in Models
           /\ SetValue(m, e).entry = e
           /\ ~SetValue(m, e).upToDate
           /\ SetValue(m, e).loaded = m.loaded
           /\ IsLoaded(SetValue(m, e))
BY DEF SetValue, Models, IsLoaded

LEMMA UpdateLoads ==
    ASSUME NEW m \in Models, IsLoaded(m)
    PROVE  /\ Update(m) \in Models
           /\ Update(m).entry = m.entry
           /\ Update(m).upToDate
           /\ Update(m).loaded = IF m.entry \in Entries THEN m.entry ELSE m.loaded
           /\ IsLoaded(Update(m))
BY DEF Update, CalculatePredictions, Models, IsLoaded

-----------------------------------------------------------------------------
(***************************************************************************)
(* Types.                                                                  *)
(***************************************************************************)
Fields == {"kind", "given", "iteration", "iEntry", "chi2", "bestEntry", "lowest", "contents",
           "oneSigma"}

TreeTypes ==
    /\ input \in Inputs
    /\ model \in Models
    /\ IsLoaded(model)
    /\ at \in 1 .. Len(input.plan)
    /\ phase \in {"construct", "execute", "terminated"}
    /\ DOMAIN tool = Fields
    /\ tool.kind \in Tools
    /\ tool.given.iteration \in Nat
    /\ tool.given.chi2 \in Int
    /\ tool.iteration \in Nat
    /\ tool.iEntry \in Nat
    /\ tool.chi2 \in Int
    /\ tool.bestEntry \in Nat
    /\ tool.lowest \in Int

\* The numbers the steps count with.
LEMMA CountedNumbers ==
    ASSUME TreeTypes
    PROVE  /\ input.step \in Nat
           /\ tool.iEntry \in Nat
           /\ tool.iteration \in Int
           /\ input.upper - input.lower \in Int
           /\ \A e \in Entries : ValueOf("Chi2", e) \in Int
<1>1. input \in Inputs /\ tool.iEntry \in Nat /\ tool.iteration \in Nat
  BY DEF TreeTypes
<1>2. /\ input.step \in Nat
      /\ input.lower \in Entries /\ input.upper \in Int
      /\ \A e : e \in Entries <=> e \in Nat /\ e < Len(input.tree)
      /\ \A e \in Entries : ValueOf("Chi2", e) \in Nat
  BY <1>1, InputFacts
<1>3. input.lower \in Nat
  BY <1>2
<1>4. input.upper - input.lower \in Int
  BY <1>2, <1>3
<1> QED
  BY <1>1, <1>2, <1>4

LEMMA NewToolTypes ==
    ASSUME NEW kind
    PROVE  /\ DOMAIN NewTool(kind) = Fields
           /\ NewTool(kind).kind = kind
           /\ NewTool(kind).given.iteration = 0
           /\ NewTool(kind).given.chi2 = Infinity
           /\ NewTool(kind).iteration = 0
           /\ NewTool(kind).iEntry = 0
           /\ NewTool(kind).chi2 = Infinity
           /\ NewTool(kind).bestEntry = 0
           /\ NewTool(kind).lowest = Infinity
BY DEF NewTool, Fields

LEMMA NewAnalysisToolTypes ==
    ASSUME NEW kind
    PROVE  /\ DOMAIN NewAnalysisTool(kind) = Fields
           /\ NewAnalysisTool(kind).kind = kind
           /\ NewAnalysisTool(kind).given = input.given[at]
           /\ NewAnalysisTool(kind).iteration = 0
           /\ NewAnalysisTool(kind).iEntry = 0
           /\ NewAnalysisTool(kind).chi2 = input.given[at].chi2
           /\ NewAnalysisTool(kind).bestEntry = 0
           /\ NewAnalysisTool(kind).lowest = Infinity
BY DEF NewAnalysisTool, NewTool, Fields

LEMMA Chi2Type ==
    ASSUME input \in Inputs, NEW m \in Models
    PROVE  Chi2(m) \in Nat /\ Chi2(m) = ValueOf("Chi2", m.loaded) /\ m.loaded \in Entries
BY InputFacts DEF Chi2, Models

\* The smaller of two numbers.
LEMMA MinOfTwo ==
    ASSUME NEW a \in Int, NEW b \in Int
    PROVE  Min({a, b}) = IF a <= b THEN a ELSE b
<1>1. ASSUME NEW c \in {a, b}, c <= a, c <= b PROVE Min({a, b}) = c
  <2>1. \A x \in {a, b} : (\A y \in {a, b} : x <= y) => x = c
    BY <1>1
  <2>2. \E x \in {a, b} : \A y \in {a, b} : x <= y
    BY <1>1
  <2> QED
    BY <2>1, <2>2 DEF Min
<1> QED
  BY <1>1

LEMMA MinIsLeast ==
    ASSUME NEW S, S \subseteq Int, NEW m \in S, \A v \in S : m <= v
    PROVE  Min(S) = m
<1>1. ASSUME NEW v \in S, \A w \in S : v <= w PROVE v = m
  <2>1. v \in Int /\ m \in Int /\ v <= m /\ m <= v
    BY <1>1
  <2> QED
    BY <2>1
<1>2. \E x \in S : \A y \in S : x <= y
  OBVIOUS
<1> QED
  BY <1>1, <1>2 DEF Min

\* What the steps of the optimizer do, in names.
LEMMA OptimizeStep ==
    ASSUME TreeTypes, Optimize,
           NEW best, best = Update(model),
           NEW tried, tried = Update(SetValue(best, tool.iEntry + input.step))
    PROVE  /\ best \in Models /\ tried \in Models
           /\ best.entry = model.entry
           /\ best.loaded = IF model.entry \in Entries THEN model.entry ELSE model.loaded
           /\ tried.entry = tool.iEntry + input.step
           /\ tried.loaded = IF tried.entry \in Entries THEN tried.entry ELSE best.loaded
           /\ tool.kind = "SimpleOptimizer" /\ phase = "execute"
           /\ tool.chi2 > input.criterion /\ IterationCounter < Len(input.tree)
           /\ tool'.kind = tool.kind
           /\ tool'.given = tool.given
           /\ tool'.iteration = tool.iteration + 1
           /\ tool'.iEntry = tried.entry
           /\ tool'.bestEntry = BestEntry(best, tried)
           /\ tool'.chi2 = IF Chi2(tried) <= Chi2(best) THEN Chi2(tried) ELSE Chi2(best)
           /\ tool'.lowest = tool.lowest
           /\ DOMAIN tool' = Fields
           /\ BestEntry(best, tried) \in Nat
           /\ model' = SetValue(tried, BestEntry(best, tried))
           /\ UNCHANGED <<input, at, phase, output>>
<1>1. input.step \in Nat /\ tool.iEntry + input.step \in Nat
  BY CountedNumbers
<1>2. best \in Models /\ best.entry = model.entry /\ IsLoaded(best)
      /\ best.loaded = IF model.entry \in Entries THEN model.entry ELSE model.loaded
  BY UpdateLoads DEF TreeTypes
<1>3. PICK set \in Models : /\ set = SetValue(best, tool.iEntry + input.step)
                            /\ set.entry = tool.iEntry + input.step
                            /\ set.loaded = best.loaded
                            /\ IsLoaded(set)
  BY <1>1, <1>2, SetValueSets
<1>4. /\ tried \in Models
      /\ tried.entry = tool.iEntry + input.step
      /\ tried.loaded = IF tried.entry \in Entries THEN tried.entry ELSE best.loaded
  BY <1>3, UpdateLoads
<1>5. BestEntry(best, tried) \in Nat
  BY <1>1, <1>4 DEF BestEntry, TreeTypes
<1>6. /\ tool' = [tool EXCEPT !.iteration = @ + 1, !.iEntry = tried.entry,
                              !.bestEntry = BestEntry(best, tried),
                              !.chi2 = Min({Chi2(tried), Chi2(best)})]
      /\ model' = SetValue(tried, BestEntry(best, tried))
  BY DEF Optimize
<1>7. Min({Chi2(tried), Chi2(best)}) = IF Chi2(tried) <= Chi2(best) THEN Chi2(tried) ELSE Chi2(best)
  BY <1>2, <1>4, Chi2Type, MinOfTwo DEF TreeTypes
<1>8. /\ tool'.kind = tool.kind
      /\ tool'.given = tool.given
      /\ tool'.iteration = tool.iteration + 1
      /\ tool'.iEntry = tried.entry
      /\ tool'.bestEntry = BestEntry(best, tried)
      /\ tool'.chi2 = Min({Chi2(tried), Chi2(best)})
      /\ tool'.lowest = tool.lowest
      /\ DOMAIN tool' = Fields
  BY <1>6 DEF TreeTypes, Fields
<1>9. /\ tool.kind = "SimpleOptimizer" /\ phase = "execute"
      /\ tool.chi2 > input.criterion /\ IterationCounter < Len(input.tree)
      /\ UNCHANGED <<input, at, phase, output>>
  BY DEF Optimize, Execute, Optimizing, Go
<1> QED
  BY <1>2, <1>4, <1>5, <1>6, <1>7, <1>8, <1>9

\* The constructors that leave the model alone.
LEMMA MakeWithoutModel ==
    ASSUME TreeTypes, MakeOptimizer \/ MakeSampler \/ MakeSimple
    PROVE  /\ phase = "construct" /\ phase' = "execute" /\ output' = << >>
           /\ UNCHANGED <<input, at, model>>
           /\ DOMAIN tool' = Fields
           /\ tool'.kind = input.plan[at]
           /\ tool'.kind \in {"SimpleOptimizer", "TreeSampler"} \cup Simple
           /\ tool'.iteration = 0
           /\ tool'.given.iteration \in Nat
           /\ tool'.given.chi2 \in Int
           /\ tool'.chi2 \in Int
           /\ tool'.lowest = Infinity
           /\ tool'.iEntry \in Nat /\ tool'.bestEntry \in Nat
           /\ tool'.kind = "SimpleOptimizer" =>
                  /\ tool'.iEntry = model.entry /\ tool'.bestEntry = model.entry
                  /\ tool'.given = input.given[at] /\ tool'.chi2 = tool'.given.chi2
           /\ tool'.kind \in Simple =>
                  /\ tool'.iEntry = input.lower
                  /\ tool'.contents = FilledWith(tool'.kind, 0)
<1>0. /\ model.entry \in Nat /\ input.lower \in Nat /\ Infinity \in Int
      /\ input.given[at].iteration \in Nat /\ input.given[at].chi2 \in Int
  BY InputFacts, PlanFacts DEF TreeTypes, Models
<1>1. /\ phase = "construct" /\ phase' = "execute" /\ output' = << >>
      /\ UNCHANGED <<input, at, model>>
  BY DEF MakeOptimizer, MakeSampler, MakeSimple, Construct, Constructed
<1>2. CASE MakeOptimizer
  <2>1. /\ tool' = [NewAnalysisTool("SimpleOptimizer") EXCEPT !.iEntry = model.entry,
                                                              !.bestEntry = model.entry]
        /\ input.plan[at] = "SimpleOptimizer"
    BY <1>2 DEF MakeOptimizer, Construct
  <2>2. /\ DOMAIN tool' = Fields
        /\ tool'.kind = "SimpleOptimizer"
        /\ tool'.given = input.given[at] /\ tool'.chi2 = input.given[at].chi2
        /\ tool'.iteration = 0 /\ tool'.lowest = Infinity
        /\ tool'.iEntry = model.entry /\ tool'.bestEntry = model.entry
    BY <2>1, NewAnalysisToolTypes DEF Fields
  <2> QED
    BY <1>0, <1>1, <2>1, <2>2 DEF Simple
<1>3. CASE MakeSampler
  <2>1. tool' = NewAnalysisTool("TreeSampler") /\ input.plan[at] = "TreeSampler"
    BY <1>3 DEF MakeSampler, Construct
  <2> QED
    BY <1>0, <1>1, <2>1, NewAnalysisToolTypes DEF Simple
<1>4. CASE MakeSimple
  <2>1. /\ tool' = [NewTool(input.plan[at]) EXCEPT !.iEntry = input.lower,
                                                   !.contents = FilledWith(input.plan[at], 0)]
        /\ input.plan[at] \in Simple
    BY <1>4 DEF MakeSimple, Construct
  <2>2. /\ DOMAIN tool' = Fields
        /\ tool'.kind = input.plan[at]
        /\ tool'.given.iteration = 0 /\ tool'.given.chi2 = Infinity
        /\ tool'.iteration = 0 /\ tool'.chi2 = Infinity /\ tool'.lowest = Infinity
        /\ tool'.iEntry = input.lower /\ tool'.bestEntry = 0
        /\ tool'.contents = FilledWith(input.plan[at], 0)
    BY <2>1, NewToolTypes DEF Fields
  <2> QED
    BY <1>0, <1>1, <2>1, <2>2 DEF Simple
<1> QED
  BY <1>2, <1>3, <1>4

\* Those that evaluate the model as they find it.
LEMMA MakeWithModel ==
    ASSUME TreeTypes, MakeProfile \/ MakeSummary
    PROVE  /\ phase = "construct" /\ phase' = "execute" /\ output' = << >>
           /\ UNCHANGED <<input, at>>
           /\ DOMAIN tool' = Fields
           /\ tool'.kind = input.plan[at]
           /\ tool'.kind \in {"Profile", "Contour", "Summary"}
           /\ tool'.given.iteration = 0 /\ tool'.given.chi2 = Infinity
           /\ tool'.iteration = IF tool'.kind = "Summary" THEN input.lower ELSE 0
           /\ tool'.iEntry = IF tool'.kind = "Summary" THEN 0 ELSE input.lower
           /\ tool'.chi2 = Infinity
           /\ tool'.bestEntry \in Nat
           /\ tool'.lowest \in Nat
           /\ model.entry \in Entries => tool'.lowest = ValueOf("Chi2", model.entry)
           /\ tool'.contents = FilledWith(tool'.kind, IF tool'.kind = "Summary" THEN 0 ELSE 10)
           /\ tool'.kind = "Summary" => tool'.oneSigma = FilledWith("Summary", 0)
           /\ model' \in Models
           /\ IsLoaded(model')
           /\ model'.entry = input.lower
<1>0. model.entry \in Nat /\ model \in Models /\ IsLoaded(model) /\ input.lower \in Nat
  BY InputFacts DEF TreeTypes, Models
<1>1. /\ phase = "construct" /\ phase' = "execute" /\ output' = << >>
      /\ UNCHANGED <<input, at>>
  BY DEF MakeProfile, MakeSummary, Construct, Constructed
<1>2. ASSUME NEW m, m = Update(model) \/ m = Update(SetValue(model, model.entry)),
             model' = SetValue(m, input.lower)
      PROVE  /\ m.entry \in Nat
             /\ Chi2(m) \in Nat
             /\ model.entry \in Entries => Chi2(m) = ValueOf("Chi2", model.entry)
             /\ model' \in Models
             /\ IsLoaded(model')
             /\ model'.entry = input.lower
  <2>1. PICK from \in Models : m = Update(from) /\ IsLoaded(from) /\ from.entry = model.entry
    BY <1>0, <1>2, SetValueSets
  <2>2. /\ m \in Models
        /\ m.entry = model.entry
        /\ model.entry \in Entries => m.loaded = model.entry
    BY <2>1, UpdateLoads
  <2> QED
    BY <1>0, <1>2, <2>2, SetValueSets, Chi2Type DEF TreeTypes
<1>3. CASE MakeProfile
  <2> DEFINE m == Update(SetValue(model, model.entry))
  <2>1. /\ tool' = [NewTool(input.plan[at]) EXCEPT
                       !.iEntry = input.lower, !.bestEntry = m.entry, !.lowest = Chi2(m),
                       !.contents = FilledWith(input.plan[at], 10)]
        /\ model' = SetValue(m, input.lower)
        /\ input.plan[at] \in {"Profile", "Contour"}
    BY <1>3 DEF MakeProfile, Construct
  <2> HIDE DEF m
  <2>2. /\ DOMAIN tool' = Fields
        /\ tool'.kind = input.plan[at]
        /\ tool'.given.iteration = 0 /\ tool'.given.chi2 = Infinity
        /\ tool'.iteration = 0 /\ tool'.chi2 = Infinity
        /\ tool'.iEntry = input.lower /\ tool'.bestEntry = m.entry /\ tool'.lowest = Chi2(m)
        /\ tool'.contents = FilledWith(input.plan[at], 10)
    BY <2>1, NewToolTypes DEF Fields
  <2>3. m = Update(SetValue(model, model.entry))
    BY DEF m
  <2>4. /\ m.entry \in Nat
        /\ Chi2(m) \in Nat
        /\ model.entry \in Entries => Chi2(m) = ValueOf("Chi2", model.entry)
        /\ model' \in Models /\ IsLoaded(model') /\ model'.entry = input.lower
    BY <1>2, <2>1, <2>3
  <2> QED
    BY <1>1, <2>1, <2>2, <2>4
<1>4. CASE MakeSummary
  <2> DEFINE m == Update(model)
  <2>1. /\ tool' = [NewTool("Summary") EXCEPT
                       !.iteration = input.lower, !.bestEntry = m.entry, !.lowest = Chi2(m),
                       !.contents = FilledWith("Summary", 0),
                       !.oneSigma = FilledWith("Summary", 0)]
        /\ model' = SetValue(m, input.lower)
        /\ input.plan[at] = "Summary"
    BY <1>4 DEF MakeSummary, Construct
  <2> HIDE DEF m
  <2>2. /\ DOMAIN tool' = Fields
        /\ tool'.kind = "Summary"
        /\ tool'.given.iteration = 0 /\ tool'.given.chi2 = Infinity
        /\ tool'.iteration = input.lower /\ tool'.chi2 = Infinity
        /\ tool'.iEntry = 0 /\ tool'.bestEntry = m.entry /\ tool'.lowest = Chi2(m)
        /\ tool'.contents = FilledWith("Summary", 0)
        /\ tool'.oneSigma = FilledWith("Summary", 0)
    BY <2>1, NewToolTypes DEF Fields
  <2>3. m = Update(model)
    BY DEF m
  <2>4. /\ m.entry \in Nat
        /\ Chi2(m) \in Nat
        /\ model.entry \in Entries => Chi2(m) = ValueOf("Chi2", model.entry)
        /\ model' \in Models /\ IsLoaded(model') /\ model'.entry = input.lower
    BY <1>2, <2>1, <2>3
  <2> QED
    BY <1>1, <2>1, <2>2, <2>4
<1> QED
  BY <1>3, <1>4

\* The sampler evaluates an entry, writes it and goes on to the next.
LEMMA SampleStep ==
    ASSUME TreeTypes, Sample
    PROVE  /\ tool.kind = "TreeSampler" /\ phase = "execute"
           /\ UNCHANGED <<input, at, phase>>
           /\ DOMAIN tool' = Fields
           /\ tool'.kind = tool.kind
           /\ tool'.given = tool.given
           /\ tool'.iteration = tool.iteration + 1
           /\ tool'.iEntry = tool.iEntry
           /\ tool'.bestEntry = tool.bestEntry
           /\ tool'.lowest = tool.lowest
           /\ tool'.chi2 \in Int
           /\ \E l \in Entries :
                 /\ l = IF model.entry \in Entries THEN model.entry ELSE model.loaded
                 /\ output' = Append(output, [entry |-> model.entry, shown |-> l])
                 /\ model'.loaded = l
           /\ model' \in Models /\ IsLoaded(model') /\ model'.entry = model.entry + 1
<1> DEFINE m == Update(model)
<1>1. /\ tool' = [tool EXCEPT !.iteration = @ + 1, !.chi2 = Chi2(m)]
      /\ output' = Append(output, [entry |-> m.entry, shown |-> m.loaded])
      /\ model' = SetValue(m, m.entry + 1)
      /\ tool.kind = "TreeSampler" /\ phase = "execute"
      /\ UNCHANGED <<input, at, phase>>
  BY DEF Sample, FillTree, Execute, Go
<1>2. /\ m \in Models /\ m.entry = model.entry
      /\ m.loaded = IF model.entry \in Entries THEN model.entry ELSE model.loaded
  BY UpdateLoads DEF TreeTypes
<1> HIDE DEF m
<1>3. m.entry + 1 \in Nat /\ m.loaded \in Entries
  BY <1>2 DEF Models
<1>4. model' \in Models /\ IsLoaded(model') /\ model'.entry = m.entry + 1 /\ model'.loaded = m.loaded
  BY <1>1, <1>2, <1>3, SetValueSets DEF TreeTypes
<1>5. Chi2(m) \in Nat
  BY <1>2, Chi2Type DEF TreeTypes
<1>6. /\ DOMAIN tool' = Fields
      /\ tool'.kind = tool.kind
      /\ tool'.given = tool.given
      /\ tool'.iteration = tool.iteration + 1
      /\ tool'.iEntry = tool.iEntry
      /\ tool'.bestEntry = tool.bestEntry
      /\ tool'.lowest = tool.lowest
      /\ tool'.chi2 = Chi2(m)
  BY <1>1 DEF TreeTypes, Fields
<1> QED
  BY <1>1, <1>2, <1>3, <1>4, <1>5, <1>6

\* A histogram maker fills all its histograms with one entry.
LEMMA FillStep ==
    ASSUME TreeTypes, FillHistograms
    PROVE  /\ tool.iteration < input.upper - input.lower
           /\ UNCHANGED <<input, at, phase, output>>
           /\ DOMAIN tool' = Fields
           /\ tool'.kind = tool.kind
           /\ tool'.iteration = tool.iteration + 1
           /\ tool'.iEntry = tool.iEntry + 1
           /\ UNCHANGED <<tool.given, tool.chi2, tool.bestEntry, tool.lowest>>
           /\ model' \in Models /\ IsLoaded(model') /\ model'.entry = tool.iEntry
           /\ \E l \in Entries :
                 /\ l = IF tool.iEntry \in Entries THEN tool.iEntry ELSE model.loaded
                 /\ model'.loaded = l
                 /\ tool'.contents = Filled(tool.contents, l)
<1> DEFINE m == Update(SetValue(model, tool.iEntry))
<1>1. /\ model' = m
      /\ tool' = [tool EXCEPT !.iteration = @ + 1, !.iEntry = @ + 1,
                              !.contents = Filled(@, m.loaded)]
      /\ tool.iteration < input.upper - input.lower
      /\ UNCHANGED <<input, at, phase, output>>
  BY DEF FillHistograms, Go
<1>2. PICK set \in Models : /\ set = SetValue(model, tool.iEntry)
                            /\ set.entry = tool.iEntry
                            /\ set.loaded = model.loaded
                            /\ IsLoaded(set)
  BY SetValueSets DEF TreeTypes
<1>3. /\ m \in Models /\ IsLoaded(m) /\ m.entry = tool.iEntry
      /\ m.loaded = IF tool.iEntry \in Entries THEN tool.iEntry ELSE model.loaded
  BY <1>2, UpdateLoads
<1> HIDE DEF m
<1>4. m.loaded \in Entries
  BY <1>3 DEF Models
<1>5. /\ DOMAIN tool' = Fields
      /\ tool'.kind = tool.kind
      /\ tool'.iteration = tool.iteration + 1
      /\ tool'.iEntry = tool.iEntry + 1
      /\ tool'.contents = Filled(tool.contents, m.loaded)
  BY <1>1 DEF TreeTypes, Fields
<1>6. UNCHANGED <<tool.given, tool.chi2, tool.bestEntry, tool.lowest>>
  BY <1>1 DEF TreeTypes, Fields
<1> QED
  BY <1>1, <1>3, <1>4, <1>5, <1>6

LEMMA SummarizeStep ==
    ASSUME TreeTypes, Summarize
    PROVE  /\ tool.kind = "Summary" /\ phase = "execute"
           /\ tool.iteration < input.upper
           /\ UNCHANGED <<input, at, phase, output>>
           /\ DOMAIN tool' = Fields
           /\ tool'.kind = tool.kind
           /\ tool'.iteration = tool.iteration + 1
           /\ UNCHANGED <<tool.given, tool.iEntry, tool.chi2, tool.bestEntry, tool.lowest>>
           /\ model' \in Models /\ IsLoaded(model') /\ model'.entry = tool.iteration
           /\ \E l \in Entries :
                 /\ l = IF tool.iteration \in Entries THEN tool.iteration ELSE model.loaded
                 /\ model'.loaded = l
                 /\ tool'.oneSigma =
                        IF ValueOf("Chi2", l) - tool.lowest <= 1
                        THEN MarkBins(tool.oneSigma, l, 12) ELSE tool.oneSigma
                 /\ tool'.contents =
                        IF ValueOf("Chi2", l) - tool.lowest \in 2 .. 4
                        THEN MarkBins(tool.contents, l, 8) ELSE tool.contents
<1> DEFINE m == Update(SetValue(model, tool.iteration))
           normalizedChi2 == Chi2(m) - tool.lowest
           one == IF normalizedChi2 <= 1 THEN MarkBins(tool.oneSigma, m.loaded, 12)
                                         ELSE tool.oneSigma
           two == IF normalizedChi2 \in 2 .. 4 THEN MarkBins(tool.contents, m.loaded, 8)
                                               ELSE tool.contents
<1>1. /\ model' = m
      /\ tool' = [tool EXCEPT !.iteration = @ + 1, !.oneSigma = one, !.contents = two]
      /\ tool.kind = "Summary" /\ phase = "execute"
      /\ tool.iteration < input.upper
      /\ UNCHANGED <<input, at, phase, output>>
  BY DEF Summarize, Execute, Go
<1>2. PICK set \in Models : /\ set = SetValue(model, tool.iteration)
                            /\ set.entry = tool.iteration
                            /\ set.loaded = model.loaded
                            /\ IsLoaded(set)
  BY SetValueSets DEF TreeTypes
<1>3. /\ m \in Models /\ IsLoaded(m) /\ m.entry = tool.iteration
      /\ m.loaded = IF tool.iteration \in Entries THEN tool.iteration ELSE model.loaded
  BY <1>2, UpdateLoads
<1>4. Chi2(m) = ValueOf("Chi2", m.loaded) /\ m.loaded \in Entries
  BY <1>3, Chi2Type DEF TreeTypes
<1>5. \E l \in Entries :
         /\ l = m.loaded
         /\ one = IF ValueOf("Chi2", l) - tool.lowest <= 1
                  THEN MarkBins(tool.oneSigma, l, 12) ELSE tool.oneSigma
         /\ two = IF ValueOf("Chi2", l) - tool.lowest \in 2 .. 4
                  THEN MarkBins(tool.contents, l, 8) ELSE tool.contents
  BY <1>4
<1> HIDE DEF m, one, two
<1>6. /\ DOMAIN tool' = Fields
      /\ tool'.kind = tool.kind
      /\ tool'.iteration = tool.iteration + 1
      /\ tool'.contents = two
      /\ tool'.oneSigma = one
  BY <1>1 DEF TreeTypes, Fields
<1>7. UNCHANGED <<tool.given, tool.iEntry, tool.chi2, tool.bestEntry, tool.lowest>>
  BY <1>1 DEF TreeTypes, Fields
<1> QED
  BY <1>1, <1>3, <1>5, <1>6, <1>7

\* What ends a tool, and what comes between two.
LEMMA EndStep ==
    ASSUME TreeTypes, EndOptimizer \/ EndSampler \/ EndHistograms \/ EndSummary
    PROVE  /\ phase = "execute" /\ phase' = "terminated"
           /\ UNCHANGED <<input, at, model>>
           /\ DOMAIN tool' = Fields
           /\ UNCHANGED <<tool.kind, tool.given, tool.iteration, tool.iEntry, tool.chi2,
                          tool.bestEntry, tool.lowest>>
           /\ tool.kind = "SimpleOptimizer" => ~Optimizing
           /\ tool.kind = "SimpleOptimizer" =>
                  output' = Append(output, [entry |-> model.entry, shown |-> model.loaded])
           /\ tool.kind # "SimpleOptimizer" => output' = output
           /\ tool.kind # "Summary" => UNCHANGED tool
           /\ tool.kind \notin {"SimpleOptimizer", "TreeSampler", "Summary"} =>
                  tool.iteration >= input.upper - input.lower
           /\ tool.kind = "Summary" => tool.iteration >= input.upper
           /\ tool.kind = "Summary" =>
                  tool'.contents =
                     [h \in DOMAIN tool.contents |-> [b \in DOMAIN tool.contents[h] |->
                         tool.contents[h][b] + tool.oneSigma[h][b]]]
<1>1. CASE EndOptimizer
  BY <1>1 DEF EndOptimizer, Execute, FillTree, Terminate, TreeTypes
<1>2. CASE EndSampler
  BY <1>2 DEF EndSampler, Execute, Terminate, TreeTypes
<1>3. CASE EndHistograms
  BY <1>3 DEF EndHistograms, Execute, Terminate, TreeTypes, Simple
<1>4. CASE EndSummary
  <2>1. /\ tool.kind = "Summary" /\ phase = "execute" /\ phase' = "terminated"
        /\ UNCHANGED <<input, at, model, output>>
        /\ tool' = [tool EXCEPT !.contents =
                      [h \in DOMAIN tool.contents |-> [b \in DOMAIN tool.contents[h] |->
                          tool.contents[h][b] + tool.oneSigma[h][b]]]]
        /\ tool.iteration >= input.upper
    BY <1>4 DEF EndSummary, Execute, Terminate
  <2>2. /\ DOMAIN tool' = Fields
        /\ UNCHANGED <<tool.kind, tool.given, tool.iteration, tool.iEntry, tool.chi2,
                       tool.bestEntry, tool.lowest>>
    BY <2>1 DEF TreeTypes, Fields
  <2>3. tool'.contents = [h \in DOMAIN tool.contents |-> [b \in DOMAIN tool.contents[h] |->
                             tool.contents[h][b] + tool.oneSigma[h][b]]]
    BY <2>1 DEF TreeTypes, Fields
  <2> QED
    BY <2>1, <2>2, <2>3
<1> QED
  BY <1>1, <1>2, <1>3, <1>4

LEMMA BetweenTools ==
    ASSUME TreeTypes, NextTool \/ UNCHANGED vars
    PROVE  /\ UNCHANGED <<input, model, tool, output>>
           /\ \/ phase = "terminated" /\ phase' = "construct" /\ at' = at + 1
              \/ UNCHANGED <<phase, at>>
           /\ at' \in 1 .. Len(input.plan)
BY PlanFacts DEF NextTool, vars, TreeTypes

Filling == Count \/ ShowThird \/ ProfileChi2

LEMMA FillingFills ==
    ASSUME Filling
    PROVE  /\ FillHistograms
           /\ phase = "execute"
           /\ tool.kind \in Simple \cup {"Profile", "Contour"}
BY DEF Filling, Count, ShowThird, ProfileChi2, Execute, Simple

\* The actions by what they do to the state.
LEMMA NextByKind ==
    ASSUME [Next]_vars
    PROVE  \/ MakeOptimizer \/ MakeSampler \/ MakeSimple
           \/ MakeProfile \/ MakeSummary
           \/ Optimize
           \/ Sample
           \/ Filling
           \/ Summarize
           \/ EndOptimizer \/ EndSampler \/ EndHistograms \/ EndSummary
           \/ NextTool \/ UNCHANGED vars
BY DEF Next, Filling

LEMMA EntriesAreTheSame ==
    ASSUME input' = input
    PROVE  /\ Entries' = Entries
           /\ Models' = Models
           /\ \A q, e : ValueOf(q, e)' = ValueOf(q, e)
BY DEF Entries, Models, ValueOf

\* The model, the tool and where the plan has come to are what they should be.
LEMMA TreeTyping == Spec => []TreeTypes
<1>1. Init => TreeTypes
  <2> SUFFICES ASSUME Init PROVE TreeTypes
    OBVIOUS
  <2>1. input \in Inputs /\ at = 1 /\ phase = "construct" /\ tool = NewTool("TreeSampler")
    BY DEF Init
  <2>2. /\ input.start \in Entries /\ 0 \in Entries /\ input.start \in Nat /\ Infinity \in Int
        /\ 1 \in 1 .. Len(input.plan)
    BY <2>1, InputFacts, PlanFacts DEF Entries
  <2>3. CalculatePredictions(Start(input.start)) \in Models
    BY <2>2 DEF CalculatePredictions, Start, Models
  <2>4. model = SetValue(CalculatePredictions(Start(input.start)), input.start)
    BY DEF Init
  <2>5. model \in Models /\ IsLoaded(model)
    BY <2>2, <2>3, <2>4, SetValueSets
  <2> QED
    BY <2>1, <2>2, <2>5, NewToolTypes DEF TreeTypes, Tools
<1>2. TreeTypes /\ [Next]_vars => TreeTypes'
  <2> SUFFICES ASSUME TreeTypes, [Next]_vars PROVE TreeTypes'
    OBVIOUS
  <2>t. Infinity \in Int /\ input.lower \in Nat /\ input.step \in Nat
    BY InputFacts DEF TreeTypes
  <2>1. CASE MakeOptimizer \/ MakeSampler \/ MakeSimple
    <3>1. /\ phase' = "execute" /\ UNCHANGED <<input, at, model>> /\ DOMAIN tool' = Fields
          /\ tool'.kind \in Tools /\ tool'.iteration = 0 /\ tool'.chi2 \in Int
          /\ tool'.given.iteration \in Nat /\ tool'.given.chi2 \in Int
          /\ tool'.lowest = Infinity /\ tool'.iEntry \in Nat /\ tool'.bestEntry \in Nat
      BY <2>1, MakeWithoutModel DEF Tools, Simple
    <3>2. model' \in Models' /\ IsLoaded(model)'
      BY <3>1, EntriesAreTheSame DEF TreeTypes, IsLoaded
    <3> QED
      BY <2>t, <3>1, <3>2 DEF TreeTypes
  <2>2. CASE MakeProfile \/ MakeSummary
    <3>1. /\ phase' = "execute" /\ UNCHANGED <<input, at>> /\ DOMAIN tool' = Fields
          /\ tool'.kind \in Tools /\ tool'.iteration \in Nat /\ tool'.chi2 = Infinity
          /\ tool'.given.iteration = 0 /\ tool'.given.chi2 = Infinity
          /\ tool'.lowest \in Nat /\ tool'.iEntry \in Nat /\ tool'.bestEntry \in Nat
          /\ model' \in Models /\ IsLoaded(model')
      BY <2>t, <2>2, MakeWithModel DEF Tools
    <3>2. model' \in Models' /\ IsLoaded(model)'
      BY <3>1, EntriesAreTheSame DEF IsLoaded
    <3> QED
      BY <2>t, <3>1, <3>2 DEF TreeTypes
  <2>3. CASE Optimize
    <3>1. PICK best : best = Update(model)
      OBVIOUS
    <3>2. PICK tried : tried = Update(SetValue(best, tool.iEntry + input.step))
      OBVIOUS
    <3>3. PICK b \in Nat : b = BestEntry(best, tried) /\ model' = SetValue(tried, b)
                           /\ tool'.bestEntry = b
      BY <2>3, <3>1, <3>2, OptimizeStep
    <3>4. /\ tried \in Models /\ best \in Models
          /\ tried.entry = tool.iEntry + input.step
          /\ UNCHANGED <<input, at, phase>>
          /\ DOMAIN tool' = Fields
          /\ tool'.kind = tool.kind
          /\ tool'.given = tool.given
          /\ tool'.iteration = tool.iteration + 1
          /\ tool'.iEntry = tried.entry
          /\ tool'.lowest = tool.lowest
          /\ tool'.chi2 = IF Chi2(tried) <= Chi2(best) THEN Chi2(tried) ELSE Chi2(best)
      BY <2>3, <3>1, <3>2, OptimizeStep
    <3>5. Chi2(tried) \in Nat /\ Chi2(best) \in Nat
      BY <3>4, Chi2Type DEF TreeTypes
    <3>6. model' \in Models /\ IsLoaded(model')
      BY <3>3, <3>4, SetValueSets
    <3>7. model' \in Models' /\ IsLoaded(model)'
      BY <3>4, <3>6, EntriesAreTheSame DEF IsLoaded
    <3>8. tool'.given.iteration \in Nat /\ tool'.given.chi2 \in Int
      BY <3>4 DEF TreeTypes
    <3>9. tool'.chi2 \in Int
      BY <3>4, <3>5
    <3>10. tool'.iteration \in Nat /\ tool'.iEntry \in Nat /\ tool'.bestEntry \in Nat
           /\ tool'.kind \in Tools /\ tool'.lowest \in Int
      BY <2>t, <3>3, <3>4 DEF TreeTypes
    <3> QED
      BY <3>4, <3>7, <3>8, <3>9, <3>10 DEF TreeTypes
  <2>4. CASE Sample
    <3>1. /\ UNCHANGED <<input, at, phase>> /\ DOMAIN tool' = Fields
          /\ tool'.kind = tool.kind /\ tool'.iteration = tool.iteration + 1
          /\ tool'.given = tool.given
          /\ tool'.iEntry = tool.iEntry /\ tool'.bestEntry = tool.bestEntry
          /\ tool'.lowest = tool.lowest /\ tool'.chi2 \in Int
          /\ model' \in Models /\ IsLoaded(model')
      BY <2>4, SampleStep
    <3>2. model' \in Models' /\ IsLoaded(model)'
      BY <3>1, EntriesAreTheSame DEF IsLoaded
    <3> QED
      BY <3>1, <3>2 DEF TreeTypes
  <2>5. CASE Filling
    <3>1. /\ UNCHANGED <<input, at, phase>> /\ DOMAIN tool' = Fields
          /\ tool'.kind = tool.kind /\ tool'.iteration = tool.iteration + 1
          /\ tool'.iEntry = tool.iEntry + 1
          /\ UNCHANGED <<tool.given, tool.chi2, tool.bestEntry, tool.lowest>>
          /\ model' \in Models /\ IsLoaded(model')
      BY <2>5, FillingFills, FillStep
    <3>2. model' \in Models' /\ IsLoaded(model)'
      BY <3>1, EntriesAreTheSame DEF IsLoaded
    <3> QED
      BY <3>1, <3>2 DEF TreeTypes
  <2>6. CASE Summarize
    <3>1. /\ UNCHANGED <<input, at, phase>> /\ DOMAIN tool' = Fields
          /\ tool'.kind = tool.kind /\ tool'.iteration = tool.iteration + 1
          /\ UNCHANGED <<tool.given, tool.iEntry, tool.chi2, tool.bestEntry, tool.lowest>>
          /\ model' \in Models /\ IsLoaded(model')
      BY <2>6, SummarizeStep
    <3>2. model' \in Models' /\ IsLoaded(model)'
      BY <3>1, EntriesAreTheSame DEF IsLoaded
    <3> QED
      BY <3>1, <3>2 DEF TreeTypes
  <2>7. CASE EndOptimizer \/ EndSampler \/ EndHistograms \/ EndSummary
    <3>1. /\ phase' = "terminated" /\ UNCHANGED <<input, at, model>> /\ DOMAIN tool' = Fields
          /\ UNCHANGED <<tool.kind, tool.given, tool.iteration, tool.iEntry, tool.chi2,
                         tool.bestEntry, tool.lowest>>
      BY <2>7, EndStep
    <3>2. model' \in Models' /\ IsLoaded(model)'
      BY <3>1, EntriesAreTheSame DEF TreeTypes, IsLoaded
    <3> QED
      BY <3>1, <3>2 DEF TreeTypes
  <2>8. CASE NextTool \/ UNCHANGED vars
    <3>1. /\ UNCHANGED <<input, model, tool>>
          /\ phase' \in {"construct", phase}
          /\ at' \in 1 .. Len(input.plan)
      BY <2>8, BetweenTools DEF TreeTypes
    <3>2. model' \in Models' /\ IsLoaded(model)'
      BY <3>1, EntriesAreTheSame DEF TreeTypes, IsLoaded
    <3> QED
      BY <3>1, <3>2 DEF TreeTypes
  <2> QED
    BY <2>1, <2>2, <2>3, <2>4, <2>5, <2>6, <2>7, <2>8, NextByKind
<1> QED
  BY <1>1, <1>2, PTL DEF Spec

-----------------------------------------------------------------------------
(***************************************************************************)
(* The optimizer.                                                          *)
(***************************************************************************)

\* Beginning in the tree, it knows the best of the entries it has come to, and the
\* last one of them that is in the tree is loaded, unless there is none.
Searched ==
    /\ tool.bestEntry \in Entries
    /\ Reached(tool.bestEntry)
    /\ \A e \in Entries : Reached(e) => ValueOf("Chi2", tool.bestEntry) <= ValueOf("Chi2", e)
    /\ tool.iteration > 0 =>
          /\ tool.chi2 = ValueOf("Chi2", tool.bestEntry)
          /\ model.loaded = IF tool.iEntry \in Entries THEN tool.iEntry ELSE tool.bestEntry
    /\ tool.iteration > 1 /\ tool.chi2 <= input.criterion => model.loaded = tool.bestEntry

OptimizerInv ==
    tool.kind = "SimpleOptimizer" =>
        /\ tool.iteration > 0 => IterationCounter <= Len(input.tree)
        /\ FirstEntry \in Nat
        /\ model.entry = tool.bestEntry
        /\ tool.iteration = 0 => tool.bestEntry = FirstEntry /\ tool.chi2 = tool.given.chi2
        /\ FirstEntry \notin Entries => tool.bestEntry = FirstEntry
        /\ FirstEntry \in Entries => Searched
        /\ phase # "execute" => ~Optimizing

\* Multiples of the step, one after the other.
LEMMA NextTimes ==
    ASSUME NEW n \in Nat, NEW s \in Nat
    PROVE  (n + 1) * s = n * s + s /\ n * s \in Nat
OBVIOUS

\* The entries it has come to after one more try.
LEMMA ReachedNext ==
    ASSUME TreeTypes, UNCHANGED input, tool'.iteration = tool.iteration + 1,
           tool'.iEntry = tool.iEntry + input.step
    PROVE  /\ FirstEntry' = FirstEntry
           /\ \A e : Reached(e)' <=> Reached(e) \/ e = tool.iEntry + input.step
<1>0. input.step \in Nat /\ tool.iteration \in Nat /\ tool.iEntry \in Nat
  BY InputFacts DEF TreeTypes
<1>1. (tool.iteration + 1) * input.step = tool.iteration * input.step + input.step
      /\ tool.iteration * input.step \in Nat
  BY <1>0, NextTimes
<1>2. FirstEntry' = FirstEntry
  BY <1>0, <1>1 DEF FirstEntry
<1>3. FirstEntry + (tool.iteration + 1) * input.step = tool.iEntry + input.step
  BY <1>0, <1>1 DEF FirstEntry
<1>4. 0 .. tool.iteration + 1 = (0 .. tool.iteration) \cup {tool.iteration + 1}
  BY <1>0
<1> HIDE DEF FirstEntry
<1>5. ASSUME NEW e PROVE Reached(e)' <=> Reached(e) \/ e = tool.iEntry + input.step
  <2>1. Reached(e)' <=> \E n \in 0 .. tool.iteration + 1 : e = FirstEntry + n * input.step
    BY <1>2 DEF Reached
  <2> QED
    BY <1>3, <1>4, <2>1 DEF Reached
<1> QED
  BY <1>2, <1>5

LEMMA OptimizeSearches ==
    ASSUME TreeTypes, OptimizerInv, Optimize
    PROVE  OptimizerInv'
<1>1. PICK best : best = Update(model)
  OBVIOUS
<1>2. PICK tried : tried = Update(SetValue(best, tool.iEntry + input.step))
  OBVIOUS
<1>3. /\ best \in Models /\ tried \in Models
      /\ best.loaded = IF model.entry \in Entries THEN model.entry ELSE model.loaded
      /\ tried.entry = tool.iEntry + input.step
      /\ tried.loaded = IF tried.entry \in Entries THEN tried.entry ELSE best.loaded
      /\ tool.kind = "SimpleOptimizer" /\ phase = "execute"
      /\ tool.chi2 > input.criterion /\ IterationCounter < Len(input.tree)
      /\ tool'.given = tool.given
      /\ tool'.iteration = tool.iteration + 1
      /\ tool'.iEntry = tried.entry
      /\ tool'.bestEntry = BestEntry(best, tried)
      /\ tool'.chi2 = IF Chi2(tried) <= Chi2(best) THEN Chi2(tried) ELSE Chi2(best)
      /\ BestEntry(best, tried) \in Nat
      /\ model' = SetValue(tried, BestEntry(best, tried))
      /\ UNCHANGED <<input, phase>>
  BY <1>1, <1>2, OptimizeStep
<1>4. PICK b \in Nat : b = BestEntry(best, tried)
  BY <1>3
<1>5. model'.entry = b /\ model'.loaded = tried.loaded
  BY <1>3, <1>4, SetValueSets
<1>6. /\ FirstEntry' = FirstEntry
      /\ \A e : Reached(e)' <=> Reached(e) \/ e = tool.iEntry + input.step
  BY <1>3, ReachedNext
<1>7. /\ Chi2(best) = ValueOf("Chi2", best.loaded)
      /\ Chi2(tried) = ValueOf("Chi2", tried.loaded)
      /\ \A e \in Entries : ValueOf("Chi2", e) \in Nat
      /\ best.loaded \in Entries /\ tried.loaded \in Entries
  BY <1>3, Chi2Type, InputFacts DEF TreeTypes
<1>8. /\ Entries' = Entries
      /\ \A e : ValueOf("Chi2", e)' = ValueOf("Chi2", e)
  BY <1>3, EntriesAreTheSame
<1>9. /\ tool.iteration \in Nat /\ tool.iEntry \in Nat /\ input.step \in Nat
      /\ Len(input.tree) \in Nat /\ input.criterion \in Int /\ tool.chi2 \in Int
      /\ tool.given.iteration \in Nat
      /\ FirstEntry \in Nat
      /\ model.entry = tool.bestEntry
      /\ \A e : e \in Entries <=> e \in Nat /\ e < Len(input.tree)
  BY <1>3, InputFacts DEF TreeTypes, OptimizerInv
<1>10. FirstEntry \notin Entries => b = FirstEntry
  <2> SUFFICES ASSUME FirstEntry \notin Entries PROVE b = FirstEntry
    OBVIOUS
  <2>1. tool.bestEntry = FirstEntry
    BY <1>3 DEF OptimizerInv
  <2>2. tool.iteration * input.step \in Nat
    BY <1>9, NextTimes
  <2>3. tool.iEntry >= FirstEntry
    BY <1>9, <2>2 DEF FirstEntry
  <2>4. tried.entry \notin Entries
    BY <1>3, <1>9, <2>3
  <2>5. tried.loaded = best.loaded
    BY <1>3, <2>4
  <2> QED
    BY <1>4, <1>7, <2>1, <2>5 DEF BestEntry
<1>11. FirstEntry \in Entries => Searched'
  <2> SUFFICES ASSUME FirstEntry \in Entries PROVE Searched'
    OBVIOUS
  <2>1. Searched
    BY <1>3 DEF OptimizerInv
  <2>2. PICK b0 \in Entries : b0 = tool.bestEntry
    BY <2>1 DEF Searched
  <2>3. best.loaded = b0
    BY <1>3, <1>9, <2>2
  <2>4. PICK t : t = tried.entry
    OBVIOUS
  <2>5. t \notin Entries => tried.loaded = b0 /\ b = b0
    BY <1>3, <1>4, <1>7, <2>2, <2>3, <2>4 DEF BestEntry
  <2>6. t \in Entries => /\ tried.loaded = t
                         /\ b = IF ValueOf("Chi2", t) < ValueOf("Chi2", b0) THEN t ELSE b0
    BY <1>3, <1>4, <1>7, <2>2, <2>3, <2>4 DEF BestEntry
  <2>7. b \in Entries /\ (Reached(b) \/ b = t) /\ tried.loaded = IF t \in Entries THEN t ELSE b
    BY <2>1, <2>2, <2>5, <2>6 DEF Searched
  <2>8. tool'.chi2 = ValueOf("Chi2", b)
    BY <1>3, <1>7, <2>3, <2>5, <2>6
  <2>9. ASSUME NEW e \in Entries, Reached(e) \/ e = t
        PROVE  ValueOf("Chi2", b) <= ValueOf("Chi2", e)
    <3>1. Reached(e) => ValueOf("Chi2", b0) <= ValueOf("Chi2", e)
      BY <2>1, <2>2 DEF Searched
    <3>2. ValueOf("Chi2", b) <= ValueOf("Chi2", b0)
      BY <1>7, <2>5, <2>6
    <3>3. e = t => ValueOf("Chi2", b) <= ValueOf("Chi2", e)
      BY <1>7, <2>6, <2>9
    <3>4. ValueOf("Chi2", b) \in Nat /\ ValueOf("Chi2", b0) \in Nat /\ ValueOf("Chi2", e) \in Nat
      BY <1>7, <2>7
    <3> QED
      BY <2>9, <3>1, <3>2, <3>3, <3>4
  <2>10. ASSUME tool.iteration > 0, tool'.chi2 <= input.criterion PROVE tried.loaded = b
    <3>1. ValueOf("Chi2", b0) > input.criterion
      BY <1>3, <2>1, <2>2, <2>10 DEF Searched
    <3>2. b # b0
      BY <1>7, <1>9, <2>8, <2>10, <3>1
    <3> QED
      BY <2>5, <2>6, <3>2
  <2>11. /\ tool'.bestEntry = b
         /\ t = tool.iEntry + input.step
         /\ tool'.iEntry = t
         /\ tool'.iteration = tool.iteration + 1
         /\ tool'.iteration > 1 => tool.iteration > 0
    BY <1>3, <1>4, <1>9, <2>4
  <2>12. Reached(b)' /\ \A e \in Entries : Reached(e)' => ValueOf("Chi2", b) <= ValueOf("Chi2", e)
    BY <1>6, <2>7, <2>9, <2>11
  <2>13. Reached(tool.bestEntry)'
    BY <2>11, <2>12 DEF Reached, FirstEntry
  <2> QED
    BY <1>3, <1>5, <1>8, <2>7, <2>8, <2>10, <2>11, <2>12, <2>13 DEF Searched
<1>12. IterationCounter' = IterationCounter + 1 /\ IterationCounter \in Nat
  <2>1. PICK g \in Nat : g = tool.given.iteration /\ g = tool'.given.iteration
    BY <1>3, <1>9
  <2>2. PICK i \in Nat : i = tool.iteration /\ tool'.iteration = i + 1
    BY <1>3, <1>9
  <2>3. IterationCounter = g + i /\ IterationCounter' = g + (i + 1)
    BY <2>1, <2>2 DEF IterationCounter
  <2> QED
    BY <2>3
<1>13. (tool.iteration > 0 => IterationCounter <= Len(input.tree))'
  BY <1>3, <1>9, <1>12
<1> QED
  BY <1>3, <1>4, <1>5, <1>6, <1>8, <1>9, <1>10, <1>11, <1>13 DEF OptimizerInv

LEMMA OptimizerStays ==
    ASSUME OptimizerInv, UNCHANGED <<input, model, tool.kind, tool.given, tool.iteration,
                                     tool.iEntry, tool.chi2, tool.bestEntry>>,
           phase' = phase \/ (tool.kind = "SimpleOptimizer" => ~Optimizing)
    PROVE  OptimizerInv'
<1>1. UNCHANGED <<Entries, FirstEntry, Optimizing, IterationCounter>>
  BY DEF Entries, FirstEntry, Optimizing, IterationCounter
<1>2. \A e : (Reached(e)' <=> Reached(e)) /\ ValueOf("Chi2", e)' = ValueOf("Chi2", e)
  BY DEF Reached, FirstEntry, ValueOf
<1>3. Reached(tool.bestEntry)' <=> Reached(tool.bestEntry)
  BY DEF Reached, FirstEntry
<1>4. Searched' <=> Searched
  BY <1>1, <1>2, <1>3 DEF Searched
<1> QED
  BY <1>1, <1>4 DEF OptimizerInv

LEMMA OptimizerBegins ==
    ASSUME TreeTypes, MakeOptimizer
    PROVE  OptimizerInv' /\ FirstEntry' = model.entry
<1>1. /\ tool'.iteration = 0 /\ tool'.iEntry = model.entry /\ tool'.bestEntry = model.entry
      /\ tool'.chi2 = tool'.given.chi2 /\ UNCHANGED <<input, model>> /\ phase' = "execute"
  <2>1. tool'.kind = "SimpleOptimizer"
    BY NewAnalysisToolTypes DEF MakeOptimizer
  <2> QED
    BY <2>1, MakeWithoutModel
<1>2. /\ input.step \in Nat /\ model.entry \in Nat /\ Len(input.tree) \in Nat
      /\ \A e \in Entries : ValueOf("Chi2", e) \in Nat
  BY InputFacts DEF TreeTypes, Models
<1>3. FirstEntry' = model.entry
  <2>1. 0 * input.step = 0
    BY <1>2
  <2> QED
    BY <1>1, <1>2, <2>1 DEF FirstEntry
<1>4. \A e : Reached(e)' <=> e = model.entry
  <2>1. 0 .. 0 = {0} /\ model.entry + 0 * input.step = model.entry
    BY <1>2
  <2>2. ASSUME NEW e
        PROVE  Reached(e)' <=> \E n \in 0 .. 0 : e = model.entry + n * input.step
    BY <1>1, <1>3 DEF Reached
  <2> QED
    BY <2>1, <2>2
<1>5. Reached(tool.bestEntry)'
  <2>1. Reached(model.entry)'
    BY <1>1, <1>4 DEF Reached
  <2> QED
    BY <1>1, <2>1 DEF Reached
<1>6. Entries' = Entries /\ \A e : ValueOf("Chi2", e)' = ValueOf("Chi2", e)
  BY <1>1, EntriesAreTheSame
<1>7. FirstEntry' \in Entries => Searched'
  BY <1>1, <1>2, <1>3, <1>4, <1>5, <1>6 DEF Searched
<1> QED
  BY <1>1, <1>2, <1>3, <1>6, <1>7 DEF OptimizerInv

LEMMA OptimizerInvariant == Spec => []OptimizerInv
<1>1. Init => OptimizerInv
  BY NewToolTypes DEF Init, OptimizerInv
<1>2. TreeTypes /\ OptimizerInv /\ [Next]_vars => OptimizerInv'
  <2> SUFFICES ASSUME TreeTypes, OptimizerInv, [Next]_vars PROVE OptimizerInv'
    OBVIOUS
  <2>1. CASE MakeOptimizer
    BY <2>1, OptimizerBegins
  <2>2. CASE MakeSampler \/ MakeSimple \/ MakeProfile \/ MakeSummary
    <3>1. tool'.kind # "SimpleOptimizer"
      <4>1. CASE MakeSampler
        BY <4>1, NewAnalysisToolTypes DEF MakeSampler
      <4>2. CASE MakeSimple
        <5>1. tool'.kind = input.plan[at] /\ input.plan[at] \in Simple
          BY <4>2, MakeWithoutModel DEF MakeSimple, Construct
        <5> QED
          BY <5>1 DEF Simple
      <4>3. CASE MakeProfile \/ MakeSummary
        BY <4>3, MakeWithModel
      <4> QED
        BY <2>2, <4>1, <4>2, <4>3
    <3> QED
      BY <3>1 DEF OptimizerInv
  <2>3. CASE Optimize
    BY <2>3, OptimizeSearches
  <2>4. CASE Sample
    <3>1. tool'.kind = "TreeSampler"
      BY <2>4, SampleStep
    <3> QED
      BY <3>1 DEF OptimizerInv
  <2>5. CASE Filling
    <3>1. tool'.kind \in Simple \cup {"Profile", "Contour"}
      BY <2>5, FillingFills, FillStep
    <3> QED
      BY <3>1 DEF OptimizerInv, Simple
  <2>6. CASE Summarize
    <3>1. tool'.kind = "Summary"
      BY <2>6, SummarizeStep
    <3> QED
      BY <3>1 DEF OptimizerInv
  <2>7. CASE EndOptimizer \/ EndSampler \/ EndHistograms \/ EndSummary
    BY <2>7, EndStep, OptimizerStays
  <2>8. CASE NextTool \/ UNCHANGED vars
    <3>1. /\ UNCHANGED <<input, model, tool>>
          /\ phase = "terminated" \/ UNCHANGED phase
      BY <2>8, BetweenTools
    <3>2. phase = "terminated" /\ tool.kind = "SimpleOptimizer" => ~Optimizing
      BY DEF OptimizerInv
    <3> QED
      BY <3>1, <3>2, OptimizerStays
  <2> QED
    BY <2>1, <2>2, <2>3, <2>4, <2>5, <2>6, <2>7, <2>8, NextByKind
<1> QED
  BY <1>1, <1>2, TreeTyping, PTL DEF Spec

\* The best of the entries an optimizer has come to is the one it is at.
LEMMA BestSoFar ==
    ASSUME TreeTypes, OptimizerInv, tool.kind = "SimpleOptimizer"
    PROVE  /\ FirstEntry \in Nat
           /\ FirstEntry \notin Entries => model.entry \notin Entries
           /\ FirstEntry \in Entries =>
                 /\ model.entry \in Entries /\ Reached(model.entry)
                 /\ \A e \in Entries : Reached(e) =>
                        ValueOf("Chi2", model.entry) <= ValueOf("Chi2", e)
<1>1. /\ FirstEntry \in Nat /\ model.entry = tool.bestEntry
      /\ FirstEntry \notin Entries => model.entry \notin Entries
      /\ FirstEntry \in Entries => Searched
  BY DEF OptimizerInv
<1>2. ASSUME FirstEntry \in Entries
      PROVE  /\ model.entry \in Entries /\ Reached(model.entry)
             /\ \A e \in Entries : Reached(e) =>
                    ValueOf("Chi2", model.entry) <= ValueOf("Chi2", e)
  BY <1>1, <1>2 DEF Searched
<1> QED
  BY <1>1, <1>2

\* An optimizer that began anew and has ended has seen enough, and unless it stopped
\* at its first entry the best one is loaded.
LEMMA SearchIsDone ==
    ASSUME TreeTypes, OptimizerInv, tool.kind = "SimpleOptimizer", phase # "execute",
           BeginsAnew(tool.given)
    PROVE  /\ tool.iteration > 0
           /\ FirstEntry \in Nat
           /\ FirstEntry \notin Entries => model.entry \notin Entries
           /\ FirstEntry \in Entries =>
                 /\ model.entry \in Entries /\ Reached(model.entry)
                 /\ \/ ValueOf("Chi2", model.entry) <= input.criterion
                    \/ \A n \in Nat : FirstEntry + n * input.step \in Entries =>
                           Reached(FirstEntry + n * input.step)
                 /\ tool.iteration > 1 => model.loaded = model.entry
<1>1. /\ tool.iteration \in Nat /\ tool.chi2 \in Int
      /\ tool.given.iteration = 0 /\ tool.given.chi2 > input.criterion
      /\ IterationCounter = tool.iteration
      /\ FirstEntry \in Nat /\ model.entry = tool.bestEntry /\ tool.iEntry \in Nat
      /\ tool.iteration = 0 => tool.chi2 = tool.given.chi2
      /\ tool.iteration > 0 => tool.iteration <= Len(input.tree)
      /\ FirstEntry \notin Entries => model.entry \notin Entries
      /\ FirstEntry \in Entries => Searched
      /\ ~Optimizing
  BY DEF TreeTypes, OptimizerInv, BeginsAnew, IterationCounter
<1>2. /\ Len(input.tree) \in Nat /\ Len(input.tree) > 0 /\ input.criterion \in Int
      /\ input.criterion < Infinity /\ input.step \in Nat /\ input.step > 0 /\ Infinity \in Int
      /\ \A e : e \in Entries <=> e \in Nat /\ e < Len(input.tree)
  <2>1. input.start \in Entries
    BY InputFacts DEF TreeTypes
  <2> QED
    BY <2>1, InputFacts DEF TreeTypes
<1>3. tool.iteration > 0
  BY <1>1, <1>2 DEF Optimizing
<1>4. tool.chi2 <= input.criterion \/ tool.iteration = Len(input.tree)
  BY <1>1, <1>2 DEF Optimizing
<1>5. ASSUME FirstEntry \in Entries
      PROVE  /\ model.entry \in Entries /\ Reached(model.entry)
             /\ \/ ValueOf("Chi2", model.entry) <= input.criterion
                \/ \A n \in Nat : FirstEntry + n * input.step \in Entries =>
                       Reached(FirstEntry + n * input.step)
             /\ tool.iteration > 1 => model.loaded = model.entry
  <2>1. Searched
    BY <1>1, <1>5
  <2>2. model.entry \in Entries /\ Reached(model.entry)
        /\ tool.chi2 = ValueOf("Chi2", model.entry)
    <3>1. tool.bestEntry \in Entries /\ Reached(tool.bestEntry)
          /\ tool.chi2 = ValueOf("Chi2", tool.bestEntry)
      BY <1>3, <2>1 DEF Searched
    <3> QED
      BY <1>1, <3>1
  <2>3. CASE tool.chi2 <= input.criterion
    BY <1>1, <2>1, <2>2, <2>3 DEF Searched
  <2>4. CASE tool.iteration = Len(input.tree)
    <3>1. ASSUME NEW n \in Nat, FirstEntry + n * input.step \in Entries
          PROVE  Reached(FirstEntry + n * input.step)
      <4>1. n * 1 <= n * input.step /\ n * input.step \in Nat
        <5>1. PICK d \in Nat : input.step = d + 1
          <6>1. input.step - 1 \in Nat /\ input.step = (input.step - 1) + 1
            BY <1>2
          <6> QED
            BY <6>1
        <5>2. n * (d + 1) = n * d + n /\ n * d \in Nat
          OBVIOUS
        <5> QED
          BY <5>1, <5>2
      <4>2. FirstEntry + n * input.step < Len(input.tree)
        BY <1>2, <3>1
      <4>3. n \in 0 .. tool.iteration
        BY <1>1, <1>2, <2>4, <4>1, <4>2
      <4> QED
        BY <4>3 DEF Reached
    <3>3. tool.iEntry \notin Entries
      <4>1. tool.iteration * 1 <= tool.iteration * input.step /\ tool.iteration * input.step \in Nat
        <5>1. PICK d \in Nat : input.step = d + 1
          <6>1. input.step - 1 \in Nat /\ input.step = (input.step - 1) + 1
            BY <1>2
          <6> QED
            BY <6>1
        <5>2. tool.iteration * (d + 1) = tool.iteration * d + tool.iteration
              /\ tool.iteration * d \in Nat
          BY <1>1
        <5> QED
          BY <1>1, <5>1, <5>2
      <4>2. tool.iEntry = FirstEntry + tool.iteration * input.step
        BY <1>1, <4>1 DEF FirstEntry
      <4> QED
        BY <1>1, <1>2, <2>4, <4>1, <4>2
    <3>4. model.loaded = model.entry
      BY <1>1, <1>3, <2>1, <3>3 DEF Searched
    <3> QED
      BY <2>2, <3>1, <3>4
  <2> QED
    BY <1>4, <2>3, <2>4
<1> QED
  BY <1>1, <1>3, <1>5

\* What is divided without remainder is a multiple.
LEMMA DividedIsMultiple ==
    ASSUME NEW x \in Int, NEW s \in Int, s > 0
    PROVE  x % s = 0 => \E q \in Int : x = s * q
BY SMT

LEMMA MultipleIsDivided ==
    ASSUME NEW x \in Int, NEW s \in Int, s > 0, NEW n \in Int, x = n * s
    PROVE  x % s = 0
BY SMT

LEMMA FactorIsNatural ==
    ASSUME NEW s \in Int, s > 0, NEW n \in Int, s * n >= 0
    PROVE  n >= 0
BY SMT

LEMMA TimesRemainder ==
    ASSUME NEW x \in Nat, NEW s \in Nat, s > 0
    PROVE  x % s = 0 <=> \E n \in Nat : x = n * s
<1>1. ASSUME x % s = 0 PROVE \E n \in Nat : x = n * s
  <2>1. PICK q \in Int : x = s * q
    BY <1>1, DividedIsMultiple
  <2>2. q >= 0
    BY <2>1, FactorIsNatural
  <2>3. q \in Nat /\ x = q * s
    BY <2>1, <2>2
  <2> QED
    BY <2>3
<1>2. ASSUME NEW n \in Nat, x = n * s PROVE x % s = 0
  BY <1>2, MultipleIsDivided
<1> QED
  BY <1>1, <1>2

-----------------------------------------------------------------------------
(***************************************************************************)
(* The lowest chi2 of the tree.                                            *)
(***************************************************************************)
\* The optimizer leaves the parameter at the best of the entries it has come to, which
\* are those in its steps.
LEMMA BestOfTheSteps ==
    ASSUME TreeTypes, OptimizerInv, tool.kind = "SimpleOptimizer", phase = "terminated",
           FirstEntry \in Entries,
           NEW reached, reached = {e \in Entries : Reached(e)},
           NEW ahead,
           ahead = {e \in Entries : e >= FirstEntry /\ (e - FirstEntry) % input.step = 0}
    PROVE  /\ model.entry \in reached
           /\ \A e \in reached : ValueOf("Chi2", model.entry) <= ValueOf("Chi2", e)
           /\ BeginsAnew(tool.given) =>
                  ValueOf("Chi2", model.entry) <= input.criterion \/ reached = ahead
<1>1. /\ input.step \in Nat /\ input.step > 0
      /\ \A e : e \in Entries <=> e \in Nat /\ e < Len(input.tree)
      /\ tool.iteration \in Nat
  BY InputFacts DEF TreeTypes
<1>2. /\ FirstEntry \in Nat
      /\ model.entry \in Entries /\ Reached(model.entry)
      /\ \A e \in Entries : Reached(e) => ValueOf("Chi2", model.entry) <= ValueOf("Chi2", e)
  BY BestSoFar
<1>3. ASSUME NEW e \in reached PROVE e \in ahead
  <2>1. PICK n \in 0 .. tool.iteration : e = FirstEntry + n * input.step
    BY DEF Reached
  <2>2. n \in Nat /\ n * input.step \in Nat
    BY <1>1, <2>1
  <2>3. (n * input.step) % input.step = 0
    BY <1>1, <2>2, TimesRemainder
  <2>4. e - FirstEntry = n * input.step /\ e >= FirstEntry
    BY <1>2, <2>1, <2>2
  <2>5. (e - FirstEntry) % input.step = 0
    BY <2>3, <2>4
  <2> QED
    BY <2>4, <2>5
<1>4. ASSUME NEW e \in ahead PROVE \E n \in Nat : e = FirstEntry + n * input.step
  <2>1. e \in Nat /\ e - FirstEntry \in Nat /\ (e - FirstEntry) % input.step = 0
    <3>1. e \in Entries /\ e >= FirstEntry /\ (e - FirstEntry) % input.step = 0
      BY <1>4
    <3> QED
      BY <1>1, <1>2, <3>1
  <2>2. PICK n \in Nat : e - FirstEntry = n * input.step
    BY <1>1, <2>1, TimesRemainder
  <2>3. n * input.step \in Nat
    BY <1>1, <2>2
  <2>4. e = FirstEntry + n * input.step
    BY <1>2, <2>1, <2>2, <2>3
  <2> QED
    BY <2>4
<1>5. ASSUME BeginsAnew(tool.given), ~(ValueOf("Chi2", model.entry) <= input.criterion)
      PROVE  reached = ahead
  <2>1. \A n \in Nat : FirstEntry + n * input.step \in Entries =>
            Reached(FirstEntry + n * input.step)
    BY <1>5, SearchIsDone
  <2>2. ASSUME NEW e \in ahead PROVE Reached(e)
    <3>1. PICK n \in Nat : e = FirstEntry + n * input.step
      BY <1>4
    <3> QED
      BY <2>1, <3>1
  <2> QED
    BY <1>3, <2>2
<1> QED
  BY <1>2, <1>5

LEMMA NextKeepsInput ==
    ASSUME [Next]_vars
    PROVE  input' = input
BY DEF Next, vars, Constructed, Go, Terminate, NextTool, MakeOptimizer, MakeSampler, MakeSimple,
       MakeProfile, MakeSummary, Optimize, Sample, Count, ShowThird, ProfileChi2, FillHistograms,
       Summarize, EndOptimizer, EndSampler, EndHistograms, EndSummary

\* A tool that measures from the lowest chi2 of the tree.
LowestIsOfTree ==
    /\ \E e \in Entries : tool.lowest = ValueOf("Chi2", e)
    /\ \A e \in Entries : tool.lowest <= ValueOf("Chi2", e)

\* The optimizer that is made first begins at the start of the parameter, and the
\* tool that is made after it at the entry the optimizer has left.
LowestInv ==
    input.plan[1] = "SimpleOptimizer" /\ input.start = 0 =>
        /\ at >= 1
        /\ at = 1 /\ phase = "construct" => model.entry = 0
        /\ (at = 1 /\ phase # "construct") \/ (at = 2 /\ phase = "construct") =>
              tool.kind = "SimpleOptimizer" /\ FirstEntry = 0 /\ tool.given = input.given[1]
        /\ /\ at = 2 /\ phase # "construct"
           /\ tool.kind \in {"Profile", "Contour", "Summary"}
           /\ input.step = 1 /\ input.criterion = 0
           /\ BeginsAnew(input.given[1])
           => LowestIsOfTree

LEMMA MadeAfterOptimizer ==
    ASSUME TreeTypes, OptimizerInv, LowestInv, MakeProfile \/ MakeSummary,
           input.plan[1] = "SimpleOptimizer", input.start = 0, at = 2,
           input.step = 1, input.criterion = 0, BeginsAnew(input.given[1])
    PROVE  LowestIsOfTree'
<1>1. /\ phase = "construct" /\ input' = input
      /\ model.entry \in Entries => tool'.lowest = ValueOf("Chi2", model.entry)
  BY MakeWithModel
<1>2. tool.kind = "SimpleOptimizer" /\ FirstEntry = 0 /\ BeginsAnew(tool.given)
  BY <1>1 DEF LowestInv
<1>3. /\ \A e \in Entries : ValueOf("Chi2", e) \in Nat
      /\ \A e : e \in Entries <=> e \in Nat /\ e < Len(input.tree)
      /\ 0 \in Entries
  BY InputFacts DEF TreeTypes
<1>4. /\ model.entry \in Entries
      /\ \/ ValueOf("Chi2", model.entry) <= 0
         \/ \A n \in Nat : 0 + n * 1 \in Entries =>
                ValueOf("Chi2", model.entry) <= ValueOf("Chi2", 0 + n * 1)
  BY <1>1, <1>2, <1>3, SearchIsDone, BestSoFar
<1>5. \A e \in Entries : ValueOf("Chi2", model.entry) <= ValueOf("Chi2", e)
  <2>1. ASSUME NEW e \in Entries PROVE e \in Nat /\ 0 + e * 1 = e
    BY <1>3
  <2>2. CASE ValueOf("Chi2", model.entry) <= 0
    BY <1>3, <1>4, <2>2
  <2>3. CASE \A n \in Nat : 0 + n * 1 \in Entries =>
                ValueOf("Chi2", model.entry) <= ValueOf("Chi2", 0 + n * 1)
    BY <2>1, <2>3
  <2> QED
    BY <1>4, <2>2, <2>3
<1>6. Entries' = Entries /\ \A e : ValueOf("Chi2", e)' = ValueOf("Chi2", e)
  BY <1>1, EntriesAreTheSame
<1> QED
  BY <1>1, <1>4, <1>5, <1>6 DEF LowestIsOfTree

\* A step that leaves the tool's place, its first entry and its lowest chi2.
LEMMA LowestStays ==
    ASSUME LowestInv, UNCHANGED <<input, at, tool.kind, tool.given, tool.lowest>>,
           phase # "construct", phase' # "construct",
           tool.kind = "SimpleOptimizer" => UNCHANGED FirstEntry
    PROVE  LowestInv'
<1>1. Entries' = Entries /\ \A e : ValueOf("Chi2", e)' = ValueOf("Chi2", e)
  BY EntriesAreTheSame
<1>2. LowestIsOfTree' <=> LowestIsOfTree
  BY <1>1 DEF LowestIsOfTree
<1>3. BeginsAnew(input.given[1])' <=> BeginsAnew(input.given[1])
  BY DEF BeginsAnew
<1> QED
  BY <1>2, <1>3 DEF LowestInv

LEMMA LowestInvariant == Spec => []LowestInv
<1>1. Init => LowestInv
  <2> SUFFICES ASSUME Init PROVE LowestInv
    OBVIOUS
  <2>1. at = 1 /\ phase = "construct" /\ model = SetValue(CalculatePredictions(Start(input.start)), input.start)
    BY DEF Init
  <2>2. model.entry = input.start
    BY <2>1 DEF SetValue, CalculatePredictions, Start
  <2> QED
    BY <2>1, <2>2 DEF LowestInv
<1>2. TreeTypes /\ OptimizerInv /\ LowestInv /\ [Next]_vars => LowestInv'
  <2> SUFFICES ASSUME TreeTypes, OptimizerInv, LowestInv, [Next]_vars PROVE LowestInv'
    OBVIOUS
  <2> SUFFICES ASSUME input.plan[1] = "SimpleOptimizer", input.start = 0
               PROVE  LowestInv'
    <3>1. input' = input
      BY NextKeepsInput
    <3>2. ~(input.plan[1] = "SimpleOptimizer" /\ input.start = 0) => LowestInv'
      BY <3>1 DEF LowestInv
    <3> QED
      BY <3>2
  <2>0. at >= 1 /\ at \in Nat
    BY DEF LowestInv, TreeTypes
  <2>1. CASE MakeOptimizer \/ MakeSampler \/ MakeSimple
    <3>1. /\ phase = "construct" /\ phase' = "execute" /\ UNCHANGED <<input, at, model>>
          /\ tool'.kind = input.plan[at]
          /\ tool'.kind \in {"SimpleOptimizer", "TreeSampler"} \cup Simple
      BY <2>1, MakeWithoutModel
    <3>2. CASE at = 1
      <4>1. MakeOptimizer
        BY <2>1, <3>2 DEF MakeSampler, MakeSimple, Construct, Simple
      <4>2. FirstEntry' = 0 /\ tool'.given = input.given[1]
        BY <3>1, <3>2, <4>1, OptimizerBegins, MakeWithoutModel DEF LowestInv
      <4> QED
        BY <3>1, <3>2, <4>2 DEF LowestInv
    <3> QED
      BY <2>0, <3>1, <3>2 DEF LowestInv, Simple
  <2>2. CASE MakeProfile \/ MakeSummary
    <3>1. /\ phase = "construct" /\ phase' = "execute" /\ UNCHANGED <<input, at>>
          /\ tool'.kind = input.plan[at]
          /\ tool'.kind \in {"Profile", "Contour", "Summary"}
      BY <2>2, MakeWithModel
    <3>2. at # 1
      BY <3>1
    <3>3. at = 2 /\ input.step = 1 /\ input.criterion = 0 /\ BeginsAnew(input.given[1])
             => LowestIsOfTree'
      BY <2>2, MadeAfterOptimizer
    <3>4. BeginsAnew(input.given[1])' <=> BeginsAnew(input.given[1])
      BY <3>1 DEF BeginsAnew
    <3> QED
      BY <2>0, <3>1, <3>2, <3>3, <3>4 DEF LowestInv
  <2>3. CASE Optimize
    <3>1. /\ phase = "execute" /\ UNCHANGED <<input, at, phase>>
          /\ tool'.kind = tool.kind /\ tool'.lowest = tool.lowest /\ tool'.given = tool.given
          /\ tool'.iteration = tool.iteration + 1
          /\ tool'.iEntry = tool.iEntry + input.step
      <4>1. PICK best, tried : /\ best = Update(model)
                               /\ tried = Update(SetValue(best, tool.iEntry + input.step))
        OBVIOUS
      <4> QED
        BY <2>3, <4>1, OptimizeStep
    <3>2. FirstEntry' = FirstEntry
      BY <3>1, InputFacts, ReachedNext DEF TreeTypes
    <3> QED
      BY <3>1, <3>2, LowestStays
  <2>4. CASE Sample
    <3>1. /\ phase = "execute" /\ UNCHANGED <<input, at, phase>>
          /\ tool.kind = "TreeSampler"
          /\ tool'.kind = tool.kind /\ tool'.lowest = tool.lowest /\ tool'.given = tool.given
      BY <2>4, SampleStep
    <3> QED
      BY <3>1, LowestStays
  <2>5. CASE Filling
    <3>1. /\ phase = "execute" /\ UNCHANGED <<input, at, phase>>
          /\ tool.kind \in Simple \cup {"Profile", "Contour"}
          /\ tool'.kind = tool.kind /\ tool'.lowest = tool.lowest /\ tool'.given = tool.given
      BY <2>5, FillingFills, FillStep
    <3> QED
      BY <3>1, LowestStays DEF Simple
  <2>6. CASE Summarize
    <3>1. /\ phase = "execute" /\ UNCHANGED <<input, at, phase>>
          /\ tool.kind = "Summary"
          /\ tool'.kind = tool.kind /\ tool'.lowest = tool.lowest /\ tool'.given = tool.given
      BY <2>6, SummarizeStep
    <3> QED
      BY <3>1, LowestStays
  <2>7. CASE EndOptimizer \/ EndSampler \/ EndHistograms \/ EndSummary
    <3>1. /\ phase = "execute" /\ phase' = "terminated" /\ UNCHANGED <<input, at>>
          /\ UNCHANGED <<tool.kind, tool.given, tool.lowest, tool.iteration, tool.iEntry>>
      BY <2>7, EndStep
    <3>2. FirstEntry' = FirstEntry
      BY <3>1 DEF FirstEntry
    <3> QED
      BY <3>1, <3>2, LowestStays
  <2>8. CASE NextTool \/ UNCHANGED vars
    <3>1. /\ UNCHANGED <<input, model, tool>>
          /\ \/ phase = "terminated" /\ phase' = "construct" /\ at' = at + 1
             \/ UNCHANGED <<phase, at>>
      BY <2>8, BetweenTools
    <3>2. FirstEntry' = FirstEntry
      BY <3>1 DEF FirstEntry
    <3>3. LowestIsOfTree' <=> LowestIsOfTree
      <4>1. Entries' = Entries /\ \A e : ValueOf("Chi2", e)' = ValueOf("Chi2", e)
        BY <3>1, EntriesAreTheSame
      <4> QED
        BY <3>1, <4>1 DEF LowestIsOfTree
    <3>4. BeginsAnew(input.given[1])' <=> BeginsAnew(input.given[1])
      BY <3>1 DEF BeginsAnew
    <3> QED
      BY <2>0, <3>1, <3>2, <3>3, <3>4 DEF LowestInv
  <2> QED
    BY <2>1, <2>2, <2>3, <2>4, <2>5, <2>6, <2>7, <2>8, NextByKind
<1> QED
  BY <1>1, <1>2, TreeTyping, OptimizerInvariant, PTL DEF Spec

\* SimpleOptimizer: the parameter is left at the lowest chi2 of the entries its
\* steps have come to, unless one met the abort criterion; and what profiles the
\* tree after an optimizer of step one measures from the lowest chi2 of the tree.
THEOREM OptimumFound == Spec => []OptimumIsLowest
<1>1. TreeTypes /\ OptimizerInv /\ LowestInv => OptimumIsLowest
  <2> SUFFICES ASSUME TreeTypes, OptimizerInv, LowestInv PROVE OptimumIsLowest
    OBVIOUS
  <2>1. ASSUME tool.kind = "SimpleOptimizer", phase = "terminated", FirstEntry \in Entries,
               NEW reached, reached = {e \in Entries : Reached(e)},
               NEW ahead,
               ahead = {e \in Entries : e >= FirstEntry /\ (e - FirstEntry) % input.step = 0}
        PROVE  /\ model.entry \in reached
               /\ \A e \in reached : ValueOf("Chi2", model.entry) <= ValueOf("Chi2", e)
               /\ BeginsAnew(tool.given) =>
                      ValueOf("Chi2", model.entry) <= input.criterion \/ reached = ahead
    BY <2>1, BestOfTheSteps
  <2>2. ASSUME LowestIsOfTree PROVE tool.lowest = Min({ValueOf("Chi2", e) : e \in Entries})
    <3> DEFINE S == {ValueOf("Chi2", e) : e \in Entries}
    <3>1. S \subseteq Int /\ tool.lowest \in S /\ \A v \in S : tool.lowest <= v
      BY <2>2, CountedNumbers DEF LowestIsOfTree
    <3> HIDE DEF S
    <3>2. Min(S) = tool.lowest
      BY <3>1, MinIsLeast
    <3> QED
      BY <3>2 DEF S
  <2>3. /\ at = 2 /\ phase # "construct"
        /\ tool.kind \in {"Profile", "Contour", "Summary"}
        /\ input.plan[1] = "SimpleOptimizer"
        /\ input.start = 0 /\ input.step = 1 /\ input.criterion = 0
        /\ BeginsAnew(input.given[1])
        => tool.lowest = Min({ValueOf("Chi2", e) : e \in Entries})
    BY <2>2 DEF LowestInv
  <2> QED
    BY <2>1, <2>3 DEF OptimumIsLowest
<1> QED
  BY <1>1, TreeTyping, OptimizerInvariant, LowestInvariant, PTL

-----------------------------------------------------------------------------
(***************************************************************************)
(* The entries that are written.                                           *)
(***************************************************************************)
LastEntry == Len(input.tree) - 1

\* What the sampler has written, one entry after the other.
Sampled(written) ==
    /\ written \in Seq([entry : Nat, shown : Entries])
    /\ \A k \in 1 .. Len(written) :
          /\ written[k].entry = written[1].entry + k - 1
          /\ written[k].entry \in Entries => written[k].shown = written[k].entry
          /\ written[1].entry \in Entries /\ written[k].entry \notin Entries =>
                 written[k].shown = LastEntry

\* The parameter names the entry that follows the last one written, and what was
\* written last is loaded.
AfterSampled(written) ==
    Len(written) > 0 =>
        /\ model.entry = written[1].entry + Len(written)
        /\ written[1].entry \in Entries =>
               model.loaded = IF model.entry - 1 \in Entries THEN model.entry - 1 ELSE LastEntry

WrittenInv ==
    /\ tool.kind \notin {"SimpleOptimizer", "TreeSampler"} => output = << >>
    /\ tool.kind = "SimpleOptimizer" =>
          output = IF phase = "execute" THEN << >>
                   ELSE <<[entry |-> model.entry, shown |-> model.loaded]>>
    /\ tool.kind = "TreeSampler" =>
          /\ Sampled(output)
          /\ phase = "execute" => AfterSampled(output)

LEMMA ElementOf ==
    ASSUME NEW S, NEW s \in Seq(S), NEW k \in 1 .. Len(s)
    PROVE  s[k] \in S
OBVIOUS

LEMMA SampleOneMore ==
    ASSUME TreeTypes, Sampled(output), AfterSampled(output), Sample
    PROVE  Sampled(output)' /\ AfterSampled(output)'
<1>1. /\ input' = input
      /\ model' \in Models /\ model'.entry = model.entry + 1
  BY SampleStep
<1>2. PICK l \in Entries : /\ l = IF model.entry \in Entries THEN model.entry ELSE model.loaded
                           /\ output' = Append(output, [entry |-> model.entry, shown |-> l])
                           /\ model'.loaded = l
  BY SampleStep
<1>3. /\ Len(input.tree) \in Nat
      /\ \A e : e \in Entries <=> e \in Nat /\ e < Len(input.tree)
      /\ model.entry \in Nat
  BY InputFacts DEF TreeTypes, Models
<1>4. Entries' = Entries /\ LastEntry' = LastEntry
  BY <1>1, EntriesAreTheSame DEF LastEntry
<1>5. PICK s : s = output'
  OBVIOUS
<1>6. PICK r : r = output
  OBVIOUS
<1>7. /\ r \in Seq([entry : Nat, shown : Entries])
      /\ \A k \in 1 .. Len(r) :
          /\ r[k].entry = r[1].entry + k - 1
          /\ r[k].entry \in Entries => r[k].shown = r[k].entry
          /\ r[1].entry \in Entries /\ r[k].entry \notin Entries => r[k].shown = LastEntry
      /\ Len(r) > 0 =>
          /\ model.entry = r[1].entry + Len(r)
          /\ r[1].entry \in Entries =>
               model.loaded = IF model.entry - 1 \in Entries THEN model.entry - 1 ELSE LastEntry
  BY <1>6 DEF Sampled, AfterSampled
<1>8. PICK n \in [entry : Nat, shown : Entries] : n.entry = model.entry /\ n.shown = l
                                                  /\ s = Append(r, n)
  <2>1. [entry |-> model.entry, shown |-> l] \in [entry : Nat, shown : Entries]
    BY <1>2, <1>3
  <2> QED
    BY <1>2, <1>5, <1>6, <2>1
<1>9. /\ Len(r) \in Nat
      /\ s \in Seq([entry : Nat, shown : Entries])
      /\ Len(s) = Len(r) + 1
      /\ s[Len(r) + 1] = n
      /\ \A k \in 1 .. Len(r) : s[k] = r[k]
  BY <1>7, <1>8
<1>10. /\ s[1].entry \in Nat
       /\ n.entry = s[1].entry + Len(r)
  <2>1. CASE Len(r) = 0
    BY <1>3, <1>8, <1>9, <2>1
  <2>2. CASE Len(r) > 0
    <3>1. 1 \in 1 .. Len(r)
      BY <1>9, <2>2
    <3>2. s[1] = r[1]
      BY <1>9, <3>1
    <3>3. r[1] \in [entry : Nat, shown : Entries]
      BY <1>7, <3>1, ElementOf
    <3>4. r[1].entry \in Nat
      BY <3>3
    <3> QED
      BY <1>7, <1>8, <2>2, <3>2, <3>4
  <2> QED
    BY <1>9, <2>1, <2>2
<1>11. s[1].entry \in Entries => l = IF n.entry \in Entries THEN n.entry ELSE LastEntry
  <2>1. CASE Len(r) = 0
    BY <1>2, <1>8, <1>9, <2>1
  <2>2. CASE Len(r) > 0
    <3>1. s[1] = r[1]
      BY <1>9, <2>2
    <3>2. CASE s[1].entry \in Entries /\ n.entry \notin Entries
      <4>1. l = model.loaded
        BY <1>2, <1>8, <3>2
      <4>2. model.loaded = IF model.entry - 1 \in Entries THEN model.entry - 1 ELSE LastEntry
        BY <1>7, <2>2, <3>1, <3>2
      <4>3. model.entry - 1 \in Entries => model.entry - 1 = LastEntry
        <5>1. model.entry >= Len(input.tree)
          BY <1>3, <1>8, <3>2
        <5>2. model.entry - 1 \in Entries => model.entry - 1 < Len(input.tree)
          BY <1>3
        <5> QED
          BY <1>3, <5>1, <5>2 DEF LastEntry
      <4> QED
        BY <3>2, <4>1, <4>2, <4>3
    <3> QED
      BY <1>2, <1>8, <3>2
  <2> QED
    BY <1>9, <2>1, <2>2
<1>12. ASSUME NEW k \in 1 .. Len(s)
       PROVE  /\ s[k].entry = s[1].entry + k - 1
              /\ s[k].entry \in Entries => s[k].shown = s[k].entry
              /\ s[1].entry \in Entries /\ s[k].entry \notin Entries => s[k].shown = LastEntry
  <2>1. CASE k = Len(r) + 1
    <3>1. s[k] = n
      BY <1>9, <2>1
    <3>2. s[k].entry = s[1].entry + k - 1
      BY <1>9, <1>10, <2>1, <3>1
    <3> QED
      BY <1>2, <1>8, <1>11, <3>1, <3>2
  <2>2. CASE k \in 1 .. Len(r)
    <3>1. s[k] = r[k] /\ s[1] = r[1]
      BY <1>9, <2>2
    <3> QED
      BY <1>7, <2>2, <3>1
  <2> QED
    BY <1>9, <2>1, <2>2
<1>13. Sampled(output)'
  BY <1>4, <1>5, <1>9, <1>12 DEF Sampled
<1>14. /\ model'.entry = s[1].entry + Len(s)
       /\ model'.entry - 1 = n.entry
       /\ model'.loaded = l
  <2>1. model'.entry = n.entry + 1 /\ n.entry \in Nat
    BY <1>1, <1>3, <1>8
  <2>2. n.entry + 1 = s[1].entry + (Len(r) + 1)
    <3>1. Len(r) \in Nat
      BY <1>9
    <3> QED
      BY <1>10, <2>1, <3>1
  <2>3. model'.entry = s[1].entry + Len(s)
    BY <1>9, <2>1, <2>2
  <2>4. model'.entry - 1 = n.entry
    BY <2>1
  <2> QED
    BY <1>2, <2>3, <2>4
<1>15. AfterSampled(output)'
  BY <1>4, <1>5, <1>11, <1>14 DEF AfterSampled
<1> QED
  BY <1>13, <1>15

LEMMA NothingSampled == Sampled(<< >>) /\ AfterSampled(<< >>)
BY DEF Sampled, AfterSampled

\* A step that leaves the output and the model.
LEMMA WrittenStays ==
    ASSUME WrittenInv, UNCHANGED <<input, tool.kind, output>>,
           tool.kind = "SimpleOptimizer" =>
               UNCHANGED model /\ (phase = "execute" <=> phase' = "execute"),
           tool.kind = "TreeSampler" /\ phase' = "execute" =>
               UNCHANGED model /\ phase = "execute"
    PROVE  WrittenInv'
<1>1. Entries' = Entries /\ LastEntry' = LastEntry
  BY EntriesAreTheSame DEF LastEntry
<1>2. Sampled(output)' <=> Sampled(output)
  BY <1>1 DEF Sampled
<1>3. model' = model => (AfterSampled(output)' <=> AfterSampled(output))
  BY <1>1 DEF AfterSampled
<1> QED
  BY <1>2, <1>3 DEF WrittenInv

LEMMA WrittenInvariant == Spec => []WrittenInv
<1>1. Init => WrittenInv
  <2> SUFFICES ASSUME Init PROVE WrittenInv
    OBVIOUS
  <2>1. tool.kind = "TreeSampler" /\ output = << >>
    BY NewToolTypes DEF Init
  <2> QED
    BY <2>1, NothingSampled DEF WrittenInv
<1>2. TreeTypes /\ WrittenInv /\ [Next]_vars => WrittenInv'
  <2> SUFFICES ASSUME TreeTypes, WrittenInv, [Next]_vars PROVE WrittenInv'
    OBVIOUS
  <2>1. CASE MakeOptimizer \/ MakeSampler \/ MakeSimple \/ MakeProfile \/ MakeSummary
    <3>1. phase' = "execute" /\ output' = << >>
      BY <2>1, MakeWithoutModel, MakeWithModel
    <3>2. Sampled(output)' /\ AfterSampled(output)'
      BY <3>1 DEF Sampled, AfterSampled
    <3> QED
      BY <3>1, <3>2 DEF WrittenInv
  <2>2. CASE Optimize
    <3>1. PICK best, tried : /\ best = Update(model)
                             /\ tried = Update(SetValue(best, tool.iEntry + input.step))
      OBVIOUS
    <3>2. /\ tool.kind = "SimpleOptimizer" /\ tool'.kind = tool.kind
          /\ UNCHANGED <<phase, output>> /\ phase = "execute"
      BY <2>2, <3>1, OptimizeStep
    <3> QED
      BY <3>2 DEF WrittenInv
  <2>3. CASE Sample
    <3>1. tool.kind = "TreeSampler" /\ tool'.kind = tool.kind /\ phase = "execute"
      BY <2>3, SampleStep
    <3>2. Sampled(output)' /\ AfterSampled(output)'
      BY <2>3, <3>1, SampleOneMore DEF WrittenInv
    <3> QED
      BY <3>1, <3>2 DEF WrittenInv
  <2>4. CASE Filling
    <3>1. /\ UNCHANGED <<input, phase, output>> /\ tool'.kind = tool.kind
          /\ tool.kind \in Simple \cup {"Profile", "Contour"}
      BY <2>4, FillingFills, FillStep
    <3> QED
      BY <3>1, WrittenStays DEF Simple
  <2>5. CASE Summarize
    <3>1. /\ UNCHANGED <<input, phase, output>> /\ tool'.kind = tool.kind
          /\ tool.kind = "Summary"
      BY <2>5, SummarizeStep
    <3> QED
      BY <3>1, WrittenStays
  <2>6. CASE EndOptimizer \/ EndSampler \/ EndHistograms \/ EndSummary
    <3>1. /\ phase = "execute" /\ phase' = "terminated" /\ UNCHANGED <<input, at, model>>
          /\ UNCHANGED tool.kind
          /\ tool.kind = "SimpleOptimizer" =>
                 output' = Append(output, [entry |-> model.entry, shown |-> model.loaded])
          /\ tool.kind # "SimpleOptimizer" => output' = output
      BY <2>6, EndStep
    <3>2. CASE tool.kind = "SimpleOptimizer"
      <4>1. output' = Append(<< >>, [entry |-> model.entry, shown |-> model.loaded])
        BY <3>1, <3>2 DEF WrittenInv
      <4>2. output' = <<[entry |-> model'.entry, shown |-> model'.loaded]>>
        BY <3>1, <4>1
      <4> QED
        BY <3>1, <3>2, <4>2 DEF WrittenInv
    <3>3. CASE tool.kind # "SimpleOptimizer"
      BY <3>1, <3>3, WrittenStays
    <3> QED
      BY <3>2, <3>3
  <2>7. CASE NextTool \/ UNCHANGED vars
    <3>1. /\ UNCHANGED <<input, model, tool, output>>
          /\ phase = "execute" <=> phase' = "execute"
      BY <2>7, BetweenTools
    <3> QED
      BY <3>1, WrittenStays
  <2> QED
    BY <2>1, <2>2, <2>3, <2>4, <2>5, <2>6, <2>7, NextByKind
<1> QED
  BY <1>1, <1>2, TreeTyping, PTL DEF Spec

\* SimpleOptimizer and TreeSampler: what is written for an entry of the tree are
\* this entry's quantities, in the order of the entries, and past the end those of
\* the last entry; except where the optimizer stopped at its first entry or short of
\* the end.
THEOREM WrittenEntries == Spec => []EntriesAreTheirOwn
<1>1. TreeTypes /\ OptimizerInv /\ WrittenInv => EntriesAreTheirOwn
  <2> SUFFICES ASSUME TreeTypes, OptimizerInv, WrittenInv,
                      tool.kind = "SimpleOptimizer" =>
                          BeginsAnew(tool.given) /\ tool.iteration # 1,
                      NEW k \in DOMAIN output
               PROVE  /\ output[k].entry \in Entries => output[k].shown = output[k].entry
                      /\ output[1].entry \in Entries /\ output[k].entry \notin Entries =>
                             output[k].shown = LastEntry
                      /\ output[k].entry = output[1].entry + k - 1
    BY DEF EntriesAreTheirOwn, LastEntry
  <2>1. CASE tool.kind = "SimpleOptimizer"
    <3>1. phase # "execute" /\ output = <<[entry |-> model.entry, shown |-> model.loaded]>>
      BY <2>1 DEF WrittenInv
    <3>2. /\ k = 1 /\ output[1].entry = model.entry /\ output[1].shown = model.loaded
          /\ model.entry \in Nat
      BY <3>1 DEF TreeTypes, Models
    <3>3. model.entry \in Entries => model.loaded = model.entry
      BY <2>1, <3>1, SearchIsDone DEF TreeTypes
    <3> QED
      BY <3>2, <3>3
  <2>2. CASE tool.kind = "TreeSampler"
    BY <2>2 DEF WrittenInv, Sampled
  <2>3. CASE tool.kind \notin {"SimpleOptimizer", "TreeSampler"}
    BY <2>3 DEF WrittenInv
  <2> QED
    BY <2>1, <2>2, <2>3
<1> QED
  BY <1>1, TreeTyping, OptimizerInvariant, WrittenInvariant, PTL

-----------------------------------------------------------------------------
(***************************************************************************)
(* The histograms.                                                         *)
(***************************************************************************)
LEMMA MaxIsGreatest ==
    ASSUME NEW S, S \subseteq Int, NEW m \in S, \A v \in S : v <= m
    PROVE  Max(S) = m
<1>1. ASSUME NEW v \in S, \A w \in S : v >= w PROVE v = m
  <2>1. v \in Int /\ m \in Int /\ v <= m /\ m <= v
    BY <1>1
  <2> QED
    BY <2>1
<1>2. \E x \in S : \A y \in S : x >= y
  OBVIOUS
<1> QED
  BY <1>1, <1>2 DEF Max

\* The entries before n that belong to a bin, by the bin they are counted in.
Points(kind, h, b, n) == {p \in input.lower .. n - 1 : BinOf(kind, h, EntryOf(p)) = b}

LEMMA PointsAreFinite ==
    ASSUME input \in Inputs, NEW kind, NEW h, NEW b, NEW n \in Nat
    PROVE  /\ IsFiniteSet(Points(kind, h, b, n))
           /\ \A p \in Points(kind, h, b, n) : p \in Int /\ p < n
<1>1. input.lower \in Nat
  BY InputFacts
<1>2. IsFiniteSet(input.lower .. n - 1)
  BY <1>1, FS_Interval
<1>3. Points(kind, h, b, n) \subseteq input.lower .. n - 1
  BY DEF Points
<1> QED
  BY <1>1, <1>2, <1>3, FS_Subset

LEMMA PointsBegin ==
    ASSUME input \in Inputs, NEW kind, NEW h, NEW b
    PROVE  Points(kind, h, b, input.lower) = {}
<1>1. input.lower \in Nat
  BY InputFacts
<1>2. input.lower .. input.lower - 1 = {}
  BY <1>1
<1> QED
  BY <1>2 DEF Points

LEMMA PointsGoOn ==
    ASSUME input \in Inputs, NEW kind, NEW h, NEW b, NEW n \in Nat, n >= input.lower
    PROVE  Points(kind, h, b, n + 1) =
               IF BinOf(kind, h, EntryOf(n)) = b THEN Points(kind, h, b, n) \cup {n}
               ELSE Points(kind, h, b, n)
<1>1. input.lower \in Nat
  BY InputFacts
<1>2. input.lower .. (n + 1) - 1 = (input.lower .. n - 1) \cup {n}
  BY <1>1
<1> QED
  BY <1>2 DEF Points

LEMMA EntryOfType ==
    ASSUME input \in Inputs, NEW p \in Int
    PROVE  EntryOf(p) \in Entries /\ ValueOf("Chi2", EntryOf(p)) \in Nat
<1>1. EntryOf(p) \in Entries
  <2>1. Len(input.tree) \in Nat /\ input.start \in Entries
        /\ \A e : e \in Entries <=> e \in Nat /\ e < Len(input.tree)
    BY InputFacts
  <2>2. Len(input.tree) - 1 \in Nat /\ Len(input.tree) - 1 < Len(input.tree)
    BY <2>1
  <2> QED
    BY <2>1, <2>2 DEF EntryOf
<1> QED
  BY <1>1, InputFacts

\* What depends on the input and the kind only.
LEMMA PointsStay ==
    ASSUME input' = input
    PROVE  /\ \A p : EntryOf(p)' = EntryOf(p)
           /\ \A kind, h, b, n : Points(kind, h, b, n)' = Points(kind, h, b, n)
BY DEF EntryOf, Entries, Points, BinOf, AxisOf, ValueOf

\* A content that tells of some entries: how often, the last one's third quantity,
\* the lowest chi2 up to ten.
Tells(kind, h, points, content) ==
    /\ kind \in {"Simple1D", "Simple2D"} => content = Cardinality(points)
    /\ kind = "Simple3D" =>
          /\ points = {} => content = 0
          /\ points # {} =>
                \E m \in points :
                    /\ \A p \in points : p <= m
                    /\ content = ValueOf(input.schedule[h[2] + 1].quantity, EntryOf(m))
    /\ kind \in {"Profile", "Contour"} =>
          /\ content \in Int
          /\ content = 10 \/ \E p \in points : content = Delta(p)
          /\ content <= 10 /\ \A p \in points : content <= Delta(p)

FillingKinds == Simple \cup {"Profile", "Contour"}

\* One more entry.
LEMMA FillTells ==
    ASSUME TreeTypes, tool.kind \in FillingKinds, NEW h, NEW b, NEW n \in Nat, NEW old,
           NEW points, points = Points(tool.kind, h, b, n),
           Tells(tool.kind, h, points, old)
    PROVE  Tells(tool.kind, h, points \cup {n}, Content(h, EntryOf(n), old))
<1>1. IsFiniteSet(points) /\ \A p \in points : p \in Int /\ p < n
  BY PointsAreFinite DEF TreeTypes
<1>2. n \notin points
  BY <1>1
<1>3. CASE tool.kind \in {"Simple1D", "Simple2D"}
  <2>1. Content(h, EntryOf(n), old) = old + 1
    BY <1>3 DEF Content, Counted
  <2>2. Cardinality(points \cup {n}) = Cardinality(points) + 1
    BY <1>1, <1>2, FS_AddElement
  <2>3. old = Cardinality(points)
    BY <1>3 DEF Tells
  <2> QED
    BY <1>3, <2>1, <2>2, <2>3 DEF Tells
<1>4. CASE tool.kind = "Simple3D"
  <2>1. Content(h, EntryOf(n), old) = ValueOf(input.schedule[h[2] + 1].quantity, EntryOf(n))
    BY <1>4 DEF Content, ThirdQuantity
  <2>2. \A p \in points \cup {n} : p <= n
    BY <1>1
  <2> QED
    BY <1>4, <2>1, <2>2 DEF Tells
<1>5. CASE tool.kind \in {"Profile", "Contour"}
  <2>1. Content(h, EntryOf(n), old) = IF Delta(n) < old THEN Delta(n) ELSE old
    BY <1>5 DEF Content, Profiled, Delta
  <2>2. \A p \in points \cup {n} : Delta(p) \in Int
    BY <1>1, EntryOfType DEF Delta, TreeTypes
  <2>3. /\ old \in Int
        /\ old = 10 \/ \E p \in points : old = Delta(p)
        /\ old <= 10 /\ \A p \in points : old <= Delta(p)
    BY <1>5 DEF Tells
  <2>4. PICK c : c = IF Delta(n) < old THEN Delta(n) ELSE old
    OBVIOUS
  <2>5. /\ c \in Int
        /\ c = 10 \/ \E p \in points \cup {n} : c = Delta(p)
        /\ c <= old /\ c <= Delta(n)
    BY <2>2, <2>3, <2>4
  <2>6. c <= 10 /\ \A p \in points \cup {n} : c <= Delta(p)
    BY <2>2, <2>3, <2>5
  <2> QED
    BY <1>5, <2>1, <2>4, <2>5, <2>6 DEF Tells
<1> QED
  BY <1>3, <1>4, <1>5 DEF FillingKinds, Simple

LEMMA FilledAt ==
    ASSUME NEW contents, NEW e, NEW h \in DOMAIN contents, NEW b \in DOMAIN contents[h]
    PROVE  /\ DOMAIN Filled(contents, e)[h] = DOMAIN contents[h]
           /\ Filled(contents, e)[h][b] =
                  IF BinOf(tool.kind, h, e) = b THEN Content(h, e, contents[h][b])
                  ELSE contents[h][b]
BY DEF Filled

LEMMA MarkedAt ==
    ASSUME NEW contents, NEW e, NEW mark, NEW h \in DOMAIN contents, NEW b \in DOMAIN contents[h]
    PROVE  /\ DOMAIN MarkBins(contents, e, mark)[h] = DOMAIN contents[h]
           /\ MarkBins(contents, e, mark)[h][b] =
                  IF BinOf("Summary", h, e) = b THEN mark ELSE contents[h][b]
BY DEF MarkBins

LEMMA FilledWithAt ==
    ASSUME NEW kind, NEW content
    PROVE  /\ DOMAIN FilledWith(kind, content) = HistogramsOf(kind)
           /\ \A h \in HistogramsOf(kind) :
                 /\ DOMAIN FilledWith(kind, content)[h] = Bins(kind, h)
                 /\ \A b \in Bins(kind, h) : FilledWith(kind, content)[h][b] = content
BY DEF FilledWith

\* The histograms made by counting, by the third quantity or by the lowest chi2
\* tell of the entries that the parameter has been set to.
FilledSoFar ==
    /\ tool.iEntry = input.lower + tool.iteration
    /\ tool.iteration <= input.upper - input.lower
    /\ tool.iteration > 0 => model.loaded = EntryOf(tool.iEntry - 1)
    /\ DOMAIN tool.contents = HistogramsOf(tool.kind)
    /\ \A h \in DOMAIN tool.contents : \A b \in DOMAIN tool.contents[h] :
          Tells(tool.kind, h, Points(tool.kind, h, b, tool.iEntry), tool.contents[h][b])
    /\ phase = "terminated" => tool.iteration = input.upper - input.lower

FilledInv == tool.kind \in FillingKinds => FilledSoFar

LEMMA FillKeeps ==
    ASSUME TreeTypes, FilledInv, Filling
    PROVE  FilledInv'
<1>1. /\ phase = "execute" /\ UNCHANGED <<input, phase>>
      /\ tool.kind \in FillingKinds
      /\ tool'.kind = tool.kind
      /\ tool'.iteration = tool.iteration + 1
      /\ tool'.iEntry = tool.iEntry + 1
      /\ tool'.lowest = tool.lowest
      /\ tool.iteration < input.upper - input.lower
  BY FillingFills, FillStep DEF FillingKinds
<1>2. PICK l \in Entries : /\ l = IF tool.iEntry \in Entries THEN tool.iEntry ELSE model.loaded
                           /\ model'.loaded = l
                           /\ tool'.contents = Filled(tool.contents, l)
  BY FillingFills, FillStep
<1>3. /\ tool.iteration \in Nat /\ tool.iEntry \in Nat
      /\ input.lower \in Entries /\ input.lower \in Nat /\ input.upper \in Int
      /\ Len(input.tree) \in Nat
      /\ \A e : e \in Entries <=> e \in Nat /\ e < Len(input.tree)
  BY InputFacts DEF TreeTypes
<1>4. FilledSoFar
  BY <1>1 DEF FilledInv
<1>5. l = EntryOf(tool.iEntry)
  <2>1. CASE tool.iteration = 0
    BY <1>2, <1>3, <1>4, <2>1 DEF FilledSoFar, EntryOf
  <2>2. CASE tool.iteration > 0 /\ tool.iEntry \notin Entries
    <3>1. l = EntryOf(tool.iEntry - 1)
      BY <1>2, <1>4, <2>2 DEF FilledSoFar
    <3>2. tool.iEntry - 1 \in Entries => tool.iEntry - 1 = Len(input.tree) - 1
      <4>1. tool.iEntry >= Len(input.tree)
        BY <1>3, <2>2
      <4>2. tool.iEntry - 1 \in Entries => tool.iEntry - 1 < Len(input.tree)
        BY <1>3
      <4> QED
        BY <1>3, <4>1, <4>2
    <3> QED
      BY <2>2, <3>1, <3>2 DEF EntryOf
  <2>3. CASE tool.iEntry \in Entries
    BY <1>2, <2>3 DEF EntryOf
  <2> QED
    BY <1>3, <2>1, <2>2, <2>3
<1>6. /\ \A p : EntryOf(p)' = EntryOf(p)
      /\ \A kind, h, b, n : Points(kind, h, b, n)' = Points(kind, h, b, n)
      /\ \A q, e : ValueOf(q, e)' = ValueOf(q, e)
  BY <1>1, PointsStay, EntriesAreTheSame
<1>7. \A kind, h, points, content :
          Tells(kind, h, points, content)' <=> Tells(kind, h, points, content)
  BY <1>1, <1>6 DEF Tells, Delta
<1>8. DOMAIN tool'.contents = DOMAIN tool.contents
  BY <1>2 DEF Filled
<1>9. HistogramsOf(tool.kind)' = HistogramsOf(tool.kind)
  BY <1>1 DEF HistogramsOf
<1>10. ASSUME NEW h \in DOMAIN tool'.contents, NEW b \in DOMAIN tool'.contents[h]
       PROVE  Tells(tool.kind, h, Points(tool.kind, h, b, tool.iEntry + 1), tool'.contents[h][b])
  <2>1. h \in DOMAIN tool.contents /\ b \in DOMAIN tool.contents[h]
    BY <1>2, <1>8, <1>10, FilledAt DEF Filled
  <2>2. tool'.contents[h][b] =
            IF BinOf(tool.kind, h, l) = b THEN Content(h, l, tool.contents[h][b])
            ELSE tool.contents[h][b]
    BY <1>2, <2>1, FilledAt
  <2>3. Points(tool.kind, h, b, tool.iEntry + 1) =
            IF BinOf(tool.kind, h, l) = b THEN Points(tool.kind, h, b, tool.iEntry) \cup {tool.iEntry}
            ELSE Points(tool.kind, h, b, tool.iEntry)
    <3>1. tool.iEntry >= input.lower
      BY <1>3, <1>4 DEF FilledSoFar
    <3>2. Points(tool.kind, h, b, tool.iEntry + 1) =
            IF BinOf(tool.kind, h, EntryOf(tool.iEntry)) = b
            THEN Points(tool.kind, h, b, tool.iEntry) \cup {tool.iEntry}
            ELSE Points(tool.kind, h, b, tool.iEntry)
      <4>1. PICK n \in Nat : n = tool.iEntry
        BY <1>3
      <4>2. PICK kind : kind = tool.kind
        OBVIOUS
      <4>3. input \in Inputs /\ n >= input.lower
        BY <3>1, <4>1 DEF TreeTypes
      <4>4. Points(kind, h, b, n + 1) =
              IF BinOf(kind, h, EntryOf(n)) = b THEN Points(kind, h, b, n) \cup {n}
              ELSE Points(kind, h, b, n)
        BY <4>3, PointsGoOn
      <4> QED
        BY <4>1, <4>2, <4>4
    <3> QED
      BY <1>5, <3>2
  <2>4. Tells(tool.kind, h, Points(tool.kind, h, b, tool.iEntry), tool.contents[h][b])
    BY <1>4, <2>1 DEF FilledSoFar
  <2>5. Tells(tool.kind, h, Points(tool.kind, h, b, tool.iEntry) \cup {tool.iEntry},
              Content(h, l, tool.contents[h][b]))
    BY <1>1, <1>3, <1>5, <2>4, FillTells
  <2> QED
    BY <2>2, <2>3, <2>4, <2>5
<1>11. tool'.iEntry = input.lower + tool'.iteration /\ tool'.iteration <= input.upper - input.lower
  BY <1>1, <1>3, <1>4 DEF FilledSoFar
<1>12. model'.loaded = EntryOf(tool.iEntry - 1)'
  <2>1. tool'.iEntry - 1 = tool.iEntry
    BY <1>1, <1>3
  <2>2. EntryOf(tool.iEntry - 1)' = EntryOf(tool'.iEntry - 1)
    BY <1>1 DEF EntryOf, Entries
  <2> QED
    BY <1>2, <1>5, <2>1, <2>2
<1>13. \A h \in DOMAIN tool'.contents : \A b \in DOMAIN tool'.contents[h] :
          Tells(tool.kind, h, Points(tool.kind, h, b, tool.iEntry), tool.contents[h][b])'
  BY <1>1, <1>6, <1>7, <1>10
<1>14. FilledSoFar'
  BY <1>1, <1>4, <1>8, <1>9, <1>11, <1>12, <1>13 DEF FilledSoFar
<1> QED
  BY <1>14 DEF FilledInv

\* A step that leaves the tool and the model.
LEMMA FilledStays ==
    ASSUME FilledInv, UNCHANGED <<input, model, tool>>,
           phase' = "terminated" =>
               phase = "terminated" \/ tool.iteration = input.upper - input.lower
    PROVE  FilledInv'
<1>1. /\ \A p : EntryOf(p)' = EntryOf(p)
      /\ \A kind, h, b, n : Points(kind, h, b, n)' = Points(kind, h, b, n)
      /\ \A q, e : ValueOf(q, e)' = ValueOf(q, e)
  BY PointsStay, EntriesAreTheSame
<1>2. \A kind, h, points, content :
          Tells(kind, h, points, content)' <=> Tells(kind, h, points, content)
  BY <1>1 DEF Tells, Delta
<1>3. HistogramsOf(tool.kind)' = HistogramsOf(tool.kind)
  BY DEF HistogramsOf
<1>4. \A h, b : Tells(tool.kind, h, Points(tool.kind, h, b, tool.iEntry), tool.contents[h][b])'
            <=> Tells(tool.kind, h, Points(tool.kind, h, b, tool.iEntry), tool.contents[h][b])
  BY <1>1, <1>2
<1>5. EntryOf(tool.iEntry - 1)' = EntryOf(tool.iEntry - 1)
  BY DEF EntryOf, Entries
<1> QED
  BY <1>3, <1>4, <1>5 DEF FilledInv, FilledSoFar

LEMMA FilledBegins ==
    ASSUME TreeTypes, MakeSimple \/ MakeProfile
    PROVE  FilledInv'
<1>1. PICK kind \in FillingKinds :
         /\ tool'.kind = kind
         /\ tool'.iteration = 0
         /\ tool'.iEntry = input.lower
         /\ tool'.contents = FilledWith(kind, IF kind \in Simple THEN 0 ELSE 10)
         /\ phase' = "execute"
         /\ input' = input
  <2>1. CASE MakeSimple
    <3>1. tool'.kind = input.plan[at] /\ input.plan[at] \in Simple
      BY <2>1, MakeWithoutModel DEF MakeSimple, Construct
    <3> QED
      BY <2>1, <3>1, MakeWithoutModel DEF FillingKinds
  <2>2. CASE MakeProfile
    <3>1. tool'.kind = input.plan[at] /\ input.plan[at] \in {"Profile", "Contour"}
      BY <2>2, MakeWithModel DEF MakeProfile, Construct
    <3> QED
      BY <2>2, <3>1, MakeWithModel DEF FillingKinds, Simple
  <2> QED
    BY <2>1, <2>2
<1>2. input \in Inputs /\ input.lower \in Nat /\ input.upper \in Int /\ input.upper >= input.lower
  BY InputFacts DEF TreeTypes
<1>3. PICK content : content = IF kind \in Simple THEN 0 ELSE 10
  OBVIOUS
<1>4. /\ DOMAIN tool'.contents = HistogramsOf(kind)
      /\ \A h \in HistogramsOf(kind) : \A b \in DOMAIN tool'.contents[h] :
            tool'.contents[h][b] = content
  BY <1>1, <1>3, FilledWithAt
<1>5. /\ \A p : EntryOf(p)' = EntryOf(p)
      /\ \A k, h, b, n : Points(k, h, b, n)' = Points(k, h, b, n)
      /\ \A q, e : ValueOf(q, e)' = ValueOf(q, e)
  BY <1>1, PointsStay, EntriesAreTheSame
<1>6. \A h : Tells(kind, h, {}, content)'
  BY <1>3, FS_EmptySet DEF Tells, FillingKinds, Simple
<1>7. HistogramsOf(tool.kind)' = HistogramsOf(kind)
  BY <1>1 DEF HistogramsOf
<1>8. \A h \in DOMAIN tool'.contents : \A b \in DOMAIN tool'.contents[h] :
          Tells(tool.kind, h, Points(tool.kind, h, b, tool.iEntry), tool.contents[h][b])'
  <2>1. \A h, b : Points(kind, h, b, input.lower)' = {}
    BY <1>1, <1>2, <1>5, PointsBegin
  <2> QED
    BY <1>1, <1>4, <1>6, <2>1
<1>9. FilledSoFar'
  <2>1. tool'.iEntry = input.lower + tool'.iteration /\ tool'.iteration <= input.upper - input.lower
    BY <1>1, <1>2
  <2> QED
    BY <1>1, <1>4, <1>7, <1>8, <2>1 DEF FilledSoFar
<1> QED
  BY <1>9 DEF FilledInv

LEMMA FilledInvariant == Spec => []FilledInv
<1>1. Init => FilledInv
  BY NewToolTypes DEF Init, FilledInv, FillingKinds, Simple
<1>2. TreeTypes /\ FilledInv /\ [Next]_vars => FilledInv'
  <2> SUFFICES ASSUME TreeTypes, FilledInv, [Next]_vars PROVE FilledInv'
    OBVIOUS
  <2>1. CASE MakeOptimizer \/ MakeSampler \/ MakeSummary
    <3>1. tool'.kind \notin FillingKinds
      <4>1. CASE MakeOptimizer \/ MakeSampler
        <5>1. tool'.kind = input.plan[at] /\ input.plan[at] \in {"SimpleOptimizer", "TreeSampler"}
          BY <4>1, MakeWithoutModel DEF MakeOptimizer, MakeSampler, Construct
        <5> QED
          BY <5>1 DEF FillingKinds, Simple
      <4>2. CASE MakeSummary
        <5>1. tool'.kind = input.plan[at] /\ input.plan[at] = "Summary"
          BY <4>2, MakeWithModel DEF MakeSummary, Construct
        <5> QED
          BY <5>1 DEF FillingKinds, Simple
      <4> QED
        BY <2>1, <4>1, <4>2
    <3> QED
      BY <3>1 DEF FilledInv
  <2>2. CASE MakeSimple \/ MakeProfile
    BY <2>2, FilledBegins
  <2>3. CASE Optimize
    <3>1. PICK best, tried : /\ best = Update(model)
                             /\ tried = Update(SetValue(best, tool.iEntry + input.step))
      OBVIOUS
    <3>2. tool'.kind = "SimpleOptimizer"
      BY <2>3, <3>1, OptimizeStep
    <3> QED
      BY <3>2 DEF FilledInv, FillingKinds, Simple
  <2>4. CASE Sample
    <3>1. tool'.kind = "TreeSampler"
      BY <2>4, SampleStep
    <3> QED
      BY <3>1 DEF FilledInv, FillingKinds, Simple
  <2>5. CASE Filling
    BY <2>5, FillKeeps
  <2>6. CASE Summarize
    <3>1. tool'.kind = "Summary"
      BY <2>6, SummarizeStep
    <3> QED
      BY <3>1 DEF FilledInv, FillingKinds, Simple
  <2>7. CASE EndOptimizer \/ EndSampler \/ EndHistograms \/ EndSummary
    <3>1. /\ UNCHANGED <<input, model>> /\ tool'.kind = tool.kind
          /\ tool.kind # "Summary" => UNCHANGED tool
          /\ tool.kind \notin {"SimpleOptimizer", "TreeSampler", "Summary"} =>
                 tool.iteration >= input.upper - input.lower
      BY <2>7, EndStep
    <3>2. CASE tool.kind \in FillingKinds
      <4>1. tool.iteration >= input.upper - input.lower
            /\ tool.iteration <= input.upper - input.lower
            /\ UNCHANGED tool
        BY <3>1, <3>2 DEF FilledInv, FilledSoFar, FillingKinds, Simple
      <4>2. tool.iteration \in Int /\ input.upper - input.lower \in Int
        BY CountedNumbers
      <4>3. tool.iteration = input.upper - input.lower
        BY <4>1, <4>2
      <4> QED
        BY <3>1, <4>1, <4>3, FilledStays
    <3>3. CASE tool.kind \notin FillingKinds
      BY <3>1, <3>3 DEF FilledInv
    <3> QED
      BY <3>2, <3>3
  <2>8. CASE NextTool \/ UNCHANGED vars
    <3>1. /\ UNCHANGED <<input, model, tool>>
          /\ phase' = "terminated" => phase = "terminated"
      BY <2>8, BetweenTools
    <3> QED
      BY <3>1, FilledStays
  <2> QED
    BY <2>1, <2>2, <2>3, <2>4, <2>5, <2>6, <2>7, <2>8, NextByKind
<1> QED
  BY <1>1, <1>2, TreeTyping, PTL DEF Spec

\* The summary: a bin is marked when an entry that belongs to it is within one
\* sigma or between one and two.
One(points) == IF \E p \in points : Delta(p) <= 1 THEN 12 ELSE 0
Two(points) == IF \E p \in points : Delta(p) > 1 /\ Delta(p) <= 4 THEN 8 ELSE 0

Before(h, b) == Points("Summary", h, b, tool.iteration)

MarkedSoFar ==
    /\ DOMAIN tool.oneSigma = HistogramsOf("Summary")
    /\ \A h \in HistogramsOf("Summary") :
          /\ DOMAIN tool.oneSigma[h] = DOMAIN tool.contents[h]
          /\ \A b \in DOMAIN tool.contents[h] :
                /\ tool.contents[h][b] = Two(Before(h, b))
                /\ tool.oneSigma[h][b] = One(Before(h, b))

SummedUp ==
    /\ tool.iteration >= input.lower /\ tool.iteration <= input.upper
    /\ tool.iteration > input.lower => model.loaded = EntryOf(tool.iteration - 1)
    /\ DOMAIN tool.contents = HistogramsOf("Summary")
    /\ phase = "execute" => MarkedSoFar
    /\ phase = "terminated" =>
          /\ tool.iteration = input.upper
          /\ \A h \in HistogramsOf("Summary") : \A b \in DOMAIN tool.contents[h] :
                tool.contents[h][b] = One(Before(h, b)) + Two(Before(h, b))

SummaryInv == tool.kind = "Summary" => SummedUp

\* One more entry in a set of entries.
LEMMA OneMoreMark ==
    ASSUME TreeTypes, NEW n \in Nat, NEW points, points \subseteq Int
    PROVE  /\ One(points \cup {n}) = IF Delta(n) <= 1 THEN 12 ELSE One(points)
           /\ Two(points \cup {n}) = IF Delta(n) \in 2 .. 4 THEN 8 ELSE Two(points)
<1>1. Delta(n) \in Int
  BY EntryOfType DEF Delta, TreeTypes
<1>2. Delta(n) \in 2 .. 4 <=> Delta(n) > 1 /\ Delta(n) <= 4
  BY <1>1
<1>3. /\ (\E p \in points \cup {n} : Delta(p) <= 1)
             <=> Delta(n) <= 1 \/ \E p \in points : Delta(p) <= 1
      /\ (\E p \in points \cup {n} : Delta(p) > 1 /\ Delta(p) <= 4)
             <=> (Delta(n) > 1 /\ Delta(n) <= 4) \/ \E p \in points : Delta(p) > 1 /\ Delta(p) <= 4
  OBVIOUS
<1> QED
  BY <1>2, <1>3 DEF One, Two

LEMMA SummaryBegins ==
    ASSUME TreeTypes, MakeSummary
    PROVE  SummaryInv'
<1>1. /\ tool'.kind = "Summary"
      /\ tool'.iteration = input.lower
      /\ tool'.contents = FilledWith("Summary", 0)
      /\ tool'.oneSigma = FilledWith("Summary", 0)
      /\ phase' = "execute"
      /\ input' = input
  <2>1. tool'.kind = input.plan[at] /\ input.plan[at] = "Summary"
    BY MakeWithModel DEF MakeSummary, Construct
  <2> QED
    BY <2>1, MakeWithModel
<1>2. input \in Inputs /\ input.lower \in Nat /\ input.upper \in Int /\ input.upper >= input.lower
  BY InputFacts DEF TreeTypes
<1>3. /\ DOMAIN tool'.contents = HistogramsOf("Summary")
      /\ DOMAIN tool'.oneSigma = HistogramsOf("Summary")
      /\ \A h \in HistogramsOf("Summary") :
            /\ DOMAIN tool'.oneSigma[h] = DOMAIN tool'.contents[h]
            /\ \A b \in DOMAIN tool'.contents[h] :
                  tool'.contents[h][b] = 0 /\ tool'.oneSigma[h][b] = 0
  BY <1>1, FilledWithAt
<1>4. HistogramsOf("Summary")' = HistogramsOf("Summary")
  BY <1>1 DEF HistogramsOf
<1>5. \A h, b : One(Before(h, b))' = 0 /\ Two(Before(h, b))' = 0
  <2>1. \A h, b : Before(h, b)' = {}
    BY <1>1, <1>2, PointsStay, PointsBegin DEF Before
  <2> QED
    BY <2>1 DEF One, Two
<1>6. MarkedSoFar'
  BY <1>3, <1>4, <1>5 DEF MarkedSoFar
<1>7. SummedUp'
  BY <1>1, <1>2, <1>3, <1>4, <1>6 DEF SummedUp
<1> QED
  BY <1>7 DEF SummaryInv

LEMMA SummaryKeeps ==
    ASSUME TreeTypes, SummaryInv, Summarize
    PROVE  SummaryInv'
<1>1. /\ phase = "execute" /\ UNCHANGED <<input, phase>>
      /\ tool.kind = "Summary"
      /\ tool'.kind = tool.kind
      /\ tool'.iteration = tool.iteration + 1
      /\ tool'.lowest = tool.lowest
      /\ tool.iteration < input.upper
  BY SummarizeStep
<1>2. PICK l \in Entries :
         /\ l = IF tool.iteration \in Entries THEN tool.iteration ELSE model.loaded
         /\ model'.loaded = l
         /\ tool'.oneSigma = IF ValueOf("Chi2", l) - tool.lowest <= 1
                             THEN MarkBins(tool.oneSigma, l, 12) ELSE tool.oneSigma
         /\ tool'.contents = IF ValueOf("Chi2", l) - tool.lowest \in 2 .. 4
                             THEN MarkBins(tool.contents, l, 8) ELSE tool.contents
  BY SummarizeStep
<1>3. /\ input \in Inputs /\ tool.iteration \in Nat
      /\ input.lower \in Entries /\ input.lower \in Nat /\ input.upper \in Int
      /\ Len(input.tree) \in Nat
      /\ \A e : e \in Entries <=> e \in Nat /\ e < Len(input.tree)
  BY InputFacts DEF TreeTypes
<1>4. /\ SummedUp /\ MarkedSoFar
      /\ tool.iteration >= input.lower
      /\ tool.iteration > input.lower => model.loaded = EntryOf(tool.iteration - 1)
      /\ DOMAIN tool.contents = HistogramsOf("Summary")
  BY <1>1 DEF SummaryInv, SummedUp
<1>5. l = EntryOf(tool.iteration)
  <2>1. CASE tool.iteration = input.lower
    BY <1>2, <1>3, <2>1 DEF EntryOf
  <2>2. CASE tool.iteration > input.lower /\ tool.iteration \notin Entries
    <3>1. l = EntryOf(tool.iteration - 1)
      BY <1>2, <1>4, <2>2
    <3>2. tool.iteration - 1 \in Entries => tool.iteration - 1 = Len(input.tree) - 1
      <4>1. tool.iteration >= Len(input.tree)
        BY <1>3, <2>2
      <4>2. tool.iteration - 1 \in Entries => tool.iteration - 1 < Len(input.tree)
        BY <1>3
      <4> QED
        BY <1>3, <4>1, <4>2
    <3> QED
      BY <2>2, <3>1, <3>2 DEF EntryOf
  <2>3. CASE tool.iteration \in Entries
    BY <1>2, <2>3 DEF EntryOf
  <2> QED
    BY <1>3, <1>4, <2>1, <2>2, <2>3
<1>6. /\ tool'.oneSigma = IF Delta(tool.iteration) <= 1
                          THEN MarkBins(tool.oneSigma, l, 12) ELSE tool.oneSigma
      /\ tool'.contents = IF Delta(tool.iteration) \in 2 .. 4
                          THEN MarkBins(tool.contents, l, 8) ELSE tool.contents
  BY <1>2, <1>5 DEF Delta
<1>7. HistogramsOf("Summary")' = HistogramsOf("Summary")
  BY <1>1 DEF HistogramsOf
<1>8. /\ DOMAIN tool'.contents = HistogramsOf("Summary")
      /\ DOMAIN tool'.oneSigma = HistogramsOf("Summary")
  BY <1>4, <1>6 DEF MarkedSoFar, MarkBins
<1>9. ASSUME NEW h \in HistogramsOf("Summary")
      PROVE  /\ DOMAIN tool'.oneSigma[h] = DOMAIN tool'.contents[h]
             /\ DOMAIN tool'.contents[h] = DOMAIN tool.contents[h]
  <2>1. DOMAIN tool.oneSigma[h] = DOMAIN tool.contents[h]
    BY <1>4 DEF MarkedSoFar
  <2>2. DOMAIN tool'.contents[h] = DOMAIN tool.contents[h]
    BY <1>4, <1>6 DEF MarkBins
  <2>3. DOMAIN tool'.oneSigma[h] = DOMAIN tool.oneSigma[h]
    BY <1>4, <1>6 DEF MarkBins, MarkedSoFar
  <2> QED
    BY <2>1, <2>2, <2>3
<1>10. ASSUME NEW h \in HistogramsOf("Summary"), NEW b \in DOMAIN tool.contents[h]
       PROVE  /\ tool'.contents[h][b] = Two(Before(h, b))'
              /\ tool'.oneSigma[h][b] = One(Before(h, b))'
  <2>1. PICK old : old = Before(h, b)
    OBVIOUS
  <2>2. PICK new : new = Points("Summary", h, b, tool.iteration + 1)
    OBVIOUS
  <2>3. new = IF BinOf("Summary", h, l) = b THEN old \cup {tool.iteration} ELSE old
    <3>1. PICK n \in Nat : n = tool.iteration
      BY <1>3
    <3>2. input \in Inputs /\ n >= input.lower
      BY <1>3, <1>4, <3>1
    <3>3. Points("Summary", h, b, n + 1) =
             IF BinOf("Summary", h, EntryOf(n)) = b THEN Points("Summary", h, b, n) \cup {n}
             ELSE Points("Summary", h, b, n)
      BY <3>2, PointsGoOn
    <3> QED
      BY <1>5, <2>1, <2>2, <3>1, <3>3 DEF Before
  <2>4. old \subseteq Int
    BY <1>3, <2>1, PointsAreFinite DEF Before
  <2>5. /\ One(old \cup {tool.iteration}) = IF Delta(tool.iteration) <= 1 THEN 12 ELSE One(old)
        /\ Two(old \cup {tool.iteration}) = IF Delta(tool.iteration) \in 2 .. 4 THEN 8 ELSE Two(old)
    BY <1>3, <2>4, OneMoreMark
  <2>6. tool.contents[h][b] = Two(old) /\ tool.oneSigma[h][b] = One(old)
        /\ h \in DOMAIN tool.contents /\ h \in DOMAIN tool.oneSigma /\ b \in DOMAIN tool.oneSigma[h]
    BY <1>4, <2>1 DEF MarkedSoFar
  <2>7. tool'.contents[h][b] = IF BinOf("Summary", h, l) = b /\ Delta(tool.iteration) \in 2 .. 4
                               THEN 8 ELSE Two(old)
    BY <1>6, <2>6, MarkedAt
  <2>8. tool'.oneSigma[h][b] = IF BinOf("Summary", h, l) = b /\ Delta(tool.iteration) <= 1
                               THEN 12 ELSE One(old)
    BY <1>6, <2>6, MarkedAt
  <2>9. Before(h, b)' = new
    BY <1>1, <2>2, PointsStay DEF Before
  <2>10. One(Before(h, b))' = One(new) /\ Two(Before(h, b))' = Two(new)
    <3>1. One(Before(h, b))' = One(Before(h, b)') /\ Two(Before(h, b))' = Two(Before(h, b)')
      BY <1>1, PointsStay, EntriesAreTheSame DEF One, Two, Delta
    <3> QED
      BY <2>9, <3>1
  <2> QED
    BY <2>3, <2>5, <2>7, <2>8, <2>10
<1>11. MarkedSoFar'
  BY <1>7, <1>8, <1>9, <1>10 DEF MarkedSoFar
<1>12. model'.loaded = EntryOf(tool.iteration - 1)'
  <2>1. tool'.iteration - 1 = tool.iteration
    BY <1>1, <1>3
  <2>2. EntryOf(tool.iteration - 1)' = EntryOf(tool'.iteration - 1)
    BY <1>1 DEF EntryOf, Entries
  <2> QED
    BY <1>2, <1>5, <2>1, <2>2
<1>13. SummedUp'
  <2>1. tool'.iteration >= input.lower /\ tool'.iteration <= input.upper
    BY <1>1, <1>3, <1>4
  <2> QED
    BY <1>1, <1>7, <1>8, <1>11, <1>12, <2>1 DEF SummedUp
<1> QED
  BY <1>13 DEF SummaryInv

LEMMA SummaryEnds ==
    ASSUME TreeTypes, SummaryInv, EndSummary
    PROVE  SummaryInv'
<1>1. /\ phase = "execute" /\ phase' = "terminated"
      /\ UNCHANGED <<input, model>>
      /\ tool.kind = "Summary"
      /\ UNCHANGED <<tool.kind, tool.iteration, tool.lowest>>
      /\ tool.iteration >= input.upper
      /\ tool'.contents = [h \in DOMAIN tool.contents |-> [b \in DOMAIN tool.contents[h] |->
                              tool.contents[h][b] + tool.oneSigma[h][b]]]
  <2>1. tool.kind = "Summary"
    BY DEF EndSummary, Execute
  <2> QED
    BY <2>1, EndStep
<1>2. /\ MarkedSoFar
      /\ tool.iteration >= input.lower /\ tool.iteration <= input.upper
      /\ tool.iteration > input.lower => model.loaded = EntryOf(tool.iteration - 1)
      /\ DOMAIN tool.contents = HistogramsOf("Summary")
  BY <1>1 DEF SummaryInv, SummedUp
<1>3. tool.iteration = input.upper
  BY <1>1, <1>2, InputFacts DEF TreeTypes
<1>4. HistogramsOf("Summary")' = HistogramsOf("Summary")
  BY <1>1 DEF HistogramsOf
<1>5. \A h, b : One(Before(h, b))' = One(Before(h, b)) /\ Two(Before(h, b))' = Two(Before(h, b))
  <2>1. \A p : Delta(p)' = Delta(p)
    BY <1>1, PointsStay, EntriesAreTheSame DEF Delta
  <2>2. \A h, b : Before(h, b)' = Before(h, b)
    BY <1>1, PointsStay DEF Before
  <2> QED
    BY <2>1, <2>2 DEF One, Two
<1>6. /\ DOMAIN tool'.contents = HistogramsOf("Summary")
      /\ \A h \in HistogramsOf("Summary") : \A b \in DOMAIN tool'.contents[h] :
            tool'.contents[h][b] = One(Before(h, b)) + Two(Before(h, b))
  <2>1. DOMAIN tool'.contents = HistogramsOf("Summary")
    BY <1>1, <1>2
  <2>2. ASSUME NEW h \in HistogramsOf("Summary"), NEW b \in DOMAIN tool'.contents[h]
        PROVE  tool'.contents[h][b] = One(Before(h, b)) + Two(Before(h, b))
    <3>1. b \in DOMAIN tool.contents[h]
      BY <1>1, <1>2, <2>2
    <3>2. tool'.contents[h][b] = tool.contents[h][b] + tool.oneSigma[h][b]
      BY <1>1, <1>2, <3>1
    <3>3. /\ tool.contents[h][b] = Two(Before(h, b)) /\ Two(Before(h, b)) \in Nat
          /\ tool.oneSigma[h][b] = One(Before(h, b)) /\ One(Before(h, b)) \in Nat
      BY <1>2, <3>1 DEF MarkedSoFar, One, Two
    <3> QED
      BY <3>2, <3>3
  <2> QED
    BY <2>1, <2>2
<1>7. EntryOf(tool.iteration - 1)' = EntryOf(tool.iteration - 1)
  BY <1>1 DEF EntryOf, Entries
<1>8. SummedUp'
  <2>1. /\ tool'.iteration = input'.upper
        /\ tool'.iteration >= input'.lower /\ tool'.iteration <= input'.upper
    BY <1>1, <1>2, <1>3
  <2>2. tool'.iteration > input'.lower => model'.loaded = EntryOf(tool.iteration - 1)'
    BY <1>1, <1>2, <1>7
  <2>3. \A h \in HistogramsOf("Summary")' : \A b \in DOMAIN tool'.contents[h] :
            tool'.contents[h][b] = One(Before(h, b))' + Two(Before(h, b))'
    BY <1>4, <1>5, <1>6
  <2> QED
    BY <1>1, <1>4, <1>6, <2>1, <2>2, <2>3 DEF SummedUp
<1> QED
  BY <1>8 DEF SummaryInv

LEMMA SummaryStays ==
    ASSUME SummaryInv, UNCHANGED <<input, model, tool>>, phase' \in {phase, "construct"}
    PROVE  SummaryInv'
<1>1. HistogramsOf("Summary")' = HistogramsOf("Summary")
  BY DEF HistogramsOf
<1>2. \A h, b : One(Before(h, b))' = One(Before(h, b)) /\ Two(Before(h, b))' = Two(Before(h, b))
  <2>1. \A p : Delta(p)' = Delta(p)
    BY PointsStay, EntriesAreTheSame DEF Delta
  <2>2. \A h, b : Before(h, b)' = Before(h, b)
    BY PointsStay DEF Before
  <2> QED
    BY <2>1, <2>2 DEF One, Two
<1>3. MarkedSoFar' <=> MarkedSoFar
  BY <1>1, <1>2 DEF MarkedSoFar
<1>4. EntryOf(tool.iteration - 1)' = EntryOf(tool.iteration - 1)
  BY DEF EntryOf, Entries
<1>5. SummedUp => SummedUp'
  BY <1>1, <1>2, <1>3, <1>4 DEF SummedUp
<1> QED
  BY <1>5 DEF SummaryInv

LEMMA SummaryInvariant == Spec => []SummaryInv
<1>1. Init => SummaryInv
  BY NewToolTypes DEF Init, SummaryInv
<1>2. TreeTypes /\ SummaryInv /\ [Next]_vars => SummaryInv'
  <2> SUFFICES ASSUME TreeTypes, SummaryInv, [Next]_vars PROVE SummaryInv'
    OBVIOUS
  <2>1. CASE MakeOptimizer \/ MakeSampler \/ MakeSimple
    <3>1. tool'.kind \in {"SimpleOptimizer", "TreeSampler"} \cup Simple
      BY <2>1, MakeWithoutModel
    <3> QED
      BY <3>1 DEF SummaryInv, Simple
  <2>2. CASE MakeProfile
    <3>1. tool'.kind = input.plan[at] /\ input.plan[at] \in {"Profile", "Contour"}
      BY <2>2, MakeWithModel DEF MakeProfile, Construct
    <3> QED
      BY <3>1 DEF SummaryInv
  <2>3. CASE MakeSummary
    BY <2>3, SummaryBegins
  <2>4. CASE Optimize
    <3>1. PICK best, tried : /\ best = Update(model)
                             /\ tried = Update(SetValue(best, tool.iEntry + input.step))
      OBVIOUS
    <3>2. tool'.kind = "SimpleOptimizer"
      BY <2>4, <3>1, OptimizeStep
    <3> QED
      BY <3>2 DEF SummaryInv
  <2>5. CASE Sample
    <3>1. tool'.kind = "TreeSampler"
      BY <2>5, SampleStep
    <3> QED
      BY <3>1 DEF SummaryInv
  <2>6. CASE Filling
    <3>1. tool'.kind \in Simple \cup {"Profile", "Contour"}
      BY <2>6, FillingFills, FillStep
    <3> QED
      BY <3>1 DEF SummaryInv, Simple
  <2>7. CASE Summarize
    BY <2>7, SummaryKeeps
  <2>8. CASE EndSummary
    BY <2>8, SummaryEnds
  <2>9. CASE EndOptimizer \/ EndSampler \/ EndHistograms
    <3>1. tool.kind # "Summary" /\ tool'.kind = tool.kind
      BY <2>9, EndStep DEF EndOptimizer, EndSampler, EndHistograms, Execute, Simple
    <3> QED
      BY <3>1 DEF SummaryInv
  <2>10. CASE NextTool \/ UNCHANGED vars
    <3>1. UNCHANGED <<input, model, tool>> /\ phase' \in {phase, "construct"}
      BY <2>10, BetweenTools
    <3> QED
      BY <3>1, SummaryStays
  <2> QED
    BY <2>1, <2>2, <2>3, <2>4, <2>5, <2>6, <2>7, <2>8, <2>9, <2>10, NextByKind
<1> QED
  BY <1>1, <1>2, TreeTyping, PTL DEF Spec

\* A histogram is named by scheduled quantities.
LEMMA HistogramNames ==
    ASSUME input \in Inputs, NEW kind \in FillingKinds \cup {"Summary"},
           NEW h \in HistogramsOf(kind), NEW k \in DOMAIN h
    PROVE  h[k] \in 1 .. Len(input.schedule) /\ 1 \in 1 .. Len(input.schedule)
<1>1. Len(input.schedule) \in 1 .. 3
  BY InputsAssumption
<1>2. CASE kind \in {"Simple1D", "Profile", "Summary"}
  <2>1. PICK i \in 1 .. Len(input.schedule) : h = <<i>>
    BY <1>2 DEF HistogramsOf
  <2> QED
    BY <1>1, <2>1
<1>3. CASE kind \in {"Simple2D", "Contour", "Simple3D"}
  <2>1. h \in (1 .. Len(input.schedule)) \X (1 .. Len(input.schedule))
    BY <1>3 DEF HistogramsOf
  <2>2. k \in {1, 2} /\ h[1] \in 1 .. Len(input.schedule) /\ h[2] \in 1 .. Len(input.schedule)
    BY <2>1
  <2> QED
    BY <1>1, <2>2
<1> QED
  BY <1>2, <1>3 DEF FillingKinds, Simple

LEMMA NotRaised ==
    ASSUME NEW axis, NEW raised, ~raised
    PROVE  Edges(axis, raised) = Edges(axis, FALSE)
BY DEF Edges

\* The bin an entry is counted in is the one its values belong to.
LEMMA BinsAreTrue ==
    ASSUME input \in Inputs, AxesAreTrue(input), NEW kind \in FillingKinds \cup {"Summary"},
           NEW h \in HistogramsOf(kind), NEW e \in Entries
    PROVE  BinOf(kind, h, e) = TrueBin(kind, h, e)
<1>1. e + 1 \in 1 .. Len(input.tree)
  BY InputFacts DEF Entries
<1>2. ASSUME NEW k \in DOMAIN h, NEW axis, axis = AxisOf(kind, h, k),
             NEW v, v = ValueOf(input.schedule[h[k]].quantity, e)
      PROVE  (IF kind \in {"Simple2D", "Contour"} THEN PlainBin(axis, v) ELSE LoggedBin(axis, v))
                 = FindBin(Edges(axis, FALSE), IF axis.log THEN Log10(v) ELSE v)
  <2>1. PICK a \in 1 .. Len(input.schedule) :
            /\ axis = input.schedule[a]
            /\ kind \in {"Simple2D", "Contour"} => a = h[k]
    BY <1>2, HistogramNames DEF AxisOf
  <2>2. CASE axis.log
    <3>1. /\ ~(AxisBound(axis, axis.lower) > 0)
          /\ kind \in {"Simple2D", "Contour"} =>
                 PlainBin(axis, v) = FindBin(Edges(axis, FALSE), Log10(v))
      BY <1>1, <1>2, <2>1, <2>2 DEF AxesAreTrue, ValueOf
    <3>2. LoggedBin(axis, v) = FindBin(Edges(axis, FALSE), Log10(v))
      BY <2>2, <3>1, NotRaised DEF LoggedBin
    <3> QED
      BY <2>2, <3>1, <3>2
  <2>3. CASE ~axis.log
    <3>1. PlainBin(axis, v) = FindBin(Edges(axis, FALSE), v)
      BY <2>3, NotRaised DEF PlainBin
    <3>2. LoggedBin(axis, v) = FindBin(Edges(axis, FALSE), v)
      BY <2>3, NotRaised DEF LoggedBin
    <3> QED
      BY <2>3, <3>1, <3>2
  <2> QED
    BY <2>2, <2>3
<1> QED
  BY <1>2 DEF BinOf, TrueBin

LEMMA TellsSaid ==
    ASSUME TreeTypes, NEW kind \in FillingKinds, NEW h, NEW points, points \subseteq Int,
           NEW content, Tells(kind, h, points, content)
    PROVE  content = Said(kind, h, points)
<1>1. CASE kind \in {"Simple1D", "Simple2D"}
  BY <1>1 DEF Tells, Said
<1>2. CASE kind = "Simple3D"
  <2>1. ASSUME NEW m \in points, \A p \in points : p <= m PROVE Max(points) = m
    BY <2>1, MaxIsGreatest
  <2> QED
    BY <1>2, <2>1 DEF Tells, Said
<1>3. CASE kind \in {"Profile", "Contour"}
  <2>1. \A p \in points : Delta(p) \in Int
    BY EntryOfType DEF Delta, TreeTypes
  <2>2. PICK S : S = {10} \union {Delta(p) : p \in points}
    OBVIOUS
  <2>3. S \subseteq Int /\ content \in S /\ \A v \in S : content <= v
    BY <1>3, <2>1, <2>2 DEF Tells
  <2>4. Min(S) = content
    BY <2>3, MinIsLeast
  <2> QED
    BY <1>3, <2>2, <2>4 DEF Said
<1> QED
  BY <1>1, <1>2, <1>3 DEF FillingKinds, Simple

\* Simple-, Profile-, Contour- and SummaryHistogramMaker: where the axes are true,
\* each bin of an ended histogram says of the entries between the bounds exactly
\* what belongs there: how often, the last third quantity, the lowest chi2, or the
\* regions of one and two sigma.
THEOREM HistogramsTellOfTheTree ==
    ASSUME \A i \in Inputs : AxesAreTrue(i)
    PROVE  Spec => []HistogramIsOfTheTree
<1>1. TreeTypes /\ FilledInv /\ SummaryInv => HistogramIsOfTheTree
  <2> SUFFICES ASSUME TreeTypes, FilledInv, SummaryInv,
                      tool.kind \notin {"SimpleOptimizer", "TreeSampler"}, phase = "terminated",
                      NEW h \in DOMAIN tool.contents, NEW b \in DOMAIN tool.contents[h],
                      NEW points,
                      points = {p \in input.lower .. input.upper - 1 :
                                    TrueBin(tool.kind, h, EntryOf(p)) = b}
               PROVE  tool.contents[h][b] = Said(tool.kind, h, points)
    BY DEF HistogramIsOfTheTree
  <2>1. PICK kind : kind = tool.kind
    OBVIOUS
  <2>2. kind \in FillingKinds \cup {"Summary"}
    BY <2>1 DEF TreeTypes, Tools, FillingKinds, Simple
  <2>3. /\ input \in Inputs /\ AxesAreTrue(input)
        /\ input.lower \in Nat /\ input.upper \in Int /\ tool.iteration \in Nat
    BY InputFacts DEF TreeTypes
  <2>4. h \in HistogramsOf(kind)
    BY <2>1, <2>2 DEF FilledInv, FilledSoFar, SummaryInv, SummedUp
  <2>5. points = Points(kind, h, b, input.upper)
    <3>1. ASSUME NEW p \in input.lower .. input.upper - 1
          PROVE  BinOf(kind, h, EntryOf(p)) = TrueBin(kind, h, EntryOf(p))
      BY <2>2, <2>3, <2>4, EntryOfType, BinsAreTrue
    <3> QED
      BY <2>1, <3>1 DEF Points
  <2>6. points \subseteq Int
    BY <2>3
  <2>7. CASE kind \in FillingKinds
    <3>1. tool.iEntry = input.upper
      BY <2>1, <2>3, <2>7 DEF FilledInv, FilledSoFar
    <3>2. Tells(kind, h, points, tool.contents[h][b])
      BY <2>1, <2>5, <2>7, <3>1 DEF FilledInv, FilledSoFar
    <3> QED
      BY <2>1, <2>6, <2>7, <3>2, TellsSaid
  <2>8. CASE kind = "Summary"
    <3>1. /\ tool.iteration = input.upper
          /\ tool.contents[h][b] = One(Before(h, b)) + Two(Before(h, b))
      BY <2>1, <2>4, <2>8 DEF SummaryInv, SummedUp
    <3>2. Before(h, b) = points
      BY <2>5, <2>8, <3>1 DEF Before
    <3> QED
      BY <2>1, <2>8, <3>1, <3>2 DEF Said, One, Two
  <2> QED
    BY <2>2, <2>7, <2>8
<1> QED
  BY <1>1, TreeTyping, FilledInvariant, SummaryInvariant, PTL
=============================================================================
