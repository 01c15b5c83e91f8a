---------------------------- MODULE MCTreeTools ----------------------------
(***************************************************************************)
(* Trees of three entries with every choice of chi2, at three places of    *)
(* which two or more entries share one, and plans of two tools.            *)
(***************************************************************************)
EXTENDS TreeTools

Places == <<[X1 |-> 1, X2 |-> 30, X3 |-> 5],
            [X1 |-> 10, X2 |-> 10, X3 |-> 15],
            [X1 |-> 100, X2 |-> 50, X3 |-> 25]>>

TreeOf(chi2, places) ==
    [k \in 1 .. 3 |-> [Chi2 |-> chi2[k], X1 |-> Places[places[k]].X1,
                       X2 |-> Places[places[k]].X2, X3 |-> Places[places[k]].X3]]

Trees == {TreeOf(chi2, places) : chi2 \in [1 .. 3 -> {0, 1, 3, 12}],
                                 places \in {<<1, 1, 2>>, <<3, 2, 3>>}}

Axis(quantity, log, lower, upper, bins) ==
    [quantity |-> quantity, log |-> log, lower |-> lower, upper |-> upper, bins |-> bins]

\* A logarithmic axis that begins at 0.1, as those of the example files do.
UsualSchedule == <<Axis("X2", FALSE, 0, 40, 2), Axis("X1", TRUE, 1, 100, 2),
                   Axis("X3", FALSE, 10, 30, 1)>>
SummarySchedule == <<Axis("X1", TRUE, 1, 100, 2)>>

\* A logarithmic axis that begins at ten.
HighSchedule == <<Axis("X1", TRUE, 100, 10000, 2)>>

Given(iteration, chi2) == [iteration |-> iteration, chi2 |-> chi2]
Input(tree, start, upper, plan, schedule) ==
    [tree |-> tree, start |-> start, lower |-> 0, upper |-> upper, plan |-> plan,
     given |-> <<Given(0, Infinity), Given(0, Infinity)>>,
     schedule |-> schedule, criterion |-> 0, step |-> 1, points |-> -1]

\* An optimizer that begins anywhere and any tool after it; a tool that is not an
\* optimizer, alone or with another after it, within other bounds; and tools whose
\* nodes give an iteration and a chi2 to begin with.
UsualInputs ==
    {[Input(t, s, 3, <<"SimpleOptimizer", k>>, UsualSchedule) EXCEPT !.step = w, !.criterion = c] :
        t \in Trees, s \in {0, 1}, k \in Tools, w \in {1, 2}, c \in {0, 1}}
    \union
    {[Input(t, s, u, <<k, l>>, UsualSchedule) EXCEPT !.lower = u % 2, !.points = p] :
        t \in {t \in Trees : t[1].Chi2 # 0}, s \in {0, 2}, u \in {1, 2, 5},
        k \in {"TreeSampler", "Simple1D", "Contour"}, l \in {"TreeSampler", "Profile", "Summary"},
        p \in {-1, 2}}
    \union
    {Input(t, s, 3, <<k, "Summary">>, SummarySchedule) :
        t \in Trees, s \in {0, 1}, k \in {"SimpleOptimizer", "Profile"}}
    \union
    {[Input(t, 0, 3, <<k, l>>, UsualSchedule) EXCEPT !.given = <<g, h>>] :
        t \in {t \in Trees : t[1].Chi2 # 0}, k \in {"SimpleOptimizer", "TreeSampler"},
        l \in {"SimpleOptimizer", "Profile"},
        g \in {Given(1, Infinity), Given(0, 0), Given(4, 2)}, h \in {Given(2, 1)}}

HighInputs ==
    {Input([e \in 1 .. 3 |-> [t[e] EXCEPT !.X1 = 10 * @]], 0, 3, <<"Profile">>, HighSchedule) :
        t \in Trees}

ASSUME UsualAxesAreTrue == \A i \in UsualInputs : AxesAreTrue(i)
=============================================================================
