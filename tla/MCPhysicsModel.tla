--------------------------- MODULE MCPhysicsModel ---------------------------
(***************************************************************************)
(* Input files for PhysicsModel: every pair of calculators, some groups of *)
(* three, observables with covariance matrices, and calculators of a chi2. *)
(***************************************************************************)
EXTENDS PhysicsModel

CONSTANT Absent   \* libraries Fittino was built without

Types ==
    {"AstroCalculator", "AstroFitCalculator", "AxionCalculator", "CheckMATECalculator",
     "CheckMATE2Calculator", "CheckMATE3Calculator", "CheckMATE4Calculator", "CheckVacuumCalculator",
     "Chi2Calculator", "Cls2Calculator", "EventNumber2Calculator", "EventNumber3Calculator",
     "FeynHiggsNativeCalculator", "FeynHiggsRescalingCalculator", "FeynHiggsSLHACalculator",
     "FlavioCalculator", "FormulaCalculator", "FormulaPropCalculator", "GCECalculator",
     "GM2CalcCalculator", "HDim6Calculator", "HECCalculator", "HepMCSplitCalculator",
     "HerwigppCalculator", "HiggsBoundsHadXSCalculator", "HiggsBoundsHECCalculator",
     "HiggsBoundsSLHACalculator", "HiggsSignalsCalculator", "HiggsSignalsHadXSCalculator",
     "HiggsSignalsPartXSCalculator", "HiggsSignalsSLHACalculator", "HiggsSignalsSMCalculator",
     "LHCCalculator", "LHCChi2Calculator", "LHCNeuralNetCalculator", "LHCNeuralNet2Calculator",
     "LinearInterpolationCalculator", "MadGraphCalculator", "MadGraph2Calculator",
     "MadGraph5Calculator", "MadGraph5EWCalculator", "MicromegasCalculator", "MinimumCalculator",
     "NLLFastCalculator", "NLLFast2Calculator", "NewHiggsSignalsHadXSCalculator",
     "ProspinoCalculator", "RPVCalculator", "RegressionCalculator", "RosenbrockCalculator",
     "SARAHSPhenoCalculator", "SModelSCalculator", "SPhenoCalculator", "SuperIsoCalculator",
     "TreeCalculator", "NotACalculator"}

AllLibraries ==
    {"EIGEN3", "FEYNHIGGS", "GM2CALC", "GSL", "HEPMC", "HIGGSBOUNDS", "HIGGSSIGNALS", "LHAPDF",
     "MICROMEGAS", "PYTHON2", "PYTHON3", "SLHAEA"}
BuiltWith == AllLibraries \ Absent

P == <<"", "P">>
Parameters == {P, <<"", "Mass_h">>, <<"", "mass_h">>, <<"", "Mt">>, <<"", "DeltaMassHHB">>}

NodeOf(class, name, formulas) ==
    [class |-> class, name |-> name, prefix |-> "default", formulas |-> formulas, makes |-> {"Q"},
     lazy |-> FALSE, parametersFirst |-> FALSE, measurements |-> << >>, correlations |-> << >>]
File(nodes) ==
    [parameters |-> Parameters, nodes |-> nodes, observables |-> << >>, matrices |-> << >>,
     values |-> {1}]

\* Something a calculator of a class predicts, by whose name it goes.
First(class, formulas) == NodeOf(class, IF class = "HDim6Calculator" THEN "HDim6" ELSE "default", formulas)
Second(class, formulas) == NodeOf(class, "B", formulas)
Predicted(node) ==
    LET published == CreateCalculator({}, node).calculator.publishes
    IN  IF published = {} THEN P ELSE CHOOSE q \in published : TRUE
OfFirst == [class \in Types |-> Predicted(First(class, {P}))]
OfSecond == [class \in Types |-> Predicted(Second(class, {P}))]

-----------------------------------------------------------------------------
\* Any two calculators, that ask for parameters or for what the other predicts.
Pairs ==
    {File(<<First(class1, IF asks = "first" THEN {OfSecond[class2]} ELSE {P}),
            Second(class2, IF asks = "second" THEN {OfFirst[class1]} ELSE {P})>>) :
        class1 \in Types, class2 \in Types, asks \in {"none", "first", "second"}}

\* Three calculators that ask for each other's predictions, at construction and later.
Triples ==
    {File(<<NodeOf("FormulaCalculator", "A", {P}), NodeOf(c, "B", f), NodeOf(d, "C", g)>>) :
        c \in {"LHCNeuralNet2Calculator", "FormulaPropCalculator", "MinimumCalculator", "LHCCalculator"},
        d \in {"MinimumCalculator", "AxionCalculator", "AstroCalculator"},
        f \in SUBSET {<<"A", "Q">>, <<"B", "Value">>, <<"", "Q">>, <<"C", "Value">>, <<"C", "MyOutputQuantity">>},
        g \in SUBSET {<<"A", "Q">>, <<"B", "Q">>, <<"B", "Chi2">>, <<"", "Q">>}}

\* The dark matter chain, the Higgs chain, one that feeds on the chi2 of the model itself,
\* limits that depend on a parameter and a prediction, and some that lack something.
Chains ==
    LET node(class) == NodeOf(class, "default", {P})
    IN  {File(s) : s \in {<<node("MicromegasCalculator"), node("SPhenoCalculator"), node("GCECalculator")>>,
                          <<node("GCECalculator"), node("MicromegasCalculator"), node("SPhenoCalculator")>>,
                          <<node("MicromegasCalculator"), node("GCECalculator"), node("SPhenoCalculator")>>,
                          <<node("FeynHiggsSLHACalculator"), node("FeynHiggsRescalingCalculator"),
                            node("HiggsBoundsSLHACalculator")>>,
                          <<node("HDim6Calculator"), node("HiggsBoundsHadXSCalculator")>>,
                          <<[node("HDim6Calculator") EXCEPT !.lazy = TRUE], node("FormulaCalculator")>>,
                          <<NodeOf("AstroCalculator", "default", {<<"", "Chi2">>}),
                            NodeOf("FormulaCalculator", "default", {<<"", "Q">>})>>}}
        \cup {File(<<NodeOf("FormulaCalculator", "A", {P}),
                     [NodeOf("LHCCalculator", "default", {P, <<"A", "Q">>}) EXCEPT !.parametersFirst = first]>>) :
                first \in BOOLEAN}
        \cup {[File(<<node("HDim6Calculator"), node("HiggsBoundsHadXSCalculator")>>)
                EXCEPT !.parameters = @ \ {<<"", "DeltaMassHHB">>}]}

-----------------------------------------------------------------------------
\* Observables of the predictions of one calculator.
Makes == {"a", "b", "c"}
Of(name) == <<"F", name>>
F == [NodeOf("FormulaCalculator", "F", {P}) EXCEPT !.makes = Makes]
Observable(name, error, relative, noFit) ==
    [of |-> Of(name), error |-> error, relative |-> relative, bestFit |-> 1, noFit |-> noFit,
     noUpdate |-> FALSE]
Row(name, columns) == [name |-> Of(name), columns |-> columns]

Kinds(name) ==
    {Observable(name, 2, 0, FALSE), Observable(name, 2, 0, TRUE), Observable(name, 1, 2, FALSE),
     [Observable(name, 0, 4, FALSE) EXCEPT !.noUpdate = TRUE],
     [Observable(name, 0, 1, FALSE) EXCEPT !.bestFit = 0]}

Matrices ==
    {<< >>,
     << <<Row("b", <<16>>)>> >>,
     << <<Row("b", <<16, 2>>), Row("a", <<2, 4>>)>> >>,
     << <<Row("b", <<4, 4>>), Row("a", <<4, 4>>)>> >>,
     << <<Row("c", <<4>>)>>, <<Row("a", <<16, 4>>), Row("b", <<4, 4>>)>> >>,
     << <<Row("c", <<4, 2>>), Row("b", <<2, 4>>)>>, <<Row("a", <<1>>)>> >>,
     << <<Row("c", <<16, 2, 4>>), Row("a", <<2, 4, 1>>), Row("b", <<4, 1, 4>>)>> >>}

ObservableFiles ==
    {[File(<<F>>) EXCEPT !.observables = obs, !.matrices = m, !.values = {1, 2}] :
        obs \in {<<a, b, c>> : a \in Kinds("a"), b \in Kinds("b"), c \in Kinds("c")},
        m \in Matrices}
    \cup {[File(<<F, NodeOf("LHCNeuralNet2Calculator", "N", {P})>>)
             EXCEPT !.observables = <<c, a>>, !.matrices = << <<Row("a", <<4, 2>>), Row("c", <<2, 4>>)>> >>,
                    !.values = {1, 2}] :
          a \in Kinds("a"), c \in Kinds("a") \cup Kinds("c")}

\* Up to three observables are fitted.
Determinant(m) ==
    LET e(i, j) == m[i][j].entry
        minor(i, j, k, l) == e(i, k) * e(j, l) - e(i, l) * e(j, k)
    IN  CASE Len(m) = 0 -> 1
          [] Len(m) = 1 -> e(1, 1)
          [] Len(m) = 2 -> minor(1, 2, 1, 2)
          [] Len(m) = 3 -> e(1, 1) * minor(2, 3, 2, 3) - e(1, 2) * minor(2, 3, 1, 3)
                           + e(1, 3) * minor(2, 3, 1, 2)
MCNotInvertible(m) ==
    /\ \A i, j \in DOMAIN m : m[i][j].exact /\ m[i][j].entry # NotANumber
    /\ Determinant(m) = 0

-----------------------------------------------------------------------------
\* Measurements of those predictions, correlated or not.
Named(name, size, relative) == [name |-> name, size |-> size, relative |-> relative]
Measurement(name, of, uncertainties) == [name |-> name, of |-> of, uncertainties |-> uncertainties]
Between2(name, value) == [name |-> name, between |-> <<"n", "m">>, value |-> value]

Shared == {Named("s", 1, TRUE), Named("s", 2, FALSE)}
Alone == {<< >>, <<Named("", 1, TRUE)>>, <<Named("", 1, FALSE), Named("t", 1, FALSE)>>}
Correlations ==
    {<< >>, <<Between2("s", 1)>>, <<Between2("s", -1)>>, <<Between2("s", 1), Between2("t", 1)>>,
     <<Between2("s", 1), Between2("s", 1)>>, <<Between2("t", 1)>>}

Chi2Node(of, uncertainties1, uncertainties2, correlations) ==
    [NodeOf("Chi2Calculator", "default", {Of("a"), of})
       EXCEPT !.measurements = <<Measurement("m", Of("a"), uncertainties1),
                                 Measurement("n", of, uncertainties2)>>,
              !.correlations = correlations]
Chi2Files ==
    {[File(<<F, NodeOf("LHCNeuralNet2Calculator", "N", {P}), Chi2Node(of, <<s>> \o u, <<t>> \o w, c)>>)
        EXCEPT !.values = {1, 2}] :
        of \in {Of("b"), <<"N", "Chi2">>}, s \in Shared, t \in Shared, u \in Alone, w \in Alone,
        c \in Correlations}

MCInputs == Pairs \cup Triples \cup Chains \cup ObservableFiles \cup Chi2Files

=============================================================================
