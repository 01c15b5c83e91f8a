-------------------------- MODULE CalculatorFactory --------------------------
(***************************************************************************)
(* kernel/src/Factory.cpp, CreateCalculator: the constructor a type of the *)
(* input file stands for, and the libraries Fittino must have been built   *)
(* with for it.                                                            *)
(***************************************************************************)
EXTENDS Constructors

With(libraries, c) == [known |-> TRUE, libraries |-> libraries, calculator |-> c]
NotKnown == [known |-> FALSE, libraries |-> {}, calculator |-> Calculator("", "", {})]

\* The chain of comparisons, in the order of the source.
CreateLToT(known, node) ==
    CASE node.class = "LHCCalculator" -> With({}, LHCLimitCalculator(node))
      [] node.class = "LHCChi2Calculator" -> With({}, LHCChi2Calculator(node))
      [] node.class = "LinearInterpolationCalculator" -> With({}, LinearInterpolationCalculator(node))
      [] node.class = "MadGraphCalculator" -> With({}, MadGraphCalculator(node))
      [] node.class = "MadGraph2Calculator" -> With({}, MadGraph2Calculator(node))
      [] node.class = "MadGraph5Calculator" -> With({}, MadGraph5Calculator(node))
      [] node.class = "MadGraph5EWCalculator" -> With({}, MadGraph5EWCalculator(node))
      [] node.class = "MinimumCalculator" -> With({}, MinimumCalculator(known, node))
      [] node.class = "NLLFast2Calculator" -> With({}, NLLFast2Calculator(node))
      [] node.class = "ProspinoCalculator" -> With({}, ProspinoCalculator(node))
      [] node.class = "CheckMATE3Calculator" -> With({}, CheckMATE3Calculator(node))
      [] node.class = "FormulaPropCalculator" -> With({}, FormulaPropCalculator(node))
      [] node.class = "EventNumber2Calculator" -> With({}, EventNumber2Calculator(node))
      [] node.class = "EventNumber3Calculator" -> With({}, EventNumber3Calculator(node))
      [] node.class = "LHCNeuralNet2Calculator" -> With({}, LHCNeuralNet2Calculator(node))
      [] node.class = "CheckMATE4Calculator" -> With({}, CheckMATE4Calculator(node))
      [] node.class = "MicromegasCalculator" -> With({"MICROMEGAS"}, MicromegasCalculator(node))
      [] node.class = "NewHiggsSignalsHadXSCalculator" ->
            With({"HIGGSBOUNDS", "HIGGSSIGNALS"}, NewHiggsSignalsHadXSCalculator(node))
      [] node.class = "NLLFastCalculator" -> With({}, NLLFastCalculator(node))
      [] node.class = "RegressionCalculator" -> With({}, RegressionCalculator(node))
      [] node.class = "RosenbrockCalculator" -> With({}, RosenbrockCalculator(node))
      [] node.class = "RPVCalculator" -> With({}, RPVCalculator(node))
      [] node.class = "SModelSCalculator" -> With({"PYTHON2"}, SModelSCalculator(node))
      [] node.class = "SPhenoCalculator" -> With({"SLHAEA"}, SPhenoSLHACalculator(node))
      [] node.class = "SARAHSPhenoCalculator" -> With({"SLHAEA"}, SARAHSPhenoSLHACalculator(node))
      [] node.class = "SuperIsoCalculator" -> With({}, SuperIsoCalculator(node))
      [] node.class = "GCECalculator" -> With({}, GCECalculator(node))
      [] node.class = "TreeCalculator" -> With({}, TreeCalculator(node))
      [] node.class = "LHCNeuralNetCalculator" -> With({"PYTHON2"}, LHCNeuralNetCalculator(node))
      [] OTHER -> NotKnown

CreateHiggs(known, node) ==
    CASE node.class = "HECCalculator" -> With({}, HECCalculator(node))
      [] node.class = "HepMCSplitCalculator" -> With({"HEPMC"}, HepMCSplitCalculator(node))
      [] node.class = "HerwigppCalculator" -> With({}, HerwigppCalculator(node))
      [] node.class = "HiggsBoundsHadXSCalculator" ->
            With({"HIGGSBOUNDS"}, HiggsBoundsHadXSCalculator(node))
      [] node.class = "HiggsBoundsHECCalculator" ->
            With({"HIGGSBOUNDS"}, HiggsBoundsHECCalculator(node))
      [] node.class = "HiggsBoundsSLHACalculator" ->
            With({"HIGGSBOUNDS"}, HiggsBoundsSLHACalculator(node))
      [] node.class = "HiggsSignalsHadXSCalculator" ->
            With({"HIGGSBOUNDS", "HIGGSSIGNALS"}, HiggsSignalsHadXSCalculator(node))
      [] node.class = "HiggsSignalsCalculator" ->
            With({"HIGGSSIGNALS"}, HiggsSignalsCalculator(node))
      [] node.class = "HiggsSignalsPartXSCalculator" ->
            With({"HIGGSBOUNDS", "HIGGSSIGNALS"}, HiggsSignalsPartXSCalculator(node))
      [] node.class = "HiggsSignalsSLHACalculator" ->
            With({"HIGGSBOUNDS", "HIGGSSIGNALS"}, HiggsSignalsSLHACalculator(node))
      [] node.class = "HiggsSignalsSMCalculator" ->
            With({"HIGGSSIGNALS"}, HiggsSignalsSMCalculator(node))
      [] OTHER -> CreateLToT(known, node)

CreateAToG(known, node) ==
    CASE node.class = "AstroCalculator" -> With({}, AstroCalculator(node))
      [] node.class = "AstroFitCalculator" -> With({}, AstroFitCalculator(node))
      [] node.class = "AxionCalculator" -> With({}, AxionCalculator(node))
      [] node.class = "CheckMATECalculator" -> With({}, CheckMATECalculator(node))
      [] node.class = "CheckMATE2Calculator" -> With({}, CheckMATE2Calculator(node))
      [] node.class = "CheckVacuumCalculator" -> With({}, CheckVacuumCalculator(node))
      [] node.class = "Chi2Calculator" -> With({}, Chi2Calculator(node))
      [] node.class = "Cls2Calculator" -> With({}, ClsCalculator_2(node))
      [] node.class = "FeynHiggsNativeCalculator" -> With({"FEYNHIGGS"}, FeynHiggsNativeCalculator(node))
      [] node.class = "FeynHiggsRescalingCalculator" ->
            With({"HIGGSSIGNALS"}, FeynHiggsRescalingCalculator(node))
      [] node.class = "FeynHiggsSLHACalculator" -> With({"FEYNHIGGS"}, FeynHiggsSLHACalculator(node))
      [] node.class = "FlavioCalculator" -> With({"PYTHON3"}, FlavioCalculator(node))
      [] node.class = "FormulaCalculator" -> With({}, FormulaCalculator(node))
      [] node.class = "GM2CalcCalculator" -> With({"GM2CALC", "EIGEN3"}, GM2CalcCalculator(node))
      [] node.class = "HDim6Calculator" -> With({"LHAPDF", "GSL"}, HDim6Calculator(node))
      [] OTHER -> CreateHiggs(known, node)

\* "known" holds the quantities the model has when the calculator is constructed.
CreateCalculator(known, node) == CreateAToG(known, node)

=============================================================================
