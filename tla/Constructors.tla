---------------------------- MODULE Constructors ----------------------------
(***************************************************************************)
(* The constructors of calculators/src: one operator per calculator, named *)
(* like it, with the quantities it publishes, the quantities it asks the   *)
(* model for, and whether it asks while it is constructed or only when it  *)
(* calculates.                                                             *)
(*                                                                         *)
(* A quantity is the pair of the tag and the name CalculatorBase joins     *)
(* with an underscore.  A name that ends in * stands for all the names a   *)
(* loop or a list of the constructor makes.  What a constructor makes of   *)
(* the other options of its node of the input file is left out.            *)
(*                                                                         *)
(* A node is a record: its class, the Name and the Prefix it configures    *)
(* ("default" when it does not), the quantities its formulas and           *)
(* configured names mention, the names it gives to what it predicts,       *)
(* whether it sets LazyInitialization, and whether it names parameters     *)
(* before predictions.                                                     *)
(***************************************************************************)

Quantity(tag, name) == IF name = "" THEN <<"", tag>> ELSE <<tag, name>>

\* What a calculator is to the model that owns it.  "At construction" it only
\* is built, it calculates, or it starts a program.
Calculator(name, tag, out) ==
    [name |-> name, publishes |-> {Quantity(tag, o) : o \in out}, binds |-> {}, reads |-> {},
     adds |-> {}, inOrder |-> TRUE, atConstruction |-> "builds", throws |-> FALSE, refuses |-> FALSE]

SetName(node, default, out) ==
    LET name == IF node.name = "default" THEN default ELSE node.name
    IN  Calculator(name, IF node.prefix = "default" THEN name ELSE node.prefix, out)

\* It keeps a reference, or a formula it brings up to date when it calculates.
Binding(quantities, c) == [c EXCEPT !.binds = @ \cup quantities]

\* It looks them up by name whenever it calculates.
Reading(quantities, c) == [c EXCEPT !.reads = @ \cup quantities]

\* It adds some of its quantities again whenever it calculates, which none can be.
Adding(quantities, c) == [c EXCEPT !.adds = @ \cup quantities]

Calculating(c) == [c EXCEPT !.atConstruction = "calculates"]
Starting(c) == [c EXCEPT !.atConstruction = "starts"]

\* It may throw a CalculatorException when it calculates; its constructor may
\* find an option, a file or a program missing (ConfigurationException).
Throwing(c) == [c EXCEPT !.throws = TRUE]
Refusing(c) == [c EXCEPT !.refuses = TRUE]

-----------------------------------------------------------------------------
\* Formulas and what is like them.

FormulaCalculator(node) ==
    Calculating(Binding(node.formulas, SetName(node, "FormulaCalculator", node.makes)))

FormulaPropCalculator(node) ==
    Calculating(Binding(node.formulas, SetName(node, "FormulaPropCalculator", node.makes)))

\* Those quantities the model knows by now whose names match its regular expression.
MinimumCalculator(known, node) ==
    Binding(node.formulas \cap known, SetName(node, "MinimumCalculator", {"Value"}))

AxionCalculator(node) ==
    Binding(node.formulas, SetName(node, "AxionCalculator", {"MyOutputQuantity"}))

RPVCalculator(node) ==
    Binding(node.formulas,
            SetName(node, "", {"NormSM_RD", "NormSM_RDstar", "NormSM_BR_B_*", "Ratio_gZtautau_gZll",
                               "Ratio_gWtaunu_gWlnu"}))

\* All the parameters of the model, none by name.
RosenbrockCalculator(node) ==
    LET name == IF node.name = "default" THEN "Rosenbrock" ELSE node.name
    IN  Calculator(name, IF node.prefix = "default" THEN name ELSE node.prefix, {""})

Chi2Calculator(node) ==
    Calculating(Binding(node.formulas,
        SetName(node, "Chi2Calculator",
                {"Chi2", "CorrelatedChi2"} \cup
                    IF node.makes = {} THEN {} ELSE {"Measurement_*", "Deviation_*", "Pull_*", "Chi2_*"})))

\* Tables, trees and trained networks.
TreeCalculator(node) ==
    Calculating(Calculator("TreeCalculator", "", node.makes \cup {"TreeIterations"}))

RegressionCalculator(node) ==
    Binding(node.formulas,
            Calculator(IF node.name = "default" THEN "RegressionCalculator" ELSE node.name, "", node.makes))

LinearInterpolationCalculator(node) ==
    Refusing(Calculating(Binding(node.formulas, SetName(node, "", {""}))))

LHCChi2Calculator(node) ==
    Refusing(Calculating(Binding(node.formulas, SetName(node, "", {"Value"}))))

LHCNeuralNetCalculator(node) ==
    Binding(node.formulas, SetName(node, "SCYNet1", {"Chi2_8TeV", "Chi2_13TeV", "Chi2_Total"}))

LHCNeuralNet2Calculator(node) ==
    Throwing(Binding(node.formulas, SetName(node, "SCYNet2", {"Chi2"})))

CheckVacuumCalculator(node) ==
    Binding(node.formulas,
            Calculator("CheckVacuumCalculator", "", {"VacuumLifetime", "VacuumStability"}))

\* The names are compared with those of the parameters and the predictions when
\* the calculator calculates.
AstroCalculator(node) ==
    Reading(node.formulas, Calculator("AstroCalculator", "", node.makes))

\* A parameter that has been found stands for every name behind it that is no
\* parameter: such a name is not looked for among the predictions any more.
LHCLimitCalculator(node) ==
    [Reading(node.formulas, Calculator("LHCLimitCalculator", "", node.makes))
       EXCEPT !.inOrder = ~node.parametersFirst]

-----------------------------------------------------------------------------
\* Spectra, widths, flavour physics and dark matter.

SPhenoSLHACalculator(node) ==
    Throwing(Refusing(Binding(node.formulas,
        Calculator("SPheno", "SPheno", {"Mass_*", "GammaTotal_*", "BR_*", "HMIX_*", "NormSM_BR_Bu_tau_nu",
                                        "Abs_Delta_Mass_*", "DiffSM_amu"}))))

SARAHSPhenoSLHACalculator(node) ==
    Throwing(Refusing(Binding(node.formulas,
        Calculator("SPheno", "SPheno", {"Mass_*", "Index_*", "Fraction_*", "HMIX_Vev", "Ratio_*",
                                        "BR_B_tau_nu", "Delta_*"}))))

\* FeynHiggs: what a channel of a decay publishes, and what a collider energy does.
FeynHiggsChannel == {"Gamma_*", "BR_*", "NormSM_Gamma_*", "SM_Gamma_*", "SM_BR_*", "NormSM_BR_*"}
FeynHiggsFermionicChannel == FeynHiggsChannel \cup {"gs_*", "gp_*", "SM_gs_*", "SM_gp_*", "NormSM_g*"}
FeynHiggsBosonicChannel == FeynHiggsChannel \cup {"g_*", "SM_g_*", "NormSM_g*"}
FeynHiggsNeutralHiggsCrossSection == {"CrossSection_*", "SM_CrossSection_*", "NormSM_CrossSection_*"}
FeynHiggsCrossSection == FeynHiggsNeutralHiggsCrossSection \cup {"CrossSection_tHm*"}
FeynHiggsObservables ==
    {"BR_b_to_s_gamma", "SM_BR_b_to_s_gamma", "DiffSM_a_mu", "Delta_*", "Mass_*", "GammaTotal_*",
     "SM_GammaTotal_*", "NormSM_GammaTotal_*", "Norm_*", "sin2_thetaEff", "EDM_*", "GF", "Warning_*"}
FeynHiggsOutputs ==
    FeynHiggsFermionicChannel \cup FeynHiggsBosonicChannel \cup FeynHiggsCrossSection
        \cup FeynHiggsObservables

\* From quantities the input file names, or from an SLHA file.
FeynHiggsNativeCalculator(node) ==
    Throwing(Binding(node.formulas, Calculator("FeynHiggs", "FeynHiggs", FeynHiggsOutputs)))
FeynHiggsSLHACalculator(node) ==
    Throwing(Calculator("FeynHiggs", "FeynHiggs",
                        FeynHiggsOutputs \cup {"SLHA_sin_alpha", "HMIX_*"}))

\* References to predictions of FeynHiggs, by their fixed names.
FeynHiggsRescalingInputs ==
    {<<"FeynHiggs", n>> :
        n \in {"CrossSection_*", "GammaTotal_*", "Gamma_*", "Mass_*", "NormSM_g*", "SM_CrossSection_*",
               "SM_GammaTotal_*", "SM_Gamma_*"}}
FeynHiggsRescalingOutputs ==
    {"BR_*", "Gamma_*", "GammaTotal_*", "NormSM_*", "CrossSection_*", "Original_*"}
FeynHiggsRescalingCalculator(node) ==
    Binding(FeynHiggsRescalingInputs,
            Calculator("FeynHiggsRescaling", "FeynHiggsRescaling", FeynHiggsRescalingOutputs))

HDim6Outputs ==
    {"vev", "sin2theta", "Mass_W", "S_Parameter", "T_Parameter", "U_Parameter", "Delta_*", "Gamma_h_*",
     "NormSM_Gamma_h_*", "NormSM_xs_*", "xs_*", "Chi2_xs_*"}
HDim6Calculator(node) ==
    LET built == Binding(node.formulas, SetName(node, "", HDim6Outputs))
    IN  IF node.lazy THEN built ELSE Calculating(built)

\* The names it asks for are configured and have defaults.
HECCalculator(node) ==
    Binding(node.formulas,
            Calculator(IF node.name = "default" THEN "HECCalculator" ELSE node.name, "", {"g_*"}))

SuperIsoCalculator(node) ==
    Throwing(Calculator("SuperIso", "SuperIso", {"DiffSM_a_mu", "delta0_B_to_Kstar_gamma", "BR_*"}))

\* A configured name stays; without one it is fixed.
FlavioCalculator(node) ==
    IF node.name = "default"
    THEN Calculator("Flavio", "Flavio", node.makes)
    ELSE SetName(node, "", node.makes)

GM2CalcCalculator(node) == SetName(node, "", {})

MicromegasCalculator(node) ==
    Throwing(Calculator("MicrOMEGAs", "MicrOMEGAs", {"DiffSM_a_mu", "Omega_h2", "vSigma", "vSigma_Contribution_*"}))

\* Printed into its input file when it calculates.
GCECalculator(node) ==
    Throwing(Reading({<<"MicrOMEGAs", "vSigma">>, <<"MicrOMEGAs", "vSigma_Contribution_*">>,
                      <<"SPheno", "Mass_*">>},
                     Calculator("GCECalculator", "GCE", {"ll_*", "chi2_*", "GCEERROR"})))

AstroFitCalculator(node) ==
    Throwing(Calculator("AstroFit", "AstroFit", {"Chi2_*", "Omega_h2", "svind", "photon", "direct"}))

-----------------------------------------------------------------------------
\* Higgs bosons.

HiggsBoundsCalculator(node) ==
    Calculator(IF node.name = "default" THEN "HiggsBoundsCalculator" ELSE node.name, "", {"HB_*"})

HiggsBoundsSLHACalculator(node) == HiggsBoundsCalculator(node)

\* The shift of the mass was meant to be optional: the handler of its absence
\* waits for an exception Collection does not throw.
HiggsBoundsHECCalculator(node) ==
    Reading({<<"", "DeltaMassHHB">>}, Binding(node.formulas, HiggsBoundsCalculator(node)))

HiggsBoundsHadXSCalculator(node) ==
    Reading({<<"", "DeltaMassHHB">>},
            Binding({<<"", "NormSM_Gamma_h_*">>, <<"", "NormSM_xs_*">>, <<"", "mass_h">>},
                    HiggsBoundsCalculator(node)))

\* The inputs of its Higgs bosons are formulas; matrices that do not fit them are refused.
HiggsSignalsInputs(node) == node.formulas
HiggsSignalsOutputs == {"HB_*", "Chi2", "Chi2_*", "R_h_*", "DominantHiggs_*"}
HiggsSignalsCalculator(node) ==
    Refusing(Calculating(Binding(HiggsSignalsInputs(node), SetName(node, "", HiggsSignalsOutputs))))

HiggsSignalsSMCalculator(node) ==
    Calculating(Binding(node.formulas, SetName(node, "", {"SM_BR_h_*", "SM_xs_*"})))

HiggsSignalsHadXSCalculator(node) ==
    Binding({<<"HDim6", "NormSM_Gamma_h_*">>, <<"HDim6", "NormSM_xs_*">>, <<"", "Mass_h">>},
            Calculator("HiggsSignalsHadXSCalculator", "",
                       {"HS_*", "NormSM_BR_h_*", "NormSM_Gamma_hTotal", "NormSM_xs_h"}))

\* The names of everything they need are configured, and looked up at each point.
HiggsSignalsHadXSOutputs == {"HB_*", "HS_*"}
HiggsSignalsPartXSCalculator(node) ==
    Reading(node.formulas,
            Calculator(IF node.name = "default" THEN "HiggsSignalsCalculator" ELSE node.name, "",
                       HiggsSignalsHadXSOutputs))
NewHiggsSignalsHadXSCalculator(node) == HiggsSignalsPartXSCalculator(node)

HiggsSignalsSLHACalculator(node) ==
    Binding(node.formulas,
            Calculator(IF node.name = "default" THEN "HiggsSignalsSLHACalculator" ELSE node.name, "",
                       {"BR_h*", "R_*", "g2_SM_*"}))

-----------------------------------------------------------------------------
\* Cross sections, event generators and limits of the LHC.

NLLFastCalculator(node) ==
    Binding(node.formulas, SetName(node, "", {"xs_*", "Error_*", "k_*"}))
NLLFast2Calculator(node) ==
    Binding(node.formulas, SetName(node, "", {"NFast_xs_*", "NFast_Error_*", "NFast_k_*"}))

ProspinoCalculator(node) == SetName(node, "", {"Pro_XSLO_*", "Pro_XSNLO_*", "Pro_ErrNLO_*"})

MadGraphCalculator(node) ==
    Throwing(Binding(node.formulas, SetName(node, "", {"IntegratedWeight", "NumberOfEvents", "Width_*"})))

\* The program is run for the Standard Model.
MadGraph2Calculator(node) ==
    Starting(Binding(node.formulas,
                     SetName(node, "", {"Normalized_*", "xs_*", "width_*", "SM_xs_*", "SM_width_*",
                                        "Number_of_Events"})))

\* The width of the chargino and the mass of the top quark are fixed names, and
\* the width is a formula as well, which is what the calculation uses.
MadGraph5Calculator(node) ==
    Throwing(Binding(node.formulas \cup {<<"SPheno", "GammaTotal_*">>, <<"", "Mt">>}, SetName(node, "", {"XS"})))
MadGraph5EWCalculator(node) ==
    Throwing(Binding(node.formulas \cup {<<"SPheno", "GammaTotal_*">>, <<"", "Mt">>},
                     SetName(node, "", {"XS", "XS_MGerror"})))

HerwigppCalculator(node) == SetName(node, "", {"xs_weighted", "xs_unweighted", "Error_xs_*"})
HepMCSplitCalculator(node) ==
    LET outputs == {"NumberOfEvents_*"}
    IN  Adding(outputs, SetName(node, "", outputs))

EventNumber2Calculator(node) == Binding(node.formulas, SetName(node, "", {"N", "NXS"}))
EventNumber3Calculator(node) == Binding(node.formulas, SetName(node, "", {"N", "NXS"}))

\* The program is run to learn the names of the signal regions, which are read from
\* its output once a line announces them.
CheckMATECalculator(node) ==
    Starting(Binding(node.formulas, Calculator("CheckMATE", "", node.makes)))
CheckMATE2Calculator(node) ==
    Binding(node.formulas, SetName(node, "", {"r", "ErrorIsDominatedByMonteCarloStatistics", "Excluded",
                                              "TheModelCouldBeExcludedIfYouProvidedMoreInputEvents", "CLs"}))

\* The program is run on a file of its own, to learn the names of the analyses.
CheckMATE3Calculator(node) ==
    Starting(Throwing([Binding(node.formulas, SetName(node, "", node.makes \cup {"r_value_exclusion"}))
                         EXCEPT !.name = "CheckMate"]))
CheckMATE4Calculator(node) == CheckMATE3Calculator(node)

ClsCalculator_2(node) == Throwing(SetName(node, "", {"Cls", "Chi_2", "Mu_hat"}))

SModelSCalculator(node) ==
    Throwing(Refusing(SetName(node, "", {"RValue", "DecompositionStatus", "FileStatus", "UnusedModel*",
                                         "MissingConstraint_*", "ConstraintOutsideGrid_*", "NumberOf*"})))

=============================================================================
