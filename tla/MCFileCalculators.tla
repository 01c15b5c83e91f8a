-------------------------- MODULE MCFileCalculators --------------------------
(***************************************************************************)
(* Models of three calculators, as the input files in input/steering and   *)
(* input/scripts put them one after the other, and what is expected of     *)
(* them by name.                                                           *)
(***************************************************************************)
EXTENDS NamedCalculators

Flavour == << SPhenoSLHA, SuperIso, Minimum >>
Spectra == << SPhenoSLHA, FeynHiggsSLHA, Minimum >>
Galaxy == << FeynHiggs, AstroFit, Minimum >>
Higgs == << FeynHiggs, FeynHiggsRescaling, NewHiggsSignalsHadXS >>
Couplings == << HDim6, HEC, HiggsBoundsHEC >>
Doublets == << HiggsBoundsHadXS, HiggsSignalsHadXS, HiggsSignalsSLHA >>
Networks == << Regression, LHCNeuralNet, LHCNeuralNet2 >>
Limits == << SPhenoSLHA, Minimum, SModelS >>
Leptoquark == << SARAHSPhenoSLHA, RPV, Flavio >>
Simulation == << SPhenoSLHA, MadGraph5, CheckMATE4 >>
Cascade == << Prospino, EventNumber3, Cls2 >>
Electroweak == << CheckVacuum, MadGraph5EW, CheckMATE2 >>
Colliders == << Herwigpp, LHCChi2, Astro >>
Dark == << Micromegas, HiggsBoundsSLHA, GCE >>
Waiting == << FormulaCalculator, HiggsSignalsSM, CheckMATE >>
Tables == << Rosenbrock, Tree, LHCLimit >>
Formulas == << Axion, HEC, Minimum >>
Processes == << MadGraph2, FormulaProp, EventNumber2 >>
Interpolations == << LinearInterpolation, NLLFast2, HiggsSignals >>
Vertices == << GM2Calc, HiggsSignalsPartXS, CheckMATE3 >>

MCChains == {Flavour, Spectra, Galaxy, Higgs, Couplings, Doublets, Networks, Limits, Leptoquark,
             Simulation, Electroweak, Colliders, Cascade, Dark, Waiting, Tables,
             Processes, Formulas, Interpolations, Vertices}
MCFiles == UNION {UNION {FilesOf(c[i]) : i \in DOMAIN c} : c \in MCChains}

\* A PhysicsModel never looks at _requirementsFulfilled, and the constructors
\* calculate together or not at all.
MCInit ==
    /\ FilesInit
    /\ requirements
    /\ \A i \in Calcs : predictions[i] = predictions[1]
MCSpec == MCInit /\ [][FilesNext]_fvars /\ FilesFair

\* The theorem about trusted calculators is about these models.
ASSUME ChainsAreOrdered == WellOrdered
=============================================================================
