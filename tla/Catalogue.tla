------------------------------ MODULE Catalogue ------------------------------
(***************************************************************************)
(* The calculators of calculators/src as programs of CalculatorSteps: one  *)
(* operator per calculator, named like it, with the files its constructor  *)
(* names to CalculatorBase and the steps of its CalculatePredictions in    *)
(* their order.  Files the input file names are called after the member    *)
(* that holds their name.  What a calculator predicts, and the formulas it *)
(* predicts it with, are left out.                                         *)
(***************************************************************************)
EXTENDS CalculatorSteps

Parameters == {"parameters"}
Quantities == {"parameters", "before"}   \* everything the model knows by name

-----------------------------------------------------------------------------
\* Spectrum generators.

\* Mutants: the files of the point before are left where they are; a program
\* that hangs is waited for.
SPhenoLeavingFiles ==
    Program({},
            << Write({"LesHouches.in"}, Parameters),
               Run({"SPheno.spc"}, {"LesHouches.in"}, {}, {"status", "timeout"}),
               Read({"SPheno.spc"}, "throw", "keep") >>)
SPhenoWaiting ==
    Program({"LesHouches.in", "SPheno.spc"},
            << Write({"LesHouches.in"}, Parameters),
               Run({"SPheno.spc"}, {"LesHouches.in"}, {}, {"status"}),
               Read({"SPheno.spc"}, "throw", "keep") >>)

SPhenoSLHA ==
    Program({"LesHouches.in", "SPheno.spc"},
            << Write({"LesHouches.in"}, Parameters),
               Run({"SPheno.spc"}, {"LesHouches.in"}, {}, {"status", "timeout"}),
               Read({"SPheno.spc"}, "throw", "keep") >>)

\* Its output files have names of their own, and nobody removes them.
SARAHSPhenoUntested ==
    Program({},
            << Write({"LesHouches.in.MSSMTriLnV"}, Parameters),
               Run({"SPheno.spc.MSSMTriLnV"}, {"LesHouches.in.MSSMTriLnV"}, {}, {"status", "timeout"}),
               Test({"own"}),
               Read({"SPheno.spc.MSSMTriLnV"}, "throw", "keep") >>)
SARAHSPhenoSLHA ==
    Program({},
            << Write({"LesHouches.in.MSSMTriLnV"}, Parameters),
               Run({"SPheno.spc.MSSMTriLnV"}, {"LesHouches.in.MSSMTriLnV"}, {}, {"status", "timeout"}),
               Read({"SPheno.spc.MSSMTriLnV"}, "throw", "keep"),
               Test({"own"}) >>)

\* FeynHiggs is given an SLHA file or a list of parameters.  Every error it
\* reports refuses the point.
FeynHiggsOutput == {"FeynHiggs.out", "FeynHiggs.spc", "SPheno_FeynHiggs.spc"}
FeynHiggsInput == << Clear({"FeynHiggs.in"}), PrintTo({"FeynHiggs.in"}, Quantities) >>
FeynHiggsCalls(input) == << Library({input}, {}, "throw", "throw") >>

\* What it has calculated is written to a file of its own, and into a copy of
\* the spectrum it was given.
FeynHiggsCopies ==
    << Write({"FeynHiggs.spc"}, {"own"}),
       Read({"SPheno.spc", "FeynHiggs.spc"}, "die", "keep"),
       PrintTo({"SPheno_FeynHiggs.spc"}, {"own"}) >>

FeynHiggsSLHA ==
    Program({}, << Clear(FeynHiggsOutput) >> \o FeynHiggsCalls("SPheno.spc") \o FeynHiggsCopies)
FeynHiggs ==
    Program({}, << Clear(FeynHiggsOutput) >> \o FeynHiggsInput \o FeynHiggsCalls("FeynHiggs.in"))

-----------------------------------------------------------------------------
\* Flavour physics and dark matter.

SuperIso ==
    Program({},
            << Run({"SuperIsoOutput.txt"}, {"SPheno.spc"}, {}, {"timeout", "someStatus"}),
               Test({"own"}),
               Read({"SuperIsoOutput.txt"}, "keep", "keep") >>)

\* The arguments of all predictions share one reference to what was read for the
\* point before, and each of them gives it up.
Flavio ==
    Program({}, << Library({"SPheno.spc.MSSMTriLnV"}, {}, "die", "die") >>)

\* It prints what it finds, and predicts nothing.
GM2Calc ==
    Program({}, << Library({"SPheno.spc"}, {}, "die", "die"), Formula({}) >>)

\* The wrapper runs in a thread, which is cancelled after half a minute.
MicromegasWrapper == << Library({"SPheno.spc"}, {}, "die", "throw") >>
Micromegas == Program({}, MicromegasWrapper)

GCE ==
    Program({},
            << PrintTo({"GCEInput.txt"}, {"before"}),
               Run({"GCEOutput.txt"}, {"GCEInput.txt"}, {}, {}),
               Read({"GCEOutput.txt"}, "keep", "keep") >>)

\* A value that is not in the output is 0.
AstroFit ==
    Program({},
            << Clear({"AstroFit.spc", "afout.txt", "AstroFit.out"}),
               Copy({"AstroFit.spc"}, {"SPheno_FeynHiggs.spc"}, "zero"),
               Run({"afout.txt"}, {"AstroFit.spc"}, {}, {"timeout", "anyFailure"}),
               Read({"afout.txt"}, "zero", "keep") >>)

-----------------------------------------------------------------------------
\* Simulations and what is read out of them.  Nobody looks at how their
\* programs end, and none has a timeout.

\* The decay width of the chargino is tested first, as the model knows it.
MadGraph5 ==
    Program({},
            << Test(Quantities),
               Write({"MGinput.txt"}, Quantities),
               Run({"banner.txt"}, {"MGinput.txt", "SPheno.spc"}, {}, {}),
               Read({"banner.txt"}, "throw", "die") >>)

\* Its cross section is read again from the web page MadGraph writes.
MadGraph5EW ==
    Program({},
            << Test(Quantities),
               Write({"MGinput.txt"}, Quantities),
               Run({"bannerEW.txt", "crossx.html"}, {"MGinput.txt", "SPheno.spc"}, {}, {}),
               Read({"bannerEW.txt"}, "throw", "die"),
               ReadMore({"crossx.html"}, "die", "die") >>)

MadGraph ==
    Program({},
            << Write({"mg5.txt"}, Quantities),
               Run({"banner.txt"}, {"mg5.txt"}, {}, {}),
               Read({"banner.txt"}, "die", "throw") >>)

\* Two of the five processes.  One stream appends the parameters to the copy of
\* the template of each process, and as it is never closed, it opens only the
\* first: the others run with the template as it is.  All are read out of the
\* same file.
MadGraph2 ==
    Program({},
            << Clear({"mg5_Run_zh.txt"}),
               Write({"mg5_Run_zh.txt"}, {}),
               PrintTo({"mg5_Run_zh.txt"}, Quantities),
               Run({"banner.txt"}, {"mg5_Run_zh.txt"}, {}, {}),
               Read({"banner.txt"}, "die", "die"),
               Clear({"mg5_Run_wh.txt"}),
               Write({"mg5_Run_wh.txt"}, {}),
               Run({"banner.txt"}, {"mg5_Run_wh.txt"}, {}, {}),
               ReadMore({"banner.txt"}, "die", "die") >>)

\* The copy is made by the shell, and so is the call.
ProspinoTable == << Read({"prospino.dat"}, "keep", "keep") >>
Prospino ==
    Program({},
            << Clear({"prospino.in.les_houches"}),
               Copy({"prospino.in.les_houches"}, {"SPheno.spc"}, "keep"),
               Run({"prospino.dat"}, {"prospino.in.les_houches"}, {}, {"shell"}) >>
            \o ProspinoTable)

\* Two of the processes; outside of the grid of one its cross sections are 0.
NLLFast ==
    Program({},
            << Run({"gg.out"}, {}, Quantities, {}),
               Read({"gg.out"}, "die", "die"),
               Run({"st.out"}, {}, Quantities, {}),
               Read({"gg.out", "st.out"}, "die", "die") >>)

\* The first program reads the input file, the second one runs.
Herwigpp ==
    Program({},
            << Run({"LHC.run"}, {"SPheno.spc"}, {}, {}),
               Run({"LHC.out", "LHC.log"}, {"LHC.run"}, {}, {}),
               Read({"LHC.out", "LHC.log"}, "die", "die") >>)

\* The same for another version of the program, whose directory it is.
NLLFast2 == NLLFast

\* The input is a copy of a fixed file, which is of no point.
CheckMATE ==
    Program({},
            << PrintTo({"fittino_checkmate_in.txt"}, {}),
               Run({"000_atlas_conf_2013_079_signal.dat"}, {"fittino_checkmate_in.txt"}, {}, {}),
               Read({"000_atlas_conf_2013_079_signal.dat"}, "wait", "wait") >>)

CheckMATE2 ==
    Program({},
            << Clear({"checkmate.in", "result.txt"}),
               Write({"checkmate.in"}, Quantities),
               Run({"result.txt"}, {"checkmate.in"}, {}, {}),
               Read({"result.txt"}, "die", "die") >>)

CheckMATE3 ==
    Program({},
            << Write({"checkmate.in"}, Quantities),
               Run({"tot_result.txt", "r_result.txt"}, {"checkmate.in"}, {}, {}),
               Read({"tot_result.txt", "r_result.txt"}, "throw", "keep") >>)

CheckMATE4 == CheckMATE3

\* What CheckMATE has found is gathered with what it found for earlier points:
\* the vectors are global and never emptied.
Cls2Gathered == << Read({"tot_result.txt"}, "throw", "keep") >>

\* At 13 TeV, where the new method takes the regions it has gathered.
Cls2Regions == << Formula({"own", "gathered"}) >>
Cls2Asked == << Run({"cls_value.txt"}, {}, {"own"}, {"shell"}) >>
Cls2Answer == << Read({"cls_value.txt"}, "throw", "keep") >>
Cls2 == Program({}, Cls2Gathered \o Cls2Regions \o Cls2Asked \o Cls2Answer)

\* The python program is started by the shell.
LHCNeuralNet2 ==
    Program({},
            << Run({"scynet.out"}, {}, Quantities, {"shell"}),
               Read({"scynet.out"}, "throw", "keep") >>)

\* What it answers says itself whether it is any good.
SModelSAnswer == << Library({"results"}, {}, "die", "throw") >>
SModelS ==
    Program({"results"},
            << Run({"SPheno.spc"}, {"SPheno.spc"}, {}, {}),
               Run({"SPheno.spc"}, {"SPheno.spc"}, {}, {}),
               Library({"SPheno.spc"}, {}, "die", "throw"),
               Write({"results"}, {"own"}) >>
            \o SModelSAnswer)

-----------------------------------------------------------------------------
\* Higgs bosons.  The libraries are asked in a thread of their own, which is
\* waited for.

\* A result that is no result ends the calculation, and nobody looks at it.
HiggsBounds(files, uses) == Program({}, << Library(files, uses, "keep", "keep") >>)

HiggsBoundsHEC == HiggsBounds({}, Quantities)
HiggsBoundsHadXS == HiggsBounds({}, Quantities)
HiggsBoundsSLHA == HiggsBounds({"SPheno.spc"}, {})

\* Without a result the numbers HiggsBounds would have set are those of before, and
\* only the chi2 is set to a large number.
HiggsBoundsOrBefore(uses) == << Library({}, uses, "keep", "keep") >>

HiggsSignalsInput == Quantities
HiggsSignalsOutput == << Formula(Quantities \cup {"own"}) >>
HiggsSignals == Program({}, HiggsBoundsOrBefore(HiggsSignalsInput) \o HiggsSignalsOutput)

NewHiggsSignalsInput == Quantities
NewHiggsSignalsHadXS ==
    Program({}, HiggsBoundsOrBefore(NewHiggsSignalsInput) \o << Formula(Quantities \cup {"own"}) >>)

\* The call of HiggsSignals is commented out.
HiggsSignalsPartXSInput == Quantities
HiggsSignalsPartXS == Program({}, HiggsBoundsOrBefore(HiggsSignalsPartXSInput))

HiggsSignalsHadXS == Program({}, << Formula(Quantities) >>)
HiggsSignalsSM == Program({}, << Formula(Quantities) >>)

\* HiggsSignals would write the file that is removed, but the call is commented
\* out.
HiggsSignalsSLHACouplings == Quantities
HiggsSignalsSLHAWidths == << Formula(HiggsSignalsSLHACouplings) >>
HiggsSignalsSLHAOutput ==
    << Clear({"HS-output.slha"}),
       Read({"HS-output.slha"}, "die", "keep"),
       PrintTo({"HS-output.slha"}, {"own"}) >>
HiggsSignalsSLHA == Program({}, HiggsSignalsSLHAWidths \o HiggsSignalsSLHAOutput)

HEC == Program({}, << Formula(Quantities) >>)
FeynHiggsRescaling == Program({}, << Formula({"before"}) >>)

\* The widths and cross sections that take long are kept while the inputs they
\* are said to depend on stay the same.
HDim6 == Program({}, << Library({}, Quantities, "keep", "keep") >>)

-----------------------------------------------------------------------------
\* Formulas, tables and neural networks of what the model knows.

FormulaOf(uses) == Program({}, << Formula(uses) >>)

RPV == FormulaOf(Quantities)
Axion == FormulaOf(Quantities)
FormulaCalculator == FormulaOf(Quantities)
FormulaProp == FormulaOf(Quantities)
Minimum == FormulaOf(Quantities)
EventNumber2 == FormulaOf(Quantities)
EventNumber3 == FormulaOf(Quantities)
CheckVacuum == FormulaOf(Parameters)
Rosenbrock == FormulaOf(Parameters)
LHCLimit == FormulaOf(Quantities)
LHCChi2 == FormulaOf(Quantities)
LinearInterpolation == FormulaOf(Quantities)
Regression == FormulaOf(Quantities)
Astro == FormulaOf(Quantities)

\* The parameter is the number of an entry of a tree; when there is no such
\* entry, nothing is read.
Tree == Program({}, << Library({}, Parameters, "keep", "keep") >>)

LHCNeuralNet == Program({}, << Library({}, Quantities, "die", "die") >>)
=============================================================================
