----------------------------- MODULE HiggsLibrary -----------------------------
(***************************************************************************)
(* calculators/src/HiggsSignalsCalculator.cpp: several calculators of a    *)
(* model share HiggsBounds and HiggsSignals, of which a process has one    *)
(* each.  Static members of the class say whether, and for what, each was  *)
(* initialized; a calculator that needs something else finishes it and     *)
(* initializes it anew, before every calculation.                          *)
(*                                                                         *)
(* The measurements of HiggsSignals are real ones when it is initialized,  *)
(* and a calculator may replace them with its own.  Numbers of Higgs       *)
(* bosons, neutral and charged, are one number here.                       *)
(***************************************************************************)
EXTENDS Naturals

CONSTANTS
    NumInstances,   \* the calculators of this class in the model
    Numbers,        \* of Higgs bosons
    Analyses,       \* values of WhichAnalyses
    Data,           \* values of ExpData
    Configurations, \* the configurations a calculator may have
    Off             \* stands for a library that is not initialized

Instances == 1 .. NumInstances
ConfigSet == [runHB : BOOLEAN, runHS : BOOLEAN, number : Numbers, analyses : Analyses,
              expData : Data, useInitial : BOOLEAN]

\* Measurements: the real ones of some data, or the predictions of a calculator.
Real(data) == [by |-> 0, data |-> data]
Own(i, data) == [by |-> i, data |-> data]
Measurements == [by : 0 .. NumInstances, data : Data]
Bounds == [number : Numbers, analyses : Analyses]
Signals == [number : Numbers, expData : Data, setup : 0 .. NumInstances, peaks : Measurements]

ASSUME LibraryAssumption ==
    /\ NumInstances \in Nat \ {0}
    /\ Configurations \subseteq ConfigSet
    /\ Off \notin Bounds
    /\ Off \notin Signals

VARIABLES
    config,          \* the configuration of each calculator
    pc,              \* where the running calculator is
    turn,            \* the calculator that runs, or has run last
    built,           \* the calculators that have their measurements
    measurement,     \* _measurement_mu and _measurement_mass of each
    HBisInitialized,
    HSisInitialized,
    initialized,     \* the other static members
    higgsBounds,     \* what HiggsBounds is initialized for
    higgsSignals     \* and HiggsSignals, with what it was told since

flags == <<HBisInitialized, HSisInitialized, initialized>>
libraries == <<higgsBounds, higgsSignals>>
vars == <<config, pc, turn, built, measurement, flags, libraries>>

TypeOK ==
    /\ config \in [Instances -> Configurations]
    /\ pc \in {"idle", "shut", "initialize", "setup", "assign", "run", "measure"}
    /\ turn \in 0 .. NumInstances
    /\ built \in 0 .. NumInstances
    /\ measurement \in [Instances -> Measurements \cup {Off}]
    /\ HBisInitialized \in BOOLEAN
    /\ HSisInitialized \in BOOLEAN
    /\ higgsBounds \in Bounds \cup {Off}
    /\ higgsSignals \in Signals \cup {Off}

Mine == config[turn]
Constructing == turn > built
Goes(place) == pc' = place /\ UNCHANGED <<config, turn, built>>

-----------------------------------------------------------------------------
\* The model constructs its calculators one after the other.
Construct ==
    /\ pc = "idle"
    /\ built < NumInstances
    /\ turn' = built + 1
    /\ pc' = "shut"
    /\ UNCHANGED <<config, built, measurement, flags, libraries>>

\* Mutant: the constructor leaves the libraries as the others left them.
ShutNothing ==
    /\ pc = "shut"
    /\ Goes("initialize")
    /\ UNCHANGED <<measurement, flags, libraries>>

\* The constructor finishes whatever is initialized.
Shut ==
    /\ pc = "shut"
    /\ HBisInitialized' = FALSE
    /\ HSisInitialized' = FALSE
    /\ higgsBounds' = IF HBisInitialized THEN Off ELSE higgsBounds
    /\ higgsSignals' = IF HSisInitialized THEN Off ELSE higgsSignals
    /\ Goes("initialize")
    /\ UNCHANGED <<measurement, initialized>>

\* CalculatePredictions, in the order of the model or after an evaluation that
\* was ended before it came to all of them.
Calculate ==
    /\ pc = "idle"
    /\ built = NumInstances
    /\ turn' \in {1, turn + 1}
    /\ turn' <= NumInstances
    /\ pc' = "initialize"
    /\ UNCHANGED <<config, built, measurement, flags, libraries>>

NumberChanged == Mine.number # initialized.number
AnalysesChanged == Mine.analyses # initialized.analyses
DataChanged == Mine.expData # initialized.expData

FinishHB ==
    /\ HBisInitialized
    /\ \/ Mine.runHB /\ (NumberChanged \/ AnalysesChanged)
       \/ Mine.runHS /\ (NumberChanged \/ (HSisInitialized /\ DataChanged))

\* Mutant: HiggsSignals is finished for its own sake only.
FinishHSForItself ==
    /\ HSisInitialized
    /\ Mine.runHS /\ (NumberChanged \/ DataChanged)

FinishHS ==
    /\ HSisInitialized
    /\ \/ Mine.runHS /\ (NumberChanged \/ DataChanged)
       \/ Mine.runHB /\ NumberChanged

StartHB == Mine.runHB /\ (~HBisInitialized \/ FinishHB)
StartHS == Mine.runHS /\ (~HSisInitialized \/ FinishHS)

\* InitializeHBandHS.
InitializeHBandHS ==
    /\ pc = "initialize"
    /\ HBisInitialized' = (StartHB \/ (HBisInitialized /\ ~FinishHB))
    /\ HSisInitialized' = (StartHS \/ (HSisInitialized /\ ~FinishHS))
    /\ higgsBounds' = IF StartHB THEN [number |-> Mine.number, analyses |-> Mine.analyses]
                      ELSE IF FinishHB THEN Off
                      ELSE higgsBounds
    /\ higgsSignals' = IF StartHS THEN [number |-> Mine.number, expData |-> Mine.expData,
                                        setup |-> 0, peaks |-> Real(Mine.expData)]
                       ELSE IF FinishHS THEN Off
                       ELSE higgsSignals
    /\ initialized' =
           [number |-> IF StartHB \/ StartHS THEN Mine.number ELSE initialized.number,
            analyses |-> IF StartHB THEN Mine.analyses ELSE initialized.analyses,
            expData |-> IF StartHS THEN Mine.expData ELSE initialized.expData]
    /\ Goes("setup")
    /\ UNCHANGED measurement

\* Setup: the output level, the density functions and the assignment ranges.
Setup ==
    /\ pc = "setup"
    /\ higgsSignals' = IF Mine.runHS THEN [higgsSignals EXCEPT !.setup = turn] ELSE higgsSignals
    /\ Goes(IF Constructing THEN "run" ELSE "assign")
    /\ UNCHANGED <<measurement, flags, higgsBounds>>

\* AssignMeasurements: they are the peaks of whoever has run before, otherwise.
AssignMeasurements ==
    /\ pc = "assign"
    /\ higgsSignals' = IF Mine.runHS THEN [higgsSignals EXCEPT !.peaks = measurement[turn]]
                       ELSE higgsSignals
    /\ Goes("run")
    /\ UNCHANGED <<measurement, flags, higgsBounds>>

\* Run and UpdateOutput.
Run ==
    /\ pc = "run"
    /\ Goes(IF Constructing THEN "measure" ELSE "idle")
    /\ UNCHANGED <<measurement, flags, libraries>>

\* InitializeMeasurements, and on to CalculatePredictions.
InitializeMeasurements ==
    /\ pc = "measure"
    /\ measurement' =
           IF Mine.runHS
             THEN [measurement EXCEPT ![turn] = IF Mine.useInitial THEN Own(turn, Mine.expData)
                                                ELSE higgsSignals.peaks]
             ELSE measurement
    /\ built' = turn
    /\ pc' = "initialize"
    /\ UNCHANGED <<config, turn, flags, libraries>>

Init ==
    /\ config \in [Instances -> Configurations]
    /\ pc = "idle"
    /\ turn = 0
    /\ built = 0
    /\ measurement = [i \in Instances |-> Off]
    /\ HBisInitialized = FALSE
    /\ HSisInitialized = FALSE
    /\ initialized = [number |-> 0, analyses |-> "", expData |-> ""]
    /\ higgsBounds = Off
    /\ higgsSignals = Off

Next ==
    \/ Construct
    \/ Shut
    \/ Calculate
    \/ InitializeHBandHS
    \/ Setup
    \/ AssignMeasurements
    \/ Run
    \/ InitializeMeasurements

Spec == Init /\ [][Next]_vars

-----------------------------------------------------------------------------
\* Whenever a calculator runs a library, it is initialized for that calculator's
\* Higgs bosons, analyses and data, set up by it, and holds its measurements, as
\* if it had the libraries to itself; and the two libraries, which share their
\* input, are initialized for the same number of Higgs bosons.
RunIsItsOwn ==
    pc = "run" =>
        /\ Mine.runHB => higgsBounds = [number |-> Mine.number, analyses |-> Mine.analyses]
        /\ Mine.runHS =>
               higgsSignals = [number |-> Mine.number, expData |-> Mine.expData, setup |-> turn,
                               peaks |-> IF Constructing THEN Real(Mine.expData)
                                         ELSE measurement[turn]]
        /\ higgsBounds # Off /\ higgsSignals # Off => higgsBounds.number = higgsSignals.number

\* HiggsSignalsCalculator.cpp:49: the measurements a calculator keeps from the
\* library are the real ones, not those of the calculators constructed before.
MeasurementsAreReal ==
    \A i \in 1 .. built :
        config[i].runHS =>
            measurement[i] = IF config[i].useInitial THEN Own(i, config[i].expData)
                             ELSE Real(config[i].expData)
=============================================================================
