----------------------------- MODULE HiggsProofs -----------------------------
(***************************************************************************)
(* Calculators that share the two libraries run as if they did not, for    *)
(* any number of calculators and any configurations.                       *)
(***************************************************************************)
EXTENDS HiggsLibrary, TLAPS

USE LibraryAssumption

\* The static members say what the libraries are initialized for, and two of
\* them are said of both.
FlagsAreTrue ==
    /\ HBisInitialized <=> higgsBounds # Off
    /\ HSisInitialized <=> higgsSignals # Off
    /\ higgsBounds # Off =>
           /\ higgsBounds \in Bounds
           /\ higgsBounds = [number |-> initialized.number, analyses |-> initialized.analyses]
    /\ higgsSignals # Off =>
           /\ higgsSignals \in Signals
           /\ higgsSignals.number = initialized.number
           /\ higgsSignals.expData = initialized.expData

Idle == pc = "idle" => ~Constructing
Running == pc # "idle" => turn \in Instances

\* What has been done for the running calculator so far.
Prepared ==
    /\ pc \in {"setup", "assign", "run", "measure"} =>
           /\ Mine.runHB => /\ higgsBounds # Off
                            /\ higgsBounds.number = Mine.number
                            /\ higgsBounds.analyses = Mine.analyses
           /\ Mine.runHS => /\ higgsSignals # Off
                            /\ higgsSignals.number = Mine.number
                            /\ higgsSignals.expData = Mine.expData
    /\ pc \in {"assign", "run", "measure"} /\ Mine.runHS => higgsSignals.setup = turn

\* While a calculator is constructed the measurements are the real ones.
Constructed ==
    /\ pc = "initialize" /\ Constructing => higgsBounds = Off /\ higgsSignals = Off
    /\ pc \in {"setup", "run", "measure"} /\ Constructing /\ Mine.runHS =>
           higgsSignals.peaks = Real(Mine.expData)
    /\ pc = "measure" => Constructing
    /\ pc = "shut" => Constructing
    /\ pc = "assign" => ~Constructing

Assigned ==
    pc = "run" /\ ~Constructing /\ Mine.runHS => higgsSignals.peaks = measurement[turn]

\* The calculators are constructed in their order.
InOrder == Constructing => turn = built + 1

Measured == \A i \in 1 .. built : config[i].runHS => measurement[i] \in Measurements

LibraryInv ==
    /\ TypeOK
    /\ FlagsAreTrue
    /\ Idle
    /\ Running
    /\ Prepared
    /\ Constructed
    /\ Assigned
    /\ InOrder
    /\ Measured
    /\ MeasurementsAreReal

LEMMA MineType ==
    ASSUME TypeOK, turn \in Instances
    PROVE  Mine \in ConfigSet /\ [number |-> Mine.number, analyses |-> Mine.analyses] \in Bounds
           /\ \A s \in 0 .. NumInstances, m \in Measurements :
                 [number |-> Mine.number, expData |-> Mine.expData, setup |-> s, peaks |-> m]
                     \in Signals
<1>1. Mine \in ConfigSet
  BY DEF TypeOK, Mine
<1> QED
  BY <1>1 DEF ConfigSet, Bounds, Signals

LEMMA RealType == ASSUME NEW d \in Data, NEW i \in Instances
                  PROVE Real(d) \in Measurements /\ Own(i, d) \in Measurements
<1>1. 0 \in 0 .. NumInstances /\ i \in 0 .. NumInstances
  BY DEF Instances
<1> QED
  BY <1>1 DEF Real, Own, Measurements

LEMMA LibraryInit == Init => LibraryInv
<1> SUFFICES ASSUME Init PROVE LibraryInv
  OBVIOUS
<1>0. /\ pc = "idle" /\ turn = 0 /\ built = 0
      /\ ~HBisInitialized /\ ~HSisInitialized /\ higgsBounds = Off /\ higgsSignals = Off
  BY DEF Init
<1>1. TypeOK
  <2>1. 0 \in 0 .. NumInstances
    OBVIOUS
  <2>2. measurement \in [Instances -> Measurements \cup {Off}]
    BY DEF Init
  <2>3. config \in [Instances -> Configurations]
    BY DEF Init
  <2> QED
    BY <1>0, <2>1, <2>2, <2>3, Zenon DEF TypeOK, Init
<1>2. FlagsAreTrue
  BY <1>0, Zenon DEF FlagsAreTrue
<1>3. Idle /\ Running /\ Prepared /\ Constructed /\ Assigned /\ InOrder
  BY <1>0 DEF Idle, Running, Prepared, Constructed, Assigned, InOrder, Constructing
<1>4. Measured /\ MeasurementsAreReal
  BY <1>0 DEF Measured, MeasurementsAreReal
<1> QED
  BY <1>1, <1>2, <1>3, <1>4 DEF LibraryInv

\* Nothing is said of a calculator that has not got as far.
LEMMA Waiting ==
    ASSUME LibraryInv, UNCHANGED <<config, measurement>>, UNCHANGED built
    PROVE  Measured' /\ MeasurementsAreReal'
BY DEF LibraryInv, Measured, MeasurementsAreReal

LEMMA ConstructKeeps == ASSUME LibraryInv, Construct PROVE LibraryInv'
<1> USE DEF LibraryInv
<1>1. TypeOK'
  BY DEF TypeOK, Construct, flags, libraries
<1>2. FlagsAreTrue' /\ Idle' /\ Running' /\ Prepared' /\ Assigned' /\ InOrder'
  BY DEF TypeOK, Construct, flags, libraries, FlagsAreTrue, Idle, Running, Prepared, Assigned,
         InOrder, Instances
<1>3. Constructed'
  BY DEF TypeOK, Construct, Constructed, Constructing
<1>4. Measured' /\ MeasurementsAreReal'
  BY Waiting DEF Construct
<1> QED
  BY <1>1, <1>2, <1>3, <1>4

LEMMA ShutKeeps == ASSUME LibraryInv, Shut PROVE LibraryInv'
<1> USE DEF LibraryInv
<1>1. TypeOK'
  BY DEF TypeOK, Shut, Goes
<1>2. FlagsAreTrue' /\ higgsBounds' = Off /\ higgsSignals' = Off
  BY DEF TypeOK, Shut, FlagsAreTrue
<1>3. Idle' /\ Running' /\ Prepared' /\ Assigned' /\ InOrder'
  BY DEF Shut, Goes, Idle, Running, Prepared, Assigned, InOrder, Constructing
<1>4. Constructed'
  BY <1>2 DEF Shut, Goes, Constructed, Constructing
<1>5. Measured' /\ MeasurementsAreReal'
  BY Waiting DEF Shut, Goes
<1> QED
  BY <1>1, <1>2, <1>3, <1>4, <1>5

LEMMA CalculateKeeps == ASSUME LibraryInv, Calculate PROVE LibraryInv'
<1> USE DEF LibraryInv
<1>1. turn' \in Instances
  BY DEF TypeOK, Calculate, Instances
<1>2. TypeOK'
  BY <1>1 DEF TypeOK, Calculate, flags, libraries, Instances
<1>3. FlagsAreTrue'
  BY DEF Calculate, flags, libraries, FlagsAreTrue
<1>4. Idle' /\ Running' /\ Prepared' /\ Assigned' /\ InOrder' /\ Constructed'
  BY <1>1 DEF Calculate, Idle, Running, Prepared, Assigned, InOrder, Constructed, Constructing,
              Instances
<1>5. Measured' /\ MeasurementsAreReal'
  BY Waiting DEF Calculate
<1> QED
  BY <1>2, <1>3, <1>4, <1>5

LEMMA InitializeKeeps == ASSUME LibraryInv, InitializeHBandHS PROVE LibraryInv'
<1> USE DEF LibraryInv
<1>1. turn \in Instances /\ UNCHANGED <<config, turn, built, measurement>>
      /\ pc = "initialize" /\ pc' = "setup" /\ Mine' = Mine
  BY DEF InitializeHBandHS, Goes, Running, Mine
<1>2. Mine \in ConfigSet /\ [number |-> Mine.number, analyses |-> Mine.analyses] \in Bounds
  BY <1>1, MineType
<1>3. [number |-> Mine.number, expData |-> Mine.expData, setup |-> 0,
       peaks |-> Real(Mine.expData)] \in Signals
  <2>1. Real(Mine.expData) \in Measurements /\ 0 \in 0 .. NumInstances
    BY <1>1, <1>2, RealType DEF ConfigSet
  <2> QED
    BY <1>1, <2>1, MineType
<1>b. \/ StartHB /\ higgsBounds' = [number |-> Mine.number, analyses |-> Mine.analyses]
                 /\ HBisInitialized'
      \/ ~StartHB /\ FinishHB /\ higgsBounds' = Off /\ ~HBisInitialized'
      \/ ~StartHB /\ ~FinishHB /\ higgsBounds' = higgsBounds /\ HBisInitialized' = HBisInitialized
  BY DEF InitializeHBandHS, TypeOK
<1>s. \/ StartHS /\ higgsSignals' = [number |-> Mine.number, expData |-> Mine.expData,
                                     setup |-> 0, peaks |-> Real(Mine.expData)]
                 /\ HSisInitialized'
      \/ ~StartHS /\ FinishHS /\ higgsSignals' = Off /\ ~HSisInitialized'
      \/ ~StartHS /\ ~FinishHS /\ higgsSignals' = higgsSignals /\ HSisInitialized' = HSisInitialized
  BY DEF InitializeHBandHS, TypeOK
<1>i. /\ initialized'.number = IF StartHB \/ StartHS THEN Mine.number ELSE initialized.number
      /\ initialized'.analyses = IF StartHB THEN Mine.analyses ELSE initialized.analyses
      /\ initialized'.expData = IF StartHS THEN Mine.expData ELSE initialized.expData
  BY DEF InitializeHBandHS
<1>4. TypeOK'
  <2>1. HBisInitialized' \in BOOLEAN /\ HSisInitialized' \in BOOLEAN
    BY DEF InitializeHBandHS
  <2>2. higgsBounds' \in Bounds \cup {Off} /\ higgsSignals' \in Signals \cup {Off}
    BY <1>2, <1>3, <1>b, <1>s DEF TypeOK
  <2> QED
    BY <1>1, <2>1, <2>2 DEF TypeOK
<1>5. FlagsAreTrue'
  <2>1. HBisInitialized' <=> higgsBounds' # Off
    BY <1>2, <1>b DEF FlagsAreTrue
  <2>2. HSisInitialized' <=> higgsSignals' # Off
    BY <1>3, <1>s DEF FlagsAreTrue
  <2>3. higgsBounds' # Off =>
           /\ higgsBounds' \in Bounds
           /\ higgsBounds' = [number |-> initialized'.number, analyses |-> initialized'.analyses]
    <3>1. CASE StartHB
      BY <1>2, <1>b, <1>i, <3>1
    <3>2. CASE ~StartHB /\ ~FinishHB /\ HBisInitialized
      <4>1. StartHS => initialized.number = Mine.number
        BY <3>2 DEF FinishHB, StartHS, NumberChanged
      <4>2. initialized'.number = initialized.number /\ initialized'.analyses = initialized.analyses
        BY <1>i, <3>2, <4>1
      <4> QED
        BY <1>b, <3>2, <4>2 DEF FlagsAreTrue
    <3> QED
      BY <1>b, <2>1, <3>1, <3>2
  <2>4. higgsSignals' # Off =>
           /\ higgsSignals' \in Signals
           /\ higgsSignals'.number = initialized'.number
           /\ higgsSignals'.expData = initialized'.expData
    <3>1. CASE StartHS
      BY <1>3, <1>s, <1>i, <3>1
    <3>2. CASE ~StartHS /\ ~FinishHS /\ HSisInitialized
      <4>1. StartHB => initialized.number = Mine.number
        BY <3>2 DEF FinishHS, StartHB, NumberChanged
      <4>2. initialized'.number = initialized.number /\ initialized'.expData = initialized.expData
        BY <1>i, <3>2, <4>1
      <4> QED
        BY <1>s, <3>2, <4>2 DEF FlagsAreTrue
    <3> QED
      BY <1>s, <2>2, <3>1, <3>2
  <2> QED
    BY <2>1, <2>2, <2>3, <2>4 DEF FlagsAreTrue
<1>6. Prepared'
  <2>1. Mine.runHB => /\ higgsBounds' # Off
                      /\ higgsBounds'.number = Mine.number
                      /\ higgsBounds'.analyses = Mine.analyses
    <3>1. CASE StartHB
      BY <1>2, <1>b, <3>1
    <3>2. CASE Mine.runHB /\ ~StartHB
      <4>1. HBisInitialized /\ ~FinishHB
        BY <3>2 DEF StartHB
      <4>2. initialized.number = Mine.number /\ initialized.analyses = Mine.analyses
        BY <3>2, <4>1 DEF FinishHB, NumberChanged, AnalysesChanged
      <4>3. higgsBounds' = higgsBounds /\ higgsBounds # Off
        BY <1>b, <3>2, <4>1 DEF FlagsAreTrue
      <4>4. higgsBounds = [number |-> initialized.number, analyses |-> initialized.analyses]
        BY <4>3 DEF FlagsAreTrue
      <4>5. higgsBounds.number = initialized.number /\ higgsBounds.analyses = initialized.analyses
        BY <4>4
      <4> QED
        BY <4>2, <4>3, <4>5
    <3> QED
      BY <3>1, <3>2
  <2>2. Mine.runHS => /\ higgsSignals' # Off
                      /\ higgsSignals'.number = Mine.number
                      /\ higgsSignals'.expData = Mine.expData
    <3>1. CASE StartHS
      BY <1>3, <1>s, <3>1
    <3>2. CASE Mine.runHS /\ ~StartHS
      <4>1. HSisInitialized /\ ~FinishHS
        BY <3>2 DEF StartHS
      <4>2. initialized.number = Mine.number /\ initialized.expData = Mine.expData
        BY <3>2, <4>1 DEF FinishHS, NumberChanged, DataChanged
      <4> QED
        BY <1>s, <3>2, <4>1, <4>2 DEF FlagsAreTrue
    <3> QED
      BY <3>1, <3>2
  <2> QED
    BY <1>1, <2>1, <2>2 DEF Prepared
<1>7. Constructed'
  <2>1. ASSUME Constructing, Mine.runHS PROVE higgsSignals'.peaks = Real(Mine.expData)
    <3>1. ~HSisInitialized
      BY <1>1, <2>1 DEF Constructed, FlagsAreTrue
    <3>2. StartHS
      BY <2>1, <3>1 DEF StartHS
    <3> QED
      BY <1>s, <3>2
  <2> QED
    BY <1>1, <2>1 DEF Constructed, Constructing
<1>8. Idle' /\ Running' /\ Assigned' /\ InOrder'
  BY <1>1 DEF Idle, Running, Assigned, InOrder, Constructing
<1>9. Measured' /\ MeasurementsAreReal'
  BY <1>1, Waiting
<1> QED
  BY <1>4, <1>5, <1>6, <1>7, <1>8, <1>9

LEMMA SetupKeeps == ASSUME LibraryInv, Setup PROVE LibraryInv'
<1> USE DEF LibraryInv
<1>1. turn \in Instances /\ UNCHANGED <<config, turn, built, measurement, higgsBounds>>
      /\ UNCHANGED <<HBisInitialized, HSisInitialized, initialized>>
      /\ pc = "setup" /\ pc' \in {"run", "assign"} /\ Mine' = Mine
      /\ (pc' = "run" <=> Constructing)
  BY DEF Setup, Goes, Running, Mine, flags
<1>2. CASE Mine.runHS
  <2>1. higgsSignals \in Signals
    BY <1>1, <1>2 DEF Prepared, FlagsAreTrue
  <2>2. turn \in 0 .. NumInstances
    BY DEF TypeOK
  <2>3. higgsSignals' = [higgsSignals EXCEPT !.setup = turn]
    BY <1>2 DEF Setup
  <2>4. /\ higgsSignals' \in Signals
        /\ higgsSignals'.number = higgsSignals.number
        /\ higgsSignals'.expData = higgsSignals.expData
        /\ higgsSignals'.peaks = higgsSignals.peaks
        /\ higgsSignals'.setup = turn
    BY <2>1, <2>2, <2>3 DEF Signals
  <2>5. TypeOK'
    BY <1>1, <2>4 DEF TypeOK
  <2>6. FlagsAreTrue'
    BY <1>1, <2>1, <2>4 DEF FlagsAreTrue
  <2>7. Prepared'
    BY <1>1, <2>4 DEF Prepared, Signals
  <2>8. Constructed'
    BY <1>1, <2>4 DEF Constructed, Constructing
  <2>9. Idle' /\ Running' /\ Assigned' /\ InOrder'
    BY <1>1 DEF Idle, Running, Assigned, InOrder, Constructing
  <2> QED
    BY <1>1, <2>5, <2>6, <2>7, <2>8, <2>9, Waiting
<1>3. CASE ~Mine.runHS
  <2>1. UNCHANGED higgsSignals
    BY <1>3 DEF Setup
  <2>2. TypeOK' /\ FlagsAreTrue'
    BY <1>1, <2>1 DEF TypeOK, FlagsAreTrue
  <2>3. Prepared' /\ Constructed'
    BY <1>1, <1>3, <2>1 DEF Prepared, Constructed, Constructing
  <2>4. Idle' /\ Running' /\ Assigned' /\ InOrder'
    BY <1>1 DEF Idle, Running, Assigned, InOrder, Constructing
  <2> QED
    BY <1>1, <2>2, <2>3, <2>4, Waiting
<1> QED
  BY <1>2, <1>3

LEMMA AssignKeeps == ASSUME LibraryInv, AssignMeasurements PROVE LibraryInv'
<1> USE DEF LibraryInv
<1>1. turn \in Instances /\ UNCHANGED <<config, turn, built, measurement, higgsBounds>>
      /\ UNCHANGED <<HBisInitialized, HSisInitialized, initialized>>
      /\ pc = "assign" /\ pc' = "run" /\ Mine' = Mine /\ ~Constructing
  BY DEF AssignMeasurements, Goes, Running, Mine, flags, Constructed
<1>2. CASE Mine.runHS
  <2>1. higgsSignals \in Signals
    BY <1>1, <1>2 DEF Prepared, FlagsAreTrue
  <2>2. measurement[turn] \in Measurements
    <3>1. turn \in 1 .. built
      BY <1>1 DEF Constructing, TypeOK, Instances
    <3> QED
      BY <1>2, <3>1 DEF Measured, Mine
  <2>3. higgsSignals' = [higgsSignals EXCEPT !.peaks = measurement[turn]]
    BY <1>2 DEF AssignMeasurements
  <2>4. /\ higgsSignals' \in Signals
        /\ higgsSignals'.number = higgsSignals.number
        /\ higgsSignals'.expData = higgsSignals.expData
        /\ higgsSignals'.peaks = measurement[turn]
        /\ higgsSignals'.setup = higgsSignals.setup
    BY <2>1, <2>2, <2>3 DEF Signals
  <2>5. TypeOK'
    BY <1>1, <2>4 DEF TypeOK
  <2>6. FlagsAreTrue'
    BY <1>1, <2>1, <2>4 DEF FlagsAreTrue
  <2>7. Prepared'
    BY <1>1, <2>4 DEF Prepared, Signals
  <2>8. Constructed' /\ Assigned'
    BY <1>1, <2>4 DEF Constructed, Constructing, Assigned
  <2>9. Idle' /\ Running' /\ InOrder'
    BY <1>1 DEF Idle, Running, InOrder, Constructing
  <2> QED
    BY <1>1, <2>5, <2>6, <2>7, <2>8, <2>9, Waiting
<1>3. CASE ~Mine.runHS
  <2>1. UNCHANGED higgsSignals
    BY <1>3 DEF AssignMeasurements
  <2>2. TypeOK' /\ FlagsAreTrue'
    BY <1>1, <2>1 DEF TypeOK, FlagsAreTrue
  <2>3. Prepared' /\ Constructed' /\ Assigned'
    BY <1>1, <1>3, <2>1 DEF Prepared, Constructed, Constructing, Assigned
  <2>4. Idle' /\ Running' /\ InOrder'
    BY <1>1 DEF Idle, Running, InOrder, Constructing
  <2> QED
    BY <1>1, <2>2, <2>3, <2>4, Waiting
<1> QED
  BY <1>2, <1>3

LEMMA RunKeeps == ASSUME LibraryInv, Run PROVE LibraryInv'
<1> USE DEF LibraryInv
<1>1. turn \in Instances /\ UNCHANGED <<config, turn, built, measurement>>
      /\ UNCHANGED <<HBisInitialized, HSisInitialized, initialized, higgsBounds, higgsSignals>>
      /\ pc = "run" /\ pc' \in {"measure", "idle"} /\ Mine' = Mine
      /\ (pc' = "measure" <=> Constructing)
  BY DEF Run, Goes, Running, Mine, flags, libraries
<1>2. TypeOK' /\ FlagsAreTrue'
  BY <1>1 DEF TypeOK, FlagsAreTrue
<1>3. Prepared' /\ Constructed' /\ Assigned'
  BY <1>1 DEF Prepared, Constructed, Constructing, Assigned
<1>4. Idle' /\ Running' /\ InOrder'
  BY <1>1 DEF Idle, Running, InOrder, Constructing
<1> QED
  BY <1>1, <1>2, <1>3, <1>4, Waiting

LEMMA MeasureKeeps == ASSUME LibraryInv, InitializeMeasurements PROVE LibraryInv'
<1> USE DEF LibraryInv
<1>1. turn \in Instances /\ UNCHANGED <<config, turn>>
      /\ UNCHANGED <<HBisInitialized, HSisInitialized, initialized, higgsBounds, higgsSignals>>
      /\ pc = "measure" /\ pc' = "initialize" /\ built' = turn
      /\ Constructing /\ turn = built + 1
  BY DEF InitializeMeasurements, Running, flags, libraries, Constructed, InOrder
<1>2. Mine \in ConfigSet /\ Mine = config[turn]
  BY <1>1, MineType DEF Mine
<1>3. Mine.runHS => /\ higgsSignals \in Signals
                    /\ higgsSignals.peaks = Real(Mine.expData)
  BY <1>1 DEF Prepared, FlagsAreTrue, Constructed
<1>4. Real(Mine.expData) \in Measurements /\ Own(turn, Mine.expData) \in Measurements
  BY <1>1, <1>2, RealType DEF ConfigSet
<1>5. measurement \in [Instances -> Measurements \cup {Off}]
  BY DEF TypeOK
<1>6. /\ measurement' \in [Instances -> Measurements \cup {Off}]
      /\ \A i \in Instances : i # turn => measurement'[i] = measurement[i]
      /\ Mine.runHS => measurement'[turn] = IF Mine.useInitial THEN Own(turn, Mine.expData)
                                            ELSE Real(Mine.expData)
  <2>1. CASE Mine.runHS
    <3>1. measurement' = [measurement EXCEPT ![turn] =
                             IF Mine.useInitial THEN Own(turn, Mine.expData)
                             ELSE Real(Mine.expData)]
      BY <1>3, <2>1 DEF InitializeMeasurements
    <3> QED
      BY <1>1, <1>4, <1>5, <2>1, <3>1
  <2>2. CASE ~Mine.runHS
    BY <1>5, <2>2 DEF InitializeMeasurements
  <2> QED
    BY <2>1, <2>2
<1>7. \A i \in 1 .. turn : i \in Instances /\ (i = turn \/ i \in 1 .. built)
  BY <1>1 DEF Instances, TypeOK
<1>8. Measured'
  <2> SUFFICES ASSUME NEW i \in 1 .. turn, config[i].runHS
               PROVE  measurement'[i] \in Measurements
    BY <1>1 DEF Measured
  <2>1. CASE i = turn
    BY <1>2, <1>4, <1>6, <2>1
  <2>2. CASE i # turn
    BY <1>6, <1>7, <2>2 DEF Measured
  <2> QED
    BY <2>1, <2>2
<1>9. MeasurementsAreReal'
  <2> SUFFICES ASSUME NEW i \in 1 .. turn, config[i].runHS
               PROVE  measurement'[i] = IF config[i].useInitial THEN Own(i, config[i].expData)
                                        ELSE Real(config[i].expData)
    BY <1>1 DEF MeasurementsAreReal
  <2>1. CASE i = turn
    BY <1>2, <1>6, <2>1
  <2>2. CASE i # turn
    BY <1>6, <1>7, <2>2 DEF MeasurementsAreReal
  <2> QED
    BY <2>1, <2>2
<1>10. TypeOK'
  BY <1>1, <1>6 DEF TypeOK, Instances
<1>11. FlagsAreTrue'
  BY <1>1 DEF FlagsAreTrue
<1>12. Idle' /\ Running' /\ Prepared' /\ Constructed' /\ Assigned' /\ InOrder'
  BY <1>1 DEF Idle, Running, Prepared, Constructed, Assigned, InOrder, Constructing, Instances
<1> QED
  BY <1>8, <1>9, <1>10, <1>11, <1>12

LEMMA LibraryInvariant == Spec => []LibraryInv
<1>1. ASSUME LibraryInv, UNCHANGED vars PROVE LibraryInv'
  BY <1>1 DEF vars, flags, libraries, LibraryInv, TypeOK, FlagsAreTrue, Idle, Running, Prepared,
              Constructed, Assigned, InOrder, Measured, MeasurementsAreReal, Mine, Constructing
<1>2. LibraryInv /\ [Next]_vars => LibraryInv'
  BY <1>1, ConstructKeeps, ShutKeeps, CalculateKeeps, InitializeKeeps, SetupKeeps, AssignKeeps,
     RunKeeps, MeasureKeeps DEF Next
<1> QED
  BY <1>2, LibraryInit, PTL DEF Spec

\* Every calculator runs the libraries as if it had them to itself, for any
\* number of calculators and any of their configurations.
THEOREM LibraryRuns == Spec => []RunIsItsOwn
<1>1. LibraryInv => RunIsItsOwn
  <2> SUFFICES ASSUME LibraryInv, pc = "run" PROVE RunIsItsOwn
    BY DEF RunIsItsOwn
  <2> USE DEF LibraryInv
  <2>1. Mine.runHB => higgsBounds = [number |-> Mine.number, analyses |-> Mine.analyses]
    BY DEF Prepared, FlagsAreTrue
  <2>2. ASSUME Mine.runHS
        PROVE  higgsSignals = [number |-> Mine.number, expData |-> Mine.expData, setup |-> turn,
                               peaks |-> IF Constructing THEN Real(Mine.expData)
                                         ELSE measurement[turn]]
    <3>1. higgsSignals \in Signals
      BY <2>2 DEF Prepared, FlagsAreTrue
    <3>2. /\ higgsSignals.number = Mine.number
          /\ higgsSignals.expData = Mine.expData
          /\ higgsSignals.setup = turn
      BY <2>2 DEF Prepared
    <3>3. higgsSignals.peaks = IF Constructing THEN Real(Mine.expData) ELSE measurement[turn]
      BY <2>2 DEF Constructed, Assigned
    <3> QED
      BY <3>1, <3>2, <3>3 DEF Signals
  <2>3. higgsBounds # Off /\ higgsSignals # Off => higgsBounds.number = higgsSignals.number
    BY DEF FlagsAreTrue
  <2> QED
    BY <2>1, <2>2, <2>3 DEF RunIsItsOwn
<1> QED
  BY <1>1, LibraryInvariant, PTL

\* The measurements a calculator keeps are the real ones, or its own.
THEOREM MeasurementsKept == Spec => []MeasurementsAreReal
<1>1. LibraryInv => MeasurementsAreReal
  BY DEF LibraryInv
<1> QED
  BY <1>1, LibraryInvariant, PTL
=============================================================================
