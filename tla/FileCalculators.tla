--------------------------- MODULE FileCalculators ---------------------------
(***************************************************************************)
(* The calculators of a model and the files they leave to each other, to   *)
(* the next point and to the next process.  Model says what a calculator   *)
(* has to do; here it does it in steps, with programs that fail, hang, or  *)
(* end well without having written anything.                               *)
(*                                                                         *)
(* A file holds the numbers of one point, of none (NoPoint), or of several *)
(* or half of one (Torn), or it is not there.                              *)
(***************************************************************************)
EXTENDS Model, CalculatorSteps

CONSTANTS
    Files,      \* the files in the working directory
    Absent,     \* stands for a file that does not exist
    Rejected,   \* the points whose predictions the tests of calculators refuse
    Chains      \* the lists of calculators a model may be made of

Contents == Held \cup {Absent}
StepSet == [op : {"clear", "write", "copy", "run", "read", "library", "test"},
            out : SUBSET Files, in : SUBSET Files, uses : SUBSET Origins,
            guards : SUBSET Guards, absent : Policies, torn : Policies]
Programs == [clears : SUBSET Files, steps : Seq(StepSet)]

ASSUME FileAssumption ==
    /\ Absent \notin Held
    /\ Rejected \subseteq Points
    /\ Chains \subseteq [Calcs -> Programs]

VARIABLES
    chain,      \* the calculators
    files,      \* what the files hold
    step,       \* the step the running calculator is at; 0: not begun
    held        \* what the predictions of the running calculator hold

fileVars == <<chain, files, step, held>>
fvars == <<vars, fileVars>>

Steps(i) == chain[i].steps
Now == Steps(next)[step]
Doing(op) == next \in Calcs /\ step \in DOMAIN Steps(next) /\ Now.op = op

FilesTypeOK ==
    /\ chain \in Chains
    /\ files \in [Files -> Contents]
    /\ step \in Nat
    /\ held \in Held

\* Numbers of one point are of that point, and numbers made of nothing are of
\* none; numbers of several points are torn.
Blend(origins) ==
    IF origins = {} THEN NoPoint
    ELSE IF \E x \in Held : origins = {x} THEN CHOOSE x \in Held : origins = {x}
    ELSE Torn

NumbersFrom(uses) ==
    (IF "parameters" \in uses THEN {par} ELSE {})
    \cup (IF "own" \in uses THEN {held} ELSE {})
    \cup (IF "gathered" \in uses THEN {held} \ {NoPoint} ELSE {})
    \cup (IF "before" \in uses THEN {predictions[j] : j \in 1 .. next - 1} ELSE {})
Sources(s) == NumbersFrom(s.uses) \cup {files[f] : f \in s.in}

Put(out, content) == files' = [f \in Files |-> IF f \in out THEN content ELSE files[f]]
Proceeds == step' = step + 1 /\ UNCHANGED <<vars, chain>>
Leaves == step' = 0 /\ held' = NoPoint /\ UNCHANGED chain

-----------------------------------------------------------------------------
\* Mutant: the files of the point before are not renamed.
BeginWithOldFiles ==
    /\ Calculating
    /\ step = 0
    /\ step' = 1
    /\ held' = predictions[next]
    /\ UNCHANGED <<vars, chain, files>>

\* CalculatorBase::Calculate: the files the calculator has named are renamed.
Begin ==
    /\ Calculating
    /\ step = 0
    /\ step' = 1
    /\ held' = predictions[next]
    /\ Put(chain[next].clears, Absent)
    /\ UNCHANGED <<vars, chain>>

Refuse == ThrowWith(held) /\ Leaves
Abort == Die /\ Leaves

ClearFiles ==
    /\ Doing("clear")
    /\ Put(Now.out, Absent)
    /\ Proceeds
    /\ UNCHANGED held

WriteFiles ==
    /\ Doing("write")
    /\ \/ /\ Put(Now.out, Blend(Sources(Now)))
          /\ Proceeds
          /\ UNCHANGED held
       \/ Now.absent = "die" /\ Abort /\ UNCHANGED files
       \/ Now.absent = "keep" /\ Proceeds /\ UNCHANGED <<files, held>>

CopyFile ==
    /\ Doing("copy")
    /\ \/ /\ Absent \notin Sources(Now)
          /\ Put(Now.out, Blend(Sources(Now)))
       \/ /\ Absent \in Sources(Now)
          /\ IF Now.absent = "zero" THEN Put(Now.out, NoPoint) ELSE UNCHANGED files
    /\ Proceeds
    /\ UNCHANGED held

\* The program ends with status 0: all of its output is written, or none.
RunEndsWell ==
    /\ Doing("run")
    /\ \/ Absent \notin Sources(Now) /\ Put(Now.out, Blend(Sources(Now)))
       \/ UNCHANGED files
    /\ Proceeds
    /\ UNCHANGED held

HalfWritten == UNCHANGED files \/ Put(Now.out, Torn)

\* Mutant: the status of a failed program is forgotten.
RunFailsUnseen ==
    /\ Doing("run")
    /\ HalfWritten
    /\ IF "someStatus" \in Now.guards THEN Abort ELSE Proceeds /\ UNCHANGED held

\* The program ends with another status, before, while or after it writes.
RunFails ==
    /\ Doing("run")
    /\ HalfWritten
    /\ \/ "status" \in Now.guards /\ Refuse
       \/ "someStatus" \in Now.guards /\ Abort
       \/ "status" \notin Now.guards /\ Proceeds /\ UNCHANGED held

\* The program does not end, and the Executor kills it after a while.  When no
\* completion timeout is set, it is waited for and nothing ever happens.
RunTimesOut ==
    /\ Doing("run")
    /\ "timeout" \in Now.guards
    /\ HalfWritten
    /\ Refuse

\* The Executor itself fails.
RunIsImpossible ==
    /\ Doing("run")
    /\ "shell" \notin Now.guards
    /\ IF "anyFailure" \in Now.guards THEN Refuse ELSE Abort
    /\ UNCHANGED files

Fatal(policy) == policy \in {"throw", "die"}
Missing(policy) ==
    \/ policy = "throw" /\ Refuse
    \/ policy = "die" /\ Abort

\* What a file with that content leaves in the predictions.
Taken(content) ==
    IF content = Absent THEN IF Now.absent = "zero" THEN NoPoint ELSE held ELSE content
Take(found) == held' = Blend({Taken(content) : content \in found}) /\ Proceeds

\* Files are read, or numbers calculated from numbers.
ReadFiles ==
    /\ Doing("read")
    /\ LET found == Sources(Now)
       IN  \/ Absent \in found /\ Missing(Now.absent)
           \/ Torn \in found /\ Missing(Now.torn)
           \/ /\ Absent \in found => ~Fatal(Now.absent) /\ Now.absent # "wait"
              /\ Torn \in found => ~Fatal(Now.torn)
              /\ Take(found)
    /\ UNCHANGED files

\* A line that is not there is waited for.
ReadForEver ==
    /\ Doing("read")
    /\ Now.absent = "wait"
    /\ Absent \in Sources(Now)
    /\ UNCHANGED fvars

\* A library calculates a point or refuses it, when some of its predictions may
\* be made already.
CallLibrary ==
    /\ Doing("library")
    /\ LET found == Sources(Now)
           some == {held, Blend({held} \cup (found \ {Absent}))}
       IN  \/ Absent \in found /\ Missing(Now.absent)
           \/ /\ Absent \in found => ~Fatal(Now.absent)
              /\ \/ Take(found)
                 \/ Now.torn = "throw" /\ \E half \in some : ThrowWith(half) /\ Leaves
                 \/ Now.torn = "die" /\ Abort
                 \/ Now.torn = "keep" /\ held' \in some /\ Proceeds
    /\ UNCHANGED files

\* A test of numbers that are of no point may end either way.
TestPredictions ==
    /\ Doing("test")
    /\ LET tested == Blend(Sources(Now))
       IN  \/ tested \notin Points \ Rejected /\ Refuse
           \/ tested \notin Rejected /\ Proceeds /\ UNCHANGED held
    /\ UNCHANGED files

\* CalculatePredictions returns.
Finish ==
    /\ Calculating
    /\ step = Len(Steps(next)) + 1
    /\ CalculateWith(held)
    /\ Leaves
    /\ UNCHANGED files

Calculation ==
    \/ Begin
    \/ ClearFiles
    \/ WriteFiles
    \/ CopyFile
    \/ RunEndsWell
    \/ RunFails
    \/ RunTimesOut
    \/ RunIsImpossible
    \/ ReadFiles
    \/ ReadForEver
    \/ CallLibrary
    \/ TestPredictions
    \/ Finish

\* An evaluation begins.
BeginEvaluation ==
    /\ Update
    /\ UNCHANGED <<chain, files, step, held>>

\* What the model and the tool do around the calculators.
Around ==
    /\ \/ \E p \in Points : SetParameters(p)
       \/ Return
       \/ Conclude
       \/ FillTree
       \/ Dead
    /\ UNCHANGED fileVars

FilesOf(program) ==
    program.clears \cup UNION {program.steps[k].out \cup program.steps[k].in :
                             k \in DOMAIN program.steps}

\* The working directory is empty, or as an earlier process has left it.
FilesInit ==
    /\ Init
    /\ chain \in Chains
    /\ \E left \in Points \cup {Absent} :
          files = [f \in Files |->
                    IF \E i \in Calcs : f \in FilesOf(chain[i]) THEN left ELSE Absent]
    /\ step = 0
    /\ held = NoPoint

FilesNext == Calculation \/ BeginEvaluation \/ Around

FilesSpec == FilesInit /\ [][FilesNext]_fvars

\* Whatever the process does by itself it goes on doing, and a program with a
\* timeout is killed; no program has to end.
Progress ==
    \/ Begin
    \/ ClearFiles
    \/ WriteFiles
    \/ CopyFile
    \/ RunTimesOut
    \/ ReadFiles
    \/ CallLibrary
    \/ TestPredictions
    \/ Finish
    \/ Conclude /\ UNCHANGED fileVars
FilesFair == WF_fvars(Progress)

-----------------------------------------------------------------------------
\* What it takes for a calculator to need no trust in the programs it starts.

\* The files that hold nothing but numbers of this point when calculator i comes
\* to its step k.
Fresh(i, k) ==
    {f \in Files :
        \E j \in 1 .. i :
            \/ f \in chain[j].clears
            \/ \E m \in DOMAIN Steps(j) :
                  /\ j < i \/ m < k
                  /\ \/ Steps(j)[m].op = "clear"
                     \/ Steps(j)[m].op = "write" /\ Fatal(Steps(j)[m].absent)
                  /\ f \in Steps(j)[m].out}

\* Its predictions have been made, once, before step k.
Predicted(i, k) ==
    \E m \in DOMAIN Steps(i) : m < k /\ Steps(i)[m].op \in {"read", "library"}

HasSources(i, s) ==
    \/ s.in # {}
    \/ s.uses \cap {"parameters", "own"} # {}
    \/ i > 1 /\ "before" \in s.uses

\* It makes numbers of nothing but what is fresh.
UsesFresh(i, k) ==
    LET s == Steps(i)[k]
    IN  /\ HasSources(i, s)
        /\ "gathered" \notin s.uses
        /\ "own" \in s.uses => Predicted(i, k)
        /\ s.in \subseteq Fresh(i, k)

CarefulStep(i, k) ==
    LET s == Steps(i)[k]
    IN  \/ s.op \in {"clear", "test"}
        \/ /\ UsesFresh(i, k)
           /\ s.op = "write" => s.in = {}
           /\ s.op = "run" => s.out \subseteq Fresh(i, k) /\ "status" \in s.guards
           /\ s.op \in {"read", "library"} => s.in = {} \/ Fatal(s.absent)
           /\ s.op = "library" => Fatal(s.torn)
           /\ s.op # "copy"

Careful(i) ==
    /\ \A k \in DOMAIN Steps(i) : CarefulStep(i, k)
    /\ Predicted(i, Len(Steps(i)) + 1)

CarefulUpTo(i) == \A j \in 1 .. i : Careful(j)

\* A calculator that looks at every status, reads nothing it has not renamed or
\* written, and whose predecessors do the same, contributes to a finite chi2 of
\* the tree with its predictions of the point beside it, whatever the programs
\* do and whatever an earlier point or process has left.
CarefulIsCurrent ==
    entry # NoEntry /\ entry.chi2.finite =>
        \A i \in Calcs : entry.chi2.of[i] = entry.par \/ ~CarefulUpTo(i)

\* With such calculators only, the model is the one of Model: no file shows.
CarefulIsModel == [][[Next]_vars \/ ~CarefulUpTo(NumCalcs)]_fvars
=============================================================================
