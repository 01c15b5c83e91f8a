----------------------------- MODULE Controller -----------------------------
(***************************************************************************)
(* kernel/src/Controller.cpp: one run of Fittino, from main() to the       *)
(* interface file, and what processes that share an input file do to each  *)
(* other.  Each process works in a directory of its own; the input file    *)
(* and the lock file are common to all.                                    *)
(*                                                                         *)
(* A process with option -l holds the file lock from before it validates   *)
(* and reads the input file until it has written the file back, and then   *)
(* runs its tools.  Writing a file is two steps, since write_xml truncates *)
(* it first; it throws what nobody catches when it cannot open the file or *)
(* write it to its end.  The kernel gives the lock of a dead process back. *)
(***************************************************************************)
EXTENDS Naturals, Sequences, FiniteSets

CONSTANTS
    Procs,       \* the processes
    Free,        \* nobody: the lock is free
    LockingSets, \* the sets of processes that may be called with option -l
    Validating,  \* the processes called with option -v
    Empty,       \* the content of a file that has been truncated
    ToolLists,   \* what an input file may ask for: the types of its tools, in order
    MaxKills     \* bound: processes killed from outside

ASSUME ControllerAssumption ==
    /\ Free \notin Procs
    /\ Empty \notin Nat
    /\ LockingSets \subseteq SUBSET Procs
    /\ Validating \subseteq Procs
    /\ ToolLists \subseteq Seq(STRING)
    /\ \A l \in ToolLists : Len(l) >= 1
    /\ MaxKills \in Nat

VARIABLES
    tools,      \* the tools this input file asks for
    locking,    \* the processes called with option -l
    pc,         \* where each process is
    holder,     \* who holds the file lock
    input,      \* the input file
    tree,       \* _inputPtree of each process
    tool,       \* the number of the tool each process has arrived at
    output,     \* _outputPtree of each process: which tool describes each type
    interface,  \* FittinoInterfaceFile.xml in the directory of each process
    kills

setup == <<tools, locking>>
vars == <<setup, pc, holder, input, tree, tool, output, interface, kills>>

\* What the file, or a tree, holds: the user's values of the parameters, or
\* their values after that many tools.
Values == 0 .. Len(tools)
ToolNumbers == 1 .. Len(tools)
Types == {tools[i] : i \in ToolNumbers}
NoTool == 0

BrokenWrite == {"failedWriting", "killedWriting"}
Ended == {"ended", "failed", "killed"} \cup BrokenWrite
Locked == {"validate", "read", "construct", "rewrite", "writing", "unlock"}
Places == {"off", "lock", "task", "terminate", "handOver"} \cup Locked \cup Ended

TypeOK ==
    /\ tools \in ToolLists
    /\ locking \in LockingSets
    /\ pc \in [Procs -> Places]
    /\ holder \in Procs \cup {Free}
    /\ input \in Values \cup {Empty}
    /\ tree \in [Procs -> Values]
    /\ tool \in [Procs -> Nat]
    /\ output \in [Procs -> [Types -> {NoTool} \cup ToolNumbers]]
    /\ interface \in [Procs -> [Types -> {NoTool} \cup ToolNumbers] \cup {Empty}]
    /\ kills \in Nat

-----------------------------------------------------------------------------
Goto(p, where) == pc' = [pc EXCEPT ![p] = where]

\* The end of a process: the destructor of the lock, or the kernel.
Release(p) == holder' = IF holder = p THEN Free ELSE holder
Dies(p, how) == Goto(p, how) /\ Release(p)

Fails(p) ==
    /\ Dies(p, "failed")
    /\ UNCHANGED <<setup, input, tree, tool, output, interface, kills>>

\* Mutant: the lock is taken after the file has been validated and read.
StartLate(p) ==
    /\ pc[p] = "off"
    /\ Goto(p, IF p \in Validating THEN "validate" ELSE "read")
    /\ UNCHANGED <<setup, holder, input, tree, tool, output, interface, kills>>

\* HandleOptions and CheckInputFileFormat, which may refuse the options.
Start(p) ==
    /\ pc[p] = "off"
    /\ Goto(p, IF p \in locking THEN "lock" ELSE IF p \in Validating THEN "validate" ELSE "read")
    /\ UNCHANGED <<setup, holder, input, tree, tool, output, interface, kills>>

WrongOptions(p) == pc[p] = "off" /\ Fails(p)

\* The construction of _scopedLock waits for the lock.
Lock(p) ==
    /\ pc[p] = "lock"
    /\ holder = Free
    /\ holder' = p
    /\ Goto(p, IF p \in Validating THEN "validate" ELSE "read")
    /\ UNCHANGED <<setup, input, tree, tool, output, interface, kills>>

\* The constructor of file_lock throws when it cannot open the lock file.
LockFails(p) == pc[p] = "lock" /\ Fails(p)

\* ValidateInputFile: xmllint reads the file, and may find it invalid.
Validate(p) ==
    /\ pc[p] = "validate"
    /\ input # Empty
    /\ Goto(p, "read")
    /\ UNCHANGED <<setup, holder, input, tree, tool, output, interface, kills>>

ValidationFails(p) == pc[p] = "validate" /\ Fails(p)

Read(p) ==
    /\ pc[p] = "read"
    /\ input # Empty
    /\ tree' = [tree EXCEPT ![p] = input]
    /\ Goto(p, "construct")
    /\ UNCHANGED <<setup, holder, input, tool, output, interface, kills>>

\* read_xml throws what nobody catches, as get does for a value that is missing.
ReadFails(p) == pc[p] = "read" /\ Fails(p)


\* CreateTool, and CreateModel before the first of them.
Construct(p) ==
    /\ pc[p] = "construct"
    /\ tool' = [tool EXCEPT ![p] = @ + 1]
    /\ Goto(p, IF p \in locking THEN "rewrite" ELSE "task")
    /\ UNCHANGED <<setup, holder, input, tree, output, interface, kills>>

ConstructFails(p) == pc[p] = "construct" /\ Fails(p)

\* write_xml opens the input file.
BeginWrite(p) ==
    /\ pc[p] = "rewrite"
    /\ input' = Empty
    /\ Goto(p, "writing")
    /\ UNCHANGED <<setup, holder, tree, tool, output, interface, kills>>

EndWrite(p) ==
    /\ pc[p] = "writing"
    /\ input' = tree[p]
    /\ Goto(p, "unlock")
    /\ UNCHANGED <<setup, holder, tree, tool, output, interface, kills>>

\* It cannot open the file, which stays as it was, or not write it to its end.
WriteFails(p) ==
    /\ pc[p] \in {"rewrite", "writing"}
    /\ Dies(p, IF pc[p] = "writing" THEN "failedWriting" ELSE "failed")
    /\ UNCHANGED <<setup, input, tree, tool, output, interface, kills>>

Unlock(p) ==
    /\ pc[p] = "unlock"
    /\ holder = p
    /\ holder' = Free
    /\ Goto(p, "task")
    /\ UNCHANGED <<setup, input, tree, tool, output, interface, kills>>

\* A scoped_lock that does not own its lock throws what nobody catches.
UnlockFails(p) == pc[p] = "unlock" /\ holder # p /\ Fails(p)

\* put_child replaces the description of an earlier tool of the same type.
OutputWith(p) == [output[p] EXCEPT ![tools[tool[p]]] = tool[p]]

\* Mutant: the input file is written back after the tool.
TaskRewrites(p) ==
    /\ pc[p] = "task"
    /\ tree' = [tree EXCEPT ![p] = tool[p]]
    /\ output' = [output EXCEPT ![p] = OutputWith(p)]
    /\ Goto(p, "rewrite")
    /\ UNCHANGED <<setup, holder, input, tool, interface, kills>>

\* PerformTask, and then the description of the model and the tool.  The
\* parameters write their values into the input tree, which they refer to.
Task(p) ==
    /\ pc[p] = "task"
    /\ tree' = [tree EXCEPT ![p] = tool[p]]
    /\ output' = [output EXCEPT ![p] = OutputWith(p)]
    /\ Goto(p, IF tool[p] < Len(tools) THEN "construct" ELSE "terminate")
    /\ UNCHANGED <<setup, holder, input, tool, interface, kills>>

TaskFails(p) == pc[p] = "task" /\ Fails(p)

\* TerminateFittino: write_xml opens the interface file, and writes it.
Terminate(p) ==
    /\ pc[p] = "terminate"
    /\ interface' = [interface EXCEPT ![p] = Empty]
    /\ Goto(p, "handOver")
    /\ UNCHANGED <<setup, holder, input, tree, tool, output, kills>>

HandOver(p) ==
    /\ pc[p] = "handOver"
    /\ interface' = [interface EXCEPT ![p] = output[p]]
    /\ Dies(p, "ended")
    /\ UNCHANGED <<setup, input, tree, tool, output, kills>>

TerminateFails(p) == pc[p] \in {"terminate", "handOver"} /\ Fails(p)

\* A signal from outside.
Kill(p) ==
    /\ pc[p] \notin Ended
    /\ kills < MaxKills
    /\ kills' = kills + 1
    /\ Dies(p, IF pc[p] = "writing" THEN "killedWriting" ELSE "killed")
    /\ UNCHANGED <<setup, input, tree, tool, output, interface>>

Step(p) ==
    \/ Start(p)
    \/ WrongOptions(p)
    \/ Lock(p)
    \/ LockFails(p)
    \/ Validate(p)
    \/ ValidationFails(p)
    \/ Read(p)
    \/ ReadFails(p)
    \/ Construct(p)
    \/ ConstructFails(p)
    \/ BeginWrite(p)
    \/ EndWrite(p)
    \/ WriteFails(p)
    \/ Unlock(p)
    \/ UnlockFails(p)
    \/ Task(p)
    \/ TaskFails(p)
    \/ Terminate(p)
    \/ HandOver(p)
    \/ TerminateFails(p)

AllEnded == (\A p \in Procs : pc[p] \in Ended) /\ UNCHANGED vars

Init ==
    /\ tools \in ToolLists
    /\ locking \in LockingSets
    /\ pc = [p \in Procs |-> "off"]
    /\ holder = Free
    /\ input = 0
    /\ tree = [p \in Procs |-> 0]
    /\ tool = [p \in Procs |-> 0]
    /\ output = [p \in Procs |-> [t \in Types |-> NoTool]]
    /\ interface = [p \in Procs |-> [t \in Types |-> NoTool]]
    /\ kills = 0

Next ==
    \/ \E p \in Procs : Step(p) \/ Kill(p)
    \/ AllEnded

Spec == Init /\ [][Next]_vars
FairSpec == Spec /\ \A p \in Procs : WF_vars(Step(p))

-----------------------------------------------------------------------------
\* With every process locking, whoever finds the input file truncated finds what
\* a process left that was killed, or threw, in the middle of writing it: nobody
\* reads the file while another process writes it.
LockProtects ==
    locking = Procs =>
        \A p \in Procs :
            pc[p] \in {"validate", "read"} /\ input = Empty =>
                /\ \E q \in Procs : pc[q] \in BrokenWrite
                /\ \A q \in Procs : pc[q] # "writing"

\* The loop over the tools writes the file once per tool and gives the lock back
\* once: what the lock protects it protects for input files with one tool.
OnlyBrokenWritesTear == Len(tools) = 1 => LockProtects

\* A process that rewrites the file puts back what it and everyone else has
\* read: the values of a fit in progress never become the user's input.
InputIsTheUsers == locking = Procs /\ Len(tools) = 1 => input \in {0, Empty}

=============================================================================
