------------------------------ MODULE Executor ------------------------------
(***************************************************************************)
(* kernel/src/Executor.cpp: a calculator runs an external program in a     *)
(* child process.  A pipe tells the parent whether the program could be    *)
(* executed: its write end closes on exec, so end of file means success    *)
(* and an integer means that the child gave up.  Both waits have timeouts. *)
(*                                                                         *)
(* Execute is called MaxCalls times, one call after the other; a call, its *)
(* child and its pipe have the same number.  The parent, the child of the  *)
(* call and every child an earlier call has left behind take their steps   *)
(* in any order.  A system call may fail up to MaxFaults times.            *)
(***************************************************************************)
EXTENDS Naturals, FiniteSets

CONSTANTS
    MaxCalls,          \* bound: calls of Execute
    MaxFaults,         \* bound: system calls that fail, signals from outside
    Timed,             \* the calls with a creation timeout (_creationTimeout # NULL)
    CompletionPolls,   \* the completion timeout in turns of Wait; 0: none
    ExitCodes          \* what the program may exit with

ASSUME ExecutorAssumption ==
    /\ MaxCalls \in Nat
    /\ MaxFaults \in Nat
    /\ Timed \subseteq 1 .. MaxCalls
    /\ CompletionPolls \in Nat
    /\ ExitCodes \subseteq Nat
    /\ 0 \in ExitCodes

VARIABLES
    call,       \* the number of the present or last call
    pc,         \* where the parent is
    polls,      \* counter of Wait
    outcome,    \* how each call ended
    reads,      \* calls whose read end the parent has open
    writes,     \* calls whose write end the parent has open
    child,      \* the state of the child of each call
    status,     \* the status each child terminated with
    childReads, \* children that have their copy of the read end open
    childWrites,\* children that have their copy of the write end open
    message,    \* calls whose pipe holds an error
    execed,     \* children that became the program
    lost,       \* children that could not report that they gave up
    faults      \* failures so far

parentVars == <<call, pc, polls, outcome, reads, writes>>
childVars == <<child, status, childReads, childWrites, message, execed, lost>>
vars == <<parentVars, childVars, faults>>

Calls == 1 .. MaxCalls
Preparing == {"closeRead", "setFlags", "exec", "report", "closeWrite", "exit"}
Alive == Preparing \cup {"program"}

NotEnded == [kind |-> "none", rc |-> 0]
Returned(rc) == [kind |-> "returned", rc |-> rc]
Threw == [kind |-> "threw", rc |-> 0]           \* rethrown after the clean-up
Abandoned == [kind |-> "abandoned", rc |-> 0]   \* the clean-up itself failed
Unstarted == [kind |-> "unstarted", rc |-> 0]   \* there never was a child

Signal == [by |-> "signal", code |-> 0]
Exit(c) == [by |-> "exit", code |-> c]

Outcomes == [kind : {"none", "returned", "threw", "abandoned", "unstarted"}, rc : ExitCodes]
Statuses == [by : {"none", "signal", "exit"}, code : ExitCodes]

TypeOK ==
    /\ call \in 0 .. MaxCalls
    /\ pc \in {"idle", "fork", "closeWrite", "select", "read", "wait", "closeRead",
               "abortClose", "abortKill", "abortWait"}
    /\ polls \in Nat
    /\ outcome \in [Calls -> Outcomes]
    /\ reads \subseteq Calls
    /\ writes \subseteq Calls
    /\ child \in [Calls -> {"none", "zombie", "reaped"} \cup Alive]
    /\ status \in [Calls -> Statuses]
    /\ childReads \subseteq Calls
    /\ childWrites \subseteq Calls
    /\ message \subseteq Calls
    /\ execed \subseteq Calls
    /\ lost \subseteq Calls
    /\ faults \in 0 .. MaxFaults

-----------------------------------------------------------------------------
Fault == faults < MaxFaults /\ faults' = faults + 1

\* An exception that leaves Execute, or the return of it.
End(how) ==
    /\ outcome' = [outcome EXCEPT ![call] = how]
    /\ pc' = "idle"

\* A terminated process: its descriptors are closed.
Terminates(k, how) ==
    /\ child' = [child EXCEPT ![k] = "zombie"]
    /\ status' = [status EXCEPT ![k] = how]
    /\ childReads' = childReads \ {k}
    /\ childWrites' = childWrites \ {k}

Zombie(k) == child[k] = "zombie"
Unreaped == {k \in Calls : child[k] \in Alive \cup {"zombie"}}

\* pselect reports the read end: an error is there, or nobody can write one.
Readable(k) == k \in message \/ k \notin childWrites \cup writes

\* The open descriptors after a close of k that failed: POSIX leaves it open
\* whether k was closed.
MaybeClosed(new, old, k) == new = old \/ new = old \ {k}

-----------------------------------------------------------------------------
\* Execute, up to fork.
Pipe ==
    /\ pc = "idle"
    /\ call < MaxCalls
    /\ call' = call + 1
    /\ polls' = 0
    /\ \/ /\ reads' = reads \cup {call'}
          /\ writes' = writes \cup {call'}
          /\ pc' = "fork"
          /\ UNCHANGED <<outcome, faults>>
       \/ /\ Fault
          /\ outcome' = [outcome EXCEPT ![call'] = Unstarted]
          /\ UNCHANGED <<pc, reads, writes>>
    /\ UNCHANGED childVars

\* The switch on the result of fork.
Fork ==
    /\ pc = "fork"
    /\ \/ /\ child' = [child EXCEPT ![call] = "closeRead"]
          /\ childReads' = childReads \cup {call}
          /\ childWrites' = childWrites \cup {call}
          /\ pc' = "closeWrite"
          /\ UNCHANGED <<outcome, faults>>
       \/ /\ Fault
          /\ End(Unstarted)
          /\ UNCHANGED <<child, childReads, childWrites>>
    /\ UNCHANGED <<call, polls, reads, writes, status, message, execed, lost>>

\* The first close of Parent.
CloseWrite ==
    /\ pc = "closeWrite"
    /\ \/ writes' = writes \ {call} /\ pc' = "select" /\ UNCHANGED faults
       \/ MaybeClosed(writes', writes, call) /\ pc' = "abortClose" /\ Fault
    /\ UNCHANGED <<call, polls, outcome, reads, childVars>>

\* The switch on the result of pselect.
Select ==
    /\ pc = "select"
    /\ \/ Readable(call) /\ pc' = "read" /\ UNCHANGED faults
       \/ call \in Timed /\ ~Readable(call) /\ pc' = "abortClose" /\ UNCHANGED faults
       \/ pc' = "abortClose" /\ Fault
    /\ UNCHANGED <<call, polls, outcome, reads, writes, childVars>>

\* Mutant: whatever can be read, the program is taken to run.
ReadAnything ==
    /\ pc = "read"
    /\ pc' = "wait"
    /\ UNCHANGED <<call, polls, outcome, reads, writes, childVars, faults>>

\* Read, up to the call of Wait.
Read ==
    /\ pc = "read"
    /\ \/ call \notin message /\ pc' = "wait" /\ UNCHANGED faults
       \/ call \in message /\ pc' = "abortClose" /\ UNCHANGED faults
       \/ pc' = "abortClose" /\ Fault
    /\ UNCHANGED <<call, polls, outcome, reads, writes, childVars>>

MayPoll == CompletionPolls = 0 \/ polls < CompletionPolls

\* One turn of the loop of Wait that finds the child terminated.
WaitReaps ==
    /\ pc = "wait"
    /\ MayPoll
    /\ Zombie(call)
    /\ child' = [child EXCEPT ![call] = "reaped"]
    /\ pc' = IF status[call].by = "exit" THEN "closeRead" ELSE "abortClose"
    /\ UNCHANGED <<call, polls, outcome, reads, writes, status, childReads, childWrites,
                   message, execed, lost, faults>>

\* One turn that does not: sleep and count, or fail in waitpid or usleep.
WaitSleeps ==
    /\ pc = "wait"
    /\ MayPoll
    /\ \/ /\ ~Zombie(call)
          /\ polls' = IF CompletionPolls = 0 THEN polls ELSE polls + 1
          /\ UNCHANGED <<pc, faults>>
       \/ Fault /\ pc' = "abortClose" /\ UNCHANGED polls
    /\ UNCHANGED <<call, outcome, reads, writes, childVars>>

\* The end of the loop: the completion timeout.
WaitTimesOut ==
    /\ pc = "wait"
    /\ ~MayPoll
    /\ pc' = "abortClose"
    /\ UNCHANGED <<call, polls, outcome, reads, writes, childVars, faults>>

\* Mutant: the read end stays open.
CloseReadNot ==
    /\ pc = "closeRead"
    /\ End(Returned(status[call].code))
    /\ UNCHANGED <<call, polls, reads, writes, childVars, faults>>

\* The close after the try block.  When it fails the exception leaves Execute.
CloseRead ==
    /\ pc = "closeRead"
    /\ \/ /\ reads' = reads \ {call}
          /\ End(Returned(status[call].code))
          /\ UNCHANGED faults
       \/ /\ MaybeClosed(reads', reads, call)
          /\ End(Abandoned)
          /\ Fault
    /\ UNCHANGED <<call, polls, writes, childVars>>

\* The handler of Parent: close, kill, waitpid, rethrow.  An exception thrown
\* in it leaves Execute with the rest not done.
AbortClose ==
    /\ pc = "abortClose"
    /\ \/ /\ reads' = reads \ {call}
          /\ pc' = "abortKill"
          /\ UNCHANGED <<outcome, faults>>
       \/ /\ MaybeClosed(reads', reads, call)
          /\ End(Abandoned)
          /\ Fault
    /\ UNCHANGED <<call, polls, writes, childVars>>

\* Mutant: the handler does not kill the child.
AbortKillNobody ==
    /\ pc = "abortKill"
    /\ pc' = "abortWait"
    /\ UNCHANGED <<call, polls, outcome, reads, writes, childVars, faults>>

\* A zombie takes the signal without effect; a reaped child is ESRCH.
AbortKill ==
    /\ pc = "abortKill"
    /\ \/ /\ child[call] \in Alive
          /\ Terminates(call, Signal)
          /\ pc' = "abortWait"
          /\ UNCHANGED <<outcome, faults>>
       \/ /\ child[call] \notin Alive
          /\ pc' = "abortWait"
          /\ UNCHANGED <<outcome, faults, child, status, childReads, childWrites>>
       \/ /\ End(Abandoned)
          /\ Fault
          /\ UNCHANGED <<child, status, childReads, childWrites>>
    /\ UNCHANGED <<call, polls, reads, writes, message, execed, lost>>

\* Mutant: the handler does not wait for the child.
AbortWaitNot ==
    /\ pc = "abortWait"
    /\ End(Threw)
    /\ UNCHANGED <<call, polls, reads, writes, childVars, faults>>

\* waitpid( -1 ) takes any child: it blocks while some run and none has ended.
AbortWait ==
    /\ pc = "abortWait"
    /\ \/ /\ \E k \in Calls : Zombie(k) /\ child' = [child EXCEPT ![k] = "reaped"]
          /\ End(Threw)
          /\ UNCHANGED faults
       \/ /\ Unreaped = {}
          /\ End(Threw)
          /\ UNCHANGED <<child, faults>>
       \/ /\ End(Abandoned)
          /\ Fault
          /\ UNCHANGED child
    /\ UNCHANGED <<call, polls, reads, writes, status, childReads, childWrites, message,
                   execed, lost>>

-----------------------------------------------------------------------------
\* Child, one step per system call; every failure leads to the report.
ChildCloseRead(k) ==
    /\ child[k] = "closeRead"
    /\ \/ /\ childReads' = childReads \ {k}
          /\ child' = [child EXCEPT ![k] = "setFlags"]
          /\ UNCHANGED faults
       \/ /\ MaybeClosed(childReads', childReads, k)
          /\ child' = [child EXCEPT ![k] = "report"]
          /\ Fault
    /\ UNCHANGED <<parentVars, status, childWrites, message, execed, lost>>

ChildSetFlags(k) ==
    /\ child[k] = "setFlags"
    /\ \/ child' = [child EXCEPT ![k] = "exec"] /\ UNCHANGED faults
       \/ child' = [child EXCEPT ![k] = "report"] /\ Fault
    /\ UNCHANGED <<parentVars, status, childReads, childWrites, message, execed, lost>>

\* Mutant: the write end stays open in the program.
ChildExecInherits(k) ==
    /\ child[k] = "exec"
    /\ child' = [child EXCEPT ![k] = "program"]
    /\ execed' = execed \cup {k}
    /\ UNCHANGED <<parentVars, status, childReads, childWrites, message, lost, faults>>

\* execv closes the write end.  That it fails, because the file is not a
\* program or the memory is short, is nothing out of the ordinary.
ChildExec(k) ==
    /\ child[k] = "exec"
    /\ \/ /\ child' = [child EXCEPT ![k] = "program"]
          /\ childWrites' = childWrites \ {k}
          /\ execed' = execed \cup {k}
       \/ /\ child' = [child EXCEPT ![k] = "report"]
          /\ UNCHANGED <<childWrites, execed>>
    /\ UNCHANGED <<parentVars, status, childReads, message, lost, faults>>

\* write: nobody can read is SIGPIPE, and a failure is only printed.
ChildReport(k) ==
    /\ child[k] = "report"
    /\ \/ /\ k \in reads \cup childReads
          /\ message' = message \cup {k}
          /\ child' = [child EXCEPT ![k] = "closeWrite"]
          /\ UNCHANGED <<status, childReads, childWrites, lost, faults>>
       \/ /\ k \notin reads \cup childReads
          /\ Terminates(k, Signal)
          /\ UNCHANGED <<message, lost, faults>>
       \/ /\ child' = [child EXCEPT ![k] = "closeWrite"]
          /\ lost' = lost \cup {k}
          /\ Fault
          /\ UNCHANGED <<status, childReads, childWrites, message>>
    /\ UNCHANGED <<parentVars, execed>>

\* A close that fails is only printed; _exit closes what is left.
ChildCloseWrite(k) ==
    /\ child[k] = "closeWrite"
    /\ childWrites' = childWrites \ {k}
    /\ child' = [child EXCEPT ![k] = "exit"]
    /\ UNCHANGED <<parentVars, status, childReads, message, execed, lost, faults>>

ChildExit(k) ==
    /\ child[k] = "exit"
    /\ Terminates(k, Exit(0))
    /\ UNCHANGED <<parentVars, message, execed, lost, faults>>

\* The program ends, if it does.
ProgramExit(k) ==
    /\ child[k] = "program"
    /\ \E c \in ExitCodes : Terminates(k, Exit(c))
    /\ UNCHANGED <<parentVars, message, execed, lost, faults>>

\* The child dies of a signal from elsewhere.  Before execv the parent sees the
\* same end of file as after it.
ChildKilled(k) ==
    /\ child[k] \in Alive
    /\ Terminates(k, Signal)
    /\ Fault
    /\ UNCHANGED <<parentVars, message, execed, lost>>

ChildStep(k) ==
    \/ ChildCloseRead(k)
    \/ ChildSetFlags(k)
    \/ ChildExec(k)
    \/ ChildReport(k)
    \/ ChildCloseWrite(k)
    \/ ChildExit(k)

ParentStep ==
    \/ Fork
    \/ CloseWrite
    \/ Select
    \/ Read
    \/ WaitReaps
    \/ WaitSleeps
    \/ WaitTimesOut
    \/ CloseRead
    \/ AbortClose
    \/ AbortKill
    \/ AbortWait

\* The last call has ended.
Finished == pc = "idle" /\ call = MaxCalls /\ UNCHANGED vars

Init ==
    /\ call = 0
    /\ pc = "idle"
    /\ polls = 0
    /\ outcome = [k \in Calls |-> NotEnded]
    /\ reads = {}
    /\ writes = {}
    /\ child = [k \in Calls |-> "none"]
    /\ status = [k \in Calls |-> [by |-> "none", code |-> 0]]
    /\ childReads = {}
    /\ childWrites = {}
    /\ message = {}
    /\ execed = {}
    /\ lost = {}
    /\ faults = 0

Next ==
    \/ Pipe
    \/ ParentStep
    \/ \E k \in Calls : ChildStep(k) \/ ProgramExit(k) \/ ChildKilled(k)
    \/ Finished

Spec == Init /\ [][Next]_vars

\* The scheduler runs the parent, and a child up to execv; nothing makes the
\* program end, and no system call has to fail.  A turn of Wait that finds the
\* child dead is a turn of the same loop and needs no fairness of its own.
FairSpec ==
    /\ Spec
    /\ WF_vars(ParentStep /\ UNCHANGED faults)
    /\ \A k \in Calls : WF_vars(ChildStep(k) /\ UNCHANGED faults)

-----------------------------------------------------------------------------
Ended(k) == k < call \/ (k = call /\ pc = "idle")
AbandonedCalls == {k \in Calls : outcome[k].kind = "abandoned"}

\* What Execute returns is what the program exited with.  One way remains to
\* take a failed execv for a program that exits with 0: the child could not
\* write its error either, which it only prints.
ReturnIsOfProgram ==
    \A k \in Calls :
        outcome[k].kind = "returned" =>
            /\ status[k] = Exit(outcome[k].rc)
            /\ k \in execed \cup lost

\* A call that ended, in whatever way but a failure of its own clean-up, leaves
\* no process of its own running: after a timeout there is nothing that goes on
\* writing files the next call reads.
NothingKeepsRunning ==
    \A k \in Calls : Ended(k) /\ k \notin AbandonedCalls => child[k] \notin Alive

\* The children nobody has waited for are no more than the calls whose clean-up
\* failed.  They need not be the same ones: the handler waits for any child.
OrphansAreAccounted ==
    Cardinality({k \in Unreaped : Ended(k)}) <= Cardinality(AbandonedCalls)

\* Between two calls only failed system calls have left descriptors open, and
\* of the read ends only a failed fork or a failed clean-up.
DescriptorsReturned ==
    pc = "idle" =>
        /\ faults = 0 => reads = {} /\ writes = {}
        /\ \A k \in reads : outcome[k].kind \in {"abandoned", "unstarted"}

\* With a completion timeout every call ends, whatever the program does; the
\* exception is a handler that waits for a program an abandoned call left.
CallEnds ==
    (pc # "idle") ~> \/ pc = "idle"
                     \/ pc = "abortWait" /\ \E k \in AbandonedCalls : child[k] = "program"
=============================================================================
