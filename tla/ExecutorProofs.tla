--------------------------- MODULE ExecutorProofs ---------------------------
(***************************************************************************)
(* What holds of Executor for every number of calls and of failures, with  *)
(* and without timeouts.                                                   *)
(***************************************************************************)
EXTENDS Executor, FiniteSetTheorems, TLAPS

USE ExecutorAssumption

\* A call is under way whenever the parent is not idle.
CallStarted == pc # "idle" => call \in Calls
TypeInv == TypeOK /\ CallStarted

\* The types are kept by every step, of the parent and of the children.
LEMMA TypeInvariant == Spec => []TypeInv
<1>1. Init => TypeInv
  BY DEF Init, NotEnded, TypeInv, CallStarted, TypeOK, Outcomes, Statuses
<1>2. TypeInv /\ [Next]_vars => TypeInv'
  <2> SUFFICES ASSUME TypeInv, [Next]_vars
               PROVE  TypeInv'
    OBVIOUS
  <2> USE DEF TypeInv, CallStarted, TypeOK, Calls, Alive, Preparing,
              parentVars, childVars, Fault, End, MaybeClosed
  <2>0. ASSUME NEW k \in Calls, NEW how \in Outcomes
        PROVE  [outcome EXCEPT ![k] = how] \in [Calls -> Outcomes]
    OBVIOUS
  <2>a. Unstarted \in Outcomes /\ Threw \in Outcomes /\ Abandoned \in Outcomes
    BY DEF Unstarted, Threw, Abandoned, Outcomes
  <2>b. Signal \in Statuses /\ \A c \in ExitCodes : Exit(c) \in Statuses
    BY DEF Signal, Exit, Statuses
  <2>1. CASE Pipe
    <3>1. call' \in Calls /\ faults' \in 0 .. MaxFaults
      BY <2>1 DEF Pipe
    <3>2. reads' \subseteq Calls
      BY <2>1, <3>1 DEF Pipe
    <3>3. writes' \subseteq Calls
      BY <2>1, <3>1 DEF Pipe
    <3>4. outcome' \in [Calls -> Outcomes]
      BY <2>0, <2>1, <2>a, <3>1 DEF Pipe
    <3>5. pc' \in {"idle", "fork"} /\ polls' = 0 /\ UNCHANGED childVars
      BY <2>1 DEF Pipe
    <3> QED
      BY <3>1, <3>2, <3>3, <3>4, <3>5
  <2>2. CASE Fork
    <3>1. faults' \in 0 .. MaxFaults /\ pc' \in {"closeWrite", "idle"} /\ call \in Calls
      BY <2>2 DEF Fork
    <3>2. child' \in [Calls -> {"none", "zombie", "reaped"} \cup Alive]
      BY <2>2 DEF Fork
    <3>3. childReads' \subseteq Calls
      BY <2>2 DEF Fork
    <3>4. childWrites' \subseteq Calls
      BY <2>2 DEF Fork
    <3>5. outcome' \in [Calls -> Outcomes]
      BY <2>0, <2>2, <2>a, <3>1 DEF Fork
    <3>6. UNCHANGED <<call, polls, reads, writes, status, message, execed, lost>>
      BY <2>2 DEF Fork
    <3> QED
      BY <3>1, <3>2, <3>3, <3>4, <3>5, <3>6
  <2>3. CASE CloseWrite
    <3>1. faults' \in 0 .. MaxFaults /\ pc' \in {"select", "abortClose"} /\ call \in Calls
      BY <2>3 DEF CloseWrite
    <3>2. writes' \subseteq Calls
      BY <2>3 DEF CloseWrite
    <3>3. UNCHANGED <<call, polls, outcome, reads, childVars>>
      BY <2>3 DEF CloseWrite
    <3> QED
      BY <3>1, <3>2, <3>3
  <2>4. CASE Select
    BY <2>4 DEF Select
  <2>5. CASE Read
    BY <2>5 DEF Read
  <2>6. CASE WaitReaps
    BY <2>6 DEF WaitReaps
  <2>7. CASE WaitSleeps
    BY <2>7 DEF WaitSleeps
  <2>8. CASE WaitTimesOut
    BY <2>8 DEF WaitTimesOut
  <2>9. CASE CloseRead
    <3>1. faults' \in 0 .. MaxFaults /\ pc' = "idle"
      BY <2>9 DEF CloseRead
    <3>2. reads' \subseteq Calls
      BY <2>9 DEF CloseRead
    <3>3. call \in Calls /\ Returned(status[call].code) \in Outcomes
      BY <2>9 DEF CloseRead, Returned, Outcomes, Statuses
    <3>4. outcome' \in [Calls -> Outcomes]
      BY <2>0, <2>9, <2>a, <3>3 DEF CloseRead
    <3>5. UNCHANGED <<call, polls, writes, childVars>>
      BY <2>9 DEF CloseRead
    <3> QED
      BY <3>1, <3>2, <3>4, <3>5
  <2>10. CASE AbortClose
    <3>1. faults' \in 0 .. MaxFaults /\ pc' \in {"abortKill", "idle"} /\ call \in Calls
      BY <2>10 DEF AbortClose
    <3>2. reads' \subseteq Calls
      BY <2>10 DEF AbortClose
    <3>3. outcome' \in [Calls -> Outcomes]
      BY <2>0, <2>10, <2>a, <3>1 DEF AbortClose
    <3>4. UNCHANGED <<call, polls, writes, childVars>>
      BY <2>10 DEF AbortClose
    <3> QED
      BY <3>1, <3>2, <3>3, <3>4
  <2>11. CASE AbortKill
    <3>1. faults' \in 0 .. MaxFaults /\ pc' \in {"abortWait", "idle"} /\ call \in Calls
      BY <2>11 DEF AbortKill
    <3>2. child' \in [Calls -> {"none", "zombie", "reaped"} \cup Alive]
      BY <2>11 DEF AbortKill, Terminates
    <3>3. status' \in [Calls -> Statuses]
      BY <2>11, <2>b DEF AbortKill, Terminates
    <3>4. childReads' \subseteq Calls /\ childWrites' \subseteq Calls
      BY <2>11 DEF AbortKill, Terminates
    <3>5. outcome' \in [Calls -> Outcomes]
      BY <2>0, <2>11, <2>a, <3>1 DEF AbortKill
    <3>6. UNCHANGED <<call, polls, reads, writes, message, execed, lost>>
      BY <2>11 DEF AbortKill
    <3> QED
      BY <3>1, <3>2, <3>3, <3>4, <3>5, <3>6
  <2>12. CASE AbortWait
    <3>1. faults' \in 0 .. MaxFaults /\ pc' = "idle" /\ call \in Calls
      BY <2>12 DEF AbortWait
    <3>2. child' \in [Calls -> {"none", "zombie", "reaped"} \cup Alive]
      BY <2>12 DEF AbortWait
    <3>3. outcome' \in [Calls -> Outcomes]
      BY <2>0, <2>12, <2>a, <3>1 DEF AbortWait
    <3>4. UNCHANGED <<call, polls, reads, writes, status, childReads, childWrites, message,
                      execed, lost>>
      BY <2>12 DEF AbortWait
    <3> QED
      BY <3>1, <3>2, <3>3, <3>4
  <2>13. ASSUME NEW k \in Calls, ChildStep(k)
         PROVE  TypeInv'
    <3>1. CASE ChildCloseRead(k)
      <4>1. faults' \in 0 .. MaxFaults
        BY <3>1 DEF ChildCloseRead
      <4>2. child' \in [Calls -> {"none", "zombie", "reaped"} \cup Alive]
        BY <3>1 DEF ChildCloseRead
      <4>3. childReads' \subseteq Calls
        BY <3>1 DEF ChildCloseRead
      <4>4. UNCHANGED <<parentVars, status, childWrites, message, execed, lost>>
        BY <3>1 DEF ChildCloseRead
      <4> QED
        BY <4>1, <4>2, <4>3, <4>4
    <3>2. CASE ChildSetFlags(k)
      BY <3>2 DEF ChildSetFlags
    <3>3. CASE ChildExec(k)
      BY <3>3 DEF ChildExec
    <3>4. CASE ChildReport(k)
      <4>1. faults' \in 0 .. MaxFaults
        BY <3>4 DEF ChildReport
      <4>2. child' \in [Calls -> {"none", "zombie", "reaped"} \cup Alive]
        BY <3>4 DEF ChildReport, Terminates
      <4>3. status' \in [Calls -> Statuses]
        BY <2>b, <3>4 DEF ChildReport, Terminates
      <4>4. childReads' \subseteq Calls
        BY <3>4 DEF ChildReport, Terminates
      <4>7. childWrites' \subseteq Calls
        BY <3>4 DEF ChildReport, Terminates
      <4>8. message' \subseteq Calls
        BY <3>4 DEF ChildReport
      <4>5. lost' \subseteq Calls
        BY <3>4 DEF ChildReport
      <4>6. UNCHANGED <<parentVars, execed>>
        BY <3>4 DEF ChildReport
      <4> QED
        BY <4>1, <4>2, <4>3, <4>4, <4>5, <4>6, <4>7, <4>8
    <3>5. CASE ChildCloseWrite(k)
      BY <3>5 DEF ChildCloseWrite
    <3>6. CASE ChildExit(k)
      BY <2>b, <3>6 DEF ChildExit, Terminates
    <3> QED
      BY <2>13, <3>1, <3>2, <3>3, <3>4, <3>5, <3>6 DEF ChildStep
  <2>14. ASSUME NEW k \in Calls, ProgramExit(k)
         PROVE  TypeInv'
    BY <2>14, <2>b DEF ProgramExit, Terminates
  <2>15. ASSUME NEW k \in Calls, ChildKilled(k)
         PROVE  TypeInv'
    BY <2>15, <2>b DEF ChildKilled, Terminates
  <2>16. CASE UNCHANGED vars
    BY <2>16 DEF vars
  <2> QED
    BY <2>1, <2>2, <2>3, <2>4, <2>5, <2>6, <2>7, <2>8, <2>9, <2>10, <2>11,
       <2>12, <2>13, <2>14, <2>15, <2>16 DEF Next, ParentStep, Finished
<1> QED
  BY <1>1, <1>2, PTL DEF Spec

\* The variables of the parent and of the children always have their types.
THEOREM ExecutorTyping == Spec => []TypeOK
<1>1. TypeInv => TypeOK
  BY DEF TypeInv
<1> QED
  BY <1>1, TypeInvariant, PTL

-----------------------------------------------------------------------------
\* What a child does concerns a live child only, and neither the parent nor
\* another child.
LEMMA ChildMoves ==
    ASSUME TypeInv, NEW k \in Calls, ChildStep(k) \/ ProgramExit(k) \/ ChildKilled(k)
    PROVE  /\ child[k] \in Alive
           /\ \E new \in Alive \cup {"zombie"} : child' = [child EXCEPT ![k] = new]
           /\ UNCHANGED parentVars
<1> USE DEF TypeInv, TypeOK, Terminates, Alive, Preparing
<1>1. CASE ChildCloseRead(k)
  BY <1>1 DEF ChildCloseRead
<1>2. CASE ChildSetFlags(k)
  BY <1>2 DEF ChildSetFlags
<1>3. CASE ChildExec(k)
  BY <1>3 DEF ChildExec
<1>4. CASE ChildReport(k)
  BY <1>4 DEF ChildReport
<1>5. CASE ChildCloseWrite(k)
  BY <1>5 DEF ChildCloseWrite
<1>6. CASE ChildExit(k)
  BY <1>6 DEF ChildExit
<1>7. CASE ProgramExit(k)
  BY <1>7 DEF ProgramExit
<1>8. CASE ChildKilled(k)
  BY <1>8 DEF ChildKilled
<1> QED
  BY <1>1, <1>2, <1>3, <1>4, <1>5, <1>6, <1>7, <1>8 DEF ChildStep

\* A call that has not forked has no child; a call that is about to end without
\* failing has a dead one.
NoChildYet == \A k \in Calls : k > call \/ (k = call /\ pc = "fork") => child[k] = "none"
DeadAtTheEnd == pc \in {"closeRead", "abortWait"} => child[call] \notin Alive
RunInv == NoChildYet /\ DeadAtTheEnd /\ NothingKeepsRunning

\* The three of them are kept by every step.
LEMMA RunInvariant == Spec => []RunInv
<1>1. Init => RunInv
  BY DEF Init, RunInv, NoChildYet, DeadAtTheEnd, NothingKeepsRunning, Alive, Preparing
<1>2. TypeInv /\ RunInv /\ [Next]_vars => RunInv'
  <2> SUFFICES ASSUME TypeInv, RunInv, [Next]_vars
               PROVE  RunInv'
    OBVIOUS
  <2> USE DEF TypeInv, CallStarted, TypeOK, RunInv, NoChildYet, DeadAtTheEnd,
              NothingKeepsRunning, Ended, AbandonedCalls, End, Calls
  <2>0. "none" \notin Alive /\ "zombie" \notin Alive /\ "reaped" \notin Alive
    BY DEF Alive, Preparing
  <2>1. CASE Pipe
    <3>1. call' = call + 1 /\ child' = child /\ pc = "idle"
      BY <2>1 DEF Pipe, childVars
    <3>2. NoChildYet'
      BY <2>1, <3>1 DEF Pipe
    <3>3. pc' \in {"idle", "fork"}
      BY <2>1 DEF Pipe
    <3>4. \A k \in Calls : k < call' => outcome'[k] = outcome[k]
      BY <2>1, <3>1 DEF Pipe
    <3>5. child[call'] = "none"
      BY <2>1, <3>1 DEF Pipe
    <3>6. NothingKeepsRunning'
      BY <2>0, <3>1, <3>3, <3>4, <3>5
    <3> QED
      BY <3>2, <3>3, <3>6
  <2>2. CASE Fork
    <3>1. call' = call /\ call \in Calls /\ child[call] = "none"
      BY <2>2 DEF Fork
    <3>2. CASE pc' = "closeWrite" /\ child' = [child EXCEPT ![call] = "closeRead"]
                  /\ outcome' = outcome
      BY <2>2, <3>1, <3>2 DEF Fork
    <3>3. CASE pc' = "idle" /\ child' = child /\ outcome' = [outcome EXCEPT ![call] = Unstarted]
      BY <2>0, <2>2, <3>1, <3>3 DEF Fork
    <3> QED
      BY <2>2, <3>2, <3>3 DEF Fork
  <2>3. CASE CloseWrite
    BY <2>3 DEF CloseWrite, childVars
  <2>4. CASE Select
    BY <2>4 DEF Select, childVars
  <2>5. CASE Read
    BY <2>5 DEF Read, childVars
  <2>6. CASE WaitReaps
    <3>1. /\ call' = call /\ call \in Calls /\ outcome' = outcome
          /\ child' = [child EXCEPT ![call] = "reaped"] /\ pc' \in {"closeRead", "abortClose"}
      BY <2>6 DEF WaitReaps
    <3>2. child[call] # "none" /\ pc # "idle"
      BY <2>6 DEF WaitReaps, Zombie
    <3> QED
      BY <2>0, <3>1, <3>2
  <2>7. CASE WaitSleeps
    BY <2>7 DEF WaitSleeps, childVars
  <2>8. CASE WaitTimesOut
    BY <2>8 DEF WaitTimesOut, childVars
  <2>9. CASE CloseRead
    <3>1. call' = call /\ call \in Calls /\ child' = child /\ pc = "closeRead" /\ pc' = "idle"
      BY <2>9 DEF CloseRead, childVars
    <3>2. \A k \in Calls : k # call => outcome'[k] = outcome[k]
      BY <2>9 DEF CloseRead
    <3> QED
      BY <3>1, <3>2
  <2>10. CASE AbortClose
    <3>1. /\ call' = call /\ call \in Calls /\ child' = child /\ pc = "abortClose"
          /\ \/ pc' = "abortKill" /\ outcome' = outcome
             \/ pc' = "idle" /\ outcome' = [outcome EXCEPT ![call] = Abandoned]
      BY <2>10 DEF AbortClose, childVars
    <3> QED
      BY <3>1 DEF Abandoned
  <2>11. CASE AbortKill
    <3>1. call' = call /\ call \in Calls /\ pc = "abortKill"
      BY <2>11 DEF AbortKill
    <3>2. CASE /\ child' = [child EXCEPT ![call] = "zombie"] /\ child[call] \in Alive
               /\ pc' = "abortWait" /\ outcome' = outcome
      BY <2>0, <3>1, <3>2
    <3>3. CASE child' = child /\ child[call] \notin Alive /\ pc' = "abortWait" /\ outcome' = outcome
      BY <3>1, <3>3
    <3>4. CASE child' = child /\ pc' = "idle" /\ outcome' = [outcome EXCEPT ![call] = Abandoned]
      BY <3>1, <3>4 DEF Abandoned
    <3> QED
      BY <2>11, <3>2, <3>3, <3>4 DEF AbortKill, Terminates
  <2>12. CASE AbortWait
    <3>1. call' = call /\ call \in Calls /\ pc = "abortWait" /\ pc' = "idle"
      BY <2>12 DEF AbortWait
    <3>2. \A k \in Calls : k # call => outcome'[k] = outcome[k]
      BY <2>12 DEF AbortWait
    <3>3. \A k \in Calls : child'[k] = child[k] \/ (child[k] = "zombie" /\ child'[k] = "reaped")
      BY <2>12 DEF AbortWait, Zombie
    <3> QED
      BY <2>0, <3>1, <3>2, <3>3
  <2>13. ASSUME NEW k \in Calls, ChildStep(k) \/ ProgramExit(k) \/ ChildKilled(k)
         PROVE  RunInv'
    <3>1. child[k] \in Alive /\ call' = call /\ pc' = pc /\ outcome' = outcome
      BY <2>13, ChildMoves DEF parentVars
    <3>2. \A j \in Calls : j # k => child'[j] = child[j]
      BY <2>13, ChildMoves
    <3> QED
      BY <2>0, <3>1, <3>2
  <2>14. CASE UNCHANGED vars
    BY <2>14 DEF vars, parentVars, childVars
  <2> QED
    BY <2>1, <2>2, <2>3, <2>4, <2>5, <2>6, <2>7, <2>8, <2>9, <2>10, <2>11,
       <2>12, <2>13, <2>14 DEF Next, ParentStep, Finished
<1> QED
  BY <1>1, <1>2, TypeInvariant, PTL DEF Spec

\* After a call, whatever its outcome but a failed clean-up, its process does
\* not run any more: Execute never leaves a program behind.
THEOREM NothingRuns == Spec => []NothingKeepsRunning
<1>1. RunInv => NothingKeepsRunning
  BY DEF RunInv
<1> QED
  BY <1>1, RunInvariant, PTL

-----------------------------------------------------------------------------
\* What each child has told, and what the parent may conclude.  Until a child has
\* either become the program or reported, its copy of the write end is open; so
\* a parent that reads end of file will never be told of a failure.
Silent(k) == k \notin message /\ k \notin execed
Told(k) ==
    /\ child[k] = "none" => Silent(k)
    /\ child[k] \in {"closeRead", "setFlags", "exec", "report"} => Silent(k) /\ k \in childWrites
    /\ child[k] \in {"closeWrite", "exit"} => k \in message \cup lost
    /\ child[k] = "program" => k \in execed
    /\ child[k] \in {"zombie", "reaped"} /\ status[k].by = "exit" =>
          k \in message \cup lost \cup execed
ReturnIsRight(k) ==
    outcome[k].kind = "returned" =>
        /\ child[k] = "reaped"
        /\ status[k] = Exit(outcome[k].rc)
        /\ k \in execed \cup lost
ParentKnows ==
    /\ pc = "read" => Readable(call)
    /\ pc = "wait" => call \notin message /\ call \notin childWrites
    /\ pc = "closeRead" => /\ call \notin message
                          /\ child[call] = "reaped"
                          /\ status[call].by = "exit"
TellInv == ParentKnows /\ (\A k \in Calls : Told(k)) /\ (\A k \in Calls : ReturnIsRight(k))

\* What a child does keeps what it has told in order, and takes nothing back the
\* parent has read.
LEMMA ChildTells ==
    ASSUME TypeInv, NEW k \in Calls, Told(k), ChildStep(k) \/ ProgramExit(k) \/ ChildKilled(k)
    PROVE  /\ Told(k)'
           /\ childWrites' \subseteq childWrites
           /\ message' \ {k} = message \ {k} /\ message \subseteq message'
           /\ k \in message' => k \in message \/ k \in childWrites
           /\ execed' \ {k} = execed \ {k} /\ execed \subseteq execed'
           /\ lost' \ {k} = lost \ {k} /\ lost \subseteq lost'
           /\ \A j \in Calls : j # k => status'[j] = status[j] /\ child'[j] = child[j]
           /\ childWrites' \ {k} = childWrites \ {k}
<1> USE DEF TypeInv, TypeOK, Told, Silent, Terminates, Alive, Preparing
<1>1. CASE ChildCloseRead(k)
  BY <1>1 DEF ChildCloseRead
<1>2. CASE ChildSetFlags(k)
  BY <1>2 DEF ChildSetFlags
<1>3. CASE ChildExec(k)
  BY <1>3 DEF ChildExec
<1>4. CASE ChildReport(k)
  BY <1>4 DEF ChildReport, Signal
<1>5. CASE ChildCloseWrite(k)
  BY <1>5 DEF ChildCloseWrite
<1>6. CASE ChildExit(k)
  BY <1>6 DEF ChildExit
<1>7. CASE ProgramExit(k)
  BY <1>7 DEF ProgramExit
<1>8. CASE ChildKilled(k)
  BY <1>8 DEF ChildKilled, Signal
<1> QED
  BY <1>1, <1>2, <1>3, <1>4, <1>5, <1>6, <1>7, <1>8 DEF ChildStep

\* What Execute returns is the exit status of the program, unless the child could
\* neither execute it nor say so.
THEOREM ReturnsTheStatus == Spec => []ReturnIsOfProgram
<1>1. Init => TellInv
  BY DEF Init, TellInv, ParentKnows, Told, Silent, ReturnIsRight, NotEnded, Calls
<1>2. TypeInv /\ RunInv /\ TellInv /\ [Next]_vars => TellInv'
  <2> SUFFICES ASSUME TypeInv, RunInv, TellInv, [Next]_vars
               PROVE  TellInv'
    OBVIOUS
  <2> USE DEF TypeInv, CallStarted, TypeOK, TellInv, ParentKnows, Told, Silent,
              ReturnIsRight, End, Readable
  <2>0. \A k \in Calls : k > call \/ (k = call /\ pc = "fork") => child[k] = "none"
    BY DEF RunInv, NoChildYet
  <2>1. CASE Pipe
    <3>1. UNCHANGED childVars /\ pc' \in {"idle", "fork"}
      BY <2>1 DEF Pipe
    <3>2. \A k \in Calls : outcome'[k] = outcome[k] \/ outcome'[k].kind # "returned"
      BY <2>1 DEF Pipe, Unstarted
    <3>3. ParentKnows'
      BY <3>1
    <3>4. \A k \in Calls : Told(k)'
      BY <3>1 DEF childVars
    <3>5. \A k \in Calls : ReturnIsRight(k)'
      BY <3>1, <3>2 DEF childVars
    <3> QED
      BY <3>3, <3>4, <3>5
  <2>2. CASE Fork
    <3>1. /\ call' = call /\ call \in Calls /\ child[call] = "none"
          /\ UNCHANGED <<status, message, execed, lost>>
      BY <2>0, <2>2 DEF Fork
    <3>2. CASE /\ pc' = "closeWrite" /\ child' = [child EXCEPT ![call] = "closeRead"]
               /\ childWrites' = childWrites \cup {call} /\ outcome' = outcome
      <4>1. \A k \in Calls : Told(k)'
        BY <3>1, <3>2
      <4>2. \A k \in Calls : ReturnIsRight(k)'
        BY <3>1, <3>2
      <4> QED
        BY <3>2, <4>1, <4>2
    <3>3. CASE /\ pc' = "idle" /\ child' = child /\ childWrites' = childWrites
               /\ outcome' = [outcome EXCEPT ![call] = Unstarted]
      <4>1. \A k \in Calls : Told(k)'
        BY <3>1, <3>3
      <4>2. \A k \in Calls : ReturnIsRight(k)'
        BY <3>1, <3>3 DEF Unstarted
      <4> QED
        BY <3>3, <4>1, <4>2
    <3> QED
      BY <2>2, <3>2, <3>3 DEF Fork
  <2>3. CASE CloseWrite
    BY <2>3 DEF CloseWrite, childVars
  <2>4. CASE Select
    BY <2>4 DEF Select, childVars
  <2>5. CASE Read
    BY <2>5 DEF Read, childVars
  <2>6. CASE WaitReaps
    <3>1. /\ call' = call /\ call \in Calls /\ outcome' = outcome /\ pc = "wait"
          /\ child' = [child EXCEPT ![call] = "reaped"] /\ child[call] = "zombie"
          /\ UNCHANGED <<status, childWrites, message, execed, lost>>
          /\ \/ pc' = "closeRead" /\ status[call].by = "exit"
             \/ pc' = "abortClose"
      BY <2>6 DEF WaitReaps, Zombie
    <3>2. ParentKnows'
      BY <3>1
    <3>3. \A k \in Calls : Told(k)'
      BY <3>1
    <3>4. \A k \in Calls : ReturnIsRight(k)'
      BY <3>1
    <3> QED
      BY <3>2, <3>3, <3>4
  <2>7. CASE WaitSleeps
    BY <2>7 DEF WaitSleeps, childVars
  <2>8. CASE WaitTimesOut
    BY <2>8 DEF WaitTimesOut, childVars
  <2>9. CASE CloseRead
    <3>1. /\ call' = call /\ call \in Calls /\ pc = "closeRead" /\ pc' = "idle"
          /\ UNCHANGED childVars
      BY <2>9 DEF CloseRead
    <3>2. /\ child[call] = "reaped" /\ status[call] = Exit(status[call].code)
          /\ call \in execed \cup lost
      BY <3>1 DEF Exit, Statuses
    <3>3. \/ outcome' = [outcome EXCEPT ![call] = Returned(status[call].code)]
          \/ outcome' = [outcome EXCEPT ![call] = Abandoned]
      BY <2>9 DEF CloseRead
    <3>4. \A k \in Calls : Told(k)'
      BY <3>1 DEF childVars
    <3>5. ReturnIsRight(call)'
      BY <3>1, <3>2, <3>3 DEF childVars, Returned, Abandoned
    <3>6. \A k \in Calls : ReturnIsRight(k)'
      BY <3>1, <3>3, <3>5 DEF childVars
    <3> QED
      BY <3>1, <3>4, <3>6
  <2>10. CASE AbortClose
    <3>1. /\ call' = call /\ call \in Calls /\ UNCHANGED childVars
          /\ pc' \in {"abortKill", "idle"}
          /\ outcome' = outcome \/ outcome' = [outcome EXCEPT ![call] = Abandoned]
      BY <2>10 DEF AbortClose
    <3>2. \A k \in Calls : Told(k)'
      BY <3>1 DEF childVars
    <3>3. \A k \in Calls : ReturnIsRight(k)'
      BY <3>1 DEF childVars, Abandoned
    <3> QED
      BY <3>1, <3>2, <3>3
  <2>11. CASE AbortKill
    <3>1. /\ call' = call /\ call \in Calls /\ pc' \in {"abortWait", "idle"}
          /\ UNCHANGED <<message, execed, lost>>
      BY <2>11 DEF AbortKill
    <3>2. CASE /\ child[call] \in Alive /\ Terminates(call, Signal) /\ outcome' = outcome
      <4>1. \A k \in Calls : Told(k)'
        BY <3>1, <3>2 DEF Terminates, Signal
      <4>2. \A k \in Calls : ReturnIsRight(k)'
        BY <3>1, <3>2 DEF Terminates, Alive, Preparing
      <4> QED
        BY <3>1, <4>1, <4>2
    <3>3. CASE UNCHANGED <<child, status, childWrites>>
      <4>1. outcome' = outcome \/ outcome' = [outcome EXCEPT ![call] = Abandoned]
        BY <2>11 DEF AbortKill
      <4>2. \A k \in Calls : Told(k)'
        BY <3>1, <3>3
      <4>3. \A k \in Calls : ReturnIsRight(k)'
        BY <3>1, <3>3, <4>1 DEF Abandoned
      <4> QED
        BY <3>1, <4>2, <4>3
    <3> QED
      BY <2>11, <3>2, <3>3 DEF AbortKill
  <2>12. CASE AbortWait
    <3>1. /\ call' = call /\ call \in Calls /\ pc' = "idle"
          /\ UNCHANGED <<status, childWrites, message, execed, lost>>
      BY <2>12 DEF AbortWait
    <3>2. \/ outcome' = [outcome EXCEPT ![call] = Threw]
          \/ outcome' = [outcome EXCEPT ![call] = Abandoned]
      BY <2>12 DEF AbortWait
    <3>3. \A k \in Calls : child'[k] = child[k] \/ (child[k] = "zombie" /\ child'[k] = "reaped")
      BY <2>12 DEF AbortWait, Zombie
    <3>4. \A k \in Calls : Told(k)'
      BY <3>1, <3>3
    <3>5. \A k \in Calls : ReturnIsRight(k)'
      BY <3>1, <3>2, <3>3 DEF Threw, Abandoned
    <3> QED
      BY <3>1, <3>4, <3>5
  <2>13. ASSUME NEW k \in Calls, ChildStep(k) \/ ProgramExit(k) \/ ChildKilled(k)
         PROVE  TellInv'
    <3>1. child[k] \in Alive /\ UNCHANGED parentVars
      BY <2>13, ChildMoves
    <3>2. /\ Told(k)'
          /\ childWrites' \subseteq childWrites
          /\ message' \ {k} = message \ {k} /\ message \subseteq message'
          /\ k \in message' => k \in message \/ k \in childWrites
          /\ execed' \ {k} = execed \ {k} /\ execed \subseteq execed'
          /\ lost' \ {k} = lost \ {k} /\ lost \subseteq lost'
          /\ \A j \in Calls : j # k => status'[j] = status[j] /\ child'[j] = child[j]
          /\ childWrites' \ {k} = childWrites \ {k}
      BY <2>13, ChildTells
    <3>3. child[k] # "reaped"
      BY <3>1 DEF Alive, Preparing
    <3>4. ParentKnows'
      BY <3>1, <3>2, <3>3 DEF parentVars
    <3>5. \A j \in Calls : Told(j)'
      BY <3>2
    <3>6. \A j \in Calls : ReturnIsRight(j)'
      BY <3>1, <3>2, <3>3 DEF parentVars
    <3> QED
      BY <3>4, <3>5, <3>6
  <2>14. CASE UNCHANGED vars
    BY <2>14 DEF vars, parentVars, childVars
  <2> QED
    BY <2>1, <2>2, <2>3, <2>4, <2>5, <2>6, <2>7, <2>8, <2>9, <2>10, <2>11,
       <2>12, <2>13, <2>14 DEF Next, ParentStep, Finished
<1>3. TellInv => ReturnIsOfProgram
  BY DEF TellInv, ReturnIsRight, ReturnIsOfProgram
<1> QED
  BY <1>1, <1>2, <1>3, RunInvariant, TypeInvariant, PTL DEF Spec
-----------------------------------------------------------------------------
\* Which descriptors the parent has open.  A read end stays open after its call
\* only when the call failed to start or to clean up; as long as nothing fails
\* the parent has no descriptor but those of the call it is in.
LeftOpen(k) == outcome[k].kind \in {"abandoned", "unstarted"}
OpenAreExplained == \A k \in reads : k # call \/ pc = "idle" => LeftOpen(k)
ClosedByHandler == pc \in {"abortKill", "abortWait"} => call \notin reads
OnlyOwnOpen ==
    faults = 0 =>
        /\ reads \subseteq IF pc \in {"idle", "abortKill", "abortWait"} THEN {} ELSE {call}
        /\ writes \subseteq IF pc \in {"fork", "closeWrite"} THEN {call} ELSE {}
OpenInv == OpenAreExplained /\ ClosedByHandler /\ OnlyOwnOpen

\* Between two calls no descriptor is left open that a failure does not explain.
THEOREM DescriptorsAreClosed == Spec => []DescriptorsReturned
<1>1. Init => OpenInv
  BY DEF Init, OpenInv, OpenAreExplained, ClosedByHandler, OnlyOwnOpen
<1>2. TypeInv /\ OpenInv /\ [Next]_vars => OpenInv'
  <2> SUFFICES ASSUME TypeInv, OpenInv, [Next]_vars
               PROVE  OpenInv'
    OBVIOUS
  <2> USE DEF TypeInv, CallStarted, TypeOK, OpenInv, OpenAreExplained, ClosedByHandler,
              OnlyOwnOpen, LeftOpen, End, Fault, MaybeClosed
  <2>1. CASE Pipe
    <3>1. pc = "idle" /\ call' = call + 1 /\ call' \in Calls /\ pc' \in {"idle", "fork"}
      BY <2>1 DEF Pipe, Calls
    <3>2. CASE /\ reads' = reads \cup {call'} /\ writes' = writes \cup {call'}
               /\ pc' = "fork" /\ UNCHANGED <<outcome, faults>>
      BY <3>1, <3>2
    <3>3. CASE /\ faults' = faults + 1 /\ outcome' = [outcome EXCEPT ![call'] = Unstarted]
               /\ UNCHANGED <<pc, reads, writes>>
      BY <3>1, <3>3 DEF Unstarted
    <3> QED
      BY <2>1, <3>2, <3>3 DEF Pipe
  <2>2. CASE Fork
    BY <2>2 DEF Fork, Unstarted
  <2>3. CASE CloseWrite
    BY <2>3 DEF CloseWrite
  <2>4. CASE Select
    BY <2>4 DEF Select
  <2>5. CASE Read
    BY <2>5 DEF Read
  <2>6. CASE WaitReaps
    BY <2>6 DEF WaitReaps
  <2>7. CASE WaitSleeps
    BY <2>7 DEF WaitSleeps
  <2>8. CASE WaitTimesOut
    BY <2>8 DEF WaitTimesOut
  <2>9. CASE CloseRead
    BY <2>9 DEF CloseRead, Abandoned
  <2>10. CASE AbortClose
    BY <2>10 DEF AbortClose, Abandoned
  <2>11. CASE AbortKill
    BY <2>11 DEF AbortKill, Abandoned
  <2>12. CASE AbortWait
    BY <2>12 DEF AbortWait, Abandoned
  <2>13. ASSUME NEW k \in Calls, ChildStep(k) \/ ProgramExit(k) \/ ChildKilled(k)
         PROVE  OpenInv'
    <3>1. UNCHANGED parentVars /\ faults' \in {faults, faults + 1}
      BY <2>13 DEF ChildStep, ChildCloseRead, ChildSetFlags, ChildExec, ChildReport,
                   ChildCloseWrite, ChildExit, ProgramExit, ChildKilled
    <3> QED
      BY <3>1 DEF parentVars
  <2>14. CASE UNCHANGED vars
    BY <2>14 DEF vars, parentVars
  <2> QED
    BY <2>1, <2>2, <2>3, <2>4, <2>5, <2>6, <2>7, <2>8, <2>9, <2>10, <2>11,
       <2>12, <2>13, <2>14 DEF Next, ParentStep, Finished
<1>3. OpenInv => DescriptorsReturned
  BY DEF OpenInv, OpenAreExplained, OnlyOwnOpen, LeftOpen, DescriptorsReturned
<1> QED
  BY <1>1, <1>2, <1>3, TypeInvariant, PTL DEF Spec

-----------------------------------------------------------------------------
\* The children that calls have left behind, and what a step does to them.
Orphans == {k \in Unreaped : Ended(k)}
NoOutcomeYet == \A k \in Calls : ~Ended(k) => outcome[k].kind = "none"
ReapedAtClose == pc = "closeRead" => child[call] = "reaped"
OrphanInv == NoOutcomeYet /\ ReapedAtClose /\ OrphansAreAccounted

\* Sets of calls are finite, so that they can be counted.
LEMMA CountingCalls ==
    ASSUME NEW S \in SUBSET Calls
    PROVE  /\ IsFiniteSet(S)
           /\ Cardinality(S) \in Nat
           /\ \A k \in Calls \ S : Cardinality(S \cup {k}) = Cardinality(S) + 1
           /\ \A k \in S : Cardinality(S \ {k}) = Cardinality(S) - 1
<1>1. IsFiniteSet(S)
  <2>1. IsFiniteSet(1 .. MaxCalls)
    BY FS_Interval, MaxCalls \in Int
  <2> QED
    BY <2>1, FS_Subset DEF Calls
<1>2. Cardinality(S) \in Nat
  BY <1>1, FS_CardinalityType
<1>3. \A k \in Calls \ S : Cardinality(S \cup {k}) = Cardinality(S) + 1
  BY <1>1, FS_AddElement
<1>4. \A k \in S : Cardinality(S \ {k}) = Cardinality(S) - 1
  BY <1>1, FS_RemoveElement
<1> QED
  BY <1>1, <1>2, <1>3, <1>4

\* A part is no larger than the whole.
LEMMA CountingSubsets ==
    ASSUME NEW T \in SUBSET Calls, NEW S \in SUBSET T
    PROVE  Cardinality(S) <= Cardinality(T)
  BY CountingCalls, FS_Subset

\* The children left behind are at most as many as the abandoned calls: a handler
\* that waits for another call's child leaves its own in exchange.
THEOREM OrphansAreFew == Spec => []OrphansAreAccounted
<1>1. Init => OrphanInv
  <2> SUFFICES ASSUME Init PROVE OrphanInv
    OBVIOUS
  <2>1. Orphans = {} /\ AbandonedCalls = {}
    BY DEF Init, Alive, Preparing, NotEnded, Orphans, AbandonedCalls, Unreaped
  <2>2. OrphansAreAccounted
    BY <2>1, FS_EmptySet DEF OrphansAreAccounted, Orphans
  <2> QED
    BY <2>2 DEF Init, OrphanInv, NoOutcomeYet, ReapedAtClose, NotEnded
<1>2. TypeInv /\ RunInv /\ OrphanInv /\ [Next]_vars => OrphanInv'
  <2> SUFFICES ASSUME TypeInv, RunInv, OrphanInv, [Next]_vars
               PROVE  OrphanInv'
    OBVIOUS
  <2> USE DEF TypeInv, CallStarted, TypeOK, OrphanInv, NoOutcomeYet, ReapedAtClose, End
  <2>0. /\ Cardinality(Orphans) <= Cardinality(AbandonedCalls)
        /\ Orphans \in SUBSET Calls /\ AbandonedCalls \in SUBSET Calls
        /\ Orphans' \in SUBSET Calls /\ AbandonedCalls' \in SUBSET Calls
    BY DEF OrphansAreAccounted, Orphans, AbandonedCalls, Unreaped
  <2>a. OrphansAreAccounted' <=> Cardinality(Orphans') <= Cardinality(AbandonedCalls')
    BY DEF OrphansAreAccounted, Orphans
  <2>b. \A k \in Calls : k > call \/ (k = call /\ pc = "fork") => child[k] = "none"
    BY DEF RunInv, NoChildYet
  <2>c. ASSUME NoOutcomeYet', ReapedAtClose', Orphans' \subseteq Orphans,
               AbandonedCalls \subseteq AbandonedCalls'
        PROVE  OrphanInv'
    <3>1. /\ Cardinality(Orphans') <= Cardinality(Orphans)
          /\ Cardinality(AbandonedCalls) <= Cardinality(AbandonedCalls')
      BY <2>0, <2>c, CountingSubsets
    <3>2. /\ Cardinality(Orphans) \in Nat /\ Cardinality(AbandonedCalls) \in Nat
          /\ Cardinality(Orphans') \in Nat /\ Cardinality(AbandonedCalls') \in Nat
      BY <2>0, CountingCalls
    <3> QED
      BY <2>0, <2>a, <2>c, <3>1, <3>2
  <2>d. ASSUME NoOutcomeYet', ReapedAtClose', call \in Calls, ~Ended(call),
               Orphans' \subseteq Orphans \cup {call},
               AbandonedCalls' = AbandonedCalls \cup {call}
        PROVE  OrphanInv'
    <3>1. call \notin Orphans /\ call \notin AbandonedCalls
      BY <2>d DEF Orphans, AbandonedCalls
    <3>2. /\ Cardinality(Orphans \cup {call}) = Cardinality(Orphans) + 1
          /\ Cardinality(AbandonedCalls \cup {call}) = Cardinality(AbandonedCalls) + 1
      BY <2>0, <2>d, <3>1, CountingCalls
    <3>3. Cardinality(Orphans') <= Cardinality(Orphans \cup {call})
      BY <2>0, <2>d, CountingSubsets
    <3>4. /\ Cardinality(Orphans) \in Nat /\ Cardinality(AbandonedCalls) \in Nat
          /\ Cardinality(Orphans') \in Nat
      BY <2>0, CountingCalls
    <3> QED
      BY <2>0, <2>a, <2>d, <3>2, <3>3, <3>4
  <2>1. CASE Pipe
    BY <2>1, <2>b, <2>c DEF Orphans, AbandonedCalls, Unreaped, Ended, Pipe, Calls, childVars, Unstarted, Alive, Preparing
  <2>2. CASE Fork
    BY <2>2, <2>b, <2>c DEF Orphans, AbandonedCalls, Unreaped, Ended, Fork, Unstarted, Alive, Preparing
  <2>3. CASE CloseWrite
    BY <2>3, <2>c DEF Orphans, AbandonedCalls, Unreaped, Ended, CloseWrite, childVars
  <2>4. CASE Select
    BY <2>4, <2>c DEF Orphans, AbandonedCalls, Unreaped, Ended, Select, childVars
  <2>5. CASE Read
    BY <2>5, <2>c DEF Orphans, AbandonedCalls, Unreaped, Ended, Read, childVars
  <2>6. CASE WaitReaps
    BY <2>6, <2>c DEF Orphans, AbandonedCalls, Unreaped, Ended, WaitReaps, Zombie
  <2>7. CASE WaitSleeps
    BY <2>7, <2>c DEF Orphans, AbandonedCalls, Unreaped, Ended, WaitSleeps, childVars
  <2>8. CASE WaitTimesOut
    BY <2>8, <2>c DEF Orphans, AbandonedCalls, Unreaped, Ended, WaitTimesOut, childVars
  <2>9. CASE CloseRead
    BY <2>9, <2>c, <2>d DEF Orphans, AbandonedCalls, Unreaped, Ended, CloseRead, childVars, Abandoned, Returned, Alive, Preparing
  <2>10. CASE AbortClose
    BY <2>10, <2>c, <2>d DEF Orphans, AbandonedCalls, Unreaped, Ended, AbortClose, childVars, Abandoned
  <2>11. CASE AbortKill
    BY <2>11, <2>c, <2>d DEF Orphans, AbandonedCalls, Unreaped, Ended, AbortKill, Terminates, Abandoned, Alive, Preparing
  <2>12. CASE AbortWait
    <3>1. /\ call' = call /\ call \in Calls /\ pc = "abortWait" /\ pc' = "idle"
          /\ NoOutcomeYet' /\ ReapedAtClose'
      BY <2>12 DEF AbortWait, Ended
    <3>2. CASE outcome' = [outcome EXCEPT ![call] = Abandoned] /\ child' = child
      BY <2>d, <3>1, <3>2 DEF Orphans, AbandonedCalls, Unreaped, Ended, Abandoned
    <3>3. CASE Unreaped = {} /\ child' = child /\ outcome' = [outcome EXCEPT ![call] = Threw]
      <4>1. Orphans' = {}
        BY <3>3 DEF Orphans, Unreaped
      <4>2. AbandonedCalls' = AbandonedCalls
        BY <3>1, <3>3 DEF AbandonedCalls, Threw, Ended
      <4> QED
        BY <2>c, <3>1, <4>1, <4>2
    <3>4. ASSUME NEW k \in Calls, Zombie(k), child' = [child EXCEPT ![k] = "reaped"],
                 outcome' = [outcome EXCEPT ![call] = Threw]
          PROVE  OrphanInv'
      <4>1. AbandonedCalls' = AbandonedCalls
        BY <3>1, <3>4 DEF AbandonedCalls, Threw, Ended
      <4>2. k <= call
        BY <2>b, <3>1, <3>4 DEF Zombie, Calls
      <4>3. CASE k = call
        <5>1. Orphans' \subseteq Orphans
          BY <3>1, <3>4, <4>3 DEF Orphans, Unreaped, Ended, Alive, Preparing, Calls
        <5> QED
          BY <2>c, <3>1, <4>1, <5>1
      <4>4. CASE k # call
        <5>1. k \in Orphans /\ call \notin Orphans
          BY <3>1, <3>4, <4>2, <4>4 DEF Orphans, Unreaped, Ended, Zombie, Calls
        <5>2. Orphans' \subseteq (Orphans \ {k}) \cup {call}
          BY <3>1, <3>4, <4>4 DEF Orphans, Unreaped, Ended, Alive, Preparing, Calls
        <5>3. /\ Cardinality(Orphans \ {k}) = Cardinality(Orphans) - 1
              /\ Cardinality((Orphans \ {k}) \cup {call}) = Cardinality(Orphans \ {k}) + 1
          BY <2>0, <3>1, <5>1, CountingCalls
        <5>4. Cardinality(Orphans') <= Cardinality((Orphans \ {k}) \cup {call})
          BY <2>0, <3>1, <5>2, CountingSubsets
        <5>5. /\ Cardinality(Orphans) \in Nat /\ Cardinality(AbandonedCalls) \in Nat
              /\ Cardinality(Orphans') \in Nat
          BY <2>0, CountingCalls
        <5> QED
          BY <2>0, <2>a, <3>1, <4>1, <5>3, <5>4, <5>5
      <4> QED
        BY <4>3, <4>4
    <3> QED
      BY <2>12, <3>2, <3>3, <3>4 DEF AbortWait
  <2>13. ASSUME NEW k \in Calls, ChildStep(k) \/ ProgramExit(k) \/ ChildKilled(k)
         PROVE  OrphanInv'
    BY <2>13, <2>c, ChildMoves DEF Orphans, AbandonedCalls, Unreaped, Ended,
                                 parentVars, Alive, Preparing
  <2>14. CASE UNCHANGED vars
    BY <2>14, <2>c DEF Orphans, AbandonedCalls, Unreaped, Ended, vars, parentVars, childVars
  <2> QED
    BY <2>1, <2>2, <2>3, <2>4, <2>5, <2>6, <2>7, <2>8, <2>9, <2>10, <2>11,
       <2>12, <2>13, <2>14 DEF Next, ParentStep, Finished
<1>3. OrphanInv => OrphansAreAccounted
  BY DEF OrphanInv
<1> QED
  BY <1>1, <1>2, <1>3, TypeInvariant, RunInvariant, PTL DEF Spec
=============================================================================
