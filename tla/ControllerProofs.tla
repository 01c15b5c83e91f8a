-------------------------- MODULE ControllerProofs --------------------------
(***************************************************************************)
(* The lock of the input file, for any number of processes: it does what   *)
(* it is for as long as the input file asks for one tool.                  *)
(***************************************************************************)
EXTENDS Controller, TLAPS

USE ControllerAssumption

Before == {"off", "lock", "validate", "read", "construct"}

\* With one tool, what a process does with the file it does before the task.
OnePass ==
    \A p \in Procs :
        /\ pc[p] \in Before => tool[p] = 0
        /\ pc[p] \in Before \cup {"rewrite", "writing", "unlock", "task"} => tree[p] = 0
        /\ pc[p] \in {"rewrite", "writing", "unlock", "task"} => tool[p] = 1

\* Whoever works on the file holds the lock, and a truncated file has a writer,
\* alive or broken off.
Exclusion == \A p \in Procs : pc[p] \in Locked => holder = p
TornByWriter == input = Empty => \E p \in Procs : pc[p] \in {"writing"} \cup BrokenWrite
InputKept == input \in {0, Empty}

LockInv == locking = Procs /\ Len(tools) = 1 /\ OnePass /\ Exclusion /\ TornByWriter /\ InputKept

Typed == tools \in Seq(STRING) /\ pc \in [Procs -> Places] /\ tool \in [Procs -> Nat] /\ tree \in [Procs -> Nat]

\* The steps of one process keep the invariant, when every process locks and there is one tool.
LEMMA LockStep ==
    ASSUME Typed, LockInv,
           NEW p \in Procs, Step(p) \/ Kill(p)
    PROVE  Typed' /\ LockInv'
<1> USE DEF setup, Typed, LockInv, OnePass, Exclusion, TornByWriter, InputKept, Before, Locked, Ended, Places,
            BrokenWrite, Goto, Dies, Release, Fails
<1>1. CASE Start(p)
  BY <1>1 DEF Start
<1>2. CASE WrongOptions(p)
  BY <1>2 DEF WrongOptions
<1>3. CASE Lock(p)
  BY <1>3 DEF Lock
<1>4. CASE Validate(p)
  BY <1>4 DEF Validate
<1>5. CASE ValidationFails(p)
  BY <1>5 DEF ValidationFails
<1>6. CASE Read(p)
  BY <1>6 DEF Read
<1>7. CASE ReadFails(p)
  BY <1>7 DEF ReadFails
<1>8. CASE Construct(p)
  BY <1>8 DEF Construct
<1>9. CASE ConstructFails(p)
  BY <1>9 DEF ConstructFails
<1>10. CASE BeginWrite(p)
  BY <1>10 DEF BeginWrite
<1>11. CASE EndWrite(p)
  BY <1>11 DEF EndWrite
<1>12. CASE Unlock(p)
  BY <1>12 DEF Unlock
<1>13. CASE UnlockFails(p)
  BY <1>13 DEF UnlockFails
<1>14. CASE Task(p)
  BY <1>14 DEF Task
<1>15. CASE TaskFails(p)
  BY <1>15 DEF TaskFails
<1>16. CASE Terminate(p)
  BY <1>16 DEF Terminate
<1>17. CASE Kill(p)
  BY <1>17 DEF Kill
<1>18. CASE LockFails(p)
  BY <1>18 DEF LockFails
<1>19. CASE WriteFails(p)
  BY <1>19 DEF WriteFails
<1>20. CASE HandOver(p)
  BY <1>20 DEF HandOver
<1>21. CASE TerminateFails(p)
  BY <1>21 DEF TerminateFails
<1> QED
  BY <1>1, <1>2, <1>3, <1>4, <1>5, <1>6, <1>7, <1>8, <1>9, <1>10, <1>11, <1>12,
     <1>13, <1>14, <1>15, <1>16, <1>17, <1>18, <1>19, <1>20, <1>21 DEF Step

\* The invariant holds throughout when every process locks and there is one tool.
OneToolAndLock == locking = Procs /\ Len(tools) = 1

LEMMA LockInvariant == Spec => [](OneToolAndLock => Typed /\ LockInv)
<1>1. Init => (OneToolAndLock => Typed /\ LockInv)
  BY DEF Init, OneToolAndLock, Typed, LockInv, OnePass, Exclusion, TornByWriter, InputKept, Before,
         Locked, Places
<1>2. (OneToolAndLock => Typed /\ LockInv) /\ [Next]_vars => (OneToolAndLock => Typed /\ LockInv)'
  <2> SUFFICES ASSUME OneToolAndLock => Typed /\ LockInv, [Next]_vars, OneToolAndLock'
               PROVE  Typed' /\ LockInv'
    OBVIOUS
  <2>1. tools' = tools /\ locking' = locking
    BY DEF Next, Step, AllEnded, vars, setup, Start, WrongOptions, Lock, Validate, ValidationFails,
           Read, ReadFails, Construct, ConstructFails, BeginWrite, EndWrite, Unlock, UnlockFails, Task,
           TaskFails, Terminate, Kill, Fails, LockFails, WriteFails, HandOver, TerminateFails
  <2>2. ASSUME NEW p \in Procs, Step(p) \/ Kill(p)
        PROVE  Typed' /\ LockInv'
    BY <2>1, <2>2, LockStep DEF OneToolAndLock
  <2>3. CASE UNCHANGED vars
    BY <2>1, <2>3 DEF vars, OneToolAndLock, Typed, LockInv, OnePass, Exclusion, TornByWriter, InputKept
  <2> QED
    BY <2>2, <2>3 DEF Next, AllEnded
<1> QED
  BY <1>1, <1>2, PTL DEF Spec

\* With one tool and every process locking, nobody reads the input file while
\* another process writes it: a truncated file is what a process left that was
\* killed, or whose write_xml threw, in the middle of writing.
THEOREM LockProtectsReaders == Spec => []OnlyBrokenWritesTear
<1>1. (OneToolAndLock => Typed /\ LockInv) => OnlyBrokenWritesTear
  BY DEF OneToolAndLock, Typed, LockInv, Exclusion, TornByWriter, OnlyBrokenWritesTear, LockProtects, Locked
<1> QED
  BY <1>1, LockInvariant, PTL

\* Nor does what a tool finds ever replace what the user wrote.
THEOREM InputStays == Spec => []InputIsTheUsers
<1>1. (OneToolAndLock => Typed /\ LockInv) => InputIsTheUsers
  BY DEF OneToolAndLock, LockInv, InputKept, InputIsTheUsers
<1> QED
  BY <1>1, LockInvariant, PTL
=============================================================================
