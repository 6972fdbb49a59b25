----------------------------- MODULE ProcProofs -----------------------------
(***************************************************************************)
(* The inductive invariant of Proc, why the locks make fork, exit, wait    *)
(* and kill work together, and proofs that it holds for any number of      *)
(* slots and harts.  The layers are proved one after the other; each uses  *)
(* the ones before it.  From them follows that the table of slots          *)
(* implements the tree of processes (ProcTree).                            *)
(***************************************************************************)
EXTENDS Proc, FiniteSetTheorems, TLAPS

(* Layer 1, the harts and p->lock.  A lock is only ever seen held across a  *)
(* swtch, by the hart that switches; a process on a hart is RUNNING.        *)

LockHeldAcrossSwtch ==
  \A s \in Procs, c \in Cpus :
    lock[s] = c => cur[c] = s /\ mode[c] \in {"switch", "back"}

HartOK ==
  \A c \in Cpus :
    /\ mode[c] = "sched" <=> cur[c] = NoProc
    /\ mode[c] \in {"switch", "proc"} => state[cur[c]] = "RUNNING"
    /\ mode[c] = "back" => state[cur[c]] \in {"RUNNABLE", "SLEEPING", "ZOMBIE"}
    /\ mode[c] \in {"switch", "back"} => lock[cur[c]] = c

(* fork() has its child USED, and to itself, until it makes it RUNNABLE.     *)

ForkInv ==
  \A p \in Procs :
    /\ pc[p] \in {"fparent", "frunnable"} =>
         arg[p] \in Procs /\ state[arg[p]] = "USED"
    /\ pc[p] = "fparent" =>
         /\ parent[arg[p]] = NoProc
         /\ \A q \in Procs : pc[q] = "fparent" /\ q # p => arg[q] # arg[p]
    /\ pc[p] = "frunnable" => parent[arg[p]] = p

UnusedUnlinked ==
  \A s \in Procs : state[s] = "UNUSED" => parent[s] = NoProc

HartInv ==
  /\ LockHeldAcrossSwtch /\ HartOK /\ OneHart /\ RunningIffOnHart
  /\ ForkInv /\ UnusedUnlinked

(* Layer 2, wait_lock, and what the point a process is at says about it.    *)

WaitLockHolder ==
  \A s \in Procs :
    pc[s] \in WithWaitLock =>
      \E c \in Cpus : cur[c] = s /\ mode[c] = "proc" /\ wait_lock = c

StatePoint ==
  \A s \in Procs :
    /\ state[s] = "SLEEPING" => pc[s] = "asleep"
    /\ pc[s] = "asleep" => chan[s] = s
    /\ pc[s] = "asleep" => state[s] \in {"SLEEPING", "RUNNABLE", "RUNNING"}
    /\ state[s] = "ZOMBIE" => pc[s] = "dead"
    /\ state[s] = "UNUSED" => pc[s] \in {"user", "dead"}

CursorsAtStart ==
  \A s \in Procs :
    /\ pc[s] \in {"user", "ret", "fparent", "frunnable", "xlock", "xwakeparent",
                  "xzombie", "wlock", "wsleep", "asleep", "dead"} => at[s] = 1
    /\ pc[s] \notin {"xwakeinit", "xwakeparent"} => wat[s] = 1
    /\ pc[s] # "wscan" => ~havekids[s]

InitLives ==
  /\ pid[initproc] = 1
  /\ ~killed[initproc]
  /\ pc[initproc] \notin ExitPoints
  /\ state[initproc] \in {"SLEEPING", "RUNNABLE", "RUNNING"}
  /\ \A s \in Procs : pc[s] = "kscan" => arg[s] \in KillPids

PointInv == WaitLockHolder /\ StatePoint /\ CursorsAtStart /\ InitLives

(* Layer 3, the process tree.                                               *)

HasParent ==
  \A s \in Procs :
    /\ parent[s] # s
    /\ s # initproc /\ state[s] \notin {"UNUSED", "USED"} => parent[s] # NoProc
    /\ s = initproc => parent[s] = NoProc

Childless ==
  \A p, s \in Procs :
    parent[s] = p =>
      /\ pc[p] = "xreparent" => s >= at[p]
      /\ pc[p] = "xwakeinit" => s > at[p]
      /\ pc[p] \notin {"xwakeparent", "xzombie", "dead"}

TreeInv == HasParent /\ Childless /\ LiveParent

(* Layer 4, no exit is lost on a sleeping parent.                           *)

WaitInv ==
  \A p \in Procs :
    /\ pc[p] = "wscan" =>
         /\ \A s \in Procs : parent[s] = p /\ s < at[p] => state[s] # "ZOMBIE"
         /\ havekids[p] => \E s \in Procs : parent[s] = p
    /\ pc[p] = "wsleep" =>
         /\ \A s \in Procs : parent[s] = p => state[s] # "ZOMBIE"
         /\ \E s \in Procs : parent[s] = p

ExitInv ==
  \A x \in Procs :
    \/ pc[x] = "xwakeparent" /\ wat[x] > parent[x]
    \/ pc[x] = "xzombie"
    => state[parent[x]] # "SLEEPING"

ZombieInv ==
  \A s \in Procs :
    state[s] = "ZOMBIE" /\ state[parent[s]] = "SLEEPING" =>
      /\ parent[s] = initproc
      /\ \E x \in Procs : pc[x] = "xwakeinit" /\ wat[x] = 1

WakeInv == WaitInv /\ ExitInv /\ ZombieInv /\ SleeperHasChild

(* Apart from the layers: pids, and who is killed.                          *)

PidInv ==
  /\ nextpid >= 2
  /\ \A s \in Procs :
       /\ state[s] = "UNUSED" => pid[s] = 0
       /\ state[s] # "UNUSED" => 1 <= pid[s] /\ pid[s] < nextpid
  /\ \A s, t \in Procs : s # t /\ pid[s] = pid[t] => pid[s] = 0

KillInv ==
  /\ \A s \in Procs : pc[s] = "kscan" => arg[s] \in victims
  /\ \A s \in Procs : state[s] = "UNUSED" => ~killed[s]
  /\ KilledByRequest

IInv == TypeOK /\ HartInv /\ PointInv /\ TreeInv /\ WakeInv

----------------------------------------------------------------------------

LEMMA FollowingType ==
  ASSUME NEW s \in Procs
  PROVE  Following(s) \in Procs
BY ProcAssumption DEF Following, Procs

\* What is used of the slots' being numbers.
LEMMA ProcsFacts ==
  /\ Procs \subseteq Nat
  /\ initproc \in Procs
  /\ 1 \in Procs
  /\ NoProc \notin Procs
  /\ \A s \in Procs : s # NPROC => s + 1 \in Procs
  /\ \A s \in Procs : s < NPROC => s + 1 \in Procs
BY ProcAssumption DEF Procs, initproc, NoProc

LEMMA ProcsRange ==
  /\ \A s \in Procs : s \in Nat /\ 1 <= s /\ s <= NPROC
  /\ NPROC \in Nat
BY ProcAssumption DEF Procs

LEMMA FirstSlot == \A s \in Procs : ~(1 > s)
BY DEF Procs

LEMMA InitType == Init => TypeOK
BY ProcAssumption
   DEF Init, TypeOK, Procs, NoProc, initproc, States, Points, Preemptible,
       WithWaitLock

FrameType ==
  /\ pc \in [Procs -> Points]
  /\ at \in [Procs -> Procs]
  /\ wat \in [Procs -> Procs]
  /\ arg \in [Procs -> Nat]
  /\ havekids \in [Procs -> BOOLEAN]

LEMMA ReturnType ==
  ASSUME FrameType, NEW p \in Procs, Return(p)
  PROVE  FrameType'
<1>1. havekids' \in [Procs -> BOOLEAN]
  BY Zenon DEF FrameType, Return
<1>2. "ret" \in Points /\ 1 \in Procs /\ 0 \in Nat
  BY ProcAssumption DEF Points, Preemptible, Procs
<1> QED BY <1>1, <1>2 DEF FrameType, Return, Goto

\* Every variable keeps its type.
LEMMA TypeStep == TypeOK /\ [Next]_vars => TypeOK'
<1> SUFFICES ASSUME TypeOK, [Next]_vars PROVE TypeOK'
  OBVIOUS
<1> USE DEF TypeOK, tbl, sch, frame, States, Points, Preemptible, WithWaitLock
<1>1. CASE UNCHANGED vars
  BY <1>1 DEF vars
<1>2. ASSUME NEW c \in Cpus, Scheduler(c) PROVE TypeOK'
  <2>1. CASE SchedSkip(c)
    BY <2>1, FollowingType DEF SchedSkip
  <2>2. CASE SchedPick(c)
    BY <2>2 DEF SchedPick
  <2>3. CASE Resume(c)
    BY <2>3, ProcAssumption DEF Resume, Goto
  <2>4. CASE SchedBack(c)
    BY <2>4, FollowingType DEF SchedBack
  <2> QED BY <1>2, <2>1, <2>2, <2>3, <2>4 DEF Scheduler
<1>3. ASSUME NEW c \in Cpus, NEW p \in Procs, User(c, p) PROVE TypeOK'
  <2>1. CASE SysFork(c, p)
    BY <2>1 DEF SysFork, Syscall, Goto
  <2>2. CASE SysExit(c, p)
    BY <2>2 DEF SysExit, Syscall, Goto
  <2>3. CASE SysWait(c, p)
    BY <2>3 DEF SysWait, Syscall, Goto
  <2>4. CASE SysKill(c, p)
    BY <2>4, ProcAssumption DEF SysKill, Syscall, Goto
  <2>5. CASE Fault(c, p)
    BY <2>5, ProcAssumption DEF Fault, Goto
  <2> QED BY <1>3, <2>1, <2>2, <2>3, <2>4, <2>5 DEF User
<1>4. ASSUME NEW c \in Cpus, NEW p \in Procs, Kernel(c, p) PROVE TypeOK'
  <2>1. CASE ExitIfKilled(c, p)
    BY <2>1 DEF ExitIfKilled, Goto
  <2>2. CASE UserRet(c, p)
    BY <2>2 DEF UserRet, Goto
  <2>3. CASE ForkScan(c, p)
    <3>1. FrameType'
      <4>1. CASE at[p] = NPROC
        BY <2>3, <4>1, ReturnType DEF ForkScan, FrameType
      <4>2. CASE at[p] # NPROC
        <5>1. at[p] + 1 \in Procs
          BY <4>2, ProcsFacts
        <5> QED BY <2>3, <4>2, <5>1 DEF ForkScan, FrameType
      <4> QED BY <4>1, <4>2
    <3> QED BY <2>3, <3>1 DEF ForkScan, FrameType
  <2>4. CASE ForkAlloc(c, p)
    <3>1. at[p] \in Nat /\ 1 \in Procs
      BY ProcsFacts
    <3> QED BY <2>4, <3>1 DEF ForkAlloc, AllocPid
  <2>5. CASE ForkNoMemory(c, p)
    BY <2>5, ProcsFacts DEF ForkNoMemory, Return, Goto
  <2>6. CASE ForkParent(c, p)
    BY <2>6 DEF ForkParent, Goto
  <2>7. CASE ForkRunnable(c, p)
    BY <2>7, ProcsFacts DEF ForkRunnable, Return, Goto
  <2>8. CASE ExitLock(c, p)
    BY <2>8 DEF ExitLock, Goto
  <2>9. CASE ExitReparent(c, p)
    <3>1. initproc \in Procs /\ Following(at[p]) \in Procs
      BY ProcsFacts, FollowingType
    <3> QED BY <2>9, <3>1, SMTT(30) DEF ExitReparent, Goto
  <2>10. CASE ExitWakeInit(c, p)
    BY <2>10, FollowingType DEF ExitWakeInit, WakeupSlot, Goto
  <2>11. CASE ExitWakeParent(c, p)
    BY <2>11, FollowingType DEF ExitWakeParent, WakeupSlot, Goto
  <2>12. CASE ExitZombie(c, p)
    BY <2>12 DEF ExitZombie, Sched, Goto
  <2>13. CASE WaitLock(c, p)
    BY <2>13 DEF WaitLock, Goto
  <2>14. CASE WaitScan(c, p)
    <3>1. FrameType'
      <4>1. CASE at[p] < NPROC
        <5>1. havekids' \in [Procs -> BOOLEAN]
          BY <2>14, <4>1, Zenon DEF WaitScan
        <5>2. at[p] + 1 \in Procs
          BY <4>1, ProcsFacts
        <5> QED BY <2>14, <4>1, <5>1, <5>2 DEF WaitScan, FrameType
      <4>2. CASE ~(at[p] < NPROC) /\ Return(p)
        BY <4>2, ReturnType DEF FrameType
      <4>3. CASE ~(at[p] < NPROC) /\ ~Return(p)
        <5>1. havekids' \in [Procs -> BOOLEAN]
          BY <2>14, <4>3, Zenon DEF WaitScan
        <5> QED BY <2>14, <4>3, <5>1, ProcsFacts DEF WaitScan, FrameType, Goto
      <4> QED BY <4>1, <4>2, <4>3
    <3>2. wait_lock' \in Cpus \cup {NoCpu}
      BY <2>14 DEF WaitScan
    <3> QED BY <2>14, <3>1, <3>2 DEF WaitScan, FrameType
  <2>15. CASE WaitReap(c, p)
    BY <2>15, ProcsFacts DEF WaitReap, FreeProc, Return, Goto
  <2>16. CASE WaitBadAddress(c, p)
    BY <2>16, ProcsFacts DEF WaitBadAddress, Return, Goto
  <2>17. CASE WaitSleep(c, p)
    BY <2>17 DEF WaitSleep, Sched, Goto
  <2>18. CASE KillScan(c, p)
    <3>1. FrameType'
      <4>1. CASE at[p] = NPROC
        BY <2>18, <4>1, ReturnType DEF KillScan, FrameType
      <4>2. CASE at[p] # NPROC
        <5>1. at[p] + 1 \in Procs
          BY <4>2, ProcsFacts
        <5> QED BY <2>18, <4>2, <5>1 DEF KillScan, FrameType
      <4> QED BY <4>1, <4>2
    <3> QED BY <2>18, <3>1 DEF KillScan, FrameType
  <2>19. CASE KillFound(c, p)
    BY <2>19, ProcsFacts DEF KillFound, AfterKill, Return, Goto
  <2> QED BY <1>4, <2>1, <2>2, <2>3, <2>4, <2>5, <2>6, <2>7, <2>8, <2>9, <2>10,
             <2>11, <2>12, <2>13, <2>14, <2>15, <2>16, <2>17, <2>18, <2>19
          DEF Kernel
<1>5. ASSUME NEW c \in Cpus, NEW p \in Procs, Yield(c, p) PROVE TypeOK'
  BY <1>5 DEF Yield, Sched
<1> QED BY <1>1, <1>2, <1>3, <1>4, <1>5 DEF Next

\* Every variable of the process table, the locks, the schedulers and the
\* kernel frames keeps its type (proc.c as a whole).
THEOREM TypeCorrect == Spec => []TypeOK
<1>1. Init => TypeOK
  BY InitType
<1>2. TypeOK /\ [Next]_vars => TypeOK'
  BY TypeStep
<1> QED BY <1>1, <1>2, PTL DEF Spec

----------------------------------------------------------------------------
(* Layer 1: harts, p->lock and the child fork() is making.                 *)

Hart == LockHeldAcrossSwtch /\ HartOK /\ OneHart /\ RunningIffOnHart

\* A slot whose lock is free and that is not RUNNING is on no hart.
LEMMA OffHart ==
  ASSUME TypeOK, Hart, NEW s \in Procs, Free(s), state[s] # "RUNNING"
  PROVE  \A c \in Cpus : cur[c] # s
<1> SUFFICES ASSUME NEW c \in Cpus, cur[c] = s PROVE FALSE
  OBVIOUS
<1>1. mode[c] # "sched"
  BY ProcsFacts DEF Hart, HartOK
<1>2. mode[c] \notin {"switch", "proc"}
  BY DEF Hart, HartOK
<1>3. mode[c] # "back"
  BY ProcAssumption DEF Hart, HartOK, Free
<1> QED BY <1>1, <1>2, <1>3 DEF TypeOK

\* A process that executes is RUNNING, alone on its hart, and holds no lock.
LEMMA OnHart ==
  ASSUME TypeOK, Hart, NEW c \in Cpus, NEW p \in Procs,
         mode[c] = "proc", cur[c] = p
  PROVE  /\ state[p] = "RUNNING"
         /\ Free(p)
         /\ \A d \in Cpus : d # c => cur[d] # p
<1>1. state[p] = "RUNNING"
  BY DEF Hart, HartOK
<1>2. \A d \in Cpus : d # c => cur[d] # p
  BY ProcsFacts DEF Hart, OneHart
<1>3. lock[p] \notin Cpus
  BY <1>2 DEF Hart, LockHeldAcrossSwtch
<1> QED BY <1>1, <1>2, <1>3 DEF Free, TypeOK

LEMMA HartQuiet ==
  ASSUME Hart, UNCHANGED <<lock, cur, mode, state>>
  PROVE  Hart'
BY DEF Hart, LockHeldAcrossSwtch, HartOK, OneHart, RunningIffOnHart

\* A slot on no hart changes its state under its lock.
LEMMA HartSlot ==
  ASSUME TypeOK, Hart, NEW s \in Procs, Free(s), state[s] # "RUNNING",
         NEW v \in States \ {"RUNNING"}, state' = [state EXCEPT ![s] = v],
         UNCHANGED <<lock, cur, mode>>
  PROVE  Hart'
<1>1. \A c \in Cpus : cur[c] # s
  BY OffHart
<1>2. \A c \in Cpus : mode[c] # "sched" => cur[c] \in Procs /\ state'[cur[c]] = state[cur[c]]
  BY <1>1 DEF TypeOK, Hart, HartOK
<1>3. HartOK' /\ LockHeldAcrossSwtch' /\ OneHart'
  BY <1>2 DEF Hart, HartOK, LockHeldAcrossSwtch, OneHart
<1>4. RunningIffOnHart'
  BY <1>1 DEF Hart, RunningIffOnHart, TypeOK
<1> QED BY <1>3, <1>4 DEF Hart

\* A process gives its hart up.
LEMMA HartSched ==
  ASSUME TypeOK, Hart, NEW c \in Cpus, NEW p \in Procs,
         mode[c] = "proc", cur[c] = p,
         NEW v \in {"RUNNABLE", "SLEEPING", "ZOMBIE"}, Sched(c, p, v)
  PROVE  Hart'
<1>1. \A d \in Cpus : d # c => cur[d] # p
  BY OnHart
<1>2. \A d \in Cpus : d # c /\ mode[d] # "sched" =>
        /\ cur[d] \in Procs
        /\ state'[cur[d]] = state[cur[d]]
        /\ lock'[cur[d]] = lock[cur[d]]
        /\ mode'[d] = mode[d]
  BY <1>1 DEF TypeOK, Hart, HartOK, Sched
<1>3. HartOK'
  BY <1>1, <1>2, ProcsFacts DEF Hart, HartOK, Sched, TypeOK
<1>4. LockHeldAcrossSwtch'
  BY <1>1 DEF Hart, LockHeldAcrossSwtch, Sched, TypeOK
<1>5. OneHart'
  BY DEF Hart, OneHart, Sched
<1>6. RunningIffOnHart'
  BY <1>1 DEF Hart, RunningIffOnHart, Sched, TypeOK
<1> QED BY <1>3, <1>4, <1>5, <1>6 DEF Hart

\* The three steps of the scheduler around swtch.
LEMMA HartPick ==
  ASSUME TypeOK, Hart, NEW c \in Cpus, SchedPick(c)
  PROVE  Hart'
<1> DEFINE p == scan[c]
<1>0. p \in Procs /\ cur[c] = NoProc
  BY DEF TypeOK, SchedPick, Hart, HartOK
<1>1. \A d \in Cpus : cur[d] # p
  BY <1>0, OffHart DEF SchedPick
<1>2. \A d \in Cpus : d # c =>
        /\ cur'[d] = cur[d] /\ mode'[d] = mode[d]
        /\ mode[d] # "sched" => /\ cur[d] \in Procs
                               /\ state'[cur[d]] = state[cur[d]]
                               /\ lock'[cur[d]] = lock[cur[d]]
  BY <1>0, <1>1 DEF TypeOK, Hart, HartOK, SchedPick
<1>3. /\ cur'[c] = p /\ mode'[c] = "switch"
      /\ state'[p] = "RUNNING" /\ lock'[p] = c
      /\ \A s \in Procs : s # p => state'[s] = state[s] /\ lock'[s] = lock[s]
  BY <1>0 DEF TypeOK, SchedPick
<1>4. HartOK'
  BY <1>0, <1>2, <1>3, ProcsFacts DEF Hart, HartOK
<1>5. LockHeldAcrossSwtch'
  BY <1>0, <1>1, <1>2, <1>3 DEF Hart, LockHeldAcrossSwtch, HartOK
<1>6. OneHart'
  BY <1>0, <1>1, <1>2, <1>3 DEF Hart, OneHart
<1>7. RunningIffOnHart'
  BY <1>0, <1>1, <1>2, <1>3, ProcsFacts DEF Hart, RunningIffOnHart
<1> QED BY <1>4, <1>5, <1>6, <1>7 DEF Hart

LEMMA HartResume ==
  ASSUME TypeOK, Hart, NEW c \in Cpus, Resume(c)
  PROVE  Hart'
<1> DEFINE p == cur[c]
<1>0. p \in Procs /\ mode[c] = "switch" /\ lock[p] = c /\ state[p] = "RUNNING"
  BY ProcsFacts DEF TypeOK, Resume, Hart, HartOK
<1>1. \A d \in Cpus : d # c => cur[d] # p
  BY <1>0, ProcsFacts DEF Hart, OneHart
<1>2. /\ cur' = cur /\ state' = state /\ mode'[c] = "proc"
      /\ \A d \in Cpus : d # c => mode'[d] = mode[d]
      /\ lock'[p] = NoCpu
      /\ \A s \in Procs : s # p => lock'[s] = lock[s]
  BY <1>0 DEF TypeOK, Resume
<1>3. HartOK'
  BY <1>0, <1>1, <1>2, ProcsFacts DEF Hart, HartOK, TypeOK
<1>4. LockHeldAcrossSwtch'
  BY <1>0, <1>1, <1>2, ProcAssumption DEF Hart, LockHeldAcrossSwtch
<1>5. OneHart' /\ RunningIffOnHart'
  BY <1>0, <1>2 DEF Hart, OneHart, RunningIffOnHart
<1> QED BY <1>3, <1>4, <1>5 DEF Hart

LEMMA HartBack ==
  ASSUME TypeOK, Hart, NEW c \in Cpus, SchedBack(c)
  PROVE  Hart'
<1> DEFINE p == cur[c]
<1>0. /\ p \in Procs /\ mode[c] = "back" /\ lock[p] = c
      /\ state[p] # "RUNNING"
  BY ProcsFacts DEF TypeOK, SchedBack, Hart, HartOK
<1>1. \A d \in Cpus : d # c => cur[d] # p
  BY <1>0, ProcsFacts DEF Hart, OneHart
<1>2. /\ state' = state /\ mode'[c] = "sched" /\ cur'[c] = NoProc
      /\ \A d \in Cpus : d # c => mode'[d] = mode[d] /\ cur'[d] = cur[d]
      /\ lock'[p] = NoCpu
      /\ \A s \in Procs : s # p => lock'[s] = lock[s]
  BY <1>0 DEF TypeOK, SchedBack, tbl
<1>3. ASSUME NEW d \in Cpus, d # c, mode[d] # "sched"
      PROVE  cur[d] \in Procs /\ lock'[cur[d]] = lock[cur[d]]
  BY <1>1, <1>2, <1>3 DEF Hart, HartOK, TypeOK
<1>7. HartOK'
  BY <1>0, <1>2, <1>3 DEF Hart, HartOK
<1>4. LockHeldAcrossSwtch'
  BY <1>0, <1>1, <1>2, ProcAssumption DEF Hart, LockHeldAcrossSwtch
<1>5. OneHart'
  BY <1>0, <1>1, <1>2 DEF Hart, OneHart
<1>6. RunningIffOnHart'
  BY <1>0, <1>1, <1>2, ProcsFacts DEF Hart, RunningIffOnHart
<1> QED BY <1>7, <1>4, <1>5, <1>6 DEF Hart

\* What leaves fork's children alone leaves ForkInv alone.
LEMMA ForkKept ==
  ASSUME TypeOK, ForkInv,
         \A q \in Procs : pc'[q] \in {"fparent", "frunnable"} =>
           pc'[q] = pc[q] /\ arg'[q] = arg[q],
         \A s \in Procs : state[s] = "USED" =>
           /\ state'[s] = "USED"
           /\ \/ parent'[s] = parent[s]
              \/ /\ parent[s] \in Procs
                 /\ pc[parent[s]] \notin {"fparent", "frunnable"}
  PROVE  ForkInv'
<1>1. SUFFICES ASSUME NEW q \in Procs, pc'[q] \in {"fparent", "frunnable"}
      PROVE  /\ arg'[q] \in Procs /\ state'[arg'[q]] = "USED"
             /\ pc'[q] = "fparent" =>
                  /\ parent'[arg'[q]] = NoProc
                  /\ \A r \in Procs : pc'[r] = "fparent" /\ r # q => arg'[r] # arg'[q]
             /\ pc'[q] = "frunnable" => parent'[arg'[q]] = q
  BY DEF ForkInv
<1>2. /\ pc'[q] = pc[q] /\ arg'[q] = arg[q]
      /\ arg[q] \in Procs /\ state[arg[q]] = "USED"
  BY <1>1 DEF ForkInv
<1>3. parent'[arg[q]] = parent[arg[q]]
  BY <1>1, <1>2, ProcsFacts, ZenonT(60) DEF ForkInv
<1> QED BY <1>1, <1>2, <1>3 DEF ForkInv

LEMMA UnlinkedStep ==
  ASSUME TypeOK, ForkInv, UnusedUnlinked, [Next]_vars
  PROVE  UnusedUnlinked'
<1> USE DEF tbl, UnusedUnlinked
<1>1. CASE UNCHANGED <<state, parent>>
  BY <1>1
<1>2. ASSUME NEW c \in Cpus, NEW p \in Procs, NEW v \in States \ {"UNUSED"},
             Sched(c, p, v), UNCHANGED parent
      PROVE  UnusedUnlinked'
  BY <1>2 DEF Sched, TypeOK
<1>3. ASSUME NEW p \in Procs, NEW ch, WakeupSlot(p, ch), UNCHANGED parent
      PROVE  UnusedUnlinked'
  BY <1>3 DEF WakeupSlot, TypeOK
<1>4. ASSUME NEW c \in Cpus, SchedPick(c) PROVE UnusedUnlinked'
  BY <1>4 DEF SchedPick, TypeOK
<1>5. ASSUME NEW c \in Cpus, NEW p \in Procs, ForkAlloc(c, p) PROVE UnusedUnlinked'
  BY <1>5 DEF ForkAlloc, TypeOK
<1>6. ASSUME NEW c \in Cpus, NEW p \in Procs, ForkParent(c, p) PROVE UnusedUnlinked'
  BY <1>6 DEF ForkParent, ForkInv, At, TypeOK
<1>7. ASSUME NEW c \in Cpus, NEW p \in Procs, ForkRunnable(c, p) PROVE UnusedUnlinked'
  BY <1>7 DEF ForkRunnable, TypeOK
<1>8. ASSUME NEW c \in Cpus, NEW p \in Procs, ExitReparent(c, p) PROVE UnusedUnlinked'
  BY <1>8, ProcsFacts DEF ExitReparent, TypeOK
<1>9. ASSUME NEW c \in Cpus, NEW p \in Procs, WaitReap(c, p) PROVE UnusedUnlinked'
  BY <1>9 DEF WaitReap, FreeProc, TypeOK
<1>10. ASSUME NEW c \in Cpus, NEW p \in Procs, KillFound(c, p) PROVE UnusedUnlinked'
  BY <1>10 DEF KillFound, AfterKill, TypeOK
<1>11. ASSUME NEW c \in Cpus, NEW p \in Procs,
              Yield(c, p) \/ ExitZombie(c, p) \/ WaitSleep(c, p)
       PROVE  UnusedUnlinked'
  BY <1>11, <1>2 DEF Yield, ExitZombie, WaitSleep, States
<1>12. ASSUME NEW c \in Cpus, NEW p \in Procs,
              ExitWakeInit(c, p) \/ ExitWakeParent(c, p)
       PROVE  UnusedUnlinked'
  BY <1>12, <1>3 DEF ExitWakeInit, ExitWakeParent
<1>13. ASSUME NEW c \in Cpus,
              \/ SchedSkip(c) \/ Resume(c) \/ SchedBack(c)
              \/ \E p \in Procs :
                   \/ ExitIfKilled(c, p) \/ UserRet(c, p) \/ ForkScan(c, p)
                   \/ ForkNoMemory(c, p) \/ ExitLock(c, p) \/ WaitLock(c, p)
                   \/ WaitScan(c, p) \/ WaitBadAddress(c, p) \/ KillScan(c, p)
                   \/ User(c, p)
       PROVE  UNCHANGED <<state, parent>>
  BY <1>13
  DEF SchedSkip, Resume, SchedBack, ExitIfKilled, UserRet, ForkScan,
      ForkNoMemory, ExitLock, WaitLock, WaitScan, WaitBadAddress, KillScan,
      User, SysFork, SysExit, SysWait, SysKill, Fault, Syscall
<1> QED BY <1>1, <1>4, <1>5, <1>6, <1>7, <1>8, <1>9, <1>10, <1>11, <1>12, <1>13
        DEF Next, Scheduler, Kernel, vars

LEMMA HartStep == TypeOK /\ TypeOK' /\ HartInv /\ [Next]_vars => HartInv'
<1> SUFFICES ASSUME TypeOK, TypeOK', Hart, ForkInv, UnusedUnlinked, [Next]_vars
             PROVE  Hart' /\ ForkInv'
  BY UnlinkedStep DEF HartInv, Hart
<1> USE DEF tbl, sch, frame
<1>1. CASE UNCHANGED vars
  BY <1>1, HartQuiet DEF vars, ForkInv
<1>2. ASSUME NEW c \in Cpus, Scheduler(c) PROVE Hart' /\ ForkInv'
  <2>1. CASE SchedSkip(c)
    BY <2>1, HartQuiet DEF SchedSkip, ForkInv
  <2>2. CASE SchedPick(c)
    <3>1. ForkInv'
      BY <2>2, ForkKept DEF SchedPick, TypeOK
    <3> QED BY <2>2, <3>1, HartPick
  <2>3. CASE Resume(c)
    <3>1. ForkInv'
      BY <2>3, ForkKept DEF Resume, Goto, TypeOK
    <3> QED BY <2>3, <3>1, HartResume
  <2>4. CASE SchedBack(c)
    <3>1. ForkInv'
      BY <2>4 DEF SchedBack, ForkInv
    <3> QED BY <2>4, <3>1, HartBack
  <2> QED BY <1>2, <2>1, <2>2, <2>3, <2>4 DEF Scheduler
<1>3. ASSUME NEW c \in Cpus, NEW p \in Procs, Yield(c, p) PROVE Hart' /\ ForkInv'
  <2>1. state[p] = "RUNNING"
    BY <1>3, OnHart DEF Yield
  <2>2. ForkInv'
    BY <1>3, <2>1, ForkKept DEF Yield, Sched, TypeOK
  <2> QED BY <1>3, <2>2, HartSched DEF Yield
<1>4. ASSUME NEW c \in Cpus, NEW p \in Procs, User(c, p) PROVE Hart' /\ ForkInv'
  <2> DEFINE EntersAt(l) ==
        Hart' /\ (\A q \in Procs : q # p => pc'[q] = pc[q])
        /\ pc'[p] = l /\ UNCHANGED <<state, parent>>
  <2>1. \A l \in {"falloc", "xlock", "wlock", "kscan"} :
          Syscall(c, p, l) => EntersAt(l)
    BY HartQuiet DEF Syscall, Goto, TypeOK
  <2>2. Fault(c, p) => EntersAt("xlock")
    BY HartQuiet DEF Fault, Goto, TypeOK
  <2>3. \A q \in Procs : q # p => arg'[q] = arg[q]
    BY <1>4 DEF User, SysFork, SysExit, SysWait, SysKill, Fault, TypeOK
  <2>4. \E l \in {"falloc", "xlock", "wlock", "kscan"} : Syscall(c, p, l) \/ Fault(c, p)
    BY <1>4 DEF User, SysFork, SysExit, SysWait, SysKill
  <2> QED BY <2>1, <2>2, <2>3, <2>4, ForkKept
<1>5. ASSUME NEW c \in Cpus, NEW p \in Procs, Kernel(c, p) PROVE Hart' /\ ForkInv'
  <2>0. state[p] = "RUNNING"
    BY <1>5, OnHart
    DEF Kernel, At, ExitIfKilled, UserRet, ForkScan, ForkAlloc, ForkNoMemory,
        ForkParent, ForkRunnable, ExitLock, ExitReparent, ExitWakeInit,
        ExitWakeParent, ExitZombie, WaitLock, WaitScan, WaitReap,
        WaitBadAddress, WaitSleep, KillScan, KillFound
  <2>1. CASE ExitIfKilled(c, p)
    BY <2>1, HartQuiet, ForkKept DEF ExitIfKilled, Goto, TypeOK
  <2>2. CASE UserRet(c, p)
    BY <2>2, HartQuiet, ForkKept DEF UserRet, Goto, TypeOK
  <2>3. CASE ForkScan(c, p)
    BY <2>3, HartQuiet, ForkKept DEF ForkScan, Return, Goto, TypeOK
  <2>4. CASE ForkAlloc(c, p)
    <3> DEFINE np == at[p]
    <3>1. np \in Procs /\ state[np] = "UNUSED" /\ Free(np) /\ p # np
      BY <2>4, <2>0 DEF ForkAlloc, TypeOK
    <3>2. Hart'
      <4>1. state' = [state EXCEPT ![np] = "USED"] /\ UNCHANGED <<lock, cur, mode>>
        BY <2>4 DEF ForkAlloc
      <4>2. "USED" \in States \ {"RUNNING"}
        BY DEF States
      <4> QED BY <3>1, <4>1, <4>2, HartSlot
    <3>3. /\ pc'[p] = "fparent" /\ arg'[p] = np /\ pc'[np] = "user"
          /\ state'[np] = "USED" /\ parent' = parent
          /\ \A q \in Procs \ {np} : state'[q] = state[q]
          /\ \A q \in Procs \ {p, np} : pc'[q] = pc[q] /\ arg'[q] = arg[q]
      BY <2>4, <3>1 DEF ForkAlloc, TypeOK
    <3>4. parent[np] = NoProc
      BY <3>1 DEF UnusedUnlinked
    <3>5. \A q \in Procs : pc[q] \in {"fparent", "frunnable"} => arg[q] # np
      BY <3>1 DEF ForkInv
    <3> QED BY <3>1, <3>2, <3>3, <3>4, <3>5 DEF ForkInv
  <2>5. CASE ForkNoMemory(c, p)
    BY <2>5, HartQuiet, ForkKept DEF ForkNoMemory, Return, Goto, TypeOK
  <2>6. CASE ForkParent(c, p)
    <3> DEFINE np == arg[p]
    <3>1. /\ np \in Procs /\ state[np] = "USED" /\ parent[np] = NoProc
          /\ \A q \in Procs \ {p} : pc[q] = "fparent" => arg[q] # np
      BY <2>6 DEF ForkParent, At, ForkInv
    <3>2. /\ pc'[p] = "frunnable" /\ arg' = arg /\ state' = state
          /\ parent'[np] = p
          /\ \A q \in Procs \ {np} : parent'[q] = parent[q]
          /\ \A q \in Procs \ {p} : pc'[q] = pc[q]
      BY <2>6, <3>1 DEF ForkParent, Goto, TypeOK
    <3>3. \A q \in Procs \ {p} : pc[q] = "frunnable" => arg[q] # np
      BY <3>1, ProcsFacts DEF ForkInv
    <3>4. ForkInv'
      BY <3>1, <3>2, <3>3 DEF ForkInv
    <3> QED BY <2>6, <3>4, HartQuiet DEF ForkParent
  <2>7. CASE ForkRunnable(c, p)
    <3> DEFINE np == arg[p]
    <3>1. /\ np \in Procs /\ state[np] = "USED" /\ parent[np] = p
          /\ Free(np)
      BY <2>7 DEF ForkRunnable, At, ForkInv
    <3>2. Hart'
      <4>1. state' = [state EXCEPT ![np] = "RUNNABLE"] /\ UNCHANGED <<lock, cur, mode>>
        BY <2>7 DEF ForkRunnable
      <4>2. "RUNNABLE" \in States \ {"RUNNING"}
        BY DEF States
      <4> QED BY <3>1, <4>1, <4>2, HartSlot
    <3>3. /\ pc'[p] = "ret" /\ parent' = parent
          /\ \A q \in Procs \ {np} : state'[q] = state[q]
          /\ \A q \in Procs \ {p} : pc'[q] = pc[q] /\ arg'[q] = arg[q]
      BY <2>7, <3>1 DEF ForkRunnable, Return, Goto, TypeOK
    <3>4. \A q \in Procs \ {p} : pc[q] \in {"fparent", "frunnable"} => arg[q] # np
      BY <3>1, ProcsFacts DEF ForkInv
    <3>5. ForkInv'
      BY <3>3, <3>4 DEF ForkInv
    <3> QED BY <3>2, <3>5
  <2>8. CASE ExitLock(c, p)
    BY <2>8, HartQuiet, ForkKept DEF ExitLock, Goto, TypeOK
  <2>9. CASE ExitReparent(c, p)
    BY <2>9, HartQuiet, ForkKept DEF ExitReparent, Goto, TypeOK, At
  <2>10. ASSUME NEW ch, WakeupSlot(p, ch), UNCHANGED <<lock, cur, mode>>
         PROVE  Hart' /\ \A s \in Procs : state[s] = "USED" => state'[s] = "USED"
    <3> DEFINE s == wat[p]
    <3>1. CASE state' = state
      BY <2>10, <3>1, HartQuiet
    <3>2. CASE state' # state
      <4>1. s \in Procs /\ Free(s) /\ state[s] = "SLEEPING"
            /\ state' = [state EXCEPT ![s] = "RUNNABLE"]
        BY <2>10, <3>2 DEF WakeupSlot, TypeOK
      <4>2. "RUNNABLE" \in States \ {"RUNNING"}
        BY DEF States
      <4>3. Hart'
        BY <2>10, <4>1, <4>2, HartSlot
      <4> QED BY <4>1, <4>3 DEF TypeOK
    <3> QED BY <3>1, <3>2
  <2>11. CASE ExitWakeInit(c, p)
    BY <2>11, <2>10, ForkKept DEF ExitWakeInit, Goto, TypeOK
  <2>12. CASE ExitWakeParent(c, p)
    BY <2>12, <2>10, ForkKept DEF ExitWakeParent, Goto, TypeOK
  <2>13. CASE ExitZombie(c, p)
    <3>1. Hart'
      BY <2>13, HartSched DEF ExitZombie, At
    <3>2. ForkInv'
      BY <2>13, <2>0, ForkKept DEF ExitZombie, Sched, Goto, TypeOK
    <3> QED BY <3>1, <3>2
  <2>14. CASE WaitLock(c, p)
    BY <2>14, HartQuiet, ForkKept DEF WaitLock, Goto, TypeOK
  <2>15. CASE WaitScan(c, p)
    <3>1. UNCHANGED <<lock, cur, mode, state, parent>>
      BY <2>15 DEF WaitScan
    <3>2. /\ pc'[p] \notin {"fparent", "frunnable"}
          /\ \A q \in Procs \ {p} : pc'[q] = pc[q] /\ arg'[q] = arg[q]
      BY <2>15 DEF WaitScan, Return, Goto, TypeOK, At
    <3> QED BY <3>1, <3>2, HartQuiet, ForkKept
  <2>16. CASE WaitReap(c, p)
    <3> DEFINE np == at[p]
    <3>1. np \in Procs /\ Free(np) /\ state[np] = "ZOMBIE"
      BY <2>16 DEF WaitReap, ZombieChild, TypeOK
    <3>2. Hart'
      <4>1. state' = [state EXCEPT ![np] = "UNUSED"] /\ UNCHANGED <<lock, cur, mode>>
        BY <2>16 DEF WaitReap, FreeProc
      <4>2. "UNUSED" \in States \ {"RUNNING"}
        BY DEF States
      <4> QED BY <3>1, <4>1, <4>2, HartSlot
    <3>3. ForkInv'
      BY <2>16, <3>1, ForkKept DEF WaitReap, FreeProc, Return, Goto, TypeOK
    <3> QED BY <3>2, <3>3
  <2>17. CASE WaitBadAddress(c, p)
    BY <2>17, HartQuiet, ForkKept DEF WaitBadAddress, Return, Goto, TypeOK
  <2>18. CASE WaitSleep(c, p)
    <3>1. Hart'
      BY <2>18, HartSched DEF WaitSleep, At
    <3>2. ForkInv'
      BY <2>18, <2>0, ForkKept DEF WaitSleep, Sched, Goto, TypeOK
    <3> QED BY <3>1, <3>2
  <2>19. CASE KillScan(c, p)
    BY <2>19, HartQuiet, ForkKept DEF KillScan, Return, Goto, TypeOK
  <2>20. CASE KillFound(c, p)
    <3> DEFINE s == at[p]
    <3>1. Hart'
      <4>1. CASE state[s] = "SLEEPING"
        <5>1. s \in Procs /\ Free(s) /\ UNCHANGED <<lock, cur, mode>>
              /\ state' = [state EXCEPT ![s] = "RUNNABLE"]
          BY <2>20, <4>1 DEF KillFound, AfterKill, TypeOK
        <5>2. "RUNNABLE" \in States \ {"RUNNING"}
          BY DEF States
        <5> QED BY <4>1, <5>1, <5>2, HartSlot
      <4>2. CASE state[s] # "SLEEPING"
        <5>1. UNCHANGED <<lock, cur, mode, state>>
          BY <2>20, <4>2 DEF KillFound, AfterKill, TypeOK
        <5> QED BY <5>1, HartQuiet
      <4> QED BY <4>1, <4>2
    <3>2. \A t \in Procs : state[t] = "USED" => state'[t] = "USED"
      BY <2>20 DEF KillFound, AfterKill, TypeOK
    <3>3. ForkInv'
      BY <2>20, <3>2, ForkKept DEF KillFound, Return, Goto, TypeOK
    <3> QED BY <3>1, <3>3
  <2> QED BY <1>5, <2>1, <2>2, <2>3, <2>4, <2>5, <2>6, <2>7, <2>8, <2>9, <2>11,
             <2>12, <2>13, <2>14, <2>15, <2>16, <2>17, <2>18, <2>19, <2>20
          DEF Kernel
<1> QED BY <1>1, <1>2, <1>3, <1>4, <1>5 DEF Next

LEMMA InitHart == Init => HartInv
BY ProcAssumption, ProcsFacts
   DEF Init, HartInv, LockHeldAcrossSwtch, HartOK, OneHart, RunningIffOnHart,
       ForkInv, UnusedUnlinked, NoProc

THEOREM HartCorrect == Spec => []HartInv
<1>1. Init => HartInv
  BY InitHart
<1>2. TypeOK /\ TypeOK' /\ HartInv /\ [Next]_vars => HartInv'
  BY HartStep
<1> QED BY <1>1, <1>2, TypeCorrect, PTL DEF Spec

----------------------------------------------------------------------------
(* Layer 2: wait_lock and the points of the kernel.                         *)

LEMMA WaitLockHolderStep ==
  ASSUME TypeOK, Hart, WaitLockHolder, [Next]_vars
  PROVE  WaitLockHolder'
<1> USE DEF WaitLockHolder, TypeOK, tbl, sch, frame, At, WithWaitLock, Preemptible
<1>1. CASE UNCHANGED vars
  BY <1>1 DEF vars
<1>2. ASSUME NEW c \in Cpus, Scheduler(c) PROVE WaitLockHolder'
  <2>1. CASE SchedSkip(c)
    BY <2>1, ProcAssumption, OnHart DEF SchedSkip
  <2>2. CASE SchedPick(c)
    BY <2>2, ProcAssumption, OnHart DEF SchedPick
  <2>3. CASE Resume(c)
    BY <2>3, ProcAssumption, OnHart DEF Resume, Goto
  <2>4. CASE SchedBack(c)
    BY <2>4, ProcAssumption, OnHart DEF SchedBack
  <2> QED BY <1>2, <2>1, <2>2, <2>3, <2>4 DEF Scheduler
<1>3. ASSUME NEW c \in Cpus, NEW p \in Procs, Yield(c, p) PROVE WaitLockHolder'
  BY <1>3, ProcAssumption, OnHart DEF Yield, Sched
<1>4. ASSUME NEW c \in Cpus, NEW p \in Procs, User(c, p) PROVE WaitLockHolder'
  <2>1. CASE SysFork(c, p)
    BY <2>1, ProcAssumption, OnHart DEF SysFork, Syscall, Goto
  <2>2. CASE SysExit(c, p)
    BY <2>2, ProcAssumption, OnHart DEF SysExit, Syscall, Goto
  <2>3. CASE SysWait(c, p)
    BY <2>3, ProcAssumption, OnHart DEF SysWait, Syscall, Goto
  <2>4. CASE SysKill(c, p)
    BY <2>4, ProcAssumption, OnHart DEF SysKill, Syscall, Goto
  <2>5. CASE Fault(c, p)
    BY <2>5, ProcAssumption, OnHart DEF Fault, Goto
  <2> QED BY <1>4, <2>1, <2>2, <2>3, <2>4, <2>5 DEF User
<1>5. ASSUME NEW c \in Cpus, NEW p \in Procs, Kernel(c, p) PROVE WaitLockHolder'
  <2>1. CASE ExitIfKilled(c, p)
    BY <2>1, ProcAssumption, OnHart DEF ExitIfKilled, Goto
  <2>2. CASE UserRet(c, p)
    BY <2>2, ProcAssumption, OnHart DEF UserRet, Goto
  <2>3. CASE ForkScan(c, p)
    BY <2>3, ProcAssumption, OnHart DEF ForkScan, Return, Goto
  <2>4. CASE ForkAlloc(c, p)
    BY <2>4, ProcAssumption, OnHart DEF ForkAlloc, AllocPid
  <2>5. CASE ForkNoMemory(c, p)
    BY <2>5, ProcAssumption, OnHart DEF ForkNoMemory, Return, Goto
  <2>6. CASE ForkParent(c, p)
    BY <2>6, ProcAssumption, OnHart DEF ForkParent, Goto
  <2>7. CASE ForkRunnable(c, p)
    BY <2>7, ProcAssumption, OnHart DEF ForkRunnable, Return, Goto
  <2>8. CASE ExitLock(c, p)
    BY <2>8, ProcAssumption, OnHart DEF ExitLock, Goto
  <2>9. CASE ExitReparent(c, p)
    BY <2>9, ProcAssumption, OnHart DEF ExitReparent, Goto
  <2>10. CASE ExitWakeInit(c, p)
    BY <2>10, ProcAssumption, OnHart DEF ExitWakeInit, WakeupSlot, Goto
  <2>11. CASE ExitWakeParent(c, p)
    BY <2>11, ProcAssumption, OnHart DEF ExitWakeParent, WakeupSlot, Goto
  <2>12. CASE ExitZombie(c, p)
    BY <2>12, ProcAssumption, OnHart DEF ExitZombie, Sched, Goto
  <2>13. CASE WaitLock(c, p)
    BY <2>13, ProcAssumption, OnHart DEF WaitLock, Goto
  <2>14. CASE WaitScan(c, p)
    BY <2>14, ProcAssumption, OnHart DEF WaitScan, Return, Goto
  <2>15. CASE WaitReap(c, p)
    BY <2>15, ProcAssumption, OnHart DEF WaitReap, ZombieChild, FreeProc, Return, Goto
  <2>16. CASE WaitBadAddress(c, p)
    BY <2>16, ProcAssumption, OnHart DEF WaitBadAddress, ZombieChild, Return, Goto
  <2>17. CASE WaitSleep(c, p)
    BY <2>17, ProcAssumption, OnHart DEF WaitSleep, Sched, Goto
  <2>18. CASE KillScan(c, p)
    BY <2>18, ProcAssumption, OnHart DEF KillScan, Return, Goto
  <2>19. CASE KillFound(c, p)
    BY <2>19, ProcAssumption, OnHart DEF KillFound, AfterKill, Return, Goto
  <2> QED BY <1>5, <2>1, <2>2, <2>3, <2>4, <2>5, <2>6, <2>7, <2>8, <2>9,
             <2>10, <2>11, <2>12, <2>13, <2>14, <2>15, <2>16, <2>17, <2>18, <2>19
          DEF Kernel
<1> QED BY <1>1, <1>2, <1>3, <1>4, <1>5 DEF Next

LEMMA StatePointStep ==
  ASSUME TypeOK, Hart, ForkInv, StatePoint, [Next]_vars
  PROVE  StatePoint'
<1> USE DEF StatePoint, TypeOK, tbl, sch, frame, At, Preemptible
<1>1. CASE UNCHANGED vars
  BY <1>1 DEF vars
<1>2. ASSUME NEW c \in Cpus, Scheduler(c) PROVE StatePoint'
  <2>1. CASE SchedSkip(c)
    BY <2>1, OnHart DEF SchedSkip
  <2>2. CASE SchedPick(c)
    BY <2>2, OnHart DEF SchedPick
  <2>3. CASE Resume(c)
    <3>1. cur[c] \in Procs /\ state[cur[c]] = "RUNNING"
      BY <2>3, ProcsFacts DEF Resume, Hart, HartOK
    <3>2. CASE pc[cur[c]] = "asleep"
      BY <2>3, <3>1, <3>2 DEF Resume, Goto
    <3>3. CASE pc[cur[c]] # "asleep"
      BY <2>3, <3>1, <3>3 DEF Resume
    <3> QED BY <3>2, <3>3
  <2>4. CASE SchedBack(c)
    BY <2>4, OnHart DEF SchedBack
  <2> QED BY <1>2, <2>1, <2>2, <2>3, <2>4 DEF Scheduler
<1>3. ASSUME NEW c \in Cpus, NEW p \in Procs, Yield(c, p) PROVE StatePoint'
  BY <1>3, OnHart DEF Yield, Sched
<1>4. ASSUME NEW c \in Cpus, NEW p \in Procs, User(c, p) PROVE StatePoint'
  <2>1. CASE SysFork(c, p)
    BY <2>1, OnHart DEF SysFork, Syscall, Goto
  <2>2. CASE SysExit(c, p)
    BY <2>2, OnHart DEF SysExit, Syscall, Goto
  <2>3. CASE SysWait(c, p)
    BY <2>3, OnHart DEF SysWait, Syscall, Goto
  <2>4. CASE SysKill(c, p)
    BY <2>4, OnHart DEF SysKill, Syscall, Goto
  <2>5. CASE Fault(c, p)
    BY <2>5, OnHart DEF Fault, Goto
  <2> QED BY <1>4, <2>1, <2>2, <2>3, <2>4, <2>5 DEF User
<1>5. ASSUME NEW c \in Cpus, NEW p \in Procs, Kernel(c, p) PROVE StatePoint'
  <2>1. CASE ExitIfKilled(c, p)
    BY <2>1, OnHart DEF ExitIfKilled, Goto
  <2>2. CASE UserRet(c, p)
    BY <2>2, OnHart DEF UserRet, Goto
  <2>3. CASE ForkScan(c, p)
    BY <2>3, OnHart DEF ForkScan, Return, Goto
  <2>4. CASE ForkAlloc(c, p)
    BY <2>4, OnHart DEF ForkAlloc, AllocPid
  <2>5. CASE ForkNoMemory(c, p)
    BY <2>5, OnHart DEF ForkNoMemory, Return, Goto
  <2>6. CASE ForkParent(c, p)
    BY <2>6, OnHart DEF ForkParent, Goto
  <2>7. CASE ForkRunnable(c, p)
    BY <2>7, OnHart DEF ForkRunnable, Return, Goto
  <2>8. CASE ExitLock(c, p)
    BY <2>8, OnHart DEF ExitLock, Goto
  <2>9. CASE ExitReparent(c, p)
    BY <2>9, OnHart DEF ExitReparent, Goto
  <2>10. CASE ExitWakeInit(c, p)
    BY <2>10, OnHart DEF ExitWakeInit, WakeupSlot, Goto
  <2>11. CASE ExitWakeParent(c, p)
    BY <2>11, OnHart DEF ExitWakeParent, WakeupSlot, Goto
  <2>12. CASE ExitZombie(c, p)
    BY <2>12, OnHart DEF ExitZombie, Sched, Goto
  <2>13. CASE WaitLock(c, p)
    BY <2>13, OnHart DEF WaitLock, Goto
  <2>14. CASE WaitScan(c, p)
    BY <2>14, OnHart DEF WaitScan, Return, Goto
  <2>15. CASE WaitReap(c, p)
    BY <2>15, OnHart DEF WaitReap, ZombieChild, FreeProc, Return, Goto
  <2>16. CASE WaitBadAddress(c, p)
    BY <2>16, OnHart DEF WaitBadAddress, ZombieChild, Return, Goto
  <2>17. CASE WaitSleep(c, p)
    BY <2>17, OnHart DEF WaitSleep, Sched, Goto
  <2>18. CASE KillScan(c, p)
    BY <2>18, OnHart DEF KillScan, Return, Goto
  <2>19. CASE KillFound(c, p)
    BY <2>19, OnHart DEF KillFound, AfterKill, Return, Goto
  <2> QED BY <1>5, <2>1, <2>2, <2>3, <2>4, <2>5, <2>6, <2>7, <2>8, <2>9,
             <2>10, <2>11, <2>12, <2>13, <2>14, <2>15, <2>16, <2>17, <2>18, <2>19
          DEF Kernel
<1> QED BY <1>1, <1>2, <1>3, <1>4, <1>5 DEF Next

LEMMA CursorsStep ==
  ASSUME TypeOK, StatePoint, CursorsAtStart, [Next]_vars
  PROVE  CursorsAtStart'
<1> USE DEF CursorsAtStart, TypeOK, tbl, sch, frame, At, Preemptible, Following
<1>1. CASE UNCHANGED vars
  BY <1>1 DEF vars
<1>2. ASSUME NEW c \in Cpus, Scheduler(c) PROVE CursorsAtStart'
  <2>1. CASE SchedSkip(c)
    BY <2>1 DEF SchedSkip
  <2>2. CASE SchedPick(c)
    BY <2>2 DEF SchedPick
  <2>3. CASE Resume(c)
    BY <2>3 DEF Resume, Goto
  <2>4. CASE SchedBack(c)
    BY <2>4 DEF SchedBack
  <2> QED BY <1>2, <2>1, <2>2, <2>3, <2>4 DEF Scheduler
<1>3. ASSUME NEW c \in Cpus, NEW p \in Procs, Yield(c, p) PROVE CursorsAtStart'
  BY <1>3 DEF Yield, Sched
<1>4. ASSUME NEW c \in Cpus, NEW p \in Procs, User(c, p) PROVE CursorsAtStart'
  <2>1. CASE SysFork(c, p)
    BY <2>1 DEF SysFork, Syscall, Goto
  <2>2. CASE SysExit(c, p)
    BY <2>2 DEF SysExit, Syscall, Goto
  <2>3. CASE SysWait(c, p)
    BY <2>3 DEF SysWait, Syscall, Goto
  <2>4. CASE SysKill(c, p)
    BY <2>4 DEF SysKill, Syscall, Goto
  <2>5. CASE Fault(c, p)
    BY <2>5 DEF Fault, Goto
  <2> QED BY <1>4, <2>1, <2>2, <2>3, <2>4, <2>5 DEF User
<1>5. ASSUME NEW c \in Cpus, NEW p \in Procs, Kernel(c, p) PROVE CursorsAtStart'
  <2>1. CASE ExitIfKilled(c, p)
    BY <2>1 DEF ExitIfKilled, Goto
  <2>2. CASE UserRet(c, p)
    BY <2>2 DEF UserRet, Goto
  <2>3. CASE ForkScan(c, p)
    BY <2>3 DEF ForkScan, Return, Goto
  <2>4. CASE ForkAlloc(c, p)
    BY <2>4 DEF ForkAlloc, AllocPid, StatePoint
  <2>5. CASE ForkNoMemory(c, p)
    BY <2>5 DEF ForkNoMemory, Return, Goto
  <2>6. CASE ForkParent(c, p)
    BY <2>6 DEF ForkParent, Goto
  <2>7. CASE ForkRunnable(c, p)
    BY <2>7 DEF ForkRunnable, Return, Goto
  <2>8. CASE ExitLock(c, p)
    BY <2>8 DEF ExitLock, Goto
  <2>9. CASE ExitReparent(c, p)
    BY <2>9 DEF ExitReparent, Goto
  <2>10. CASE ExitWakeInit(c, p)
    BY <2>10 DEF ExitWakeInit, WakeupSlot, Goto
  <2>11. CASE ExitWakeParent(c, p)
    BY <2>11 DEF ExitWakeParent, WakeupSlot, Goto
  <2>12. CASE ExitZombie(c, p)
    BY <2>12 DEF ExitZombie, Sched, Goto
  <2>13. CASE WaitLock(c, p)
    BY <2>13 DEF WaitLock, Goto
  <2>14. CASE WaitScan(c, p)
    BY <2>14 DEF WaitScan, Return, Goto
  <2>15. CASE WaitReap(c, p)
    BY <2>15 DEF WaitReap, ZombieChild, FreeProc, Return, Goto
  <2>16. CASE WaitBadAddress(c, p)
    BY <2>16 DEF WaitBadAddress, ZombieChild, Return, Goto
  <2>17. CASE WaitSleep(c, p)
    BY <2>17 DEF WaitSleep, Sched, Goto
  <2>18. CASE KillScan(c, p)
    BY <2>18 DEF KillScan, Return, Goto
  <2>19. CASE KillFound(c, p)
    BY <2>19 DEF KillFound, AfterKill, Return, Goto
  <2> QED BY <1>5, <2>1, <2>2, <2>3, <2>4, <2>5, <2>6, <2>7, <2>8, <2>9,
             <2>10, <2>11, <2>12, <2>13, <2>14, <2>15, <2>16, <2>17, <2>18, <2>19
          DEF Kernel
<1> QED BY <1>1, <1>2, <1>3, <1>4, <1>5 DEF Next

LEMMA InitLivesStep ==
  ASSUME TypeOK, Hart, ForkInv, InitLives, [Next]_vars
  PROVE  InitLives'
<1> USE ProcsFacts DEF InitLives, ExitPoints, TypeOK, tbl, sch, frame, At, Preemptible
<1>1. CASE UNCHANGED vars
  BY <1>1 DEF vars
<1>2. ASSUME NEW c \in Cpus, Scheduler(c) PROVE InitLives'
  <2>1. CASE SchedSkip(c)
    BY <2>1, ProcAssumption, OnHart DEF SchedSkip
  <2>2. CASE SchedPick(c)
    BY <2>2, ProcAssumption, OnHart DEF SchedPick
  <2>3. CASE Resume(c)
    BY <2>3, ProcAssumption, OnHart DEF Resume, Goto
  <2>4. CASE SchedBack(c)
    BY <2>4, ProcAssumption, OnHart DEF SchedBack
  <2> QED BY <1>2, <2>1, <2>2, <2>3, <2>4 DEF Scheduler
<1>3. ASSUME NEW c \in Cpus, NEW p \in Procs, Yield(c, p) PROVE InitLives'
  BY <1>3, ProcAssumption, OnHart DEF Yield, Sched
<1>4. ASSUME NEW c \in Cpus, NEW p \in Procs, User(c, p) PROVE InitLives'
  <2>1. CASE SysFork(c, p)
    BY <2>1, ProcAssumption, OnHart DEF SysFork, Syscall, Goto
  <2>2. CASE SysExit(c, p)
    BY <2>2, ProcAssumption, OnHart DEF SysExit, Syscall, Goto
  <2>3. CASE SysWait(c, p)
    BY <2>3, ProcAssumption, OnHart DEF SysWait, Syscall, Goto
  <2>4. CASE SysKill(c, p)
    BY <2>4, ProcAssumption, OnHart DEF SysKill, Syscall, Goto
  <2>5. CASE Fault(c, p)
    BY <2>5, ProcAssumption, OnHart DEF Fault, Goto
  <2> QED BY <1>4, <2>1, <2>2, <2>3, <2>4, <2>5 DEF User
<1>5. ASSUME NEW c \in Cpus, NEW p \in Procs, Kernel(c, p) PROVE InitLives'
  <2>1. CASE ExitIfKilled(c, p)
    BY <2>1, ProcAssumption, OnHart DEF ExitIfKilled, Goto
  <2>2. CASE UserRet(c, p)
    BY <2>2, ProcAssumption, OnHart DEF UserRet, Goto
  <2>3. CASE ForkScan(c, p)
    BY <2>3, ProcAssumption, OnHart DEF ForkScan, Return, Goto
  <2>4. CASE ForkAlloc(c, p)
    BY <2>4, ProcAssumption, OnHart DEF ForkAlloc, AllocPid
  <2>5. CASE ForkNoMemory(c, p)
    BY <2>5, ProcAssumption, OnHart DEF ForkNoMemory, Return, Goto
  <2>6. CASE ForkParent(c, p)
    BY <2>6, ProcAssumption, OnHart DEF ForkParent, Goto
  <2>7. CASE ForkRunnable(c, p)
    BY <2>7, ProcAssumption, OnHart DEF ForkRunnable, Return, Goto
  <2>8. CASE ExitLock(c, p)
    BY <2>8, ProcAssumption, OnHart DEF ExitLock, Goto
  <2>9. CASE ExitReparent(c, p)
    BY <2>9, ProcAssumption, OnHart DEF ExitReparent, Goto
  <2>10. CASE ExitWakeInit(c, p)
    BY <2>10, ProcAssumption, OnHart DEF ExitWakeInit, WakeupSlot, Goto
  <2>11. CASE ExitWakeParent(c, p)
    BY <2>11, ProcAssumption, OnHart DEF ExitWakeParent, WakeupSlot, Goto
  <2>12. CASE ExitZombie(c, p)
    BY <2>12, ProcAssumption, OnHart DEF ExitZombie, Sched, Goto
  <2>13. CASE WaitLock(c, p)
    BY <2>13, ProcAssumption, OnHart DEF WaitLock, Goto
  <2>14. CASE WaitScan(c, p)
    BY <2>14, ProcAssumption, OnHart DEF WaitScan, Return, Goto
  <2>15. CASE WaitReap(c, p)
    BY <2>15, ProcAssumption, OnHart DEF WaitReap, ZombieChild, FreeProc, Return, Goto
  <2>16. CASE WaitBadAddress(c, p)
    BY <2>16, ProcAssumption, OnHart DEF WaitBadAddress, ZombieChild, Return, Goto
  <2>17. CASE WaitSleep(c, p)
    BY <2>17, ProcAssumption, OnHart DEF WaitSleep, Sched, Goto
  <2>18. CASE KillScan(c, p)
    BY <2>18, ProcAssumption, OnHart DEF KillScan, Return, Goto
  <2>19. CASE KillFound(c, p)
    BY <2>19, ProcAssumption, OnHart DEF KillFound, AfterKill, Return, Goto
  <2> QED BY <1>5, <2>1, <2>2, <2>3, <2>4, <2>5, <2>6, <2>7, <2>8, <2>9,
             <2>10, <2>11, <2>12, <2>13, <2>14, <2>15, <2>16, <2>17, <2>18, <2>19
          DEF Kernel
<1> QED BY <1>1, <1>2, <1>3, <1>4, <1>5 DEF Next


----------------------------------------------------------------------------
(* Layer 3: the process tree.                                             *)

\* At most one process holds wait_lock.
LEMMA WaitLockExclusive ==
  ASSUME Hart, WaitLockHolder
  PROVE  /\ \A p \in Procs : pc[p] \in WithWaitLock => wait_lock # NoCpu
         /\ \A p, q \in Procs :
              pc[p] \in WithWaitLock /\ pc[q] \in WithWaitLock => p = q
BY ProcAssumption DEF WaitLockHolder, Hart, OneHart

LEMMA HasParentStep ==
  ASSUME TypeOK, Hart, ForkInv, InitLives, StatePoint, HasParent, [Next]_vars
  PROVE  HasParent'
<1> USE ProcsFacts DEF HasParent, InitLives, TypeOK, tbl, sch, frame, At, Preemptible
<1>1. CASE UNCHANGED vars
  BY <1>1 DEF vars
<1>2. ASSUME NEW c \in Cpus, Scheduler(c) PROVE HasParent'
  <2>1. CASE SchedSkip(c)
    BY <2>1, OnHart DEF SchedSkip
  <2>2. CASE SchedPick(c)
    BY <2>2, OnHart DEF SchedPick
  <2>3. CASE Resume(c)
    BY <2>3, OnHart DEF Resume, Goto
  <2>4. CASE SchedBack(c)
    BY <2>4, OnHart DEF SchedBack
  <2> QED BY <1>2, <2>1, <2>2, <2>3, <2>4 DEF Scheduler
<1>3. ASSUME NEW c \in Cpus, NEW p \in Procs, Yield(c, p) PROVE HasParent'
  BY <1>3, OnHart DEF Yield, Sched
<1>4. ASSUME NEW c \in Cpus, NEW p \in Procs, User(c, p) PROVE HasParent'
  <2>1. CASE SysFork(c, p)
    BY <2>1, OnHart DEF SysFork, Syscall, Goto
  <2>2. CASE SysExit(c, p)
    BY <2>2, OnHart DEF SysExit, Syscall, Goto
  <2>3. CASE SysWait(c, p)
    BY <2>3, OnHart DEF SysWait, Syscall, Goto
  <2>4. CASE SysKill(c, p)
    BY <2>4, OnHart DEF SysKill, Syscall, Goto
  <2>5. CASE Fault(c, p)
    BY <2>5, OnHart DEF Fault, Goto
  <2> QED BY <1>4, <2>1, <2>2, <2>3, <2>4, <2>5 DEF User
<1>5. ASSUME NEW c \in Cpus, NEW p \in Procs, Kernel(c, p) PROVE HasParent'
  <2>1. CASE ExitIfKilled(c, p)
    BY <2>1, OnHart DEF ExitIfKilled, Goto
  <2>2. CASE UserRet(c, p)
    BY <2>2, OnHart DEF UserRet, Goto
  <2>3. CASE ForkScan(c, p)
    BY <2>3, OnHart DEF ForkScan, Return, Goto
  <2>4. CASE ForkAlloc(c, p)
    BY <2>4, OnHart DEF ForkAlloc, AllocPid
  <2>5. CASE ForkNoMemory(c, p)
    BY <2>5, OnHart DEF ForkNoMemory, Return, Goto
  <2>6. CASE ForkParent(c, p)
    <3>1. /\ arg[p] \in Procs /\ state[arg[p]] = "USED" /\ state[p] = "RUNNING"
      BY <2>6, OnHart DEF ForkParent, ForkInv
    <3> QED BY <2>6, <3>1 DEF ForkParent
  <2>7. CASE ForkRunnable(c, p)
    <3>1. arg[p] \in Procs /\ parent[arg[p]] = p
      BY <2>7 DEF ForkRunnable, ForkInv
    <3> QED BY <2>7, <3>1 DEF ForkRunnable
  <2>8. CASE ExitLock(c, p)
    BY <2>8, OnHart DEF ExitLock, Goto
  <2>9. CASE ExitReparent(c, p)
    BY <2>9, OnHart DEF ExitReparent, Goto
  <2>10. CASE ExitWakeInit(c, p)
    BY <2>10, OnHart DEF ExitWakeInit, WakeupSlot, Goto
  <2>11. CASE ExitWakeParent(c, p)
    BY <2>11, OnHart DEF ExitWakeParent, WakeupSlot, Goto
  <2>12. CASE ExitZombie(c, p)
    BY <2>12, OnHart DEF ExitZombie, Sched, Goto
  <2>13. CASE WaitLock(c, p)
    BY <2>13, OnHart DEF WaitLock, Goto
  <2>14. CASE WaitScan(c, p)
    BY <2>14, OnHart DEF WaitScan, Return, Goto
  <2>15. CASE WaitReap(c, p)
    BY <2>15, OnHart DEF WaitReap, ZombieChild, FreeProc, Return, Goto
  <2>16. CASE WaitBadAddress(c, p)
    BY <2>16, OnHart DEF WaitBadAddress, ZombieChild, Return, Goto
  <2>17. CASE WaitSleep(c, p)
    BY <2>17, OnHart DEF WaitSleep, Sched, Goto
  <2>18. CASE KillScan(c, p)
    BY <2>18, OnHart DEF KillScan, Return, Goto
  <2>19. CASE KillFound(c, p)
    BY <2>19, OnHart DEF KillFound, AfterKill, Return, Goto
  <2> QED BY <1>5, <2>1, <2>2, <2>3, <2>4, <2>5, <2>6, <2>7, <2>8, <2>9,
             <2>10, <2>11, <2>12, <2>13, <2>14, <2>15, <2>16, <2>17, <2>18, <2>19
          DEF Kernel
<1> QED BY <1>1, <1>2, <1>3, <1>4, <1>5 DEF Next

LEMMA ChildlessStep ==
  ASSUME TypeOK, Hart, ForkInv, InitLives, StatePoint, CursorsAtStart,
         HasParent, Childless, [Next]_vars
  PROVE  Childless'
<1> USE ProcsFacts, ProcsRange DEF Childless, TypeOK, tbl, sch, frame, At, Preemptible
<1>1. CASE UNCHANGED vars
  BY <1>1 DEF vars
<1>2. ASSUME NEW c \in Cpus, Scheduler(c) PROVE Childless'
  <2>1. CASE SchedSkip(c)
    BY <2>1, OnHart DEF SchedSkip
  <2>2. CASE SchedPick(c)
    BY <2>2, OnHart DEF SchedPick
  <2>3. CASE Resume(c)
    BY <2>3, OnHart DEF Resume, Goto
  <2>4. CASE SchedBack(c)
    BY <2>4, OnHart DEF SchedBack
  <2> QED BY <1>2, <2>1, <2>2, <2>3, <2>4 DEF Scheduler
<1>3. ASSUME NEW c \in Cpus, NEW p \in Procs, Yield(c, p) PROVE Childless'
  BY <1>3, OnHart DEF Yield, Sched
<1>4. ASSUME NEW c \in Cpus, NEW p \in Procs, User(c, p) PROVE Childless'
  <2>1. CASE SysFork(c, p)
    BY <2>1, OnHart DEF SysFork, Syscall, Goto
  <2>2. CASE SysExit(c, p)
    BY <2>2, OnHart DEF SysExit, Syscall, Goto
  <2>3. CASE SysWait(c, p)
    BY <2>3, OnHart DEF SysWait, Syscall, Goto
  <2>4. CASE SysKill(c, p)
    BY <2>4, OnHart DEF SysKill, Syscall, Goto
  <2>5. CASE Fault(c, p)
    BY <2>5, OnHart DEF Fault, Goto
  <2> QED BY <1>4, <2>1, <2>2, <2>3, <2>4, <2>5 DEF User
<1>5. ASSUME NEW c \in Cpus, NEW p \in Procs, Kernel(c, p) PROVE Childless'
  <2>1. CASE ExitIfKilled(c, p)
    BY <2>1, OnHart DEF ExitIfKilled, Goto
  <2>2. CASE UserRet(c, p)
    BY <2>2, OnHart DEF UserRet, Goto
  <2>3. CASE ForkScan(c, p)
    BY <2>3, OnHart DEF ForkScan, Return, Goto
  <2>4. CASE ForkAlloc(c, p)
    BY <2>4, OnHart DEF ForkAlloc, AllocPid
  <2>5. CASE ForkNoMemory(c, p)
    BY <2>5, OnHart DEF ForkNoMemory, Return, Goto
  <2>6. CASE ForkParent(c, p)
    BY <2>6, OnHart DEF ForkParent, Goto
  <2>7. CASE ForkRunnable(c, p)
    BY <2>7, OnHart DEF ForkRunnable, Return, Goto
  <2>8. CASE ExitLock(c, p)
    <3>1. at[p] = 1 /\ \A s \in Procs : s >= 1
      BY <2>8 DEF ExitLock, CursorsAtStart, Procs
    <3>2. pc' = [pc EXCEPT ![p] = "xreparent"] /\ at' = at /\ parent' = parent
      BY <2>8 DEF ExitLock, Goto
    <3> QED BY <3>1, <3>2
  <2>9. CASE ExitReparent(c, p)
    <3>1. /\ pc[p] = "xreparent" /\ \A s \in Procs : parent[s] = p => s >= at[p]
          /\ at[p] \in Procs /\ at[p] \in Nat
          /\ p # initproc
      BY <2>9 DEF ExitReparent, InitLives, ExitPoints
    <3>2. CASE parent[at[p]] = p
      <4>1. /\ pc' = [pc EXCEPT ![p] = "xwakeinit"] /\ at' = at
            /\ parent' = [parent EXCEPT ![at[p]] = initproc]
        BY <2>9, <3>2 DEF ExitReparent, Goto
      <4>2. \A s \in Procs : parent'[s] = p => s > at[p]
        <5> SUFFICES ASSUME NEW s \in Procs, parent'[s] = p PROVE s > at[p]
          OBVIOUS
        <5>1. s # at[p] /\ parent[s] = p
          BY <3>1, <4>1
        <5> QED BY <3>1, <5>1
      <4>3. \A q \in Procs \ {p, initproc}, s \in Procs : parent'[s] = q => parent[s] = q
        BY <4>1
      <4> QED BY <3>1, <4>1, <4>2, <4>3 DEF InitLives, ExitPoints
    <3>3. CASE parent[at[p]] # p /\ at[p] # NPROC
      <4>1. /\ pc' = pc /\ at' = [at EXCEPT ![p] = @ + 1] /\ parent' = parent
        BY <2>9, <3>3 DEF ExitReparent, Goto, Following
      <4>2. \A s \in Procs : parent[s] = p => s >= at[p] + 1
        BY <3>1, <3>3
      <4>3. \A q \in Procs \ {p} : at'[q] = at[q]
        BY <4>1
      <4>4. at'[p] = at[p] + 1
        BY <4>1
      <4> QED BY <3>1, <4>1, <4>2, <4>3, <4>4
    <3>4. CASE parent[at[p]] # p /\ at[p] = NPROC
      <4>1. /\ pc' = [pc EXCEPT ![p] = "xwakeparent"] /\ parent' = parent
            /\ \A q \in Procs \ {p} : at'[q] = at[q]
        BY <2>9, <3>4 DEF ExitReparent, Goto
      <4>2. \A s \in Procs : parent[s] # p
        BY <3>1, <3>4
      <4> QED BY <4>1, <4>2
    <3> QED BY <3>2, <3>3, <3>4
  <2>10. CASE ExitWakeInit(c, p)
    <3>1. /\ pc[p] = "xwakeinit" /\ \A s \in Procs : parent[s] = p => s > at[p]
          /\ at[p] \in Procs /\ at[p] \in Nat
          /\ parent' = parent
      BY <2>10 DEF ExitWakeInit
    <3>2. CASE wat[p] # NPROC
      BY <2>10, <3>1, <3>2 DEF ExitWakeInit
    <3>3. CASE wat[p] = NPROC /\ at[p] # NPROC
      <4>1. /\ pc' = [pc EXCEPT ![p] = "xreparent"] /\ at' = [at EXCEPT ![p] = @ + 1]
        BY <2>10, <3>3 DEF ExitWakeInit, Goto, Following
      <4>2. at'[p] = at[p] + 1 /\ \A q \in Procs \ {p} : at'[q] = at[q]
        BY <4>1
      <4>3. \A s \in Procs : parent[s] = p => s >= at[p] + 1
        BY <3>1
      <4> QED BY <3>1, <4>1, <4>2, <4>3
    <3>4. CASE wat[p] = NPROC /\ at[p] = NPROC
      <4>1. /\ pc' = [pc EXCEPT ![p] = "xwakeparent"]
            /\ \A q \in Procs \ {p} : at'[q] = at[q]
        BY <2>10, <3>4 DEF ExitWakeInit, Goto
      <4>2. \A s \in Procs : parent[s] # p
        BY <3>1, <3>4
      <4> QED BY <3>1, <4>1, <4>2
    <3> QED BY <3>2, <3>3, <3>4
  <2>11. CASE ExitWakeParent(c, p)
    BY <2>11, OnHart DEF ExitWakeParent, WakeupSlot, Goto
  <2>12. CASE ExitZombie(c, p)
    BY <2>12, OnHart DEF ExitZombie, Sched, Goto
  <2>13. CASE WaitLock(c, p)
    BY <2>13, OnHart DEF WaitLock, Goto
  <2>14. CASE WaitScan(c, p)
    BY <2>14, OnHart DEF WaitScan, Return, Goto
  <2>15. CASE WaitReap(c, p)
    BY <2>15, OnHart DEF WaitReap, ZombieChild, FreeProc, Return, Goto
  <2>16. CASE WaitBadAddress(c, p)
    BY <2>16, OnHart DEF WaitBadAddress, ZombieChild, Return, Goto
  <2>17. CASE WaitSleep(c, p)
    BY <2>17, OnHart DEF WaitSleep, Sched, Goto
  <2>18. CASE KillScan(c, p)
    BY <2>18, OnHart DEF KillScan, Return, Goto
  <2>19. CASE KillFound(c, p)
    BY <2>19, OnHart DEF KillFound, AfterKill, Return, Goto
  <2> QED BY <1>5, <2>1, <2>2, <2>3, <2>4, <2>5, <2>6, <2>7, <2>8, <2>9,
             <2>10, <2>11, <2>12, <2>13, <2>14, <2>15, <2>16, <2>17, <2>18, <2>19
          DEF Kernel
<1> QED BY <1>1, <1>2, <1>3, <1>4, <1>5 DEF Next

LEMMA LiveParentStep ==
  ASSUME TypeOK, Hart, ForkInv, InitLives, HasParent, Childless, LiveParent,
         [Next]_vars
  PROVE  LiveParent'
<1> USE ProcsFacts DEF LiveParent, TypeOK, tbl, sch, frame, At, Preemptible
<1>1. CASE UNCHANGED vars
  BY <1>1 DEF vars
<1>2. ASSUME NEW c \in Cpus, Scheduler(c) PROVE LiveParent'
  <2>1. CASE SchedSkip(c)
    BY <2>1, OnHart DEF SchedSkip
  <2>2. CASE SchedPick(c)
    BY <2>2, OnHart DEF SchedPick
  <2>3. CASE Resume(c)
    BY <2>3, OnHart DEF Resume, Goto
  <2>4. CASE SchedBack(c)
    BY <2>4, OnHart DEF SchedBack
  <2> QED BY <1>2, <2>1, <2>2, <2>3, <2>4 DEF Scheduler
<1>3. ASSUME NEW c \in Cpus, NEW p \in Procs, Yield(c, p) PROVE LiveParent'
  BY <1>3, OnHart DEF Yield, Sched
<1>4. ASSUME NEW c \in Cpus, NEW p \in Procs, User(c, p) PROVE LiveParent'
  <2>1. CASE SysFork(c, p)
    BY <2>1, OnHart DEF SysFork, Syscall, Goto
  <2>2. CASE SysExit(c, p)
    BY <2>2, OnHart DEF SysExit, Syscall, Goto
  <2>3. CASE SysWait(c, p)
    BY <2>3, OnHart DEF SysWait, Syscall, Goto
  <2>4. CASE SysKill(c, p)
    BY <2>4, OnHart DEF SysKill, Syscall, Goto
  <2>5. CASE Fault(c, p)
    BY <2>5, OnHart DEF Fault, Goto
  <2> QED BY <1>4, <2>1, <2>2, <2>3, <2>4, <2>5 DEF User
<1>5. ASSUME NEW c \in Cpus, NEW p \in Procs, Kernel(c, p) PROVE LiveParent'
  <2>1. CASE ExitIfKilled(c, p)
    BY <2>1, OnHart DEF ExitIfKilled, Goto
  <2>2. CASE UserRet(c, p)
    BY <2>2, OnHart DEF UserRet, Goto
  <2>3. CASE ForkScan(c, p)
    BY <2>3, OnHart DEF ForkScan, Return, Goto
  <2>4. CASE ForkAlloc(c, p)
    BY <2>4, OnHart DEF ForkAlloc, AllocPid
  <2>5. CASE ForkNoMemory(c, p)
    BY <2>5, OnHart DEF ForkNoMemory, Return, Goto
  <2>6. CASE ForkParent(c, p)
    BY <2>6, OnHart DEF ForkParent, Goto
  <2>7. CASE ForkRunnable(c, p)
    BY <2>7, OnHart DEF ForkRunnable, Return, Goto
  <2>8. CASE ExitLock(c, p)
    BY <2>8, OnHart DEF ExitLock, Goto
  <2>9. CASE ExitReparent(c, p)
    <3>1. state' = state /\ state[initproc] \in {"SLEEPING", "RUNNABLE", "RUNNING"}
      BY <2>9 DEF ExitReparent, InitLives
    <3>2. \A s \in Procs : parent'[s] \in {parent[s], initproc}
      BY <2>9 DEF ExitReparent
    <3> QED BY <3>1, <3>2
  <2>10. CASE ExitWakeInit(c, p)
    BY <2>10, OnHart DEF ExitWakeInit, WakeupSlot, Goto
  <2>11. CASE ExitWakeParent(c, p)
    BY <2>11, OnHart DEF ExitWakeParent, WakeupSlot, Goto
  <2>12. CASE ExitZombie(c, p)
    <3>1. \A s \in Procs : parent[s] # p
      BY <2>12 DEF ExitZombie, Childless
    <3>2. parent' = parent /\ \A s \in Procs \ {p} : state'[s] = state[s]
      BY <2>12 DEF ExitZombie, Sched
    <3> QED BY <3>1, <3>2
  <2>13. CASE WaitLock(c, p)
    BY <2>13, OnHart DEF WaitLock, Goto
  <2>14. CASE WaitScan(c, p)
    BY <2>14, OnHart DEF WaitScan, Return, Goto
  <2>15. CASE WaitReap(c, p)
    BY <2>15, OnHart DEF WaitReap, ZombieChild, FreeProc, Return, Goto
  <2>16. CASE WaitBadAddress(c, p)
    BY <2>16, OnHart DEF WaitBadAddress, ZombieChild, Return, Goto
  <2>17. CASE WaitSleep(c, p)
    BY <2>17, OnHart DEF WaitSleep, Sched, Goto
  <2>18. CASE KillScan(c, p)
    BY <2>18, OnHart DEF KillScan, Return, Goto
  <2>19. CASE KillFound(c, p)
    BY <2>19, OnHart DEF KillFound, AfterKill, Return, Goto
  <2> QED BY <1>5, <2>1, <2>2, <2>3, <2>4, <2>5, <2>6, <2>7, <2>8, <2>9,
             <2>10, <2>11, <2>12, <2>13, <2>14, <2>15, <2>16, <2>17, <2>18, <2>19
          DEF Kernel
<1> QED BY <1>1, <1>2, <1>3, <1>4, <1>5 DEF Next


----------------------------------------------------------------------------
(* Layer 4: no exit is lost.                                            *)

Upto3 == Hart /\ ForkInv /\ PointInv /\ TreeInv

\* A process that holds wait_lock in exit().
LEMMA Exiter ==
  ASSUME TypeOK, Upto3, NEW p \in Procs,
         pc[p] \in {"xreparent", "xwakeinit", "xwakeparent", "xzombie"}
  PROVE  /\ p # initproc /\ state[p] = "RUNNING"
         /\ parent[p] \in Procs /\ parent[p] # p
         /\ \A q \in Procs \ {p} : pc[q] \notin WithWaitLock
<1>1. p # initproc
  BY DEF Upto3, PointInv, InitLives, ExitPoints
<1>2. state[p] = "RUNNING"
  BY DEF Upto3, PointInv, WaitLockHolder, WithWaitLock, Hart, HartOK
<1>3. \A q \in Procs \ {p} : pc[q] \notin WithWaitLock
  BY WaitLockExclusive DEF Upto3, PointInv, WithWaitLock
<1> QED BY <1>1, <1>2, <1>3 DEF Upto3, TreeInv, HasParent, TypeOK

LEMMA WaitInvStep ==
  ASSUME TypeOK, Upto3, WaitInv, [Next]_vars
  PROVE  WaitInv'
<1> USE ProcsFacts, ProcsRange, WaitLockExclusive
    DEF WaitInv, Upto3, PointInv, TypeOK, WithWaitLock, tbl, sch, frame, At, Preemptible
<1>1. CASE UNCHANGED vars
  BY <1>1 DEF vars
<1>2. ASSUME NEW c \in Cpus, Scheduler(c) PROVE WaitInv'
  <2>1. CASE SchedSkip(c)
    BY <2>1 DEF SchedSkip
  <2>2. CASE SchedPick(c)
    BY <2>2 DEF SchedPick
  <2>3. CASE Resume(c)
    BY <2>3 DEF Resume, Goto
  <2>4. CASE SchedBack(c)
    BY <2>4 DEF SchedBack
  <2> QED BY <1>2, <2>1, <2>2, <2>3, <2>4 DEF Scheduler
<1>3. ASSUME NEW c \in Cpus, NEW p \in Procs, Yield(c, p) PROVE WaitInv'
  BY <1>3 DEF Yield, Sched
<1>4. ASSUME NEW c \in Cpus, NEW p \in Procs, User(c, p) PROVE WaitInv'
  <2>1. CASE SysFork(c, p)
    BY <2>1 DEF SysFork, Syscall, Goto
  <2>2. CASE SysExit(c, p)
    BY <2>2 DEF SysExit, Syscall, Goto
  <2>3. CASE SysWait(c, p)
    BY <2>3 DEF SysWait, Syscall, Goto
  <2>4. CASE SysKill(c, p)
    BY <2>4 DEF SysKill, Syscall, Goto
  <2>5. CASE Fault(c, p)
    BY <2>5 DEF Fault, Goto
  <2> QED BY <1>4, <2>1, <2>2, <2>3, <2>4, <2>5 DEF User
<1>5. ASSUME NEW c \in Cpus, NEW p \in Procs, Kernel(c, p) PROVE WaitInv'
  <2>1. CASE ExitIfKilled(c, p)
    BY <2>1 DEF ExitIfKilled, Goto
  <2>2. CASE UserRet(c, p)
    BY <2>2 DEF UserRet, Goto
  <2>3. CASE ForkScan(c, p)
    BY <2>3 DEF ForkScan, Return, Goto
  <2>4. CASE ForkAlloc(c, p)
    BY <2>4 DEF ForkAlloc, AllocPid
  <2>5. CASE ForkNoMemory(c, p)
    BY <2>5 DEF ForkNoMemory, Return, Goto
  <2>6. CASE ForkParent(c, p)
    BY <2>6 DEF ForkParent, Goto
  <2>7. CASE ForkRunnable(c, p)
    BY <2>7 DEF ForkRunnable, Return, Goto
  <2>8. CASE ExitLock(c, p)
    BY <2>8 DEF ExitLock, Goto
  <2>9. CASE ExitReparent(c, p)
    BY <2>9 DEF ExitReparent, Goto
  <2>10. CASE ExitWakeInit(c, p)
    BY <2>10 DEF ExitWakeInit, WakeupSlot, Goto
  <2>11. CASE ExitWakeParent(c, p)
    BY <2>11 DEF ExitWakeParent, WakeupSlot, Goto
  <2>12. CASE ExitZombie(c, p)
    BY <2>12 DEF ExitZombie, Sched, Goto
  <2>13. CASE WaitLock(c, p)
    <3>1. at[p] = 1 /\ ~havekids[p] /\ \A q \in Procs : pc[q] \notin WithWaitLock
      BY <2>13 DEF WaitLock, CursorsAtStart
    <3>2. /\ pc' = [pc EXCEPT ![p] = "wscan"]
          /\ UNCHANGED <<at, havekids, state, parent>>
      BY <2>13 DEF WaitLock, Goto
    <3> QED BY <3>1, <3>2
  <2>14. CASE WaitScan(c, p)
    <3>1. /\ pc[p] = "wscan" /\ UNCHANGED <<state, parent>>
          /\ parent[at[p]] = p => state[at[p]] # "ZOMBIE"
          /\ \A q \in Procs \ {p} : pc'[q] = pc[q] /\ pc[q] \notin WithWaitLock
      BY <2>14 DEF WaitScan, Return, Goto
    <3>2. CASE at[p] < NPROC
      <4>1. /\ pc'[p] = "wscan" /\ at'[p] = at[p] + 1
            /\ havekids'[p] = (havekids[p] \/ parent[at[p]] = p)
        BY <2>14, <3>2, ZenonT(60) DEF WaitScan
      <4> HIDE DEF WaitInv, Upto3, PointInv
      <4>2. \A s \in Procs : s < at[p] + 1 => s < at[p] \/ s = at[p]
        <5>1. at[p] \in Nat /\ \A s \in Procs : s \in Nat
          BY ProcsRange
        <5> QED BY <5>1
      <4> USE DEF WaitInv, Upto3, PointInv
      <4>3. \A s \in Procs : parent[s] = p /\ s < at[p] + 1 => state[s] # "ZOMBIE"
        BY <3>1, <4>2
      <4>4. havekids'[p] => \E s \in Procs : parent[s] = p
        BY <3>1, <4>1
      <4> QED BY <3>1, <4>1, <4>3, <4>4
    <3>3. CASE ~(at[p] < NPROC) /\ Return(p)
      BY <3>1, <3>3 DEF Return, Goto
    <3>4. CASE ~(at[p] < NPROC) /\ ~Return(p)
      <4>1. pc'[p] = "wsleep" /\ (havekids[p] \/ parent[at[p]] = p)
        BY <2>14, <3>4 DEF WaitScan, GiveUp, Goto
      <4>2. \A s \in Procs : s < at[p] \/ s = at[p]
        <5>1. at[p] \in Nat /\ NPROC \in Nat /\ at[p] <= NPROC
          BY ProcsRange
        <5>2. at[p] = NPROC
          BY <5>1, <3>4
        <5>3. \A s \in Procs : s \in Nat /\ s <= NPROC
          BY ProcsRange
        <5> QED BY <5>2, <5>3
      <4>3. \A s \in Procs : parent[s] = p => state[s] # "ZOMBIE"
        BY <3>1, <4>2
      <4>4. \E s \in Procs : parent[s] = p
        BY <3>1, <4>1
      <4> QED BY <3>1, <4>1, <4>3, <4>4
    <3> QED BY <3>2, <3>3, <3>4
  <2>15. CASE WaitReap(c, p)
    BY <2>15 DEF WaitReap, ZombieChild, FreeProc, Return, Goto
  <2>16. CASE WaitBadAddress(c, p)
    BY <2>16 DEF WaitBadAddress, ZombieChild, Return, Goto
  <2>17. CASE WaitSleep(c, p)
    BY <2>17 DEF WaitSleep, Sched, Goto
  <2>18. CASE KillScan(c, p)
    BY <2>18 DEF KillScan, Return, Goto
  <2>19. CASE KillFound(c, p)
    BY <2>19 DEF KillFound, AfterKill, Return, Goto
  <2> QED BY <1>5, <2>1, <2>2, <2>3, <2>4, <2>5, <2>6, <2>7, <2>8, <2>9,
             <2>10, <2>11, <2>12, <2>13, <2>14, <2>15, <2>16, <2>17, <2>18, <2>19
          DEF Kernel
<1> QED BY <1>1, <1>2, <1>3, <1>4, <1>5 DEF Next

LEMMA ExitInvStep ==
  ASSUME TypeOK, Upto3, ExitInv, [Next]_vars
  PROVE  ExitInv'
<1> USE ProcsFacts, ProcsRange, WaitLockExclusive
    DEF ExitInv, Upto3, PointInv, TypeOK, WithWaitLock, tbl, sch, frame, At, Preemptible
<1>1. CASE UNCHANGED vars
  BY <1>1 DEF vars
<1>2. ASSUME NEW c \in Cpus, Scheduler(c) PROVE ExitInv'
  <2>1. CASE SchedSkip(c)
    BY <2>1 DEF SchedSkip
  <2>2. CASE SchedPick(c)
    BY <2>2 DEF SchedPick
  <2>3. CASE Resume(c)
    BY <2>3 DEF Resume, Goto
  <2>4. CASE SchedBack(c)
    BY <2>4 DEF SchedBack
  <2> QED BY <1>2, <2>1, <2>2, <2>3, <2>4 DEF Scheduler
<1>3. ASSUME NEW c \in Cpus, NEW p \in Procs, Yield(c, p) PROVE ExitInv'
  BY <1>3 DEF Yield, Sched
<1>4. ASSUME NEW c \in Cpus, NEW p \in Procs, User(c, p) PROVE ExitInv'
  <2>1. CASE SysFork(c, p)
    BY <2>1 DEF SysFork, Syscall, Goto
  <2>2. CASE SysExit(c, p)
    BY <2>2 DEF SysExit, Syscall, Goto
  <2>3. CASE SysWait(c, p)
    BY <2>3 DEF SysWait, Syscall, Goto
  <2>4. CASE SysKill(c, p)
    BY <2>4 DEF SysKill, Syscall, Goto
  <2>5. CASE Fault(c, p)
    BY <2>5 DEF Fault, Goto
  <2> QED BY <1>4, <2>1, <2>2, <2>3, <2>4, <2>5 DEF User
<1>5. ASSUME NEW c \in Cpus, NEW p \in Procs, Kernel(c, p) PROVE ExitInv'
  <2>1. CASE ExitIfKilled(c, p)
    BY <2>1 DEF ExitIfKilled, Goto
  <2>2. CASE UserRet(c, p)
    BY <2>2 DEF UserRet, Goto
  <2>3. CASE ForkScan(c, p)
    BY <2>3 DEF ForkScan, Return, Goto
  <2>4. CASE ForkAlloc(c, p)
    BY <2>4 DEF ForkAlloc, AllocPid
  <2>5. CASE ForkNoMemory(c, p)
    BY <2>5 DEF ForkNoMemory, Return, Goto
  <2>6. CASE ForkParent(c, p)
    BY <2>6 DEF ForkParent, Goto
  <2>7. CASE ForkRunnable(c, p)
    BY <2>7 DEF ForkRunnable, Return, Goto
  <2>8. CASE ExitLock(c, p)
    BY <2>8 DEF ExitLock, Goto
  <2>9. CASE ExitReparent(c, p)
    <3>1. /\ parent[p] \in Procs /\ wat[p] = 1
          /\ \A q \in Procs \ {p} : pc[q] \notin WithWaitLock
      BY <2>9, Exiter DEF ExitReparent, CursorsAtStart
    <3>2. /\ pc'[p] \in {"xreparent", "xwakeinit", "xwakeparent"}
          /\ pc'[p] = "xwakeparent" => parent' = parent
          /\ wat' = wat /\ \A q \in Procs \ {p} : pc'[q] = pc[q]
      BY <2>9 DEF ExitReparent, Goto
    <3>3. pc'[p] = "xwakeparent" => ~(wat'[p] > parent'[p])
      <4>1. ~(1 > parent[p])
        BY <3>1, FirstSlot
      <4> QED BY <3>1, <3>2, <4>1
    <3>4. SUFFICES ASSUME NEW x \in Procs,
                          \/ pc'[x] = "xwakeparent" /\ wat'[x] > parent'[x]
                          \/ pc'[x] = "xzombie"
                   PROVE  FALSE
      BY DEF ExitInv
    <3> QED BY <3>1, <3>2, <3>3, <3>4
  <2>10. CASE ExitWakeInit(c, p)
    <3>1. /\ parent[p] \in Procs
          /\ \A q \in Procs \ {p} : pc[q] \notin WithWaitLock
      BY <2>10, Exiter DEF ExitWakeInit
    <3>2. /\ pc'[p] \in {"xreparent", "xwakeinit", "xwakeparent"}
          /\ pc'[p] = "xwakeparent" => wat'[p] = 1
          /\ parent' = parent /\ \A q \in Procs \ {p} : pc'[q] = pc[q]
      BY <2>10 DEF ExitWakeInit, WakeupSlot, Following, Goto
    <3>3. pc'[p] = "xwakeparent" => ~(wat'[p] > parent'[p])
      <4>1. ~(1 > parent[p])
        BY <3>1, FirstSlot
      <4> QED BY <3>1, <3>2, <4>1
    <3>4. SUFFICES ASSUME NEW x \in Procs,
                          \/ pc'[x] = "xwakeparent" /\ wat'[x] > parent'[x]
                          \/ pc'[x] = "xzombie"
                   PROVE  FALSE
      BY DEF ExitInv
    <3> QED BY <3>1, <3>2, <3>3, <3>4
  <2>11. CASE ExitWakeParent(c, p)
    <3> DEFINE pp == parent[p]
    <3>1. /\ pp \in Procs /\ pp # p /\ wat[p] \in Procs
          /\ \A q \in Procs \ {p} : pc[q] \notin WithWaitLock
      BY <2>11, Exiter DEF ExitWakeParent
    <3>2. /\ parent' = parent /\ \A q \in Procs \ {p} : pc'[q] = pc[q]
          /\ pc'[p] \in {"xwakeparent", "xzombie"}
          /\ pc'[p] = "xzombie" <=> wat[p] = NPROC
          /\ wat'[p] = IF wat[p] = NPROC THEN 1 ELSE wat[p] + 1
      BY <2>11 DEF ExitWakeParent, WakeupSlot, Following, Goto
    <3>3. \A s \in Procs : state'[s] = "SLEEPING" => state[s] = "SLEEPING"
      BY <2>11 DEF ExitWakeParent, WakeupSlot
    <3>4. wat[p] = pp => state'[pp] # "SLEEPING"
      <4>1. CASE state[pp] = "SLEEPING"
        <5>1. chan[pp] = pp
          BY <3>1, <4>1 DEF StatePoint
        <5> QED BY <2>11, <3>1, <4>1, <5>1 DEF ExitWakeParent, WakeupSlot
      <4>2. CASE state[pp] # "SLEEPING"
        BY <3>1, <3>3, <4>2
      <4> QED BY <4>1, <4>2
    <3>5. wat[p] > pp => state[pp] # "SLEEPING"
      BY <2>11 DEF ExitWakeParent
    <3>6. pc'[p] = "xzombie" \/ wat'[p] > pp => wat[p] = pp \/ wat[p] > pp
      <4>1. pp \in Nat /\ wat[p] \in Nat /\ 1 <= pp /\ pp <= NPROC /\ NPROC \in Nat
        BY <3>1, ProcsRange
      <4>2. CASE wat[p] = NPROC
        BY <4>1, <4>2
      <4>3. CASE wat[p] # NPROC
        BY <4>1, <4>3, <3>2
      <4> QED BY <4>2, <4>3
    <3>7. pc'[p] = "xzombie" \/ wat'[p] > pp => state'[pp] # "SLEEPING"
      BY <3>1, <3>3, <3>4, <3>5, <3>6
    <3> QED BY <3>1, <3>2, <3>7
  <2>12. CASE ExitZombie(c, p)
    BY <2>12 DEF ExitZombie, Sched, Goto
  <2>13. CASE WaitLock(c, p)
    BY <2>13 DEF WaitLock, Goto
  <2>14. CASE WaitScan(c, p)
    BY <2>14 DEF WaitScan, Return, Goto
  <2>15. CASE WaitReap(c, p)
    BY <2>15 DEF WaitReap, ZombieChild, FreeProc, Return, Goto
  <2>16. CASE WaitBadAddress(c, p)
    BY <2>16 DEF WaitBadAddress, ZombieChild, Return, Goto
  <2>17. CASE WaitSleep(c, p)
    BY <2>17 DEF WaitSleep, Sched, Goto
  <2>18. CASE KillScan(c, p)
    BY <2>18 DEF KillScan, Return, Goto
  <2>19. CASE KillFound(c, p)
    BY <2>19 DEF KillFound, AfterKill, Return, Goto
  <2> QED BY <1>5, <2>1, <2>2, <2>3, <2>4, <2>5, <2>6, <2>7, <2>8, <2>9,
             <2>10, <2>11, <2>12, <2>13, <2>14, <2>15, <2>16, <2>17, <2>18, <2>19
          DEF Kernel
<1> QED BY <1>1, <1>2, <1>3, <1>4, <1>5 DEF Next

LEMMA ZombieInvStep ==
  ASSUME TypeOK, Upto3, WaitInv, ExitInv, ZombieInv, [Next]_vars
  PROVE  ZombieInv'
<1> USE ProcsFacts, ProcsRange, WaitLockExclusive
    DEF ZombieInv, Upto3, PointInv, TypeOK, WithWaitLock, tbl, sch, frame, At, Preemptible
<1>1. CASE UNCHANGED vars
  BY <1>1 DEF vars
<1>2. ASSUME NEW c \in Cpus, Scheduler(c) PROVE ZombieInv'
  <2>1. CASE SchedSkip(c)
    BY <2>1 DEF SchedSkip
  <2>2. CASE SchedPick(c)
    BY <2>2 DEF SchedPick
  <2>3. CASE Resume(c)
    BY <2>3 DEF Resume, Goto
  <2>4. CASE SchedBack(c)
    BY <2>4 DEF SchedBack
  <2> QED BY <1>2, <2>1, <2>2, <2>3, <2>4 DEF Scheduler
<1>3. ASSUME NEW c \in Cpus, NEW p \in Procs, Yield(c, p) PROVE ZombieInv'
  BY <1>3 DEF Yield, Sched
<1>4. ASSUME NEW c \in Cpus, NEW p \in Procs, User(c, p) PROVE ZombieInv'
  <2>1. CASE SysFork(c, p)
    BY <2>1 DEF SysFork, Syscall, Goto
  <2>2. CASE SysExit(c, p)
    BY <2>2 DEF SysExit, Syscall, Goto
  <2>3. CASE SysWait(c, p)
    BY <2>3 DEF SysWait, Syscall, Goto
  <2>4. CASE SysKill(c, p)
    BY <2>4 DEF SysKill, Syscall, Goto
  <2>5. CASE Fault(c, p)
    BY <2>5 DEF Fault, Goto
  <2> QED BY <1>4, <2>1, <2>2, <2>3, <2>4, <2>5 DEF User
<1>5. ASSUME NEW c \in Cpus, NEW p \in Procs, Kernel(c, p) PROVE ZombieInv'
  <2>1. CASE ExitIfKilled(c, p)
    BY <2>1 DEF ExitIfKilled, Goto
  <2>2. CASE UserRet(c, p)
    BY <2>2 DEF UserRet, Goto
  <2>3. CASE ForkScan(c, p)
    BY <2>3 DEF ForkScan, Return, Goto
  <2>4. CASE ForkAlloc(c, p)
    <3>1. at[p] \in Procs /\ state[at[p]] = "UNUSED" /\ pc[at[p]] \in {"user", "dead"}
      BY <2>4 DEF ForkAlloc, StatePoint
    <3>2. /\ UNCHANGED <<parent, wat>> /\ state' = [state EXCEPT ![at[p]] = "USED"]
          /\ \A x \in Procs : pc[x] = "xwakeinit" => pc'[x] = "xwakeinit"
      BY <2>4, <3>1 DEF ForkAlloc
    <3>3. \A s \in Procs : state'[s] \in {"ZOMBIE", "SLEEPING"} => state'[s] = state[s]
      BY <3>2
    <3>4. \A s \in Procs : state'[s] = "ZOMBIE" => parent[s] \in Procs
      BY <3>2 DEF TreeInv, HasParent, InitLives
    <3> QED BY <3>2, <3>3, <3>4
  <2>5. CASE ForkNoMemory(c, p)
    BY <2>5 DEF ForkNoMemory, Return, Goto
  <2>6. CASE ForkParent(c, p)
    <3>1. \A q \in Procs : pc[q] \notin WithWaitLock
      BY <2>6 DEF ForkParent
    <3>2. arg[p] \in Procs /\ state[arg[p]] = "USED"
      BY <2>6 DEF ForkParent, ForkInv
    <3>3. state' = state /\ \A s \in Procs \ {arg[p]} : parent'[s] = parent[s]
      BY <2>6, <3>2 DEF ForkParent
    <3> QED BY <3>1, <3>2, <3>3
  <2>7. CASE ForkRunnable(c, p)
    BY <2>7 DEF ForkRunnable, Return, Goto
  <2>8. CASE ExitLock(c, p)
    BY <2>8 DEF ExitLock, Goto
  <2>9. CASE ExitReparent(c, p)
    <3>1. /\ wat[p] = 1 /\ \A q \in Procs \ {p} : pc[q] \notin WithWaitLock
          /\ pc[p] = "xreparent"
      BY <2>9, Exiter DEF ExitReparent, CursorsAtStart
    <3>2. state' = state /\ wat' = wat
      BY <2>9 DEF ExitReparent
    <3>3. CASE parent[at[p]] = p
      <4>1. /\ pc'[p] = "xwakeinit"
            /\ parent' = [parent EXCEPT ![at[p]] = initproc]
        BY <2>9, <3>3 DEF ExitReparent, Goto
      <4> QED BY <3>1, <3>2, <4>1
    <3>4. CASE parent[at[p]] # p
      BY <2>9, <3>1, <3>2, <3>4 DEF ExitReparent
    <3> QED BY <3>3, <3>4
  <2>10. CASE ExitWakeInit(c, p)
    <3>1. /\ p # initproc /\ \A q \in Procs \ {p} : pc[q] \notin WithWaitLock
          /\ pc[p] = "xwakeinit"
      BY <2>10, Exiter DEF ExitWakeInit
    <3>2. /\ parent' = parent
          /\ \A s \in Procs : state'[s] = "SLEEPING" => state[s] = "SLEEPING"
          /\ \A s \in Procs : state'[s] = "ZOMBIE" => state[s] = "ZOMBIE"
      BY <2>10 DEF ExitWakeInit, WakeupSlot
    <3>3. wat[p] = 1 => state'[initproc] # "SLEEPING"
      BY <2>10, <3>1 DEF ExitWakeInit, WakeupSlot, StatePoint, initproc
    <3>4. \A s \in Procs : state[s] = "ZOMBIE" => parent[s] \in Procs
      BY DEF TreeInv, HasParent, InitLives
    <3> QED BY <3>1, <3>2, <3>3, <3>4
  <2>11. CASE ExitWakeParent(c, p)
    BY <2>11 DEF ExitWakeParent, WakeupSlot, Goto
  <2>12. CASE ExitZombie(c, p)
    <3>1. /\ parent[p] \in Procs /\ parent[p] # p
          /\ \A q \in Procs \ {p} : pc[q] \notin WithWaitLock
          /\ pc[p] = "xzombie" /\ state[parent[p]] # "SLEEPING"
      BY <2>12, Exiter DEF ExitZombie, ExitInv
    <3>2. parent' = parent /\ state' = [state EXCEPT ![p] = "ZOMBIE"]
      BY <2>12 DEF ExitZombie, Sched
    <3>3. \A s \in Procs : state[s] = "ZOMBIE" => parent[s] \in Procs
      BY DEF TreeInv, HasParent, InitLives
    <3> QED BY <3>1, <3>2, <3>3
  <2>13. CASE WaitLock(c, p)
    BY <2>13 DEF WaitLock, Goto
  <2>14. CASE WaitScan(c, p)
    BY <2>14 DEF WaitScan, Return, Goto
  <2>15. CASE WaitReap(c, p)
    BY <2>15 DEF WaitReap, ZombieChild, FreeProc, Return, Goto
  <2>16. CASE WaitBadAddress(c, p)
    BY <2>16 DEF WaitBadAddress, ZombieChild, Return, Goto
  <2>17. CASE WaitSleep(c, p)
    <3>1. /\ pc[p] = "wsleep" /\ \A q \in Procs \ {p} : pc[q] \notin WithWaitLock
          /\ \A s \in Procs : parent[s] = p => state[s] # "ZOMBIE"
      BY <2>17 DEF WaitSleep, WaitInv
    <3>2. parent' = parent /\ state' = [state EXCEPT ![p] = "SLEEPING"]
      BY <2>17 DEF WaitSleep, Sched
    <3>3. \A s \in Procs : state[s] = "ZOMBIE" => parent[s] \in Procs
      BY DEF TreeInv, HasParent, InitLives
    <3> QED BY <3>1, <3>2, <3>3
  <2>18. CASE KillScan(c, p)
    BY <2>18 DEF KillScan, Return, Goto
  <2>19. CASE KillFound(c, p)
    BY <2>19 DEF KillFound, AfterKill, Return, Goto
  <2> QED BY <1>5, <2>1, <2>2, <2>3, <2>4, <2>5, <2>6, <2>7, <2>8, <2>9,
             <2>10, <2>11, <2>12, <2>13, <2>14, <2>15, <2>16, <2>17, <2>18, <2>19
          DEF Kernel
<1> QED BY <1>1, <1>2, <1>3, <1>4, <1>5 DEF Next

LEMMA SleeperHasChildStep ==
  ASSUME TypeOK, Upto3, WaitInv, SleeperHasChild, [Next]_vars
  PROVE  SleeperHasChild'
<1> USE ProcsFacts DEF SleeperHasChild, Upto3, PointInv, TypeOK, tbl, sch, frame, At, Preemptible
<1>1. CASE UNCHANGED vars
  BY <1>1 DEF vars
<1>2. ASSUME NEW c \in Cpus, Scheduler(c) PROVE SleeperHasChild'
  <2>1. CASE SchedSkip(c)
    BY <2>1 DEF SchedSkip
  <2>2. CASE SchedPick(c)
    BY <2>2 DEF SchedPick
  <2>3. CASE Resume(c)
    BY <2>3 DEF Resume, Goto
  <2>4. CASE SchedBack(c)
    BY <2>4 DEF SchedBack
  <2> QED BY <1>2, <2>1, <2>2, <2>3, <2>4 DEF Scheduler
<1>3. ASSUME NEW c \in Cpus, NEW p \in Procs, Yield(c, p) PROVE SleeperHasChild'
  BY <1>3 DEF Yield, Sched
<1>4. ASSUME NEW c \in Cpus, NEW p \in Procs, User(c, p) PROVE SleeperHasChild'
  <2>1. CASE SysFork(c, p)
    BY <2>1 DEF SysFork, Syscall, Goto
  <2>2. CASE SysExit(c, p)
    BY <2>2 DEF SysExit, Syscall, Goto
  <2>3. CASE SysWait(c, p)
    BY <2>3 DEF SysWait, Syscall, Goto
  <2>4. CASE SysKill(c, p)
    BY <2>4 DEF SysKill, Syscall, Goto
  <2>5. CASE Fault(c, p)
    BY <2>5 DEF Fault, Goto
  <2> QED BY <1>4, <2>1, <2>2, <2>3, <2>4, <2>5 DEF User
<1>5. ASSUME NEW c \in Cpus, NEW p \in Procs, Kernel(c, p) PROVE SleeperHasChild'
  <2>1. CASE ExitIfKilled(c, p)
    BY <2>1 DEF ExitIfKilled, Goto
  <2>2. CASE UserRet(c, p)
    BY <2>2 DEF UserRet, Goto
  <2>3. CASE ForkScan(c, p)
    BY <2>3 DEF ForkScan, Return, Goto
  <2>4. CASE ForkAlloc(c, p)
    BY <2>4 DEF ForkAlloc, AllocPid
  <2>5. CASE ForkNoMemory(c, p)
    BY <2>5 DEF ForkNoMemory, Return, Goto
  <2>6. CASE ForkParent(c, p)
    <3>1. arg[p] \in Procs /\ parent[arg[p]] = NoProc
      BY <2>6 DEF ForkParent, ForkInv
    <3>2. /\ state' = state
          /\ \A s \in Procs : parent[s] # NoProc => parent'[s] = parent[s]
      BY <2>6, <3>1 DEF ForkParent
    <3> QED BY <3>2
  <2>7. CASE ForkRunnable(c, p)
    BY <2>7 DEF ForkRunnable, Return, Goto
  <2>8. CASE ExitLock(c, p)
    BY <2>8 DEF ExitLock, Goto
  <2>9. CASE ExitReparent(c, p)
    <3>1. state[p] # "SLEEPING" /\ state' = state
      BY <2>9, Exiter DEF ExitReparent
    <3>2. \A s \in Procs : parent[s] # p => parent'[s] = parent[s]
      BY <2>9 DEF ExitReparent
    <3> QED BY <3>1, <3>2
  <2>10. CASE ExitWakeInit(c, p)
    BY <2>10 DEF ExitWakeInit, WakeupSlot, Goto
  <2>11. CASE ExitWakeParent(c, p)
    BY <2>11 DEF ExitWakeParent, WakeupSlot, Goto
  <2>12. CASE ExitZombie(c, p)
    BY <2>12 DEF ExitZombie, Sched, Goto
  <2>13. CASE WaitLock(c, p)
    BY <2>13 DEF WaitLock, Goto
  <2>14. CASE WaitScan(c, p)
    BY <2>14 DEF WaitScan, Return, Goto
  <2>15. CASE WaitReap(c, p)
    <3>1. state[p] = "RUNNING" /\ parent[at[p]] = p /\ state[at[p]] = "ZOMBIE" /\ at[p] \in Procs
      BY <2>15, OnHart DEF WaitReap, ZombieChild
    <3>2. /\ state' = [state EXCEPT ![at[p]] = "UNUSED"]
          /\ parent' = [parent EXCEPT ![at[p]] = NoProc]
      BY <2>15 DEF WaitReap, FreeProc
    <3> QED BY <3>1, <3>2
  <2>16. CASE WaitBadAddress(c, p)
    BY <2>16 DEF WaitBadAddress, ZombieChild, Return, Goto
  <2>17. CASE WaitSleep(c, p)
    <3>1. /\ parent' = parent /\ state' = [state EXCEPT ![p] = "SLEEPING"]
          /\ \E s \in Procs : parent[s] = p
      BY <2>17 DEF WaitSleep, Sched, WaitInv
    <3> QED BY <3>1
  <2>18. CASE KillScan(c, p)
    BY <2>18 DEF KillScan, Return, Goto
  <2>19. CASE KillFound(c, p)
    BY <2>19 DEF KillFound, AfterKill, Return, Goto
  <2> QED BY <1>5, <2>1, <2>2, <2>3, <2>4, <2>5, <2>6, <2>7, <2>8, <2>9,
             <2>10, <2>11, <2>12, <2>13, <2>14, <2>15, <2>16, <2>17, <2>18, <2>19
          DEF Kernel
<1> QED BY <1>1, <1>2, <1>3, <1>4, <1>5 DEF Next

----------------------------------------------------------------------------
(* The layers together. *)

LEMMA InitPoint == Init => PointInv
BY ProcAssumption, ProcsFacts
   DEF Init, PointInv, WaitLockHolder, WithWaitLock, StatePoint, CursorsAtStart,
       InitLives, ExitPoints, NoProc

LEMMA InitTree == Init => TreeInv
BY ProcAssumption, ProcsFacts
   DEF Init, TreeInv, HasParent, Childless, LiveParent, NoProc

LEMMA InitWake == Init => WakeInv
BY ProcAssumption, ProcsFacts
   DEF Init, WakeInv, WaitInv, ExitInv, ZombieInv, SleeperHasChild, NoProc

\* The invariant is inductive: one step of the kernel at a time.
LEMMA IInvStep == IInv /\ [Next]_vars => IInv'
<1> SUFFICES ASSUME IInv, [Next]_vars PROVE IInv'
  OBVIOUS
<1>1. TypeOK /\ Hart /\ ForkInv /\ PointInv /\ TreeInv /\ WakeInv
  BY DEF IInv, HartInv, Hart
<1>2. TypeOK' /\ HartInv'
  BY TypeStep, HartStep DEF IInv
<1>3. WaitLockHolder /\ StatePoint /\ CursorsAtStart /\ InitLives
  BY <1>1 DEF PointInv
<1>4. PointInv'
  BY <1>1, <1>3, WaitLockHolderStep, StatePointStep, CursorsStep, InitLivesStep
     DEF PointInv
<1>5. HasParent /\ Childless /\ LiveParent
  BY <1>1 DEF TreeInv
<1>6. TreeInv'
  BY <1>1, <1>3, <1>5, HasParentStep, ChildlessStep, LiveParentStep DEF TreeInv
<1>7. Upto3 /\ WaitInv /\ ExitInv /\ ZombieInv /\ SleeperHasChild
  BY <1>1 DEF Upto3, WakeInv
<1>8. WakeInv'
  BY <1>1, <1>7, WaitInvStep, ExitInvStep, ZombieInvStep, SleeperHasChildStep
     DEF WakeInv
<1> QED BY <1>2, <1>4, <1>6, <1>8 DEF IInv

\* The whole inductive invariant holds of fork(), exit(), wait(), kill() and the
\* schedulers (proc.c:312-478, 692-720, 865-997).
THEOREM InvariantCorrect == Spec => []IInv
<1>1. Init => IInv
  BY InitType, InitHart, InitPoint, InitTree, InitWake DEF IInv
<1> QED BY <1>1, IInvStep, PTL DEF Spec

\* No process is on two harts: p->lock is kept across swtch (proc.c:692-720,
\* 865-882).
THEOREM OneHartCorrect == Spec => []OneHart
<1>1. HartInv => OneHart
  BY DEF HartInv
<1> QED BY <1>1, HartCorrect, PTL

\* RUNNING is exactly "on a hart" (proc.c:692-720, 865-892).
THEOREM RunningCorrect == Spec => []RunningIffOnHart
<1>1. HartInv => RunningIffOnHart
  BY DEF HartInv
<1> QED BY <1>1, HartCorrect, PTL

\* wait() frees a child only once no hart is on its kernel stack
\* (proc.c:409-423, 443-461).
THEOREM FreedCorrect == Spec => []FreedOffStack
<1>1. TypeOK /\ HartInv => FreedOffStack
  BY ProcsFacts DEF TypeOK, HartInv, HartOK, FreedOffStack
<1> QED BY <1>1, TypeCorrect, HartCorrect, PTL

\* A parent pointer leads to a live process (proc.c:365-377, 382-424).
THEOREM LiveParentCorrect == Spec => []LiveParent
<1>1. IInv => LiveParent
  BY DEF IInv, TreeInv
<1> QED BY <1>1, InvariantCorrect, PTL

\* No exit is lost on a parent asleep in wait() (proc.c:382-424, 428-478,
\* 917-971).
THEOREM NoLostExitCorrect == Spec => []NoLostExit
<1>1. ASSUME IInv, wait_lock = NoCpu, NEW s \in Procs, state[s] = "ZOMBIE"
      PROVE  parent[s] # NoProc /\ state[parent[s]] # "SLEEPING"
  <2>1. parent[s] # NoProc
    BY <1>1 DEF IInv, PointInv, InitLives, TreeInv, HasParent
  <2>2. \A x \in Procs : pc[x] \notin WithWaitLock
    BY <1>1, ProcAssumption DEF IInv, PointInv, WaitLockHolder
  <2>3. state[parent[s]] # "SLEEPING"
    BY <1>1, <2>2 DEF IInv, WakeInv, ZombieInv, WithWaitLock
  <2> QED BY <2>1, <2>3
<1>2. IInv => NoLostExit
  BY <1>1 DEF NoLostExit
<1> QED BY <1>2, InvariantCorrect, PTL

\* Whoever sleeps in wait() has a child whose exit will wake it (proc.c:428-478).
THEOREM SleeperCorrect == Spec => []SleeperHasChild
<1>1. IInv => SleeperHasChild
  BY DEF IInv, WakeInv
<1> QED BY <1>1, InvariantCorrect, PTL

----------------------------------------------------------------------------
(* Pids and the killed flag.                                                *)

LEMMA PidInvStep ==
  ASSUME TypeOK, Hart, ForkInv, PidInv, [Next]_vars
  PROVE  PidInv'
<1> USE ProcsFacts DEF PidInv, TypeOK, tbl, sch, frame, At, Preemptible
<1>1. CASE UNCHANGED vars
  BY <1>1 DEF vars
<1>2. ASSUME NEW c \in Cpus, Scheduler(c) PROVE PidInv'
  <2>1. CASE SchedSkip(c)
    BY <2>1, OnHart DEF SchedSkip
  <2>2. CASE SchedPick(c)
    BY <2>2, OnHart DEF SchedPick
  <2>3. CASE Resume(c)
    BY <2>3, OnHart DEF Resume, Goto
  <2>4. CASE SchedBack(c)
    BY <2>4, OnHart DEF SchedBack
  <2> QED BY <1>2, <2>1, <2>2, <2>3, <2>4 DEF Scheduler
<1>3. ASSUME NEW c \in Cpus, NEW p \in Procs, Yield(c, p) PROVE PidInv'
  BY <1>3, OnHart DEF Yield, Sched
<1>4. ASSUME NEW c \in Cpus, NEW p \in Procs, User(c, p) PROVE PidInv'
  <2>1. CASE SysFork(c, p)
    BY <2>1, OnHart DEF SysFork, Syscall, Goto
  <2>2. CASE SysExit(c, p)
    BY <2>2, OnHart DEF SysExit, Syscall, Goto
  <2>3. CASE SysWait(c, p)
    BY <2>3, OnHart DEF SysWait, Syscall, Goto
  <2>4. CASE SysKill(c, p)
    BY <2>4, OnHart DEF SysKill, Syscall, Goto
  <2>5. CASE Fault(c, p)
    BY <2>5, OnHart DEF Fault, Goto
  <2> QED BY <1>4, <2>1, <2>2, <2>3, <2>4, <2>5 DEF User
<1>5. ASSUME NEW c \in Cpus, NEW p \in Procs, Kernel(c, p) PROVE PidInv'
  <2>1. CASE ExitIfKilled(c, p)
    BY <2>1, OnHart DEF ExitIfKilled, Goto
  <2>2. CASE UserRet(c, p)
    BY <2>2, OnHart DEF UserRet, Goto
  <2>3. CASE ForkScan(c, p)
    BY <2>3, OnHart DEF ForkScan, Return, Goto
  <2>4. CASE ForkAlloc(c, p)
    <3>1. /\ nextpid' = nextpid + 1 /\ nextpid \in Nat
          /\ pid' = [pid EXCEPT ![at[p]] = nextpid]
          /\ state' = [state EXCEPT ![at[p]] = "USED"]
          /\ at[p] \in Procs
      BY <2>4 DEF ForkAlloc, AllocPid
    <3>2. \A s \in Procs : pid[s] < nextpid /\ pid[s] < nextpid + 1
      BY <3>1
    <3>3. \A s \in Procs : pid[s] # nextpid
      BY <3>1, <3>2
    <3>4. \A s, t \in Procs : s # t /\ pid'[s] = pid'[t] => pid'[s] = 0
      BY <3>1, <3>3
    <3>5. nextpid' >= 2 /\ 1 <= nextpid /\ nextpid < nextpid'
      BY <3>1
    <3>6. ASSUME NEW s \in Procs
          PROVE  /\ state'[s] = "UNUSED" => pid'[s] = 0
                 /\ state'[s] # "UNUSED" => 1 <= pid'[s] /\ pid'[s] < nextpid'
      <4>1. CASE s = at[p]
        BY <3>1, <3>5, <4>1
      <4>2. CASE s # at[p]
        BY <3>1, <3>2, <4>2
      <4> QED BY <4>1, <4>2
    <3> QED BY <3>4, <3>5, <3>6
  <2>5. CASE ForkNoMemory(c, p)
    BY <2>5, OnHart DEF ForkNoMemory, Return, Goto
  <2>6. CASE ForkParent(c, p)
    BY <2>6, OnHart DEF ForkParent, Goto
  <2>7. CASE ForkRunnable(c, p)
    BY <2>7, OnHart DEF ForkRunnable, Return, Goto, ForkInv
  <2>8. CASE ExitLock(c, p)
    BY <2>8, OnHart DEF ExitLock, Goto
  <2>9. CASE ExitReparent(c, p)
    BY <2>9, OnHart DEF ExitReparent, Goto
  <2>10. CASE ExitWakeInit(c, p)
    BY <2>10, OnHart DEF ExitWakeInit, WakeupSlot, Goto
  <2>11. CASE ExitWakeParent(c, p)
    BY <2>11, OnHart DEF ExitWakeParent, WakeupSlot, Goto
  <2>12. CASE ExitZombie(c, p)
    BY <2>12, OnHart DEF ExitZombie, Sched, Goto
  <2>13. CASE WaitLock(c, p)
    BY <2>13, OnHart DEF WaitLock, Goto
  <2>14. CASE WaitScan(c, p)
    BY <2>14, OnHart DEF WaitScan, Return, Goto
  <2>15. CASE WaitReap(c, p)
    BY <2>15, OnHart DEF WaitReap, ZombieChild, FreeProc, Return, Goto
  <2>16. CASE WaitBadAddress(c, p)
    BY <2>16, OnHart DEF WaitBadAddress, ZombieChild, Return, Goto
  <2>17. CASE WaitSleep(c, p)
    BY <2>17, OnHart DEF WaitSleep, Sched, Goto
  <2>18. CASE KillScan(c, p)
    BY <2>18, OnHart DEF KillScan, Return, Goto
  <2>19. CASE KillFound(c, p)
    BY <2>19, OnHart DEF KillFound, AfterKill, Return, Goto
  <2> QED BY <1>5, <2>1, <2>2, <2>3, <2>4, <2>5, <2>6, <2>7, <2>8, <2>9,
             <2>10, <2>11, <2>12, <2>13, <2>14, <2>15, <2>16, <2>17, <2>18, <2>19
          DEF Kernel
<1> QED BY <1>1, <1>2, <1>3, <1>4, <1>5 DEF Next

LEMMA KillInvStep ==
  ASSUME 0 \notin KillPids, TypeOK, Hart, PidInv, KillInv, [Next]_vars
  PROVE  KillInv'
<1> USE ProcsFacts DEF KillInv, KilledByRequest, ExitPoints, PidInv, TypeOK, tbl, sch, frame, At, Preemptible
<1>1. CASE UNCHANGED vars
  BY <1>1 DEF vars
<1>2. ASSUME NEW c \in Cpus, Scheduler(c) PROVE KillInv'
  <2>1. CASE SchedSkip(c)
    BY <2>1 DEF SchedSkip
  <2>2. CASE SchedPick(c)
    BY <2>2 DEF SchedPick
  <2>3. CASE Resume(c)
    BY <2>3 DEF Resume, Goto
  <2>4. CASE SchedBack(c)
    BY <2>4 DEF SchedBack
  <2> QED BY <1>2, <2>1, <2>2, <2>3, <2>4 DEF Scheduler
<1>3. ASSUME NEW c \in Cpus, NEW p \in Procs, Yield(c, p) PROVE KillInv'
  BY <1>3 DEF Yield, Sched
<1>4. ASSUME NEW c \in Cpus, NEW p \in Procs, User(c, p) PROVE KillInv'
  <2>1. CASE SysFork(c, p)
    BY <2>1 DEF SysFork, Syscall, Goto
  <2>2. CASE SysExit(c, p)
    BY <2>2 DEF SysExit, Syscall, Goto
  <2>3. CASE SysWait(c, p)
    BY <2>3 DEF SysWait, Syscall, Goto
  <2>4. CASE SysKill(c, p)
    BY <2>4 DEF SysKill, Syscall, Goto
  <2>5. CASE Fault(c, p)
    BY <2>5, OnHart DEF Fault, Goto
  <2> QED BY <1>4, <2>1, <2>2, <2>3, <2>4, <2>5 DEF User
<1>5. ASSUME NEW c \in Cpus, NEW p \in Procs, Kernel(c, p) PROVE KillInv'
  <2>1. CASE ExitIfKilled(c, p)
    BY <2>1 DEF ExitIfKilled, Goto
  <2>2. CASE UserRet(c, p)
    BY <2>2 DEF UserRet, Goto
  <2>3. CASE ForkScan(c, p)
    BY <2>3 DEF ForkScan, Return, Goto
  <2>4. CASE ForkAlloc(c, p)
    BY <2>4 DEF ForkAlloc, AllocPid
  <2>5. CASE ForkNoMemory(c, p)
    BY <2>5 DEF ForkNoMemory, Return, Goto
  <2>6. CASE ForkParent(c, p)
    BY <2>6 DEF ForkParent, Goto
  <2>7. CASE ForkRunnable(c, p)
    BY <2>7 DEF ForkRunnable, Return, Goto
  <2>8. CASE ExitLock(c, p)
    BY <2>8 DEF ExitLock, Goto
  <2>9. CASE ExitReparent(c, p)
    BY <2>9 DEF ExitReparent, Goto
  <2>10. CASE ExitWakeInit(c, p)
    BY <2>10 DEF ExitWakeInit, WakeupSlot, Goto
  <2>11. CASE ExitWakeParent(c, p)
    BY <2>11 DEF ExitWakeParent, WakeupSlot, Goto
  <2>12. CASE ExitZombie(c, p)
    BY <2>12 DEF ExitZombie, Sched, Goto
  <2>13. CASE WaitLock(c, p)
    BY <2>13 DEF WaitLock, Goto
  <2>14. CASE WaitScan(c, p)
    BY <2>14 DEF WaitScan, Return, Goto
  <2>15. CASE WaitReap(c, p)
    BY <2>15 DEF WaitReap, ZombieChild, FreeProc, Return, Goto
  <2>16. CASE WaitBadAddress(c, p)
    BY <2>16 DEF WaitBadAddress, ZombieChild, Return, Goto
  <2>17. CASE WaitSleep(c, p)
    BY <2>17 DEF WaitSleep, Sched, Goto
  <2>18. CASE KillScan(c, p)
    BY <2>18 DEF KillScan, Return, Goto
  <2>19. CASE KillFound(c, p)
    BY <2>19 DEF KillFound, AfterKill, Return, Goto
  <2> QED BY <1>5, <2>1, <2>2, <2>3, <2>4, <2>5, <2>6, <2>7, <2>8, <2>9,
             <2>10, <2>11, <2>12, <2>13, <2>14, <2>15, <2>16, <2>17, <2>18, <2>19
          DEF Kernel
<1> QED BY <1>1, <1>2, <1>3, <1>4, <1>5 DEF Next

\* No two processes share a pid (proc.c:98-183, 188-205).
THEOREM UniquePidsCorrect == Spec => []UniquePids
<1>1. Init => PidInv
  BY ProcsFacts DEF Init, PidInv, initproc
<1>2. TypeOK /\ HartInv /\ PidInv /\ [Next]_vars => PidInv'
  BY PidInvStep DEF HartInv, Hart
<1>3. ASSUME TypeOK, PidInv, NEW s \in Procs, NEW t \in Procs,
             s # t, state[s] # "UNUSED"
      PROVE  pid[s] \in 1 .. nextpid - 1 /\ pid[s] # pid[t]
  <2>1. pid[s] \in Nat /\ nextpid \in Nat /\ 1 <= pid[s] /\ pid[s] < nextpid
    BY <1>3 DEF TypeOK, PidInv
  <2>2. pid[s] # pid[t]
    BY <1>3, <2>1 DEF PidInv
  <2> QED BY <2>1, <2>2
<1>4. TypeOK /\ PidInv => UniquePids
  BY <1>3 DEF UniquePids
<1> QED BY <1>1, <1>2, <1>4, TypeCorrect, HartCorrect, PTL DEF Spec

\* A process is killed only on request, when no program passes 0 to kill()
\* (proc.c:188-205, 976-997).
THEOREM KilledCorrect ==
  ASSUME 0 \notin KillPids
  PROVE  Spec => []KilledByRequest
<1>1. Init => PidInv /\ KillInv
  BY ProcsFacts DEF Init, PidInv, KillInv, KilledByRequest, initproc
<1>2. TypeOK /\ HartInv /\ PidInv /\ KillInv /\ [Next]_vars => PidInv' /\ KillInv'
  BY PidInvStep, KillInvStep DEF HartInv, Hart
<1>3. KillInv => KilledByRequest
  BY DEF KillInv
<1> QED BY <1>1, <1>2, <1>3, TypeCorrect, HartCorrect, PTL DEF Spec

----------------------------------------------------------------------------
(* The table of slots implements the process tree.                          *)

ZombieSlots == {t \in Procs : state[t] = "ZOMBIE"}
DrawnSlots  == {t \in Procs : state[t] = "USED" /\ parent[t] = NoProc}
ExitSlots   == {t \in Procs : pc[t] \in {"xreparent", "xwakeinit",
                                         "xwakeparent", "xzombie"}}

\* The function the mapping gives for parentOf.
ParentOf == [q \in {pid[s] : s \in InTree} |->
               IF q = 1 THEN 0 ELSE pid[parent[SlotOf(q)]]]

\* The parents fork() is called by have a pid left for each child to come.
Allocating == {s \in Procs : pc[s] = "falloc"}

Budget ==
  \/ nextpid = 2 /\ Allocating = {}
  \/ nextpid + Cardinality(Allocating) <= MaxPid + 1

\* What makes the mapping one to one.
OneToOne ==
  /\ InTree \subseteq Procs /\ initproc \in InTree
  /\ pid[initproc] = 1 /\ parent[initproc] = NoProc
  /\ \A s \in InTree \cup DrawnSlots : pid[s] \in 1 .. nextpid - 1
  /\ \A s, t \in InTree \cup DrawnSlots : pid[s] = pid[t] => s = t
  /\ \A s \in InTree : SlotOf(pid[s]) = s
  /\ \A s \in InTree : s # initproc => parent[s] \in InTree
  /\ \A s \in ZombieSlots \cup ExitSlots : s \in InTree /\ s # initproc
  /\ \A s \in ExitSlots : s \notin ZombieSlots
  /\ \A s \in DrawnSlots : s \notin InTree

LEMMA MappingOneToOne == IInv /\ PidInv => OneToOne
<1> SUFFICES ASSUME IInv, PidInv PROVE OneToOne
  OBVIOUS
<1> USE ProcsFacts
<1>0. TypeOK /\ HartInv /\ PointInv /\ TreeInv
  BY DEF IInv
<1>1. /\ initproc \in InTree /\ InTree \subseteq Procs
      /\ pid[initproc] = 1 /\ parent[initproc] = NoProc
      /\ state[initproc] \in {"SLEEPING", "RUNNABLE", "RUNNING"}
  BY <1>0 DEF InTree, PointInv, InitLives, TreeInv, HasParent
<1>2. \A s \in InTree \cup DrawnSlots : s \in Procs /\ state[s] # "UNUSED"
  BY <1>0, <1>1 DEF InTree, DrawnSlots, HartInv, UnusedUnlinked
<1>3. \A s \in InTree \cup DrawnSlots : pid[s] \in 1 .. nextpid - 1
  <2> SUFFICES ASSUME NEW s \in InTree \cup DrawnSlots PROVE pid[s] \in 1 .. nextpid - 1
    OBVIOUS
  <2>1. s \in Procs /\ state[s] # "UNUSED"
    BY <1>2
  <2>2. pid[s] \in Nat /\ nextpid \in Nat /\ 1 <= pid[s] /\ pid[s] < nextpid
    BY <1>0, <2>1 DEF TypeOK, PidInv
  <2> QED BY <2>2
<1>4. \A s, t \in InTree \cup DrawnSlots : pid[s] = pid[t] => s = t
  <2> SUFFICES ASSUME NEW s \in InTree \cup DrawnSlots,
                      NEW t \in InTree \cup DrawnSlots, pid[s] = pid[t], s # t
               PROVE  FALSE
    OBVIOUS
  <2>1. s \in Procs /\ t \in Procs /\ pid[s] # 0
    BY <1>0, <1>2, <1>3 DEF TypeOK
  <2> QED BY <2>1 DEF PidInv
<1>5. ASSUME NEW s \in InTree PROVE SlotOf(pid[s]) = s
  <2>1. \A t \in InTree : pid[t] = pid[s] => t = s
    BY <1>4, <1>5
  <2>2. SlotOf(pid[s]) \in InTree /\ pid[SlotOf(pid[s])] = pid[s]
    BY <1>5 DEF SlotOf
  <2> QED BY <2>1, <2>2
<1>6. ASSUME NEW s \in InTree, s # initproc PROVE parent[s] \in InTree
  <2>1. parent[s] # NoProc /\ parent[s] \in Procs
    BY <1>0, <1>6 DEF InTree, TypeOK
  <2>2. state[parent[s]] \in {"SLEEPING", "RUNNABLE", "RUNNING"}
    BY <1>0, <1>1, <1>6, <2>1 DEF TreeInv, LiveParent
  <2> QED BY <1>0, <2>1, <2>2 DEF InTree, TreeInv, HasParent
<1>7. ASSUME NEW s \in ZombieSlots PROVE s \in InTree /\ s # initproc
  BY <1>0, <1>1, <1>7 DEF ZombieSlots, InTree, TreeInv, HasParent
<1>8. ASSUME NEW s \in ExitSlots PROVE s \in InTree /\ s # initproc /\ s \notin ZombieSlots
  <2>1. Upto3
    BY <1>0 DEF Upto3, HartInv, Hart
  <2>2. s # initproc /\ state[s] = "RUNNING"
    BY <1>0, <1>8, <2>1, Exiter DEF ExitSlots
  <2> QED BY <1>0, <1>8, <2>2 DEF ExitSlots, ZombieSlots, InTree, TreeInv, HasParent
<1>9. \A s \in DrawnSlots : s \notin InTree
  BY <1>1 DEF DrawnSlots, InTree
<1> QED BY <1>1, <1>3, <1>4, <1>5, <1>6, <1>7, <1>8, <1>9 DEF OneToOne

LEMMA MappingOneToOneNext == IInv' /\ PidInv' => OneToOne'
BY MappingOneToOne, PTL

LEMMA ParentOfIs ==
  OneToOne =>
    /\ DOMAIN ParentOf = {pid[s] : s \in InTree}
    /\ \A s \in InTree :
         ParentOf[pid[s]] = IF s = initproc THEN 0 ELSE pid[parent[s]]
<1> SUFFICES ASSUME OneToOne, NEW s \in InTree
             PROVE  ParentOf[pid[s]] = IF s = initproc THEN 0 ELSE pid[parent[s]]
  BY DEF ParentOf
<1>1. pid[s] = 1 <=> s = initproc
  BY DEF OneToOne
<1>2. SlotOf(pid[s]) = s
  BY DEF OneToOne
<1> QED BY <1>1, <1>2 DEF ParentOf

LEMMA ParentOfIsNext ==
  OneToOne' =>
    /\ DOMAIN ParentOf' = {pid'[s] : s \in InTree'}
    /\ \A s \in InTree' :
         ParentOf'[pid'[s]] = IF s = initproc THEN 0 ELSE pid'[parent'[s]]
<1>1. OneToOne' => (/\ DOMAIN ParentOf = {pid[s] : s \in InTree}
                    /\ \A s \in InTree :
                         ParentOf[pid[s]] = IF s = initproc THEN 0 ELSE pid[parent[s]])'
  BY ParentOfIs, PTL
<1> QED BY <1>1

\* Fields and points the tree does not see.
LEMMA Invisible ==
  ASSUME UNCHANGED <<pid, parent, nextpid>>,
         \A s \in Procs :
           /\ state'[s] = "ZOMBIE" <=> state[s] = "ZOMBIE"
           /\ parent[s] = NoProc => (state'[s] = "USED" <=> state[s] = "USED")
           /\ pc'[s] \in {"xreparent", "xwakeinit", "xwakeparent", "xzombie"}
                <=> pc[s] \in {"xreparent", "xwakeinit", "xwakeparent", "xzombie"}
  PROVE  UNCHANGED Tree!vars
<1>1. InTree' = InTree
  BY DEF InTree
<1>2. ZombieSlots' = ZombieSlots
  BY DEF ZombieSlots
<1>3. DrawnSlots' = DrawnSlots
  BY DEF DrawnSlots
<1>4. ExitSlots' = ExitSlots
  BY DEF ExitSlots
<1>5. ParentOf' = ParentOf
  BY <1>1 DEF ParentOf, SlotOf
<1>6. Tree!vars = << ParentOf, {pid[s] : s \in ExitSlots}, {pid[s] : s \in ZombieSlots},
                     1 .. nextpid - 1 \ {pid[s] : s \in DrawnSlots} >>
  BY DEF Tree!vars, ParentOf, ExitSlots, ZombieSlots, DrawnSlots, Exiting, Drawn
<1>7. Tree!vars' = << ParentOf', {pid'[s] : s \in ExitSlots'}, {pid'[s] : s \in ZombieSlots'},
                      1 .. nextpid' - 1 \ {pid'[s] : s \in DrawnSlots'} >>
  BY DEF Tree!vars, ParentOf, ExitSlots, ZombieSlots, DrawnSlots, Exiting, Drawn
<1> QED BY <1>1, <1>2, <1>3, <1>4, <1>5, <1>6, <1>7

----------------------------------------------------------------------------
(* There is a pid for every child that fork() is about to make.             *)

LEMMA AllocatingFinite == IsFiniteSet(Allocating) /\ Cardinality(Allocating) \in Nat
<1>1. IsFiniteSet(1 .. NPROC)
  BY ProcAssumption, FS_Interval
<1>2. Allocating \subseteq 1 .. NPROC
  BY DEF Allocating, Procs
<1>3. IsFiniteSet(Allocating)
  BY <1>1, <1>2, FS_Subset
<1> QED BY <1>3, FS_CardinalityType

LEMMA BudgetKept ==
  ASSUME Budget, nextpid' = nextpid, \A s \in Procs : pc'[s] = "falloc" <=> pc[s] = "falloc"
  PROVE  Budget'
<1>1. Allocating' = Allocating
  BY DEF Allocating
<1> QED BY <1>1 DEF Budget

LEMMA BudgetSpent ==
  ASSUME TypeOK, Budget, NEW p \in Procs, pc[p] = "falloc", pc'[p] # "falloc",
         \A s \in Procs : s # p => (pc'[s] = "falloc" <=> pc[s] = "falloc"),
         nextpid' \in {nextpid, nextpid + 1}
  PROVE  Budget'
<1>1. p \in Allocating
  BY DEF Allocating
<1>2. Allocating' = Allocating \ {p}
  BY DEF Allocating
<1>3. Cardinality(Allocating \ {p}) = Cardinality(Allocating) - 1
  BY <1>1, AllocatingFinite, FS_RemoveElement
<1>4. nextpid + Cardinality(Allocating) <= MaxPid + 1
  BY <1>1 DEF Budget
<1>5. nextpid' + (Cardinality(Allocating) - 1) <= MaxPid + 1
  BY <1>4, AllocatingFinite, ProcAssumption DEF TypeOK
<1> QED BY <1>2, <1>3, <1>5 DEF Budget

LEMMA BudgetStep ==
  ASSUME TypeOK, StatePoint, Budget, [Next]_vars
  PROVE  Budget'
<1> USE ProcsFacts DEF TypeOK, tbl, sch, frame, At, Goto, Return
<1>1. CASE UNCHANGED vars
  <2>1. nextpid' = nextpid /\ pc' = pc
    BY <1>1 DEF vars
  <2> QED BY <2>1, BudgetKept
<1>2. ASSUME NEW c \in Cpus, Scheduler(c) PROVE Budget'
  <2>1. nextpid' = nextpid
    BY <1>2 DEF Scheduler, SchedSkip, SchedPick, Resume, SchedBack
  <2>2. \A s \in Procs : pc'[s] = "falloc" <=> pc[s] = "falloc"
    BY <1>2 DEF Scheduler, SchedSkip, SchedPick, Resume, SchedBack
  <2> QED BY <2>1, <2>2, BudgetKept
<1>3. ASSUME NEW c \in Cpus, NEW p \in Procs, Yield(c, p) PROVE Budget'
  <2>1. nextpid' = nextpid /\ pc' = pc
    BY <1>3 DEF Yield
  <2> QED BY <2>1, BudgetKept
<1>4. ASSUME NEW c \in Cpus, NEW p \in Procs, User(c, p) PROVE Budget'
  <2>1. CASE SysFork(c, p)
    <3>1. Allocating' = Allocating \cup {p} /\ p \notin Allocating /\ nextpid' = nextpid
      BY <2>1 DEF SysFork, Syscall, Allocating
    <3>2. Cardinality(Allocating \cup {p}) = Cardinality(Allocating) + 1
      BY <3>1, AllocatingFinite, FS_AddElement
    <3>3. nextpid + Cardinality(Allocating) <= MaxPid
      BY <2>1 DEF SysFork, Allocating
    <3>4. nextpid + (Cardinality(Allocating) + 1) <= MaxPid + 1
      BY <3>3, AllocatingFinite, ProcAssumption
    <3> QED BY <3>1, <3>2, <3>4 DEF Budget
  <2>2. CASE ~SysFork(c, p)
    <3>1. nextpid' = nextpid
      BY <1>4, <2>2 DEF User, SysExit, SysWait, SysKill, Fault, Syscall
    <3>2. \A s \in Procs : pc'[s] = "falloc" <=> pc[s] = "falloc"
      BY <1>4, <2>2 DEF User, SysExit, SysWait, SysKill, Fault, Syscall
    <3> QED BY <3>1, <3>2, BudgetKept
  <2> QED BY <2>1, <2>2
<1>5. ASSUME NEW c \in Cpus, NEW p \in Procs, Kernel(c, p) PROVE Budget'
  <2>1. CASE ForkScan(c, p)
    <3>1. nextpid' = nextpid /\ pc[p] = "falloc"
      BY <2>1 DEF ForkScan
    <3>2. \A s \in Procs : s # p => (pc'[s] = "falloc" <=> pc[s] = "falloc")
      BY <2>1 DEF ForkScan
    <3>3. CASE pc'[p] = "falloc"
      BY <3>1, <3>2, <3>3, BudgetKept
    <3> QED BY <3>1, <3>2, <3>3, BudgetSpent
  <2>2. CASE ForkAlloc(c, p)
    <3>1. nextpid' = nextpid + 1 /\ pc[p] = "falloc"
      BY <2>2 DEF ForkAlloc, AllocPid
    <3>2. pc[at[p]] \in {"user", "dead"} /\ at[p] \in Procs
      BY <2>2 DEF ForkAlloc, StatePoint
    <3>3. pc' = [pc EXCEPT ![p] = "fparent", ![at[p]] = "user"]
      BY <2>2 DEF ForkAlloc
    <3>4. pc'[p] # "falloc" /\ \A s \in Procs : s # p => (pc'[s] = "falloc" <=> pc[s] = "falloc")
      BY <3>2, <3>3
    <3> QED BY <3>1, <3>4, BudgetSpent
  <2>3. CASE ForkNoMemory(c, p)
    <3>1. /\ nextpid' = nextpid + 1 /\ pc[p] = "falloc" /\ pc'[p] # "falloc"
          /\ \A s \in Procs : s # p => (pc'[s] = "falloc" <=> pc[s] = "falloc")
      BY <2>3 DEF ForkNoMemory
    <3> QED BY <3>1, BudgetSpent
  <2>4. CASE \/ ExitIfKilled(c, p) \/ UserRet(c, p) \/ ForkParent(c, p) \/ ForkRunnable(c, p)
             \/ ExitLock(c, p) \/ ExitReparent(c, p) \/ ExitWakeInit(c, p)
             \/ ExitWakeParent(c, p) \/ ExitZombie(c, p)
    <3>1. nextpid' = nextpid
      BY <2>4 DEF ExitIfKilled, UserRet, ForkParent, ForkRunnable, ExitLock,
                  ExitReparent, ExitWakeInit, ExitWakeParent, ExitZombie
    <3>2. \A s \in Procs : pc'[s] = "falloc" <=> pc[s] = "falloc"
      BY <2>4 DEF ExitIfKilled, UserRet, ForkParent, ForkRunnable, ExitLock,
                  ExitReparent, ExitWakeInit, ExitWakeParent, ExitZombie
    <3> QED BY <3>1, <3>2, BudgetKept
  <2>5. CASE \/ WaitLock(c, p) \/ WaitScan(c, p) \/ WaitReap(c, p)
             \/ WaitBadAddress(c, p) \/ WaitSleep(c, p)
             \/ KillScan(c, p) \/ KillFound(c, p)
    <3>1. nextpid' = nextpid
      BY <2>5 DEF WaitLock, WaitScan, WaitReap, WaitBadAddress, WaitSleep,
                  KillScan, KillFound
    <3>2. \A s \in Procs : pc'[s] = "falloc" <=> pc[s] = "falloc"
      BY <2>5 DEF WaitLock, WaitScan, WaitReap, WaitBadAddress, WaitSleep,
                  KillScan, KillFound
    <3> QED BY <3>1, <3>2, BudgetKept
  <2> QED BY <1>5, <2>1, <2>2, <2>3, <2>4, <2>5 DEF Kernel
<1> QED BY <1>1, <1>2, <1>3, <1>4, <1>5 DEF Next

----------------------------------------------------------------------------
(* The steps of the tree, in the terms of the table.                        *)

ZombiePids == {pid[s] : s \in ZombieSlots}
SpentPids  == 1 .. nextpid - 1 \ Drawn
LivePids   == DOMAIN ParentOf \ (Exiting \cup ZombiePids)

Linked(p, q) == [r \in DOMAIN ParentOf \cup {q} |-> IF r = q THEN p ELSE ParentOf[r]]
Adopted(q)   == [ParentOf EXCEPT ![q] = 1]
Unlinked(q)  == [r \in DOMAIN ParentOf \ {q} |-> ParentOf[r]]

LEMMA AsStutter ==
  ASSUME ParentOf' = ParentOf, Exiting' = Exiting, ZombiePids' = ZombiePids,
         SpentPids' = SpentPids
  PROVE  UNCHANGED Tree!vars
BY DEF Tree!vars, ParentOf, ZombiePids, ZombieSlots, SpentPids

LEMMA AsFork ==
  ASSUME NEW p, NEW q, p \in LivePids, q \notin SpentPids,
         ParentOf' = Linked(p, q),
         SpentPids' = SpentPids \cup {q}, Exiting' = Exiting, ZombiePids' = ZombiePids
  PROVE  Tree!Fork(p, q)
BY DEF Tree!Fork, Tree!Live, Linked, LivePids, ParentOf, ZombiePids, ZombieSlots, SpentPids

LEMMA AsForkFailed ==
  ASSUME NEW q, q \notin SpentPids, SpentPids' = SpentPids \cup {q},
         ParentOf' = ParentOf, Exiting' = Exiting, ZombiePids' = ZombiePids
  PROVE  Tree!ForkFailed(q)
BY DEF Tree!ForkFailed, ParentOf, ZombiePids, ZombieSlots, SpentPids

LEMMA AsLeave ==
  ASSUME NEW p, p \in LivePids \ {1}, Exiting = {}, Exiting' = {p},
         ParentOf' = ParentOf, ZombiePids' = ZombiePids, SpentPids' = SpentPids
  PROVE  Tree!Leave(p)
BY DEF Tree!Leave, Tree!Live, LivePids, ParentOf, ZombiePids, ZombieSlots, SpentPids

LEMMA AsAdopt ==
  ASSUME NEW q, ParentOf[q] \in Exiting, ParentOf' = Adopted(q),
         Exiting' = Exiting, ZombiePids' = ZombiePids, SpentPids' = SpentPids
  PROVE  Tree!Adopt(q)
BY DEF Tree!Adopt, Adopted, ParentOf, ZombiePids, ZombieSlots, SpentPids

LEMMA AsExit ==
  ASSUME NEW p, p \in Exiting, \A q \in DOMAIN ParentOf : ParentOf[q] # p,
         Exiting' = {}, ZombiePids' = ZombiePids \cup {p},
         ParentOf' = ParentOf, SpentPids' = SpentPids
  PROVE  Tree!Exit(p)
BY DEF Tree!Exit, ParentOf, ZombiePids, ZombieSlots, SpentPids

LEMMA AsReap ==
  ASSUME NEW p, NEW q, p \in LivePids, q \in ZombiePids, ParentOf[q] = p,
         ParentOf' = Unlinked(q),
         ZombiePids' = ZombiePids \ {q}, Exiting' = Exiting, SpentPids' = SpentPids
  PROVE  Tree!Reap(p, q)
BY DEF Tree!Reap, Tree!Live, Unlinked, LivePids, ParentOf, ZombiePids, ZombieSlots, SpentPids

LEMMA AsNext ==
  ASSUME \/ \E p \in DOMAIN ParentOf, q \in 1 .. MaxPid : Tree!Fork(p, q)
         \/ \E q \in 1 .. MaxPid : Tree!ForkFailed(q)
         \/ \E p \in DOMAIN ParentOf : Tree!Leave(p) \/ Tree!Adopt(p) \/ Tree!Exit(p)
         \/ \E p, q \in DOMAIN ParentOf : Tree!Reap(p, q)
  PROVE  Tree!Next
BY DEF Tree!Next, ParentOf

\* A function of pids is the mapped parentOf of the next state as soon as it gives
\* every slot of the tree its parent's pid.
LEMMA NextParentOf ==
  ASSUME OneToOne', NEW F, F = [x \in DOMAIN F |-> F[x]],
         DOMAIN F = {pid'[s] : s \in InTree'},
         \A s \in InTree' : F[pid'[s]] = IF s = initproc THEN 0 ELSE pid'[parent'[s]]
  PROVE  ParentOf' = F
<1>1. DOMAIN ParentOf' = DOMAIN F
  BY ParentOfIsNext
<1>2. ASSUME NEW r \in DOMAIN F PROVE ParentOf'[r] = F[r]
  <2>1. PICK s \in InTree' : r = pid'[s]
    BY <1>2
  <2> QED BY <2>1, ParentOfIsNext
<1>3. ParentOf' = [x \in DOMAIN ParentOf' |-> ParentOf'[x]]
  BY DEF ParentOf
<1> QED BY <1>1, <1>2, <1>3

\* The tree stays as it is if its slots keep their pids and parents.
LEMMA SameParentOf ==
  ASSUME OneToOne, OneToOne', InTree' = InTree,
         \A s \in InTree : pid'[s] = pid[s] /\ parent'[s] = parent[s]
  PROVE  ParentOf' = ParentOf
<1>1. DOMAIN ParentOf = {pid'[s] : s \in InTree'}
  BY ParentOfIs
<1>2. ASSUME NEW s \in InTree'
      PROVE  ParentOf[pid'[s]] = IF s = initproc THEN 0 ELSE pid'[parent'[s]]
  <2>1. s # initproc => parent[s] \in InTree
    BY <1>2 DEF OneToOne
  <2> QED BY <1>2, <2>1, ParentOfIs
<1>3. ParentOf = [x \in DOMAIN ParentOf |-> ParentOf[x]]
  BY DEF ParentOf
<1> HIDE DEF ParentOf
<1> QED BY <1>1, <1>2, <1>3, NextParentOf

LEMMA LivePid ==
  ASSUME OneToOne, NEW s \in InTree, s \notin ExitSlots, s \notin ZombieSlots
  PROVE  pid[s] \in LivePids /\ pid[s] \in DOMAIN ParentOf
<1>1. pid[s] \in DOMAIN ParentOf
  BY DEF ParentOf
<1>2. \A t \in ExitSlots \cup ZombieSlots : t \in InTree /\ pid[t] # pid[s]
  BY DEF OneToOne
<1>3. pid[s] \notin Exiting
  BY <1>2 DEF Exiting, ExitSlots
<1>4. pid[s] \notin ZombiePids
  BY <1>2 DEF ZombiePids
<1> QED BY <1>1, <1>3, <1>4 DEF LivePids

\* The pids of the slots inside exit(), of the zombies and of the unlinked slots are
\* those of the next state if these slots and their pids do not change.
LEMMA SameExiting ==
  ASSUME ExitSlots' = ExitSlots, \A s \in ExitSlots : pid'[s] = pid[s]
  PROVE  Exiting' = Exiting
<1>1. Exiting = {pid[s] : s \in ExitSlots} /\ Exiting' = {pid'[s] : s \in ExitSlots'}
  BY DEF Exiting, ExitSlots
<1> QED BY <1>1

LEMMA SameZombies ==
  ASSUME ZombieSlots' = ZombieSlots, \A s \in ZombieSlots : pid'[s] = pid[s]
  PROVE  ZombiePids' = ZombiePids
BY DEF ZombiePids

LEMMA DrawnIs ==
  Drawn = {pid[s] : s \in DrawnSlots} /\ Drawn' = {pid'[s] : s \in DrawnSlots'}
BY DEF Drawn, DrawnSlots

LEMMA SameSpent ==
  ASSUME DrawnSlots' = DrawnSlots, \A s \in DrawnSlots : pid'[s] = pid[s],
         nextpid' = nextpid
  PROVE  SpentPids' = SpentPids
BY DrawnIs DEF SpentPids

\* fork() draws a pid: nothing the tree shows.
LEMMA ShowForkAlloc ==
  ASSUME IInv, PidInv, OneToOne, OneToOne',
         NEW c \in Cpus, NEW p \in Procs, ForkAlloc(c, p)
  PROVE  UNCHANGED Tree!vars
<1> DEFINE np == at[p]
<1> USE ProcsFacts
<1>0. TypeOK /\ HartInv /\ StatePoint
  BY DEF IInv, PointInv
<1>1. /\ np \in Procs /\ state[np] = "UNUSED" /\ parent[np] = NoProc
      /\ np \notin InTree \cup DrawnSlots
  BY <1>0 DEF ForkAlloc, TypeOK, HartInv, UnusedUnlinked, OneToOne, InTree, DrawnSlots,
              IInv, PointInv, InitLives
<1>2. /\ pid' = [pid EXCEPT ![np] = nextpid] /\ nextpid' = nextpid + 1
      /\ state' = [state EXCEPT ![np] = "USED"] /\ parent' = parent
      /\ pc' = [pc EXCEPT ![p] = "fparent", ![np] = "user"]
      /\ pc[p] = "falloc"
  BY DEF ForkAlloc, AllocPid, At
<1>3. pc[np] \in {"user", "dead"}
  BY <1>0, <1>1 DEF StatePoint
<1>4. InTree' = InTree
  BY <1>2 DEF InTree
<1>5. ZombieSlots' = ZombieSlots /\ np \notin ZombieSlots
  BY <1>0, <1>1, <1>2 DEF ZombieSlots, TypeOK
<1>6. ExitSlots' = ExitSlots /\ np \notin ExitSlots
  <2> HIDE DEF np
  <2> QED BY <1>0, <1>1, <1>2, <1>3 DEF ExitSlots, TypeOK
<1>7. DrawnSlots' = DrawnSlots \cup {np}
  BY <1>0, <1>1, <1>2 DEF DrawnSlots, TypeOK
<1>8. \A s \in Procs : s # np => pid'[s] = pid[s]
  BY <1>0, <1>2 DEF TypeOK
<1>9. pid'[np] = nextpid /\ nextpid \in Nat
  BY <1>0, <1>1, <1>2 DEF TypeOK
<1> HIDE DEF np
<1>10. ParentOf' = ParentOf
  <2>1. \A s \in InTree : pid'[s] = pid[s] /\ parent'[s] = parent[s]
    BY <1>1, <1>2, <1>8 DEF OneToOne
  <2> QED BY <1>4, <2>1, SameParentOf
<1>11. Exiting' = Exiting
  BY <1>6, <1>8, SameExiting DEF ExitSlots
<1>12. ZombiePids' = ZombiePids
  BY <1>5, <1>8, SameZombies DEF ZombieSlots
<1>13. SpentPids' = SpentPids
  <2>1. \A s \in DrawnSlots : s # np /\ s \in Procs
    BY <1>1 DEF DrawnSlots
  <2>2. Drawn' = Drawn \cup {nextpid}
    BY <1>7, <1>8, <1>9, <2>1, DrawnIs
  <2>3. SpentPids' = 1 .. (nextpid + 1) - 1 \ (Drawn \cup {nextpid})
    BY <1>2, <2>2 DEF SpentPids
  <2> QED BY <1>9, <2>3 DEF SpentPids
<1> QED BY <1>10, <1>11, <1>12, <1>13, AsStutter

\* fork() fails after it has drawn a pid.
LEMMA ShowForkNoMemory ==
  ASSUME IInv, PidInv, OneToOne, OneToOne', Budget,
         NEW c \in Cpus, NEW p \in Procs, ForkNoMemory(c, p)
  PROVE  Tree!Next
<1> USE ProcsFacts
<1>0. TypeOK
  BY DEF IInv
<1>1. /\ pid' = pid /\ nextpid' = nextpid + 1 /\ state' = state /\ parent' = parent
      /\ pc' = [pc EXCEPT ![p] = "ret"] /\ pc[p] = "falloc" /\ nextpid \in Nat
  BY <1>0 DEF ForkNoMemory, Return, Goto, At, TypeOK
<1>2. InTree' = InTree /\ ZombieSlots' = ZombieSlots /\ DrawnSlots' = DrawnSlots
  BY <1>1 DEF InTree, ZombieSlots, DrawnSlots
<1>3. ExitSlots' = ExitSlots
  BY <1>0, <1>1 DEF ExitSlots, TypeOK
<1>4. ParentOf' = ParentOf
  BY <1>1, <1>2, SameParentOf
<1>5. Exiting' = Exiting
  BY <1>1, <1>3, SameExiting
<1>6. ZombiePids' = ZombiePids
  BY <1>1, <1>2, SameZombies
<1>7. nextpid \notin Drawn /\ Drawn' = Drawn
  <2>1. nextpid \in Nat /\ \A s \in DrawnSlots : pid[s] \in 1 .. nextpid - 1
    BY <1>1 DEF OneToOne
  <2>2. nextpid \notin 1 .. nextpid - 1
    BY <2>1
  <2>3. nextpid \notin Drawn
    BY <2>1, <2>2, DrawnIs
  <2> QED BY <1>1, <1>2, <2>3, DrawnIs
<1>8. nextpid \notin SpentPids /\ SpentPids' = SpentPids \cup {nextpid}
  <2>1. SpentPids' = 1 .. (nextpid + 1) - 1 \ Drawn
    BY <1>1, <1>7 DEF SpentPids
  <2>2. nextpid >= 2
    BY DEF PidInv
  <2> QED BY <1>1, <1>7, <2>1, <2>2 DEF SpentPids
<1>9. Tree!ForkFailed(nextpid)
  BY <1>4, <1>5, <1>6, <1>8, AsForkFailed
<1>10. nextpid \in 1 .. MaxPid
  <2>1. p \in Allocating
    BY <1>1 DEF Allocating
  <2>2. Allocating # {} /\ nextpid + Cardinality(Allocating) <= MaxPid + 1
    BY <2>1 DEF Budget
  <2>3. Cardinality(Allocating) # 0
    BY <2>2, AllocatingFinite, FS_EmptySet
  <2> QED BY <1>1, <2>2, <2>3, AllocatingFinite, ProcAssumption DEF PidInv
<1> QED BY <1>9, <1>10, AsNext

\* fork() links the child: the tree's Fork.
LEMMA ShowForkParent ==
  ASSUME IInv, PidInv, OneToOne, OneToOne', Budget,
         NEW c \in Cpus, NEW p \in Procs, ForkParent(c, p)
  PROVE  Tree!Next
<1> DEFINE np == arg[p]
<1> USE ProcsFacts
<1>0. TypeOK /\ HartInv /\ Hart
  BY DEF IInv, HartInv, Hart
<1>1. np \in Procs /\ state[np] = "USED" /\ parent[np] = NoProc
  BY <1>0 DEF ForkParent, At, HartInv, ForkInv
<1>2. /\ pid' = pid /\ nextpid' = nextpid /\ state' = state
      /\ parent' = [parent EXCEPT ![np] = p]
      /\ pc' = [pc EXCEPT ![p] = "frunnable"] /\ pc[p] = "fparent"
  BY DEF ForkParent, Goto, At
<1>3. state[p] = "RUNNING" /\ np # p /\ np # initproc
  <2>1. state[p] = "RUNNING"
    BY <1>0, OnHart DEF ForkParent, At
  <2> QED BY <1>1, <2>1 DEF IInv, PointInv, InitLives
<1> HIDE DEF np
<1>4. np \in DrawnSlots /\ np \notin InTree
  BY <1>1, <1>3 DEF DrawnSlots, InTree
<1>5. InTree' = InTree \cup {np}
  BY <1>0, <1>1, <1>2 DEF InTree, TypeOK
<1>6. DrawnSlots' = DrawnSlots \ {np}
  BY <1>0, <1>1, <1>2 DEF DrawnSlots, TypeOK
<1>7. ZombieSlots' = ZombieSlots /\ ExitSlots' = ExitSlots
  BY <1>0, <1>2 DEF ZombieSlots, ExitSlots, TypeOK
<1>8. p \in InTree /\ p \notin ExitSlots /\ p \notin ZombieSlots
  BY <1>2, <1>3 DEF InTree, ExitSlots, ZombieSlots, IInv, TreeInv, HasParent
<1>9. pid[p] \in LivePids /\ pid[p] \in DOMAIN ParentOf
  BY <1>8, LivePid
<1>10. Exiting' = Exiting /\ ZombiePids' = ZombiePids
  BY <1>2, <1>7, SameExiting, SameZombies
<1>11. /\ pid[np] \in 1 .. nextpid - 1
       /\ \A s \in DrawnSlots \cup InTree : s # np => pid[s] # pid[np]
  BY <1>4 DEF OneToOne
<1>12. pid[np] \notin SpentPids /\ SpentPids' = SpentPids \cup {pid[np]}
  <2>1. pid[np] \in Drawn /\ Drawn' = Drawn \ {pid[np]}
    BY <1>2, <1>4, <1>6, <1>11, DrawnIs
  <2> QED BY <1>2, <1>11, <2>1 DEF SpentPids
<1>13. ParentOf' = Linked(pid[p], pid[np])
  <2> DEFINE F == Linked(pid[p], pid[np])
  <2>1. DOMAIN F = {pid'[s] : s \in InTree'}
    BY <1>2, <1>5, ParentOfIs DEF Linked
  <2>2. ASSUME NEW s \in InTree'
        PROVE  F[pid'[s]] = IF s = initproc THEN 0 ELSE pid'[parent'[s]]
    <3>1. pid[s] \in DOMAIN F
      BY <1>2, <2>1, <2>2
    <3>2. CASE s = np
      BY <1>0, <1>1, <1>2, <1>3, <3>1, <3>2 DEF TypeOK, Linked
    <3>3. CASE s # np
      <4>1. s \in InTree /\ pid[s] # pid[np] /\ parent'[s] = parent[s]
        BY <1>0, <1>2, <1>5, <1>11, <2>2, <3>3 DEF InTree, TypeOK
      <4> QED BY <1>2, <3>1, <4>1, ParentOfIs DEF Linked
    <3> QED BY <3>2, <3>3
  <2>3. F = [x \in DOMAIN F |-> F[x]]
    BY DEF Linked
  <2> HIDE DEF F
  <2>4. ParentOf' = F
    BY <2>1, <2>2, <2>3, NextParentOf
  <2> QED BY <2>4 DEF F
<1>14. PICK a, q : a = pid[p] /\ q = pid[np]
  OBVIOUS
<1>15. pid[np] \in 1 .. MaxPid
  <2>1. initproc \in InTree /\ pid[initproc] = 1
    BY DEF OneToOne
  <2>2. pid[np] # 1
    BY <1>3, <1>11, <2>1
  <2>3. nextpid # 2 /\ nextpid \in Nat
    BY <1>0, <1>11, <2>2 DEF TypeOK
  <2>4. nextpid <= MaxPid + 1
    BY <2>3, AllocatingFinite, ProcAssumption DEF Budget
  <2>5. pid[np] \in 1 .. nextpid - 1
    BY <1>11
  <2>6. MaxPid \in Nat
    BY ProcAssumption
  <2> QED BY <2>3, <2>4, <2>5, <2>6
<1>16. /\ a \in LivePids /\ q \notin SpentPids /\ ParentOf' = Linked(a, q)
       /\ SpentPids' = SpentPids \cup {q}
       /\ a \in DOMAIN ParentOf /\ q \in 1 .. MaxPid
  BY <1>9, <1>12, <1>13, <1>14, <1>15
<1>17. Tree!Fork(a, q)
  BY <1>10, <1>16, AsFork
<1> QED BY <1>16, <1>17, AsNext

\* While nobody holds wait_lock nobody is inside exit(); whoever is there is alone.
LEMMA ExitingIs ==
  ASSUME IInv
  PROVE  /\ wait_lock = NoCpu => ExitSlots = {}
         /\ \A p \in ExitSlots : ExitSlots = {p}
<1>1. Hart /\ WaitLockHolder
  BY DEF IInv, HartInv, Hart, PointInv
<1> QED BY <1>1, WaitLockExclusive DEF ExitSlots, WithWaitLock

\* exit() takes wait_lock: the tree's Leave.
LEMMA ShowExitLock ==
  ASSUME IInv, PidInv, OneToOne, OneToOne',
         NEW c \in Cpus, NEW p \in Procs, ExitLock(c, p)
  PROVE  Tree!Next
<1> USE ProcsFacts
<1>0. TypeOK /\ HartInv /\ Hart
  BY DEF IInv, HartInv, Hart
<1>1. /\ pid' = pid /\ nextpid' = nextpid /\ state' = state /\ parent' = parent
      /\ pc' = [pc EXCEPT ![p] = "xreparent"] /\ pc[p] = "xlock"
      /\ wait_lock = NoCpu
  BY DEF ExitLock, Goto, At, tbl
<1>2. state[p] = "RUNNING" /\ p # initproc
  <2>1. state[p] = "RUNNING"
    BY <1>0, OnHart DEF ExitLock, At
  <2> QED BY <1>1, <2>1 DEF IInv, PointInv, InitLives, ExitPoints
<1>3. InTree' = InTree /\ ZombieSlots' = ZombieSlots /\ DrawnSlots' = DrawnSlots
  BY <1>1 DEF InTree, ZombieSlots, DrawnSlots
<1>4. ExitSlots = {}
  BY <1>1, ExitingIs
<1>5. ExitSlots' = {p}
  BY <1>0, <1>1, <1>4 DEF ExitSlots, TypeOK
<1>6. p \in InTree /\ p \notin ExitSlots /\ p \notin ZombieSlots
  BY <1>2, <1>4 DEF InTree, ZombieSlots, IInv, TreeInv, HasParent
<1>7. pid[p] \in LivePids /\ pid[p] \in DOMAIN ParentOf
  BY <1>6, LivePid
<1>8. pid[p] # 1
  BY <1>2, <1>6 DEF OneToOne
<1>9. Exiting = {} /\ Exiting' = {pid[p]}
  <2>1. Exiting = {pid[s] : s \in ExitSlots} /\ Exiting' = {pid'[s] : s \in ExitSlots'}
    BY DEF Exiting, ExitSlots
  <2> QED BY <1>1, <1>4, <1>5, <2>1
<1>10. ParentOf' = ParentOf
  BY <1>1, <1>3, SameParentOf
<1>11. ZombiePids' = ZombiePids
  BY <1>1, <1>3, SameZombies
<1>12. SpentPids' = SpentPids
  BY <1>1, <1>3, SameSpent
<1>13. PICK a : a = pid[p]
  OBVIOUS
<1>14. a \in LivePids \ {1} /\ Exiting' = {a} /\ a \in DOMAIN ParentOf
  BY <1>7, <1>8, <1>9, <1>13
<1>15. Tree!Leave(a)
  BY <1>9, <1>10, <1>11, <1>12, <1>14, AsLeave
<1> QED BY <1>14, <1>15, AsNext

\* reparent() hands a child to init: the tree's Adopt.
LEMMA ShowExitReparent ==
  ASSUME IInv, PidInv, OneToOne, OneToOne',
         NEW c \in Cpus, NEW p \in Procs, ExitReparent(c, p), parent[at[p]] = p
  PROVE  Tree!Next
<1> DEFINE s0 == at[p]
<1> USE ProcsFacts
<1>0. TypeOK /\ HartInv /\ Hart
  BY DEF IInv, HartInv, Hart
<1>1. /\ pid' = pid /\ nextpid' = nextpid /\ state' = state
      /\ parent' = [parent EXCEPT ![s0] = initproc]
      /\ pc' = [pc EXCEPT ![p] = "xwakeinit"] /\ pc[p] = "xreparent"
      /\ s0 \in Procs /\ parent[s0] = p
  BY <1>0 DEF ExitReparent, Goto, At, TypeOK
<1> HIDE DEF s0
<1>2. p \in ExitSlots /\ p # NoProc
  BY <1>1 DEF ExitSlots
<1>3. s0 # initproc /\ s0 \in InTree
  BY <1>1, <1>2 DEF InTree, IInv, TreeInv, HasParent
<1>4. InTree' = InTree
  BY <1>0, <1>1, <1>2 DEF InTree, TypeOK
<1>5. ZombieSlots' = ZombieSlots
  BY <1>1 DEF ZombieSlots
<1>6. DrawnSlots' = DrawnSlots
  BY <1>0, <1>1, <1>2 DEF DrawnSlots, TypeOK
<1>7. ExitSlots' = ExitSlots
  BY <1>0, <1>1 DEF ExitSlots, TypeOK
<1>8. Exiting' = Exiting
  BY <1>1, <1>7, SameExiting
<1>9. ZombiePids' = ZombiePids
  BY <1>1, <1>5, SameZombies
<1>10. SpentPids' = SpentPids
  BY <1>1, <1>6, SameSpent
<1>11. ParentOf[pid[s0]] = pid[p] /\ pid[s0] \in DOMAIN ParentOf
  BY <1>1, <1>3, ParentOfIs
<1>12. pid[p] \in Exiting
  BY <1>2 DEF Exiting, ExitSlots
<1>13. ParentOf' = Adopted(pid[s0])
  <2> DEFINE F == Adopted(pid[s0])
  <2>1. DOMAIN F = {pid'[s] : s \in InTree'}
    BY <1>1, <1>4, ParentOfIs DEF Adopted
  <2>2. ASSUME NEW s \in InTree'
        PROVE  F[pid'[s]] = IF s = initproc THEN 0 ELSE pid'[parent'[s]]
    <3>1. s \in InTree /\ pid[s] \in DOMAIN ParentOf
      BY <1>1, <1>4, <2>2, ParentOfIs
    <3>2. CASE s = s0
      <4>1. pid'[parent'[s]] = 1
        BY <1>0, <1>1, <3>2 DEF TypeOK, OneToOne
      <4> QED BY <1>1, <1>3, <3>1, <3>2, <4>1 DEF Adopted
    <3>3. CASE s # s0
      <4>1. pid[s] # pid[s0] /\ parent'[s] = parent[s]
        BY <1>0, <1>1, <1>3, <3>1, <3>3 DEF OneToOne, TypeOK
      <4> QED BY <1>1, <3>1, <4>1, ParentOfIs DEF Adopted
    <3> QED BY <3>2, <3>3
  <2>3. F = [x \in DOMAIN F |-> F[x]]
    BY DEF Adopted, ParentOf
  <2> HIDE DEF F
  <2>4. ParentOf' = F
    BY <2>1, <2>2, <2>3, NextParentOf
  <2> QED BY <2>4 DEF F
<1>14. PICK q : q = pid[s0]
  OBVIOUS
<1>15. q \in DOMAIN ParentOf /\ ParentOf[q] \in Exiting /\ ParentOf' = Adopted(q)
  BY <1>11, <1>12, <1>13, <1>14
<1>16. Tree!Adopt(q)
  BY <1>8, <1>9, <1>10, <1>15, AsAdopt
<1> QED BY <1>15, <1>16, AsNext

\* exit() ends: the tree's Exit.
LEMMA ShowExitZombie ==
  ASSUME IInv, PidInv, OneToOne, OneToOne',
         NEW c \in Cpus, NEW p \in Procs, ExitZombie(c, p)
  PROVE  Tree!Next
<1> USE ProcsFacts
<1>0. TypeOK /\ HartInv /\ Hart
  BY DEF IInv, HartInv, Hart
<1>1. /\ pid' = pid /\ nextpid' = nextpid /\ parent' = parent
      /\ state' = [state EXCEPT ![p] = "ZOMBIE"]
      /\ pc' = [pc EXCEPT ![p] = "dead"] /\ pc[p] = "xzombie"
  BY DEF ExitZombie, Sched, Goto, At
<1>2. p \in ExitSlots /\ state[p] = "RUNNING"
  BY <1>0, <1>1, OnHart DEF ExitSlots, ExitZombie, At
<1>3. ExitSlots = {p} /\ p \in InTree
  BY <1>2, ExitingIs DEF OneToOne
<1>4. InTree' = InTree
  BY <1>1 DEF InTree
<1>5. ExitSlots' = {}
  BY <1>0, <1>1, <1>3 DEF ExitSlots, TypeOK
<1>6. ZombieSlots' = ZombieSlots \cup {p}
  BY <1>0, <1>1 DEF ZombieSlots, TypeOK
<1>7. DrawnSlots' = DrawnSlots
  BY <1>0, <1>1, <1>2 DEF DrawnSlots, TypeOK
<1>8. pid[p] \in Exiting /\ Exiting' = {}
  <2>1. Exiting = {pid[s] : s \in ExitSlots} /\ Exiting' = {pid'[s] : s \in ExitSlots'}
    BY DEF Exiting, ExitSlots
  <2> QED BY <1>2, <1>5, <2>1
<1>9. ZombiePids' = ZombiePids \cup {pid[p]}
  BY <1>1, <1>6 DEF ZombiePids
<1>10. SpentPids' = SpentPids
  BY <1>1, <1>7, SameSpent
<1>11. ParentOf' = ParentOf
  BY <1>1, <1>4, SameParentOf
<1>12. ASSUME NEW q \in DOMAIN ParentOf PROVE ParentOf[q] # pid[p]
  <2>1. PICK s \in InTree : q = pid[s]
    BY <1>12, ParentOfIs
  <2>2. CASE s = initproc
    <3>1. ParentOf[q] = 0
      BY <2>1, <2>2, ParentOfIs
    <3>2. pid[p] # 0
      BY <1>3 DEF OneToOne
    <3> QED BY <3>1, <3>2
  <2>3. CASE s # initproc
    <3>1. ParentOf[q] = pid[parent[s]] /\ parent[s] \in InTree
      BY <2>1, <2>3, ParentOfIs DEF OneToOne
    <3>2. parent[s] # p
      BY <1>1, <2>1 DEF IInv, TreeInv, Childless, OneToOne
    <3> QED BY <1>3, <3>1, <3>2 DEF OneToOne
  <2> QED BY <2>2, <2>3
<1>13. pid[p] \in DOMAIN ParentOf
  BY <1>3, ParentOfIs
<1>14. PICK a : a = pid[p]
  OBVIOUS
<1>15. /\ a \in Exiting /\ a \in DOMAIN ParentOf /\ ZombiePids' = ZombiePids \cup {a}
       /\ \A q \in DOMAIN ParentOf : ParentOf[q] # a
  BY <1>8, <1>9, <1>12, <1>13, <1>14
<1>16. Tree!Exit(a)
  BY <1>8, <1>10, <1>11, <1>15, AsExit
<1> QED BY <1>15, <1>16, AsNext

\* wait() frees a zombie: the tree's Reap.
LEMMA ShowWaitReap ==
  ASSUME IInv, PidInv, OneToOne, OneToOne',
         NEW c \in Cpus, NEW p \in Procs, WaitReap(c, p)
  PROVE  Tree!Next
<1> DEFINE z == at[p]
<1> USE ProcsFacts
<1>0. TypeOK /\ HartInv /\ Hart
  BY DEF IInv, HartInv, Hart
<1>1. /\ nextpid' = nextpid
      /\ pid' = [pid EXCEPT ![z] = 0]
      /\ state' = [state EXCEPT ![z] = "UNUSED"]
      /\ parent' = [parent EXCEPT ![z] = NoProc]
      /\ pc' = [pc EXCEPT ![p] = "ret"] /\ pc[p] = "wscan"
      /\ z \in Procs /\ parent[z] = p /\ state[z] = "ZOMBIE"
  BY <1>0 DEF WaitReap, ZombieChild, FreeProc, Return, Goto, At, TypeOK
<1>2. state[p] = "RUNNING"
  BY <1>0, OnHart DEF WaitReap, At
<1> HIDE DEF z
<1>3. z \in ZombieSlots /\ z \in InTree /\ z # initproc
  BY <1>1 DEF ZombieSlots, OneToOne
<1>4. p \in InTree /\ p \notin ExitSlots /\ p \notin ZombieSlots /\ p # z
  BY <1>1, <1>2 DEF InTree, ExitSlots, ZombieSlots, IInv, TreeInv, HasParent
<1>5. InTree' = InTree \ {z}
  BY <1>0, <1>1, <1>3 DEF InTree, TypeOK
<1>6. ZombieSlots' = ZombieSlots \ {z}
  BY <1>0, <1>1 DEF ZombieSlots, TypeOK
<1>7. ExitSlots' = ExitSlots /\ z \notin ExitSlots
  BY <1>0, <1>1, <1>3 DEF ExitSlots, TypeOK, OneToOne
<1>8. DrawnSlots' = DrawnSlots /\ z \notin DrawnSlots
  BY <1>0, <1>1 DEF DrawnSlots, TypeOK
<1>9. \A s \in Procs : s # z => pid'[s] = pid[s] /\ parent'[s] = parent[s]
  BY <1>0, <1>1 DEF TypeOK
<1>10. \A s \in InTree : s # z => pid[s] # pid[z]
  BY <1>3 DEF OneToOne
<1>11. Exiting' = Exiting
  BY <1>7, <1>9, SameExiting DEF ExitSlots
<1>12. SpentPids' = SpentPids
  BY <1>1, <1>8, <1>9, SameSpent DEF DrawnSlots
<1>13. pid[z] \in ZombiePids /\ ZombiePids' = ZombiePids \ {pid[z]}
  <2>1. \A s \in ZombieSlots : s \in InTree /\ s \in Procs
    BY DEF OneToOne, ZombieSlots
  <2>2. \A s \in ZombieSlots \ {z} : pid'[s] = pid[s] /\ pid[s] # pid[z]
    BY <1>9, <1>10, <2>1
  <2> QED BY <1>3, <1>6, <2>2 DEF ZombiePids
<1>14. pid[p] \in LivePids
  BY <1>4, LivePid
<1>15. /\ ParentOf[pid[z]] = pid[p] /\ pid[z] \in DOMAIN ParentOf
       /\ pid[p] \in DOMAIN ParentOf
  BY <1>1, <1>3, <1>4, ParentOfIs
<1>16. ParentOf' = Unlinked(pid[z])
  <2> DEFINE F == Unlinked(pid[z])
  <2>1. \A s \in InTree' : s \in InTree /\ s # z /\ s \in Procs
    BY <1>5 DEF OneToOne
  <2>2. DOMAIN F = {pid'[s] : s \in InTree'}
    <3>1. DOMAIN F = {pid[s] : s \in InTree} \ {pid[z]}
      BY ParentOfIs DEF Unlinked
    <3>2. \A s \in InTree' : pid'[s] = pid[s] /\ pid[s] # pid[z] /\ s \in InTree
      BY <1>9, <1>10, <2>1
    <3>3. \A s \in InTree : s = z \/ s \in InTree'
      BY <1>5
    <3>4. ASSUME NEW r \in {pid'[s] : s \in InTree'} PROVE r \in {pid[s] : s \in InTree} \ {pid[z]}
      BY <3>2
    <3>5. ASSUME NEW r \in {pid[s] : s \in InTree} \ {pid[z]} PROVE r \in {pid'[s] : s \in InTree'}
      <4>1. PICK s \in InTree : r = pid[s]
        BY <3>5
      <4>2. s \in InTree' /\ pid'[s] = r
        BY <3>2, <3>3, <3>5, <4>1
      <4> QED BY <4>2
    <3> QED BY <3>1, <3>4, <3>5
  <2>3. ASSUME NEW s \in InTree'
        PROVE  F[pid'[s]] = IF s = initproc THEN 0 ELSE pid'[parent'[s]]
    <3>1. s \in InTree /\ s # z /\ s \in Procs /\ pid'[s] = pid[s] /\ parent'[s] = parent[s]
      BY <1>9, <2>1, <2>3
    <3>2. F[pid'[s]] = ParentOf[pid[s]]
      BY <1>10, <3>1, ParentOfIs DEF Unlinked
    <3>3. s # initproc => parent[s] \in Procs /\ parent[s] # z
      <4>1. s # initproc => parent[s] \in InTree
        BY <3>1 DEF OneToOne
      <4>2. s # initproc => state[parent[s]] # "ZOMBIE"
        BY <3>1, <4>1 DEF IInv, TreeInv, LiveParent, OneToOne
      <4> QED BY <1>1, <4>1, <4>2 DEF OneToOne
    <3>4. s # initproc => pid'[parent'[s]] = pid[parent[s]]
      BY <1>9, <3>1, <3>3
    <3> QED BY <3>1, <3>2, <3>4, ParentOfIs
  <2>4. F = [x \in DOMAIN F |-> F[x]]
    BY DEF Unlinked
  <2> HIDE DEF F
  <2>5. ParentOf' = F
    BY <2>2, <2>3, <2>4, NextParentOf
  <2> QED BY <2>5 DEF F
<1>17. PICK a, q : a = pid[p] /\ q = pid[z]
  OBVIOUS
<1>18. /\ a \in LivePids /\ q \in ZombiePids /\ ParentOf[q] = a
       /\ ParentOf' = Unlinked(q) /\ ZombiePids' = ZombiePids \ {q}
       /\ a \in DOMAIN ParentOf /\ q \in DOMAIN ParentOf
  BY <1>13, <1>14, <1>15, <1>16, <1>17
<1>19. Tree!Reap(a, q)
  BY <1>11, <1>12, <1>18, AsReap
<1> QED BY <1>18, <1>19, AsNext

\* Every other step of the schedulers, of a program or of the kernel is invisible.
LEMMA ShowScheduler ==
  ASSUME IInv, NEW c \in Cpus, Scheduler(c)
  PROVE  UNCHANGED Tree!vars
<1> USE ProcsFacts DEF TypeOK, tbl
<1>0. TypeOK /\ HartInv /\ Hart
  BY DEF IInv, HartInv, Hart
<1>1. UNCHANGED <<pid, parent, nextpid>>
  BY <1>0 DEF Scheduler, SchedSkip, SchedPick, Resume, SchedBack
<1>2. ASSUME NEW s \in Procs
      PROVE  /\ state'[s] = "ZOMBIE" <=> state[s] = "ZOMBIE"
             /\ state'[s] = "USED" <=> state[s] = "USED"
  BY <1>0 DEF Scheduler, SchedSkip, SchedPick, Resume, SchedBack
<1>3. ASSUME NEW s \in Procs
      PROVE  pc'[s] \in {"xreparent", "xwakeinit", "xwakeparent", "xzombie"}
               <=> pc[s] \in {"xreparent", "xwakeinit", "xwakeparent", "xzombie"}
  BY <1>0 DEF Scheduler, SchedSkip, SchedPick, Resume, SchedBack, Goto
<1> QED BY <1>1, <1>2, <1>3, Invisible

LEMMA ShowUser ==
  ASSUME IInv, NEW c \in Cpus, NEW p \in Procs, User(c, p) \/ Yield(c, p)
  PROVE  UNCHANGED Tree!vars
<1> USE ProcsFacts DEF TypeOK, tbl
<1>0. TypeOK /\ HartInv /\ Hart
  BY DEF IInv, HartInv, Hart
<1>1. UNCHANGED <<pid, parent, nextpid>>
  BY <1>0 DEF User, SysFork, SysExit, SysWait, SysKill, Fault, Syscall, Yield
<1>2. state[p] = "RUNNING"
  BY <1>0, OnHart DEF User, SysFork, SysExit, SysWait, SysKill, Fault, Syscall, Yield, At
<1>3. ASSUME NEW s \in Procs
      PROVE  /\ state'[s] = "ZOMBIE" <=> state[s] = "ZOMBIE"
             /\ state'[s] = "USED" <=> state[s] = "USED"
  BY <1>0, <1>2 DEF User, SysFork, SysExit, SysWait, SysKill, Fault, Syscall, Yield, Sched
<1>4. ASSUME NEW s \in Procs
      PROVE  pc'[s] \in {"xreparent", "xwakeinit", "xwakeparent", "xzombie"}
               <=> pc[s] \in {"xreparent", "xwakeinit", "xwakeparent", "xzombie"}
  BY <1>0 DEF User, SysFork, SysExit, SysWait, SysKill, Fault, Syscall, Yield, At, Goto
<1> QED BY <1>1, <1>3, <1>4, Invisible

LEMMA ShowWalk ==
  ASSUME IInv, NEW c \in Cpus, NEW p \in Procs,
         \/ ExitIfKilled(c, p) \/ UserRet(c, p) \/ ForkScan(c, p) \/ ForkRunnable(c, p)
         \/ ExitWakeInit(c, p) \/ ExitWakeParent(c, p)
         \/ ExitReparent(c, p) /\ parent[at[p]] # p
  PROVE  UNCHANGED Tree!vars
<1> USE ProcsFacts DEF TypeOK, tbl
<1>0. TypeOK /\ HartInv /\ Hart /\ ForkInv
  BY DEF IInv, HartInv, Hart
<1>1. UNCHANGED <<pid, parent, nextpid>>
  BY <1>0 DEF ExitIfKilled, UserRet, ForkScan, ForkRunnable, ExitWakeInit,
              ExitWakeParent, ExitReparent
<1>2. ASSUME NEW s \in Procs
      PROVE  /\ state'[s] = "ZOMBIE" <=> state[s] = "ZOMBIE"
             /\ parent[s] = NoProc => (state'[s] = "USED" <=> state[s] = "USED")
  <2>1. CASE ForkRunnable(c, p)
    <3>1. /\ state' = [state EXCEPT ![arg[p]] = "RUNNABLE"] /\ arg[p] \in Procs
          /\ state[arg[p]] = "USED" /\ parent[arg[p]] = p
      BY <1>0, <2>1 DEF ForkRunnable, At, ForkInv
    <3> QED BY <1>0, <3>1
  <2>2. CASE ExitWakeInit(c, p) \/ ExitWakeParent(c, p)
    <3>1. state' = state \/ (state[wat[p]] = "SLEEPING"
                             /\ state' = [state EXCEPT ![wat[p]] = "RUNNABLE"])
      BY <2>2 DEF ExitWakeInit, ExitWakeParent, WakeupSlot
    <3> QED BY <1>0, <3>1
  <2>3. CASE ~(ForkRunnable(c, p) \/ ExitWakeInit(c, p) \/ ExitWakeParent(c, p))
    <3>1. state' = state
      BY <2>3 DEF ExitIfKilled, UserRet, ForkScan, ExitReparent
    <3> QED BY <3>1
  <2> QED BY <2>1, <2>2, <2>3
<1>3. ASSUME NEW s \in Procs
      PROVE  pc'[s] \in {"xreparent", "xwakeinit", "xwakeparent", "xzombie"}
               <=> pc[s] \in {"xreparent", "xwakeinit", "xwakeparent", "xzombie"}
  BY <1>0 DEF ExitIfKilled, UserRet, ForkScan, ForkRunnable, ExitWakeInit,
              ExitWakeParent, ExitReparent, At, Goto, Return
<1> QED BY <1>1, <1>2, <1>3, Invisible

LEMMA ShowWait ==
  ASSUME IInv, NEW c \in Cpus, NEW p \in Procs,
         \/ WaitLock(c, p) \/ WaitScan(c, p) \/ WaitBadAddress(c, p)
         \/ WaitSleep(c, p) \/ KillScan(c, p) \/ KillFound(c, p)
  PROVE  UNCHANGED Tree!vars
<1> USE ProcsFacts DEF TypeOK, tbl
<1>0. TypeOK /\ HartInv /\ Hart
  BY DEF IInv, HartInv, Hart
<1>1. UNCHANGED <<pid, parent, nextpid>>
  BY <1>0 DEF WaitLock, WaitScan, WaitBadAddress, WaitSleep, KillScan, KillFound
<1>2. ASSUME NEW s \in Procs
      PROVE  /\ state'[s] = "ZOMBIE" <=> state[s] = "ZOMBIE"
             /\ state'[s] = "USED" <=> state[s] = "USED"
  <2>1. CASE WaitSleep(c, p)
    <3>1. state[p] = "RUNNING" /\ state' = [state EXCEPT ![p] = "SLEEPING"]
      BY <1>0, <2>1, OnHart DEF WaitSleep, Sched, At
    <3> QED BY <1>0, <3>1
  <2>2. CASE KillFound(c, p)
    <3>1. state' = [state EXCEPT ![at[p]] = AfterKill(at[p])]
      BY <2>2 DEF KillFound
    <3> QED BY <1>0, <3>1 DEF AfterKill
  <2>3. CASE ~(WaitSleep(c, p) \/ KillFound(c, p))
    <3>1. state' = state
      BY <2>3 DEF WaitLock, WaitScan, WaitBadAddress, KillScan
    <3> QED BY <3>1
  <2> QED BY <2>1, <2>2, <2>3
<1>3. ASSUME NEW s \in Procs
      PROVE  pc'[s] \in {"xreparent", "xwakeinit", "xwakeparent", "xzombie"}
               <=> pc[s] \in {"xreparent", "xwakeinit", "xwakeparent", "xzombie"}
  BY <1>0 DEF WaitLock, WaitScan, WaitBadAddress, WaitSleep, KillScan, KillFound,
              At, Goto, Return
<1> QED BY <1>1, <1>2, <1>3, Invisible

\* Every step of the kernel is a step of the tree or changes nothing in it.
LEMMA TreeStep ==
  IInv /\ PidInv /\ Budget /\ [Next]_vars => [Tree!Next]_(Tree!vars)
<1> SUFFICES ASSUME IInv, PidInv, Budget, [Next]_vars
             PROVE  Tree!Next \/ UNCHANGED Tree!vars
  OBVIOUS
<1>0. OneToOne
  BY MappingOneToOne
<1>1. OneToOne'
  <2>1. TypeOK /\ Hart /\ ForkInv
    BY DEF IInv, HartInv, Hart
  <2>2. PidInv'
    BY <2>1, PidInvStep
  <2> QED BY <2>2, IInvStep, MappingOneToOneNext
<1>2. CASE UNCHANGED vars
  <2>1. UNCHANGED <<pid, parent, nextpid>> /\ UNCHANGED <<state, pc>>
    BY <1>2 DEF vars, tbl
  <2> QED BY <2>1, Invisible
<1>3. ASSUME NEW c \in Cpus, Scheduler(c) PROVE UNCHANGED Tree!vars
  BY <1>3, ShowScheduler
<1>4. ASSUME NEW c \in Cpus, NEW p \in Procs, User(c, p) \/ Yield(c, p)
      PROVE  UNCHANGED Tree!vars
  BY <1>4, ShowUser
<1>5. ASSUME NEW c \in Cpus, NEW p \in Procs, Kernel(c, p)
      PROVE  Tree!Next \/ UNCHANGED Tree!vars
  <2>1. CASE ForkAlloc(c, p)
    BY <1>0, <1>1, <2>1, ShowForkAlloc
  <2>2. CASE ForkNoMemory(c, p)
    BY <1>0, <1>1, <2>2, ShowForkNoMemory
  <2>3. CASE ForkParent(c, p)
    BY <1>0, <1>1, <2>3, ShowForkParent
  <2>4. CASE ExitLock(c, p)
    BY <1>0, <1>1, <2>4, ShowExitLock
  <2>5. CASE ExitReparent(c, p) /\ parent[at[p]] = p
    BY <1>0, <1>1, <2>5, ShowExitReparent
  <2>6. CASE ExitZombie(c, p)
    BY <1>0, <1>1, <2>6, ShowExitZombie
  <2>7. CASE WaitReap(c, p)
    BY <1>0, <1>1, <2>7, ShowWaitReap
  <2>8. CASE \/ ExitIfKilled(c, p) \/ UserRet(c, p) \/ ForkScan(c, p)
             \/ ForkRunnable(c, p) \/ ExitWakeInit(c, p) \/ ExitWakeParent(c, p)
             \/ ExitReparent(c, p) /\ parent[at[p]] # p
    BY <2>8, ShowWalk
  <2>9. CASE \/ WaitLock(c, p) \/ WaitScan(c, p) \/ WaitBadAddress(c, p)
             \/ WaitSleep(c, p) \/ KillScan(c, p) \/ KillFound(c, p)
    BY <2>9, ShowWait
  <2> QED BY <1>5, <2>1, <2>2, <2>3, <2>4, <2>5, <2>6, <2>7, <2>8, <2>9 DEF Kernel
<1> QED BY <1>2, <1>3, <1>4, <1>5 DEF Next

LEMMA TreeInit == Init => Tree!Init
<1> SUFFICES ASSUME Init PROVE Tree!Init
  OBVIOUS
<1> USE ProcsFacts
<1>1. /\ InTree = {initproc} /\ ExitSlots = {} /\ ZombieSlots = {} /\ DrawnSlots = {}
      /\ pid[initproc] = 1 /\ nextpid = 2
  BY DEF Init, InTree, ExitSlots, ZombieSlots, DrawnSlots, initproc, NoProc
<1>2. ParentOf = [q \in {1} |-> 0]
  BY <1>1 DEF ParentOf
<1>3. Exiting = {} /\ ZombiePids = {}
  <2>1. Exiting = {pid[s] : s \in ExitSlots}
    BY DEF Exiting, ExitSlots
  <2> QED BY <1>1, <2>1 DEF ZombiePids
<1>4. SpentPids = {1}
  <2>1. Drawn = {}
    BY <1>1, DrawnIs
  <2> QED BY <1>1, <2>1 DEF SpentPids
<1> QED BY <1>2, <1>3, <1>4
        DEF Tree!Init, ParentOf, ZombiePids, ZombieSlots, SpentPids

\* fork(), exit() and wait() on the table of slots implement the tree of processes
\* (proc.c:312-478).
THEOREM TreeImplemented == Spec => TreeSpec
<1>1. Init => PidInv /\ Budget
  BY ProcsFacts DEF Init, PidInv, initproc, Budget, Allocating
<1>2. TypeOK /\ HartInv /\ StatePoint /\ PidInv /\ Budget /\ [Next]_vars
        => PidInv' /\ Budget'
  BY PidInvStep, BudgetStep DEF HartInv, Hart
<1>3. IInv => StatePoint /\ TypeOK /\ HartInv
  BY DEF IInv, PointInv
<1> QED BY <1>1, <1>2, <1>3, TreeInit, TreeStep, InvariantCorrect, PTL
        DEF Spec, TreeSpec, Tree!Spec
=============================================================================
