-------------------------------- MODULE Proc --------------------------------
(***************************************************************************)
(* The life of a process in the xv6 kernel of OSN_Assignment4, built with  *)
(* the default scheduler (RR): the process table, its locks, the per-CPU   *)
(* schedulers, fork, exit, wait, kill and the sleep/wakeup pair they use   *)
(* (kernel/proc.c, kernel/trap.c).                                         *)
(*                                                                         *)
(* The grain is the lock.  A critical section that holds one spinlock and  *)
(* only touches what this lock protects is one action; the loops over the  *)
(* process table (fork, wait, kill, wakeup, scheduler) lock one slot at a  *)
(* time and so are one action per slot; a lock that is kept across a swtch *)
(* or while another lock is taken is visible in between.                   *)
(***************************************************************************)
EXTENDS Naturals, FiniteSets

CONSTANTS
  NPROC,     \* size of the process table
  Cpus,      \* the harts
  NoCpu,     \* "not held by any hart"
  MaxPid,    \* bound: fork is not called once the pids 1 .. MaxPid are used up
  KillPids   \* the pids user programs pass to kill()

ASSUME ProcAssumption ==
  /\ NPROC \in Nat \ {0}
  /\ NoCpu \notin Cpus
  /\ MaxPid \in Nat
  /\ KillPids \subseteq Nat \ {1}    \* killing init is a kernel panic

Procs    == 1 .. NPROC
NoProc   == 0
initproc == 1

VARIABLES
  state, pid, parent, killed, chan,  \* struct proc, one entry per slot
  lock,       \* p->lock: the hart that holds it, or NoCpu
  wait_lock,  \* wait_lock: likewise
  nextpid,
  cur,        \* c->proc, or NoProc
  mode,       \* what hart c executes: its scheduler loop ("sched"), the way
              \* from the scheduler to a process ("switch"), a process
              \* ("proc"), the way back to the scheduler ("back")
  scan,       \* the slot hart c's scheduler loop looks at
  pc,         \* where the kernel thread of a process is ("user": in user mode)
  at,         \* the slot its own loop over the table looks at
  wat,        \* the slot its call of wakeup() looks at
  arg,        \* fork: the slot of the child; kill: the pid
  havekids,   \* wait's local variable
  victims     \* history: every pid ever passed to kill()

tbl   == <<state, pid, parent, killed, chan>>
sch   == <<cur, mode, scan>>
frame == <<at, wat, arg, havekids>>
vars  == <<tbl, lock, wait_lock, nextpid, sch, pc, frame, victims>>

States == {"UNUSED", "USED", "SLEEPING", "RUNNABLE", "RUNNING", "ZOMBIE"}

\* The points of the kernel at which a process holds wait_lock ...
WithWaitLock == {"xreparent", "xwakeinit", "xwakeparent", "xzombie",
                 "wscan", "wsleep"}
\* ... and those at which it holds no spinlock, so that a timer interrupt
\* finds interrupts enabled.
Preemptible  == {"user", "ret", "falloc", "fparent", "frunnable",
                 "xlock", "wlock", "kscan"}
Points == WithWaitLock \cup Preemptible \cup {"asleep", "dead"}

\* The points inside exit().
ExitPoints == {"xlock", "xreparent", "xwakeinit", "xwakeparent", "xzombie", "dead"}

\* Mutant of Free: acquire() does not wait.
FreeIgnored(s) == TRUE

Free(s) == lock[s] = NoCpu

\* Process p executes on hart c and is at point l.
At(c, p, l) == mode[c] = "proc" /\ cur[c] = p /\ pc[p] = l

Goto(p, l) == pc' = [pc EXCEPT ![p] = l]

\* Pid p's kernel thread has dropped the frame of the call it was in.
Return(p) ==
  /\ Goto(p, "ret")
  /\ at' = [at EXCEPT ![p] = 1]
  /\ arg' = [arg EXCEPT ![p] = 0]
  /\ havekids' = [havekids EXCEPT ![p] = FALSE]
  /\ UNCHANGED wat

----------------------------------------------------------------------------
(* main(): userinit() has made slot 1, and every hart enters scheduler().  *)

Init ==
  /\ state = [s \in Procs |-> IF s = initproc THEN "RUNNABLE" ELSE "UNUSED"]
  /\ pid = [s \in Procs |-> IF s = initproc THEN 1 ELSE 0]
  /\ parent = [s \in Procs |-> NoProc]
  /\ killed = [s \in Procs |-> FALSE]
  /\ chan = [s \in Procs |-> NoProc]
  /\ lock = [s \in Procs |-> NoCpu]
  /\ wait_lock = NoCpu
  /\ nextpid = 2
  /\ cur = [c \in Cpus |-> NoProc]
  /\ mode = [c \in Cpus |-> "sched"]
  /\ scan = [c \in Cpus |-> 1]
  /\ pc = [s \in Procs |-> "user"]
  /\ at = [s \in Procs |-> 1]
  /\ wat = [s \in Procs |-> 1]
  /\ arg = [s \in Procs |-> 0]
  /\ havekids = [s \in Procs |-> FALSE]
  /\ victims = {}

----------------------------------------------------------------------------
(* scheduler(), RR *)

\* Mutants of Following: the loop does not stop at NPROC; it starts over after
\* every slot.
FollowingNoWrap(s) == s + 1
FollowingRestart(s) == 1

Following(s) == IF s = NPROC THEN 1 ELSE s + 1

\* The slot under the cursor is not RUNNABLE: acquire, test, release.
SchedSkip(c) ==
  /\ mode[c] = "sched"
  /\ Free(scan[c])
  /\ state[scan[c]] # "RUNNABLE"
  /\ scan' = [scan EXCEPT ![c] = Following(@)]
  /\ UNCHANGED <<tbl, lock, wait_lock, nextpid, cur, mode, pc, frame, victims>>

\* It is: mark it RUNNING and swtch to it, keeping p->lock.
SchedPick(c) ==
  LET p == scan[c] IN
  /\ mode[c] = "sched"
  /\ Free(p)
  /\ state[p] = "RUNNABLE"
  /\ lock' = [lock EXCEPT ![p] = c]
  /\ state' = [state EXCEPT ![p] = "RUNNING"]
  /\ cur' = [cur EXCEPT ![c] = p]
  /\ mode' = [mode EXCEPT ![c] = "switch"]
  /\ UNCHANGED <<pid, parent, killed, chan, wait_lock, nextpid, scan, pc,
                 frame, victims>>

\* The process wakes up in yield(), forkret() or sleep() and releases its
\* lock; sleep() also clears chan, and has lk still to reacquire.
Resume(c) ==
  LET p == cur[c] IN
  /\ mode[c] = "switch"
  /\ mode' = [mode EXCEPT ![c] = "proc"]
  /\ lock' = [lock EXCEPT ![p] = NoCpu]
  /\ IF pc[p] = "asleep"
     THEN chan' = [chan EXCEPT ![p] = NoProc] /\ Goto(p, "wlock")
     ELSE UNCHANGED <<chan, pc>>
  /\ UNCHANGED <<state, pid, parent, killed, wait_lock, nextpid, cur, scan,
                 frame, victims>>

\* Back in the scheduler after swtch: forget the process, release its lock.
SchedBack(c) ==
  /\ mode[c] = "back"
  /\ mode' = [mode EXCEPT ![c] = "sched"]
  /\ cur' = [cur EXCEPT ![c] = NoProc]
  /\ lock' = [lock EXCEPT ![cur[c]] = NoCpu]
  /\ scan' = [scan EXCEPT ![c] = Following(@)]
  /\ UNCHANGED <<tbl, wait_lock, nextpid, pc, frame, victims>>

\* sched(): process p, holding p->lock, has set its state to s and switches
\* away from hart c.
Sched(c, p, s) ==
  /\ Free(p)
  /\ lock' = [lock EXCEPT ![p] = c]
  /\ state' = [state EXCEPT ![p] = s]
  /\ mode' = [mode EXCEPT ![c] = "back"]
  /\ UNCHANGED <<cur, scan>>

----------------------------------------------------------------------------
(* usertrap() and kerneltrap() *)

\* A timer interrupt, in user mode of a process that is not killed or in the
\* kernel with interrupts on: yield().
Yield(c, p) ==
  /\ mode[c] = "proc" /\ cur[c] = p
  /\ pc[p] \in Preemptible
  /\ pc[p] = "user" => ~killed[p]
  /\ Sched(c, p, "RUNNABLE")
  /\ UNCHANGED <<pid, parent, killed, chan, wait_lock, nextpid, pc, frame,
                 victims>>

\* A trap of any kind out of user mode, or the end of a system call, finds the
\* process killed: exit(-1).
ExitIfKilled(c, p) ==
  /\ At(c, p, "user") \/ At(c, p, "ret")
  /\ killed[p]
  /\ Goto(p, "xlock")
  /\ UNCHANGED <<tbl, lock, wait_lock, nextpid, sch, frame, victims>>

\* An exception in user mode: "unexpected scause", killed, exit(-1).  init, which
\* must not exit, runs only the code of init.c.
Fault(c, p) ==
  /\ p # initproc
  /\ At(c, p, "user")
  /\ killed' = [killed EXCEPT ![p] = TRUE]
  /\ Goto(p, "xlock")
  /\ UNCHANGED <<state, pid, parent, chan, lock, wait_lock, nextpid, sch, frame,
                 victims>>

\* The end of a system call otherwise.
UserRet(c, p) ==
  /\ At(c, p, "ret")
  /\ ~killed[p]
  /\ Goto(p, "user")
  /\ UNCHANGED <<tbl, lock, wait_lock, nextpid, sch, frame, victims>>

\* A process that is not killed enters the kernel for the system call whose
\* first point is l.
Syscall(c, p, l) ==
  /\ At(c, p, "user")
  /\ ~killed[p]
  /\ Goto(p, l)
  /\ UNCHANGED <<tbl, lock, wait_lock, nextpid, sch, at, wat, havekids>>

SysFork(c, p) ==
  /\ nextpid + Cardinality({s \in Procs : pc[s] = "falloc"}) <= MaxPid
  /\ Syscall(c, p, "falloc")
  /\ UNCHANGED <<arg, victims>>

\* init never calls exit() (panic "init exiting").
SysExit(c, p) ==
  /\ p # initproc
  /\ Syscall(c, p, "xlock")
  /\ UNCHANGED <<arg, victims>>

SysWait(c, p) ==
  /\ Syscall(c, p, "wlock")
  /\ UNCHANGED <<arg, victims>>

SysKill(c, p) ==
  \E target \in KillPids :
    /\ Syscall(c, p, "kscan")
    /\ arg' = [arg EXCEPT ![p] = target]
    /\ victims' = victims \cup {target}

----------------------------------------------------------------------------
(* fork() *)

\* allocproc(): one more slot that is in use, and after the last one -1.
ForkScan(c, p) ==
  /\ At(c, p, "falloc")
  /\ Free(at[p])
  /\ state[at[p]] # "UNUSED"
  /\ IF at[p] = NPROC
     THEN Return(p)
     ELSE at' = [at EXCEPT ![p] = @ + 1] /\ UNCHANGED <<pc, wat, arg, havekids>>
  /\ UNCHANGED <<tbl, lock, wait_lock, nextpid, sch, victims>>

\* Mutant of AllocPid: the counter is left alone.
AllocPidStuck(np) ==
  /\ nextpid' = nextpid
  /\ pid' = [pid EXCEPT ![np] = nextpid]

AllocPid(np) ==
  /\ nextpid' = nextpid + 1
  /\ pid' = [pid EXCEPT ![np] = nextpid]

\* allocproc() has found a slot: a new pid, USED, a trapframe and page tables,
\* a copy of the parent's memory and files.  np->lock is held throughout.
ForkAlloc(c, p) ==
  LET np == at[p] IN
  /\ At(c, p, "falloc")
  /\ Free(np)
  /\ state[np] = "UNUSED"
  /\ AllocPid(np)
  /\ state' = [state EXCEPT ![np] = "USED"]
  /\ pc' = [pc EXCEPT ![p] = "fparent", ![np] = "user"]
  /\ arg' = [arg EXCEPT ![p] = np]
  /\ at' = [at EXCEPT ![p] = 1]
  /\ UNCHANGED <<parent, killed, chan, lock, wait_lock, sch, wat, havekids,
                 victims>>

\* The same, but memory runs out: the slot goes through freeproc(), the pid is
\* spent.
ForkNoMemory(c, p) ==
  LET np == at[p] IN
  /\ At(c, p, "falloc")
  /\ Free(np)
  /\ state[np] = "UNUSED"
  /\ nextpid' = nextpid + 1
  /\ killed' = [killed EXCEPT ![np] = FALSE]
  /\ Return(p)
  /\ UNCHANGED <<state, pid, parent, chan, lock, wait_lock, sch, victims>>

\* np->parent = p, under wait_lock.
ForkParent(c, p) ==
  /\ At(c, p, "fparent")
  /\ wait_lock = NoCpu
  /\ parent' = [parent EXCEPT ![arg[p]] = p]
  /\ Goto(p, "frunnable")
  /\ UNCHANGED <<state, pid, killed, chan, lock, wait_lock, nextpid, sch,
                 frame, victims>>

\* np->state = RUNNABLE, under np->lock.
ForkRunnable(c, p) ==
  /\ At(c, p, "frunnable")
  /\ Free(arg[p])
  /\ state' = [state EXCEPT ![arg[p]] = "RUNNABLE"]
  /\ Return(p)
  /\ UNCHANGED <<pid, parent, killed, chan, lock, wait_lock, nextpid, sch,
                 victims>>

----------------------------------------------------------------------------
(* wakeup() and exit() *)

\* Mutant of WakeupSlot: nobody is woken.
WakeupSlotNobody(p, ch) ==
  /\ UNCHANGED state
  /\ wat' = [wat EXCEPT ![p] = Following(@)]

\* wakeup(ch), called by p at its cursor wat[p]: every slot but the caller's.
WakeupSlot(p, ch) ==
  LET s == wat[p] IN
  /\ s # p => Free(s)
  /\ state' = IF s # p /\ state[s] = "SLEEPING" /\ chan[s] = ch
              THEN [state EXCEPT ![s] = "RUNNABLE"] ELSE state
  /\ wat' = [wat EXCEPT ![p] = Following(@)]

\* Mutant of ExitLock: the children are not handed to init.
ExitLockNoReparent(c, p) ==
  /\ At(c, p, "xlock")
  /\ wait_lock = NoCpu
  /\ wait_lock' = c
  /\ Goto(p, "xwakeparent")
  /\ UNCHANGED <<tbl, lock, nextpid, sch, frame, victims>>

\* exit() has closed its files and takes wait_lock.
ExitLock(c, p) ==
  /\ At(c, p, "xlock")
  /\ wait_lock = NoCpu
  /\ wait_lock' = c
  /\ Goto(p, "xreparent")
  /\ UNCHANGED <<tbl, lock, nextpid, sch, frame, victims>>

\* reparent(): one slot of its loop.  A child goes to init, which is woken.
ExitReparent(c, p) ==
  /\ At(c, p, "xreparent")
  /\ IF parent[at[p]] = p
     THEN /\ parent' = [parent EXCEPT ![at[p]] = initproc]
          /\ Goto(p, "xwakeinit")
          /\ UNCHANGED at
     ELSE /\ at' = [at EXCEPT ![p] = Following(@)]
          /\ IF at[p] = NPROC THEN Goto(p, "xwakeparent") ELSE UNCHANGED pc
          /\ UNCHANGED parent
  /\ UNCHANGED <<state, pid, killed, chan, lock, wait_lock, nextpid, sch, wat,
                 arg, havekids, victims>>

\* reparent()'s wakeup(initproc).
ExitWakeInit(c, p) ==
  /\ At(c, p, "xwakeinit")
  /\ WakeupSlot(p, initproc)
  /\ IF wat[p] = NPROC
     THEN /\ at' = [at EXCEPT ![p] = Following(@)]
          /\ Goto(p, IF at[p] = NPROC THEN "xwakeparent" ELSE "xreparent")
     ELSE UNCHANGED <<at, pc>>
  /\ UNCHANGED <<pid, parent, killed, chan, lock, wait_lock, nextpid, sch,
                 arg, havekids, victims>>

\* exit()'s wakeup(p->parent).
ExitWakeParent(c, p) ==
  /\ At(c, p, "xwakeparent")
  /\ WakeupSlot(p, parent[p])
  /\ IF wat[p] = NPROC THEN Goto(p, "xzombie") ELSE UNCHANGED pc
  /\ UNCHANGED <<pid, parent, killed, chan, lock, wait_lock, nextpid, sch,
                 at, arg, havekids, victims>>

\* ZOMBIE, under p->lock and wait_lock; wait_lock goes, p->lock is kept for
\* the scheduler to release.
ExitZombie(c, p) ==
  /\ At(c, p, "xzombie")
  /\ Sched(c, p, "ZOMBIE")
  /\ wait_lock' = NoCpu
  /\ Goto(p, "dead")
  /\ UNCHANGED <<pid, parent, killed, chan, nextpid, frame, victims>>

----------------------------------------------------------------------------
(* wait() *)

WaitLock(c, p) ==
  /\ At(c, p, "wlock")
  /\ wait_lock = NoCpu
  /\ wait_lock' = c
  /\ Goto(p, "wscan")
  /\ UNCHANGED <<tbl, lock, nextpid, sch, frame, victims>>

\* No point waiting without children, or when killed (p->lock is not held for
\* this read).
GiveUp(p, kids) == ~kids \/ killed[p]

\* One slot that is not a ZOMBIE child of p.  After the last one: give up, or go
\* on to sleep().
WaitScan(c, p) ==
  LET np == at[p]
      child == parent[np] = p
      kids == havekids[p] \/ child
  IN
  /\ At(c, p, "wscan")
  /\ child => Free(np) /\ state[np] # "ZOMBIE"
  /\ IF np < NPROC
     THEN /\ at' = [at EXCEPT ![p] = @ + 1]
          /\ havekids' = [havekids EXCEPT ![p] = kids]
          /\ UNCHANGED <<pc, wat, arg, wait_lock>>
     ELSE IF GiveUp(p, kids)
     THEN Return(p) /\ wait_lock' = NoCpu
     ELSE /\ Goto(p, "wsleep")
          /\ at' = [at EXCEPT ![p] = 1]
          /\ havekids' = [havekids EXCEPT ![p] = FALSE]
          /\ UNCHANGED <<wat, arg, wait_lock>>
  /\ UNCHANGED <<tbl, lock, nextpid, sch, victims>>

\* Mutants of ZombieChild: np->lock is not taken; the state is not looked at.
ZombieChildUnlocked(p) == parent[at[p]] = p /\ state[at[p]] = "ZOMBIE"
AnyChild(p) == parent[at[p]] = p /\ Free(at[p]) /\ state[at[p]] \notin {"UNUSED", "USED"}

ZombieChild(p) ==
  /\ parent[at[p]] = p
  /\ Free(at[p])
  /\ state[at[p]] = "ZOMBIE"

\* Mutant of FreeProc: killed is left set.
FreeProcStillKilled(np) ==
  /\ state' = [state EXCEPT ![np] = "UNUSED"]
  /\ pid' = [pid EXCEPT ![np] = 0]
  /\ parent' = [parent EXCEPT ![np] = NoProc]
  /\ chan' = [chan EXCEPT ![np] = NoProc]
  /\ UNCHANGED killed

FreeProc(np) ==
  /\ state' = [state EXCEPT ![np] = "UNUSED"]
  /\ pid' = [pid EXCEPT ![np] = 0]
  /\ parent' = [parent EXCEPT ![np] = NoProc]
  /\ chan' = [chan EXCEPT ![np] = NoProc]
  /\ killed' = [killed EXCEPT ![np] = FALSE]

\* freeproc(np) and return its pid.
WaitReap(c, p) ==
  /\ At(c, p, "wscan")
  /\ ZombieChild(p)
  /\ FreeProc(at[p])
  /\ wait_lock' = NoCpu
  /\ Return(p)
  /\ UNCHANGED <<lock, nextpid, sch, victims>>

\* copyout() of the exit status to a bad address fails (init passes 0).
WaitBadAddress(c, p) ==
  /\ p # initproc
  /\ At(c, p, "wscan")
  /\ ZombieChild(p)
  /\ wait_lock' = NoCpu
  /\ Return(p)
  /\ UNCHANGED <<tbl, lock, nextpid, sch, victims>>

\* Mutant of WaitSleep: wait_lock goes first, then p->lock is taken.
WaitSleepUnlocked(c, p) ==
  /\ At(c, p, "wsleep")
  /\ \/ /\ wait_lock = c
        /\ wait_lock' = NoCpu
        /\ UNCHANGED <<state, chan, lock, sch, pc>>
     \/ /\ wait_lock # c
        /\ Sched(c, p, "SLEEPING")
        /\ chan' = [chan EXCEPT ![p] = p]
        /\ Goto(p, "asleep")
        /\ UNCHANGED wait_lock
  /\ UNCHANGED <<pid, parent, killed, nextpid, frame, victims>>

\* sleep(p, &wait_lock): p->lock first, only then wait_lock goes.
WaitSleep(c, p) ==
  /\ At(c, p, "wsleep")
  /\ Sched(c, p, "SLEEPING")
  /\ wait_lock' = NoCpu
  /\ chan' = [chan EXCEPT ![p] = p]
  /\ Goto(p, "asleep")
  /\ UNCHANGED <<pid, parent, killed, nextpid, frame, victims>>

----------------------------------------------------------------------------
(* kill() *)

KillScan(c, p) ==
  LET s == at[p] IN
  /\ At(c, p, "kscan")
  /\ Free(s)
  /\ pid[s] # arg[p]
  /\ IF s = NPROC
     THEN Return(p)
     ELSE at' = [at EXCEPT ![p] = @ + 1] /\ UNCHANGED <<pc, wat, arg, havekids>>
  /\ UNCHANGED <<tbl, lock, wait_lock, nextpid, sch, victims>>

\* Mutants of AfterKill: the victim is made RUNNABLE whatever it does; it is
\* left asleep.
AfterKillAlways(s) == "RUNNABLE"
AfterKillNever(s) == state[s]

\* The victim's state: it is woken if it sleeps.
AfterKill(s) == IF state[s] = "SLEEPING" THEN "RUNNABLE" ELSE state[s]

KillFound(c, p) ==
  LET s == at[p] IN
  /\ At(c, p, "kscan")
  /\ Free(s)
  /\ pid[s] = arg[p]
  /\ killed' = [killed EXCEPT ![s] = TRUE]
  /\ state' = [state EXCEPT ![s] = AfterKill(s)]
  /\ Return(p)
  /\ UNCHANGED <<pid, parent, chan, lock, wait_lock, nextpid, sch, victims>>

----------------------------------------------------------------------------

Scheduler(c) == SchedSkip(c) \/ SchedPick(c) \/ Resume(c) \/ SchedBack(c)

\* What a process does of itself once it is in the kernel.
Kernel(c, p) ==
  \/ ExitIfKilled(c, p) \/ UserRet(c, p)
  \/ ForkScan(c, p) \/ ForkAlloc(c, p) \/ ForkNoMemory(c, p)
  \/ ForkParent(c, p) \/ ForkRunnable(c, p)
  \/ ExitLock(c, p) \/ ExitReparent(c, p) \/ ExitWakeInit(c, p)
  \/ ExitWakeParent(c, p) \/ ExitZombie(c, p)
  \/ WaitLock(c, p) \/ WaitScan(c, p) \/ WaitReap(c, p)
  \/ WaitBadAddress(c, p) \/ WaitSleep(c, p)
  \/ KillScan(c, p) \/ KillFound(c, p)

\* What its program makes it do.
User(c, p) ==
  SysFork(c, p) \/ SysExit(c, p) \/ SysWait(c, p) \/ SysKill(c, p) \/ Fault(c, p)

Next ==
  \E c \in Cpus :
    \/ Scheduler(c)
    \/ \E p \in Procs : Yield(c, p) \/ Kernel(c, p) \/ User(c, p)

Spec == Init /\ [][Next]_vars
----------------------------------------------------------------------------
(* Fairness.  The scheduler of a hart goes on and the timer takes the hart   *)
(* back to it; a process on a hart goes on executing the kernel; init.c      *)
(* calls wait() for ever.  Strong, because a hart that spins on a lock gets  *)
(* it only if it is free again and again, and because the timer may come     *)
(* before each of these.  Nothing else a user program does is fair.          *)

Fairness ==
  /\ \A c \in Cpus : SF_vars(Scheduler(c) \/ \E p \in Procs : Yield(c, p))
  /\ \A p \in Procs : SF_vars(\E c \in Cpus : Kernel(c, p))
  /\ SF_vars(\E c \in Cpus : SysWait(c, initproc))

FairSpec == Spec /\ Fairness

----------------------------------------------------------------------------
(* Properties *)

\* Every variable keeps its type; in particular every cursor of a loop over the
\* table stays inside it (the loops "p < &proc[NPROC]" all over proc.c).
TypeOK ==
  /\ state \in [Procs -> States]
  /\ pid \in [Procs -> Nat]
  /\ parent \in [Procs -> Procs \cup {NoProc}]
  /\ killed \in [Procs -> BOOLEAN]
  /\ chan \in [Procs -> Procs \cup {NoProc}]
  /\ lock \in [Procs -> Cpus \cup {NoCpu}]
  /\ wait_lock \in Cpus \cup {NoCpu}
  /\ nextpid \in Nat
  /\ cur \in [Cpus -> Procs \cup {NoProc}]
  /\ mode \in [Cpus -> {"sched", "switch", "proc", "back"}]
  /\ scan \in [Cpus -> Procs]
  /\ pc \in [Procs -> Points]
  /\ at \in [Procs -> Procs]
  /\ wat \in [Procs -> Procs]
  /\ arg \in [Procs -> Nat]
  /\ havekids \in [Procs -> BOOLEAN]
  /\ victims \subseteq KillPids

\* No process is on two harts, so no two harts share a kernel stack: scheduler()
\* keeps p->lock across swtch() until the process runs, and sched() until its
\* context is saved (proc.c:692-720, 865-882).
OneHart ==
  \A c, d \in Cpus : c # d /\ cur[c] # NoProc => cur[c] # cur[d]

\* RUNNING says exactly that a hart executes the process: neither kill() nor
\* wakeup(), which write the state of other processes, ever breaks this
\* (proc.c:692-720, 885-892, 948-997).
RunningIffOnHart ==
  \A s \in Procs :
    state[s] = "RUNNING"
      <=> \E c \in Cpus : cur[c] = s /\ mode[c] \in {"switch", "proc"}

\* wait() frees a child's page table, and fork() reuses its slot, only when no
\* hart is still on that child's kernel stack in exit() (proc.c:409-423, 443-461).
FreedOffStack ==
  \A s \in Procs, c \in Cpus : state[s] \in {"UNUSED", "USED"} => cur[c] # s

\* A parent pointer never leads to a slot that is free, being made or a zombie:
\* exit() hands its children to init before it becomes a zombie, and fork() links
\* its child under wait_lock (proc.c:346-348, 365-377, 397-421).
LiveParent ==
  \A s \in Procs :
    parent[s] # NoProc => state[parent[s]] \in {"SLEEPING", "RUNNABLE", "RUNNING"}

\* No exit is lost: while nobody is inside exit() or wait(), no zombie has a
\* parent that sleeps in wait().  The scan of wait(), its sleep, the wakeup of
\* exit() and the change to ZOMBIE interleave on two harts (proc.c:382-424,
\* 428-478, 917-971).
NoLostExit ==
  wait_lock = NoCpu =>
    \A s \in Procs :
      state[s] = "ZOMBIE" => parent[s] # NoProc /\ state[parent[s]] # "SLEEPING"

\* Whoever sleeps in wait() has a child that can still wake it, also when its
\* children are handed over, reaped or die meanwhile (proc.c:428-478).
SleeperHasChild ==
  \A p \in Procs :
    state[p] = "SLEEPING" => \E s \in Procs : parent[s] = p

\* Two processes never share a pid, and a pid that is in use was drawn from
\* nextpid (proc.c:98-108, 114-183, 188-205).
UniquePids ==
  \A s, t \in Procs :
    s # t /\ state[s] # "UNUSED" => pid[s] \in 1 .. nextpid - 1 /\ pid[s] # pid[t]

\* Outside exit(), only a process whose pid was passed to kill() is killed: neither
\* one that gets the victim's slot later nor a bystander (proc.c:188-205, 973-997).
KilledByRequest ==
  \A s \in Procs : killed[s] => pid[s] \in victims \/ pc[s] \in ExitPoints

\* Every orphan that has exited is reaped by init in the end (proc.c:365-377,
\* user/init.c:38-50).
ZombieReaped ==
  \A s \in Procs :
    state[s] = "ZOMBIE" /\ parent[s] = initproc ~> state[s] = "UNUSED"

\* A RUNNABLE process runs in the end: RR visits every slot (proc.c:692-720).
RunnableRuns ==
  \A s \in Procs : state[s] = "RUNNABLE" ~> state[s] = "RUNNING"

\* On one hart a killed process always gets as far as exit(), even if it was
\* asleep in wait() (proc.c:976-997, trap.c:60-98).
KilledExits ==
  \A s \in Procs : killed[s] ~> state[s] \in {"ZOMBIE", "UNUSED"}

----------------------------------------------------------------------------
(* The kernel implements ProcTree: a slot stands for the process whose pid  *)
(* it holds, from the moment fork() has set its parent until wait() frees   *)
(* it.                                                                      *)

InTree == {s \in Procs : s = initproc \/ parent[s] # NoProc}

SlotOf(q) == CHOOSE s \in InTree : pid[s] = q

\* The pids fork() has drawn for children it has not linked yet.
Drawn == {pid[s] : s \in {t \in Procs : state[t] = "USED" /\ parent[t] = NoProc}}

Exiting == {pid[s] : s \in {t \in Procs : pc[t] \in {"xreparent", "xwakeinit",
                                                     "xwakeparent", "xzombie"}}}

Tree == INSTANCE ProcTree WITH
  Pids     <- 1 .. MaxPid,
  parentOf <- [q \in {pid[s] : s \in InTree} |->
                 IF q = 1 THEN 0 ELSE pid[parent[SlotOf(q)]]],
  leaving  <- Exiting,
  zombies  <- {pid[s] : s \in {t \in Procs : state[t] = "ZOMBIE"}},
  spent    <- 1 .. nextpid - 1 \ Drawn

\* fork, exit and wait on the table of slots, with everything that goes on in
\* between, are steps of the process tree or invisible in it (proc.c:312-478).
TreeSpec == Tree!Spec
=============================================================================
