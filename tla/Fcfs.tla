-------------------------------- MODULE Fcfs --------------------------------
(***************************************************************************)
(* The FCFS scheduler of kernel/proc.c: the RUNNABLE process with the      *)
(* least ctime runs until it sleeps or exits.  The first pass takes no     *)
(* locks: it reads state and ctime, and then the pid.                      *)
(***************************************************************************)
EXTENDS Dispatch

CONSTANT MaxTicks   \* bound: the clock stops there

VARIABLES
  ticks,
  ctime,      \* ticks at the fork
  minctime    \* the least ctime the first pass of hart h has seen

vars == <<tblVars, hartVars, ticks, ctime, minctime>>

\* min_ctime = 2147483647.
Latest == MaxTicks + 1

Init ==
  /\ DispatchInit
  /\ ticks = 0
  /\ ctime = [s \in Slots |-> 0]
  /\ minctime = [h \in Harts |-> Latest]

\* Mutant of Older: the youngest process.
Younger(h, s) == ctime[s] >= minctime[h] \/ minctime[h] = Latest

Older(h, s) == minctime[h] >= ctime[s]

\* The slot is not RUNNABLE, or younger.
ChooseSkip(h) ==
  /\ phase[h] = "choose"
  /\ state[scan[h]] = "RUNNABLE" => ~Older(h, scan[h])
  /\ NextSlot(h, "match")
  /\ UNCHANGED <<tblVars, cur, minpid, waiting, ticks, ctime, minctime>>

ChooseOlder(h) ==
  /\ phase[h] = "choose"
  /\ state[scan[h]] = "RUNNABLE"
  /\ Older(h, scan[h])
  /\ minctime' = [minctime EXCEPT ![h] = ctime[scan[h]]]
  /\ phase' = [phase EXCEPT ![h] = "take"]
  /\ UNCHANGED <<tblVars, scan, cur, minpid, waiting, ticks, ctime>>

\* min_pid = p->pid, which another hart may have given away by now.
TakePid(h) ==
  /\ phase[h] = "take"
  /\ minpid' = [minpid EXCEPT ![h] = pid[scan[h]]]
  /\ NextSlot(h, "match")
  /\ UNCHANGED <<tblVars, cur, waiting, ticks, ctime, minctime>>

\* Mutant of ResetMin: min_ctime is set once.
ResetMinOnce(h) == UNCHANGED minctime

\* The next round starts with min_ctime at its largest.
ResetMin(h) ==
  minctime' = [minctime EXCEPT ![h] = IF phase'[h] = "choose" THEN Latest ELSE @]

SecondPass(h) ==
  /\ MatchSkip(h) \/ Dispatch(h) \/ Sleep(h) \/ Exit(h)
  /\ ResetMin(h)
  /\ UNCHANGED <<ticks, ctime>>

ForkChild(h, s) ==
  /\ Fork(h, s)
  /\ ctime' = [ctime EXCEPT ![s] = ticks]
  /\ UNCHANGED <<ticks, minctime>>

WakeUp(s) ==
  /\ Wake(s)
  /\ UNCHANGED <<ticks, ctime, minctime>>

Tick ==
  /\ ticks < MaxTicks
  /\ ticks' = ticks + 1
  /\ UNCHANGED <<tblVars, hartVars, ctime, minctime>>

Next ==
  \/ \E h \in Harts :
       \/ ChooseSkip(h) \/ ChooseOlder(h) \/ TakePid(h) \/ SecondPass(h)
       \/ \E s \in Slots : ForkChild(h, s)
  \/ \E s \in Slots : WakeUp(s)
  \/ Tick

Spec == Init /\ [][Next]_vars

----------------------------------------------------------------------------

\* Every variable keeps its type.
TypeOK ==
  /\ DispatchType
  /\ ticks \in 0 .. MaxTicks
  /\ ctime \in [Slots -> 0 .. MaxTicks]
  /\ minctime \in [Harts -> 0 .. Latest]

\* Nobody is overtaken by a process created later: whoever waited since the
\* first pass began was created no earlier than the process that is swtched to
\* ("find the process with the minimum ctime", REPORT.md; proc.c:649-690).
NoOvertaking ==
  [][\A h \in Harts :
       Dispatches(h) =>
         \A n \in waiting[h] : ctime[cur'[h]] <= ctime[SlotOf(n)]]_vars
=============================================================================
