-------------------------------- MODULE Clock ---------------------------------
(***************************************************************************)
(* The clock interrupt of kernel/trap.c, the run times it keeps, and those *)
(* who look at ticks: sys_sleep() under tickslock, allocproc() and exit()  *)
(* without it.  clockintr() holds tickslock from ticks++ to the wakeup();  *)
(* update_time() goes over the table in between, one p->lock at a time.    *)
(***************************************************************************)
EXTENDS Integers

CONSTANTS
  NPROC,
  KillSet,    \* slots whose process may be killed
  WORD,       \* 2^32
  BootTicks,  \* ticks when the behaviour begins, short of wrapping
  MaxTicks,   \* bound: the clock interrupts
  MaxN        \* bound: the longest sleep, besides sleep(-1)

Slots  == 1 .. NPROC
NoSlot == 0

\* Assumed where the module is instantiated (Endpoints).
Parameters ==
  /\ NPROC \in Nat \ {0}
  /\ KillSet \subseteq Slots
  /\ WORD \in Nat /\ WORD > 2 /\ BootTicks \in 0 .. WORD - 1
  \* Nobody lives through half a turn of the clock.
  /\ MaxTicks \in Nat /\ 2 * MaxTicks < WORD
  /\ MaxN \in 0 .. WORD - 1

VARIABLES
  ticks,
  clk,      \* the slot update_time() is at, or 0 outside clockintr()
  pstate,   \* p->state
  born,     \* p->ctime
  ran,      \* p->rtime
  ended,    \* p->etime
  ticks0,   \* of the sys_sleep() a process is in
  length,   \* and its n, 0 outside
  sleeper,  \* the slot whose process has tickslock, between its look at killed and
            \* sleep(), or NoSlot
  hit       \* p->killed

timeVars  == <<born, ran, ended>>
sleepVars == <<ticks0, length, sleeper>>
vars == <<ticks, clk, pstate, timeVars, sleepVars, hit>>

Init ==
  /\ ticks = BootTicks
  /\ clk = 0
  /\ pstate = [p \in Slots |-> "UNUSED"]
  /\ born = [p \in Slots |-> 0]
  /\ ran = [p \in Slots |-> 0]
  /\ ended = [p \in Slots |-> 0]
  /\ ticks0 = [p \in Slots |-> 0]
  /\ length = [p \in Slots |-> 0]
  /\ sleeper = NoSlot
  /\ hit = [p \in Slots |-> FALSE]

Minus(a, b) == (a - b) % WORD

Become(p, s) == pstate' = [pstate EXCEPT ![p] = s]

\* Nobody has tickslock.
Unlocked == clk = 0 /\ sleeper = NoSlot

----------------------------------------------------------------------------
(* clockintr() and update_time() *)

Tick ==
  /\ Unlocked
  /\ Minus(ticks, BootTicks) < MaxTicks
  /\ ticks' = (ticks + 1) % WORD
  /\ clk' = 1
  /\ UNCHANGED <<pstate, timeVars, sleepVars, hit>>

UpdateTime ==
  /\ clk \in Slots
  /\ ran' = [ran EXCEPT ![clk] = IF pstate[clk] = "RUNNING" THEN (@ + 1) % WORD ELSE @]
  /\ clk' = clk + 1
  /\ UNCHANGED <<ticks, pstate, born, ended, sleepVars, hit>>

\* wakeup(&ticks)
TickDone ==
  /\ clk = NPROC + 1
  /\ pstate' = [p \in Slots |-> IF pstate[p] = "SLEEPING" THEN "RUNNABLE" ELSE pstate[p]]
  /\ clk' = 0
  /\ UNCHANGED <<ticks, timeVars, sleepVars, hit>>

----------------------------------------------------------------------------
(* A process from allocproc() to freeproc() *)

\* Mutant of Allocproc: the time of the last process of the slot is kept.
AllocprocKept(p) ==
  /\ pstate[p] = "UNUSED"
  /\ Become(p, "RUNNABLE")
  /\ born' = [born EXCEPT ![p] = ticks]
  /\ UNCHANGED <<ticks, clk, ran, ended, sleepVars, hit>>

Allocproc(p) ==
  /\ pstate[p] = "UNUSED"
  /\ Become(p, "RUNNABLE")
  /\ born' = [born EXCEPT ![p] = ticks]
  /\ ran' = [ran EXCEPT ![p] = 0]
  /\ ended' = [ended EXCEPT ![p] = 0]
  /\ UNCHANGED <<ticks, clk, sleepVars, hit>>

Run(p) ==
  /\ pstate[p] = "RUNNABLE"
  /\ Become(p, "RUNNING")
  /\ UNCHANGED <<ticks, clk, timeVars, sleepVars, hit>>

\* Not inside sys_sleep(), where interrupts are off.
Yield(p) ==
  /\ pstate[p] = "RUNNING" /\ length[p] = 0
  /\ Become(p, "RUNNABLE")
  /\ UNCHANGED <<ticks, clk, timeVars, sleepVars, hit>>

Exit(p) ==
  /\ pstate[p] = "RUNNING" /\ length[p] = 0
  /\ Become(p, "ZOMBIE")
  /\ ended' = [ended EXCEPT ![p] = ticks]
  /\ UNCHANGED <<ticks, clk, born, ran, sleepVars, hit>>

\* What waitx() subtracts, as an int.
Waited(p) ==
  LET w == Minus(Minus(ended[p], born[p]), ran[p])
  IN  IF 2 * w < WORD THEN w ELSE w - WORD

\* ctime and etime stay in the slot and are looked at no more: allocproc() sets both.
Waitx(p) ==
  /\ pstate[p] = "ZOMBIE"
  /\ Become(p, "UNUSED")
  /\ hit' = [hit EXCEPT ![p] = FALSE]
  /\ born' = [born EXCEPT ![p] = 0]
  /\ ended' = [ended EXCEPT ![p] = 0]
  /\ UNCHANGED <<ticks, clk, ran, sleepVars>>

Kill(p) ==
  /\ p \in KillSet
  /\ pstate[p] \in {"RUNNABLE", "RUNNING", "SLEEPING"}
  /\ ~hit[p]
  /\ hit' = [hit EXCEPT ![p] = TRUE]
  /\ Become(p, IF pstate[p] = "SLEEPING" THEN "RUNNABLE" ELSE pstate[p])
  /\ UNCHANGED <<ticks, clk, timeVars, sleepVars>>

----------------------------------------------------------------------------
(* sys_sleep(), with tickslock from the look at ticks to the sleep; kill(), which *)
(* takes p->lock only, may come between the look at killed and the sleep *)

\* n is an int, compared as a uint: sleep(-1) is the longest of all.
Lengths == 1 .. MaxN \cup {WORD - 1}

\* Mutant of TooShort: one tick more.
TooShortStill(p) == Minus(ticks, ticks0[p]) <= length[p]

TooShort(p) == Minus(ticks, ticks0[p]) < length[p]

SysSleep(p, n) ==
  /\ pstate[p] = "RUNNING" /\ length[p] = 0
  /\ Unlocked
  /\ ~hit[p]
  /\ ticks0' = [ticks0 EXCEPT ![p] = ticks]
  /\ length' = [length EXCEPT ![p] = n]
  /\ sleeper' = p
  /\ UNCHANGED <<ticks, clk, pstate, timeVars, hit>>

\* sleep() takes p->lock and gives tickslock back; it does not look at killed.
Sleep(p) ==
  /\ sleeper = p
  /\ sleeper' = NoSlot
  /\ Become(p, "SLEEPING")
  /\ UNCHANGED <<ticks, clk, timeVars, ticks0, length, hit>>

\* Woken, it tests again.
SleepAgain(p) ==
  /\ pstate[p] = "RUNNING" /\ length[p] > 0
  /\ Unlocked
  /\ IF TooShort(p) /\ ~hit[p]
     THEN sleeper' = p /\ UNCHANGED <<ticks0, length>>
     ELSE /\ length' = [length EXCEPT ![p] = 0]
          /\ ticks0' = [ticks0 EXCEPT ![p] = 0]
          /\ UNCHANGED sleeper
  /\ UNCHANGED <<ticks, clk, pstate, timeVars, hit>>

----------------------------------------------------------------------------

ClockIntr == Tick \/ UpdateTime \/ TickDone

Process(p) ==
  \/ Allocproc(p) \/ Run(p) \/ Yield(p) \/ Exit(p) \/ Waitx(p) \/ Kill(p)
  \/ \E n \in Lengths : SysSleep(p, n)
  \/ Sleep(p) \/ SleepAgain(p)

Next == ClockIntr \/ \E p \in Slots : Process(p)

----------------------------------------------------------------------------

\* Nobody sleeps past its time: every tick wakes all sleepers (sysproc.c:105-116;
\* trap.c:192-199).  Who is killed from another hart between its look at killed and
\* sleep() (sysproc.c:109, 114) sleeps on, killed, until the next tick.
SleepsInTime ==
  clk = 0 => \A p \in Slots : pstate[p] = "SLEEPING" =>
    (ticks - ticks0[p]) % WORD < length[p]

\* The run time of a process is no longer than its life, but for one tick: who is
\* created and run between ticks++ and the look of update_time() is charged for a
\* tick it has not seen, and waitx() reports -1 then (proc.c:160, 417, 505, 542).
TimesAddUp == \A p \in Slots : pstate[p] = "ZOMBIE" => Waited(p) >= -1
=============================================================================
