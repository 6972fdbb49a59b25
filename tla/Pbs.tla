-------------------------------- MODULE Pbs ---------------------------------
(***************************************************************************)
(* The PBS scheduler of kernel/proc.c, without preemption: the RUNNABLE    *)
(* process with the least dynamic priority DP runs, and of those with the  *)
(* same DP the one that was scheduled least often.  DP is worked out in    *)
(* the first pass, in unsigned arithmetic, from the static priority and    *)
(* from the share of its time the process slept.                           *)
(***************************************************************************)
EXTENDS Dispatch, Integers

CONSTANTS
  Priorities,  \* what programs pass to set_priority()
  MaxTicks,    \* bound: the clock stops there
  MaxRuns      \* bound: num_sched stays there

VARIABLES
  ticks,
  SP, niceness, DP, lrtime, stime, total_s_time, num_sched,
  minDP, minruns   \* min_DP and min_num_sched of the first pass of hart h

slotVars == <<SP, niceness, DP, lrtime, stime, total_s_time, num_sched>>
vars == <<tblVars, hartVars, ticks, slotVars, minDP, minruns>>

\* uint and int: 2^12 does as well as 2^32 for numbers this small.
Word == 4096
ToUint(n) == n % Word
ToInt(u) == IF u < Word \div 2 THEN u ELSE u - Word

Never == MaxRuns + 1    \* min_num_sched = 2147483647

Init ==
  /\ DispatchInit
  /\ ticks = 0
  /\ SP = [s \in Slots |-> IF s = 1 THEN 60 ELSE 0]
  /\ niceness = [s \in Slots |-> IF s = 1 THEN 5 ELSE 0]
  /\ DP = [s \in Slots |-> 0]
  /\ lrtime = [s \in Slots |-> 0]
  /\ stime = [s \in Slots |-> 0]
  /\ total_s_time = [s \in Slots |-> 0]
  /\ num_sched = [s \in Slots |-> 0]
  /\ minDP = [h \in Harts |-> 100]
  /\ minruns = [h \in Harts |-> Never]

----------------------------------------------------------------------------
(* The first pass *)

\* Mutant of Nice: the run time alone is the divisor.
NicePerRun(s) ==
  IF total_s_time[s] + lrtime[s] > 0
  THEN (total_s_time[s] * 10) \div (IF lrtime[s] = 0 THEN 1 ELSE lrtime[s])
  ELSE niceness[s]

\* Ten times the share of sleep, once there is anything to divide by.
Nice(s) ==
  IF total_s_time[s] + lrtime[s] > 0
  THEN (total_s_time[s] * 10) \div (total_s_time[s] + lrtime[s])
  ELSE niceness[s]

\* minval is an int: negative if the sum has wrapped.  DP, which is 0, is
\* compared with it as a uint.
DynamicPriority(s) ==
  LET minval == ToInt(ToUint(SP[s] - Nice(s) + 5))
      capped == IF minval > 100 THEN 100 ELSE minval
  IN  ToUint(capped)

\* Mutant of Less: the number of runs does not count.
LessDPOnly(h, s) == DP'[s] < minDP[h]

Less(h, s) ==
  \/ DP'[s] < minDP[h]
  \/ DP'[s] = minDP[h] /\ num_sched[s] < minruns[h]

Choose(h) ==
  LET s == scan[h] IN
  /\ phase[h] = "choose"
  /\ state[s] = "RUNNABLE"
  /\ niceness' = [niceness EXCEPT ![s] = Nice(s)]
  /\ DP' = [DP EXCEPT ![s] = DynamicPriority(s)]
  /\ IF Less(h, s)
     THEN /\ minDP' = [minDP EXCEPT ![h] = DP'[s]]
          /\ minruns' = [minruns EXCEPT ![h] = num_sched[s]]
          /\ minpid' = [minpid EXCEPT ![h] = pid[s]]
     ELSE UNCHANGED <<minDP, minruns, minpid>>
  /\ NextSlot(h, "match")
  /\ UNCHANGED <<tblVars, cur, waiting, ticks, SP, lrtime, stime, total_s_time,
                 num_sched>>

ChooseSkip(h) ==
  /\ phase[h] = "choose"
  /\ state[scan[h]] # "RUNNABLE"
  /\ NextSlot(h, "match")
  /\ UNCHANGED <<tblVars, cur, minpid, waiting, ticks, slotVars, minDP, minruns>>

----------------------------------------------------------------------------
(* The second pass, and the process that runs *)

ResetMin(h) ==
  /\ minDP' = [minDP EXCEPT ![h] = IF phase'[h] = "choose" THEN 100 ELSE @]
  /\ minruns' = [minruns EXCEPT ![h] = IF phase'[h] = "choose" THEN Never ELSE @]

Skip(h) ==
  /\ MatchSkip(h)
  /\ ResetMin(h)
  /\ UNCHANGED <<ticks, slotVars>>

\* lrtime holds the start of the run while it lasts.
Run(h) ==
  LET s == scan[h] IN
  /\ Dispatch(h)
  /\ lrtime' = [lrtime EXCEPT ![s] = ticks]
  /\ num_sched' = [num_sched EXCEPT ![s] = IF @ < MaxRuns THEN @ + 1 ELSE @]
  /\ UNCHANGED <<ticks, SP, niceness, DP, stime, total_s_time, minDP, minruns>>

\* Back from swtch: lrtime is how long it ran.
Stop(h) == lrtime' = [lrtime EXCEPT ![cur[h]] = ticks - @]

GoToSleep(h) ==
  /\ Sleep(h)
  /\ Stop(h)
  /\ stime' = [stime EXCEPT ![cur[h]] = ticks]
  /\ ResetMin(h)
  /\ UNCHANGED <<ticks, SP, niceness, DP, total_s_time, num_sched>>

Leave(h) ==
  /\ Exit(h)
  /\ Stop(h)
  /\ ResetMin(h)
  /\ UNCHANGED <<ticks, SP, niceness, DP, stime, total_s_time, num_sched>>

\* allocproc().
ForkChild(h, s) ==
  /\ Fork(h, s)
  /\ SP' = [SP EXCEPT ![s] = 60]
  /\ niceness' = [niceness EXCEPT ![s] = 5]
  /\ DP' = [DP EXCEPT ![s] = 0]
  /\ lrtime' = [lrtime EXCEPT ![s] = 0]
  /\ stime' = [stime EXCEPT ![s] = 0]
  /\ total_s_time' = [total_s_time EXCEPT ![s] = 0]
  /\ num_sched' = [num_sched EXCEPT ![s] = 0]
  /\ UNCHANGED <<ticks, minDP, minruns>>

Slept(s) == ticks - stime[s]

WakeUp(s) ==
  /\ Wake(s)
  /\ total_s_time' = [total_s_time EXCEPT ![s] = Slept(s)]
  /\ UNCHANGED <<ticks, SP, niceness, DP, lrtime, stime, num_sched, minDP, minruns>>

\* kill() makes a sleeper RUNNABLE too, but takes no times.
KillSleeper(s) ==
  /\ Wake(s)
  /\ UNCHANGED <<ticks, slotVars, minDP, minruns>>

Clamp(v) == IF v > 100 THEN 100 ELSE IF v < 0 THEN 0 ELSE v

\* setpriority(v, pid[s]) by the process on hart h; pid 0 finds the first free
\* slot.  If SP goes down, it calls scheduler(): the hart forgets the process
\* and begins a first pass on the kernel stack of this process, which stays
\* RUNNING.
SetPriority(h, s, v) ==
  /\ phase[h] = "run"
  /\ \A t \in 1 .. s - 1 : pid[t] # pid[s]
  /\ SP' = [SP EXCEPT ![s] = Clamp(v)]
  /\ niceness' = [niceness EXCEPT ![s] = 5]
  /\ IF Clamp(v) < SP[s]
     THEN /\ cur' = [cur EXCEPT ![h] = NoSlot]
          /\ BeginRound(h)
     ELSE UNCHANGED hartVars
  /\ ResetMin(h)
  /\ UNCHANGED <<tblVars, ticks, DP, lrtime, stime, total_s_time, num_sched>>

Tick ==
  /\ ticks < MaxTicks
  /\ ticks' = ticks + 1
  /\ UNCHANGED <<tblVars, hartVars, slotVars, minDP, minruns>>

Next ==
  \/ \E h \in Harts :
       \/ Choose(h) \/ ChooseSkip(h) \/ Skip(h) \/ Run(h) \/ GoToSleep(h) \/ Leave(h)
       \/ \E s \in Slots : ForkChild(h, s)
       \/ \E s \in Slots, v \in Priorities : SetPriority(h, s, v)
  \/ \E s \in Slots : WakeUp(s) \/ KillSleeper(s)
  \/ Tick

Spec == Init /\ [][Next]_vars

----------------------------------------------------------------------------

\* Every variable keeps its type: in particular niceness stays in 0 .. 10, as the
\* formula at proc.c:743 means it to.
TypeOK ==
  /\ DispatchType
  /\ ticks \in 0 .. MaxTicks
  /\ SP \in [Slots -> 0 .. 100]
  /\ niceness \in [Slots -> 0 .. 10]
  /\ DP \in [Slots -> 0 .. Word - 1]
  /\ lrtime \in [Slots -> 0 .. MaxTicks]
  /\ stime \in [Slots -> 0 .. MaxTicks]
  /\ total_s_time \in [Slots -> 0 .. MaxTicks]
  /\ num_sched \in [Slots -> 0 .. MaxRuns]
  /\ minDP \in [Harts -> 0 .. 100]
  /\ minruns \in [Harts -> 0 .. Never]

\* The process that is swtched to has the least DP of those that waited since
\* the first pass began, and of those with the same DP it was scheduled least
\* often (proc.c:732-786).
LeastDP ==
  [][\A h \in Harts :
       Dispatches(h) =>
         \A n \in waiting[h] :
           LET s == cur'[h]
               t == SlotOf(n)
           IN  \/ DP[s] < DP[t]
               \/ DP[s] = DP[t] /\ num_sched[s] <= num_sched[t]]_vars
=============================================================================
