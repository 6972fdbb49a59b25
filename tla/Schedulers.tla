----------------------------- MODULE Schedulers -----------------------------
(***************************************************************************)
(* The kernel built with SCHEDULER = FCFS, PBS or MLFQ (Makefile): the     *)
(* #ifdef branches of scheduler(), with what allocproc(), wakeup(), exit() *)
(* and the clock do for them, are alternatives.  The build is fixed from   *)
(* the start; the variables of the other builds keep their first values.   *)
(***************************************************************************)
EXTENDS Dispatch, Integers

CONSTANTS MaxTicks, Priorities, MaxRuns, ClockHart, NLEVEL, AGING_LIMIT, MaxIndex

ASSUME SchedulersAssumption ==
  /\ ClockHart \in Harts
  /\ NLEVEL \in Nat \ {0}
  /\ AGING_LIMIT \in Nat \ {0}
  /\ MaxTicks \in Nat /\ MaxRuns \in Nat /\ MaxIndex \in Nat
  /\ Priorities \subseteq Int

VARIABLES
  SCHEDULER,
  ticks, ctime, minctime,
  SP, niceness, DP, lrtime, stime, total_s_time, num_sched, minDP, minruns,
  priority, index, q_rtime, q_wtime, c, q, i, level, split, clk, startlevel

fcfsVars == <<ctime, minctime>>
pbsVars  == <<SP, niceness, DP, lrtime, stime, total_s_time, num_sched, minDP, minruns>>
mlfqVars == <<priority, index, q_rtime, q_wtime, c, q, i, level, split, clk, startlevel>>
vars == <<SCHEDULER, tblVars, hartVars, ticks, fcfsVars, pbsVars, mlfqVars>>

FCFS == INSTANCE Fcfs
PBS  == INSTANCE Pbs
MLFQ == INSTANCE Mlfq

Init ==
  /\ SCHEDULER \in {"FCFS", "PBS", "MLFQ"}
  /\ FCFS!Init
  /\ PBS!Init
  /\ MLFQ!Init

RunFCFS ==
  /\ SCHEDULER = "FCFS"
  /\ FCFS!Next
  /\ UNCHANGED <<SCHEDULER, pbsVars, mlfqVars>>

RunPBS ==
  /\ SCHEDULER = "PBS"
  /\ PBS!Next
  /\ UNCHANGED <<SCHEDULER, fcfsVars, mlfqVars>>

RunMLFQ ==
  /\ SCHEDULER = "MLFQ"
  /\ MLFQ!Next
  /\ UNCHANGED <<SCHEDULER, ticks, fcfsVars, pbsVars>>

Next == RunFCFS \/ RunPBS \/ RunMLFQ

Spec == Init /\ [][Next]_vars

\* In the MLFQ build the clock goes on.
ClockMLFQ == RunMLFQ /\ MLFQ!Clock

Fairness == WF_vars(ClockMLFQ)

FairSpec == Spec /\ Fairness

----------------------------------------------------------------------------

\* FCFS overtakes nobody who was created earlier and waits (proc.c:649-690).
NoOvertaking == FCFS!NoOvertaking

\* PBS runs a process with the least DP, and of those the one that was scheduled
\* least often (proc.c:732-786).
LeastDP == PBS!LeastDP

\* MLFQ serves the highest queue with somebody in it, unless a process moves up
\* between the two looks at its priority (proc.c:798-830, 552-563).
BestLevelFirst == MLFQ!BestLevelFirst

\* A first pass that ends with somebody waiting since it began has found a
\* process to run, and this process is still RUNNABLE, with the same exception
\* under MLFQ (the first loops at proc.c:657-667, 732-765, 798-830).
PicksSomeone == [][\A h \in Harts : ~split[h] => FindsSomeone(h)]_vars

\* Under MLFQ whoever waits is moved up queue by queue until it runs, or is in the
\* highest, as long as the clock goes on (update_time(), proc.c:552-563).
AgedOrRuns ==
  \A s \in Slots :
    SCHEDULER = "MLFQ" /\ state[s] = "RUNNABLE"
      ~> state[s] = "RUNNING" \/ priority[s] = 0 \/ MLFQ!ClockStopped
=============================================================================
