--------------------------- MODULE SchedulersProofs ---------------------------
(***************************************************************************)
(* What FCFS, PBS and MLFQ promise, on one hart, for any size of the       *)
(* process table, any number of pids, levels and ticks: whoever has been   *)
(* RUNNABLE since the first pass began is not passed over for somebody     *)
(* that comes after it in the order of the build, and the pass finds       *)
(* somebody if anybody waits.                                              *)
(*                                                                         *)
(* On several harts the passes run side by side, and what one has chosen   *)
(* another may have taken: there the promises are not kept.                *)
(***************************************************************************)
EXTENDS Schedulers, Numbers, FiniteSetTheorems

LevelProofs == INSTANCE MlfqProofs

OneHart == Harts = {ClockHart}
H == ClockHart

----------------------------------------------------------------------------
(* The invariant *)

RunnablePids == {pid[s] : s \in Runnable}

\* A pid belongs to one process.  The process that runs is the chosen one, on the slot
\* under the cursor; whoever has waited since the pass began is RUNNABLE.
Table ==
  /\ DispatchType
  /\ \A s \in Slots : state[s] = "UNUSED" <=> pid[s] = 0
  /\ \A s, t \in Slots : pid[s] = pid[t] /\ pid[s] # 0 => s = t
  /\ \A s \in Slots : pid[s] < nextpid
  /\ minpid[H] < nextpid
  /\ waiting[H] \subseteq RunnablePids
  /\ phase[H] # "run" => cur[H] = NoSlot
  /\ phase[H] = "run" =>
       cur[H] = scan[H] /\ state[scan[H]] = "RUNNING" /\ pid[scan[H]] = minpid[H]

\* The process on slot s has waited since the pass began, and the first pass has gone
\* over it.
Seen(s) ==
  /\ pid[s] \in waiting[H]
  /\ phase[H] \in {"choose", "take", "queue", "count"} => s < scan[H]

\* Slot s is what the second pass looks for, and it has not gone past it.
Wanted(s) == phase[H] = "match" /\ scan[H] <= s /\ pid[s] = minpid[H] /\ minpid[H] # 0

FcfsType ==
  /\ ticks \in 0 .. MaxTicks
  /\ ctime \in [Slots -> 0 .. MaxTicks]
  /\ minctime \in [Harts -> 0 .. MaxTicks + 1]

\* The slot that FCFS has found in the first pass.
OldestFound == \E t \in Runnable : pid[t] = minpid[H] /\ ctime[t] = minctime[H]

FcfsInv ==
  /\ FcfsType
  /\ \A s \in Slots : Seen(s) => minctime[H] <= ctime[s]
  /\ phase[H] = "choose" =>
       OldestFound \/ (minctime[H] = MaxTicks + 1 /\ minpid[H] = 0)
  /\ phase[H] = "take" => state[scan[H]] = "RUNNABLE" /\ ctime[scan[H]] = minctime[H]
  /\ \A s \in Slots : Wanted(s) => ctime[s] = minctime[H]

\* Times are in the past.
PbsType ==
  /\ ticks \in 0 .. MaxTicks
  /\ SP \in [Slots -> 0 .. 100]
  /\ niceness \in [Slots -> 0 .. 10]
  /\ DP \in [Slots -> Nat]
  /\ lrtime \in [Slots -> 0 .. ticks]
  /\ stime \in [Slots -> 0 .. ticks]
  /\ total_s_time \in [Slots -> 0 .. ticks]
  /\ num_sched \in [Slots -> 0 .. MaxRuns]
  /\ minDP \in [Harts -> Nat]
  /\ minruns \in [Harts -> 0 .. MaxRuns + 1]

\* Slot s comes no earlier than what PBS has found.
AfterLeast(s) == minDP[H] < DP[s] \/ (minDP[H] = DP[s] /\ minruns[H] <= num_sched[s])

LeastFound ==
  \E t \in Runnable :
    t < scan[H] /\ pid[t] = minpid[H] /\ DP[t] = minDP[H] /\ num_sched[t] = minruns[H]

PbsInv ==
  /\ PbsType
  /\ \A s \in Slots : Seen(s) => AfterLeast(s)
  /\ phase[H] = "choose" =>
       LeastFound \/ (minDP[H] = 100 /\ minruns[H] = MaxRuns + 1 /\ minpid[H] = 0)
  /\ phase[H] \in {"choose", "match", "run"}
  /\ \A s \in Slots : Wanted(s) => DP[s] = minDP[H] /\ num_sched[s] = minruns[H]

\* With static priorities of at least 5, which is as much as the share of sleep can take
\* off, no DP wraps below 0: none is more than the 100 min_DP starts with.
HighPriorities == \A v \in Priorities : 5 <= v

CappedInv ==
  /\ \A s \in Slots : state[s] # "UNUSED" => 5 <= SP[s]
  /\ \A s \in Slots : phase[H] = "choose" /\ Seen(s) => DP[s] <= 100

\* MLFQ: the head of queue k is in this queue or in a higher one by now.
Headed(k) == q[k][0] \in Runnable /\ priority[q[k][0]] <= k

\* So are those of the queues in which hart H has counted somebody.
HeadInv == \A k \in MLFQ!Levels : i[H][k] > 0 => Headed(k)

\* Slot s is in the queue it was in when the pass began, or in a higher one; and the
\* first pass has counted it there.
Counted(s) == \E k \in MLFQ!Levels : k <= startlevel[H][s] /\ i[H][k] > 0

\* What the queues are good for, in a pass that counts everybody where it has been put.
QueuesInv ==
  /\ phase[H] \in FirstPass => HeadInv /\ \A s \in Slots : Seen(s) => Counted(s)
  /\ phase[H] = "count" => Headed(level[H])
  /\ \A s, t \in Slots :
       Wanted(s) /\ pid[t] \in waiting[H] => priority[s] <= startlevel[H][t]

LevelInv ==
  /\ LevelProofs!MlfqInv
  /\ \A s \in Slots : pid[s] \in waiting[H] => priority[s] <= startlevel[H][s]
  /\ phase[H] # "take"
  /\ phase[H] \in FirstPass => minpid[H] = 0
  /\ phase[H] \in {"queue", "count"} => state[scan[H]] = "RUNNABLE"
  /\ ~split[H] => QueuesInv

\* The builds that do not run leave their variables as they are.
FcfsIdle == \A s \in Slots : ctime[s] = 0
PbsIdle  == \A s \in Slots : DP[s] = 0 /\ num_sched[s] = 0
LevelIdle == \A s \in Slots : priority[s] = 0 /\ startlevel[H][s] = 0

SchedulersInv ==
  /\ SCHEDULER \in {"FCFS", "PBS", "MLFQ"}
  /\ Table
  /\ IF SCHEDULER = "FCFS" THEN FcfsInv ELSE FcfsIdle
  /\ IF SCHEDULER = "PBS" THEN PbsInv ELSE PbsIdle
  /\ IF SCHEDULER = "MLFQ" THEN LevelInv ELSE LevelIdle
  /\ SCHEDULER = "PBS" /\ HighPriorities => CappedInv


----------------------------------------------------------------------------
(* The table, whatever the build *)

Passes == FirstPass \cup {"match", "panic"}

LEMMA Facts ==
  ASSUME OneHart
  PROVE  /\ NPROC \in Nat \ {0} /\ MaxPid \in Nat \ {0} /\ MaxTicks \in Nat /\ MaxRuns \in Nat
         /\ Slots = 1 .. NPROC /\ NoSlot = 0 /\ H = ClockHart /\ H \in Harts
         /\ \A h \in Harts : h = H
BY DispatchAssumption, SchedulersAssumption DEF Slots, NoSlot, OneHart, H

LEMMA Types ==
  ASSUME Table
  PROVE  /\ state \in [Slots -> {"UNUSED", "SLEEPING", "RUNNABLE", "RUNNING"}]
         /\ pid \in [Slots -> 0 .. MaxPid] /\ nextpid \in 1 .. MaxPid + 1
         /\ phase \in [Harts -> FirstPass \cup {"match", "run", "panic"}]
         /\ scan \in [Harts -> Slots] /\ cur \in [Harts -> Slots \cup {NoSlot}]
         /\ minpid \in [Harts -> 0 .. MaxPid] /\ waiting \in [Harts -> SUBSET (1 .. MaxPid)]
BY DEF Table, DispatchType

\* Whoever has waited is RUNNABLE still.
LEMMA WaitsStill ==
  ASSUME Table, NEW s \in Slots, pid[s] \in waiting[H]
  PROVE  state[s] = "RUNNABLE" /\ s \in Runnable
<1>1. PICK t \in Runnable : pid[t] = pid[s]
  BY DEF Table, RunnablePids
<1>2. t \in Slots /\ state[t] = "RUNNABLE"
  BY DEF Runnable
<1>3. pid[t] # 0
  BY <1>2 DEF Table
<1>4. t = s
  BY <1>1, <1>2, <1>3 DEF Table
<1> QED BY <1>2, <1>4

\* Its slot is the one that the promises speak of.
LEMMA WaitsThere ==
  ASSUME Table, NEW n \in waiting[H]
  PROVE  \E t \in Slots : pid[t] = n /\ t = CHOOSE s \in Slots : pid[s] = n
<1>1. \E t \in Slots : pid[t] = n
  BY DEF Table, RunnablePids, Runnable
<1> QED BY <1>1

LEMMA RunnableAre ==
  ASSUME OneHart, Table
  PROVE  RunnablePids \subseteq 1 .. MaxPid
<1>1. \A s \in Slots : state[s] = "RUNNABLE" => pid[s] \in 0 .. MaxPid /\ pid[s] # 0
  BY Types DEF Table
<1>2. \A s \in Slots : state[s] = "RUNNABLE" => pid[s] \in 1 .. MaxPid
  BY <1>1, Facts
<1> QED BY <1>2 DEF RunnablePids, Runnable

\* The hart goes on in a pass, without a process.
LEMMA TableMove ==
  ASSUME OneHart, Table, UNCHANGED <<state, pid, nextpid>>,
         cur' \in [Harts -> Slots \cup {NoSlot}], cur'[H] = NoSlot,
         phase' \in [Harts -> Passes], scan' \in [Harts -> Slots],
         minpid' \in [Harts -> 0 .. MaxPid], minpid'[H] < nextpid,
         waiting' \in [Harts -> SUBSET RunnablePids]
  PROVE  Table'
<1>1. waiting' \in [Harts -> SUBSET (1 .. MaxPid)]
  BY RunnableAre
<1>2. phase' \in [Harts -> FirstPass \cup {"match", "run", "panic"}] /\ phase'[H] # "run"
  BY Facts DEF Passes, FirstPass
<1>3. DispatchType'
  BY <1>1, <1>2, Types DEF DispatchType
<1>4. RunnablePids' = RunnablePids
  BY DEF RunnablePids, Runnable
<1>5. waiting'[H] \subseteq RunnablePids'
  BY <1>4, Facts
<1> QED BY <1>2, <1>3, <1>5 DEF Table

\* So it does when it stays at its slot.
LEMMA TableStep ==
  ASSUME OneHart, Table, phase[H] # "run", NEW there \in Passes,
         phase' = [phase EXCEPT ![H] = there],
         UNCHANGED <<state, pid, nextpid, scan, cur, waiting>>,
         UNCHANGED minpid \/ (minpid' \in [Harts -> 0 .. MaxPid] /\ minpid'[H] < nextpid)
  PROVE  Table'
<1> USE Facts
<1>1. phase' \in [Harts -> Passes]
  <2>1. \A h \in Harts : phase'[h] = there
    BY Types
  <2> QED BY <2>1, Types
<1>2. waiting' \in [Harts -> SUBSET RunnablePids]
  <2>1. \A h \in Harts : waiting[h] \subseteq RunnablePids
    BY DEF Table
  <2> QED BY <2>1, Types
<1>3. minpid' \in [Harts -> 0 .. MaxPid] /\ minpid'[H] < nextpid
  BY Types DEF Table
<1> QED BY <1>1, <1>2, <1>3, Types, TableMove DEF Table

\* So it does when it only goes over to the next slot.
LEMMA TableNextSlot ==
  ASSUME OneHart, Table, phase[H] \in {"choose", "take", "count"},
         NEW next \in {"match", "sort"}, NextSlot(H, next),
         UNCHANGED <<state, pid, nextpid, cur, waiting>>,
         NEW n \in 0 .. MaxPid, n < nextpid, minpid' = [minpid EXCEPT ![H] = n]
  PROVE  Table'
<1> USE Facts
<1>1. scan' \in [Harts -> Slots]
  BY Types DEF NextSlot
<1>2. phase \in [Harts -> Passes]
  <2>1. \A h \in Harts : phase[h] \in {"choose", "take", "count"}
    BY Facts
  <2> QED BY <2>1, Types DEF Passes, FirstPass
<1>3. phase' \in [Harts -> Passes]
  <2>1. \E there \in Passes : phase' = [phase EXCEPT ![H] = there]
    BY DEF NextSlot, Passes, FirstPass
  <2> QED BY <1>2, <2>1
<1>4. minpid' \in [Harts -> 0 .. MaxPid] /\ minpid'[H] = n
  BY Types
<1>5. cur' \in [Harts -> Slots \cup {NoSlot}] /\ cur'[H] = NoSlot
  BY Types DEF Table
<1>6. waiting' \in [Harts -> SUBSET RunnablePids]
  <2>1. \A h \in Harts : waiting[h] \subseteq RunnablePids
    BY DEF Table
  <2> QED BY <2>1, Types
<1> QED BY <1>1, <1>3, <1>4, <1>5, <1>6, TableMove

\* What the cursor does.
LEMMA NextSlotIs ==
  ASSUME OneHart, Table, NEW next, NextSlot(H, next)
  PROVE  /\ scan[H] \in 1 .. NPROC
         /\ scan[H] = NPROC => phase'[H] = next /\ scan'[H] = 1
         /\ scan[H] # NPROC => phase'[H] = "choose" /\ scan'[H] = scan[H] + 1
BY Facts, Types DEF NextSlot

----------------------------------------------------------------------------
\* The second pass.

\* The next round begins.
Fresh ==
  /\ phase'[H] = "choose" /\ scan'[H] = 1 /\ minpid'[H] = 0

\* The cursor goes on in the second pass.
Onward ==
  /\ phase'[H] = "match" /\ scan'[H] = scan[H] + 1 /\ UNCHANGED <<minpid, waiting>>

LEMMA TableSkip ==
  ASSUME OneHart, Table, MatchSkip(H)
  PROVE  /\ Table' /\ (Fresh \/ Onward)
         /\ phase[H] = "match" /\ UNCHANGED <<state, pid, nextpid, cur>>
<1> USE Facts
<1>1. /\ phase[H] = "match" /\ Advance(H) /\ UNCHANGED <<state, pid, nextpid, cur>>
  BY DEF MatchSkip, tblVars
<1>2. cur' \in [Harts -> Slots \cup {NoSlot}] /\ cur'[H] = NoSlot
  BY <1>1, Types DEF Table
<1>3. phase \in [Harts -> Passes]
  <2>1. \A h \in Harts : phase[h] = "match"
    BY <1>1
  <2> QED BY <2>1, Types DEF Passes
<1>4. CASE scan[H] = NPROC
  <2>1. /\ phase' = [phase EXCEPT ![H] = "choose"] /\ scan' = [scan EXCEPT ![H] = 1]
        /\ minpid' = [minpid EXCEPT ![H] = 0] /\ waiting' = [waiting EXCEPT ![H] = RunnablePids]
    BY <1>1, <1>4 DEF Advance, BeginRound, RunnablePids
  <2>2. Fresh
    BY <2>1, Types DEF Fresh
  <2>3. waiting' \in [Harts -> SUBSET RunnablePids]
    <3>1. \A h \in Harts : waiting'[h] = RunnablePids
      BY <2>1, Types
    <3>2. waiting' \in [Harts -> SUBSET (1 .. MaxPid)]
      BY <2>1, Types, RunnableAre
    <3> QED BY <3>1, <3>2
  <2>4. /\ phase' \in [Harts -> Passes] /\ scan' \in [Harts -> Slots]
        /\ minpid' \in [Harts -> 0 .. MaxPid] /\ minpid'[H] < nextpid
    BY <1>3, <2>1, Types DEF Passes, FirstPass
  <2>5. Table'
    BY <1>1, <1>2, <2>3, <2>4, TableMove
  <2> QED BY <1>1, <2>2, <2>5
<1>5. CASE scan[H] # NPROC
  <2>1. /\ phase' = [phase EXCEPT ![H] = "match"] /\ scan' = [scan EXCEPT ![H] = @ + 1]
        /\ UNCHANGED <<minpid, waiting>>
    BY <1>1, <1>5 DEF Advance
  <2>2. Onward
    BY <2>1, Types DEF Onward
  <2>3. waiting' \in [Harts -> SUBSET RunnablePids]
    <3>1. \A h \in Harts : waiting[h] \subseteq RunnablePids
      BY DEF Table
    <3> QED BY <2>1, <3>1, Types
  <2>4. /\ phase' \in [Harts -> Passes] /\ scan' \in [Harts -> Slots]
        /\ minpid' \in [Harts -> 0 .. MaxPid] /\ minpid'[H] < nextpid
    BY <1>3, <1>5, <2>1, Types DEF Passes, Table
  <2>5. Table'
    BY <1>1, <1>2, <2>3, <2>4, TableMove
  <2> QED BY <1>1, <2>2, <2>5
<1> QED BY <1>4, <1>5

LEMMA TableDispatch ==
  ASSUME OneHart, Table, Dispatch(H)
  PROVE  /\ Table'
         /\ phase[H] = "match" /\ Wanted(scan[H]) /\ scan[H] \in Slots
         /\ phase'[H] = "run" /\ cur'[H] = scan[H]
         /\ waiting'[H] = waiting[H] \ {pid[scan[H]]} /\ UNCHANGED <<pid, nextpid, scan, minpid>>
         /\ \A s \in Slots : state'[s] = "UNUSED" <=> state[s] = "UNUSED"
<1> USE Facts
<1>1. /\ phase[H] = "match" /\ state[scan[H]] = "RUNNABLE" /\ pid[scan[H]] = minpid[H]
      /\ state' = [state EXCEPT ![scan[H]] = "RUNNING"]
      /\ phase' = [phase EXCEPT ![H] = "run"]
      /\ cur' = [cur EXCEPT ![H] = scan[H]]
      /\ waiting' = [g \in Harts |-> waiting[g] \ {pid[scan[H]]}]
      /\ UNCHANGED <<pid, nextpid, scan, minpid>>
  BY DEF Dispatch, Chosen
<1>2. PICK s \in Slots : s = scan[H]
  BY Types
<1>3. /\ phase'[H] = "run" /\ cur'[H] = s /\ waiting'[H] = waiting[H] \ {pid[s]}
      /\ state'[s] = "RUNNING" /\ \A t \in Slots : t # s => state'[t] = state[t]
  BY <1>1, <1>2, Types
<1>4. waiting' \in [Harts -> SUBSET (1 .. MaxPid)]
  BY <1>1, Types
<1>5. DispatchType'
  BY <1>1, <1>2, <1>4, Types DEF DispatchType
<1>6. pid[s] # 0
  BY <1>1, <1>2 DEF Table
<1>7. waiting'[H] \subseteq RunnablePids'
  <2>1. ASSUME NEW n \in waiting'[H] PROVE n \in RunnablePids'
    <3>1. n \in RunnablePids /\ n # pid[s]
      BY <1>3, <2>1 DEF Table
    <3>2. PICK t \in Runnable : pid[t] = n
      BY <3>1 DEF RunnablePids
    <3>3. t \in Slots /\ state'[t] = "RUNNABLE" /\ pid'[t] = n
      BY <1>1, <1>3, <3>1, <3>2 DEF Runnable
    <3> QED BY <3>3 DEF RunnablePids, Runnable
  <2> QED BY <2>1
<1>8. \A t \in Slots : state'[t] = "UNUSED" <=> state[t] = "UNUSED"
  BY <1>1, <1>2, <1>3
<1>9. /\ \A t \in Slots : state'[t] = "UNUSED" <=> pid'[t] = 0
      /\ \A t, u \in Slots : pid'[t] = pid'[u] /\ pid'[t] # 0 => t = u
      /\ \A t \in Slots : pid'[t] < nextpid' /\ minpid'[H] < nextpid'
  BY <1>1, <1>8 DEF Table
<1>10. Table'
  BY <1>1, <1>2, <1>3, <1>5, <1>7, <1>9 DEF Table
<1>11. Wanted(s)
  BY <1>1, <1>2, <1>6 DEF Wanted
<1> QED BY <1>1, <1>2, <1>3, <1>8, <1>10, <1>11

\* The process on hart H stops.  The second pass is past its slot, and the others that
\* have waited wait on.
LEMMA TableGiveBack ==
  ASSUME OneHart, Table, NEW st \in {"SLEEPING", "RUNNABLE", "UNUSED"}, GiveBack(H, st),
         UNCHANGED nextpid,
         IF st = "UNUSED" THEN pid' = [pid EXCEPT ![cur[H]] = 0] ELSE UNCHANGED pid
  PROVE  /\ Table'
         /\ phase[H] = "run" /\ cur[H] \in Slots /\ state[cur[H]] # "UNUSED"
         /\ Fresh \/ Onward
         /\ \A s \in Slots : ~Wanted(s)'
         /\ \A s \in Slots : Seen(s)' => Onward /\ Seen(s) /\ s # cur[H]
         /\ \A s \in Slots : pid'[s] \in waiting'[H] /\ Onward => Seen(s) /\ s # cur[H]
         /\ \A s \in Slots : state'[s] # "UNUSED" => state[s] # "UNUSED"
<1> USE Facts
<1>1. /\ phase[H] = "run" /\ state' = [state EXCEPT ![cur[H]] = st]
      /\ cur' = [cur EXCEPT ![H] = NoSlot]
  BY DEF GiveBack
<1>2. PICK s \in Slots : s = cur[H] /\ s = scan[H] /\ state[s] = "RUNNING" /\ pid[s] = minpid[H]
  BY <1>1, Types DEF Table
<1>3. /\ state'[s] = st /\ \A t \in Slots : t # s => state'[t] = state[t] /\ pid'[t] = pid[t]
      /\ cur'[H] = NoSlot /\ pid'[s] = IF st = "UNUSED" THEN 0 ELSE pid[s]
  BY <1>1, <1>2, Types
<1>4. pid[s] # 0 /\ pid[s] \in 1 .. MaxPid
  BY <1>2, Types DEF Table
<1>5. pid[s] \notin waiting[H]
  BY <1>2, WaitsStill
<1>6. /\ \A t \in Slots : state'[t] = "UNUSED" <=> pid'[t] = 0
      /\ \A t, u \in Slots : pid'[t] = pid'[u] /\ pid'[t] # 0 => t = u
      /\ \A t \in Slots : pid'[t] < nextpid'
  <2>1. \A t \in Slots : state'[t] = "UNUSED" <=> pid'[t] = 0
    BY <1>3, <1>4 DEF Table
  <2>2. ASSUME NEW t \in Slots, NEW u \in Slots, pid'[t] = pid'[u], pid'[t] # 0 PROVE t = u
    <3>1. pid'[t] = pid[t] /\ pid'[u] = pid[u]
      BY <1>3, <2>2
    <3> QED BY <2>2, <3>1 DEF Table
  <2>3. ASSUME NEW t \in Slots PROVE pid'[t] < nextpid'
    <3>1. pid[t] < nextpid /\ 0 < nextpid
      BY Types DEF Table
    <3>2. pid'[t] = pid[t] \/ pid'[t] = 0
      BY <1>3
    <3> QED BY <3>1, <3>2
  <2> QED BY <2>1, <2>2, <2>3
<1>7. pid' \in [Slots -> 0 .. MaxPid]
  <2>1. CASE st = "UNUSED"
    <3>1. pid' = [pid EXCEPT ![s] = 0] /\ 0 \in 0 .. MaxPid
      BY <1>2, <2>1
    <3> QED BY <3>1, Types
  <2>2. CASE st # "UNUSED"
    BY <2>2, Types
  <2> QED BY <2>1, <2>2
<1>8. state' \in [Slots -> {"UNUSED", "SLEEPING", "RUNNABLE", "RUNNING"}]
      /\ cur' \in [Harts -> Slots \cup {NoSlot}]
  BY <1>1, <1>2, Types
<1>9. CASE scan[H] = NPROC
  <2>0. /\ phase' = [phase EXCEPT ![H] = "choose"] /\ scan' = [scan EXCEPT ![H] = 1]
        /\ minpid' = [minpid EXCEPT ![H] = 0]
        /\ waiting' = [waiting EXCEPT ![H] = {pid[t] : t \in Runnable} \cup
                         (IF st = "RUNNABLE" THEN {pid[cur[H]]} ELSE {})]
    BY <1>9 DEF GiveBack
  <2>1. /\ Fresh /\ waiting'[H] = RunnablePids \cup (IF st = "RUNNABLE" THEN {pid[s]} ELSE {})
    BY <1>2, <2>0, Types DEF Fresh, RunnablePids
  <2>2. waiting'[H] \subseteq RunnablePids'
    <3>1. ASSUME NEW t \in Runnable PROVE t \in Runnable' /\ pid'[t] = pid[t]
      BY <1>2, <1>3 DEF Runnable
    <3>2. st = "RUNNABLE" => s \in Runnable' /\ pid'[s] = pid[s]
      BY <1>3 DEF Runnable
    <3> QED BY <2>1, <3>1, <3>2 DEF RunnablePids
  <2>3. waiting' \in [Harts -> SUBSET (1 .. MaxPid)]
    <3>1. RunnablePids \cup (IF st = "RUNNABLE" THEN {pid[s]} ELSE {}) \subseteq 1 .. MaxPid
      BY <1>4, RunnableAre
    <3> QED BY <1>2, <2>0, <3>1, Types DEF RunnablePids
  <2>4. DispatchType'
    <3>1. phase' \in [Harts -> FirstPass \cup {"match", "run", "panic"}]
      BY <2>0, Types DEF FirstPass
    <3>2. scan' \in [Harts -> Slots] /\ minpid' \in [Harts -> 0 .. MaxPid]
      BY <2>0, Types
    <3> QED BY <1>7, <1>8, <2>3, <3>1, <3>2, Types DEF DispatchType
  <2>5. minpid'[H] < nextpid' /\ phase'[H] # "run"
    BY <2>1, Types DEF Fresh
  <2>6. Table'
    BY <1>3, <1>6, <2>2, <2>4, <2>5 DEF Table
  <2>7. phase'[H] = "choose" /\ scan'[H] = 1
    BY <2>1 DEF Fresh
  <2>8. \A t \in Slots : ~Wanted(t)' /\ ~Seen(t)'
    BY <2>7 DEF Wanted, Seen
  <2>9. ~Onward
    BY <2>7 DEF Onward
  <2> QED BY <1>1, <1>2, <1>3, <2>1, <2>6, <2>8, <2>9
<1>10. CASE scan[H] # NPROC
  <2>0. /\ phase' = [phase EXCEPT ![H] = "match"] /\ scan' = [scan EXCEPT ![H] = @ + 1]
        /\ UNCHANGED <<minpid, waiting>>
    BY <1>10 DEF GiveBack
  <2>1. Onward
    BY <2>0, Types DEF Onward
  <2>2. waiting'[H] \subseteq RunnablePids'
    <3>1. ASSUME NEW n \in waiting[H] PROVE n \in RunnablePids'
      <4>1. PICK t \in Runnable : pid[t] = n
        BY DEF Table, RunnablePids
      <4>2. t \in Runnable' /\ pid'[t] = n
        BY <1>2, <1>3, <4>1 DEF Runnable
      <4> QED BY <4>2 DEF RunnablePids
    <3> QED BY <2>0, <3>1
  <2>3. DispatchType'
    <3>1. scan' \in [Harts -> Slots]
      BY <1>10, <2>0, Types
    <3>2. phase' \in [Harts -> FirstPass \cup {"match", "run", "panic"}]
      BY <2>0, Types
    <3> QED BY <1>7, <1>8, <2>0, <3>1, <3>2, Types DEF DispatchType
  <2>4. phase'[H] = "match" /\ minpid'[H] < nextpid' /\ scan'[H] = s + 1
    BY <1>2, <2>0, Types DEF Table
  <2>5. Table'
    BY <1>3, <1>6, <2>2, <2>3, <2>4 DEF Table
  <2>6. ASSUME NEW t \in Slots PROVE ~Wanted(t)'
    <3>1. SUFFICES ASSUME s < t, pid'[t] = minpid[H] PROVE FALSE
      BY <2>0, <2>4 DEF Wanted
    <3>2. t # s
      BY <3>1
    <3>3. pid[t] = pid[s]
      BY <1>2, <1>3, <3>1, <3>2
    <3> QED BY <1>4, <3>2, <3>3 DEF Table
  <2>7. ASSUME NEW t \in Slots, pid'[t] \in waiting[H] PROVE Seen(t) /\ t # s
    <3>1. 0 \notin waiting[H]
      BY Types
    <3>2. t # s
      BY <1>3, <1>5, <2>7, <3>1
    <3>3. pid[t] \in waiting[H]
      BY <1>3, <2>7, <3>2
    <3> QED BY <1>1, <3>2, <3>3 DEF Seen
  <2>8. \A t \in Slots : Seen(t)' => pid'[t] \in waiting[H]
    BY <2>0 DEF Seen
  <2> QED BY <1>1, <1>2, <1>3, <2>0, <2>1, <2>5, <2>6, <2>7, <2>8
<1> QED BY <1>9, <1>10

LEMMA TableSleep ==
  ASSUME OneHart, Table, Sleep(H)
  PROVE  /\ Table'
         /\ phase[H] = "run" /\ cur[H] \in Slots /\ state[cur[H]] # "UNUSED"
         /\ Fresh \/ Onward
         /\ \A s \in Slots : ~Wanted(s)'
         /\ \A s \in Slots : Seen(s)' => Onward /\ Seen(s) /\ s # cur[H]
         /\ \A s \in Slots : pid'[s] \in waiting'[H] /\ Onward => Seen(s) /\ s # cur[H]
         /\ \A s \in Slots : state'[s] # "UNUSED" => state[s] # "UNUSED"
<1>1. GiveBack(H, "SLEEPING") /\ UNCHANGED pid /\ UNCHANGED nextpid
  BY DEF Sleep
<1> QED BY <1>1, TableGiveBack

LEMMA TableExit ==
  ASSUME OneHart, Table, Exit(H)
  PROVE  /\ Table'
         /\ phase[H] = "run" /\ cur[H] \in Slots /\ state[cur[H]] # "UNUSED"
         /\ Fresh \/ Onward
         /\ \A s \in Slots : ~Wanted(s)'
         /\ \A s \in Slots : Seen(s)' => Onward /\ Seen(s) /\ s # cur[H]
         /\ \A s \in Slots : pid'[s] \in waiting'[H] /\ Onward => Seen(s) /\ s # cur[H]
         /\ \A s \in Slots : state'[s] # "UNUSED" => state[s] # "UNUSED"
<1>1. GiveBack(H, "UNUSED") /\ pid' = [pid EXCEPT ![cur[H]] = 0] /\ UNCHANGED nextpid
  BY DEF Exit
<1> QED BY <1>1, TableGiveBack

LEMMA TableFork ==
  ASSUME OneHart, Table, NEW s \in Slots, Fork(H, s)
  PROVE  /\ Table' /\ UNCHANGED hartVars
         /\ phase[H] = "run" /\ state[s] = "UNUSED"
         /\ \A t \in Slots : ~Wanted(t)'
         /\ \A t \in Slots : pid'[t] \in waiting'[H] => t # s /\ Seen(t)
         /\ \A t \in Slots : t # s /\ state'[t] # "UNUSED" => state[t] # "UNUSED"
<1> USE Facts
<1>1. /\ phase[H] = "run" /\ nextpid <= MaxPid /\ state[s] = "UNUSED"
      /\ state' = [state EXCEPT ![s] = "RUNNABLE"] /\ pid' = [pid EXCEPT ![s] = nextpid]
      /\ nextpid' = nextpid + 1 /\ UNCHANGED hartVars
  BY DEF Fork
<1>2. UNCHANGED <<phase, scan, cur, minpid, waiting>>
  BY <1>1 DEF hartVars
<1>3. /\ state'[s] = "RUNNABLE" /\ \A t \in Slots : t # s => state'[t] = state[t]
      /\ pid'[s] = nextpid /\ \A t \in Slots : t # s => pid'[t] = pid[t]
  BY <1>1, Types
<1>4. nextpid \in 1 .. MaxPid /\ nextpid' \in 1 .. MaxPid + 1 /\ nextpid \in 0 .. MaxPid
  BY <1>1, Types
<1>5. DispatchType'
  BY <1>1, <1>2, <1>4, Types DEF DispatchType
<1>6. \A t \in Slots : pid[t] \in 0 .. MaxPid /\ pid[t] < nextpid
  BY Types DEF Table
<1>7. /\ \A t \in Slots : state'[t] = "UNUSED" <=> pid'[t] = 0
      /\ \A t \in Slots : pid'[t] < nextpid'
      /\ minpid'[H] < nextpid'
  BY <1>1, <1>2, <1>3, <1>4, <1>6, Types DEF Table
<1>8. \A t, u \in Slots : pid'[t] = pid'[u] /\ pid'[t] # 0 => t = u
  <2>1. ASSUME NEW t \in Slots, NEW u \in Slots, pid'[t] = pid'[u], pid'[t] # 0, t # s, u # s
        PROVE  t = u
    BY <1>3, <2>1 DEF Table
  <2>2. \A t \in Slots : t # s => pid'[t] # pid'[s]
    BY <1>3, <1>4, <1>6
  <2> QED BY <2>1, <2>2
<1>9. waiting'[H] \subseteq RunnablePids'
  <2>1. ASSUME NEW n \in waiting[H] PROVE n \in RunnablePids'
    <3>1. PICK t \in Runnable : pid[t] = n
      BY DEF Table, RunnablePids
    <3>2. t \in Runnable' /\ pid'[t] = n
      BY <1>1, <1>3, <3>1 DEF Runnable
    <3> QED BY <3>2 DEF RunnablePids
  <2> QED BY <1>2, <2>1
<1>10. scan[H] # s /\ scan[H] \in Slots
  BY <1>1, Types DEF Table
<1>11. Table'
  BY <1>1, <1>2, <1>3, <1>5, <1>7, <1>8, <1>9, <1>10 DEF Table
<1>12. ASSUME NEW t \in Slots, pid'[t] \in waiting'[H] PROVE t # s /\ Seen(t)
  <2>1. t # s
    <3>1. \A n \in waiting[H] : \E u \in Slots : pid[u] = n
      BY DEF Table, RunnablePids, Runnable
    <3>2. nextpid \notin waiting[H]
      BY <1>4, <1>6, <3>1
    <3> QED BY <1>2, <1>3, <1>12, <3>2
  <2> QED BY <1>1, <1>2, <1>3, <1>12, <2>1 DEF Seen
<1>13. \A t \in Slots : ~Wanted(t)'
  BY <1>1, <1>2 DEF Wanted
<1> QED BY <1>1, <1>3, <1>11, <1>12, <1>13

\* Nothing of the passes changes when somebody is woken.
LEMMA TableWake ==
  ASSUME OneHart, Table, NEW s \in Slots, Wake(s)
  PROVE  /\ Table' /\ UNCHANGED <<pid, hartVars>> /\ Runnable \subseteq Runnable'
         /\ \A t \in Slots : Seen(t)' <=> Seen(t)
         /\ \A t \in Slots : Wanted(t)' <=> Wanted(t)
         /\ \A t \in Slots : state'[t] # "UNUSED" => state[t] # "UNUSED"
         /\ \A t \in Slots : state[t] = "RUNNABLE" => state'[t] = "RUNNABLE"
<1> USE Facts
<1>1. /\ state[s] = "SLEEPING" /\ state' = [state EXCEPT ![s] = "RUNNABLE"]
      /\ UNCHANGED <<pid, nextpid>> /\ UNCHANGED hartVars
  BY DEF Wake
<1>2. UNCHANGED <<phase, scan, cur, minpid, waiting>>
  BY <1>1 DEF hartVars
<1>3. state'[s] = "RUNNABLE" /\ \A t \in Slots : t # s => state'[t] = state[t]
  BY <1>1, Types
<1>4. DispatchType'
  BY <1>1, <1>2, Types DEF DispatchType
<1>5. Runnable \subseteq Runnable'
  BY <1>1, <1>3 DEF Runnable
<1>6. RunnablePids \subseteq RunnablePids'
  BY <1>1, <1>5 DEF RunnablePids
<1>7. scan[H] # s \/ phase[H] # "run"
  BY <1>1 DEF Table
<1>8. \A t \in Slots : state'[t] = "UNUSED" <=> pid'[t] = 0
  BY <1>1, <1>3 DEF Table
<1>9. Table'
  BY <1>1, <1>2, <1>3, <1>4, <1>6, <1>7, <1>8, Types DEF Table
<1> QED BY <1>1, <1>2, <1>3, <1>5, <1>9 DEF Seen, Wanted

\* A process leaves its hart behind without a swtch.
LEMMA TableForget ==
  ASSUME OneHart, Table, UNCHANGED <<state, pid, nextpid>>, BeginRound(H),
         cur' = [cur EXCEPT ![H] = NoSlot]
  PROVE  Table' /\ Fresh
<1> USE Facts
<1>1. /\ phase' = [phase EXCEPT ![H] = "choose"] /\ scan' = [scan EXCEPT ![H] = 1]
      /\ minpid' = [minpid EXCEPT ![H] = 0] /\ waiting' = [waiting EXCEPT ![H] = RunnablePids]
  BY DEF BeginRound, RunnablePids
<1>2. waiting' \in [Harts -> SUBSET RunnablePids]
  <2>1. \A h \in Harts : waiting'[h] = RunnablePids
    BY <1>1, Types
  <2>2. waiting' \in [Harts -> SUBSET (1 .. MaxPid)]
    BY <1>1, Types, RunnableAre
  <2> QED BY <2>1, <2>2
<1>3. phase' \in [Harts -> Passes]
  <2>1. \A h \in Harts : phase'[h] = "choose"
    BY <1>1, Types
  <2> QED BY <1>1, <2>1, Types DEF Passes, FirstPass
<1>4. /\ scan' \in [Harts -> Slots] /\ cur' \in [Harts -> Slots \cup {NoSlot}]
      /\ cur'[H] = NoSlot /\ minpid' \in [Harts -> 0 .. MaxPid] /\ minpid'[H] < nextpid
  BY <1>1, Types
<1> QED BY <1>1, <1>2, <1>3, <1>4, Types, TableMove DEF Fresh


----------------------------------------------------------------------------
(* FCFS *)

LEMMA SameFcfs ==
  ASSUME NEW h, NEW s, NEW next
  PROVE  /\ FCFS!DispatchInit <=> DispatchInit
         /\ FCFS!NextSlot(h, next) <=> NextSlot(h, next)
         /\ FCFS!MatchSkip(h) <=> MatchSkip(h)
         /\ FCFS!Dispatch(h) <=> Dispatch(h)
         /\ FCFS!Sleep(h) <=> Sleep(h)
         /\ FCFS!Exit(h) <=> Exit(h)
         /\ FCFS!Fork(h, s) <=> Fork(h, s)
         /\ FCFS!Wake(s) <=> Wake(s)
<1>1. FCFS!DispatchInit <=> DispatchInit
  BY DEF FCFS!DispatchInit, DispatchInit, FCFS!Slots, Slots, FCFS!NoSlot, NoSlot
<1>2. FCFS!NextSlot(h, next) <=> NextSlot(h, next)
  BY DEF FCFS!NextSlot, NextSlot
<1>3. FCFS!MatchSkip(h) <=> MatchSkip(h)
  BY DEF FCFS!MatchSkip, FCFS!Chosen, FCFS!Advance, FCFS!BeginRound, FCFS!Runnable, FCFS!Slots,
         FCFS!tblVars, MatchSkip, Chosen, Advance, BeginRound, Runnable, Slots, tblVars
<1>4. FCFS!Dispatch(h) <=> Dispatch(h)
  BY DEF FCFS!Dispatch, FCFS!Chosen, Dispatch, Chosen
<1>5. ASSUME NEW st PROVE FCFS!GiveBack(h, st) <=> GiveBack(h, st)
  BY DEF FCFS!GiveBack, FCFS!Runnable, FCFS!Slots, FCFS!NoSlot, GiveBack, Runnable, Slots, NoSlot
<1>6. FCFS!Sleep(h) <=> Sleep(h)
  BY <1>5 DEF FCFS!Sleep, Sleep
<1>7. FCFS!Exit(h) <=> Exit(h)
  BY <1>5 DEF FCFS!Exit, Exit
<1>8. FCFS!Fork(h, s) <=> Fork(h, s)
  BY DEF FCFS!Fork, FCFS!hartVars, Fork, hartVars
<1>9. FCFS!Wake(s) <=> Wake(s)
  BY DEF FCFS!Wake, FCFS!hartVars, Wake, hartVars
<1> QED BY <1>1, <1>2, <1>3, <1>4, <1>6, <1>7, <1>8, <1>9

\* The two promises, as far as FCFS can break them.
OlderRuns ==
  phase[H] = "match" /\ phase'[H] = "run" =>
    \A s \in Slots : pid[s] \in waiting[H] => ctime[cur'[H]] <= ctime[s]

Finds ==
  phase[H] \in {"choose", "take", "queue", "count", "sort", "pick"} /\ phase'[H] = "match" /\ waiting[H] # {}
    => minpid'[H] \in RunnablePids

FcfsKept == Table' /\ FcfsInv' /\ OlderRuns /\ Finds

\* What has waited and is under the cursor is RUNNABLE, what is before it was seen.
LEMMA LastSeen ==
  ASSUME OneHart, Table, phase[H] \in {"choose", "take", "count"}, NEW s \in Slots,
         pid[s] \in waiting[H], s <= scan[H]
  PROVE  state[s] = "RUNNABLE" /\ (Seen(s) \/ s = scan[H])
<1>1. state[s] = "RUNNABLE"
  BY WaitsStill
<1>2. s < scan[H] \/ s = scan[H]
  BY Facts, Types
<1> QED BY <1>1, <1>2 DEF Seen

\* At the end of the first pass someone has been found, if somebody has waited.
LEMMA OldestIs ==
  ASSUME OneHart, Table, FcfsInv, waiting[H] # {}, OldestFound \/ minctime[H] = MaxTicks + 1,
         \A s \in Slots : pid[s] \in waiting[H] => minctime[H] <= ctime[s]
  PROVE  minpid[H] \in RunnablePids
<1>1. CASE OldestFound
  BY <1>1 DEF OldestFound, RunnablePids
<1>2. CASE minctime[H] = MaxTicks + 1
  <2>1. PICK n : n \in waiting[H]
    OBVIOUS
  <2>2. PICK s \in Slots : pid[s] = n
    BY <2>1, WaitsThere
  <2>3. minctime[H] <= ctime[s] /\ ctime[s] \in 0 .. MaxTicks
    BY <2>1, <2>2 DEF FcfsInv, FcfsType
  <2> QED BY <1>2, <2>3, Facts
<1> QED BY <1>1, <1>2

LEMMA FcfsChooseSkip ==
  ASSUME OneHart, Table, FcfsInv, FCFS!ChooseSkip(H)
  PROVE  FcfsKept
<1> USE Facts
<1>1. /\ phase[H] = "choose" /\ NextSlot(H, "match")
      /\ state[scan[H]] = "RUNNABLE" => ~(minctime[H] >= ctime[scan[H]])
      /\ UNCHANGED <<state, pid, nextpid, cur, minpid, waiting, ticks, ctime, minctime>>
  BY SameFcfs DEF FCFS!ChooseSkip, FCFS!Older, FCFS!tblVars
<1>2. Table'
  <2>1. minpid[H] \in 0 .. MaxPid /\ minpid[H] < nextpid /\ minpid' = [minpid EXCEPT ![H] = minpid[H]]
    BY <1>1, Types DEF Table
  <2> QED BY <1>1, <2>1, TableNextSlot
<1>3. PICK s \in Slots : s = scan[H]
  BY Types
<1>4. FcfsType' /\ minctime[H] \in 0 .. MaxTicks + 1 /\ \A t \in Slots : ctime[t] \in 0 .. MaxTicks
  BY <1>1 DEF FcfsInv, FcfsType
<1>5. ASSUME NEW t \in Slots, pid[t] \in waiting[H], t <= s PROVE minctime[H] <= ctime[t]
  <2>1. Seen(t) \/ (t = s /\ state[s] = "RUNNABLE")
    BY <1>1, <1>3, <1>5, LastSeen
  <2> QED BY <1>1, <1>3, <1>4, <2>1 DEF FcfsInv
<1>6. /\ s = NPROC => phase'[H] = "match" /\ scan'[H] = 1
      /\ s # NPROC => phase'[H] = "choose" /\ scan'[H] = s + 1
  BY <1>1, <1>3, NextSlotIs
<1>7. ASSUME NEW t \in Slots, Seen(t)' PROVE minctime'[H] <= ctime'[t]
  <2>1. pid[t] \in waiting[H] /\ t <= s
    BY <1>1, <1>6, <1>7 DEF Seen
  <2> QED BY <1>1, <1>5, <2>1
<1>8. OldestFound \/ (minctime[H] = MaxTicks + 1 /\ minpid[H] = 0)
  BY <1>1 DEF FcfsInv
<1>9. OldestFound' <=> OldestFound
  BY <1>1 DEF OldestFound, Runnable
<1>10. ASSUME NEW t \in Slots, Wanted(t)' PROVE ctime'[t] = minctime'[H]
  <2>1. pid[t] = minpid[H] /\ minpid[H] # 0
    BY <1>1, <1>10 DEF Wanted
  <2>2. PICK u \in Runnable : pid[u] = minpid[H] /\ ctime[u] = minctime[H]
    BY <1>8, <2>1 DEF OldestFound
  <2>3. u = t
    BY <2>1, <2>2 DEF Table, Runnable
  <2> QED BY <1>1, <2>2, <2>3
<1>11. phase'[H] # "take"
  BY <1>6
<1>12. FcfsInv'
  BY <1>1, <1>4, <1>7, <1>8, <1>9, <1>10, <1>11 DEF FcfsInv
<1>13. OlderRuns
  BY <1>1 DEF OlderRuns
<1>14. Finds
  <2>1. SUFFICES ASSUME phase'[H] = "match", waiting[H] # {} PROVE minpid[H] \in RunnablePids
    BY <1>1 DEF Finds
  <2>2. s = NPROC
    BY <1>6, <2>1
  <2>3. \A t \in Slots : pid[t] \in waiting[H] => minctime[H] <= ctime[t]
    BY <1>5, <2>2
  <2> QED BY <1>8, <2>1, <2>3, OldestIs
<1> QED BY <1>2, <1>12, <1>13, <1>14 DEF FcfsKept

LEMMA FcfsChooseOlder ==
  ASSUME OneHart, Table, FcfsInv, FCFS!ChooseOlder(H)
  PROVE  FcfsKept
<1> USE Facts
<1>1. /\ phase[H] = "choose" /\ state[scan[H]] = "RUNNABLE" /\ minctime[H] >= ctime[scan[H]]
      /\ minctime' = [minctime EXCEPT ![H] = ctime[scan[H]]]
      /\ phase' = [phase EXCEPT ![H] = "take"]
      /\ UNCHANGED <<state, pid, nextpid, scan, cur, minpid, waiting, ticks, ctime>>
  BY DEF FCFS!ChooseOlder, FCFS!Older, FCFS!tblVars
<1>2. PICK s \in Slots : s = scan[H]
  BY Types
<1>3. Table'
  <2>1. phase' \in [Harts -> Passes]
    <3>1. \A h \in Harts : phase'[h] = "take"
      BY <1>1, Types
    <3> QED BY <1>1, <3>1, Types DEF Passes, FirstPass
  <2>2. waiting' \in [Harts -> SUBSET RunnablePids]
    <3>1. \A h \in Harts : waiting[h] \subseteq RunnablePids
      BY DEF Table
    <3> QED BY <1>1, <3>1, Types
  <2>3. /\ scan' \in [Harts -> Slots] /\ minpid' \in [Harts -> 0 .. MaxPid]
        /\ minpid'[H] < nextpid /\ cur' \in [Harts -> Slots \cup {NoSlot}] /\ cur'[H] = NoSlot
    BY <1>1, Types DEF Table
  <2> QED BY <1>1, <2>1, <2>2, <2>3, TableMove
<1>4. phase'[H] = "take" /\ minctime'[H] = ctime[s]
  BY <1>1, <1>2, Types DEF FcfsInv, FcfsType
<1>5. minctime[H] \in 0 .. MaxTicks + 1 /\ \A t \in Slots : ctime[t] \in 0 .. MaxTicks
  BY DEF FcfsInv, FcfsType
<1>6. FcfsType'
  <2>1. ctime[s] \in 0 .. MaxTicks + 1
    BY <1>5
  <2> QED BY <1>1, <1>2, <2>1 DEF FcfsInv, FcfsType
<1>7. ASSUME NEW t \in Slots, Seen(t)' PROVE minctime'[H] <= ctime'[t]
  <2>1. Seen(t)
    BY <1>1, <1>4, <1>7 DEF Seen
  <2>2. minctime[H] <= ctime[t]
    BY <2>1 DEF FcfsInv
  <2> QED BY <1>1, <1>2, <1>4, <1>5, <2>2
<1>8. FcfsInv'
  BY <1>1, <1>2, <1>4, <1>6, <1>7 DEF FcfsInv, Wanted
<1> QED BY <1>1, <1>3, <1>4, <1>8 DEF FcfsKept, OlderRuns, Finds

LEMMA FcfsTakePid ==
  ASSUME OneHart, Table, FcfsInv, FCFS!TakePid(H)
  PROVE  FcfsKept
<1> USE Facts
<1>1. /\ phase[H] = "take" /\ NextSlot(H, "match")
      /\ minpid' = [minpid EXCEPT ![H] = pid[scan[H]]]
      /\ UNCHANGED <<state, pid, nextpid, cur, waiting, ticks, ctime, minctime>>
  BY SameFcfs DEF FCFS!TakePid, FCFS!tblVars
<1>2. PICK s \in Slots : s = scan[H]
  BY Types
<1>3. pid[s] \in 0 .. MaxPid /\ pid[s] < nextpid
  BY Types DEF Table
<1>4. Table'
  BY <1>1, <1>2, <1>3, TableNextSlot
<1>5. FcfsType' /\ minpid'[H] = pid[s]
  BY <1>1, <1>2, Types DEF FcfsInv, FcfsType
<1>6. state[s] = "RUNNABLE" /\ ctime[s] = minctime[H] /\ ctime[s] \in 0 .. MaxTicks
  BY <1>1, <1>2 DEF FcfsInv, FcfsType
<1>7. /\ s = NPROC => phase'[H] = "match" /\ scan'[H] = 1
      /\ s # NPROC => phase'[H] = "choose" /\ scan'[H] = s + 1
  BY <1>1, <1>2, NextSlotIs
<1>8. ASSUME NEW t \in Slots, Seen(t)' PROVE minctime'[H] <= ctime'[t]
  <2>1. pid[t] \in waiting[H] /\ t <= s
    BY <1>1, <1>7, <1>8 DEF Seen
  <2>2. Seen(t) \/ t = s
    BY <1>1, <1>2, <2>1, LastSeen
  <2> QED BY <1>1, <1>6, <2>2 DEF FcfsInv
<1>9. s \in Runnable' /\ pid'[s] = minpid'[H] /\ ctime'[s] = minctime'[H]
  BY <1>1, <1>5, <1>6 DEF Runnable
<1>10. ASSUME NEW t \in Slots, Wanted(t)' PROVE ctime'[t] = minctime'[H]
  <2>1. pid'[t] = pid'[s] /\ pid'[t] # 0
    BY <1>9, <1>10 DEF Wanted
  <2>2. t = s
    BY <1>4, <2>1 DEF Table
  <2> QED BY <1>9, <2>2
<1>11. OldestFound'
  BY <1>9 DEF OldestFound
<1>12. FcfsInv'
  BY <1>5, <1>7, <1>8, <1>10, <1>11 DEF FcfsInv
<1>13. minpid'[H] \in RunnablePids
  BY <1>5, <1>6 DEF RunnablePids, Runnable
<1> QED BY <1>1, <1>4, <1>12, <1>13 DEF FcfsKept, OlderRuns, Finds

\* Where the hart goes on after a process, or begins a round.
LEMMA FcfsRound ==
  ASSUME OneHart, Table, Table', FcfsInv, phase[H] \in {"match", "run"}, Fresh \/ Onward,
         FCFS!ResetMin(H), UNCHANGED <<ticks, ctime>>,
         \A s \in Slots : Seen(s)' => Onward /\ Seen(s),
         \A s \in Slots : Wanted(s)' => Onward /\ Wanted(s)
  PROVE  FcfsKept
<1> USE Facts
<1>1. minctime' = [minctime EXCEPT ![H] = IF phase'[H] = "choose" THEN MaxTicks + 1 ELSE @]
  BY DEF FCFS!ResetMin, FCFS!Latest
<1>2. /\ phase'[H] = "choose" => minctime'[H] = MaxTicks + 1
      /\ phase'[H] # "choose" => minctime'[H] = minctime[H]
  BY <1>1 DEF FcfsInv, FcfsType
<1>3. FcfsType'
  BY <1>1 DEF FcfsInv, FcfsType
<1>4. Onward => minctime'[H] = minctime[H] /\ minpid'[H] = minpid[H] /\ phase'[H] = "match"
  BY <1>2 DEF Onward
<1>5. \A s \in Slots : Seen(s)' => minctime'[H] <= ctime'[s]
  BY <1>4 DEF FcfsInv
<1>6. \A s \in Slots : Wanted(s)' => ctime'[s] = minctime'[H]
  BY <1>4 DEF FcfsInv
<1>7. phase'[H] = "choose" => minctime'[H] = MaxTicks + 1 /\ minpid'[H] = 0
  BY <1>2, <1>4 DEF Fresh
<1>8. phase'[H] \in {"choose", "match"}
  BY DEF Fresh, Onward
<1>9. FcfsInv'
  BY <1>3, <1>5, <1>6, <1>7, <1>8 DEF FcfsInv
<1> QED BY <1>8, <1>9 DEF FcfsKept, OlderRuns, Finds

\* In the second pass the cursor only leaves slots behind.
LEMMA SkipLeaves ==
  ASSUME OneHart, Table, MatchSkip(H)
  PROVE  /\ \A s \in Slots : Seen(s)' => Onward /\ Seen(s)
         /\ \A s \in Slots : Wanted(s)' => Onward /\ Wanted(s)
<1> USE Facts
<1>1. phase[H] = "match" /\ UNCHANGED pid /\ (Fresh \/ Onward)
  BY TableSkip
<1>2. CASE Fresh
  BY <1>2 DEF Fresh, Seen, Wanted
<1>3. CASE Onward
  <2>1. phase'[H] = "match" /\ scan'[H] = scan[H] + 1 /\ UNCHANGED <<minpid, waiting>>
    BY <1>3 DEF Onward
  <2>2. scan[H] \in 1 .. NPROC
    BY Types
  <2>3. \A s \in Slots : Seen(s)' => Seen(s)
    BY <1>1, <2>1 DEF Seen
  <2>4. \A s \in Slots : Wanted(s)' => Wanted(s)
    BY <1>1, <2>1, <2>2 DEF Wanted
  <2> QED BY <1>3, <2>3, <2>4
<1> QED BY <1>1, <1>2, <1>3

LEMMA FcfsSecondPass ==
  ASSUME OneHart, Table, FcfsInv, FCFS!SecondPass(H)
  PROVE  FcfsKept
<1> USE Facts
<1>1. /\ FCFS!ResetMin(H) /\ UNCHANGED <<ticks, ctime>>
      /\ MatchSkip(H) \/ Dispatch(H) \/ Sleep(H) \/ Exit(H)
  BY SameFcfs DEF FCFS!SecondPass
<1>2. CASE MatchSkip(H)
  BY <1>1, <1>2, TableSkip, SkipLeaves, FcfsRound
<1>3. CASE Sleep(H) \/ Exit(H)
  BY <1>1, <1>3, TableSleep, TableExit, FcfsRound
<1>4. CASE Dispatch(H)
  <2>1. /\ Table' /\ phase[H] = "match" /\ Wanted(scan[H]) /\ scan[H] \in Slots
        /\ phase'[H] = "run" /\ cur'[H] = scan[H]
        /\ waiting'[H] = waiting[H] \ {pid[scan[H]]} /\ UNCHANGED <<pid, scan>>
    BY <1>4, TableDispatch
  <2>2. minctime'[H] = minctime[H] /\ FcfsType'
    BY <1>1, <2>1 DEF FCFS!ResetMin, FcfsInv, FcfsType
  <2>3. \A s \in Slots : Seen(s)' => Seen(s)
    BY <2>1 DEF Seen
  <2>4. FcfsInv'
    BY <1>1, <2>1, <2>2, <2>3 DEF FcfsInv, Wanted
  <2>5. \A s \in Slots : pid[s] \in waiting[H] => Seen(s)
    BY <2>1 DEF Seen
  <2>6. ctime[scan[H]] = minctime[H] /\ \A s \in Slots : pid[s] \in waiting[H] => minctime[H] <= ctime[s]
    BY <2>1, <2>5 DEF FcfsInv
  <2>7. OlderRuns
    BY <2>1, <2>6 DEF OlderRuns
  <2> QED BY <2>1, <2>4, <2>7 DEF FcfsKept, Finds
<1> QED BY <1>1, <1>2, <1>3, <1>4

LEMMA FcfsForkChild ==
  ASSUME OneHart, Table, FcfsInv, NEW s \in Slots, FCFS!ForkChild(H, s)
  PROVE  FcfsKept
<1> USE Facts
<1>1. /\ Fork(H, s) /\ ctime' = [ctime EXCEPT ![s] = ticks] /\ UNCHANGED <<ticks, minctime>>
  BY SameFcfs DEF FCFS!ForkChild
<1>2. /\ Table' /\ UNCHANGED <<phase, scan, cur, minpid, waiting>> /\ phase[H] = "run"
      /\ \A t \in Slots : ~Wanted(t)'
      /\ \A t \in Slots : pid'[t] \in waiting'[H] => t # s /\ Seen(t)
  BY <1>1, TableFork DEF hartVars
<1>3. FcfsType' /\ \A t \in Slots : t # s => ctime'[t] = ctime[t]
  BY <1>1 DEF FcfsInv, FcfsType
<1>4. ASSUME NEW t \in Slots, Seen(t)' PROVE minctime'[H] <= ctime'[t]
  <2>1. t # s /\ Seen(t)
    BY <1>2, <1>4 DEF Seen
  <2> QED BY <1>1, <1>3, <2>1 DEF FcfsInv
<1>5. FcfsInv'
  BY <1>2, <1>3, <1>4 DEF FcfsInv
<1> QED BY <1>2, <1>5 DEF FcfsKept, OlderRuns, Finds

LEMMA FcfsWakeUp ==
  ASSUME OneHart, Table, FcfsInv, NEW s \in Slots, FCFS!WakeUp(s)
  PROVE  FcfsKept
<1> USE Facts
<1>1. Wake(s) /\ UNCHANGED <<ticks, ctime, minctime>>
  BY SameFcfs DEF FCFS!WakeUp
<1>2. /\ Table' /\ UNCHANGED <<pid, phase, scan, cur, minpid, waiting>>
      /\ Runnable \subseteq Runnable'
      /\ \A t \in Slots : (Seen(t)' <=> Seen(t)) /\ (Wanted(t)' <=> Wanted(t))
      /\ \A t \in Slots : state[t] = "RUNNABLE" => state'[t] = "RUNNABLE"
  BY <1>1, TableWake DEF hartVars
<1>3. OldestFound => OldestFound'
  BY <1>1, <1>2 DEF OldestFound
<1>4. phase[H] = "take" => state'[scan[H]] = "RUNNABLE"
  BY <1>2, Types DEF FcfsInv
<1>5. FcfsInv'
  BY <1>1, <1>2, <1>3, <1>4 DEF FcfsInv, FcfsType
<1> QED BY <1>2, <1>5 DEF FcfsKept, OlderRuns, Finds

LEMMA FcfsTick ==
  ASSUME OneHart, Table, FcfsInv, UNCHANGED <<tblVars, hartVars, ctime, minctime>>,
         ticks' \in 0 .. MaxTicks
  PROVE  FcfsKept
<1>1. UNCHANGED <<state, pid, nextpid, phase, scan, cur, minpid, waiting>>
  BY DEF tblVars, hartVars
<1>2. Table'
  BY <1>1 DEF Table, DispatchType, RunnablePids, Runnable
<1>3. FcfsInv'
  BY <1>1 DEF FcfsInv, FcfsType, Seen, Wanted, OldestFound, Runnable
<1> QED BY <1>1, <1>2, <1>3 DEF FcfsKept, OlderRuns, Finds

LEMMA FcfsNext ==
  ASSUME OneHart, Table, FcfsInv, FCFS!Next
  PROVE  FcfsKept
<1>1. ASSUME NEW h \in Harts,
             FCFS!ChooseSkip(h) \/ FCFS!ChooseOlder(h) \/ FCFS!TakePid(h) \/ FCFS!SecondPass(h)
      PROVE  FcfsKept
  <2>1. h = H
    BY Facts
  <2> QED BY <1>1, <2>1, FcfsChooseSkip, FcfsChooseOlder, FcfsTakePid, FcfsSecondPass
<1>2. ASSUME NEW h \in Harts, NEW s \in FCFS!Slots, FCFS!ForkChild(h, s) PROVE FcfsKept
  <2>1. h = H /\ s \in Slots
    BY Facts DEF FCFS!Slots
  <2> QED BY <1>2, <2>1, FcfsForkChild
<1>3. ASSUME NEW s \in FCFS!Slots, FCFS!WakeUp(s) PROVE FcfsKept
  <2>1. s \in Slots
    BY Facts DEF FCFS!Slots
  <2> QED BY <1>3, <2>1, FcfsWakeUp
<1>4. CASE FCFS!Tick
  <2>1. /\ ticks < MaxTicks /\ ticks' = ticks + 1
        /\ UNCHANGED <<tblVars, hartVars, ctime, minctime>>
    BY <1>4 DEF FCFS!Tick, FCFS!tblVars, FCFS!hartVars, tblVars, hartVars
  <2>2. ticks' \in 0 .. MaxTicks
    BY <2>1, Facts DEF FcfsInv, FcfsType
  <2> QED BY <2>1, <2>2, FcfsTick
<1> QED BY <1>1, <1>2, <1>3, <1>4 DEF FCFS!Next


----------------------------------------------------------------------------
(* PBS *)

LEMMA SamePbs ==
  ASSUME NEW h, NEW s, NEW next
  PROVE  /\ PBS!DispatchInit <=> DispatchInit
         /\ PBS!NextSlot(h, next) <=> NextSlot(h, next)
         /\ PBS!BeginRound(h) <=> BeginRound(h)
         /\ PBS!MatchSkip(h) <=> MatchSkip(h)
         /\ PBS!Dispatch(h) <=> Dispatch(h)
         /\ PBS!Sleep(h) <=> Sleep(h)
         /\ PBS!Exit(h) <=> Exit(h)
         /\ PBS!Fork(h, s) <=> Fork(h, s)
         /\ PBS!Wake(s) <=> Wake(s)
<1>1. PBS!DispatchInit <=> DispatchInit
  BY DEF PBS!DispatchInit, DispatchInit, PBS!Slots, Slots, PBS!NoSlot, NoSlot
<1>2. PBS!NextSlot(h, next) <=> NextSlot(h, next)
  BY DEF PBS!NextSlot, NextSlot
<1>3. PBS!MatchSkip(h) <=> MatchSkip(h)
  BY DEF PBS!MatchSkip, PBS!Chosen, PBS!Advance, PBS!BeginRound, PBS!Runnable, PBS!Slots,
         PBS!tblVars, MatchSkip, Chosen, Advance, BeginRound, Runnable, Slots, tblVars
<1>4. PBS!Dispatch(h) <=> Dispatch(h)
  BY DEF PBS!Dispatch, PBS!Chosen, Dispatch, Chosen
<1>5. ASSUME NEW st PROVE PBS!GiveBack(h, st) <=> GiveBack(h, st)
  BY DEF PBS!GiveBack, PBS!Runnable, PBS!Slots, PBS!NoSlot, GiveBack, Runnable, Slots, NoSlot
<1>6. PBS!Sleep(h) <=> Sleep(h)
  BY <1>5 DEF PBS!Sleep, Sleep
<1>7. PBS!Exit(h) <=> Exit(h)
  BY <1>5 DEF PBS!Exit, Exit
<1>8. PBS!Fork(h, s) <=> Fork(h, s)
  BY DEF PBS!Fork, PBS!hartVars, Fork, hartVars
<1>9. PBS!Wake(s) <=> Wake(s)
  BY DEF PBS!Wake, PBS!hartVars, Wake, hartVars
<1>10. PBS!BeginRound(h) <=> BeginRound(h)
  BY DEF PBS!BeginRound, PBS!Runnable, PBS!Slots, BeginRound, Runnable, Slots
<1> QED BY <1>1, <1>2, <1>3, <1>4, <1>6, <1>7, <1>8, <1>9, <1>10

\* The share of sleep is at most ten tenths.
LEMMA ShareOfSleep ==
  ASSUME NEW t \in Nat, NEW l \in Nat, t + l > 0
  PROVE  (t * 10) \div (t + l) \in 0 .. 10
<1>1. PICK n \in Nat \ {0} : n = t + l
  OBVIOUS
<1>2. PICK k \in Nat : k = t * 10 /\ k <= n * 10
  BY <1>1
<1>3. k \div n \in Nat /\ k % n \in 0 .. n - 1 /\ k = (n * (k \div n)) + (k % n)
  BY DivMod
<1>4. PICK d \in Nat : d = k \div n
  BY <1>3
<1>5. n * d <= n * 10
  BY <1>2, <1>3, <1>4
<1>6. d <= 10
  <2>1. SUFFICES ASSUME d >= 11 PROVE FALSE
    BY <1>4
  <2>2. n * d >= n * 11
    BY <2>1
  <2> QED BY <1>5, <2>2
<1> QED BY <1>1, <1>2, <1>4, <1>6

LEMMA NiceIs ==
  ASSUME OneHart, PbsType, NEW s \in Slots
  PROVE  PBS!Nice(s) \in 0 .. 10
<1>1. /\ ticks \in Nat /\ total_s_time[s] \in 0 .. ticks /\ lrtime[s] \in 0 .. ticks
      /\ niceness[s] \in 0 .. 10
  BY DEF PbsType
<1>2. PICK t \in Nat, l \in Nat : t = total_s_time[s] /\ l = lrtime[s]
  BY <1>1
<1>3. t + l > 0 => (t * 10) \div (t + l) \in 0 .. 10
  BY ShareOfSleep
<1> QED BY <1>1, <1>2, <1>3 DEF PBS!Nice

\* DP is a uint; it is at most 100 unless the sum is negative.
LEMMA DynamicPriorityIs ==
  ASSUME OneHart, PbsType, NEW s \in Slots
  PROVE  /\ PBS!DynamicPriority(s) \in Nat
         /\ 5 <= SP[s] => PBS!DynamicPriority(s) <= 100
<1>1. SP[s] \in 0 .. 100
  BY DEF PbsType
<1>2. PICK x \in -5 .. 105 : x = SP[s] - PBS!Nice(s) + 5 /\ (5 <= SP[s] => 0 <= x)
  BY <1>1, NiceIs
<1>3. \A n \in -5 .. 105 : n % 4096 = IF 0 <= n THEN n ELSE n + 4096
  OBVIOUS
<1>4. PBS!ToInt(PBS!ToUint(x)) = x
  BY <1>3 DEF PBS!ToInt, PBS!ToUint, PBS!Word
<1>5. PICK y \in -5 .. 100 : y = IF x > 100 THEN 100 ELSE x
  OBVIOUS
<1>6. PBS!DynamicPriority(s) = PBS!ToUint(y)
  BY <1>2, <1>4, <1>5 DEF PBS!DynamicPriority
<1>7. PBS!ToUint(y) = IF 0 <= y THEN y ELSE y + 4096
  BY <1>3 DEF PBS!ToUint, PBS!Word
<1> QED BY <1>2, <1>5, <1>6, <1>7

\* The promises, as far as PBS can break them.
LeastRuns ==
  phase[H] = "match" /\ phase'[H] = "run" =>
    \A s \in Slots : pid[s] \in waiting[H] =>
      \/ DP[cur'[H]] < DP[s]
      \/ DP[cur'[H]] = DP[s] /\ num_sched[cur'[H]] <= num_sched[s]

PbsKept ==
  /\ Table' /\ PbsInv' /\ LeastRuns
  /\ HighPriorities /\ CappedInv => CappedInv' /\ Finds

\* The first pass has looked at slot scan[H], whose DP alone may have changed.
LEMMA PbsPassOn ==
  ASSUME OneHart, Table, PbsInv, Table', PbsType', phase[H] = "choose", NextSlot(H, "match"),
         UNCHANGED <<state, pid, waiting, num_sched, SP>>, NEW s \in Slots, s = scan[H],
         \A t \in Slots : t # s => DP'[t] = DP[t],
         HighPriorities /\ CappedInv /\ state[s] = "RUNNABLE" => DP'[s] <= 100,
         NEW less \in BOOLEAN,
         less <=> state[s] = "RUNNABLE" /\ PBS!Less(H, s),
         less => minDP'[H] = DP'[s] /\ minruns'[H] = num_sched[s] /\ minpid'[H] = pid[s],
         ~less => UNCHANGED <<minDP, minruns, minpid>>
  PROVE  PbsKept
<1> USE Facts
<1>1. /\ s = NPROC => phase'[H] = "match" /\ scan'[H] = 1
      /\ s # NPROC => phase'[H] = "choose" /\ scan'[H] = s + 1
  BY NextSlotIs
<1>2. /\ \A t \in Slots : DP[t] \in Nat /\ DP'[t] \in Nat /\ num_sched[t] \in 0 .. MaxRuns
      /\ minDP[H] \in Nat /\ minDP'[H] \in Nat
      /\ minruns[H] \in 0 .. MaxRuns + 1 /\ minruns'[H] \in 0 .. MaxRuns + 1
  BY DEF PbsInv, PbsType
<1>3. ASSUME NEW t \in Slots, pid[t] \in waiting[H], t <= s PROVE AfterLeast(t)'
  <2>1. (Seen(t) /\ t # s) \/ (t = s /\ state[s] = "RUNNABLE")
    <3>1. Seen(t) => t # s
      BY DEF Seen
    <3> QED BY <1>3, <3>1, LastSeen
  <2>2. CASE Seen(t) /\ t # s
    <3>1. AfterLeast(t) /\ DP'[t] = DP[t]
      BY <2>2 DEF PbsInv
    <3>2. CASE less
      BY <1>2, <3>1, <3>2 DEF AfterLeast, PBS!Less
    <3>3. CASE ~less
      BY <1>2, <3>1, <3>3 DEF AfterLeast
    <3> QED BY <3>2, <3>3
  <2>3. CASE t = s /\ state[s] = "RUNNABLE"
    <3>1. CASE less
      BY <1>2, <2>3, <3>1 DEF AfterLeast
    <3>2. CASE ~less
      BY <1>2, <2>3, <3>2 DEF AfterLeast, PBS!Less
    <3> QED BY <3>1, <3>2
  <2> QED BY <2>1, <2>2, <2>3
<1>4. \/ \E t \in Runnable : /\ t <= s /\ pid[t] = minpid'[H] /\ DP'[t] = minDP'[H]
                             /\ num_sched[t] = minruns'[H]
      \/ minDP'[H] = 100 /\ minruns'[H] = MaxRuns + 1 /\ minpid'[H] = 0
  <2>1. CASE less
    <3>1. s \in Runnable /\ s <= s
      BY <2>1 DEF Runnable
    <3> QED BY <2>1, <3>1
  <2>2. CASE ~less /\ LeastFound
    <3>1. PICK t \in Runnable : t < s /\ pid[t] = minpid[H] /\ DP[t] = minDP[H]
                                /\ num_sched[t] = minruns[H]
      BY <2>2 DEF LeastFound
    <3>2. DP'[t] = DP[t] /\ t <= s
      BY <3>1 DEF Runnable
    <3> QED BY <2>2, <3>1, <3>2
  <2>3. CASE ~less /\ ~LeastFound
    BY <2>3 DEF PbsInv
  <2> QED BY <2>1, <2>2, <2>3
<1>5. ASSUME NEW t \in Slots, Seen(t)' PROVE pid[t] \in waiting[H] /\ t <= s
  BY <1>1, <1>5 DEF Seen
<1>6. ASSUME NEW t \in Slots, Wanted(t)' PROVE DP'[t] = minDP'[H] /\ num_sched'[t] = minruns'[H]
  <2>1. pid[t] = minpid'[H] /\ minpid'[H] # 0
    BY <1>6 DEF Wanted
  <2>2. PICK u \in Runnable : pid[u] = minpid'[H] /\ DP'[u] = minDP'[H] /\ num_sched[u] = minruns'[H]
    BY <1>4, <2>1
  <2>3. u = t
    BY <2>1, <2>2 DEF Table, Runnable
  <2> QED BY <2>2, <2>3
<1>7. phase'[H] = "choose" =>
        LeastFound' \/ (minDP'[H] = 100 /\ minruns'[H] = MaxRuns + 1 /\ minpid'[H] = 0)
  <2>1. SUFFICES ASSUME phase'[H] = "choose"
                 PROVE  LeastFound' \/ (minDP'[H] = 100 /\ minruns'[H] = MaxRuns + 1 /\ minpid'[H] = 0)
    OBVIOUS
  <2>2. scan'[H] = s + 1 /\ Runnable' = Runnable
    BY <1>1, <2>1 DEF Runnable
  <2>3. \A t \in Runnable : t <= s => t < scan'[H]
    BY <2>2 DEF Runnable
  <2> QED BY <1>4, <2>2, <2>3 DEF LeastFound
<1>8. PbsInv'
  BY <1>1, <1>3, <1>5, <1>6, <1>7 DEF PbsInv
<1>9. ASSUME HighPriorities, CappedInv PROVE CappedInv' /\ Finds
  <2>1. ASSUME NEW t \in Slots, pid[t] \in waiting[H], t <= s PROVE DP'[t] <= 100
    <3>1. (Seen(t) /\ t # s) \/ (t = s /\ state[s] = "RUNNABLE")
      <4>1. Seen(t) => t # s
        BY DEF Seen
      <4> QED BY <2>1, <4>1, LastSeen
    <3> QED BY <1>9, <3>1 DEF CappedInv
  <2>2. CappedInv'
    BY <1>5, <1>9, <2>1 DEF CappedInv
  <2>3. ASSUME phase'[H] = "match", waiting[H] # {} PROVE minpid'[H] \in RunnablePids
    <3>1. s = NPROC
      BY <1>1, <2>3
    <3>2. PICK t \in Slots : pid[t] \in waiting[H]
      BY <2>3, WaitsThere
    <3>3. AfterLeast(t)' /\ DP'[t] <= 100
      BY <1>3, <2>1, <3>1, <3>2
    <3>4. ~(minDP'[H] = 100 /\ minruns'[H] = MaxRuns + 1)
      BY <1>2, <3>3 DEF AfterLeast
    <3> QED BY <1>4, <3>4 DEF RunnablePids
  <2> QED BY <2>2, <2>3 DEF Finds
<1>10. LeastRuns
  BY DEF LeastRuns
<1> QED BY <1>8, <1>9, <1>10 DEF PbsKept

LEMMA PbsChoose ==
  ASSUME OneHart, Table, PbsInv, PBS!Choose(H)
  PROVE  PbsKept
<1> USE Facts
<1>1. PICK s \in Slots : s = scan[H]
  BY Types
<1>2. /\ phase[H] = "choose" /\ state[s] = "RUNNABLE" /\ NextSlot(H, "match")
      /\ niceness' = [niceness EXCEPT ![s] = PBS!Nice(s)]
      /\ DP' = [DP EXCEPT ![s] = PBS!DynamicPriority(s)]
      /\ UNCHANGED <<state, pid, nextpid, cur, waiting, ticks, SP, lrtime, stime, total_s_time,
                     num_sched>>
  BY <1>1, SamePbs DEF PBS!Choose, PBS!tblVars
<1>3. IF PBS!Less(H, s)
      THEN /\ minDP' = [minDP EXCEPT ![H] = DP'[s]]
           /\ minruns' = [minruns EXCEPT ![H] = num_sched[s]]
           /\ minpid' = [minpid EXCEPT ![H] = pid[s]]
      ELSE UNCHANGED <<minDP, minruns, minpid>>
  BY <1>1 DEF PBS!Choose
<1>4. /\ DP'[s] = PBS!DynamicPriority(s) /\ DP'[s] \in Nat
      /\ \A t \in Slots : t # s => DP'[t] = DP[t]
  BY <1>2, DynamicPriorityIs DEF PbsInv, PbsType
<1>5. PbsType'
  <2>1. niceness' \in [Slots -> 0 .. 10] /\ DP' \in [Slots -> Nat]
    BY <1>2, <1>4, NiceIs DEF PbsInv, PbsType
  <2>2. minDP' \in [Harts -> Nat] /\ minruns' \in [Harts -> 0 .. MaxRuns + 1]
    <3>1. num_sched[s] \in 0 .. MaxRuns + 1
      BY DEF PbsInv, PbsType
    <3> QED BY <1>3, <1>4, <3>1 DEF PbsInv, PbsType
  <2> QED BY <1>2, <2>1, <2>2 DEF PbsInv, PbsType
<1>6. Table'
  <2>1. PICK n \in 0 .. MaxPid : n < nextpid /\ minpid' = [minpid EXCEPT ![H] = n]
    <3>1. CASE PBS!Less(H, s)
      BY <1>3, <3>1, Types DEF Table
    <3>2. CASE ~PBS!Less(H, s)
      <4>1. minpid' = [minpid EXCEPT ![H] = minpid[H]]
        BY <1>3, <3>2, Types
      <4> QED BY <4>1, Types DEF Table
    <3> QED BY <3>1, <3>2
  <2> QED BY <1>2, <2>1, TableNextSlot
<1>7. HighPriorities /\ CappedInv => DP'[s] <= 100
  BY <1>2, <1>4, DynamicPriorityIs DEF CappedInv, PbsInv
<1>8. PBS!Less(H, s) => minDP'[H] = DP'[s] /\ minruns'[H] = num_sched[s] /\ minpid'[H] = pid[s]
  BY <1>3, Types DEF PbsInv, PbsType
<1>9. PICK less \in BOOLEAN : less <=> PBS!Less(H, s)
  OBVIOUS
<1>10. ~less => UNCHANGED <<minDP, minruns, minpid>>
  BY <1>3, <1>9
<1> QED BY <1>1, <1>2, <1>4, <1>5, <1>6, <1>7, <1>8, <1>9, <1>10, PbsPassOn

LEMMA PbsChooseSkip ==
  ASSUME OneHart, Table, PbsInv, PBS!ChooseSkip(H)
  PROVE  PbsKept
<1> USE Facts
<1>1. PICK s \in Slots : s = scan[H]
  BY Types
<1>2. /\ phase[H] = "choose" /\ state[s] # "RUNNABLE" /\ NextSlot(H, "match")
      /\ UNCHANGED <<state, pid, nextpid, cur, minpid, waiting, ticks, SP, niceness, DP, lrtime,
                     stime, total_s_time, num_sched, minDP, minruns>>
  BY <1>1, SamePbs DEF PBS!ChooseSkip, PBS!tblVars, PBS!slotVars
<1>3. Table'
  <2>1. minpid[H] \in 0 .. MaxPid /\ minpid[H] < nextpid /\ minpid' = [minpid EXCEPT ![H] = minpid[H]]
    BY <1>2, Types DEF Table
  <2> QED BY <1>2, <2>1, TableNextSlot
<1>4. PbsType'
  BY <1>2 DEF PbsInv, PbsType
<1> QED BY <1>1, <1>2, <1>3, <1>4, PbsPassOn

\* Where the hart goes on, or begins a round.
LEMMA PbsRound ==
  ASSUME OneHart, Table, Table', PbsInv, PbsType', phase[H] \in {"match", "run"}, Fresh \/ Onward,
         PBS!ResetMin(H), UNCHANGED <<DP, num_sched>>,
         \A s \in Slots : Seen(s)' => Onward /\ Seen(s),
         \A s \in Slots : Wanted(s)' => Onward /\ Wanted(s),
         HighPriorities /\ CappedInv => \A s \in Slots : state'[s] # "UNUSED" => 5 <= SP'[s]
  PROVE  PbsKept
<1> USE Facts
<1>1. /\ minDP' = [minDP EXCEPT ![H] = IF phase'[H] = "choose" THEN 100 ELSE @]
      /\ minruns' = [minruns EXCEPT ![H] = IF phase'[H] = "choose" THEN MaxRuns + 1 ELSE @]
  BY DEF PBS!ResetMin, PBS!Never
<1>2. /\ phase'[H] = "choose" => minDP'[H] = 100 /\ minruns'[H] = MaxRuns + 1
      /\ phase'[H] # "choose" => minDP'[H] = minDP[H] /\ minruns'[H] = minruns[H]
  BY <1>1 DEF PbsInv, PbsType
<1>3. Onward => minDP'[H] = minDP[H] /\ minruns'[H] = minruns[H] /\ phase'[H] = "match"
  BY <1>2 DEF Onward
<1>4. \A s \in Slots : Seen(s)' => AfterLeast(s)'
  BY <1>3 DEF PbsInv, AfterLeast
<1>5. \A s \in Slots : Wanted(s)' => DP'[s] = minDP'[H] /\ num_sched'[s] = minruns'[H]
  BY <1>3 DEF PbsInv
<1>6. phase'[H] \in {"choose", "match"}
  BY DEF Fresh, Onward
<1>7. phase'[H] = "choose" =>
        minDP'[H] = 100 /\ minruns'[H] = MaxRuns + 1 /\ minpid'[H] = 0
        /\ \A s \in Slots : ~Seen(s)'
  BY <1>2, <1>3 DEF Fresh
<1>8. PbsInv'
  BY <1>4, <1>5, <1>6, <1>7 DEF PbsInv
<1>9. HighPriorities /\ CappedInv => CappedInv'
  BY <1>7 DEF CappedInv
<1>10. LeastRuns /\ Finds
  BY <1>6 DEF LeastRuns, Finds
<1> QED BY <1>8, <1>9, <1>10 DEF PbsKept

LEMMA PbsSkip ==
  ASSUME OneHart, Table, PbsInv, PBS!Skip(H)
  PROVE  PbsKept
<1>1. /\ MatchSkip(H) /\ PBS!ResetMin(H)
      /\ UNCHANGED <<ticks, SP, niceness, DP, lrtime, stime, total_s_time, num_sched>>
  BY SamePbs, Facts DEF PBS!Skip, PBS!slotVars
<1>2. /\ Table' /\ (Fresh \/ Onward) /\ phase[H] = "match" /\ UNCHANGED state
  BY <1>1, TableSkip
<1>3. PbsType'
  BY <1>1, Facts DEF PbsInv, PbsType, PBS!ResetMin, PBS!Never
<1>4. HighPriorities /\ CappedInv => \A s \in Slots : state'[s] # "UNUSED" => 5 <= SP'[s]
  BY <1>1, <1>2 DEF CappedInv
<1> QED BY <1>1, <1>2, <1>3, <1>4, SkipLeaves, PbsRound

LEMMA PbsStop ==
  ASSUME OneHart, Table, PbsInv, Sleep(H) \/ Exit(H), PBS!Stop(H), PBS!ResetMin(H),
         stime' = stime \/ stime' = [stime EXCEPT ![cur[H]] = ticks],
         UNCHANGED <<ticks, SP, niceness, DP, total_s_time, num_sched>>
  PROVE  PbsKept
<1>1. /\ Table' /\ phase[H] = "run" /\ cur[H] \in Slots /\ (Fresh \/ Onward)
      /\ \A s \in Slots : ~Wanted(s)'
      /\ \A s \in Slots : Seen(s)' => Onward /\ Seen(s)
      /\ \A s \in Slots : state'[s] # "UNUSED" => state[s] # "UNUSED"
  BY TableSleep, TableExit
<1>2. PICK s \in Slots : s = cur[H]
  BY <1>1
<1>3. lrtime' = [lrtime EXCEPT ![s] = ticks - lrtime[s]] /\ ticks - lrtime[s] \in 0 .. ticks
  BY <1>2 DEF PBS!Stop, PbsInv, PbsType
<1>4. lrtime' \in [Slots -> 0 .. ticks] /\ stime' \in [Slots -> 0 .. ticks]
  <2>1. ticks \in 0 .. ticks
    BY Facts DEF PbsInv, PbsType
  <2> QED BY <1>2, <1>3, <2>1 DEF PbsInv, PbsType
<1>5. minDP' \in [Harts -> Nat] /\ minruns' \in [Harts -> 0 .. MaxRuns + 1]
  BY Facts DEF PbsInv, PbsType, PBS!ResetMin, PBS!Never
<1>6. PbsType'
  BY <1>4, <1>5 DEF PbsInv, PbsType
<1>7. HighPriorities /\ CappedInv => \A t \in Slots : state'[t] # "UNUSED" => 5 <= SP'[t]
  BY <1>1 DEF CappedInv
<1> QED BY <1>1, <1>6, <1>7, PbsRound

LEMMA PbsRun ==
  ASSUME OneHart, Table, PbsInv, PBS!Run(H)
  PROVE  PbsKept
<1> USE Facts
<1>1. PICK s \in Slots : s = scan[H]
  BY Types
<1>2. /\ Dispatch(H) /\ lrtime' = [lrtime EXCEPT ![s] = ticks]
      /\ num_sched' = [num_sched EXCEPT ![s] = IF @ < MaxRuns THEN @ + 1 ELSE @]
      /\ UNCHANGED <<ticks, SP, niceness, DP, stime, total_s_time, minDP, minruns>>
  BY <1>1, SamePbs DEF PBS!Run
<1>3. /\ Table' /\ phase[H] = "match" /\ Wanted(s) /\ phase'[H] = "run" /\ cur'[H] = s
      /\ waiting'[H] = waiting[H] \ {pid[s]} /\ UNCHANGED pid
      /\ \A t \in Slots : state'[t] = "UNUSED" <=> state[t] = "UNUSED"
  BY <1>1, <1>2, TableDispatch
<1>4. PbsType'
  <2>1. ticks \in 0 .. ticks
    BY DEF PbsInv, PbsType
  <2>2. num_sched' \in [Slots -> 0 .. MaxRuns]
    BY <1>2 DEF PbsInv, PbsType
  <2> QED BY <1>2, <2>1, <2>2 DEF PbsInv, PbsType
<1>5. ASSUME NEW t \in Slots, Seen(t)' PROVE AfterLeast(t)'
  <2>1. t # s /\ Seen(t)
    BY <1>3, <1>5 DEF Seen
  <2>2. num_sched'[t] = num_sched[t]
    BY <1>2, <2>1 DEF PbsInv, PbsType
  <2> QED BY <1>2, <2>1, <2>2 DEF PbsInv, AfterLeast
<1>6. PbsInv'
  BY <1>3, <1>4, <1>5 DEF PbsInv, Wanted
<1>7. HighPriorities /\ CappedInv => CappedInv'
  BY <1>2, <1>3 DEF CappedInv
<1>8. LeastRuns
  <2>1. DP[s] = minDP[H] /\ num_sched[s] = minruns[H]
    BY <1>3 DEF PbsInv
  <2>2. ASSUME NEW t \in Slots, pid[t] \in waiting[H] PROVE AfterLeast(t)
    BY <1>3, <2>2 DEF Seen, PbsInv
  <2> QED BY <1>3, <2>1, <2>2 DEF LeastRuns, AfterLeast
<1> QED BY <1>3, <1>6, <1>7, <1>8 DEF PbsKept, Finds

LEMMA PbsForkChild ==
  ASSUME OneHart, Table, PbsInv, NEW s \in Slots, PBS!ForkChild(H, s)
  PROVE  PbsKept
<1> USE Facts
<1>1. /\ Fork(H, s)
      /\ SP' = [SP EXCEPT ![s] = 60] /\ niceness' = [niceness EXCEPT ![s] = 5]
      /\ DP' = [DP EXCEPT ![s] = 0] /\ lrtime' = [lrtime EXCEPT ![s] = 0]
      /\ stime' = [stime EXCEPT ![s] = 0] /\ total_s_time' = [total_s_time EXCEPT ![s] = 0]
      /\ num_sched' = [num_sched EXCEPT ![s] = 0] /\ UNCHANGED <<ticks, minDP, minruns>>
  BY SamePbs DEF PBS!ForkChild
<1>2. /\ Table' /\ UNCHANGED <<phase, scan, cur, minpid, waiting>> /\ phase[H] = "run"
      /\ \A t \in Slots : ~Wanted(t)'
      /\ \A t \in Slots : pid'[t] \in waiting'[H] => t # s /\ Seen(t)
      /\ \A t \in Slots : t # s /\ state'[t] # "UNUSED" => state[t] # "UNUSED"
  BY <1>1, TableFork DEF hartVars
<1>3. PbsType'
  <2>1. 0 \in 0 .. ticks /\ 0 \in 0 .. MaxRuns /\ 60 \in 0 .. 100 /\ 5 \in 0 .. 10
    BY DEF PbsInv, PbsType
  <2>2. SP' \in [Slots -> 0 .. 100] /\ niceness' \in [Slots -> 0 .. 10]
    BY <1>1, <2>1 DEF PbsInv, PbsType
  <2>3. DP' \in [Slots -> Nat] /\ num_sched' \in [Slots -> 0 .. MaxRuns]
    BY <1>1, <2>1 DEF PbsInv, PbsType
  <2>4. /\ lrtime' \in [Slots -> 0 .. ticks] /\ stime' \in [Slots -> 0 .. ticks]
        /\ total_s_time' \in [Slots -> 0 .. ticks]
    BY <1>1, <2>1 DEF PbsInv, PbsType
  <2> QED BY <1>1, <2>2, <2>3, <2>4 DEF PbsInv, PbsType
<1>4. \A t \in Slots : t # s => DP'[t] = DP[t] /\ num_sched'[t] = num_sched[t] /\ SP'[t] = SP[t]
  BY <1>1 DEF PbsInv, PbsType
<1>5. ASSUME NEW t \in Slots, Seen(t)' PROVE AfterLeast(t)'
  <2>1. t # s /\ Seen(t)
    BY <1>2, <1>5 DEF Seen
  <2> QED BY <1>1, <1>4, <2>1 DEF PbsInv, AfterLeast
<1>6. PbsInv'
  BY <1>2, <1>3, <1>5 DEF PbsInv
<1>7. SP'[s] = 60
  BY <1>1 DEF PbsInv, PbsType
<1>8. HighPriorities /\ CappedInv => CappedInv'
  BY <1>2, <1>4, <1>7 DEF CappedInv
<1> QED BY <1>2, <1>6, <1>8 DEF PbsKept, LeastRuns, Finds

LEMMA PbsWake ==
  ASSUME OneHart, Table, PbsInv, NEW s \in Slots, Wake(s), PbsType',
         UNCHANGED <<SP, DP, num_sched, minDP, minruns>>
  PROVE  PbsKept
<1> USE Facts
<1>1. /\ Table' /\ UNCHANGED <<pid, phase, scan, cur, minpid, waiting>>
      /\ Runnable \subseteq Runnable'
      /\ \A t \in Slots : (Seen(t)' <=> Seen(t)) /\ (Wanted(t)' <=> Wanted(t))
      /\ \A t \in Slots : state'[t] # "UNUSED" => state[t] # "UNUSED"
  BY TableWake DEF hartVars
<1>2. LeastFound => LeastFound'
  BY <1>1 DEF LeastFound
<1>3. PbsInv'
  BY <1>1, <1>2 DEF PbsInv, AfterLeast
<1>4. HighPriorities /\ CappedInv => CappedInv'
  BY <1>1 DEF CappedInv
<1> QED BY <1>1, <1>3, <1>4 DEF PbsKept, LeastRuns, Finds

LEMMA PbsWakeUp ==
  ASSUME OneHart, Table, PbsInv, NEW s \in Slots, PBS!WakeUp(s) \/ PBS!KillSleeper(s)
  PROVE  PbsKept
<1>1. CASE PBS!WakeUp(s)
  <2>1. /\ Wake(s) /\ total_s_time' = [total_s_time EXCEPT ![s] = ticks - stime[s]]
        /\ UNCHANGED <<ticks, SP, niceness, DP, lrtime, stime, num_sched, minDP, minruns>>
    BY <1>1, SamePbs DEF PBS!WakeUp, PBS!Slept
  <2>2. ticks - stime[s] \in 0 .. ticks
    BY Facts DEF PbsInv, PbsType
  <2>3. PbsType'
    BY <2>1, <2>2 DEF PbsInv, PbsType
  <2> QED BY <2>1, <2>3, PbsWake
<1>2. CASE PBS!KillSleeper(s)
  <2>1. /\ Wake(s)
        /\ UNCHANGED <<ticks, SP, niceness, DP, lrtime, stime, total_s_time, num_sched, minDP,
                       minruns>>
    BY <1>2, SamePbs DEF PBS!KillSleeper, PBS!slotVars
  <2>2. PbsType'
    BY <2>1 DEF PbsInv, PbsType
  <2> QED BY <2>1, <2>2, PbsWake
<1> QED BY <1>1, <1>2

LEMMA PbsSetPriority ==
  ASSUME OneHart, Table, PbsInv, NEW s \in Slots, NEW v \in Priorities, PBS!SetPriority(H, s, v)
  PROVE  PbsKept
<1> USE Facts
<1>1. PICK w \in 0 .. 100 : w = PBS!Clamp(v) /\ (5 <= v => 5 <= w)
  <2>1. v \in Int
    BY SchedulersAssumption
  <2> QED BY <2>1 DEF PBS!Clamp
<1>2. /\ phase[H] = "run" /\ SP' = [SP EXCEPT ![s] = w] /\ niceness' = [niceness EXCEPT ![s] = 5]
      /\ PBS!ResetMin(H)
      /\ UNCHANGED <<state, pid, nextpid, ticks, DP, lrtime, stime, total_s_time, num_sched>>
      /\ \/ cur' = [cur EXCEPT ![H] = NoSlot] /\ BeginRound(H)
         \/ UNCHANGED <<phase, scan, cur, minpid, waiting>>
  BY <1>1, SamePbs DEF PBS!SetPriority, PBS!tblVars, PBS!hartVars, PBS!NoSlot, NoSlot
<1>3. PbsType'
  <2>1. SP' \in [Slots -> 0 .. 100]
    BY <1>2 DEF PbsInv, PbsType
  <2>3. niceness' \in [Slots -> 0 .. 10]
    <3>1. 5 \in 0 .. 10
      OBVIOUS
    <3> QED BY <1>2, <3>1 DEF PbsInv, PbsType
  <2>2. minDP' \in [Harts -> Nat] /\ minruns' \in [Harts -> 0 .. MaxRuns + 1]
    BY <1>2 DEF PbsInv, PbsType, PBS!ResetMin, PBS!Never
  <2> QED BY <1>2, <2>1, <2>2, <2>3 DEF PbsInv, PbsType
<1>4. HighPriorities /\ CappedInv => \A t \in Slots : state'[t] # "UNUSED" => 5 <= SP'[t]
  BY <1>1, <1>2 DEF HighPriorities, CappedInv, PbsInv, PbsType
<1>5. CASE cur' = [cur EXCEPT ![H] = NoSlot] /\ BeginRound(H)
  <2>1. Table' /\ Fresh
    BY <1>2, <1>5, TableForget
  <2>2. \A t \in Slots : ~Seen(t)' /\ ~Wanted(t)'
    BY <2>1 DEF Fresh, Seen, Wanted
  <2> QED BY <1>2, <1>3, <1>4, <2>1, <2>2, PbsRound
<1>6. CASE UNCHANGED <<phase, scan, cur, minpid, waiting>>
  <2>1. Table'
    BY <1>2, <1>6 DEF Table, DispatchType, RunnablePids, Runnable
  <2>2. minDP'[H] = minDP[H] /\ minruns'[H] = minruns[H]
    BY <1>2, <1>6 DEF PBS!ResetMin, PbsInv, PbsType
  <2>3. PbsInv'
    BY <1>2, <1>3, <1>6, <2>2 DEF PbsInv, Seen, Wanted, AfterLeast
  <2>4. HighPriorities /\ CappedInv => CappedInv'
    BY <1>2, <1>4, <1>6 DEF CappedInv
  <2> QED BY <1>2, <1>6, <2>1, <2>3, <2>4 DEF PbsKept, LeastRuns, Finds
<1> QED BY <1>2, <1>5, <1>6

LEMMA PbsTick ==
  ASSUME OneHart, Table, PbsInv, UNCHANGED <<tblVars, hartVars>>,
         UNCHANGED <<SP, niceness, DP, lrtime, stime, total_s_time, num_sched, minDP, minruns>>,
         ticks' \in 0 .. MaxTicks, ticks <= ticks'
  PROVE  PbsKept
<1> USE Facts
<1>1. UNCHANGED <<state, pid, nextpid, phase, scan, cur, minpid, waiting>>
  BY DEF tblVars, hartVars
<1>2. Table'
  BY <1>1 DEF Table, DispatchType, RunnablePids, Runnable
<1>3. PbsType'
  <2>1. \A n \in 0 .. ticks : n \in 0 .. ticks'
    BY DEF PbsInv, PbsType
  <2> QED BY <2>1 DEF PbsInv, PbsType
<1>4. PbsInv'
  BY <1>1, <1>3 DEF PbsInv, Seen, Wanted, AfterLeast, LeastFound, Runnable
<1>5. HighPriorities /\ CappedInv => CappedInv'
  BY <1>1 DEF CappedInv, Seen
<1> QED BY <1>1, <1>2, <1>4, <1>5 DEF PbsKept, LeastRuns, Finds

LEMMA PbsNext ==
  ASSUME OneHart, Table, PbsInv, PBS!Next
  PROVE  PbsKept
<1>0. PBS!Slots = Slots /\ \A h \in Harts : h = H
  BY Facts DEF PBS!Slots
<1>1. ASSUME NEW h \in Harts, PBS!Choose(h) \/ PBS!ChooseSkip(h) \/ PBS!Skip(h) \/ PBS!Run(h)
      PROVE  PbsKept
  <2>1. h = H
    BY <1>0
  <2> QED BY <1>1, <2>1, PbsChoose, PbsChooseSkip, PbsSkip, PbsRun
<1>2. ASSUME NEW h \in Harts, PBS!GoToSleep(h) \/ PBS!Leave(h) PROVE PbsKept
  <2>1. PBS!GoToSleep(H) \/ PBS!Leave(H)
    BY <1>0, <1>2
  <2>2. /\ Sleep(H) \/ Exit(H)
        /\ PBS!Stop(H) /\ PBS!ResetMin(H)
        /\ stime' = stime \/ stime' = [stime EXCEPT ![cur[H]] = ticks]
        /\ UNCHANGED <<ticks, SP, niceness, DP, total_s_time, num_sched>>
    BY <2>1, SamePbs DEF PBS!GoToSleep, PBS!Leave
  <2> QED BY <2>2, PbsStop
<1>3. ASSUME NEW h \in Harts, NEW s \in PBS!Slots, PBS!ForkChild(h, s) PROVE PbsKept
  <2>1. h = H /\ s \in Slots
    BY <1>0
  <2> QED BY <1>3, <2>1, PbsForkChild
<1>4. ASSUME NEW h \in Harts, NEW s \in PBS!Slots, NEW v \in Priorities, PBS!SetPriority(h, s, v)
      PROVE  PbsKept
  <2>1. h = H /\ s \in Slots
    BY <1>0
  <2> QED BY <1>4, <2>1, PbsSetPriority
<1>5. ASSUME NEW s \in PBS!Slots, PBS!WakeUp(s) \/ PBS!KillSleeper(s) PROVE PbsKept
  <2>1. s \in Slots
    BY <1>0
  <2> QED BY <1>5, <2>1, PbsWakeUp
<1>6. CASE PBS!Tick
  <2>1. /\ ticks < MaxTicks /\ ticks' = ticks + 1 /\ UNCHANGED <<tblVars, hartVars>>
        /\ UNCHANGED <<SP, niceness, DP, lrtime, stime, total_s_time, num_sched, minDP, minruns>>
    BY <1>6 DEF PBS!Tick, PBS!tblVars, PBS!hartVars, PBS!slotVars, tblVars, hartVars
  <2>2. ticks' \in 0 .. MaxTicks /\ ticks <= ticks'
    BY <2>1, Facts DEF PbsInv, PbsType
  <2> QED BY <2>1, <2>2, PbsTick
<1> QED BY <1>1, <1>2, <1>3, <1>4, <1>5, <1>6 DEF PBS!Next


----------------------------------------------------------------------------
(* MLFQ *)

LEMMA SameMlfq ==
  ASSUME NEW h, NEW s, NEW next, NEW st
  PROVE  /\ MLFQ!DispatchInit <=> DispatchInit
         /\ MLFQ!NextSlot(h, next) <=> NextSlot(h, next)
         /\ MLFQ!MatchSkip(h) <=> MatchSkip(h)
         /\ MLFQ!Dispatch(h) <=> Dispatch(h)
         /\ MLFQ!GiveBack(h, st) <=> GiveBack(h, st)
         /\ MLFQ!Sleep(h) <=> Sleep(h)
         /\ MLFQ!Exit(h) <=> Exit(h)
         /\ MLFQ!Fork(h, s) <=> Fork(h, s)
         /\ MLFQ!Wake(s) <=> Wake(s)
<1>1. MLFQ!DispatchInit <=> DispatchInit
  BY DEF MLFQ!DispatchInit, DispatchInit, MLFQ!Slots, Slots, MLFQ!NoSlot, NoSlot
<1>2. MLFQ!NextSlot(h, next) <=> NextSlot(h, next)
  BY DEF MLFQ!NextSlot, NextSlot
<1>3. MLFQ!MatchSkip(h) <=> MatchSkip(h)
  BY DEF MLFQ!MatchSkip, MLFQ!Chosen, MLFQ!Advance, MLFQ!BeginRound, MLFQ!Runnable, MLFQ!Slots,
         MLFQ!tblVars, MatchSkip, Chosen, Advance, BeginRound, Runnable, Slots, tblVars
<1>4. MLFQ!Dispatch(h) <=> Dispatch(h)
  BY DEF MLFQ!Dispatch, MLFQ!Chosen, Dispatch, Chosen
<1>5. ASSUME NEW x PROVE MLFQ!GiveBack(h, x) <=> GiveBack(h, x)
  BY DEF MLFQ!GiveBack, MLFQ!Runnable, MLFQ!Slots, MLFQ!NoSlot, GiveBack, Runnable, Slots, NoSlot
<1>6. MLFQ!Sleep(h) <=> Sleep(h)
  BY <1>5 DEF MLFQ!Sleep, Sleep
<1>7. MLFQ!Exit(h) <=> Exit(h)
  BY <1>5 DEF MLFQ!Exit, Exit
<1>8. MLFQ!Fork(h, s) <=> Fork(h, s)
  BY DEF MLFQ!Fork, MLFQ!hartVars, Fork, hartVars
<1>9. MLFQ!Wake(s) <=> Wake(s)
  BY DEF MLFQ!Wake, MLFQ!hartVars, Wake, hartVars
<1> QED BY <1>1, <1>2, <1>3, <1>4, <1>5, <1>6, <1>7, <1>8, <1>9

\* The steps of MLFQ, of which MlfqProofs has the types.
LEMMA SameDispatch ==
  ASSUME NEW h, NEW s, NEW next, NEW st
  PROVE  /\ LevelProofs!NextSlot(h, next) <=> MLFQ!NextSlot(h, next)
         /\ LevelProofs!MatchSkip(h) <=> MLFQ!MatchSkip(h)
         /\ LevelProofs!Dispatch(h) <=> MLFQ!Dispatch(h)
         /\ LevelProofs!GiveBack(h, st) <=> MLFQ!GiveBack(h, st)
         /\ LevelProofs!Sleep(h) <=> MLFQ!Sleep(h)
         /\ LevelProofs!Exit(h) <=> MLFQ!Exit(h)
         /\ LevelProofs!Fork(h, s) <=> MLFQ!Fork(h, s)
         /\ LevelProofs!Wake(s) <=> MLFQ!Wake(s)
<1>2. LevelProofs!NextSlot(h, next) <=> MLFQ!NextSlot(h, next)
  BY DEF LevelProofs!NextSlot, MLFQ!NextSlot
<1>3. LevelProofs!MatchSkip(h) <=> MLFQ!MatchSkip(h)
  BY DEF LevelProofs!MatchSkip, LevelProofs!Chosen, LevelProofs!Advance, LevelProofs!BeginRound,
         LevelProofs!Runnable, LevelProofs!Slots, LevelProofs!tblVars,
         MLFQ!MatchSkip, MLFQ!Chosen, MLFQ!Advance, MLFQ!BeginRound, MLFQ!Runnable, MLFQ!Slots,
         MLFQ!tblVars
<1>4. LevelProofs!Dispatch(h) <=> MLFQ!Dispatch(h)
  BY DEF LevelProofs!Dispatch, LevelProofs!Chosen, MLFQ!Dispatch, MLFQ!Chosen
<1>5. ASSUME NEW x PROVE LevelProofs!GiveBack(h, x) <=> MLFQ!GiveBack(h, x)
  BY DEF LevelProofs!GiveBack, LevelProofs!Runnable, LevelProofs!Slots, LevelProofs!NoSlot,
         MLFQ!GiveBack, MLFQ!Runnable, MLFQ!Slots, MLFQ!NoSlot
<1>6. LevelProofs!Sleep(h) <=> MLFQ!Sleep(h)
  BY <1>5 DEF LevelProofs!Sleep, MLFQ!Sleep
<1>7. LevelProofs!Exit(h) <=> MLFQ!Exit(h)
  BY <1>5 DEF LevelProofs!Exit, MLFQ!Exit
<1>8. LevelProofs!Fork(h, s) <=> MLFQ!Fork(h, s)
  BY DEF LevelProofs!Fork, LevelProofs!hartVars, MLFQ!Fork, MLFQ!hartVars
<1>9. LevelProofs!Wake(s) <=> MLFQ!Wake(s)
  BY DEF LevelProofs!Wake, LevelProofs!hartVars, MLFQ!Wake, MLFQ!hartVars
<1> QED BY <1>2, <1>3, <1>4, <1>5, <1>6, <1>7, <1>8, <1>9

LEMMA SameSteps == MLFQ!Next => LevelProofs!Next
<1>1. ASSUME NEW h PROVE MLFQ!Schedule(h) <=> LevelProofs!Schedule(h)
  <2>1. MLFQ!Choose(h) <=> LevelProofs!Choose(h)
    BY SameDispatch
    DEF MLFQ!Choose, LevelProofs!Choose, MLFQ!Free, LevelProofs!Free, MLFQ!tblVars,
        LevelProofs!tblVars, MLFQ!queueVars, LevelProofs!queueVars, MLFQ!passVars,
        LevelProofs!passVars
  <2>5. MLFQ!Queue(h) <=> LevelProofs!Queue(h)
    BY DEF MLFQ!Queue, LevelProofs!Queue, MLFQ!Free, LevelProofs!Free, MLFQ!tblVars,
           LevelProofs!tblVars, MLFQ!queueVars, LevelProofs!queueVars
  <2>6. MLFQ!Count(h) <=> LevelProofs!Count(h)
    BY SameDispatch
    DEF MLFQ!Count, LevelProofs!Count, MLFQ!Free, LevelProofs!Free, MLFQ!tblVars,
        LevelProofs!tblVars, MLFQ!queueVars, LevelProofs!queueVars
  <2>7. MLFQ!Sort(h) <=> LevelProofs!Sort(h)
    BY DEF MLFQ!Sort, LevelProofs!Sort, MLFQ!Free, LevelProofs!Free, MLFQ!NullCounted,
           LevelProofs!NullCounted, MLFQ!Levels, LevelProofs!Levels, MLFQ!NoSlot,
           LevelProofs!NoSlot, MLFQ!tblVars, LevelProofs!tblVars, MLFQ!queueVars,
           LevelProofs!queueVars, MLFQ!passVars, LevelProofs!passVars
  <2>8. MLFQ!Panic(h) <=> LevelProofs!Panic(h)
    BY DEF MLFQ!Panic, LevelProofs!Panic, MLFQ!vars, LevelProofs!vars, MLFQ!tblVars,
           LevelProofs!tblVars, MLFQ!hartVars, LevelProofs!hartVars, MLFQ!queueVars,
           LevelProofs!queueVars, MLFQ!passVars, LevelProofs!passVars
  <2>2. MLFQ!Pick(h) <=> LevelProofs!Pick(h)
    BY DEF MLFQ!Pick, LevelProofs!Pick, MLFQ!Free, LevelProofs!Free, MLFQ!NoneCounted,
           LevelProofs!NoneCounted, MLFQ!Levels, LevelProofs!Levels, MLFQ!FirstLevel,
           LevelProofs!FirstLevel, MLFQ!ClearCounts, LevelProofs!ClearCounts, MLFQ!NoSlot,
           LevelProofs!NoSlot, MLFQ!tblVars, LevelProofs!tblVars, MLFQ!queueVars,
           LevelProofs!queueVars, MLFQ!passVars, LevelProofs!passVars
  <2>3. MLFQ!Skip(h) <=> LevelProofs!Skip(h)
    BY SameDispatch
    DEF MLFQ!Skip, LevelProofs!Skip, MLFQ!Free, LevelProofs!Free, MLFQ!queueVars,
        LevelProofs!queueVars, MLFQ!Round, LevelProofs!Round, MLFQ!StartLevels,
        LevelProofs!StartLevels, MLFQ!Slots, LevelProofs!Slots
  <2>4. MLFQ!Run(h) <=> LevelProofs!Run(h)
    BY SameDispatch
    DEF MLFQ!Run, LevelProofs!Run, MLFQ!Free, LevelProofs!Free
  <2> QED BY <2>1, <2>2, <2>3, <2>4, <2>5, <2>6, <2>7, <2>8 DEF MLFQ!Schedule, LevelProofs!Schedule
<1>2. ASSUME NEW h PROVE MLFQ!Leave(h) <=> LevelProofs!Leave(h)
  BY SameDispatch
  DEF MLFQ!Leave, LevelProofs!Leave, MLFQ!Free, LevelProofs!Free, MLFQ!queueVars,
      LevelProofs!queueVars, MLFQ!Round, LevelProofs!Round, MLFQ!StartLevels,
      LevelProofs!StartLevels, MLFQ!Slots, LevelProofs!Slots
<1>3. ASSUME NEW h PROVE MLFQ!Demote(h) <=> LevelProofs!Demote(h)
  BY SameDispatch
  DEF MLFQ!Demote, LevelProofs!Demote, MLFQ!SliceUsed, LevelProofs!SliceUsed, MLFQ!Slice,
      LevelProofs!Slice, MLFQ!GoLast, LevelProofs!GoLast, MLFQ!Round, LevelProofs!Round,
      MLFQ!StartLevels, LevelProofs!StartLevels, MLFQ!Slots, LevelProofs!Slots
<1>4. ASSUME NEW h PROVE MLFQ!Timer(h) <=> LevelProofs!Timer(h)
  BY <1>3 DEF MLFQ!Timer, LevelProofs!Timer
<1>5. ASSUME NEW h, NEW s PROVE MLFQ!ForkChild(h, s) <=> LevelProofs!ForkChild(h, s)
  BY SameDispatch
  DEF MLFQ!ForkChild, LevelProofs!ForkChild, MLFQ!Free, LevelProofs!Free, MLFQ!GoLast,
      LevelProofs!GoLast, MLFQ!Levels, LevelProofs!Levels, MLFQ!passVars, LevelProofs!passVars
<1>6. ASSUME NEW s PROVE /\ MLFQ!WakeUp(s) <=> LevelProofs!WakeUp(s)
                         /\ MLFQ!KillSleeper(s) <=> LevelProofs!KillSleeper(s)
  BY SameDispatch
  DEF MLFQ!WakeUp, LevelProofs!WakeUp, MLFQ!KillSleeper, LevelProofs!KillSleeper, MLFQ!GoLast,
      LevelProofs!GoLast, MLFQ!passVars, LevelProofs!passVars, MLFQ!queueVars,
      LevelProofs!queueVars
<1>7. MLFQ!Tick <=> LevelProofs!Tick
  BY DEF MLFQ!Tick, LevelProofs!Tick, MLFQ!tblVars, LevelProofs!tblVars, MLFQ!hartVars, LevelProofs!hartVars,
         MLFQ!queueVars, LevelProofs!queueVars, MLFQ!passVars, LevelProofs!passVars
<1>8. MLFQ!UpdateTime <=> LevelProofs!UpdateTime
  <2>1. ASSUME NEW s, NEW k PROVE MLFQ!Age(s, k) <=> LevelProofs!Age(s, k)
    BY DEF MLFQ!Age, LevelProofs!Age, MLFQ!GoLast, LevelProofs!GoLast
  <2> QED BY <2>1
      DEF MLFQ!UpdateTime, LevelProofs!UpdateTime, MLFQ!Slots, LevelProofs!Slots, MLFQ!Waits,
          LevelProofs!Waits, MLFQ!Counts, LevelProofs!Counts, MLFQ!Lowest, LevelProofs!Lowest,
          MLFQ!Slice, LevelProofs!Slice, MLFQ!tblVars, LevelProofs!tblVars, MLFQ!hartVars,
          LevelProofs!hartVars, MLFQ!passVars, LevelProofs!passVars
<1>9. MLFQ!TickReturn <=> LevelProofs!TickReturn
  BY <1>3
  DEF MLFQ!TickReturn, LevelProofs!TickReturn, MLFQ!SliceUsed, LevelProofs!SliceUsed, MLFQ!Slice,
      LevelProofs!Slice, MLFQ!tblVars, LevelProofs!tblVars, MLFQ!hartVars, LevelProofs!hartVars,
         MLFQ!queueVars, LevelProofs!queueVars, MLFQ!passVars, LevelProofs!passVars
<1> QED BY <1>1, <1>2, <1>4, <1>5, <1>6, <1>7, <1>8, <1>9
    DEF MLFQ!Next, LevelProofs!Next, MLFQ!Clock, LevelProofs!Clock, MLFQ!Slots, LevelProofs!Slots

LEMMA LevelTypes ==
  ASSUME OneHart, LevelProofs!MlfqInv
  PROVE  /\ MLFQ!Levels = 0 .. NLEVEL - 1 /\ NLEVEL \in Nat \ {0}
         /\ priority \in [Slots -> MLFQ!Levels]
         /\ q \in [MLFQ!Levels -> [MLFQ!Places -> Slots \cup {NoSlot}]]
         /\ i \in [Harts -> [MLFQ!Levels -> Nat]]
         /\ level \in [Harts -> MLFQ!Levels] /\ split \in [Harts -> BOOLEAN]
         /\ startlevel \in [Harts -> [Slots -> MLFQ!Levels]]
         /\ phase[H] \in {"match", "run"} => \A k \in MLFQ!Levels : i[H][k] = 0
<1>1. /\ MLFQ!Levels = LevelProofs!Levels /\ LevelProofs!Slots = Slots
      /\ LevelProofs!NoSlot = NoSlot /\ LevelProofs!Places = MLFQ!Places
  BY DEF MLFQ!Levels, LevelProofs!Levels, LevelProofs!Slots, Slots, LevelProofs!NoSlot, NoSlot,
         LevelProofs!Places, MLFQ!Places
<1>2. MLFQ!Levels = 0 .. NLEVEL - 1 /\ NLEVEL \in Nat \ {0}
  BY SchedulersAssumption DEF MLFQ!Levels
<1>3. phase[H] \in {"match", "run"} => \A k \in MLFQ!Levels : i[H][k] = 0
  BY <1>1, Facts DEF LevelProofs!MlfqInv, LevelProofs!CountedInv, LevelProofs!Matching
<1> QED BY <1>1, <1>2, <1>3 DEF LevelProofs!MlfqInv, LevelProofs!QueueType, LevelProofs!PassType

LEMMA LevelTypeNext ==
  ASSUME LevelProofs!MlfqInv'
  PROVE  priority' \in [Slots -> MLFQ!Levels]
<1>1. MLFQ!Levels = LevelProofs!Levels /\ LevelProofs!Slots = Slots
  BY DEF MLFQ!Levels, LevelProofs!Levels, LevelProofs!Slots, Slots
<1> QED BY <1>1 DEF LevelProofs!MlfqInv, LevelProofs!QueueType

LEMMA LevelKeeps ==
  ASSUME LevelProofs!MlfqInv, MLFQ!Next
  PROVE  LevelProofs!MlfqInv'
<1>1. [LevelProofs!Next]_(LevelProofs!vars)
  BY SameSteps
<1> QED BY <1>1, LevelProofs!MlfqNext, DispatchAssumption, SchedulersAssumption

\* The promises, as far as MLFQ can break them.
HigherRuns ==
  phase[H] = "match" /\ phase'[H] = "run" =>
    \A t \in Slots : pid[t] \in waiting[H] => priority[cur'[H]] <= startlevel[H][t]

LevelKept == Table' /\ LevelInv' /\ (~split[H] => HigherRuns /\ Finds)

\* A RUNNABLE process is found, or one that has not waited is left out.
LEMMA LevelChoose ==
  ASSUME OneHart, Table, LevelInv, LevelProofs!MlfqInv', MLFQ!Choose(H)
  PROVE  LevelKept
<1> USE Facts
<1>1. PICK s \in Slots : s = scan[H]
  BY Types
<1>2. /\ phase[H] = "choose" /\ UNCHANGED <<state, pid, nextpid, cur, minpid, waiting>>
      /\ UNCHANGED <<priority, q, i, level, split, startlevel>>
      /\ IF state[s] = "RUNNABLE"
         THEN phase' = [phase EXCEPT ![H] = "queue"] /\ UNCHANGED scan
         ELSE NextSlot(H, "sort")
  BY <1>1, SameMlfq DEF MLFQ!Choose, MLFQ!tblVars, MLFQ!queueVars, MLFQ!passVars
<1>3. CASE state[s] = "RUNNABLE"
  <2>1. phase' = [phase EXCEPT ![H] = "queue"] /\ UNCHANGED scan /\ phase'[H] = "queue"
    BY <1>2, <1>3, Types
  <2>2. Table'
    BY <1>2, <2>1, TableStep DEF Passes, FirstPass
  <2>3. \A t \in Slots : (Seen(t)' <=> Seen(t)) /\ ~Wanted(t)'
    BY <1>2, <2>1 DEF Seen, Wanted
  <2>4. \A k \in MLFQ!Levels : Headed(k)' <=> Headed(k)
    BY <1>2 DEF Headed, Runnable
  <2>5. LevelInv'
    BY <1>1, <1>2, <1>3, <2>1, <2>3, <2>4 DEF LevelInv, QueuesInv, HeadInv, Counted, FirstPass
  <2> QED BY <2>1, <2>2, <2>5 DEF LevelKept, HigherRuns, Finds
<1>4. CASE state[s] # "RUNNABLE"
  <2>1. NextSlot(H, "sort") /\ minpid[H] \in 0 .. MaxPid /\ minpid[H] < nextpid
        /\ minpid' = [minpid EXCEPT ![H] = minpid[H]]
    BY <1>2, <1>4, Types DEF Table
  <2>2. Table'
    BY <1>2, <2>1, TableNextSlot
  <2>3. /\ s = NPROC => phase'[H] = "sort" /\ scan'[H] = 1
        /\ s # NPROC => phase'[H] = "choose" /\ scan'[H] = s + 1
    BY <1>1, <2>1, NextSlotIs
  <2>4. ASSUME NEW t \in Slots, Seen(t)' PROVE Seen(t)
    <3>1. pid[t] \in waiting[H] /\ t <= s
      <4>1. s = NPROC => t <= s
        OBVIOUS
      <4> QED BY <1>2, <2>3, <2>4, <4>1 DEF Seen
    <3> QED BY <1>1, <1>2, <1>4, <3>1, LastSeen
  <2>5. phase'[H] \in {"choose", "sort"} /\ \A t \in Slots : ~Wanted(t)'
    BY <2>3 DEF Wanted
  <2>6. \A k \in MLFQ!Levels : Headed(k)' <=> Headed(k)
    BY <1>2 DEF Headed, Runnable
  <2>7. LevelInv'
    BY <1>2, <2>4, <2>5, <2>6 DEF LevelInv, QueuesInv, HeadInv, Counted, FirstPass
  <2> QED BY <2>2, <2>5, <2>7 DEF LevelKept, HigherRuns, Finds
<1> QED BY <1>3, <1>4

\* The place of the process is the head of its queue, or the queue has a head already.
LEMMA LevelQueue ==
  ASSUME OneHart, Table, LevelInv, LevelProofs!MlfqInv', MLFQ!Queue(H)
  PROVE  LevelKept
<1> USE Facts
<1>1. PICK s \in Slots : s = scan[H]
  BY Types
<1>2. PICK k \in MLFQ!Levels : k = priority[s]
  BY LevelTypes DEF LevelInv
<1>3. /\ phase[H] = "queue" /\ phase' = [phase EXCEPT ![H] = "count"] /\ phase'[H] = "count"
      /\ q' = [q EXCEPT ![k][i[H][k]] = s] /\ level'[H] = k
      /\ UNCHANGED <<state, pid, nextpid, scan, cur, minpid, waiting>>
      /\ UNCHANGED <<priority, i, split, startlevel>>
  BY <1>1, <1>2, Types, LevelTypes DEF MLFQ!Queue, MLFQ!tblVars, MLFQ!queueVars, LevelInv
<1>4. Table'
  BY <1>3, TableStep DEF Passes, FirstPass
<1>5. state[s] = "RUNNABLE" /\ k \in Int
  BY <1>1, <1>3, LevelTypes DEF LevelInv
<1>6. i[H][k] \in Nat /\ 0 \in MLFQ!Places
  BY LevelTypes DEF LevelInv, MLFQ!Places
<1>7. /\ i[H][k] = 0 => q'[k][0] = s
      /\ i[H][k] # 0 => q'[k][0] = q[k][0]
      /\ \A l \in MLFQ!Levels : l # k => q'[l][0] = q[l][0]
  BY <1>3, <1>6, LevelTypes DEF LevelInv
<1>8. ASSUME ~split[H] PROVE HeadInv /\ Headed(k)'
  <2>1. HeadInv
    BY <1>3, <1>8 DEF LevelInv, QueuesInv, FirstPass
  <2>2. CASE i[H][k] = 0
    <3>1. q'[k][0] = s /\ priority'[s] = k /\ k <= k
      BY <1>2, <1>3, <1>5, <1>7, <2>2
    <3>2. s \in Runnable'
      BY <1>3, <1>5 DEF Runnable
    <3>3. HeadInv /\ Headed(k)'
      BY <2>1, <3>1, <3>2 DEF Headed
    <3> QED BY <3>3
  <2>3. CASE i[H][k] # 0
    BY <1>3, <1>6, <1>7, <2>1, <2>3 DEF HeadInv, Headed, Runnable
  <2> QED BY <2>1, <2>2, <2>3
<1>9. ASSUME ~split[H] PROVE HeadInv'
  <2>1. ASSUME NEW l \in MLFQ!Levels, i[H][l] > 0 PROVE Headed(l)'
    <3>1. CASE l = k
      BY <1>8, <1>9, <3>1
    <3>2. CASE l # k
      BY <1>3, <1>7, <1>8, <1>9, <2>1, <3>2 DEF HeadInv, Headed, Runnable
    <3> QED BY <3>1, <3>2
  <2> QED BY <1>3, <2>1 DEF HeadInv
<1>10. \A t \in Slots : (Seen(t)' <=> Seen(t)) /\ ~Wanted(t)' /\ (Counted(t)' <=> Counted(t))
  BY <1>3 DEF Seen, Wanted, Counted
<1>11. LevelInv'
  BY <1>3, <1>8, <1>9, <1>10 DEF LevelInv, QueuesInv, FirstPass
<1> QED BY <1>3, <1>4, <1>11 DEF LevelKept, HigherRuns, Finds

\* It is counted in the queue that it is in, or the pass is split from here on.
LEMMA LevelCount ==
  ASSUME OneHart, Table, LevelInv, LevelProofs!MlfqInv', MLFQ!Count(H)
  PROVE  LevelKept
<1> USE Facts
<1>1. PICK s \in Slots : s = scan[H]
  BY Types
<1>2. PICK k \in MLFQ!Levels : k = priority[s]
  BY LevelTypes DEF LevelInv
<1>3. /\ phase[H] = "count" /\ NextSlot(H, "sort")
      /\ i' = [i EXCEPT ![H][k] = @ + 1]
      /\ ~split'[H] => ~split[H] /\ k = level[H]
      /\ UNCHANGED <<state, pid, nextpid, cur, minpid, waiting, priority, q, startlevel>>
  <2>1. split' = [split EXCEPT ![H] = @ \/ k # level[H]]
    BY <1>1, <1>2 DEF MLFQ!Count
  <2>2. split \in [Harts -> BOOLEAN]
    BY LevelTypes DEF LevelInv
  <2>3. ~split'[H] => ~split[H] /\ k = level[H]
    BY <2>1, <2>2, Zenon
  <2> QED BY <1>1, <1>2, <2>3, SameMlfq DEF MLFQ!Count, MLFQ!tblVars, MLFQ!queueVars
<1>4. Table'
  <2>1. minpid[H] \in 0 .. MaxPid /\ minpid[H] < nextpid /\ minpid' = [minpid EXCEPT ![H] = minpid[H]]
    BY <1>3, Types DEF Table
  <2> QED BY <1>3, <2>1, TableNextSlot
<1>5. /\ s = NPROC => phase'[H] = "sort" /\ scan'[H] = 1
      /\ s # NPROC => phase'[H] = "choose" /\ scan'[H] = s + 1
  BY <1>1, <1>3, NextSlotIs
<1>6. phase'[H] \in {"choose", "sort"} /\ \A t \in Slots : ~Wanted(t)'
  BY <1>5 DEF Wanted
<1>7. /\ \A l \in MLFQ!Levels : l \in Int /\ i[H][l] \in Nat
      /\ i'[H][k] = i[H][k] + 1 /\ \A l \in MLFQ!Levels : l # k => i'[H][l] = i[H][l]
  BY <1>3, LevelTypes DEF LevelInv
<1>8. \A l \in MLFQ!Levels : Headed(l)' <=> Headed(l)
  BY <1>3 DEF Headed, Runnable
<1>9. ASSUME ~split'[H] PROVE QueuesInv'
  <2>1. HeadInv /\ Headed(k) /\ \A t \in Slots : Seen(t) => Counted(t)
    BY <1>3, <1>9 DEF LevelInv, QueuesInv, FirstPass
  <2>2. HeadInv'
    BY <1>7, <1>8, <2>1 DEF HeadInv
  <2>3. ASSUME NEW t \in Slots, Seen(t)' PROVE Counted(t)'
    <3>1. pid[t] \in waiting[H] /\ t <= s
      <4>1. s = NPROC => t <= s
        OBVIOUS
      <4> QED BY <1>3, <1>5, <2>3, <4>1 DEF Seen
    <3>2. Seen(t) \/ t = s
      BY <1>1, <1>3, <3>1, LastSeen
    <3>3. CASE Seen(t)
      <4>1. PICK l \in MLFQ!Levels : l <= startlevel[H][t] /\ i[H][l] > 0
        BY <2>1, <3>3 DEF Counted
      <4>2. i'[H][l] > 0
        BY <1>7, <4>1
      <4> QED BY <1>3, <4>1, <4>2 DEF Counted
    <3>4. CASE t = s
      <4>1. k <= startlevel[H][t]
        BY <1>2, <3>1, <3>4 DEF LevelInv
      <4>2. i'[H][k] > 0
        BY <1>7
      <4> QED BY <1>3, <4>1, <4>2 DEF Counted
    <3> QED BY <3>2, <3>3, <3>4
  <2> QED BY <1>6, <2>2, <2>3 DEF QueuesInv
<1>10. LevelInv'
  BY <1>3, <1>6, <1>9 DEF LevelInv, FirstPass
<1> QED BY <1>3, <1>4, <1>6, <1>10 DEF LevelKept, HigherRuns, Finds

\* The hart goes on from the sort, or panics.
LEMMA LevelSort ==
  ASSUME OneHart, Table, LevelInv, LevelProofs!MlfqInv', MLFQ!Sort(H)
  PROVE  LevelKept
<1> USE Facts
<1>1. /\ phase[H] = "sort"
      /\ \E there \in {"pick", "panic"} : phase' = [phase EXCEPT ![H] = there]
      /\ UNCHANGED <<state, pid, nextpid, scan, cur, minpid, waiting>>
      /\ UNCHANGED <<priority, q, i, level, split, startlevel>>
  BY DEF MLFQ!Sort, MLFQ!tblVars, MLFQ!queueVars, MLFQ!passVars
<1>2. PICK there \in {"pick", "panic"} : phase' = [phase EXCEPT ![H] = there]
  BY <1>1
<1>3. phase'[H] = there
  BY <1>2, Types
<1>4. Table'
  BY <1>1, <1>2, TableStep DEF Passes, FirstPass
<1>5. \A t \in Slots : (Seen(t)' => Seen(t)) /\ ~Wanted(t)'
  BY <1>1, <1>3 DEF Seen, Wanted
<1>6. \A k \in MLFQ!Levels : Headed(k)' <=> Headed(k)
  BY <1>1 DEF Headed, Runnable
<1>7. LevelInv'
  BY <1>1, <1>3, <1>5, <1>6 DEF LevelInv, QueuesInv, HeadInv, Counted, FirstPass
<1> QED BY <1>3, <1>4, <1>7 DEF LevelKept, HigherRuns, Finds

\* The first queue that is not empty.
LEMMA FirstLevelIs ==
  ASSUME OneHart, LevelInv, i[H] # MLFQ!NoneCounted
  PROVE  /\ MLFQ!FirstLevel(H) \in MLFQ!Levels /\ i[H][MLFQ!FirstLevel(H)] > 0
         /\ \A l \in MLFQ!Levels : i[H][l] > 0 => MLFQ!FirstLevel(H) <= l
<1> USE Facts
<1>1. i[H] \in [MLFQ!Levels -> Nat]
  BY LevelTypes DEF LevelInv
<1>2. PICK m \in MLFQ!Levels : i[H][m] > 0
  BY <1>1 DEF MLFQ!NoneCounted
<1>3. PICK S : S = {l \in MLFQ!Levels : i[H][l] > 0}
  OBVIOUS
<1>4. S \subseteq Nat /\ S # {}
  BY <1>2, <1>3, LevelTypes DEF LevelInv
<1>5. PICK f \in S : \A l \in S : f <= l
  BY <1>4, LeastIn
<1> QED BY <1>3, <1>5 DEF MLFQ!FirstLevel

\* With nobody counted nobody waits; otherwise the head of the first queue is RUNNABLE
\* and no lower than anybody has started.
LEMMA LevelPick ==
  ASSUME OneHart, Table, LevelInv, LevelProofs!MlfqInv', MLFQ!Pick(H)
  PROVE  LevelKept
<1> USE Facts
<1>1. /\ phase[H] = "pick"
      /\ UNCHANGED <<state, pid, nextpid, scan, cur, waiting, priority, q, split, startlevel>>
      /\ \/ /\ i[H] = MLFQ!NoneCounted
            /\ phase' = [phase EXCEPT ![H] = "match"] /\ UNCHANGED minpid
         \/ /\ i[H] # MLFQ!NoneCounted /\ q[MLFQ!FirstLevel(H)][0] # NoSlot
            /\ phase' = [phase EXCEPT ![H] = "match"]
            /\ minpid' = [minpid EXCEPT ![H] = pid[q[MLFQ!FirstLevel(H)][0]]]
         \/ /\ i[H] # MLFQ!NoneCounted /\ q[MLFQ!FirstLevel(H)][0] = NoSlot
            /\ phase' = [phase EXCEPT ![H] = "panic"] /\ UNCHANGED minpid
  BY DEF MLFQ!Pick, MLFQ!tblVars, MLFQ!queueVars, MLFQ!NoSlot, NoSlot
<1>2. minpid[H] = 0 /\ HigherRuns
  BY <1>1 DEF LevelInv, FirstPass, HigherRuns
<1>3. ~split[H] => HeadInv /\ \A t \in Slots : pid[t] \in waiting[H] => Counted(t)
  BY <1>1 DEF LevelInv, QueuesInv, Seen, FirstPass
<1>4. ASSUME ~split[H], i[H] = MLFQ!NoneCounted PROVE waiting[H] = {}
  <2>1. \A t \in Slots : ~Counted(t)
    BY <1>4 DEF Counted, MLFQ!NoneCounted
  <2> SUFFICES ASSUME NEW n \in waiting[H] PROVE FALSE
    OBVIOUS
  <2> QED BY <1>3, <1>4, <2>1, WaitsThere
<1>5. ASSUME NEW there \in {"match", "panic"}, phase' = [phase EXCEPT ![H] = there],
             there = "match" => i[H] = MLFQ!NoneCounted, UNCHANGED minpid
      PROVE  LevelKept
  <2>1. phase'[H] = there
    BY <1>5, Types
  <2>2. Table'
    BY <1>1, <1>5, TableStep DEF Passes, FirstPass
  <2>3. \A t \in Slots : ~Wanted(t)'
    BY <1>2, <1>5 DEF Wanted
  <2>4. LevelInv'
    BY <1>1, <1>5, <2>1, <2>3 DEF LevelInv, QueuesInv, FirstPass
  <2>5. ~split[H] => Finds
    BY <1>4, <1>5, <2>1 DEF Finds
  <2> QED BY <1>2, <2>2, <2>4, <2>5 DEF LevelKept
<1>6. CASE /\ i[H] # MLFQ!NoneCounted /\ q[MLFQ!FirstLevel(H)][0] # NoSlot
           /\ phase' = [phase EXCEPT ![H] = "match"]
           /\ minpid' = [minpid EXCEPT ![H] = pid[q[MLFQ!FirstLevel(H)][0]]]
  <2>1. PICK f \in MLFQ!Levels : /\ f = MLFQ!FirstLevel(H) /\ i[H][f] > 0
                                 /\ \A l \in MLFQ!Levels : i[H][l] > 0 => f <= l
    BY <1>6, FirstLevelIs
  <2>2. 0 \in MLFQ!Places
    BY DEF MLFQ!Places
  <2>3. PICK s \in Slots : s = q[f][0]
    BY <1>6, <2>1, <2>2, LevelTypes DEF LevelInv
  <2>4. pid[s] \in 0 .. MaxPid /\ pid[s] < nextpid
    BY Types DEF Table
  <2>5. /\ minpid' = [minpid EXCEPT ![H] = pid[s]] /\ minpid'[H] = pid[s]
        /\ phase'[H] = "match"
    BY <1>6, <2>1, <2>3, Types
  <2>6. Table'
    <3>1. minpid' \in [Harts -> 0 .. MaxPid] /\ minpid'[H] < nextpid
      BY <2>4, <2>5, Types
    <3> QED BY <1>1, <1>6, <3>1, TableStep DEF Passes, FirstPass
  <2>7. ~split[H] => s \in Runnable /\ priority[s] <= f
    BY <1>3, <2>1, <2>3 DEF HeadInv, Headed
  <2>8. ASSUME ~split[H], NEW t \in Slots, Wanted(t)', NEW u \in Slots, pid[u] \in waiting[H]
        PROVE  priority[t] <= startlevel[H][u]
    <3>1. pid[t] = pid[s] /\ pid[t] # 0
      BY <1>1, <2>5, <2>8 DEF Wanted
    <3>2. t = s
      BY <3>1 DEF Table
    <3>3. PICK l \in MLFQ!Levels : l <= startlevel[H][u] /\ i[H][l] > 0
      BY <1>3, <2>8 DEF Counted
    <3>4. /\ priority[s] \in MLFQ!Levels /\ startlevel[H][u] \in MLFQ!Levels
          /\ \A m \in MLFQ!Levels : m \in Int
      BY LevelTypes DEF LevelInv
    <3>5. f <= l /\ priority[s] <= f
      BY <2>1, <2>7, <2>8, <3>3
    <3> QED BY <3>2, <3>3, <3>4, <3>5
  <2>9. LevelInv'
    BY <1>1, <2>5, <2>8 DEF LevelInv, QueuesInv, FirstPass
  <2>10. ~split[H] => Finds
    BY <2>5, <2>7 DEF RunnablePids, Finds
  <2> QED BY <1>2, <2>6, <2>9, <2>10 DEF LevelKept
<1> QED BY <1>1, <1>5, <1>6

\* Where the hart goes on, or begins a round.
LEMMA LevelRound ==
  ASSUME OneHart, Table, Table', LevelInv, LevelProofs!MlfqInv', phase[H] \in {"match", "run"},
         Fresh \/ Onward, MLFQ!Round(H),
         \A s \in Slots : Seen(s)' => Onward /\ Seen(s) /\ priority'[s] = priority[s],
         \A s \in Slots : Wanted(s)' => Onward /\ Wanted(s) /\ priority'[s] = priority[s]
  PROVE  LevelKept
<1> USE Facts
<1>1. /\ phase'[H] = "choose" => startlevel'[H] = MLFQ!StartLevels(H)
      /\ phase'[H] # "choose" => startlevel'[H] = startlevel[H] /\ (~split'[H] => ~split[H])
      /\ UNCHANGED i /\ \A k \in MLFQ!Levels : i[H][k] = 0
  <2>1. split' = [split EXCEPT ![H] = phase'[H] # "choose" /\ @] /\ split \in [Harts -> BOOLEAN]
    BY LevelTypes DEF MLFQ!Round, LevelInv
  <2>2. phase'[H] # "choose" => (~split'[H] => ~split[H])
    BY <2>1, Zenon
  <2> QED BY <2>2, LevelTypes DEF MLFQ!Round, LevelInv
<1>2. priority' \in [Slots -> MLFQ!Levels] /\ \A l \in MLFQ!Levels : l \in Int
  <2>1. priority' \in [Slots -> MLFQ!Levels]
    BY LevelTypeNext
  <2> QED BY <2>1, LevelTypes DEF LevelInv
<1>3. CASE Fresh
  <2>1. phase'[H] = "choose" /\ minpid'[H] = 0 /\ scan'[H] = 1
    BY <1>3 DEF Fresh
  <2>2. \A s \in Slots : ~Seen(s)' /\ ~Wanted(s)'
    BY <2>1 DEF Seen, Wanted
  <2>3. HeadInv'
    BY <1>1, <2>1 DEF HeadInv
  <2>4. \A s \in Slots : pid'[s] \in waiting'[H] => priority'[s] <= startlevel'[H][s]
    BY <1>1, <1>2, <2>1 DEF MLFQ!StartLevels, MLFQ!Slots
  <2>5. LevelInv'
    BY <2>1, <2>2, <2>3, <2>4 DEF LevelInv, QueuesInv
  <2> QED BY <2>1, <2>5 DEF LevelKept, HigherRuns, Finds
<1>4. CASE Onward
  <2>1. phase'[H] = "match" /\ UNCHANGED <<minpid, waiting>>
    BY <1>4 DEF Onward
  <2>2. \A s \in Slots : pid'[s] \in waiting'[H] =>
          pid[s] \in waiting[H] /\ priority'[s] = priority[s]
    BY <2>1 DEF Seen
  <2>3. \A s \in Slots : pid'[s] \in waiting'[H] => priority'[s] <= startlevel'[H][s]
    BY <1>1, <2>1, <2>2 DEF LevelInv
  <2>4. ASSUME ~split'[H], NEW s \in Slots, NEW t \in Slots, Wanted(s)', pid'[t] \in waiting'[H]
        PROVE  priority'[s] <= startlevel'[H][t]
    BY <1>1, <2>1, <2>2, <2>4 DEF LevelInv, QueuesInv
  <2>5. LevelInv'
    BY <2>1, <2>3, <2>4 DEF LevelInv, QueuesInv, FirstPass
  <2> QED BY <2>1, <2>5 DEF LevelKept, HigherRuns, Finds
<1> QED BY <1>3, <1>4

LEMMA LevelSkip ==
  ASSUME OneHart, Table, LevelInv, LevelProofs!MlfqInv', MLFQ!Skip(H)
  PROVE  LevelKept
<1>1. MatchSkip(H) /\ UNCHANGED priority /\ MLFQ!Round(H)
  BY SameMlfq DEF MLFQ!Skip, MLFQ!queueVars
<1>2. Table' /\ (Fresh \/ Onward) /\ phase[H] = "match"
  BY <1>1, TableSkip
<1>3. \A s \in Slots : /\ Seen(s)' => Onward /\ Seen(s)
                       /\ Wanted(s)' => Onward /\ Wanted(s)
  BY <1>1, SkipLeaves
<1> QED BY <1>1, <1>2, <1>3, LevelRound

LEMMA LevelLeave ==
  ASSUME OneHart, Table, LevelInv, LevelProofs!MlfqInv', MLFQ!Leave(H)
  PROVE  LevelKept
<1>1. /\ Sleep(H) \/ Exit(H)
      /\ UNCHANGED priority /\ MLFQ!Round(H)
  BY SameMlfq DEF MLFQ!Leave, MLFQ!queueVars
<1>2. /\ Table' /\ phase[H] = "run" /\ (Fresh \/ Onward)
      /\ \A s \in Slots : ~Wanted(s)'
      /\ \A s \in Slots : Seen(s)' => Onward /\ Seen(s)
  BY <1>1, TableSleep, TableExit
<1> QED BY <1>1, <1>2, LevelRound

\* The process that is moved down was not waiting.
LEMMA LevelDemote ==
  ASSUME OneHart, Table, LevelInv, LevelProofs!MlfqInv', MLFQ!Demote(H)
  PROVE  LevelKept
<1>1. /\ GiveBack(H, "RUNNABLE") /\ UNCHANGED <<pid, nextpid>>
      /\ priority' = [priority EXCEPT ![cur[H]] = priority[cur[H]] + 1] /\ MLFQ!Round(H)
  BY SameMlfq DEF MLFQ!Demote
<1>2. /\ Table' /\ phase[H] = "run" /\ (Fresh \/ Onward)
      /\ \A s \in Slots : ~Wanted(s)'
      /\ \A s \in Slots : Seen(s)' => Onward /\ Seen(s) /\ s # cur[H]
  BY <1>1, TableGiveBack
<1>3. \A s \in Slots : s # cur[H] => priority'[s] = priority[s]
  BY <1>1, LevelTypes DEF LevelInv
<1> QED BY <1>1, <1>2, <1>3, LevelRound

LEMMA LevelRun ==
  ASSUME OneHart, Table, LevelInv, LevelProofs!MlfqInv', MLFQ!Run(H)
  PROVE  LevelKept
<1> USE Facts
<1>1. /\ Dispatch(H) /\ UNCHANGED <<priority, q, i, level, split>>
      /\ startlevel' = [g \in Harts |-> [startlevel[g] EXCEPT ![scan[H]] = 0]]
  BY SameMlfq DEF MLFQ!Run
<1>2. /\ Table' /\ phase[H] = "match" /\ Wanted(scan[H]) /\ scan[H] \in Slots
      /\ phase'[H] = "run" /\ cur'[H] = scan[H]
      /\ waiting'[H] = waiting[H] \ {pid[scan[H]]} /\ UNCHANGED pid
  BY <1>1, TableDispatch
<1>3. ASSUME NEW t \in Slots, pid'[t] \in waiting'[H]
      PROVE  priority'[t] <= startlevel'[H][t]
  <2>1. t # scan[H] /\ pid[t] \in waiting[H]
    BY <1>2, <1>3
  <2>2. startlevel'[H][t] = startlevel[H][t]
    BY <1>1, <1>2, <2>1, LevelTypes DEF LevelInv
  <2> QED BY <1>1, <2>1, <2>2 DEF LevelInv
<1>4. LevelInv'
  BY <1>1, <1>2, <1>3 DEF LevelInv, QueuesInv, Wanted, FirstPass
<1>5. ~split[H] => HigherRuns
  BY <1>2 DEF HigherRuns, LevelInv, QueuesInv
<1> QED BY <1>2, <1>4, <1>5 DEF LevelKept, Finds

LEMMA LevelForkChild ==
  ASSUME OneHart, Table, LevelInv, LevelProofs!MlfqInv', NEW s \in Slots, MLFQ!ForkChild(H, s)
  PROVE  LevelKept
<1> USE Facts
<1>1. /\ Fork(H, s) /\ priority' = [priority EXCEPT ![s] = 0]
      /\ UNCHANGED <<q, i, level, split, startlevel>>
  BY SameMlfq DEF MLFQ!ForkChild, MLFQ!passVars
<1>2. /\ Table' /\ UNCHANGED <<phase, scan, cur, minpid, waiting>> /\ phase[H] = "run"
      /\ \A t \in Slots : ~Wanted(t)'
      /\ \A t \in Slots : pid'[t] \in waiting'[H] => t # s /\ Seen(t)
  BY <1>1, TableFork DEF hartVars
<1>3. \A t \in Slots : t # s => priority'[t] = priority[t]
  BY <1>1, LevelTypes DEF LevelInv
<1>4. \A t \in Slots : pid'[t] \in waiting'[H] => priority'[t] <= startlevel'[H][t]
  BY <1>1, <1>2, <1>3 DEF LevelInv, Seen
<1>5. LevelInv'
  BY <1>2, <1>4 DEF LevelInv, QueuesInv, FirstPass
<1> QED BY <1>2, <1>5 DEF LevelKept, HigherRuns, Finds

LEMMA LevelWakeUp ==
  ASSUME OneHart, Table, LevelInv, LevelProofs!MlfqInv', NEW s \in Slots,
         MLFQ!WakeUp(s) \/ MLFQ!KillSleeper(s)
  PROVE  LevelKept
<1> USE Facts
<1>1. Wake(s) /\ UNCHANGED <<priority, q, i, level, split, startlevel>>
  BY SameMlfq DEF MLFQ!WakeUp, MLFQ!KillSleeper, MLFQ!passVars, MLFQ!queueVars
<1>2. /\ Table' /\ UNCHANGED <<pid, phase, scan, cur, minpid, waiting>>
      /\ Runnable \subseteq Runnable'
      /\ \A t \in Slots : (Seen(t)' <=> Seen(t)) /\ (Wanted(t)' <=> Wanted(t))
  BY <1>1, TableWake DEF hartVars
<1>3. (HeadInv => HeadInv') /\ \A k \in MLFQ!Levels : Headed(k) => Headed(k)'
  BY <1>1, <1>2 DEF HeadInv, Headed
<1>4. QueuesInv => QueuesInv'
  BY <1>1, <1>2, <1>3, LevelTypes DEF QueuesInv, Counted, LevelInv
<1>5. phase[H] \in {"queue", "count"} => state'[scan[H]] = "RUNNABLE"
  BY <1>2, Types DEF LevelInv, Runnable
<1>6. LevelInv'
  BY <1>1, <1>2, <1>4, <1>5 DEF LevelInv
<1> QED BY <1>2, <1>6 DEF LevelKept, HigherRuns, Finds

\* The clock moves nobody down but the process that runs.
LEMMA LevelLower ==
  ASSUME OneHart, Table, LevelInv, LevelProofs!MlfqInv',
         UNCHANGED <<state, pid, nextpid, phase, scan, cur, minpid, waiting>>,
         UNCHANGED <<q, i, level, split, startlevel>>,
         \A s \in Slots : priority'[s] <= priority[s]
  PROVE  LevelKept
<1> USE Facts
<1>1. Table'
  BY DEF Table, DispatchType, RunnablePids, Runnable
<1>2. \A s \in Slots : priority[s] \in Int /\ priority'[s] \in Int /\ startlevel[H][s] \in Int
  <2>1. priority' \in [Slots -> MLFQ!Levels]
    BY LevelTypeNext
  <2>2. \A l \in MLFQ!Levels : l \in Int
    BY LevelTypes DEF LevelInv
  <2> QED BY <2>1, <2>2, LevelTypes DEF LevelInv
<1>3. \A s \in Slots, n \in Int : priority[s] <= n => priority'[s] <= n
  BY <1>2
<1>4. (HeadInv => HeadInv') /\ \A k \in MLFQ!Levels : Headed(k) => Headed(k)'
  <2>1. \A l \in MLFQ!Levels : l \in Int
    BY LevelTypes DEF LevelInv
  <2>2. \A k \in MLFQ!Levels : Headed(k) => Headed(k)'
    BY <1>3, <2>1 DEF Headed, Runnable
  <2> QED BY <2>2 DEF HeadInv
<1>5. \A s, t \in Slots : priority[s] <= startlevel[H][t] => priority'[s] <= startlevel[H][t]
  BY <1>2, <1>3
<1>6. QueuesInv => QueuesInv'
  BY <1>4, <1>5, LevelTypes DEF QueuesInv, Seen, Wanted, Counted, LevelInv
<1>7. LevelInv'
  BY <1>5, <1>6 DEF LevelInv
<1> QED BY <1>1, <1>7 DEF LevelKept, HigherRuns, Finds

\* A hart that has panicked stays where it is.
LEMMA LevelPanic ==
  ASSUME OneHart, Table, LevelInv, LevelProofs!MlfqInv', MLFQ!Panic(H)
  PROVE  LevelKept
<1>1. /\ UNCHANGED <<state, pid, nextpid, phase, scan, cur, minpid, waiting>>
      /\ UNCHANGED <<priority, q, i, level, split, startlevel>>
  BY DEF MLFQ!Panic, MLFQ!vars, MLFQ!tblVars, MLFQ!hartVars, MLFQ!queueVars, MLFQ!passVars
<1>2. \A s \in Slots : priority'[s] <= priority[s]
  BY <1>1, LevelTypes DEF LevelInv
<1> QED BY <1>1, <1>2, LevelLower

LEMMA LevelClock ==
  ASSUME OneHart, Table, LevelInv, LevelProofs!MlfqInv', MLFQ!Clock
  PROVE  LevelKept
<1> USE Facts
<1>0. \A s \in Slots : priority[s] \in Int /\ priority[s] <= priority[s]
  <2>1. \A s \in Slots : priority[s] \in 0 .. NLEVEL - 1 /\ NLEVEL \in Nat
    BY LevelTypes DEF LevelInv
  <2> QED BY <2>1
<1>1. CASE MLFQ!Tick
  <2>1. /\ UNCHANGED <<state, pid, nextpid, phase, scan, cur, minpid, waiting>>
        /\ UNCHANGED <<q, i, level, split, startlevel, priority>>
    BY <1>1 DEF MLFQ!Tick, MLFQ!tblVars, MLFQ!hartVars, MLFQ!queueVars, MLFQ!passVars
  <2> QED BY <1>0, <2>1, LevelLower
<1>2. CASE MLFQ!UpdateTime
  <2>1. /\ UNCHANGED <<state, pid, nextpid, phase, scan, cur, minpid, waiting>>
        /\ UNCHANGED <<q, i, level, split, startlevel>>
    BY <1>2 DEF MLFQ!UpdateTime, MLFQ!tblVars, MLFQ!hartVars, MLFQ!passVars
  <2>2. UNCHANGED priority \/ priority' = [priority EXCEPT ![clk] = priority[clk] - 1]
    BY <1>2 DEF MLFQ!UpdateTime, MLFQ!Age
  <2>3. \A s \in Slots : priority'[s] <= priority[s]
    <3>1. CASE UNCHANGED priority
      BY <1>0, <3>1
    <3>2. CASE priority' = [priority EXCEPT ![clk] = priority[clk] - 1]
      <4>1. priority \in [Slots -> MLFQ!Levels]
        BY LevelTypes DEF LevelInv
      <4> QED BY <1>0, <3>2, <4>1
    <3> QED BY <2>2, <3>1, <3>2
  <2> QED BY <2>1, <2>3, LevelLower
<1>3. CASE MLFQ!TickReturn
  <2>1. CASE MLFQ!Demote(H)
    BY <2>1, LevelDemote
  <2>2. CASE ~MLFQ!Demote(H)
    <3>1. /\ UNCHANGED <<state, pid, nextpid, phase, scan, cur, minpid, waiting>>
          /\ UNCHANGED <<q, i, level, split, startlevel, priority>>
      BY <1>3, <2>2 DEF MLFQ!TickReturn, MLFQ!tblVars, MLFQ!hartVars, MLFQ!queueVars,
                        MLFQ!passVars
    <3> QED BY <1>0, <3>1, LevelLower
  <2> QED BY <2>1, <2>2
<1> QED BY <1>1, <1>2, <1>3 DEF MLFQ!Clock

LEMMA LevelNext ==
  ASSUME OneHart, Table, LevelInv, MLFQ!Next
  PROVE  LevelKept
<1>0. MLFQ!Slots = Slots /\ (\A h \in Harts : h = H) /\ H = ClockHart
  BY Facts DEF MLFQ!Slots
<1>1. LevelProofs!MlfqInv'
  BY LevelKeeps DEF LevelInv
<1>2. ASSUME NEW h \in Harts, MLFQ!Schedule(h) \/ MLFQ!Leave(h) PROVE LevelKept
  <2>1. h = H
    BY <1>0
  <2> QED BY <1>1, <1>2, <2>1, LevelChoose, LevelQueue, LevelCount, LevelSort, LevelPick, LevelPanic, LevelSkip, LevelRun, LevelLeave
      DEF MLFQ!Schedule
<1>3. ASSUME NEW h \in Harts, MLFQ!Timer(h) PROVE LevelKept
  BY <1>0, <1>3 DEF MLFQ!Timer
<1>4. ASSUME NEW h \in Harts, NEW s \in MLFQ!Slots, MLFQ!ForkChild(h, s) PROVE LevelKept
  <2>1. h = H /\ s \in Slots
    BY <1>0
  <2> QED BY <1>1, <1>4, <2>1, LevelForkChild
<1>5. ASSUME NEW s \in MLFQ!Slots, MLFQ!WakeUp(s) \/ MLFQ!KillSleeper(s) PROVE LevelKept
  <2>1. s \in Slots
    BY <1>0
  <2> QED BY <1>1, <1>5, <2>1, LevelWakeUp
<1>6. CASE MLFQ!Clock
  BY <1>1, <1>6, LevelClock
<1> QED BY <1>2, <1>3, <1>4, <1>5, <1>6 DEF MLFQ!Next


----------------------------------------------------------------------------
(* All three *)

LEMMA TableInit ==
  ASSUME OneHart, DispatchInit
  PROVE  /\ Table /\ phase[H] = "choose" /\ scan[H] = 1 /\ minpid[H] = 0
         /\ \A s \in Slots : ~Seen(s) /\ ~Wanted(s)
<1> USE Facts
<1>1. /\ state = [s \in Slots |-> IF s = 1 THEN "RUNNABLE" ELSE "UNUSED"]
      /\ pid = [s \in Slots |-> IF s = 1 THEN 1 ELSE 0] /\ nextpid = 2
      /\ phase = [h \in Harts |-> "choose"] /\ scan = [h \in Harts |-> 1]
      /\ cur = [h \in Harts |-> NoSlot] /\ minpid = [h \in Harts |-> 0]
      /\ waiting = [h \in Harts |-> {1}]
  BY DEF DispatchInit
<1>2. 1 \in Slots /\ 1 \in 0 .. MaxPid /\ 1 \in 1 .. MaxPid /\ 2 \in 1 .. MaxPid + 1
      /\ 0 \in 0 .. MaxPid
  OBVIOUS
<1>3. /\ phase[H] = "choose" /\ scan[H] = 1 /\ cur[H] = NoSlot /\ minpid[H] = 0
      /\ waiting[H] = {1} /\ pid[1] = 1 /\ state[1] = "RUNNABLE"
      /\ \A s \in Slots : s # 1 => pid[s] = 0 /\ state[s] = "UNUSED"
  BY <1>1, <1>2
<1>4. DispatchType
  BY <1>1, <1>2 DEF DispatchType, FirstPass
<1>5. waiting[H] \subseteq RunnablePids
  BY <1>2, <1>3 DEF RunnablePids, Runnable
<1>6. ASSUME NEW s \in Slots
      PROVE  (state[s] = "UNUSED" <=> pid[s] = 0) /\ pid[s] < nextpid
  <2>1. CASE s = 1
    BY <1>1, <1>3, <2>1
  <2>2. CASE s # 1
    <3>1. pid[s] = 0 /\ state[s] = "UNUSED"
      BY <1>3, <2>2
    <3> QED BY <1>1, <3>1
  <2> QED BY <2>1, <2>2
<1>7. Table
  BY <1>1, <1>3, <1>4, <1>5, <1>6 DEF Table
<1>8. ASSUME NEW s \in Slots
      PROVE  ~Seen(s) /\ ~Wanted(s)
  <2>1. s \in Int /\ 1 <= s
    OBVIOUS
  <2>2. ~(s < scan[H])
    BY <1>3, <2>1
  <2> QED BY <1>3, <2>2 DEF Seen, Wanted
<1> QED BY <1>3, <1>7, <1>8

LEMMA SchedulersInit ==
  ASSUME OneHart, Init
  PROVE  SchedulersInv
<1> USE Facts
<1>1. SCHEDULER \in {"FCFS", "PBS", "MLFQ"} /\ FCFS!Init /\ PBS!Init /\ MLFQ!Init
  BY DEF Init
<1>2. /\ Table /\ phase[H] = "choose" /\ scan[H] = 1 /\ minpid[H] = 0
      /\ \A s \in Slots : ~Seen(s) /\ ~Wanted(s)
  BY <1>1, SameFcfs, TableInit DEF FCFS!Init
<1>3. FcfsInv /\ FcfsIdle
  <2>1. /\ ticks = 0 /\ ctime = [s \in Slots |-> 0]
        /\ minctime = [h \in Harts |-> MaxTicks + 1]
    BY <1>1 DEF FCFS!Init, FCFS!Slots, Slots, FCFS!Latest
  <2>2. FcfsType /\ minctime[H] = MaxTicks + 1
    BY <2>1 DEF FcfsType
  <2> QED BY <1>2, <2>1, <2>2 DEF FcfsInv, FcfsIdle
<1>4. /\ ticks = 0 /\ SP = [s \in Slots |-> IF s = 1 THEN 60 ELSE 0]
      /\ niceness = [s \in Slots |-> IF s = 1 THEN 5 ELSE 0] /\ DP = [s \in Slots |-> 0]
      /\ lrtime = [s \in Slots |-> 0] /\ stime = [s \in Slots |-> 0]
      /\ total_s_time = [s \in Slots |-> 0] /\ num_sched = [s \in Slots |-> 0]
      /\ minDP = [h \in Harts |-> 100] /\ minruns = [h \in Harts |-> MaxRuns + 1]
  BY <1>1 DEF PBS!Init, PBS!Slots, Slots, PBS!Never
<1>5. PbsInv /\ PbsIdle
  <2>1. 0 \in 0 .. ticks /\ 0 \in 0 .. MaxRuns /\ ticks \in 0 .. MaxTicks /\ 100 \in Nat
        /\ MaxRuns + 1 \in 0 .. MaxRuns + 1
    BY <1>4
  <2>2. SP \in [Slots -> 0 .. 100] /\ niceness \in [Slots -> 0 .. 10]
    BY <1>4
  <2>3. PbsType
    BY <1>4, <2>1, <2>2 DEF PbsType
  <2>4. minDP[H] = 100 /\ minruns[H] = MaxRuns + 1
    BY <1>4
  <2> QED BY <1>2, <1>4, <2>3, <2>4 DEF PbsInv, PbsIdle
<1>6. CappedInv
  <2>1. \A s \in Slots : state[s] # "UNUSED" => s = 1
    BY <1>1, SameFcfs DEF FCFS!Init, DispatchInit
  <2> QED BY <1>2, <1>4, <2>1 DEF CappedInv
<1>7. LevelInv /\ LevelIdle
  <2>1. LevelProofs!Init
    BY <1>1
    DEF MLFQ!Init, LevelProofs!Init, MLFQ!DispatchInit, LevelProofs!DispatchInit, MLFQ!Slots,
        LevelProofs!Slots, MLFQ!NoSlot, LevelProofs!NoSlot, MLFQ!Levels, LevelProofs!Levels,
        MLFQ!Places, LevelProofs!Places, MLFQ!NoneCounted, LevelProofs!NoneCounted
  <2>2. LevelProofs!MlfqInv
    BY <2>1, LevelProofs!MlfqInit, DispatchAssumption, SchedulersAssumption
  <2>3. /\ priority = [s \in Slots |-> 0] /\ startlevel = [h \in Harts |-> priority]
        /\ i = [h \in Harts |-> MLFQ!NoneCounted]
    BY <1>1 DEF MLFQ!Init, MLFQ!Slots, Slots
  <2>4. \A s \in Slots : priority[s] = 0 /\ startlevel[H][s] = 0
    BY <2>3
  <2>5. HeadInv
    BY <2>3 DEF HeadInv, MLFQ!NoneCounted
  <2> QED BY <1>2, <2>2, <2>4, <2>5 DEF LevelInv, QueuesInv, LevelIdle
<1> QED BY <1>1, <1>2, <1>3, <1>5, <1>6, <1>7 DEF SchedulersInv

\* No promise is at stake where no hart does anything.
LEMMA Resting ==
  ASSUME UNCHANGED phase
  PROVE  OlderRuns /\ LeastRuns /\ HigherRuns /\ Finds
BY DEF OlderRuns, LeastRuns, HigherRuns, Finds

\* A build that does not run does not break its promise.
LEMMA IdlePromises ==
  ASSUME OneHart, Table'
  PROVE  /\ FcfsIdle => OlderRuns
         /\ PbsIdle => LeastRuns
         /\ LevelIdle => HigherRuns
<1>1. phase'[H] = "run" => cur'[H] \in Slots
  BY Facts DEF Table, DispatchType
<1> QED BY <1>1 DEF FcfsIdle, PbsIdle, LevelIdle, OlderRuns, LeastRuns, HigherRuns

LEMMA SchedulersNext ==
  ASSUME OneHart, SchedulersInv, [Next]_vars
  PROVE  /\ SchedulersInv'
         /\ OlderRuns /\ LeastRuns /\ (~split[H] => HigherRuns)
         /\ (SCHEDULER # "PBS" \/ HighPriorities) /\ ~split[H] => Finds
<1>1. Table /\ SCHEDULER \in {"FCFS", "PBS", "MLFQ"}
  BY DEF SchedulersInv
<1>2. CASE RunFCFS
  <2>1. SCHEDULER = "FCFS" /\ FCFS!Next /\ UNCHANGED <<SCHEDULER, pbsVars, mlfqVars>>
    BY <1>2 DEF RunFCFS
  <2>2. UNCHANGED <<DP, num_sched, priority, startlevel>>
    BY <2>1 DEF pbsVars, mlfqVars
  <2>3. FcfsInv /\ PbsIdle /\ LevelIdle
    BY <2>1 DEF SchedulersInv
  <2>4. FcfsKept
    BY <1>1, <2>1, <2>3, FcfsNext
  <2>5. PbsIdle' /\ LevelIdle'
    BY <2>2, <2>3 DEF PbsIdle, LevelIdle
  <2>6. LeastRuns /\ HigherRuns
    BY <2>3, <2>4, IdlePromises DEF FcfsKept
  <2> QED BY <2>1, <2>4, <2>5, <2>6 DEF SchedulersInv, FcfsKept
<1>3. CASE RunPBS
  <2>1. SCHEDULER = "PBS" /\ PBS!Next /\ UNCHANGED <<SCHEDULER, fcfsVars, mlfqVars>>
    BY <1>3 DEF RunPBS
  <2>2. UNCHANGED <<ctime, priority, startlevel>>
    BY <2>1 DEF fcfsVars, mlfqVars
  <2>3. PbsInv /\ FcfsIdle /\ LevelIdle /\ (HighPriorities => CappedInv)
    BY <2>1 DEF SchedulersInv
  <2>4. PbsKept
    BY <1>1, <2>1, <2>3, PbsNext
  <2>5. FcfsIdle' /\ LevelIdle'
    BY <2>2, <2>3 DEF FcfsIdle, LevelIdle
  <2>6. OlderRuns /\ HigherRuns
    BY <2>3, <2>4, IdlePromises DEF PbsKept
  <2>7. HighPriorities => CappedInv' /\ Finds
    BY <2>3, <2>4 DEF PbsKept
  <2> QED BY <2>1, <2>4, <2>5, <2>6, <2>7 DEF SchedulersInv, PbsKept, HighPriorities
<1>4. CASE RunMLFQ
  <2>1. SCHEDULER = "MLFQ" /\ MLFQ!Next /\ UNCHANGED <<SCHEDULER, ticks, fcfsVars, pbsVars>>
    BY <1>4 DEF RunMLFQ
  <2>2. UNCHANGED <<ctime, DP, num_sched>>
    BY <2>1 DEF fcfsVars, pbsVars
  <2>3. LevelInv /\ FcfsIdle /\ PbsIdle
    BY <2>1 DEF SchedulersInv
  <2>4. LevelKept
    BY <1>1, <2>1, <2>3, LevelNext
  <2>5. FcfsIdle' /\ PbsIdle'
    BY <2>2, <2>3 DEF FcfsIdle, PbsIdle
  <2>6. OlderRuns /\ LeastRuns
    BY <2>3, <2>4, IdlePromises DEF LevelKept
  <2> QED BY <2>1, <2>4, <2>5, <2>6 DEF SchedulersInv, LevelKept
<1>5. CASE UNCHANGED vars
  <2>1. UNCHANGED <<SCHEDULER, tblVars, hartVars, ticks, fcfsVars, pbsVars, mlfqVars>>
    BY <1>5 DEF vars
  <2>2. UNCHANGED <<state, pid, nextpid, phase, scan, cur, minpid, waiting>>
    BY <2>1 DEF tblVars, hartVars
  <2>3. Table' /\ Runnable' = Runnable /\ (\A s \in Slots : (Seen(s)' <=> Seen(s)) /\ (Wanted(s)' <=> Wanted(s)))
    BY <1>1, <2>2 DEF Table, DispatchType, RunnablePids, Runnable, Seen, Wanted
  <2>4. UNCHANGED <<ctime, minctime>>
    BY <2>1 DEF fcfsVars
  <2>5. UNCHANGED <<SP, niceness, DP, lrtime, stime, total_s_time, num_sched, minDP, minruns>>
    BY <2>1 DEF pbsVars
  <2>6. UNCHANGED <<priority, index, q_rtime, q_wtime, c, q, i, level, split, clk, startlevel>>
    BY <2>1 DEF mlfqVars
  <2>7. (FcfsInv => FcfsInv') /\ (FcfsIdle => FcfsIdle')
    BY <2>1, <2>2, <2>3, <2>4 DEF FcfsInv, FcfsType, OldestFound, FcfsIdle
  <2>8. (PbsInv => PbsInv') /\ (PbsIdle => PbsIdle') /\ (CappedInv => CappedInv')
    BY <2>1, <2>2, <2>3, <2>5 DEF PbsInv, PbsType, AfterLeast, LeastFound, PbsIdle, CappedInv
  <2>9. LevelProofs!MlfqInv => LevelProofs!MlfqInv'
    <3>1. UNCHANGED LevelProofs!vars
      BY <2>2, <2>6 DEF LevelProofs!vars, LevelProofs!tblVars, LevelProofs!hartVars,
                        LevelProofs!queueVars, LevelProofs!passVars
    <3>2. [LevelProofs!Next]_(LevelProofs!vars)
      BY <3>1
    <3> QED BY <3>2, LevelProofs!MlfqNext, DispatchAssumption, SchedulersAssumption
  <2>10. (LevelInv => LevelInv') /\ (LevelIdle => LevelIdle')
    BY <2>2, <2>3, <2>6, <2>9 DEF LevelInv, QueuesInv, HeadInv, Headed, Counted, LevelIdle
  <2>11. OlderRuns /\ LeastRuns /\ HigherRuns /\ Finds
    BY <2>2, Resting
  <2> QED BY <2>1, <2>3, <2>7, <2>8, <2>10, <2>11 DEF SchedulersInv
<1> QED BY <1>2, <1>3, <1>4, <1>5 DEF Next

LEMMA SchedulersAlways ==
  ASSUME OneHart
  PROVE  Spec => []SchedulersInv
<1>1. Init => SchedulersInv
  BY SchedulersInit
<1>2. SchedulersInv /\ [Next]_vars => SchedulersInv'
  BY SchedulersNext
<1> QED BY <1>1, <1>2, PTL DEF Spec

\* On one hart FCFS overtakes nobody who was created earlier and has waited since the
\* first pass began (proc.c:649-690).
THEOREM NoOvertakingCorrect ==
  ASSUME OneHart
  PROVE  Spec => NoOvertaking
<1>1. SchedulersInv /\ [Next]_vars =>
        [\A h \in Harts :
           FCFS!Dispatches(h) =>
             \A n \in waiting[h] : ctime[cur'[h]] <= ctime[FCFS!SlotOf(n)]]_(FCFS!vars)
  <2> SUFFICES ASSUME SchedulersInv, [Next]_vars, NEW h \in Harts, FCFS!Dispatches(h),
                      NEW n \in waiting[h]
               PROVE  ctime[cur'[h]] <= ctime[FCFS!SlotOf(n)]
    OBVIOUS
  <2>1. h = H /\ Table /\ OlderRuns
    BY Facts, SchedulersNext DEF SchedulersInv
  <2>2. PICK t \in Slots : pid[t] = n /\ t = FCFS!SlotOf(n)
    BY <2>1, WaitsThere DEF FCFS!SlotOf, FCFS!Slots, Slots
  <2> QED BY <2>1, <2>2 DEF OlderRuns, FCFS!Dispatches
<1> QED BY <1>1, SchedulersAlways, PTL DEF Spec, NoOvertaking, FCFS!NoOvertaking

\* On one hart PBS runs a process with the least DP, and of those the one that was
\* scheduled least often, among all that have waited since the first pass began
\* (proc.c:732-786).
THEOREM LeastDPCorrect ==
  ASSUME OneHart
  PROVE  Spec => LeastDP
<1>1. SchedulersInv /\ [Next]_vars =>
        [\A h \in Harts :
           PBS!Dispatches(h) =>
             \A n \in waiting[h] :
               LET s == cur'[h]
                   t == PBS!SlotOf(n)
               IN  \/ DP[s] < DP[t]
                   \/ DP[s] = DP[t] /\ num_sched[s] <= num_sched[t]]_(PBS!vars)
  <2> SUFFICES ASSUME SchedulersInv, [Next]_vars, NEW h \in Harts, PBS!Dispatches(h),
                      NEW n \in waiting[h]
               PROVE  \/ DP[cur'[h]] < DP[PBS!SlotOf(n)]
                      \/ /\ DP[cur'[h]] = DP[PBS!SlotOf(n)]
                         /\ num_sched[cur'[h]] <= num_sched[PBS!SlotOf(n)]
    OBVIOUS
  <2>1. h = H /\ Table /\ LeastRuns
    BY Facts, SchedulersNext DEF SchedulersInv
  <2>2. PICK t \in Slots : pid[t] = n /\ t = PBS!SlotOf(n)
    BY <2>1, WaitsThere DEF PBS!SlotOf, PBS!Slots, Slots
  <2> QED BY <2>1, <2>2 DEF LeastRuns, PBS!Dispatches
<1> QED BY <1>1, SchedulersAlways, PTL DEF Spec, LeastDP, PBS!LeastDP

\* On one hart MLFQ runs nobody from a lower queue than somebody was in who has waited
\* since the first pass began, for any number of queues and wherever the clock interrupts
\* the passes, unless it moves up a process that has been put into a queue and not yet
\* counted there (proc.c:798-830, 552-563).
THEOREM BestLevelFirstCorrect ==
  ASSUME OneHart
  PROVE  Spec => BestLevelFirst
<1>1. SchedulersInv /\ [Next]_vars =>
        [\A h \in Harts :
           ~split[h] => MLFQ!FromHighest(h)]_(MLFQ!vars)
  <2> SUFFICES ASSUME SchedulersInv, [Next]_vars, NEW h \in Harts, ~split[h],
                      MLFQ!Dispatches(h), NEW n \in waiting[h]
               PROVE  priority[cur'[h]] <= startlevel[h][MLFQ!SlotOf(n)]
    BY DEF MLFQ!FromHighest
  <2>1. h = H /\ Table /\ HigherRuns
    BY Facts, SchedulersNext DEF SchedulersInv
  <2>2. PICK t \in Slots : pid[t] = n /\ t = MLFQ!SlotOf(n)
    BY <2>1, WaitsThere DEF MLFQ!SlotOf, MLFQ!Slots, Slots
  <2> QED BY <2>1, <2>2 DEF HigherRuns, MLFQ!Dispatches
<1> QED BY <1>1, SchedulersAlways, PTL DEF Spec, BestLevelFirst, MLFQ!BestLevelFirst

\* On one hart a first pass that ends with somebody waiting since it began has found a
\* process, and this process is RUNNABLE still: in each build, if no static priority is
\* below 5, and with the same exception under MLFQ (proc.c:657-667, 732-765, 798-830).
THEOREM PicksSomeoneCorrect ==
  ASSUME OneHart, HighPriorities
  PROVE  Spec => PicksSomeone
<1>1. SchedulersInv /\ [Next]_vars =>
        [\A h \in Harts : ~split[h] => FindsSomeone(h)]_vars
  <2> SUFFICES ASSUME SchedulersInv, [Next]_vars, NEW h \in Harts, ~split[h]
               PROVE  FindsSomeone(h)
    OBVIOUS
  <2>1. h = H /\ Finds
    BY Facts, SchedulersNext
  <2> QED BY <2>1 DEF Finds, RunnablePids, FindsSomeone, FirstPass
<1> QED BY <1>1, SchedulersAlways, PTL DEF Spec, PicksSomeone
=============================================================================
