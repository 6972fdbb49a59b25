-------------------------------- MODULE Mlfq --------------------------------
(***************************************************************************)
(* The MLFQ scheduler of kernel/proc.c and kernel/trap.c.  Each round of   *)
(* for(;;) builds the queues again from the priorities, in the order of    *)
(* the process table, and runs the head of the first that is not empty.    *)
(* This pass takes no lock, and reads the priority of a process once to    *)
(* put it into its queue and once more to count it there.                  *)
(* A process that has used its slice of 1 << priority ticks goes one level *)
(* down at the next timer interrupt; the clock moves one that has waited   *)
(* AGING_LIMIT ticks one level up.                                         *)
(*                                                                         *)
(* bubbleSort() compares the index of the processes but changes nothing:   *)
(* swap() exchanges its own two parameters.  Times are kept as far as they *)
(* are compared: q_wtime up to AGING_LIMIT and not at level 0, q_rtime up  *)
(* to the slice.                                                           *)
(***************************************************************************)
EXTENDS Dispatch

CONSTANTS
  ClockHart,    \* hart 0, which handles the clock
  NLEVEL,       \* 5 queues
  AGING_LIMIT,  \* 128
  MaxIndex      \* bound: the c[k] stay there

ASSUME MlfqAssumption ==
  /\ ClockHart \in Harts
  /\ NLEVEL \in Nat \ {0}
  /\ AGING_LIMIT \in Nat \ {0}
  /\ MaxIndex \in Nat

Levels == 0 .. NLEVEL - 1
Lowest == NLEVEL - 1
Places == 0 .. NPROC - 1

VARIABLES
  priority, index,
  q_rtime, q_wtime,
  c,           \* the next index at level k; c[NLEVEL] is past the array
  q,           \* the queues, shared by the harts; null where nobody has been
  i,           \* the local array i[5] of scheduler() on hart h
  level,       \* history: the queue hart h has put the process into that it
               \* counts next
  split,       \* history: it has counted one in another queue in this pass
  clk,         \* the slot that update_time() is at, NPROC + 1 on the way out
               \* of the clock interrupt, or 0
  startlevel   \* history: the priorities when hart h began its first pass, of
               \* who has been waiting since

queueVars == <<priority, index, q_rtime, q_wtime, c>>
passVars == <<q, i, level, split, startlevel>>
vars == <<tblVars, hartVars, queueVars, passVars, clk>>

Slice(k) == 2 ^ k

NoneCounted == [k \in Levels |-> 0]

Init ==
  /\ DispatchInit
  /\ priority = [s \in Slots |-> 0]
  /\ index = [s \in Slots |-> 0]
  /\ q_rtime = [s \in Slots |-> [k \in Levels |-> 0]]
  /\ q_wtime = [s \in Slots |-> [k \in Levels |-> 0]]
  /\ c = [k \in 0 .. NLEVEL |-> IF k = 0 /\ MaxIndex > 0 THEN 1 ELSE 0]
  /\ q = [k \in Levels |-> [n \in Places |-> NoSlot]]
  /\ i = [h \in Harts |-> NoneCounted]
  /\ level = [h \in Harts |-> 0]
  /\ split = [h \in Harts |-> FALSE]
  /\ clk = 0
  /\ startlevel = [h \in Harts |-> priority]

\* p->index = c[k]; c[k]++.
GoLast(s, k) ==
  /\ index' = [index EXCEPT ![s] = c[k]]
  /\ c' = [c EXCEPT ![k] = IF @ < MaxIndex THEN @ + 1 ELSE @]

\* The clock interrupt does not keep hart h.
Free(h) == h = ClockHart => clk = 0

----------------------------------------------------------------------------
(* The first pass *)

Choose(h) ==
  /\ phase[h] = "choose"
  /\ Free(h)
  /\ IF state[scan[h]] = "RUNNABLE"
     THEN phase' = [phase EXCEPT ![h] = "queue"] /\ UNCHANGED scan
     ELSE NextSlot(h, "sort")
  /\ UNCHANGED <<tblVars, cur, minpid, waiting, queueVars, passVars, clk>>

\* q[p->priority][i[p->priority]] = p.
Queue(h) ==
  LET s == scan[h]
      k == priority[s]
  IN
  /\ phase[h] = "queue"
  /\ Free(h)
  /\ q' = [q EXCEPT ![k][i[h][k]] = s]
  /\ level' = [level EXCEPT ![h] = k]
  /\ phase' = [phase EXCEPT ![h] = "count"]
  /\ UNCHANGED <<tblVars, scan, cur, minpid, waiting, queueVars, i, split, startlevel, clk>>

\* i[p->priority]++, in the queue where the process is by now.
Count(h) ==
  LET k == priority[scan[h]] IN
  /\ phase[h] = "count"
  /\ Free(h)
  /\ i' = [i EXCEPT ![h][k] = @ + 1]
  /\ split' = [split EXCEPT ![h] = @ \/ k # level[h]]
  /\ level' = [level EXCEPT ![h] = 0]
  /\ NextSlot(h, "sort")
  /\ UNCHANGED <<tblVars, cur, minpid, waiting, queueVars, q, startlevel, clk>>

\* A place that i[h] counts may have had nobody yet: the process was put into the
\* queue below.
NullCounted(h) ==
  \E k \in Levels : i[h][k] > 1 /\ \E n \in 0 .. i[h][k] - 1 : q[k][n] = NoSlot

\* bubbleSort() looks at the index of everybody in a queue of two or more.  At a null
\* pointer that is a page fault, and kerneltrap() panics; or the compiler has left out
\* the comparison, which decides nothing.
Sort(h) ==
  /\ phase[h] = "sort"
  /\ Free(h)
  /\ \/ phase' = [phase EXCEPT ![h] = "pick"]
     \/ NullCounted(h) /\ phase' = [phase EXCEPT ![h] = "panic"]
  /\ UNCHANGED <<tblVars, scan, cur, minpid, waiting, queueVars, passVars, clk>>

\* Mutant of FirstLevel: the search goes from the lowest queue up.
LastLevel(h) ==
  CHOOSE k \in Levels : i[h][k] > 0 /\ \A l \in Levels : i[h][l] > 0 => l <= k

FirstLevel(h) ==
  CHOOSE k \in Levels : i[h][k] > 0 /\ \A l \in Levels : i[h][l] > 0 => k <= l

\* Mutant of ClearCounts: i keeps what the round before has counted.
ClearCountsNever(h) == UNCHANGED i

\* i[5] = {0} at the head of a round; nobody reads what the last one has left.
ClearCounts(h) == i' = [i EXCEPT ![h] = NoneCounted]

\* The pid of the head of this queue; a null pointer is a page fault here too.
Pick(h) ==
  LET head == q[FirstLevel(h)][0] IN
  /\ phase[h] = "pick"
  /\ Free(h)
  /\ \/ /\ i[h] = NoneCounted
        /\ phase' = [phase EXCEPT ![h] = "match"]
        /\ UNCHANGED minpid
     \/ /\ i[h] # NoneCounted /\ head # NoSlot
        /\ phase' = [phase EXCEPT ![h] = "match"]
        /\ minpid' = [minpid EXCEPT ![h] = pid[head]]
     \/ /\ i[h] # NoneCounted /\ head = NoSlot
        /\ phase' = [phase EXCEPT ![h] = "panic"]
        /\ UNCHANGED minpid
  /\ ClearCounts(h)
  /\ UNCHANGED <<tblVars, scan, cur, waiting, queueVars, q, level, split, startlevel, clk>>

\* panic() stays in a loop, with interrupts off.
Panic(h) ==
  /\ phase[h] = "panic"
  /\ UNCHANGED vars

----------------------------------------------------------------------------
(* The second pass, and the process that runs *)

\* The levels of those who wait from the first pass on.
StartLevels(h) == [s \in Slots |-> IF pid'[s] \in waiting'[h] THEN priority'[s] ELSE 0]

Round(h) ==
  /\ split' = [split EXCEPT ![h] = phase'[h] # "choose" /\ @]
  /\ startlevel' = [startlevel EXCEPT ![h] =
                      IF phase'[h] = "choose" THEN StartLevels(h) ELSE @]
  /\ UNCHANGED <<q, i, level>>

Skip(h) ==
  /\ Free(h)
  /\ MatchSkip(h)
  /\ UNCHANGED <<queueVars, clk>>
  /\ Round(h)

Run(h) ==
  LET s == scan[h] IN
  /\ Free(h)
  /\ Dispatch(h)
  /\ q_rtime' = [q_rtime EXCEPT ![s][priority[s]] = 0]
  /\ startlevel' = [g \in Harts |-> [startlevel[g] EXCEPT ![s] = 0]]
  /\ UNCHANGED <<priority, index, q_wtime, c, q, i, level, split, clk>>

Leave(h) ==
  /\ Free(h)
  /\ Sleep(h) \/ Exit(h)
  /\ UNCHANGED <<queueVars, clk>>
  /\ Round(h)

\* allocproc().
ForkChild(h, s) ==
  /\ Free(h)
  /\ Fork(h, s)
  /\ priority' = [priority EXCEPT ![s] = 0]
  /\ GoLast(s, 0)
  /\ q_rtime' = [q_rtime EXCEPT ![s] = [k \in Levels |-> 0]]
  /\ q_wtime' = [q_wtime EXCEPT ![s] = [k \in Levels |-> 0]]
  /\ UNCHANGED <<passVars, clk>>

\* wakeup() puts the process last in its level, kill() does not.
WakeUp(s) ==
  /\ Wake(s)
  /\ GoLast(s, priority[s])
  /\ UNCHANGED <<priority, q_rtime, q_wtime, passVars, clk>>

KillSleeper(s) ==
  /\ Wake(s)
  /\ UNCHANGED <<queueVars, passVars, clk>>

----------------------------------------------------------------------------
(* The timer *)

SliceUsed(s) == q_rtime[s][priority[s]] >= Slice(priority[s])

\* The timer interrupt of a hart whose process has used its slice.
Demote(h) ==
  LET s == cur[h]
      k == priority[s]
  IN
  /\ phase[h] = "run"
  /\ SliceUsed(s)
  /\ priority' = [priority EXCEPT ![s] = k + 1]
  /\ GoLast(s, k + 1)
  /\ q_rtime' = [q_rtime EXCEPT ![s][k] = 0, ![s][k + 1] = 0]
  /\ GiveBack(h, "RUNNABLE")
  /\ UNCHANGED <<pid, nextpid, q_wtime>>
  /\ Round(h)

\* Timer interrupts of the other harts.
Timer(h) ==
  /\ h # ClockHart
  /\ Demote(h)
  /\ UNCHANGED clk

Tick ==
  /\ clk = 0
  /\ phase[ClockHart] # "panic"
  /\ clk' = 1
  /\ UNCHANGED <<tblVars, hartVars, queueVars, passVars>>

\* Mutant of Counts: the time at the lowest level counts too.
CountsAlways(k) == TRUE

\* Time at the lowest level does not count, so nobody is moved below it.
Counts(k) == k < Lowest

\* Everybody not RUNNING waits, asleep and UNUSED included.
Waits(s) == state[s] # "RUNNING"

\* Mutant of Age: the time is reset, the queue stays.
AgeKeep(s, k) ==
  /\ q_wtime' = [q_wtime EXCEPT ![s][k] = IF k > 0 THEN (@ + 1) % AGING_LIMIT ELSE @]
  /\ UNCHANGED <<priority, index, c>>

Age(s, k) ==
  IF k > 0 /\ q_wtime[s][k] + 1 >= AGING_LIMIT
  THEN /\ q_wtime' = [q_wtime EXCEPT ![s][k] = 0]
       /\ priority' = [priority EXCEPT ![s] = k - 1]
       /\ GoLast(s, k - 1)
  ELSE /\ q_wtime' = [q_wtime EXCEPT ![s][k] = IF k > 0 THEN @ + 1 ELSE @]
       /\ UNCHANGED <<priority, index, c>>

\* update_time() at slot clk.
UpdateTime ==
  LET k == priority[clk] IN
  /\ clk \in Slots
  /\ IF Waits(clk)
     THEN /\ Age(clk, k)
          /\ UNCHANGED q_rtime
     ELSE /\ q_rtime' = [q_rtime EXCEPT ![clk][k] =
                           IF Counts(k) /\ @ < Slice(k) THEN @ + 1 ELSE @]
          /\ UNCHANGED <<priority, index, q_wtime, c>>
  /\ clk' = clk + 1
  /\ UNCHANGED <<tblVars, hartVars, passVars>>

\* Out of the clock interrupt.
TickReturn ==
  /\ clk = NPROC + 1
  /\ clk' = 0
  /\ IF phase[ClockHart] = "run" /\ SliceUsed(cur[ClockHart])
     THEN Demote(ClockHart)
     ELSE UNCHANGED <<tblVars, hartVars, queueVars, passVars>>

----------------------------------------------------------------------------

Schedule(h) ==
  Choose(h) \/ Queue(h) \/ Count(h) \/ Sort(h) \/ Pick(h) \/ Panic(h) \/ Skip(h) \/ Run(h)

Clock == Tick \/ UpdateTime \/ TickReturn

Next ==
  \/ \E h \in Harts :
       \/ Schedule(h) \/ Leave(h) \/ Timer(h)
       \/ \E s \in Slots : ForkChild(h, s)
  \/ \E s \in Slots : WakeUp(s) \/ KillSleeper(s)
  \/ Clock

Spec == Init /\ [][Next]_vars

----------------------------------------------------------------------------

\* Every variable keeps its type.  The priority indexes c, q, i and the q_
\* arrays of five: it must stay below NLEVEL, though both ways of Demote
\* (trap.c:86-98, 173-185) add 1 to it without a test.
TypeOK ==
  /\ DispatchType
  /\ priority \in [Slots -> Levels]
  /\ index \in [Slots -> 0 .. MaxIndex]
  /\ q_rtime \in [Slots -> [Levels -> 0 .. Slice(Lowest)]]
  /\ q_wtime \in [Slots -> [Levels -> 0 .. AGING_LIMIT - 1]]
  /\ c \in [0 .. NLEVEL -> 0 .. MaxIndex]
  /\ q \in [Levels -> [Places -> Slots \cup {NoSlot}]]
  /\ i \in [Harts -> [Levels -> 0 .. NPROC]]
  /\ clk \in 0 .. NPROC + 1
  /\ level \in [Harts -> Levels]
  /\ split \in [Harts -> BOOLEAN]
  /\ startlevel \in [Harts -> [Slots -> Levels]]

FromHighest(h) ==
  Dispatches(h) => \A n \in waiting[h] : priority[cur'[h]] <= startlevel[h][SlotOf(n)]

\* Nobody is swtched to from a lower queue than somebody was in who has waited
\* since the pass began ("the first process is chosen from the first non empty
\* queue with the highest priority", REPORT.md; proc.c:798-830).
HighestFirst == [][\A h \in Harts : FromHighest(h)]_vars

\* That holds on one hart, wherever the clock falls into the passes, unless it moves
\* a process up between the two looks at its priority (proc.c:802, 804).
BestLevelFirst == [][\A h \in Harts : ~split[h] => FromHighest(h)]_vars

\* The hart of the clock has taken a page fault in scheduler().
ClockStopped == phase[ClockHart] = "panic"
=============================================================================
