----------------------------- MODULE MlfqProofs -------------------------------
(***************************************************************************)
(* The MLFQ build on any number of harts and slots and any number of       *)
(* levels: the table and the harts agree, and the priority of a process    *)
(* never leaves the arrays it indexes.                                     *)
(***************************************************************************)
EXTENDS Mlfq, Numbers, FiniteSetTheorems

----------------------------------------------------------------------------
(* The slices *)

\* 2^n is the number of sets of n things: there is one at least, and more for more.
LEMMA SliceGrows ==
  ASSUME NEW k \in Nat, NEW m \in Nat, k <= m
  PROVE  Slice(k) \in Nat /\ Slice(m) \in Nat /\ 1 <= Slice(k) /\ Slice(k) <= Slice(m)
<1>1. /\ IsFiniteSet(1 .. k) /\ Cardinality(1 .. k) = k
      /\ IsFiniteSet(1 .. m) /\ Cardinality(1 .. m) = m
  BY FS_Interval
<1>2. /\ IsFiniteSet(SUBSET (1 .. k)) /\ Cardinality(SUBSET (1 .. k)) = 2^k
      /\ IsFiniteSet(SUBSET (1 .. m)) /\ Cardinality(SUBSET (1 .. m)) = 2^m
  BY <1>1, FS_SUBSET
<1>3. SUBSET (1 .. k) \in SUBSET (SUBSET (1 .. m))
  <2>1. 1 .. k \subseteq 1 .. m
    OBVIOUS
  <2> QED BY <2>1
<1>4. Cardinality(SUBSET (1 .. k)) <= Cardinality(SUBSET (1 .. m))
  BY <1>2, <1>3, FS_Subset
<1>5. /\ Cardinality(SUBSET (1 .. k)) \in Nat /\ Cardinality(SUBSET (1 .. m)) \in Nat
      /\ Cardinality(SUBSET (1 .. k)) # 0
  <2>1. {} \in SUBSET (1 .. k)
    OBVIOUS
  <2> QED BY <1>2, <2>1, FS_CardinalityType, FS_EmptySet
<1>6. 2^k \in Nat /\ 2^m \in Nat /\ 2^k # 0 /\ 2^k <= 2^m
  BY <1>2, <1>4, <1>5
<1> QED BY <1>6 DEF Slice

----------------------------------------------------------------------------
(* The table and the harts *)

\* A hart runs a process exactly in its phase "run", no two harts the same, and
\* RUNNING is being run.
TableInv ==
  /\ DispatchType
  /\ \A s \in Slots : state[s] # "UNUSED" => pid[s] # 0
  /\ \A h \in Harts : phase[h] = "run" <=> cur[h] # NoSlot
  /\ \A g, h \in Harts : cur[g] = cur[h] /\ cur[g] # NoSlot => g = h
  /\ RunningOnHart

LEMMA TableParameters == NPROC \in Nat \ {0} /\ MaxPid \in Nat \ {0} /\ NoSlot \notin Slots
BY DispatchAssumption DEF NoSlot, Slots

\* A hart in a pass goes on without a process.
LEMMA TableMove ==
  ASSUME TableInv, NEW h \in Harts, phase[h] # "run", UNCHANGED <<state, pid, nextpid, cur>>,
         NEW there \in FirstPass \cup {"match", "panic"},
         phase' = [phase EXCEPT ![h] = there],
         scan' \in [Harts -> Slots], minpid' \in [Harts -> 0 .. MaxPid],
         waiting' \in [Harts -> SUBSET (1 .. MaxPid)]
  PROVE  TableInv'
<1>1. phase \in [Harts -> FirstPass \cup {"match", "run", "panic"}]
  BY DEF TableInv, DispatchType
<1>2. DispatchType'
  BY <1>1 DEF TableInv, DispatchType, FirstPass
<1>3. \A g \in Harts : phase'[g] = "run" <=> phase[g] = "run"
  BY <1>1 DEF FirstPass
<1>4. RunningOnHart'
  BY DEF TableInv, RunningOnHart
<1> QED BY <1>2, <1>3, <1>4 DEF TableInv

\* The pids of those who are RUNNABLE.
LEMMA WaitingPids ==
  ASSUME TableInv
  PROVE  {pid[s] : s \in Runnable} \subseteq 1 .. MaxPid
<1>1. \A s \in Slots : pid[s] \in 0 .. MaxPid /\ (state[s] # "UNUSED" => pid[s] # 0)
  BY DEF TableInv, DispatchType
<1> QED BY <1>1 DEF Runnable

LEMMA TableNextSlot ==
  ASSUME TableInv, NEW h \in Harts, phase[h] # "run",
         NEW next \in FirstPass \cup {"match"}, NextSlot(h, next),
         UNCHANGED <<state, pid, nextpid, cur, minpid, waiting>>
  PROVE  TableInv'
<1>1. scan \in [Harts -> Slots] /\ minpid \in [Harts -> 0 .. MaxPid]
      /\ waiting \in [Harts -> SUBSET (1 .. MaxPid)]
  BY DEF TableInv, DispatchType
<1>2. scan' \in [Harts -> Slots]
  BY <1>1, TableParameters DEF NextSlot, Slots
<1>3. PICK there \in {"choose", next} : phase' = [phase EXCEPT ![h] = there]
  BY DEF NextSlot
<1> QED BY <1>1, <1>2, <1>3, TableMove DEF FirstPass

LEMMA TableSkip ==
  ASSUME TableInv, NEW h \in Harts, MatchSkip(h)
  PROVE  TableInv'
<1>1. /\ phase[h] = "match" /\ Advance(h) /\ UNCHANGED <<state, pid, nextpid, cur>>
  BY DEF MatchSkip, tblVars
<1>2. /\ scan \in [Harts -> Slots] /\ minpid \in [Harts -> 0 .. MaxPid]
      /\ waiting \in [Harts -> SUBSET (1 .. MaxPid)]
  BY DEF TableInv, DispatchType
<1>3. CASE scan[h] = NPROC
  <2>1. /\ phase' = [phase EXCEPT ![h] = "choose"] /\ scan' = [scan EXCEPT ![h] = 1]
        /\ minpid' = [minpid EXCEPT ![h] = 0]
        /\ waiting' = [waiting EXCEPT ![h] = {pid[s] : s \in Runnable}]
    BY <1>1, <1>3 DEF Advance, BeginRound
  <2>2. scan' \in [Harts -> Slots] /\ minpid' \in [Harts -> 0 .. MaxPid]
    BY <1>2, <2>1, TableParameters DEF Slots
  <2>3. waiting' \in [Harts -> SUBSET (1 .. MaxPid)]
    BY <1>2, <2>1, WaitingPids
  <2> QED BY <1>1, <2>1, <2>2, <2>3, TableMove DEF FirstPass
<1>4. CASE scan[h] # NPROC
  <2>1. /\ phase' = [phase EXCEPT ![h] = "match"] /\ scan' = [scan EXCEPT ![h] = @ + 1]
        /\ UNCHANGED <<minpid, waiting>>
    BY <1>1, <1>4 DEF Advance
  <2>2. scan' \in [Harts -> Slots]
    BY <1>2, <1>4, <2>1, TableParameters DEF Slots
  <2> QED BY <1>1, <1>2, <2>1, <2>2, TableMove
<1> QED BY <1>3, <1>4

LEMMA TableDispatch ==
  ASSUME TableInv, NEW h \in Harts, Dispatch(h)
  PROVE  TableInv'
<1>1. /\ phase[h] = "match" /\ state[scan[h]] = "RUNNABLE"
      /\ state' = [state EXCEPT ![scan[h]] = "RUNNING"]
      /\ phase' = [phase EXCEPT ![h] = "run"]
      /\ cur' = [cur EXCEPT ![h] = scan[h]]
      /\ waiting' = [g \in Harts |-> waiting[g] \ {pid[scan[h]]}]
      /\ UNCHANGED <<pid, nextpid, scan, minpid>>
  BY DEF Dispatch, Chosen
<1>2. /\ state \in [Slots -> {"UNUSED", "SLEEPING", "RUNNABLE", "RUNNING"}]
      /\ phase \in [Harts -> FirstPass \cup {"match", "run", "panic"}]
      /\ cur \in [Harts -> Slots \cup {NoSlot}] /\ scan \in [Harts -> Slots]
      /\ waiting \in [Harts -> SUBSET (1 .. MaxPid)]
  BY DEF TableInv, DispatchType
<1>3. PICK s \in Slots : s = scan[h]
  BY <1>2
<1>4. waiting' \in [Harts -> SUBSET (1 .. MaxPid)]
  BY <1>1, <1>2
<1>5. DispatchType'
  BY <1>1, <1>2, <1>3, <1>4 DEF TableInv, DispatchType
<1>6. /\ state'[s] = "RUNNING" /\ \A t \in Slots : t # s => state'[t] = state[t]
      /\ cur'[h] = s /\ \A g \in Harts : g # h => cur'[g] = cur[g]
      /\ phase'[h] = "run" /\ \A g \in Harts : g # h => phase'[g] = phase[g]
  BY <1>1, <1>2, <1>3
<1>7. s # NoSlot /\ \A g \in Harts : cur[g] # s
  BY <1>1, <1>3, TableParameters DEF TableInv, RunningOnHart
<1>8. cur[h] = NoSlot
  BY <1>1 DEF TableInv
<1>9. RunningOnHart'
  BY <1>6, <1>8, TableParameters DEF TableInv, RunningOnHart
<1>10. \A g \in Harts : phase'[g] = "run" <=> cur'[g] # NoSlot
  BY <1>6, <1>7 DEF TableInv
<1>11. \A f, g \in Harts : cur'[f] = cur'[g] /\ cur'[f] # NoSlot => f = g
  BY <1>6, <1>7 DEF TableInv
<1>12. \A t \in Slots : state'[t] # "UNUSED" => pid'[t] # 0
  BY <1>1, <1>3, <1>6 DEF TableInv
<1> QED BY <1>5, <1>9, <1>10, <1>11, <1>12 DEF TableInv

\* The process of hart h stops, with pid n afterwards.
LEMMA TableGiveBack ==
  ASSUME TableInv, NEW h \in Harts, NEW st \in {"SLEEPING", "RUNNABLE", "UNUSED"},
         GiveBack(h, st), NEW n \in 0 .. MaxPid, st # "UNUSED" => n # 0,
         pid' = [pid EXCEPT ![cur[h]] = n], UNCHANGED nextpid
  PROVE  TableInv'
<1>1. /\ state \in [Slots -> {"UNUSED", "SLEEPING", "RUNNABLE", "RUNNING"}]
      /\ phase \in [Harts -> FirstPass \cup {"match", "run", "panic"}]
      /\ cur \in [Harts -> Slots \cup {NoSlot}] /\ scan \in [Harts -> Slots]
      /\ waiting \in [Harts -> SUBSET (1 .. MaxPid)] /\ minpid \in [Harts -> 0 .. MaxPid]
      /\ pid \in [Slots -> 0 .. MaxPid]
  BY DEF TableInv, DispatchType
<1>2. phase[h] = "run" /\ cur[h] # NoSlot
  BY DEF GiveBack, TableInv
<1>3. PICK s \in Slots : s = cur[h]
  BY <1>1, <1>2
<1>4. state' = [state EXCEPT ![s] = st] /\ cur' = [cur EXCEPT ![h] = NoSlot]
  BY <1>3 DEF GiveBack
<1>5. state[s] = "RUNNING" /\ pid[s] \in 1 .. MaxPid
  <2>1. state[s] = "RUNNING"
    BY <1>3 DEF TableInv, RunningOnHart
  <2>2. pid[s] # 0
    BY <2>1 DEF TableInv
  <2> QED BY <1>1, <2>1, <2>2
<1>6. /\ \E there \in {"choose", "match"} : phase' = [phase EXCEPT ![h] = there]
      /\ scan' \in [Harts -> Slots] /\ minpid' \in [Harts -> 0 .. MaxPid]
      /\ waiting' \in [Harts -> SUBSET (1 .. MaxPid)]
  <2>1. CASE scan[h] = NPROC
    <3>1. /\ phase' = [phase EXCEPT ![h] = "choose"] /\ scan' = [scan EXCEPT ![h] = 1]
          /\ minpid' = [minpid EXCEPT ![h] = 0]
          /\ waiting' = [waiting EXCEPT ![h] =
               {pid[t] : t \in Runnable} \cup (IF st = "RUNNABLE" THEN {pid[cur[h]]} ELSE {})]
      BY <2>1 DEF GiveBack
    <3>2. scan' \in [Harts -> Slots] /\ minpid' \in [Harts -> 0 .. MaxPid]
      BY <1>1, <3>1, TableParameters DEF Slots
    <3>3. {pid[t] : t \in Runnable} \cup (IF st = "RUNNABLE" THEN {pid[cur[h]]} ELSE {})
            \subseteq 1 .. MaxPid
      BY <1>3, <1>5, WaitingPids
    <3>4. waiting' \in [Harts -> SUBSET (1 .. MaxPid)]
      BY <1>1, <3>1, <3>3
    <3> QED BY <3>1, <3>2, <3>4
  <2>2. CASE scan[h] # NPROC
    <3>1. /\ phase' = [phase EXCEPT ![h] = "match"] /\ scan' = [scan EXCEPT ![h] = @ + 1]
          /\ UNCHANGED <<minpid, waiting>>
      BY <2>2 DEF GiveBack
    <3>2. scan' \in [Harts -> Slots]
      BY <1>1, <2>2, <3>1, TableParameters DEF Slots
    <3> QED BY <1>1, <3>1, <3>2
  <2> QED BY <2>1, <2>2
<1>7. PICK there \in {"choose", "match"} : phase' = [phase EXCEPT ![h] = there]
  BY <1>6
<1>8. DispatchType'
  BY <1>1, <1>3, <1>4, <1>6, <1>7 DEF TableInv, DispatchType, FirstPass
<1>9. /\ state'[s] = st /\ \A t \in Slots : t # s => state'[t] = state[t]
      /\ cur'[h] = NoSlot /\ \A g \in Harts : g # h => cur'[g] = cur[g]
      /\ phase'[h] = there /\ \A g \in Harts : g # h => phase'[g] = phase[g]
      /\ pid'[s] = n /\ \A t \in Slots : t # s => pid'[t] = pid[t]
  BY <1>1, <1>3, <1>4, <1>7
<1>10. \A g \in Harts : g # h => cur[g] # s
  BY <1>2, <1>3 DEF TableInv
<1>11. RunningOnHart'
  BY <1>3, <1>9, <1>10, TableParameters DEF TableInv, RunningOnHart
<1>12. \A g \in Harts : phase'[g] = "run" <=> cur'[g] # NoSlot
  BY <1>9 DEF TableInv
<1>13. \A f, g \in Harts : cur'[f] = cur'[g] /\ cur'[f] # NoSlot => f = g
  BY <1>9 DEF TableInv
<1>14. \A t \in Slots : state'[t] # "UNUSED" => pid'[t] # 0
  BY <1>9 DEF TableInv
<1> QED BY <1>8, <1>11, <1>12, <1>13, <1>14 DEF TableInv

\* It stops and keeps its pid.
LEMMA TableStop ==
  ASSUME TableInv, NEW h \in Harts, NEW st \in {"SLEEPING", "RUNNABLE"},
         GiveBack(h, st), UNCHANGED <<pid, nextpid>>
  PROVE  TableInv'
<1>1. pid \in [Slots -> 0 .. MaxPid] /\ cur \in [Harts -> Slots \cup {NoSlot}]
  BY DEF TableInv, DispatchType
<1>2. cur[h] \in Slots
  BY <1>1 DEF GiveBack, TableInv
<1>3. pid[cur[h]] \in 0 .. MaxPid /\ pid[cur[h]] # 0
  BY <1>1, <1>2 DEF TableInv, RunningOnHart
<1>4. pid' = [pid EXCEPT ![cur[h]] = pid[cur[h]]]
  BY <1>1, <1>2
<1> QED BY <1>3, <1>4, TableGiveBack

LEMMA TableExit ==
  ASSUME TableInv, NEW h \in Harts, Exit(h)
  PROVE  TableInv'
<1>1. GiveBack(h, "UNUSED") /\ pid' = [pid EXCEPT ![cur[h]] = 0] /\ UNCHANGED nextpid
  BY DEF Exit
<1>2. 0 \in 0 .. MaxPid
  BY TableParameters
<1> QED BY <1>1, <1>2, TableGiveBack

LEMMA TableFork ==
  ASSUME TableInv, NEW h \in Harts, NEW s \in Slots, Fork(h, s)
  PROVE  TableInv'
<1>1. /\ nextpid <= MaxPid /\ state[s] = "UNUSED"
      /\ state' = [state EXCEPT ![s] = "RUNNABLE"] /\ pid' = [pid EXCEPT ![s] = nextpid]
      /\ nextpid' = nextpid + 1 /\ UNCHANGED <<phase, scan, cur, minpid, waiting>>
  BY DEF Fork, hartVars
<1>2. /\ state \in [Slots -> {"UNUSED", "SLEEPING", "RUNNABLE", "RUNNING"}]
      /\ pid \in [Slots -> 0 .. MaxPid] /\ nextpid \in 1 .. MaxPid + 1
  BY DEF TableInv, DispatchType
<1>3. nextpid \in 0 .. MaxPid /\ nextpid # 0 /\ nextpid' \in 1 .. MaxPid + 1
  BY <1>1, <1>2, TableParameters
<1>4. DispatchType'
  BY <1>1, <1>2, <1>3 DEF TableInv, DispatchType
<1>5. /\ state'[s] = "RUNNABLE" /\ \A t \in Slots : t # s => state'[t] = state[t]
      /\ pid'[s] = nextpid /\ \A t \in Slots : t # s => pid'[t] = pid[t]
  BY <1>1, <1>2
<1>6. RunningOnHart'
  BY <1>1, <1>5 DEF TableInv, RunningOnHart
<1>7. \A t \in Slots : state'[t] # "UNUSED" => pid'[t] # 0
  BY <1>3, <1>5 DEF TableInv
<1> QED BY <1>1, <1>4, <1>6, <1>7 DEF TableInv

LEMMA TableWake ==
  ASSUME TableInv, NEW s \in Slots, Wake(s)
  PROVE  TableInv'
<1>1. /\ state[s] = "SLEEPING" /\ state' = [state EXCEPT ![s] = "RUNNABLE"]
      /\ UNCHANGED <<pid, nextpid, phase, scan, cur, minpid, waiting>>
  BY DEF Wake, hartVars
<1>2. state \in [Slots -> {"UNUSED", "SLEEPING", "RUNNABLE", "RUNNING"}]
  BY DEF TableInv, DispatchType
<1>3. DispatchType'
  BY <1>1, <1>2 DEF TableInv, DispatchType
<1>4. state'[s] = "RUNNABLE" /\ \A t \in Slots : t # s => state'[t] = state[t]
  BY <1>1, <1>2
<1>5. RunningOnHart'
  BY <1>1, <1>4 DEF TableInv, RunningOnHart
<1>6. \A t \in Slots : state'[t] # "UNUSED" => pid'[t] # 0
  BY <1>1, <1>4 DEF TableInv
<1> QED BY <1>1, <1>3, <1>5, <1>6 DEF TableInv

----------------------------------------------------------------------------
(* The queues *)

QueueType ==
  /\ priority \in [Slots -> Levels]
  /\ index \in [Slots -> 0 .. MaxIndex]
  /\ q_rtime \in [Slots -> [Levels -> 0 .. Slice(Lowest)]]
  /\ q_wtime \in [Slots -> [Levels -> 0 .. AGING_LIMIT - 1]]
  /\ c \in [0 .. NLEVEL -> 0 .. MaxIndex]
  /\ clk \in 0 .. NPROC + 1

PassType ==
  /\ q \in [Levels -> [Places -> Slots \cup {NoSlot}]]
  /\ i \in [Harts -> [Levels -> Nat]]
  /\ level \in [Harts -> Levels]
  /\ split \in [Harts -> BOOLEAN]
  /\ startlevel \in [Harts -> [Slots -> Levels]]

\* Time in the lowest queue does not count, so that a slice there is never used up.
BottomInv == \A s \in Slots : q_rtime[s][Lowest] = 0

Counting(h) == phase[h] \in {"choose", "queue", "count"}

Matching(h) == phase[h] \in {"match", "run"}

\* A hart has counted at most the slots that it has gone over, and nobody any more after
\* its first pass.
CountedInv ==
  \A h \in Harts, k \in Levels :
    /\ i[h][k] <= NPROC
    /\ Counting(h) => i[h][k] < scan[h]
    /\ Matching(h) => i[h][k] = 0

MlfqInv == TableInv /\ QueueType /\ PassType /\ BottomInv /\ CountedInv

LEMMA LevelFacts ==
  /\ NLEVEL \in Nat \ {0} /\ Levels = 0 .. NLEVEL - 1 /\ Lowest = NLEVEL - 1
  /\ Lowest \in Levels /\ AGING_LIMIT \in Nat \ {0} /\ MaxIndex \in Nat
  /\ ClockHart \in Harts
BY MlfqAssumption DEF Levels, Lowest

LEMMA LevelSlice ==
  ASSUME NEW k \in Levels
  PROVE  /\ Slice(k) \in Nat /\ Slice(Lowest) \in Nat
         /\ 1 <= Slice(k) /\ Slice(k) <= Slice(Lowest)
<1>1. k \in Nat /\ Lowest \in Nat /\ k <= Lowest
  BY LevelFacts
<1> QED BY <1>1, SliceGrows

LEMMA GoLastType ==
  ASSUME QueueType, NEW s \in Slots, NEW k \in 0 .. NLEVEL, GoLast(s, k)
  PROVE  index' \in [Slots -> 0 .. MaxIndex] /\ c' \in [0 .. NLEVEL -> 0 .. MaxIndex]
<1>1. /\ index' = [index EXCEPT ![s] = c[k]]
      /\ c' = [c EXCEPT ![k] = IF @ < MaxIndex THEN @ + 1 ELSE @]
  BY DEF GoLast
<1>2. index \in [Slots -> 0 .. MaxIndex] /\ c \in [0 .. NLEVEL -> 0 .. MaxIndex]
  BY DEF QueueType
<1> QED BY <1>1, <1>2, LevelFacts

\* The queues where nothing of a process changes.
LEMMA QueueSame ==
  ASSUME QueueType, BottomInv, UNCHANGED queueVars, clk' \in 0 .. NPROC + 1
  PROVE  QueueType' /\ BottomInv'
<1>1. UNCHANGED <<priority, index, q_rtime, q_wtime, c>>
  BY DEF queueVars
<1> QED BY <1>1 DEF QueueType, BottomInv

\* The counts stay where no hart counts anybody and none goes back in its first pass.
LEMMA CountsStay ==
  ASSUME MlfqInv, TableInv', \A h \in Harts, k \in Levels : i'[h][k] \in {i[h][k], 0},
         \A h \in Harts :
           /\ Counting(h)' => (Counting(h) /\ scan[h] <= scan'[h]) \/ Matching(h)
           /\ Matching(h)' => Matching(h) \/ \A k \in Levels : i'[h][k] = 0
  PROVE  CountedInv'
<1>1. ASSUME NEW g \in Harts, NEW k \in Levels
      PROVE  /\ i'[g][k] <= NPROC
             /\ Counting(g)' => i'[g][k] < scan'[g]
             /\ Matching(g)' => i'[g][k] = 0
  <2>1. scan[g] \in 1 .. NPROC /\ scan'[g] \in 1 .. NPROC /\ NPROC \in Nat
    BY TableParameters DEF MlfqInv, TableInv, DispatchType, Slots
  <2>2. /\ i[g][k] <= NPROC /\ i[g][k] \in Nat
        /\ Counting(g) => i[g][k] < scan[g]
        /\ Matching(g) => i[g][k] = 0
    BY DEF MlfqInv, CountedInv, PassType
  <2>3. i'[g][k] = i[g][k] \/ i'[g][k] = 0
    OBVIOUS
  <2>4. /\ Counting(g)' => (Counting(g) /\ scan[g] <= scan'[g]) \/ Matching(g)
        /\ Matching(g)' => Matching(g) \/ i'[g][k] = 0
    OBVIOUS
  <2> QED BY <2>1, <2>2, <2>3, <2>4
<1> QED BY <1>1 DEF CountedInv

\* The variables of the passes where a hart only goes on.
LEMMA PassSame ==
  ASSUME MlfqInv, TableInv', UNCHANGED passVars,
         \A h \in Harts : /\ Counting(h)' => Counting(h) /\ scan[h] <= scan'[h]
                          /\ Matching(h)' => Matching(h)
  PROVE  PassType' /\ CountedInv'
<1>1. UNCHANGED <<q, i, level, split, startlevel>>
  BY DEF passVars
<1>2. PassType'
  BY <1>1 DEF MlfqInv, PassType
<1>3. CountedInv'
  BY <1>1, CountsStay
<1> QED BY <1>2, <1>3

LEMMA PassStill ==
  ASSUME MlfqInv, TableInv', UNCHANGED passVars, UNCHANGED <<phase, scan>>
  PROVE  PassType' /\ CountedInv'
<1>1. \A h \in Harts : scan[h] \in Nat
  BY TableParameters DEF MlfqInv, TableInv, DispatchType, Slots
<1> QED BY <1>1, PassSame DEF Counting, Matching

\* The variables of the passes where hart h goes on from its second pass, or to a new
\* first pass.
LEMMA PassRound ==
  ASSUME MlfqInv, TableInv', NEW h \in Harts, priority' \in [Slots -> Levels], Round(h),
         \A g \in Harts : g # h => phase'[g] = phase[g] /\ scan'[g] = scan[g],
         Matching(h)
  PROVE  PassType' /\ CountedInv'
<1>1. /\ split' = [split EXCEPT ![h] = phase'[h] # "choose" /\ @]
      /\ startlevel' = [startlevel EXCEPT ![h] =
                          IF phase'[h] = "choose" THEN StartLevels(h) ELSE @]
      /\ UNCHANGED <<q, i, level>>
  BY DEF Round
<1>2. StartLevels(h) \in [Slots -> Levels]
  BY LevelFacts DEF StartLevels
<1>3. PassType
  BY DEF MlfqInv
<1>4. startlevel' \in [Harts -> [Slots -> Levels]]
  BY <1>1, <1>2, <1>3 DEF PassType
<1>5. split' \in [Harts -> BOOLEAN]
  BY <1>1, <1>3, Zenon DEF PassType
<1>6. PassType'
  BY <1>1, <1>3, <1>4, <1>5 DEF PassType
<1>7. \A g \in Harts : scan[g] \in 1 .. NPROC
  BY DEF MlfqInv, TableInv, DispatchType, Slots
<1>8. \A g \in Harts :
        /\ Counting(g)' => (Counting(g) /\ scan[g] <= scan'[g]) \/ Matching(g)
        /\ Matching(g)' => Matching(g)
  <2>1. ASSUME NEW g \in Harts, g # h
        PROVE  (Counting(g)' <=> Counting(g)) /\ scan[g] <= scan'[g] /\ (Matching(g)' <=> Matching(g))
    BY <1>7, <2>1 DEF Counting, Matching
  <2> QED BY <2>1
<1>9. CountedInv'
  BY <1>1, <1>8, CountsStay
<1> QED BY <1>6, <1>9

\* A RUNNABLE process is found, or the hart goes on to the next slot.
LEMMA MlfqChoose ==
  ASSUME MlfqInv, NEW h \in Harts, Choose(h)
  PROVE  MlfqInv'
<1>1. /\ phase[h] = "choose" /\ UNCHANGED <<state, pid, nextpid, cur, minpid, waiting>>
      /\ UNCHANGED queueVars /\ UNCHANGED passVars /\ UNCHANGED clk
      /\ \/ phase' = [phase EXCEPT ![h] = "queue"] /\ UNCHANGED scan
         \/ NextSlot(h, "sort")
  BY DEF Choose, tblVars
<1>2. /\ phase \in [Harts -> FirstPass \cup {"match", "run", "panic"}]
      /\ scan \in [Harts -> 1 .. NPROC] /\ minpid \in [Harts -> 0 .. MaxPid]
      /\ waiting \in [Harts -> SUBSET (1 .. MaxPid)] /\ NPROC \in Nat \ {0}
  BY TableParameters DEF MlfqInv, TableInv, DispatchType, Slots
<1>3. TableInv'
  <2>1. CASE phase' = [phase EXCEPT ![h] = "queue"] /\ UNCHANGED scan
    BY <1>1, <1>2, <2>1, TableMove DEF MlfqInv, FirstPass, Slots
  <2>2. CASE NextSlot(h, "sort")
    BY <1>1, <2>2, TableNextSlot DEF MlfqInv, FirstPass
  <2> QED BY <1>1, <2>1, <2>2
<1>4. QueueType' /\ BottomInv'
  BY <1>1, QueueSame DEF MlfqInv, QueueType
<1>5. \A g \in Harts : /\ Counting(g)' => Counting(g) /\ scan[g] <= scan'[g]
                       /\ Matching(g)' => Matching(g)
  BY <1>1, <1>2 DEF NextSlot, Counting, Matching
<1>6. PassType' /\ CountedInv'
  BY <1>1, <1>3, <1>5, PassSame
<1> QED BY <1>3, <1>4, <1>6 DEF MlfqInv

\* The place q[k][i[k]] is in the array: fewer are counted than slots gone over.
LEMMA MlfqQueue ==
  ASSUME MlfqInv, NEW h \in Harts, Queue(h)
  PROVE  MlfqInv'
<1>1. /\ phase[h] = "queue" /\ phase' = [phase EXCEPT ![h] = "count"]
      /\ q' = [q EXCEPT ![priority[scan[h]]][i[h][priority[scan[h]]]] = scan[h]]
      /\ level' = [level EXCEPT ![h] = priority[scan[h]]]
      /\ UNCHANGED <<state, pid, nextpid, scan, cur, minpid, waiting>>
      /\ UNCHANGED queueVars /\ UNCHANGED <<i, split, startlevel, clk>>
  BY DEF Queue, tblVars
<1>2. /\ phase \in [Harts -> FirstPass \cup {"match", "run", "panic"}]
      /\ scan \in [Harts -> Slots] /\ minpid \in [Harts -> 0 .. MaxPid]
      /\ waiting \in [Harts -> SUBSET (1 .. MaxPid)] /\ priority \in [Slots -> Levels]
  BY DEF MlfqInv, TableInv, DispatchType, QueueType
<1>3. TableInv'
  BY <1>1, <1>2, TableMove DEF MlfqInv, FirstPass
<1>4. QueueType' /\ BottomInv'
  BY <1>1, QueueSame DEF MlfqInv, QueueType
<1>5. PICK s \in Slots : s = scan[h]
  BY <1>2
<1>6. PICK k \in Levels : k = priority[s]
  BY <1>2
<1>7. PICK n \in Places : n = i[h][k]
  <2>1. i[h][k] \in Nat /\ i[h][k] < s /\ s \in 1 .. NPROC /\ NPROC \in Nat
    BY <1>1, <1>5, TableParameters DEF MlfqInv, CountedInv, PassType, Counting, Slots
  <2> QED BY <2>1 DEF Places
<1>8. q' = [q EXCEPT ![k][n] = s] /\ level' = [level EXCEPT ![h] = k]
  BY <1>1, <1>5, <1>6, <1>7
<1>9. PassType'
  <2>1. q' \in [Levels -> [Places -> Slots \cup {NoSlot}]]
    BY <1>8 DEF MlfqInv, PassType
  <2>2. level' \in [Harts -> Levels]
    BY <1>8 DEF MlfqInv, PassType
  <2> QED BY <1>1, <2>1, <2>2 DEF MlfqInv, PassType
<1>10. \A g \in Harts : /\ Counting(g)' => Counting(g) /\ scan[g] <= scan'[g]
                        /\ Matching(g)' => Matching(g)
  <2>1. \A g \in Harts : scan[g] \in Nat
    BY <1>2, TableParameters DEF Slots
  <2> QED BY <1>1, <1>2, <2>1 DEF Counting, Matching
<1>11. CountedInv'
  BY <1>1, <1>3, <1>10, CountsStay
<1> QED BY <1>3, <1>4, <1>9, <1>11 DEF MlfqInv

LEMMA MlfqCount ==
  ASSUME MlfqInv, NEW h \in Harts, Count(h)
  PROVE  MlfqInv'
<1>1. /\ phase[h] = "count" /\ NextSlot(h, "sort")
      /\ i' = [i EXCEPT ![h][priority[scan[h]]] = @ + 1]
      /\ split' = [split EXCEPT ![h] = @ \/ priority[scan[h]] # level[h]]
      /\ level' = [level EXCEPT ![h] = 0]
      /\ UNCHANGED <<state, pid, nextpid, cur, minpid, waiting>>
      /\ UNCHANGED queueVars /\ UNCHANGED <<q, startlevel, clk>>
  BY DEF Count, tblVars
<1>2. TableInv'
  BY <1>1, TableNextSlot DEF MlfqInv, FirstPass
<1>3. QueueType' /\ BottomInv'
  BY <1>1, QueueSame DEF MlfqInv, QueueType
<1>4. /\ phase \in [Harts -> FirstPass \cup {"match", "run", "panic"}]
      /\ scan \in [Harts -> 1 .. NPROC] /\ priority \in [Slots -> Levels]
      /\ i \in [Harts -> [Levels -> Nat]] /\ level \in [Harts -> Levels]
      /\ split \in [Harts -> BOOLEAN] /\ NPROC \in Nat \ {0}
  BY TableParameters DEF MlfqInv, TableInv, DispatchType, QueueType, PassType, Slots
<1>5. PICK k \in Levels : k = priority[scan[h]]
  BY <1>4 DEF Slots
<1>6. /\ i' \in [Harts -> [Levels -> Nat]] /\ i'[h][k] = i[h][k] + 1
      /\ \A g \in Harts, l \in Levels : g # h \/ l # k => i'[g][l] = i[g][l]
  BY <1>1, <1>4, <1>5
<1>7. split' \in [Harts -> BOOLEAN]
  BY <1>1, <1>4, Zenon
<1>8. level' \in [Harts -> Levels]
  BY <1>1, <1>4, LevelFacts
<1>9. PassType'
  BY <1>1, <1>6, <1>7, <1>8 DEF MlfqInv, PassType
<1>10. ASSUME NEW g \in Harts, NEW l \in Levels
       PROVE  /\ i'[g][l] <= NPROC
              /\ Counting(g)' => i'[g][l] < scan'[g]
              /\ Matching(g)' => i'[g][l] = 0
  <2>1. /\ i[g][l] <= NPROC /\ i[g][l] \in Nat /\ scan[g] \in 1 .. NPROC
        /\ Counting(g) => i[g][l] < scan[g]
        /\ Matching(g) => i[g][l] = 0
    BY <1>4 DEF MlfqInv, CountedInv
  <2>2. CASE g # h
    <3>1. phase'[g] = phase[g] /\ scan'[g] = scan[g]
      BY <1>1, <1>4, <2>2 DEF NextSlot
    <3> QED BY <1>6, <2>1, <2>2, <3>1 DEF Counting, Matching
  <2>3. CASE g = h
    <3>1. /\ phase'[h] \in {"choose", "sort"} /\ Counting(h)
          /\ phase'[h] = "choose" => scan'[h] = scan[h] + 1
      BY <1>1, <1>4 DEF NextSlot, Counting
    <3>2. i'[h][l] <= i[h][l] + 1 /\ i'[h][l] \in Nat
      BY <1>6, <2>1, <2>3
    <3>3. i[h][l] < scan[h] /\ scan[h] <= NPROC
      BY <2>1, <2>3, <3>1
    <3> QED BY <1>4, <2>1, <2>3, <3>1, <3>2, <3>3 DEF Counting, Matching
  <2> QED BY <2>2, <2>3
<1> QED BY <1>2, <1>3, <1>9, <1>10 DEF MlfqInv, CountedInv

\* The hart moves in its first pass, or out of it, or panics.
LEMMA MlfqMove ==
  ASSUME MlfqInv, NEW h \in Harts, phase[h] # "run",
         NEW there \in {"pick", "match", "panic"}, phase' = [phase EXCEPT ![h] = there],
         UNCHANGED <<state, pid, nextpid, cur, scan, waiting, clk, q, level, split, startlevel>>,
         UNCHANGED queueVars, minpid' \in [Harts -> 0 .. MaxPid],
         i' = i \/ i' = [i EXCEPT ![h] = NoneCounted],
         there = "match" => i' = [i EXCEPT ![h] = NoneCounted]
  PROVE  MlfqInv'
<1>1. /\ phase \in [Harts -> FirstPass \cup {"match", "run", "panic"}]
      /\ scan \in [Harts -> Slots] /\ waiting \in [Harts -> SUBSET (1 .. MaxPid)]
      /\ i \in [Harts -> [Levels -> Nat]]
  BY DEF MlfqInv, TableInv, DispatchType, PassType
<1>2. TableInv'
  BY <1>1, TableMove DEF MlfqInv, FirstPass
<1>3. QueueType' /\ BottomInv'
  BY QueueSame DEF MlfqInv, QueueType
<1>4. NoneCounted \in [Levels -> Nat] /\ \A k \in Levels : NoneCounted[k] = 0
  BY DEF NoneCounted
<1>5. PassType'
  BY <1>1, <1>4 DEF MlfqInv, PassType
<1>6. \A g \in Harts, k \in Levels : i'[g][k] \in {i[g][k], 0}
  BY <1>1, <1>4
<1>7. \A g \in Harts : scan[g] \in Nat
  BY <1>1, TableParameters DEF Slots
<1>8. \A g \in Harts : Counting(g)' => Counting(g) /\ scan[g] <= scan'[g]
  BY <1>1, <1>7 DEF Counting
<1>9. \A g \in Harts : Matching(g)' => Matching(g) \/ \A k \in Levels : i'[g][k] = 0
  BY <1>1, <1>4 DEF Matching
<1>10. CountedInv'
  BY <1>2, <1>6, <1>8, <1>9, CountsStay
<1> QED BY <1>2, <1>3, <1>5, <1>10 DEF MlfqInv

LEMMA MlfqSort ==
  ASSUME MlfqInv, NEW h \in Harts, Sort(h)
  PROVE  MlfqInv'
<1>1. /\ phase[h] = "sort" /\ \E there \in {"pick", "panic"} : phase' = [phase EXCEPT ![h] = there]
      /\ UNCHANGED <<state, pid, nextpid, cur, scan, minpid, waiting>>
      /\ UNCHANGED queueVars /\ UNCHANGED <<q, i, level, split, startlevel, clk>>
  BY DEF Sort, tblVars, passVars
<1>2. minpid \in [Harts -> 0 .. MaxPid]
  BY DEF MlfqInv, TableInv, DispatchType
<1> QED BY <1>1, <1>2, MlfqMove

LEMMA FirstLevelCounts ==
  ASSUME MlfqInv, NEW h \in Harts, i[h] # NoneCounted
  PROVE  /\ FirstLevel(h) \in Levels /\ i[h][FirstLevel(h)] > 0
         /\ \A l \in Levels : i[h][l] > 0 => FirstLevel(h) <= l
<1>1. i[h] \in [Levels -> Nat] /\ Levels \subseteq Nat
  BY LevelFacts DEF MlfqInv, PassType
<1>2. \E k \in Levels : i[h][k] # 0
  BY <1>1 DEF NoneCounted
<1> DEFINE some == {l \in Levels : i[h][l] > 0}
<1>3. some \subseteq Nat /\ some # {}
  <2>1. PICK m \in Levels : i[h][m] # 0
    BY <1>2
  <2>2. i[h][m] \in Nat
    BY <1>1
  <2>3. m \in some
    BY <2>1, <2>2
  <2> QED BY <1>1, <2>3
<1> HIDE DEF some
<1>4. PICK k \in some : \A l \in some : k <= l
  BY <1>3, LeastIn
<1>5. k \in Levels /\ i[h][k] > 0 /\ \A l \in Levels : i[h][l] > 0 => k <= l
  BY <1>4 DEF some
<1> QED BY <1>5 DEF FirstLevel

\* The head that the hart takes the pid of is a slot, or the hart panics.
LEMMA MlfqPick ==
  ASSUME MlfqInv, NEW h \in Harts, Pick(h)
  PROVE  MlfqInv'
<1>1. /\ phase[h] = "pick" /\ ClearCounts(h)
      /\ \/ phase' = [phase EXCEPT ![h] = "match"] /\ UNCHANGED minpid
         \/ /\ i[h] # NoneCounted /\ q[FirstLevel(h)][0] # NoSlot
            /\ phase' = [phase EXCEPT ![h] = "match"]
            /\ minpid' = [minpid EXCEPT ![h] = pid[q[FirstLevel(h)][0]]]
         \/ phase' = [phase EXCEPT ![h] = "panic"] /\ UNCHANGED minpid
      /\ UNCHANGED <<state, pid, nextpid, cur, scan, waiting>>
      /\ UNCHANGED queueVars /\ UNCHANGED <<q, level, split, startlevel, clk>>
  BY DEF Pick, tblVars
<1>2. /\ minpid \in [Harts -> 0 .. MaxPid] /\ pid \in [Slots -> 0 .. MaxPid]
      /\ q \in [Levels -> [Places -> Slots \cup {NoSlot}]] /\ 0 \in Places
  BY TableParameters DEF MlfqInv, TableInv, DispatchType, PassType, Places
<1>3. minpid' \in [Harts -> 0 .. MaxPid]
  <2>1. CASE UNCHANGED minpid
    BY <1>2, <2>1
  <2>2. CASE /\ i[h] # NoneCounted /\ q[FirstLevel(h)][0] # NoSlot
             /\ minpid' = [minpid EXCEPT ![h] = pid[q[FirstLevel(h)][0]]]
    <3>1. q[FirstLevel(h)][0] \in Slots
      BY <1>2, <2>2, FirstLevelCounts
    <3> QED BY <1>2, <2>2, <3>1
  <2> QED BY <1>1, <2>1, <2>2
<1>4. i' = [i EXCEPT ![h] = NoneCounted]
  BY <1>1 DEF ClearCounts
<1> QED BY <1>1, <1>3, <1>4, MlfqMove

LEMMA MlfqUnchanged ==
  ASSUME MlfqInv, UNCHANGED vars
  PROVE  MlfqInv'
<1>1. UNCHANGED <<state, pid, nextpid, phase, scan, cur, minpid, waiting>>
      /\ UNCHANGED <<q, i, level, split, startlevel, clk>>
      /\ UNCHANGED <<priority, index, q_rtime, q_wtime, c>>
  BY DEF vars, tblVars, hartVars, queueVars, passVars
<1>2. TableInv'
  BY <1>1 DEF MlfqInv, TableInv, DispatchType, RunningOnHart
<1> QED BY <1>1, <1>2 DEF MlfqInv, QueueType, PassType, BottomInv, CountedInv, Counting, Matching

\* The second pass goes on, and so does the process that leaves the hart.
LEMMA MlfqGoesOn ==
  ASSUME MlfqInv, TableInv', NEW h \in Harts, Matching(h),
         UNCHANGED queueVars, UNCHANGED clk, Round(h),
         \A g \in Harts : g # h => phase'[g] = phase[g] /\ scan'[g] = scan[g]
  PROVE  MlfqInv'
<1>1. QueueType' /\ BottomInv'
  BY QueueSame DEF MlfqInv, QueueType
<1>2. priority' \in [Slots -> Levels]
  BY <1>1 DEF QueueType
<1>3. PassType' /\ CountedInv'
  BY <1>2, PassRound
<1> QED BY <1>1, <1>3 DEF MlfqInv

LEMMA OthersStay ==
  ASSUME TableInv, NEW h \in Harts, NEW x, NEW y,
         phase' = [phase EXCEPT ![h] = x], scan' = [scan EXCEPT ![h] = y]
  PROVE  \A g \in Harts : g # h => phase'[g] = phase[g] /\ scan'[g] = scan[g]
BY DEF TableInv, DispatchType

LEMMA OthersStayOnGiveBack ==
  ASSUME TableInv, NEW h \in Harts, NEW st, GiveBack(h, st)
  PROVE  \A g \in Harts : g # h => phase'[g] = phase[g] /\ scan'[g] = scan[g]
<1>1. \E x, y : phase' = [phase EXCEPT ![h] = x] /\ scan' = [scan EXCEPT ![h] = y]
  BY DEF GiveBack
<1> QED BY <1>1, OthersStay

LEMMA MlfqSkip ==
  ASSUME MlfqInv, NEW h \in Harts, Skip(h)
  PROVE  MlfqInv'
<1>1. MatchSkip(h) /\ UNCHANGED queueVars /\ UNCHANGED clk /\ Round(h)
  BY DEF Skip
<1>2. TableInv'
  BY <1>1, TableSkip DEF MlfqInv
<1>3. /\ phase[h] = "match"
      /\ \E x, y : phase' = [phase EXCEPT ![h] = x] /\ scan' = [scan EXCEPT ![h] = y]
  BY <1>1 DEF MatchSkip, Advance, BeginRound
<1>4. \A g \in Harts : g # h => phase'[g] = phase[g] /\ scan'[g] = scan[g]
  BY <1>3, OthersStay DEF MlfqInv
<1> QED BY <1>1, <1>2, <1>3, <1>4, MlfqGoesOn DEF Matching

LEMMA MlfqLeave ==
  ASSUME MlfqInv, NEW h \in Harts, Leave(h)
  PROVE  MlfqInv'
<1>1. (Sleep(h) \/ Exit(h)) /\ UNCHANGED queueVars /\ UNCHANGED clk /\ Round(h)
  BY DEF Leave
<1>2. TableInv'
  <2>1. CASE Sleep(h)
    BY <2>1, TableStop DEF Sleep, MlfqInv
  <2>2. CASE Exit(h)
    BY <2>2, TableExit DEF MlfqInv
  <2> QED BY <1>1, <2>1, <2>2
<1>3. \E st : GiveBack(h, st)
  BY <1>1 DEF Sleep, Exit
<1>4. \A g \in Harts : g # h => phase'[g] = phase[g] /\ scan'[g] = scan[g]
  BY <1>3, OthersStayOnGiveBack DEF MlfqInv
<1>5. Matching(h)
  BY <1>3 DEF GiveBack, Matching
<1> QED BY <1>1, <1>2, <1>4, <1>5, MlfqGoesOn

LEMMA MlfqRun ==
  ASSUME MlfqInv, NEW h \in Harts, Run(h)
  PROVE  MlfqInv'
<1>1. /\ Dispatch(h) /\ q_rtime' = [q_rtime EXCEPT ![scan[h]][priority[scan[h]]] = 0]
      /\ startlevel' = [g \in Harts |-> [startlevel[g] EXCEPT ![scan[h]] = 0]]
      /\ UNCHANGED <<priority, index, q_wtime, c, q, i, level, split, clk>>
  BY DEF Run
<1>2. TableInv'
  BY <1>1, TableDispatch DEF MlfqInv
<1>3. /\ scan \in [Harts -> Slots] /\ priority \in [Slots -> Levels]
      /\ q_rtime \in [Slots -> [Levels -> 0 .. Slice(Lowest)]]
      /\ phase \in [Harts -> FirstPass \cup {"match", "run", "panic"}]
  BY DEF MlfqInv, TableInv, DispatchType, QueueType
<1>4. PICK s \in Slots : s = scan[h]
  BY <1>3
<1>5. PICK k \in Levels : k = priority[s]
  BY <1>3
<1>6. q_rtime' = [q_rtime EXCEPT ![s][k] = 0] /\ 0 \in 0 .. Slice(Lowest)
  BY <1>1, <1>4, <1>5, LevelFacts, LevelSlice
<1>7. q_rtime' \in [Slots -> [Levels -> 0 .. Slice(Lowest)]]
  BY <1>3, <1>6
<1>8. QueueType'
  BY <1>1, <1>7 DEF MlfqInv, QueueType
<1>9. BottomInv'
  <2>1. ASSUME NEW t \in Slots PROVE q_rtime'[t][Lowest] = 0
    <3>1. q_rtime[t][Lowest] = 0
      BY DEF MlfqInv, BottomInv
    <3> QED BY <1>3, <1>6, <3>1, LevelFacts
  <2> QED BY <2>1 DEF BottomInv
<1>10. PassType'
  <2>1. startlevel' = [g \in Harts |-> [startlevel[g] EXCEPT ![s] = 0]] /\ 0 \in Levels
    BY <1>1, <1>4, LevelFacts
  <2>2. startlevel' \in [Harts -> [Slots -> Levels]]
    BY <2>1 DEF MlfqInv, PassType
  <2> QED BY <1>1, <2>2 DEF MlfqInv, PassType
<1>11. \A g \in Harts : scan[g] \in Nat
  BY <1>3, TableParameters DEF Slots
<1>12. /\ phase[h] = "match" /\ phase' = [phase EXCEPT ![h] = "run"] /\ UNCHANGED scan
  BY <1>1 DEF Dispatch
<1>13. \A g \in Harts : /\ Counting(g)' => Counting(g) /\ scan[g] <= scan'[g]
                        /\ Matching(g)' => Matching(g)
  BY <1>3, <1>11, <1>12 DEF Counting, Matching
<1>14. CountedInv'
  BY <1>1, <1>2, <1>13, CountsStay
<1> QED BY <1>2, <1>8, <1>9, <1>10, <1>14 DEF MlfqInv

\* allocproc(): the child begins in the highest queue with its times at 0.
LEMMA MlfqFork ==
  ASSUME MlfqInv, NEW h \in Harts, NEW s \in Slots, ForkChild(h, s)
  PROVE  MlfqInv'
<1>1. /\ Fork(h, s) /\ priority' = [priority EXCEPT ![s] = 0] /\ GoLast(s, 0)
      /\ q_rtime' = [q_rtime EXCEPT ![s] = [k \in Levels |-> 0]]
      /\ q_wtime' = [q_wtime EXCEPT ![s] = [k \in Levels |-> 0]]
      /\ UNCHANGED passVars /\ UNCHANGED clk
  BY DEF ForkChild
<1>2. TableInv'
  BY <1>1, TableFork DEF MlfqInv
<1>3. QueueType
  BY DEF MlfqInv
<1>4. 0 \in 0 .. NLEVEL /\ 0 \in Levels /\ 0 \in 0 .. AGING_LIMIT - 1 /\ 0 \in 0 .. Slice(Lowest)
  BY LevelFacts, LevelSlice
<1>5. index' \in [Slots -> 0 .. MaxIndex] /\ c' \in [0 .. NLEVEL -> 0 .. MaxIndex]
  BY <1>1, <1>3, <1>4, GoLastType
<1>6. /\ priority' \in [Slots -> Levels]
      /\ q_rtime' \in [Slots -> [Levels -> 0 .. Slice(Lowest)]]
      /\ q_wtime' \in [Slots -> [Levels -> 0 .. AGING_LIMIT - 1]]
  BY <1>1, <1>3, <1>4 DEF QueueType
<1>7. QueueType'
  BY <1>1, <1>3, <1>5, <1>6 DEF QueueType
<1>8. BottomInv'
  BY <1>1, <1>3, LevelFacts DEF MlfqInv, BottomInv, QueueType
<1>9. UNCHANGED <<phase, scan>>
  BY <1>1 DEF Fork, hartVars
<1>10. PassType' /\ CountedInv'
  BY <1>1, <1>2, <1>9, PassStill
<1> QED BY <1>2, <1>7, <1>8, <1>10 DEF MlfqInv

LEMMA MlfqWakeUp ==
  ASSUME MlfqInv, NEW s \in Slots, WakeUp(s) \/ KillSleeper(s)
  PROVE  MlfqInv'
<1>1. Wake(s) /\ UNCHANGED passVars /\ UNCHANGED <<priority, q_rtime, q_wtime, clk>>
  BY DEF WakeUp, KillSleeper, queueVars
<1>2. TableInv'
  BY <1>1, TableWake DEF MlfqInv
<1>3. UNCHANGED <<phase, scan>>
  BY <1>1 DEF Wake, hartVars
<1>4. PassType' /\ CountedInv'
  BY <1>1, <1>2, <1>3, PassStill
<1>5. index' \in [Slots -> 0 .. MaxIndex] /\ c' \in [0 .. NLEVEL -> 0 .. MaxIndex]
  <2>1. CASE WakeUp(s)
    <3>1. QueueType /\ GoLast(s, priority[s])
      BY <2>1 DEF WakeUp, MlfqInv
    <3>2. priority[s] \in Levels
      BY DEF MlfqInv, QueueType
    <3>3. priority[s] \in 0 .. NLEVEL
      BY <3>2, LevelFacts
    <3> QED BY <3>1, <3>3, GoLastType
  <2>2. CASE KillSleeper(s)
    BY <2>2 DEF KillSleeper, queueVars, MlfqInv, QueueType
  <2> QED BY <2>1, <2>2
<1>6. QueueType' /\ BottomInv'
  BY <1>1, <1>5 DEF MlfqInv, QueueType, BottomInv
<1> QED BY <1>2, <1>4, <1>6 DEF MlfqInv

\* Who has used its slice is not in the lowest queue, so that one below it is a level.
LEMMA MlfqDemote ==
  ASSUME MlfqInv, NEW h \in Harts, Demote(h), clk' \in 0 .. NPROC + 1
  PROVE  MlfqInv'
<1>1. /\ phase[h] = "run" /\ SliceUsed(cur[h])
      /\ priority' = [priority EXCEPT ![cur[h]] = priority[cur[h]] + 1]
      /\ GoLast(cur[h], priority[cur[h]] + 1)
      /\ q_rtime' = [q_rtime EXCEPT ![cur[h]][priority[cur[h]]] = 0,
                                    ![cur[h]][priority[cur[h]] + 1] = 0]
      /\ GiveBack(h, "RUNNABLE") /\ UNCHANGED <<pid, nextpid, q_wtime>>
      /\ Round(h)
  BY DEF Demote
<1>2. /\ priority \in [Slots -> Levels] /\ cur \in [Harts -> Slots \cup {NoSlot}]
      /\ q_rtime \in [Slots -> [Levels -> 0 .. Slice(Lowest)]]
      /\ cur[h] # NoSlot
  BY <1>1 DEF MlfqInv, TableInv, DispatchType, QueueType
<1>3. PICK s \in Slots : s = cur[h]
  BY <1>2
<1>4. PICK k \in Levels : k = priority[s]
  BY <1>2
<1>5. k # Lowest
  <2>1. q_rtime[s][k] >= Slice(k)
    BY <1>1, <1>3, <1>4 DEF SliceUsed
  <2>2. Slice(k) \in Nat /\ 1 <= Slice(k)
    BY LevelSlice
  <2>3. q_rtime[s][Lowest] = 0
    BY DEF MlfqInv, BottomInv
  <2> QED BY <2>1, <2>2, <2>3
<1>6. k + 1 \in Levels /\ k + 1 \in 0 .. NLEVEL
  BY <1>5, LevelFacts
<1>7. /\ priority' = [priority EXCEPT ![s] = k + 1] /\ GoLast(s, k + 1)
      /\ q_rtime' = [q_rtime EXCEPT ![s][k] = 0, ![s][k + 1] = 0]
  BY <1>1, <1>3, <1>4
<1>8. index' \in [Slots -> 0 .. MaxIndex] /\ c' \in [0 .. NLEVEL -> 0 .. MaxIndex]
  BY <1>6, <1>7, GoLastType DEF MlfqInv
<1>9. 0 \in 0 .. Slice(Lowest)
  BY LevelFacts, LevelSlice
<1>10. priority' \in [Slots -> Levels]
  BY <1>2, <1>6, <1>7
<1>11. q_rtime' \in [Slots -> [Levels -> 0 .. Slice(Lowest)]]
  BY <1>2, <1>6, <1>7, <1>9
<1>12. QueueType'
  BY <1>1, <1>8, <1>10, <1>11 DEF MlfqInv, QueueType
<1>13. BottomInv'
  <2>1. ASSUME NEW t \in Slots PROVE q_rtime'[t][Lowest] = 0
    <3>1. q_rtime[t][Lowest] = 0
      BY DEF MlfqInv, BottomInv
    <3> QED BY <1>2, <1>6, <1>7, <3>1, LevelFacts
  <2> QED BY <2>1 DEF BottomInv
<1>14. TableInv'
  BY <1>1, TableStop DEF MlfqInv
<1>15. \A g \in Harts : g # h => phase'[g] = phase[g] /\ scan'[g] = scan[g]
  BY <1>1, OthersStayOnGiveBack DEF MlfqInv
<1>16. Matching(h)
  BY <1>1 DEF Matching
<1>17. PassType' /\ CountedInv'
  BY <1>1, <1>10, <1>14, <1>15, <1>16, PassRound
<1> QED BY <1>12, <1>13, <1>14, <1>17 DEF MlfqInv


LEMMA MlfqTimer ==
  ASSUME MlfqInv, NEW h \in Harts, Timer(h)
  PROVE  MlfqInv'
<1>1. Demote(h) /\ UNCHANGED clk
  BY DEF Timer
<1>2. clk' \in 0 .. NPROC + 1
  BY <1>1 DEF MlfqInv, QueueType
<1> QED BY <1>1, <1>2, MlfqDemote

\* A step of the clock that touches nothing but the clock and the times.
LEMMA MlfqClockOnly ==
  ASSUME MlfqInv, UNCHANGED <<tblVars, hartVars, passVars>>, QueueType', BottomInv'
  PROVE  MlfqInv'
<1>1. UNCHANGED <<state, pid, nextpid, phase, scan, cur, minpid, waiting>>
  BY DEF tblVars, hartVars
<1>2. TableInv'
  BY <1>1 DEF MlfqInv, TableInv, DispatchType, RunningOnHart
<1>3. PassType' /\ CountedInv'
  BY <1>1, <1>2, PassStill
<1> QED BY <1>2, <1>3 DEF MlfqInv

LEMMA MlfqTick ==
  ASSUME MlfqInv, Tick
  PROVE  MlfqInv'
<1>1. UNCHANGED <<tblVars, hartVars, passVars>> /\ UNCHANGED queueVars /\ clk' = 1
  BY DEF Tick
<1>2. clk' \in 0 .. NPROC + 1
  BY <1>1, TableParameters
<1>3. QueueType' /\ BottomInv'
  BY <1>1, <1>2, QueueSame DEF MlfqInv
<1> QED BY <1>1, <1>3, MlfqClockOnly

\* Who waits, waits below the aging limit or goes one level up; who runs is charged up
\* to its slice, which is no more than the one of the lowest queue.
LEMMA MlfqUpdateTime ==
  ASSUME MlfqInv, UpdateTime
  PROVE  MlfqInv'
<1>1. PICK s \in Slots : s = clk
  BY DEF UpdateTime
<1>2. /\ priority \in [Slots -> Levels] /\ index \in [Slots -> 0 .. MaxIndex]
      /\ q_rtime \in [Slots -> [Levels -> 0 .. Slice(Lowest)]]
      /\ q_wtime \in [Slots -> [Levels -> 0 .. AGING_LIMIT - 1]]
      /\ c \in [0 .. NLEVEL -> 0 .. MaxIndex]
  BY DEF MlfqInv, QueueType
<1>3. PICK k \in Levels : k = priority[s]
  BY <1>2
<1>4. UNCHANGED <<tblVars, hartVars, passVars>> /\ clk' = s + 1
  BY <1>1 DEF UpdateTime
<1>5. clk' \in 0 .. NPROC + 1
  BY <1>4, TableParameters DEF Slots
<1>6. CASE Waits(s)
  <2>1. Age(s, k) /\ UNCHANGED q_rtime
    BY <1>1, <1>3, <1>6 DEF UpdateTime
  <2>2. q_wtime[s][k] \in 0 .. AGING_LIMIT - 1
    BY <1>2
  <2>3. CASE k > 0 /\ q_wtime[s][k] + 1 >= AGING_LIMIT
    <3>1. /\ q_wtime' = [q_wtime EXCEPT ![s][k] = 0]
          /\ priority' = [priority EXCEPT ![s] = k - 1]
          /\ GoLast(s, k - 1)
      BY <2>1, <2>3 DEF Age
    <3>2. k - 1 \in Levels /\ k - 1 \in 0 .. NLEVEL /\ 0 \in 0 .. AGING_LIMIT - 1
      BY <2>3, LevelFacts
    <3>3. index' \in [Slots -> 0 .. MaxIndex] /\ c' \in [0 .. NLEVEL -> 0 .. MaxIndex]
      BY <3>1, <3>2, GoLastType DEF MlfqInv
    <3>4. /\ priority' \in [Slots -> Levels]
          /\ q_wtime' \in [Slots -> [Levels -> 0 .. AGING_LIMIT - 1]]
      BY <1>2, <3>1, <3>2
    <3>5. QueueType' /\ BottomInv'
      BY <1>5, <2>1, <3>3, <3>4 DEF MlfqInv, QueueType, BottomInv
    <3> QED BY <1>4, <3>5, MlfqClockOnly
  <2>4. CASE ~ (k > 0 /\ q_wtime[s][k] + 1 >= AGING_LIMIT)
    <3>1. /\ q_wtime' = [q_wtime EXCEPT ![s][k] = IF k > 0 THEN @ + 1 ELSE @]
          /\ UNCHANGED <<priority, index, c>>
      BY <2>1, <2>4 DEF Age
    <3>2. (IF k > 0 THEN q_wtime[s][k] + 1 ELSE q_wtime[s][k]) \in 0 .. AGING_LIMIT - 1
      BY <2>2, <2>4, LevelFacts
    <3>3. q_wtime' \in [Slots -> [Levels -> 0 .. AGING_LIMIT - 1]]
      BY <1>2, <3>1, <3>2
    <3>4. QueueType' /\ BottomInv'
      BY <1>5, <2>1, <3>1, <3>3 DEF MlfqInv, QueueType, BottomInv
    <3> QED BY <1>4, <3>4, MlfqClockOnly
  <2> QED BY <2>3, <2>4
<1>7. CASE ~ Waits(s)
  <2>1. /\ q_rtime' = [q_rtime EXCEPT ![s][k] =
                         IF Counts(k) /\ @ < Slice(k) THEN @ + 1 ELSE @]
        /\ UNCHANGED <<priority, index, q_wtime, c>>
    BY <1>1, <1>3, <1>7 DEF UpdateTime
  <2>2. q_rtime[s][k] \in 0 .. Slice(Lowest)
    BY <1>2
  <2>3. /\ Slice(k) \in Nat /\ Slice(Lowest) \in Nat /\ Slice(k) <= Slice(Lowest)
    BY LevelSlice
  <2>4. (IF Counts(k) /\ q_rtime[s][k] < Slice(k) THEN q_rtime[s][k] + 1 ELSE q_rtime[s][k])
          \in 0 .. Slice(Lowest)
    BY <2>2, <2>3
  <2>5. q_rtime' \in [Slots -> [Levels -> 0 .. Slice(Lowest)]]
    BY <1>2, <2>1, <2>4
  <2>6. QueueType'
    BY <1>5, <2>1, <2>5 DEF MlfqInv, QueueType
  <2>7. BottomInv'
    <3>1. ASSUME NEW t \in Slots PROVE q_rtime'[t][Lowest] = 0
      <4>1. q_rtime[t][Lowest] = 0
        BY DEF MlfqInv, BottomInv
      <4>2. CASE k = Lowest
        <5>1. ~ Counts(k)
          BY <4>2, LevelFacts DEF Counts
        <5> QED BY <1>2, <2>1, <4>1, <5>1, LevelFacts
      <4>3. CASE k # Lowest
        BY <1>2, <2>1, <4>1, <4>3, LevelFacts
      <4> QED BY <4>2, <4>3
    <3> QED BY <3>1 DEF BottomInv
  <2> QED BY <1>4, <2>6, <2>7, MlfqClockOnly
<1> QED BY <1>6, <1>7

LEMMA MlfqTickReturn ==
  ASSUME MlfqInv, TickReturn
  PROVE  MlfqInv'
<1>1. /\ clk' = 0
      /\ IF phase[ClockHart] = "run" /\ SliceUsed(cur[ClockHart])
         THEN Demote(ClockHart)
         ELSE UNCHANGED <<tblVars, hartVars, queueVars, passVars>>
  BY DEF TickReturn
<1>2. clk' \in 0 .. NPROC + 1
  BY <1>1, TableParameters
<1>3. CASE Demote(ClockHart)
  BY <1>2, <1>3, MlfqDemote, LevelFacts
<1>4. CASE UNCHANGED <<tblVars, hartVars, queueVars, passVars>>
  <2>1. QueueType' /\ BottomInv'
    BY <1>2, <1>4, QueueSame DEF MlfqInv
  <2> QED BY <1>4, <2>1, MlfqClockOnly
<1> QED BY <1>1, <1>3, <1>4

----------------------------------------------------------------------------
(* The invariant *)

LEMMA MlfqInit ==
  ASSUME Init
  PROVE  MlfqInv
<1>1. DispatchInit
  BY DEF Init
<1>2. /\ state = [s \in Slots |-> IF s = 1 THEN "RUNNABLE" ELSE "UNUSED"]
      /\ pid = [s \in Slots |-> IF s = 1 THEN 1 ELSE 0] /\ nextpid = 2
      /\ phase = [h \in Harts |-> "choose"] /\ scan = [h \in Harts |-> 1]
      /\ cur = [h \in Harts |-> NoSlot] /\ minpid = [h \in Harts |-> 0]
      /\ waiting = [h \in Harts |-> {1}]
  BY <1>1 DEF DispatchInit
<1>3. 1 \in Slots /\ 1 \in 1 .. MaxPid /\ 0 \in 0 .. MaxPid /\ 1 \in 0 .. MaxPid
      /\ 2 \in 1 .. MaxPid + 1
  BY TableParameters DEF Slots
<1>4. DispatchType
  BY <1>2, <1>3 DEF DispatchType, FirstPass
<1>5. TableInv
  BY <1>2, <1>4, TableParameters DEF TableInv, RunningOnHart
<1>6. 0 \in Levels /\ 0 \in 0 .. Slice(Lowest) /\ 0 \in 0 .. AGING_LIMIT - 1
      /\ 0 \in 0 .. MaxIndex /\ (MaxIndex > 0 => 1 \in 0 .. MaxIndex) /\ 0 \in 0 .. NPROC + 1
  BY LevelFacts, LevelSlice, TableParameters
<1>7. /\ priority = [s \in Slots |-> 0] /\ index = [s \in Slots |-> 0]
      /\ q_rtime = [s \in Slots |-> [k \in Levels |-> 0]]
      /\ q_wtime = [s \in Slots |-> [k \in Levels |-> 0]]
      /\ c = [k \in 0 .. NLEVEL |-> IF k = 0 /\ MaxIndex > 0 THEN 1 ELSE 0]
      /\ q = [k \in Levels |-> [n \in Places |-> NoSlot]] /\ i = [h \in Harts |-> NoneCounted]
      /\ level = [h \in Harts |-> 0] /\ split = [h \in Harts |-> FALSE]
      /\ clk = 0 /\ startlevel = [h \in Harts |-> priority]
  BY DEF Init
<1>8. QueueType
  BY <1>6, <1>7 DEF QueueType
<1>9. BottomInv
  BY <1>7, LevelFacts DEF BottomInv
<1>10. NoneCounted \in [Levels -> Nat] /\ \A k \in Levels : NoneCounted[k] = 0
  BY DEF NoneCounted
<1>11. PassType
  BY <1>6, <1>7, <1>8, <1>10 DEF PassType, QueueType
<1>12. CountedInv
  BY <1>2, <1>7, <1>10, TableParameters DEF CountedInv, Counting, Matching
<1> QED BY <1>5, <1>8, <1>9, <1>11, <1>12 DEF MlfqInv

LEMMA MlfqNext ==
  ASSUME MlfqInv, [Next]_vars
  PROVE  MlfqInv'
<1>1. ASSUME NEW h \in Harts, Schedule(h) PROVE MlfqInv'
  BY <1>1, MlfqChoose, MlfqQueue, MlfqCount, MlfqSort, MlfqPick, MlfqUnchanged, MlfqSkip, MlfqRun
     DEF Schedule, Panic
<1>2. ASSUME NEW h \in Harts, NEW s \in Slots, ForkChild(h, s) PROVE MlfqInv'
  BY <1>2, MlfqFork
<1>3. ASSUME NEW s \in Slots, WakeUp(s) \/ KillSleeper(s) PROVE MlfqInv'
  BY <1>3, MlfqWakeUp
<1>4. ASSUME NEW h \in Harts, Leave(h) \/ Timer(h) PROVE MlfqInv'
  BY <1>4, MlfqLeave, MlfqTimer
<1>5. CASE Clock
  BY <1>5, MlfqTick, MlfqUpdateTime, MlfqTickReturn DEF Clock
<1>6. CASE UNCHANGED vars
  BY <1>6, MlfqUnchanged
<1> QED BY <1>1, <1>2, <1>3, <1>4, <1>5, <1>6 DEF Next

LEMMA MlfqSafe ==
  ASSUME MlfqInv
  PROVE  TypeOK /\ RunningOnHart
<1>1. i \in [Harts -> [Levels -> 0 .. NPROC]]
  <2>1. \A h \in Harts, k \in Levels : i[h][k] \in Nat /\ i[h][k] <= NPROC
    BY DEF MlfqInv, PassType, CountedInv
  <2>2. \A h \in Harts, k \in Levels : i[h][k] \in 0 .. NPROC
    BY <2>1, TableParameters
  <2> QED BY <2>2 DEF MlfqInv, PassType
<1> QED BY <1>1 DEF MlfqInv, TableInv, QueueType, PassType, TypeOK

LEMMA MlfqAlways == Spec => []MlfqInv
<1>1. Init => MlfqInv
  BY MlfqInit
<1>2. MlfqInv /\ [Next]_vars => MlfqInv'
  BY MlfqNext
<1> QED BY <1>1, <1>2, PTL DEF Spec

\* Every variable keeps its type: no priority passes the end of the arrays of NLEVEL that
\* it indexes, though both demotions (trap.c:86-98, 173-185) add 1 to it without a test.
THEOREM TypeCorrect == Spec => []TypeOK
<1>1. MlfqInv => TypeOK
  BY MlfqSafe
<1> QED BY <1>1, MlfqAlways, PTL

\* A process is RUNNING exactly while some hart has swtched to it (proc.c:637-642), on
\* any number of harts.
THEOREM RunningCorrect == Spec => []RunningOnHart
<1>1. MlfqInv => RunningOnHart
  BY MlfqSafe
<1> QED BY <1>1, MlfqAlways, PTL
=============================================================================
