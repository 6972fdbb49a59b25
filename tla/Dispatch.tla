------------------------------ MODULE Dispatch ------------------------------
(***************************************************************************)
(* What the schedulers FCFS, PBS and MLFQ of kernel/proc.c have in common: *)
(* a hart goes twice over the process table, first to choose a pid, then   *)
(* to find a RUNNABLE slot with this pid and to swtch to it; after the     *)
(* swtch back it goes on with the second pass.  Fcfs, Pbs and Mlfq add     *)
(* what each pass looks at.                                                *)
(*                                                                         *)
(* Proc has the locks and what happens inside fork, exit and wait; here    *)
(* fork is one step, and so are exit and the wait that frees the slot.     *)
(***************************************************************************)
EXTENDS Naturals

CONSTANTS
  NPROC,   \* size of the process table
  Harts,
  MaxPid   \* bound: no fork after the pids 1 .. MaxPid

ASSUME DispatchAssumption ==
  /\ NPROC \in Nat \ {0}
  /\ MaxPid \in Nat \ {0}

Slots  == 1 .. NPROC
NoSlot == 0

VARIABLES
  state, pid, nextpid,
  phase,    \* the pass hart h is in, or "run" while it runs a process
  scan,     \* its cursor in the pass
  cur,      \* c->proc, or NoSlot
  minpid,   \* the pid the first pass has found, or 0
  waiting   \* history: the pids that have been RUNNABLE ever since hart h
            \* began its first pass

tblVars  == <<state, pid, nextpid>>
hartVars == <<phase, scan, cur, minpid, waiting>>

Runnable == {s \in Slots : state[s] = "RUNNABLE"}

\* userinit() has made slot 1.
DispatchInit ==
  /\ state = [s \in Slots |-> IF s = 1 THEN "RUNNABLE" ELSE "UNUSED"]
  /\ pid = [s \in Slots |-> IF s = 1 THEN 1 ELSE 0]
  /\ nextpid = 2
  /\ phase = [h \in Harts |-> "choose"]
  /\ scan = [h \in Harts |-> 1]
  /\ cur = [h \in Harts |-> NoSlot]
  /\ minpid = [h \in Harts |-> 0]
  /\ waiting = [h \in Harts |-> {1}]

----------------------------------------------------------------------------
(* The first pass *)

\* Mutant of NextSlot: p <= &proc[NPROC].
NextSlotPast(h, next) ==
  /\ scan' = [scan EXCEPT ![h] = IF @ > NPROC THEN 1 ELSE @ + 1]
  /\ phase' = [phase EXCEPT ![h] = IF scan[h] > NPROC THEN next ELSE "choose"]

\* Hart h goes on to the next slot, or from the last one to phase next.
NextSlot(h, next) ==
  /\ scan' = [scan EXCEPT ![h] = IF @ = NPROC THEN 1 ELSE @ + 1]
  /\ phase' = [phase EXCEPT ![h] = IF scan[h] = NPROC THEN next ELSE "choose"]

\* The first pass begins again, in the next round of for(;;).
BeginRound(h) ==
  /\ phase' = [phase EXCEPT ![h] = "choose"]
  /\ scan' = [scan EXCEPT ![h] = 1]
  /\ minpid' = [minpid EXCEPT ![h] = 0]
  /\ waiting' = [waiting EXCEPT ![h] = {pid[s] : s \in Runnable}]

----------------------------------------------------------------------------
(* The second pass *)

\* Mutant of Chosen: the state of the first pass is taken for granted.
ChosenByPid(h) == state[scan[h]] # "UNUSED" /\ pid[scan[h]] = minpid[h]

\* The slot under the cursor is RUNNABLE and has the pid that was chosen.
Chosen(h) == state[scan[h]] = "RUNNABLE" /\ pid[scan[h]] = minpid[h]

\* The cursor moves on; after the last slot the hart begins the next round.
Advance(h) ==
  IF scan[h] = NPROC
  THEN BeginRound(h)
  ELSE /\ phase' = [phase EXCEPT ![h] = "match"]
       /\ scan' = [scan EXCEPT ![h] = @ + 1]
       /\ UNCHANGED <<minpid, waiting>>

MatchSkip(h) ==
  /\ phase[h] = "match"
  /\ ~Chosen(h)
  /\ Advance(h)
  /\ UNCHANGED <<tblVars, cur>>

\* swtch to the process: nobody else waits with it any more.
Dispatch(h) ==
  /\ phase[h] = "match"
  /\ Chosen(h)
  /\ state' = [state EXCEPT ![scan[h]] = "RUNNING"]
  /\ phase' = [phase EXCEPT ![h] = "run"]
  /\ cur' = [cur EXCEPT ![h] = scan[h]]
  /\ waiting' = [g \in Harts |-> waiting[g] \ {pid[scan[h]]}]
  /\ UNCHANGED <<pid, nextpid, scan, minpid>>

----------------------------------------------------------------------------
(* The process on hart h *)

\* It gives the hart back in state st; the second pass goes on after its slot.
GiveBack(h, st) ==
  /\ phase[h] = "run"
  /\ state' = [state EXCEPT ![cur[h]] = st]
  /\ cur' = [cur EXCEPT ![h] = NoSlot]
  /\ IF scan[h] = NPROC
     THEN /\ phase' = [phase EXCEPT ![h] = "choose"]
          /\ scan' = [scan EXCEPT ![h] = 1]
          /\ minpid' = [minpid EXCEPT ![h] = 0]
          /\ waiting' = [waiting EXCEPT ![h] =
               {pid[s] : s \in Runnable} \cup
               (IF st = "RUNNABLE" THEN {pid[cur[h]]} ELSE {})]
     ELSE /\ phase' = [phase EXCEPT ![h] = "match"]
          /\ scan' = [scan EXCEPT ![h] = @ + 1]
          /\ UNCHANGED <<minpid, waiting>>

Sleep(h) ==
  /\ GiveBack(h, "SLEEPING")
  /\ UNCHANGED <<pid, nextpid>>

\* init stays.
Exit(h) ==
  /\ GiveBack(h, "UNUSED")
  /\ pid[cur[h]] # 1
  /\ pid' = [pid EXCEPT ![cur[h]] = 0]
  /\ UNCHANGED nextpid

\* Its child gets slot s: allocproc() takes the first UNUSED one.
Fork(h, s) ==
  /\ phase[h] = "run"
  /\ nextpid <= MaxPid
  /\ state[s] = "UNUSED"
  /\ \A t \in 1 .. s - 1 : state[t] # "UNUSED"
  /\ state' = [state EXCEPT ![s] = "RUNNABLE"]
  /\ pid' = [pid EXCEPT ![s] = nextpid]
  /\ nextpid' = nextpid + 1
  /\ UNCHANGED hartVars

\* wakeup(), by a process or an interrupt.
Wake(s) ==
  /\ state[s] = "SLEEPING"
  /\ state' = [state EXCEPT ![s] = "RUNNABLE"]
  /\ UNCHANGED <<pid, nextpid, hartVars>>

----------------------------------------------------------------------------

\* The places in the first pass of the three schedulers.
FirstPass == {"choose", "take", "queue", "count", "sort", "pick"}

DispatchType ==
  /\ state \in [Slots -> {"UNUSED", "SLEEPING", "RUNNABLE", "RUNNING"}]
  /\ pid \in [Slots -> 0 .. MaxPid]
  /\ nextpid \in 1 .. MaxPid + 1
  /\ phase \in [Harts -> FirstPass \cup {"match", "run", "panic"}]
  /\ scan \in [Harts -> Slots]
  /\ cur \in [Harts -> Slots \cup {NoSlot}]
  /\ minpid \in [Harts -> 0 .. MaxPid]
  /\ waiting \in [Harts -> SUBSET (1 .. MaxPid)]

\* Hart h swtches to a process in this step.
Dispatches(h) == phase[h] = "match" /\ phase'[h] = "run"

\* The process with pid n is on slot SlotOf(n).
SlotOf(n) == CHOOSE s \in Slots : pid[s] = n

\* If the first pass of hart h ends in this step, with somebody waiting since it
\* began, it has found a process to run, and this process is still RUNNABLE.
FindsSomeone(h) ==
  phase[h] \in FirstPass /\ phase'[h] = "match" /\ waiting[h] # {}
    => minpid'[h] \in {pid[s] : s \in Runnable}

\* RUNNING is being on a hart (proc.c:637-642).
RunningOnHart ==
  \A s \in Slots : state[s] = "RUNNING" <=> \E h \in Harts : cur[h] = s
=============================================================================
