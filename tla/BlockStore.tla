----------------------------- MODULE BlockStore -----------------------------
(***************************************************************************)
(* What the buffer cache promises: each block has its contents and at most *)
(* one process that uses it, who sees the contents and alone changes them. *)
(***************************************************************************)
CONSTANTS Procs, Blocks, Vals, Nothing

VARIABLES
  content,   \* of each block, written to the disk or not
  holders,   \* the processes that have the block
  seen       \* what a process reads in the block it has

vars == <<content, holders, seen>>

Init ==
  /\ content \in [Blocks -> Vals]
  /\ holders = [n \in Blocks |-> {}]
  /\ seen = [p \in Procs |-> Nothing]

\* bread() returns.
Get(p, n) ==
  /\ holders[n] = {}
  /\ holders' = [holders EXCEPT ![n] = {p}]
  /\ seen' = [seen EXCEPT ![p] = content[n]]
  /\ UNCHANGED content

Change(p, n, v) ==
  /\ holders[n] = {p}
  /\ content' = [content EXCEPT ![n] = v]
  /\ seen' = [seen EXCEPT ![p] = v]
  /\ UNCHANGED holders

\* brelse().
Put(p, n) ==
  /\ holders[n] = {p}
  /\ holders' = [holders EXCEPT ![n] = {}]
  /\ seen' = [seen EXCEPT ![p] = Nothing]
  /\ UNCHANGED content

Next == \E p \in Procs, n \in Blocks :
          Get(p, n) \/ Put(p, n) \/ \E v \in Vals : Change(p, n, v)

Spec == Init /\ [][Next]_vars
=============================================================================
