----------------------------- MODULE AtomicDisk -----------------------------
(***************************************************************************)
(* What the log of kernel/log.c promises to the file system: a disk whose  *)
(* contents change only at a commit, by all the writes of a whole number   *)
(* of operations at once, and which loses everything else in a crash.      *)
(***************************************************************************)

CONSTANTS Procs, Blocks, Vals

VARIABLES
  durable,  \* what a crash leaves
  view,     \* what the operations see
  active    \* the processes between begin_op() and end_op()

vars == <<durable, view, active>>

Init ==
  /\ durable \in [Blocks -> Vals]
  /\ view = durable
  /\ active = {}

Begin(p) ==
  /\ p \notin active
  /\ active' = active \cup {p}
  /\ UNCHANGED <<durable, view>>

Write(p, b, v) ==
  /\ p \in active
  /\ view' = [view EXCEPT ![b] = v]
  /\ UNCHANGED <<durable, active>>

End(p) ==
  /\ p \in active
  /\ active' = active \ {p}
  /\ UNCHANGED <<durable, view>>

\* Nobody is half-way through an operation.
Commit ==
  /\ active = {}
  /\ durable' = view
  /\ UNCHANGED <<view, active>>

Crash ==
  /\ view' = durable
  /\ active' = {}
  /\ UNCHANGED durable

Next ==
  \/ \E p \in Procs :
       \/ Begin(p) \/ End(p)
       \/ \E b \in Blocks, v \in Vals : Write(p, b, v)
  \/ Commit
  \/ Crash

Spec == Init /\ [][Next]_vars
=============================================================================
