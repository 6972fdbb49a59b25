------------------------------ MODULE ProcTree ------------------------------
(***************************************************************************)
(* What fork, exit and wait promise, without slots, locks or schedulers:   *)
(* a tree of processes named by pids that are never used twice.  A process *)
(* that leaves hands each of its children to init before it becomes a      *)
(* zombie, and a zombie is removed once, by its parent.                    *)
(***************************************************************************)
EXTENDS Naturals

CONSTANT Pids  \* the pids there are; init's is 1

VARIABLES
  parentOf,  \* the pid of the parent, for every process in the tree
  leaving,   \* the processes inside exit()
  zombies,   \* those that have left and wait to be reaped
  spent      \* the pids that can never be given out again

vars == <<parentOf, leaving, zombies, spent>>

Live == DOMAIN parentOf \ (leaving \cup zombies)

Init ==
  /\ parentOf = [q \in {1} |-> 0]
  /\ leaving = {}
  /\ zombies = {}
  /\ spent = {1}

Fork(p, q) ==
  /\ p \in Live
  /\ q \notin spent
  /\ parentOf' = [r \in DOMAIN parentOf \cup {q} |->
                    IF r = q THEN p ELSE parentOf[r]]
  /\ spent' = spent \cup {q}
  /\ UNCHANGED <<leaving, zombies>>

\* A pid is spent on a child that could not be made.
ForkFailed(q) ==
  /\ q \notin spent
  /\ spent' = spent \cup {q}
  /\ UNCHANGED <<parentOf, leaving, zombies>>

Leave(p) ==
  /\ p \in Live \ {1}
  /\ leaving = {}
  /\ leaving' = {p}
  /\ UNCHANGED <<parentOf, zombies, spent>>

Adopt(q) ==
  /\ parentOf[q] \in leaving
  /\ parentOf' = [parentOf EXCEPT ![q] = 1]
  /\ UNCHANGED <<leaving, zombies, spent>>

Exit(p) ==
  /\ p \in leaving
  /\ \A q \in DOMAIN parentOf : parentOf[q] # p
  /\ leaving' = {}
  /\ zombies' = zombies \cup {p}
  /\ UNCHANGED <<parentOf, spent>>

Reap(p, q) ==
  /\ p \in Live
  /\ q \in zombies
  /\ parentOf[q] = p
  /\ parentOf' = [r \in DOMAIN parentOf \ {q} |-> parentOf[r]]
  /\ zombies' = zombies \ {q}
  /\ UNCHANGED <<leaving, spent>>

Next ==
  \/ \E p \in DOMAIN parentOf, q \in Pids : Fork(p, q)
  \/ \E q \in Pids : ForkFailed(q)
  \/ \E p \in DOMAIN parentOf : Leave(p) \/ Adopt(p) \/ Exit(p)
  \/ \E p, q \in DOMAIN parentOf : Reap(p, q)

Spec == Init /\ [][Next]_vars
=============================================================================
