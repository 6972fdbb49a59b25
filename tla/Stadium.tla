------------------------------- MODULE Stadium --------------------------------
(***************************************************************************)
(* The stadium of src/OSN_ass5/q2.  A spectator is a thread, with one more *)
(* for each zone it may sit in; these wait for a seat with a timeout, and  *)
(* the first to pass spec_locks, which is never released, may take one.    *)
(* The timer thread goes over everybody once a second: it signals those    *)
(* whose time is up or who are enraged, and the groups that are all at     *)
(* the exit, each until it has seen it leave.                              *)
(*                                                                         *)
(* Times are what is left of them.  A condition is taken to be signalled   *)
(* only by pthread_cond_signal(), though none of the waits has a loop.     *)
(***************************************************************************)
EXTENDS Integers, FiniteSets, Sequences

CONSTANTS
  Spectators,  \* those of main(), in the order of the timer
  Group,       \* the group of each
  Zone,        \* "H", "A" or "N"
  R,           \* the goals it stands
  Capacity,    \* the seats of each zone
  X,           \* how long a spectator watches
  MaxGoals     \* bound: the goals of a team

Seats == {"H", "A", "N"}
Watchers == {Spectators[n] : n \in 1 .. Len(Spectators)}
Groups == {Group[k] : k \in Watchers}
Others(k) == {n \in Watchers : Group[n] = Group[k]}

\* Assumed where the module is instantiated (Simulations).
Parameters ==
  /\ Spectators \in Seq(Watchers)
  /\ Group \in [Watchers -> Nat]
  /\ Zone \in [Watchers -> Seats]
  /\ R \in [Watchers -> Nat]
  /\ Capacity \in [Seats -> Nat]
  /\ X \in Nat \ {0} /\ MaxGoals \in Nat

VARIABLES
  state,    \* of a spectator
  enraged,
  left,     \* how long until its etime, which malloc() leaves to chance
  chosen,   \* spec_locks[k] is taken
  sem,      \* the value of the semaphore of a zone
  zone,     \* where the thread of a spectator for a zone is
  got,      \* it has got a seat
  main,     \* where the spectator's own thread is
  goals,    \* G_H and G_A
  timer     \* where the timer is: looking at, or ringing for, its n-th spectator

spectatorVars == <<state, chosen, sem, zone, got, main>>
vars == <<spectatorVars, enraged, left, goals, timer>>

Init ==
  /\ state = [k \in Watchers |-> "not_reached"]
  /\ enraged = [k \in Watchers |-> FALSE]
  /\ left \in [Watchers -> {0, X}]
  /\ chosen = [k \in Watchers |-> FALSE]
  /\ sem = Capacity
  /\ zone = [k \in Watchers |-> [z \in Seats |-> "gone"]]
  /\ got = [k \in Watchers |-> [z \in Seats |-> FALSE]]
  /\ main = [k \in Watchers |-> "away"]
  /\ goals = [team \in {"H", "A"} |-> 0]
  /\ timer = [at |-> "pause", n |-> 1]

To(k, z, l) == zone' = [zone EXCEPT ![k][z] = l]

----------------------------------------------------------------------------
(* init_spectators() and wait_seat() *)

ZonesOf(k) == CASE Zone[k] = "A" -> {"A"}
                [] Zone[k] = "H" -> {"H", "N"}
                [] Zone[k] = "N" -> {"H", "A", "N"}

Arrive(k) ==
  /\ main[k] = "away"
  /\ state' = [state EXCEPT ![k] = "waiting_seat"]
  /\ main' = [main EXCEPT ![k] = "join"]
  /\ zone' = [zone EXCEPT ![k] = [z \in Seats |-> IF z \in ZonesOf(k) THEN "ask" ELSE "gone"]]
  /\ UNCHANGED <<chosen, sem, got, enraged, left, goals, timer>>

\* With a seat or without; it holds its mutex until it sleeps.
ReachGate(k) ==
  /\ main[k] = "join"
  /\ \A z \in Seats : zone[k][z] = "gone"
  /\ state' = [state EXCEPT ![k] = "waiting_friends"]
  /\ main' = [main EXCEPT ![k] = "exit"]
  /\ UNCHANGED <<chosen, sem, zone, got, enraged, left, goals, timer>>

WaitFriends(k) ==
  /\ main[k] = "exit"
  /\ main' = [main EXCEPT ![k] = "asleep"]
  /\ UNCHANGED <<state, chosen, sem, zone, got, enraged, left, goals, timer>>

Exit(k) ==
  /\ main[k] = "woken"
  /\ state' = [state EXCEPT ![k] = "exited"]
  /\ main' = [main EXCEPT ![k] = "done"]
  /\ UNCHANGED <<chosen, sem, zone, got, enraged, left, goals, timer>>

----------------------------------------------------------------------------
(* enterzoneH(), enterzoneA(), enterzoneN() *)

GetSeat(k, z) ==
  /\ zone[k][z] = "ask"
  /\ sem[z] > 0
  /\ sem' = [sem EXCEPT ![z] = @ - 1]
  /\ got' = [got EXCEPT ![k][z] = TRUE]
  /\ To(k, z, "try")
  /\ UNCHANGED <<state, chosen, main, enraged, left, goals, timer>>

\* sem_timedwait() times out only where there is none.
LosePatience(k, z) ==
  /\ zone[k][z] = "ask"
  /\ sem[z] = 0
  /\ To(k, z, "try")
  /\ UNCHANGED <<state, chosen, sem, got, main, enraged, left, goals, timer>>

\* Mutant of MaySit: spec_locks is not looked at.
MaySitTwice(k, z) == got[k][z]

\* sem_trywait() is called in any case: who comes first without a seat keeps
\* the others from theirs.
MaySit(k, z) == ~chosen[k] /\ got[k][z]

\* It sits before etime is set, under a mutex that the timer's look does not take.
TrySit(k, z) ==
  /\ zone[k][z] = "try"
  /\ chosen' = [chosen EXCEPT ![k] = TRUE]
  /\ IF MaySit(k, z)
     THEN state' = [state EXCEPT ![k] = "watching_match"] /\ To(k, z, "sit")
     ELSE To(k, z, "post") /\ UNCHANGED state
  /\ UNCHANGED <<sem, got, main, enraged, left, goals, timer>>

Watch(k, z) ==
  /\ zone[k][z] = "sit"
  /\ left' = [left EXCEPT ![k] = X]
  /\ To(k, z, "asleep")
  /\ UNCHANGED <<state, chosen, sem, got, main, enraged, goals, timer>>

StandUp(k, z) ==
  /\ zone[k][z] = "woken"
  /\ state' = [state EXCEPT ![k] = "reached_gate"]
  /\ To(k, z, "post")
  /\ UNCHANGED <<chosen, sem, got, main, enraged, left, goals, timer>>

\* Mutant of Post: the seat is given back by who has none as well.
PostAlways(k, z) ==
  /\ zone[k][z] = "post"
  /\ sem' = [sem EXCEPT ![z] = @ + 1]
  /\ got' = [got EXCEPT ![k][z] = FALSE]
  /\ To(k, z, "gone")
  /\ UNCHANGED <<state, chosen, main, enraged, left, goals, timer>>

Post(k, z) ==
  /\ zone[k][z] = "post"
  /\ sem' = [sem EXCEPT ![z] = IF got[k][z] THEN @ + 1 ELSE @]
  /\ got' = [got EXCEPT ![k][z] = FALSE]
  /\ To(k, z, "gone")
  /\ UNCHANGED <<state, chosen, main, enraged, left, goals, timer>>

----------------------------------------------------------------------------
(* init_timer() *)

At(l, n) == timer' = [at |-> l, n |-> n]
Each == Spectators[timer.n]

\* The next spectator of the pass over them, or over the groups, or the next pass.
Ahead == IF timer.n < Len(Spectators) THEN timer.n + 1 ELSE 1
NextLook == At(IF timer.n < Len(Spectators) THEN "look" ELSE "group", Ahead)
NextExit == At(IF timer.n < Len(Spectators) THEN "group" ELSE "pause", Ahead)

\* A second passes, in which a team may score.
Second ==
  /\ timer.at = "pause"
  /\ At("look", 1)
  /\ left' = [k \in Watchers |->
       IF state[k] = "watching_match" /\ left[k] > 0 THEN left[k] - 1 ELSE left[k]]
  /\ \/ UNCHANGED goals
     \/ \E team \in {"H", "A"} :
          goals[team] < MaxGoals /\ goals' = [goals EXCEPT ![team] = @ + 1]
  /\ UNCHANGED <<spectatorVars, enraged>>

\* R is compared for equality, and neutral spectators do not mind.
Angry(k) == \/ Zone[k] = "H" /\ R[k] = goals["A"]
            \/ Zone[k] = "A" /\ R[k] = goals["H"]

LookAt ==
  /\ timer.at = "look"
  /\ \/ left[Each] = 0 /\ At("ring", timer.n)
     \/ left[Each] > 0 /\ Angry(Each) /\ At("enrage", timer.n)
     \/ left[Each] > 0 /\ ~Angry(Each) /\ NextLook
  /\ UNCHANGED <<spectatorVars, enraged, left, goals>>

Signalled(k) == [zone EXCEPT ![k] = [z \in Seats |-> IF @[z] = "asleep" THEN "woken" ELSE @[z]]]

\* pthread_cond_signal(&match_wait) over and over, while it watches.
Ring ==
  /\ timer.at = "ring"
  /\ IF state[Each] = "watching_match"
     THEN zone' = Signalled(Each) /\ UNCHANGED timer
     ELSE NextLook /\ UNCHANGED zone
  /\ UNCHANGED <<state, chosen, sem, got, main, enraged, left, goals>>

\* The same with spectator[k] taken each time, which a spectator holds until it
\* sleeps.
Enrage ==
  /\ timer.at = "enrage"
  /\ IF state[Each] = "watching_match"
     THEN /\ \A z \in Seats : zone[Each][z] # "sit"
          /\ enraged' = [enraged EXCEPT ![Each] = TRUE]
          /\ zone' = Signalled(Each)
          /\ UNCHANGED timer
     ELSE NextLook /\ UNCHANGED <<enraged, zone>>
  /\ UNCHANGED <<state, chosen, sem, got, main, left, goals>>

\* Mutant of AllAtExit: the loop over the group does not stop at who is missing.
LastAtExit(k) == state[k] = "waiting_friends"

AllAtExit(k) == \A n \in Others(k) : state[n] = "waiting_friends"

\* The group is looked at when the pass is at its first spectator.
FirstOf(n) == \A m \in 1 .. n - 1 : Group[Spectators[m]] # Group[Spectators[n]]

LookGroup ==
  /\ timer.at = "group"
  /\ IF FirstOf(timer.n) /\ AllAtExit(Each) THEN At("call", timer.n) ELSE NextExit
  /\ UNCHANGED <<spectatorVars, enraged, left, goals>>

\* Mutant of CallGroup: each is signalled once.
CallGroupOnce ==
  /\ timer.at = "call"
  /\ main' = [k \in Watchers |->
       IF k \in Others(Each) /\ main[k] = "asleep" THEN "woken" ELSE main[k]]
  /\ NextExit
  /\ UNCHANGED <<state, chosen, sem, zone, got, enraged, left, goals>>

\* Its members are signalled until none is waiting_friends.
CallGroup ==
  /\ timer.at = "call"
  /\ \/ \E k \in Others(Each) :
          /\ state[k] = "waiting_friends"
          /\ main' = [main EXCEPT ![k] = IF @ = "asleep" THEN "woken" ELSE @]
          /\ UNCHANGED timer
     \/ /\ \A k \in Others(Each) : state[k] # "waiting_friends"
        /\ NextExit
        /\ UNCHANGED main
  /\ UNCHANGED <<state, chosen, sem, zone, got, enraged, left, goals>>

----------------------------------------------------------------------------

EnterZone(k, z) ==
  \/ GetSeat(k, z) \/ LosePatience(k, z) \/ TrySit(k, z)
  \/ Watch(k, z) \/ StandUp(k, z) \/ Post(k, z)

Spectate(k) == Arrive(k) \/ ReachGate(k) \/ WaitFriends(k) \/ Exit(k)

SpectatorThreads ==
  \E k \in Watchers : Spectate(k) \/ \E z \in Seats : EnterZone(k, z)

Timer == Second \/ LookAt \/ Ring \/ Enrage \/ LookGroup \/ CallGroup

Next == SpectatorThreads \/ Timer

----------------------------------------------------------------------------

Seated(k) == {z \in Seats : zone[k][z] \in {"sit", "asleep", "woken"}}

\* No seat is sold twice or lost, whoever times out, and a spectator sits in one
\* zone exactly while it watches (globals.c:28-65).
SeatsCounted ==
  /\ \A z \in Seats : sem[z] + Cardinality({k \in Watchers : got[k][z]}) = Capacity[z]
  /\ \A k \in Watchers :
       Cardinality(Seated(k)) = IF state[k] = "watching_match" THEN 1 ELSE 0

\* A group leaves together (main.c:122-146; globals.c:210-219).
LeaveTogether ==
  \A k \in Watchers : state[k] = "exited" =>
    \A n \in Others(k) : state[n] \in {"waiting_friends", "exited"}

\* Everybody has left, with a seat or without: main() ends.
Over == \A k \in Watchers : state[k] = "exited"
=============================================================================
