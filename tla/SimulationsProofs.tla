--------------------------- MODULE SimulationsProofs ---------------------------
(***************************************************************************)
(* The three simulations for every input, any number of threads, and any   *)
(* number of courses, labs, seats and keys: what they share is given out   *)
(* once, and nobody gets ahead.                                            *)
(***************************************************************************)
EXTENDS Simulations, Numbers, FiniteSetTheorems

----------------------------------------------------------------------------
(* The dictionary *)

Serving == {"first", "test", "write", "second", "test2", "reply"}
In(line) == {line[n] : n \in 1 .. Len(line)}
Once(line) == \A m, n \in 1 .. Len(line) : line[m] = line[n] => m = n

DictionaryType ==
  /\ commands \in Inputs
  /\ arg \in 0 .. Len(commands)
  /\ client \in [Q3!Clients -> {"none", "created", "asleep", "sent", "replied", "closed"}]
  /\ cmd \in [Q3!Clients -> 0 .. Len(commands)]
  /\ answer \in [Q3!Clients -> {"none", "yes", "no"}]
  /\ backlog \in Seq(Q3!Clients) /\ thread_q \in Seq(Q3!Clients)
  /\ worker \in [Workers -> Serving \cup {"loop", "asleep", "read"}]
  /\ conn \in [Workers -> 0 .. Len(commands)]
  /\ present \in [Keys -> BOOLEAN]
  /\ locks \in [Keys -> Workers \cup {Nobody}]

\* A client gets its answer after it has sent the command it has copied.
ClientInv ==
  \A n \in Q3!Clients :
    /\ client[n] # "none" => n <= arg
    /\ client[n] \in {"asleep", "sent", "replied", "closed"} => cmd[n] # 0
    /\ answer[n] # "none" => client[n] \in {"sent", "replied", "closed"}

\* A connection is in one place: with the kernel, in the queue, or with a thread.
PlaceInv ==
  /\ Once(backlog) /\ Once(thread_q) /\ In(backlog) \cap In(thread_q) = {}
  /\ \A n \in In(backlog) \cup In(thread_q) : client[n] = "sent" /\ answer[n] = "none"
  /\ \A u \in Workers : worker[u] \in Serving =>
       /\ conn[u] \in Q3!Clients /\ client[conn[u]] = "sent"
       /\ worker[u] # "reply" => answer[conn[u]] = "none"
       /\ conn[u] \notin In(backlog) \cup In(thread_q)
  /\ \A u, v \in Workers :
       worker[u] \in Serving /\ worker[v] \in Serving /\ conn[u] = conn[v] => u = v

\* A thread has the lock of the key it looks at, so that the key stays as it is.
KeyInv ==
  \A u \in Workers :
    /\ worker[u] \in {"test", "write", "test2"} => locks[Q3!KeyOf(u)] = u
    /\ worker[u] = "write" =>
         \/ Q3!Served(u).op = "insert" /\ ~ present[Q3!KeyOf(u)]
         \/ Q3!Served(u).op = "delete" /\ present[Q3!KeyOf(u)]
    /\ worker[u] \in {"second", "test2"} => Q3!Served(u).op = "concat"

DictionaryInv == DictionaryType /\ ClientInv /\ PlaceInv /\ KeyInv /\ Q3!KeysCounted

----------------------------------------------------------------------------
(* The stadium *)

PastGate == {"exit", "asleep", "woken", "done"}
Watching == {"waiting_seat", "watching_match", "reached_gate"}

StadiumType ==
  /\ state \in [Q2!Watchers -> Watching \cup {"not_reached", "waiting_friends", "exited"}]
  /\ main \in [Q2!Watchers -> PastGate \cup {"away", "join"}]
  /\ zone \in [Q2!Watchers ->
                 [Q2!Seats -> {"gone", "ask", "try", "sit", "asleep", "woken", "post"}]]
  /\ got \in [Q2!Watchers -> [Q2!Seats -> BOOLEAN]]
  /\ chosen \in [Q2!Watchers -> BOOLEAN]
  /\ sem \in [Q2!Seats -> Nat]

\* The threads of a spectator for its zones live between its arrival and its way to the
\* exit; one at most sits, and only after spec_locks is taken.
SpectatorInv ==
  \A k \in Q2!Watchers :
    /\ main[k] = "join" <=> state[k] \in Watching
    /\ main[k] \in {"exit", "asleep", "woken"} <=> state[k] = "waiting_friends"
    /\ main[k] = "done" <=> state[k] = "exited"
    /\ \A z \in Q2!Seats : main[k] # "join" => zone[k][z] = "gone"
    /\ \A z \in Q2!Seats : got[k][z] => zone[k][z] \notin {"gone", "ask"}
    /\ IF state[k] = "watching_match"
       THEN chosen[k] /\ \E z \in Q2!Seats : Q2!Seated(k) = {z}
       ELSE Q2!Seated(k) = {}

SeatsInv ==
  \A z \in Q2!Seats : sem[z] + Cardinality({k \in Q2!Watchers : got[k][z]}) = Capacity[z]

\* Nobody is called before its whole group is at the exit.
FriendInv ==
  /\ timer.at = "call" => \A n \in Q2!Others(Q2!Each) : main[n] \in PastGate
  /\ \A k \in Q2!Watchers : main[k] \in {"woken", "done"} =>
       \A n \in Q2!Others(k) : main[n] \in PastGate

StadiumInv == StadiumType /\ SpectatorInv /\ SeatsInv /\ FriendInv

----------------------------------------------------------------------------
(* The courses and their TAs *)

Locked == {"seat", "found", "release", "decide", "moving", "free", "leave", "astray", "overrun"}
Holding == Locked \cup {"conduct", "tutorial"}

TaType ==
  /\ ta \in [Q1!TAs -> [state : {"unassigned", "assigned", "in_tut"}, taship : Nat,
                        current_course : Courses \cup {Nobody}]]
  /\ talock \in [Q1!TAs -> Courses \cup {Nobody}]

TutorialType == tut \in [Courses -> [D : Nat, done : Nat, s : Nat \ {0}]]

StudentType ==
  /\ student \in [Q1!Students ->
       [state : {"not_registered", "waiting", "attending_tut", "selected_course",
                 "exited_simulation"},
        current_pref : 1 .. 3]]
  /\ where \in [Q1!Students ->
                 Courses \cup {"loop", "apply", "look", "doze", "change", "exited"}]
  /\ seen \in [Q1!Students -> Courses \cup {Nobody}]
  /\ late \in [Q1!Students -> {"no", "missed", "skipped"}]

CourseType ==
  /\ input \in Registrations
  /\ lab \in [Labs -> [state : {"TA_available", "No_TA_available"}, bonus : Nat]]
  /\ course \in [Courses -> {"waiting_TA", "waiting_slots", "withdrawn"}]
  /\ at \in [Courses -> Holding \cup {"check", "look", "take", "notify", "exited"}]
  /\ i \in [Courses -> Nat] /\ j \in [Courses -> Nat]
  /\ TaType /\ TutorialType /\ StudentType

\* A TA says which course it serves from the moment it is taken until the course lets
\* it go, and as long as it looks free before that it is locked.
ServiceInv ==
  /\ \A d \in Courses :
       /\ at[d] \in Holding \cup {"look", "take"} =>
            i[d] \in 1 .. Len(Q1!LabsOf[d]) /\ j[d] \in 0 .. Q1!NumTA[Q1!LabAt(d)] - 1
       /\ at[d] \in Holding =>
            /\ ta[Q1!TaAt(d)].current_course = d
            /\ at[d] # "leave" => ta[Q1!TaAt(d)].state # "unassigned"
            /\ at[d] \in Locked => talock[Q1!TaAt(d)] = d
       /\ at[d] \in {"free", "leave"} => course[d] # "waiting_slots"
       /\ course[d] = "withdrawn" => at[d] \in {"notify", "exited"}
  /\ \A t \in Q1!TAs : \A d \in Courses :
       ta[t].current_course = d => at[d] \in Holding /\ t = Q1!TaAt(d)

\* Nobody is more than one TAship behind what its lab allows.
BonusInv ==
  \A t \in Q1!TAs :
    /\ ta[t].taship <= lab[t[1]].bonus /\ lab[t[1]].bonus <= ta[t].taship + 1
    /\ ta[t].taship <= Q1!Quota[t[1]]

----------------------------------------------------------------------------
(* The tutorials and their students *)

Applicants(d) == {s \in Q1!Students : Q1!Waiting(d, s)}
Attendants(d) == {s \in Q1!Students : Q1!Attending(d, s) /\ ~ Q1!Held(s)}

TutorialInv(d) ==
  /\ at[d] # "overrun"
  /\ at[d] \in {"check", "look", "take", "conduct", "free", "leave"} => tut[d] = Q1!NoTutorial
  /\ at[d] \in {"seat", "found"} =>
       /\ tut[d].done <= tut[d].D
       /\ tut[d].D <= tut[d].done + Cardinality({s \in Applicants(d) : s >= tut[d].s})
  /\ at[d] = "found" =>
       tut[d].s \in Applicants(d) /\ tut[d].done < tut[d].D
  /\ at[d] = "tutorial" => tut[d].done = 0 /\ tut[d].s = 1
  /\ at[d] \in {"release", "decide", "moving"} =>
       /\ tut[d].done <= tut[d].D
       /\ \A s \in Attendants(d) : tut[d].s <= s
  /\ at[d] \in {"decide", "moving"} => tut[d].s \in Q1!Students /\ tut[d].done < tut[d].D
  /\ at[d] = "moving" => student[tut[d].s].state = "attending_tut"
  /\ Cardinality(Attendants(d)) = Q1!SeatsTaken(d)

\* The course a student has looked at before it gives up its preference.
LookInv ==
  \A s \in Q1!Students :
    /\ where[s] \in {"look", "change"} => seen[s] \in Courses
    /\ where[s] = "change" => course[seen[s]] = "withdrawn"

SeatingInv ==
  /\ \A d \in Courses : TutorialInv(d)
  /\ \A d, e \in Courses :
       at[d] = "moving" /\ at[e] = "moving" /\ tut[d].s = tut[e].s => d = e
  /\ LookInv

Lost == Q1!Astray \/ Q1!Skipped

CourseInv ==
  /\ CourseType /\ ServiceInv /\ BonusInv
  /\ Lost \/ SeatingInv


----------------------------------------------------------------------------
(* The seats of the stadium *)

LEMMA WatchersFinite == IsFiniteSet(Q2!Watchers)
<1>1. Len(Spectators) \in Nat
  BY SimulationsAssumption DEF Q2!Parameters
<1>2. IsFiniteSet(1 .. Len(Spectators))
  BY <1>1, FS_Interval
<1>3. Spectators \in Surjection(1 .. Len(Spectators), Q2!Watchers)
  BY SimulationsAssumption DEF Q2!Parameters, Q2!Watchers, Surjection
<1> QED BY <1>2, <1>3, FS_Surjection

\* Who has a seat of zone z: the count goes with sem[z].
LEMMA SeatsMove ==
  ASSUME StadiumType, SeatsInv, NEW k \in Q2!Watchers, NEW z \in Q2!Seats, NEW b \in BOOLEAN,
         NEW n \in Nat, n + (IF b THEN 1 ELSE 0) = sem[z] + (IF got[k][z] THEN 1 ELSE 0),
         sem' = [sem EXCEPT ![z] = n], got' = [got EXCEPT ![k][z] = b]
  PROVE  SeatsInv' /\ sem' \in [Q2!Seats -> Nat]
         /\ got' \in [Q2!Watchers -> [Q2!Seats -> BOOLEAN]]
<1>1. /\ sem \in [Q2!Seats -> Nat] /\ got \in [Q2!Watchers -> [Q2!Seats -> BOOLEAN]]
  BY DEF StadiumType
<1>2. /\ sem'[z] = n /\ \A y \in Q2!Seats : y # z => sem'[y] = sem[y]
      /\ got'[k][z] = b
      /\ \A l \in Q2!Watchers, y \in Q2!Seats : l # k \/ y # z => got'[l][y] = got[l][y]
  BY <1>1
<1>3. sem' \in [Q2!Seats -> Nat] /\ got' \in [Q2!Watchers -> [Q2!Seats -> BOOLEAN]]
  BY <1>1
<1>4. ASSUME NEW y \in Q2!Seats
      PROVE  sem'[y] + Cardinality({l \in Q2!Watchers : got'[l][y]}) = Capacity[y]
  <2>1. sem[y] + Cardinality({l \in Q2!Watchers : got[l][y]}) = Capacity[y]
    BY DEF SeatsInv
  <2>2. CASE y # z
    <3>1. {l \in Q2!Watchers : got'[l][y]} = {l \in Q2!Watchers : got[l][y]}
      BY <1>2, <2>2
    <3> QED BY <1>2, <2>1, <2>2, <3>1
  <2>3. CASE y = z
    <3> DEFINE S == {l \in Q2!Watchers : got[l][z]}
               T == {l \in Q2!Watchers : got'[l][z]}
    <3>1. IsFiniteSet(S)
      BY WatchersFinite, FS_Subset
    <3>2. /\ \A l : l # k => (l \in S <=> l \in T)
          /\ k \in S <=> got[k][z]
          /\ k \in T <=> b
      BY <1>2
    <3> HIDE DEF S, T
    <3>3. /\ Cardinality(S) \in Nat /\ Cardinality(T) \in Nat
          /\ Cardinality(T) + (IF k \in S THEN 1 ELSE 0)
               = Cardinality(S) + (IF k \in T THEN 1 ELSE 0)
      BY <3>1, <3>2, SetCount
    <3>4. sem[z] + Cardinality(S) = Capacity[z] /\ sem[z] \in Nat
      BY <1>1, <2>1, <2>3 DEF S
    <3>5. n + Cardinality(T) = Capacity[z]
      BY <3>2, <3>3, <3>4
    <3> QED BY <1>2, <2>3, <3>5 DEF T
  <2> QED BY <2>2, <2>3
<1> QED BY <1>3, <1>4 DEF SeatsInv

LEMMA SeatsSame ==
  ASSUME SeatsInv, UNCHANGED <<sem, got>>
  PROVE  SeatsInv'
BY DEF SeatsInv

----------------------------------------------------------------------------
(* The spectators *)

\* What SpectatorInv says of one of them.
SpectatorOK(k) ==
  /\ main[k] = "join" <=> state[k] \in Watching
  /\ main[k] \in {"exit", "asleep", "woken"} <=> state[k] = "waiting_friends"
  /\ main[k] = "done" <=> state[k] = "exited"
  /\ \A z \in Q2!Seats : main[k] # "join" => zone[k][z] = "gone"
  /\ \A z \in Q2!Seats : got[k][z] => zone[k][z] \notin {"gone", "ask"}
  /\ IF state[k] = "watching_match"
     THEN chosen[k] /\ \E z \in Q2!Seats : Q2!Seated(k) = {z}
     ELSE Q2!Seated(k) = {}

LEMMA SpectatorEach == SpectatorInv <=> \A k \in Q2!Watchers : SpectatorOK(k)
BY DEF SpectatorInv, SpectatorOK

LEMMA SpectatorEachNext == SpectatorInv' <=> \A k \in Q2!Watchers : SpectatorOK(k)'
BY DEF SpectatorInv, SpectatorOK

\* A step of one spectator leaves the others as they are.
LEMMA SpectatorStep ==
  ASSUME SpectatorInv, NEW k \in Q2!Watchers, SpectatorOK(k)',
         \A l \in Q2!Watchers : l # k =>
           /\ main'[l] = main[l] /\ state'[l] = state[l] /\ zone'[l] = zone[l]
           /\ got'[l] = got[l] /\ chosen'[l] = chosen[l]
  PROVE  SpectatorInv'
<1>1. ASSUME NEW l \in Q2!Watchers, l # k PROVE SpectatorOK(l)'
  <2>1. SpectatorOK(l)
    BY SpectatorEach
  <2>2. Q2!Seated(l)' = Q2!Seated(l)
    BY <1>1 DEF Q2!Seated
  <2> QED BY <1>1, <2>1, <2>2 DEF SpectatorOK
<1> QED BY <1>1, SpectatorEachNext

LEMMA FriendSame ==
  ASSUME FriendInv, UNCHANGED <<main, timer>>
  PROVE  FriendInv'
BY DEF FriendInv, Q2!Others, Q2!Each


\* A step of the threads of spectator k for its zones: the spectator does not move.
LEMMA InZone ==
  ASSUME StadiumInv, NEW k \in Q2!Watchers, NEW z \in Q2!Seats,
         Q2!EnterZone(k, z)
  PROVE  StadiumInv'
<1>0. /\ state \in [Q2!Watchers -> Watching \cup {"not_reached", "waiting_friends", "exited"}]
      /\ main \in [Q2!Watchers -> PastGate \cup {"away", "join"}]
      /\ zone \in [Q2!Watchers ->
                     [Q2!Seats -> {"gone", "ask", "try", "sit", "asleep", "woken", "post"}]]
      /\ got \in [Q2!Watchers -> [Q2!Seats -> BOOLEAN]]
      /\ chosen \in [Q2!Watchers -> BOOLEAN] /\ sem \in [Q2!Seats -> Nat]
  BY DEF StadiumInv, StadiumType
<1>1. SpectatorOK(k)
  BY SpectatorEach DEF StadiumInv
<1>2. UNCHANGED <<main, timer>>
  BY DEF Q2!EnterZone, Q2!GetSeat, Q2!LosePatience, Q2!TrySit, Q2!Watch, Q2!StandUp, Q2!Post
<1>3. FriendInv'
  BY <1>2, FriendSame DEF StadiumInv
<1>4. zone[k][z] # "gone"
  BY DEF Q2!EnterZone, Q2!GetSeat, Q2!LosePatience, Q2!TrySit, Q2!Watch, Q2!StandUp, Q2!Post
<1>5. main[k] = "join" /\ state[k] \in Watching
  BY <1>1, <1>4 DEF SpectatorOK
<1>6. ASSUME NEW l, zone' = [zone EXCEPT ![k][z] = l],
             l \in {"gone", "ask", "try", "sit", "asleep", "woken", "post"}
      PROVE  /\ zone' \in [Q2!Watchers ->
                  [Q2!Seats -> {"gone", "ask", "try", "sit", "asleep", "woken", "post"}]]
             /\ zone'[k][z] = l /\ \A y \in Q2!Seats : y # z => zone'[k][y] = zone[k][y]
             /\ \A m \in Q2!Watchers : m # k => zone'[m] = zone[m]
             /\ Q2!Seated(k)' = IF l \in {"sit", "asleep", "woken"}
                                THEN Q2!Seated(k) \cup {z} ELSE Q2!Seated(k) \ {z}
  BY <1>0, <1>6 DEF Q2!Seated
<1>7. CASE Q2!GetSeat(k, z)
  <2>1. /\ zone[k][z] = "ask" /\ sem[z] > 0 /\ sem' = [sem EXCEPT ![z] = sem[z] - 1]
        /\ got' = [got EXCEPT ![k][z] = TRUE] /\ zone' = [zone EXCEPT ![k][z] = "try"]
        /\ UNCHANGED <<state, chosen>>
    BY <1>7 DEF Q2!GetSeat, Q2!To
  <2>2. got[k][z] = FALSE
    BY <1>0, <1>1, <2>1 DEF SpectatorOK
  <2>3. sem[z] \in Nat /\ sem[z] - 1 \in Nat
    BY <1>0, <2>1
  <2>4. (sem[z] - 1) + (IF TRUE THEN 1 ELSE 0) = sem[z] + (IF got[k][z] THEN 1 ELSE 0)
    BY <2>2, <2>3
  <2>5. SeatsInv' /\ sem' \in [Q2!Seats -> Nat]
        /\ got' \in [Q2!Watchers -> [Q2!Seats -> BOOLEAN]]
    BY <2>1, <2>3, <2>4, SeatsMove DEF StadiumInv
  <2>6. /\ zone' \in [Q2!Watchers ->
             [Q2!Seats -> {"gone", "ask", "try", "sit", "asleep", "woken", "post"}]]
        /\ zone'[k][z] = "try" /\ \A y \in Q2!Seats : y # z => zone'[k][y] = zone[k][y]
        /\ \A m \in Q2!Watchers : m # k => zone'[m] = zone[m]
        /\ Q2!Seated(k)' = Q2!Seated(k) \ {z}
    BY <1>6, <2>1
  <2>7. Q2!Seated(k)' = Q2!Seated(k)
    BY <2>1, <2>6 DEF Q2!Seated
  <2>8. \A y \in Q2!Seats : got'[k][y] = IF y = z THEN TRUE ELSE got[k][y]
    BY <1>0, <2>1
  <2>9. SpectatorOK(k)'
    BY <1>1, <1>2, <1>5, <2>1, <2>6, <2>7, <2>8 DEF SpectatorOK
  <2>10. \A l \in Q2!Watchers : l # k =>
           /\ main'[l] = main[l] /\ state'[l] = state[l] /\ zone'[l] = zone[l]
           /\ got'[l] = got[l] /\ chosen'[l] = chosen[l]
    BY <1>0, <1>2, <2>1, <2>6
  <2>11. SpectatorInv'
    BY <2>9, <2>10, SpectatorStep DEF StadiumInv
  <2> QED BY <1>0, <1>2, <1>3, <2>1, <2>5, <2>6, <2>11 DEF StadiumInv, StadiumType
<1>8. CASE Q2!LosePatience(k, z)
  <2>1. /\ zone[k][z] = "ask" /\ zone' = [zone EXCEPT ![k][z] = "try"]
        /\ UNCHANGED <<state, chosen, sem, got>>
    BY <1>8 DEF Q2!LosePatience, Q2!To
  <2>2. /\ zone' \in [Q2!Watchers ->
             [Q2!Seats -> {"gone", "ask", "try", "sit", "asleep", "woken", "post"}]]
        /\ zone'[k][z] = "try" /\ \A y \in Q2!Seats : y # z => zone'[k][y] = zone[k][y]
        /\ \A m \in Q2!Watchers : m # k => zone'[m] = zone[m]
        /\ Q2!Seated(k)' = Q2!Seated(k) \ {z}
    BY <1>6, <2>1
  <2>3. Q2!Seated(k)' = Q2!Seated(k)
    BY <2>1, <2>2 DEF Q2!Seated
  <2>4. SpectatorOK(k)'
    BY <1>1, <1>2, <1>5, <2>1, <2>2, <2>3 DEF SpectatorOK
  <2>5. SpectatorInv'
    BY <1>2, <2>1, <2>2, <2>4, SpectatorStep DEF StadiumInv
  <2>6. SeatsInv'
    BY <2>1, SeatsSame DEF StadiumInv
  <2> QED BY <1>0, <1>2, <1>3, <2>1, <2>2, <2>5, <2>6 DEF StadiumInv, StadiumType
<1>9. CASE Q2!TrySit(k, z)
  <2>1. /\ zone[k][z] = "try" /\ chosen' = [chosen EXCEPT ![k] = TRUE]
        /\ UNCHANGED <<sem, got>>
    BY <1>9 DEF Q2!TrySit
  <2>2. chosen' \in [Q2!Watchers -> BOOLEAN] /\ chosen'[k] = TRUE
        /\ \A m \in Q2!Watchers : m # k => chosen'[m] = chosen[m]
    BY <1>0, <2>1
  <2>3. SeatsInv'
    BY <2>1, SeatsSame DEF StadiumInv
  <2>4. CASE Q2!MaySit(k, z)
    <3>1. /\ state' = [state EXCEPT ![k] = "watching_match"]
          /\ zone' = [zone EXCEPT ![k][z] = "sit"] /\ ~ chosen[k] /\ got[k][z]
      BY <1>9, <2>4 DEF Q2!TrySit, Q2!MaySit, Q2!To
    <3>2. /\ zone' \in [Q2!Watchers ->
               [Q2!Seats -> {"gone", "ask", "try", "sit", "asleep", "woken", "post"}]]
          /\ zone'[k][z] = "sit" /\ \A y \in Q2!Seats : y # z => zone'[k][y] = zone[k][y]
          /\ \A m \in Q2!Watchers : m # k => zone'[m] = zone[m]
          /\ Q2!Seated(k)' = Q2!Seated(k) \cup {z}
      BY <1>6, <3>1
    <3>3. Q2!Seated(k)' = {z}
      BY <1>1, <3>1, <3>2 DEF SpectatorOK
    <3>4. /\ state'[k] = "watching_match"
          /\ \A m \in Q2!Watchers : m # k => state'[m] = state[m]
          /\ state' \in [Q2!Watchers -> Watching \cup {"not_reached", "waiting_friends", "exited"}]
      BY <1>0, <3>1 DEF Watching
    <3>5. SpectatorOK(k)'
      BY <1>1, <1>2, <1>5, <2>1, <2>2, <3>2, <3>3, <3>4 DEF SpectatorOK, Watching
    <3>6. SpectatorInv'
      BY <1>2, <2>1, <2>2, <3>2, <3>4, <3>5, SpectatorStep DEF StadiumInv
    <3> QED BY <1>0, <1>2, <1>3, <2>1, <2>2, <2>3, <3>2, <3>4, <3>6 DEF StadiumInv, StadiumType
  <2>5. CASE ~ Q2!MaySit(k, z)
    <3>1. zone' = [zone EXCEPT ![k][z] = "post"] /\ UNCHANGED state
      BY <1>9, <2>5 DEF Q2!TrySit, Q2!To
    <3>2. /\ zone' \in [Q2!Watchers ->
               [Q2!Seats -> {"gone", "ask", "try", "sit", "asleep", "woken", "post"}]]
          /\ zone'[k][z] = "post" /\ \A y \in Q2!Seats : y # z => zone'[k][y] = zone[k][y]
          /\ \A m \in Q2!Watchers : m # k => zone'[m] = zone[m]
          /\ Q2!Seated(k)' = Q2!Seated(k) \ {z}
      BY <1>6, <3>1
    <3>3. Q2!Seated(k)' = Q2!Seated(k)
      BY <2>1, <3>2 DEF Q2!Seated
    <3>4. SpectatorOK(k)'
      <4>1. /\ main'[k] = main[k] /\ main[k] = "join" /\ state'[k] = state[k]
            /\ got'[k] = got[k] /\ chosen'[k]
        BY <1>2, <1>5, <2>1, <2>2, <3>1
      <4>2. \A y \in Q2!Seats : got'[k][y] => zone'[k][y] \notin {"gone", "ask"}
        BY <1>1, <3>2, <4>1 DEF SpectatorOK
      <4> QED BY <1>1, <3>3, <4>1, <4>2 DEF SpectatorOK
    <3>5. SpectatorInv'
      BY <1>2, <2>1, <2>2, <3>1, <3>2, <3>4, SpectatorStep DEF StadiumInv
    <3> QED BY <1>0, <1>2, <1>3, <2>1, <2>2, <2>3, <3>1, <3>2, <3>5 DEF StadiumInv, StadiumType
  <2> QED BY <2>4, <2>5
<1>10. CASE Q2!Watch(k, z)
  <2>1. /\ zone[k][z] = "sit" /\ zone' = [zone EXCEPT ![k][z] = "asleep"]
        /\ UNCHANGED <<state, chosen, sem, got>>
    BY <1>10 DEF Q2!Watch, Q2!To
  <2>2. /\ zone' \in [Q2!Watchers ->
             [Q2!Seats -> {"gone", "ask", "try", "sit", "asleep", "woken", "post"}]]
        /\ zone'[k][z] = "asleep" /\ \A y \in Q2!Seats : y # z => zone'[k][y] = zone[k][y]
        /\ \A m \in Q2!Watchers : m # k => zone'[m] = zone[m]
        /\ Q2!Seated(k)' = Q2!Seated(k) \cup {z}
    BY <1>6, <2>1
  <2>3. Q2!Seated(k)' = Q2!Seated(k)
    BY <2>1, <2>2 DEF Q2!Seated
  <2>4. SpectatorOK(k)'
    BY <1>1, <1>2, <1>5, <2>1, <2>2, <2>3 DEF SpectatorOK
  <2>5. SpectatorInv'
    BY <1>2, <2>1, <2>2, <2>4, SpectatorStep DEF StadiumInv
  <2>6. SeatsInv'
    BY <2>1, SeatsSame DEF StadiumInv
  <2> QED BY <1>0, <1>2, <1>3, <2>1, <2>2, <2>5, <2>6 DEF StadiumInv, StadiumType
<1>11. CASE Q2!StandUp(k, z)
  <2>1. /\ zone[k][z] = "woken" /\ zone' = [zone EXCEPT ![k][z] = "post"]
        /\ state' = [state EXCEPT ![k] = "reached_gate"]
        /\ UNCHANGED <<chosen, sem, got>>
    BY <1>11 DEF Q2!StandUp, Q2!To
  <2>2. /\ zone' \in [Q2!Watchers ->
             [Q2!Seats -> {"gone", "ask", "try", "sit", "asleep", "woken", "post"}]]
        /\ zone'[k][z] = "post" /\ \A y \in Q2!Seats : y # z => zone'[k][y] = zone[k][y]
        /\ \A m \in Q2!Watchers : m # k => zone'[m] = zone[m]
        /\ Q2!Seated(k)' = Q2!Seated(k) \ {z}
    BY <1>6, <2>1
  <2>3. z \in Q2!Seated(k)
    BY <2>1 DEF Q2!Seated
  <2>4. Q2!Seated(k)' = {}
    BY <1>1, <2>2, <2>3 DEF SpectatorOK
  <2>5. /\ state'[k] = "reached_gate"
        /\ \A m \in Q2!Watchers : m # k => state'[m] = state[m]
        /\ state' \in [Q2!Watchers -> Watching \cup {"not_reached", "waiting_friends", "exited"}]
    BY <1>0, <2>1 DEF Watching
  <2>6. SpectatorOK(k)'
    BY <1>1, <1>2, <1>5, <2>1, <2>2, <2>4, <2>5 DEF SpectatorOK, Watching
  <2>7. SpectatorInv'
    BY <1>2, <2>1, <2>2, <2>5, <2>6, SpectatorStep DEF StadiumInv
  <2>8. SeatsInv'
    BY <2>1, SeatsSame DEF StadiumInv
  <2> QED BY <1>0, <1>2, <1>3, <2>1, <2>2, <2>5, <2>7, <2>8 DEF StadiumInv, StadiumType
<1>12. CASE Q2!Post(k, z)
  <2>1. /\ zone[k][z] = "post" /\ zone' = [zone EXCEPT ![k][z] = "gone"]
        /\ sem' = [sem EXCEPT ![z] = IF got[k][z] THEN sem[z] + 1 ELSE sem[z]]
        /\ got' = [got EXCEPT ![k][z] = FALSE] /\ UNCHANGED <<state, chosen>>
    BY <1>12 DEF Q2!Post, Q2!To
  <2> DEFINE m == IF got[k][z] THEN sem[z] + 1 ELSE sem[z]
  <2>2. m \in Nat /\ sem[z] \in Nat
    BY <1>0
  <2>3. m + (IF FALSE THEN 1 ELSE 0) = sem[z] + (IF got[k][z] THEN 1 ELSE 0)
    BY <2>2
  <2>4. SeatsInv' /\ sem' \in [Q2!Seats -> Nat]
        /\ got' \in [Q2!Watchers -> [Q2!Seats -> BOOLEAN]]
    BY <2>1, <2>2, <2>3, SeatsMove DEF StadiumInv
  <2>5. /\ zone' \in [Q2!Watchers ->
             [Q2!Seats -> {"gone", "ask", "try", "sit", "asleep", "woken", "post"}]]
        /\ zone'[k][z] = "gone" /\ \A y \in Q2!Seats : y # z => zone'[k][y] = zone[k][y]
        /\ \A n \in Q2!Watchers : n # k => zone'[n] = zone[n]
        /\ Q2!Seated(k)' = Q2!Seated(k) \ {z}
    BY <1>6, <2>1
  <2>6. Q2!Seated(k)' = Q2!Seated(k)
    BY <2>1, <2>5 DEF Q2!Seated
  <2>7. ~ got'[k][z] /\ \A y \in Q2!Seats : y # z => got'[k][y] = got[k][y]
    BY <1>0, <2>1
  <2>8. SpectatorOK(k)'
    <3>1. \A y \in Q2!Seats : got'[k][y] => zone'[k][y] \notin {"gone", "ask"}
      BY <1>1, <2>5, <2>7 DEF SpectatorOK
    <3>2. UNCHANGED <<state, chosen, main>>
      BY <1>2, <2>1
    <3> QED BY <1>1, <1>5, <2>5, <2>6, <3>1, <3>2 DEF SpectatorOK
  <2>9. \A l \in Q2!Watchers : l # k =>
          /\ main'[l] = main[l] /\ state'[l] = state[l] /\ zone'[l] = zone[l]
          /\ got'[l] = got[l] /\ chosen'[l] = chosen[l]
    BY <1>0, <1>2, <2>1, <2>5
  <2>10. SpectatorInv'
    BY <2>8, <2>9, SpectatorStep DEF StadiumInv
  <2> QED BY <1>0, <1>2, <1>3, <2>1, <2>4, <2>5, <2>10 DEF StadiumInv, StadiumType
<1> QED BY <1>7, <1>8, <1>9, <1>10, <1>11, <1>12 DEF Q2!EnterZone


\* A spectator moves on with none of its threads about.
LEMMA GateStep ==
  ASSUME StadiumInv, NEW k \in Q2!Watchers, \A z \in Q2!Seats : zone[k][z] = "gone",
         UNCHANGED <<chosen, sem, got, timer>>,
         NEW to \in PastGate \cup {"join"}, main' = [main EXCEPT ![k] = to],
         main[k] \in PastGate => to \in PastGate,
         to \in {"woken", "done"} => main[k] \in {"woken", "done"},
         NEW new \in Watching \cup {"waiting_friends", "exited"}, new # "watching_match",
         state' = [state EXCEPT ![k] = new],
         to = "join" <=> new \in Watching,
         to \in {"exit", "asleep", "woken"} <=> new = "waiting_friends",
         to = "done" <=> new = "exited",
         NEW there \in [Q2!Seats -> {"gone", "ask"}],
         zone' = [zone EXCEPT ![k] = there],
         to # "join" => there = zone[k]
  PROVE  StadiumInv'
<1>0. /\ state \in [Q2!Watchers -> Watching \cup {"not_reached", "waiting_friends", "exited"}]
      /\ main \in [Q2!Watchers -> PastGate \cup {"away", "join"}]
      /\ zone \in [Q2!Watchers ->
                     [Q2!Seats -> {"gone", "ask", "try", "sit", "asleep", "woken", "post"}]]
      /\ got \in [Q2!Watchers -> [Q2!Seats -> BOOLEAN]]
  BY DEF StadiumInv, StadiumType
<1>1. SpectatorOK(k)
  BY SpectatorEach DEF StadiumInv
<1>2. SeatsInv'
  BY SeatsSame DEF StadiumInv
<1>3. /\ main' \in [Q2!Watchers -> PastGate \cup {"away", "join"}] /\ main'[k] = to
      /\ state' \in [Q2!Watchers -> Watching \cup {"not_reached", "waiting_friends", "exited"}]
      /\ state'[k] = new /\ zone'[k] = there
      /\ \A l \in Q2!Watchers : l # k =>
           main'[l] = main[l] /\ state'[l] = state[l] /\ zone'[l] = zone[l]
  BY <1>0
<1>4. zone' \in [Q2!Watchers ->
                   [Q2!Seats -> {"gone", "ask", "try", "sit", "asleep", "woken", "post"}]]
  BY <1>0
<1>5. Q2!Seated(k)' = {}
  BY <1>3 DEF Q2!Seated
<1>6. \A z \in Q2!Seats : ~ got[k][z]
  BY <1>1 DEF SpectatorOK
<1>7. SpectatorOK(k)'
  BY <1>3, <1>5, <1>6 DEF SpectatorOK
<1>8. SpectatorInv'
  BY <1>3, <1>7, SpectatorStep DEF StadiumInv
<1>9. FriendInv'
  <2>0. \A l \in Q2!Watchers : main[l] \in PastGate => main'[l] \in PastGate
    BY <1>3
  <2>1. timer'.at = "call" => \A n \in Q2!Others(Q2!Each)' : main'[n] \in PastGate
    <3>1. Q2!Others(Q2!Each)' = Q2!Others(Q2!Each) /\ timer' = timer
      BY DEF Q2!Others, Q2!Each
    <3> QED BY <2>0, <3>1 DEF StadiumInv, FriendInv, Q2!Others
  <2>2. \A l \in Q2!Watchers : main'[l] \in {"woken", "done"} => main[l] \in {"woken", "done"}
    BY <1>3
  <2>3. \A l \in Q2!Watchers : main[l] \in {"woken", "done"} =>
          \A n \in Q2!Others(l) : main[n] \in PastGate /\ n \in Q2!Watchers
    BY DEF StadiumInv, FriendInv, Q2!Others
  <2>4. \A l \in Q2!Watchers : main'[l] \in {"woken", "done"} =>
          \A n \in Q2!Others(l) : main'[n] \in PastGate
    BY <2>0, <2>2, <2>3
  <2> QED BY <2>1, <2>4 DEF FriendInv, Q2!Others
<1> QED BY <1>2, <1>3, <1>4, <1>8, <1>9 DEF StadiumInv, StadiumType

\* It arrives, goes to the exit and leaves.
LEMMA AtTheGate ==
  ASSUME StadiumInv, NEW k \in Q2!Watchers, Q2!Spectate(k)
  PROVE  StadiumInv'
<1>1. /\ SpectatorOK(k)
      /\ state \in [Q2!Watchers -> Watching \cup {"not_reached", "waiting_friends", "exited"}]
      /\ zone \in [Q2!Watchers ->
                     [Q2!Seats -> {"gone", "ask", "try", "sit", "asleep", "woken", "post"}]]
  BY SpectatorEach DEF StadiumInv, StadiumType
<1>2. UNCHANGED <<chosen, sem, got, timer>>
  BY DEF Q2!Spectate, Q2!Arrive, Q2!ReachGate, Q2!WaitFriends, Q2!Exit
<1>3. \A z \in Q2!Seats : zone[k][z] = "gone"
  BY <1>1 DEF SpectatorOK, Q2!Spectate, Q2!Arrive, Q2!ReachGate, Q2!WaitFriends, Q2!Exit
<1>4. PICK gone : gone \in [Q2!Seats -> {"gone", "ask"}] /\ gone = zone[k]
  BY <1>1, <1>3
<1>5. "away" \notin PastGate /\ "join" \notin PastGate
  BY DEF PastGate
<1>6. CASE Q2!Arrive(k)
  <2> DEFINE there == [z \in Q2!Seats |-> IF z \in Q2!ZonesOf(k) THEN "ask" ELSE "gone"]
  <2>1. /\ main[k] = "away" /\ state' = [state EXCEPT ![k] = "waiting_seat"]
        /\ main' = [main EXCEPT ![k] = "join"] /\ zone' = [zone EXCEPT ![k] = there]
    BY <1>6 DEF Q2!Arrive
  <2>2. there \in [Q2!Seats -> {"gone", "ask"}]
    OBVIOUS
  <2> HIDE DEF there
  <2>3. "waiting_seat" \in Watching
    BY DEF Watching
  <2> QED BY <1>2, <1>3, <1>5, <2>1, <2>2, <2>3, GateStep
<1>7. CASE Q2!ReachGate(k)
  <2>1. /\ main[k] = "join" /\ state' = [state EXCEPT ![k] = "waiting_friends"]
        /\ main' = [main EXCEPT ![k] = "exit"] /\ UNCHANGED zone
    BY <1>7 DEF Q2!ReachGate
  <2>2. zone' = [zone EXCEPT ![k] = gone]
    BY <1>1, <1>4, <2>1
  <2>3. /\ "exit" \in PastGate \cup {"join"} /\ "exit" \in PastGate
        /\ "waiting_friends" \in Watching \cup {"waiting_friends", "exited"}
        /\ "exit" = "join" <=> "waiting_friends" \in Watching
    BY DEF PastGate, Watching
  <2>4. /\ "exit" \in {"exit", "asleep", "woken"} <=> "waiting_friends" = "waiting_friends"
        /\ "exit" = "done" <=> "waiting_friends" = "exited"
        /\ "exit" \in {"woken", "done"} => main[k] \in {"woken", "done"}
    BY <2>1
  <2>5. /\ main' = [main EXCEPT ![k] = "exit"] /\ main[k] \notin PastGate
        /\ state' = [state EXCEPT ![k] = "waiting_friends"] /\ "waiting_friends" # "watching_match"
        /\ gone \in [Q2!Seats -> {"gone", "ask"}] /\ gone = zone[k]
    BY <1>4, <1>5, <2>1
  <2> QED BY <1>2, <1>3, <2>2, <2>3, <2>4, <2>5, GateStep
<1>8. CASE Q2!WaitFriends(k)
  <2>1. main[k] = "exit" /\ main' = [main EXCEPT ![k] = "asleep"] /\ UNCHANGED <<state, zone>>
    BY <1>8 DEF Q2!WaitFriends
  <2>2. zone' = [zone EXCEPT ![k] = gone]
    BY <1>1, <1>4, <2>1
  <2>3. state' = [state EXCEPT ![k] = "waiting_friends"]
    BY <1>1, <2>1 DEF SpectatorOK
  <2>4. /\ "asleep" \in PastGate \cup {"join"} /\ "asleep" \in PastGate
        /\ "waiting_friends" \in Watching \cup {"waiting_friends", "exited"}
        /\ "asleep" = "join" <=> "waiting_friends" \in Watching
    BY DEF PastGate, Watching
  <2>5. "asleep" \in {"exit", "asleep", "woken"} <=> "waiting_friends" = "waiting_friends"
    OBVIOUS
  <2>6. "asleep" = "done" <=> "waiting_friends" = "exited"
    OBVIOUS
  <2>7. "asleep" \in {"woken", "done"} => main[k] \in {"woken", "done"}
    BY <2>1
  <2>8. main' = [main EXCEPT ![k] = "asleep"]
    BY <2>1
  <2> QED BY <1>2, <1>3, <1>4, <2>2, <2>3, <2>4, <2>5, <2>6, <2>7, <2>8, GateStep
<1>9. CASE Q2!Exit(k)
  <2>1. /\ main[k] = "woken" /\ state' = [state EXCEPT ![k] = "exited"]
        /\ main' = [main EXCEPT ![k] = "done"] /\ UNCHANGED zone
    BY <1>9 DEF Q2!Exit
  <2>2. zone' = [zone EXCEPT ![k] = gone]
    BY <1>1, <1>4, <2>1
  <2>3. /\ "done" \in PastGate \cup {"join"} /\ "done" \in PastGate
        /\ "exited" \in Watching \cup {"waiting_friends", "exited"}
        /\ "done" = "join" <=> "exited" \in Watching
    BY DEF PastGate, Watching
  <2>4. "done" \in {"exit", "asleep", "woken"} <=> "exited" = "waiting_friends"
    OBVIOUS
  <2>5. "done" = "done" <=> "exited" = "exited"
    OBVIOUS
  <2>6. "done" \in {"woken", "done"} => main[k] \in {"woken", "done"}
    BY <2>1
  <2> QED BY <1>2, <1>3, <1>4, <2>1, <2>2, <2>3, <2>4, <2>5, <2>6, GateStep
<1> QED BY <1>6, <1>7, <1>8, <1>9 DEF Q2!Spectate

----------------------------------------------------------------------------
(* The timer of the stadium *)

\* Who is signalled wakes, if it sleeps, and sits where it sat.
LEMMA SignalledStay ==
  ASSUME StadiumInv, zone' = Q2!Signalled(Q2!Each) \/ UNCHANGED zone,
         UNCHANGED <<state, chosen, sem, got, main>>
  PROVE  StadiumType' /\ SpectatorInv' /\ SeatsInv'
<1>0. zone \in [Q2!Watchers ->
                  [Q2!Seats -> {"gone", "ask", "try", "sit", "asleep", "woken", "post"}]]
  BY DEF StadiumInv, StadiumType
<1>1. \A k \in Q2!Watchers :
        /\ zone'[k] \in [Q2!Seats -> {"gone", "ask", "try", "sit", "asleep", "woken", "post"}]
        /\ \A z \in Q2!Seats :
             zone'[k][z] = zone[k][z] \/ (zone[k][z] = "asleep" /\ zone'[k][z] = "woken")
  <2> SUFFICES ASSUME NEW k \in Q2!Watchers
               PROVE
        /\ zone'[k] \in [Q2!Seats -> {"gone", "ask", "try", "sit", "asleep", "woken", "post"}]
        /\ \A z \in Q2!Seats :
             zone'[k][z] = zone[k][z] \/ (zone[k][z] = "asleep" /\ zone'[k][z] = "woken")
    OBVIOUS
  <2>1. zone[k] \in [Q2!Seats -> {"gone", "ask", "try", "sit", "asleep", "woken", "post"}]
    BY <1>0
  <2>2. CASE zone'[k] = zone[k]
    BY <2>1, <2>2
  <2>3. CASE zone'[k] # zone[k]
    <3>1. zone' = Q2!Signalled(Q2!Each)
      BY <2>3
    <3>2. zone'[k] = [z \in Q2!Seats |-> IF zone[k][z] = "asleep" THEN "woken" ELSE zone[k][z]]
      BY <1>0, <2>3, <3>1 DEF Q2!Signalled
    <3> QED BY <2>1, <3>2
  <2> QED BY <2>2, <2>3
<1>2. zone' \in [Q2!Watchers ->
                   [Q2!Seats -> {"gone", "ask", "try", "sit", "asleep", "woken", "post"}]]
  <2>1. CASE zone' = Q2!Signalled(Q2!Each)
    <3> DEFINE f == [z \in Q2!Seats |->
                       IF zone[Q2!Each][z] = "asleep" THEN "woken" ELSE zone[Q2!Each][z]]
    <3>1. zone' = [zone EXCEPT ![Q2!Each] = f]
      BY <2>1 DEF Q2!Signalled
    <3> HIDE DEF f
    <3>2. zone' = [k \in Q2!Watchers |-> zone'[k]]
      BY <1>0, <3>1
    <3> QED BY <1>1, <3>2
  <2> QED BY <1>0, <2>1
<1>3. ASSUME NEW k \in Q2!Watchers PROVE SpectatorOK(k)'
  <2>1. SpectatorOK(k)
    BY SpectatorEach DEF StadiumInv
  <2>2. Q2!Seated(k)' = Q2!Seated(k)
    BY <1>1 DEF Q2!Seated
  <2> QED BY <1>1, <2>1, <2>2 DEF SpectatorOK
<1>4. SpectatorInv'
  BY <1>3, SpectatorEachNext
<1>5. SeatsInv'
  BY SeatsSame DEF StadiumInv
<1> QED BY <1>2, <1>4, <1>5 DEF StadiumInv, StadiumType

LEMMA TimerGoesOn ==
  ASSUME StadiumInv, UNCHANGED main, timer'.at # "call"
  PROVE  FriendInv'
BY DEF StadiumInv, FriendInv, Q2!Others

LEMMA TimerSteps ==
  ASSUME StadiumInv, Q2!Timer
  PROVE  StadiumInv'
<1>1. CASE Q2!Second
  <2>1. UNCHANGED <<state, chosen, sem, zone, got, main>> /\ timer' = [at |-> "look", n |-> 1]
    BY <1>1 DEF Q2!Second, Q2!At, Q2!spectatorVars
  <2>2. timer'.at # "call"
    BY <2>1
  <2> QED BY <2>1, <2>2, SignalledStay, TimerGoesOn DEF StadiumInv
<1>2. CASE Q2!LookAt
  <2>1. UNCHANGED <<state, chosen, sem, zone, got, main>>
    BY <1>2 DEF Q2!LookAt, Q2!spectatorVars
  <2>2. timer'.at # "call"
    BY <1>2 DEF Q2!LookAt, Q2!At, Q2!NextLook
  <2> QED BY <2>1, <2>2, SignalledStay, TimerGoesOn DEF StadiumInv
<1>3. CASE Q2!Ring
  <2>1. UNCHANGED <<state, chosen, sem, got, main>>
    BY <1>3 DEF Q2!Ring
  <2>2. zone' = Q2!Signalled(Q2!Each) \/ UNCHANGED zone
    BY <1>3 DEF Q2!Ring
  <2>3. timer'.at # "call"
    BY <1>3 DEF Q2!Ring, Q2!At, Q2!NextLook
  <2> QED BY <2>1, <2>2, <2>3, SignalledStay, TimerGoesOn DEF StadiumInv
<1>4. CASE Q2!Enrage
  <2>1. UNCHANGED <<state, chosen, sem, got, main>>
    BY <1>4 DEF Q2!Enrage
  <2>2. zone' = Q2!Signalled(Q2!Each) \/ UNCHANGED zone
    BY <1>4 DEF Q2!Enrage
  <2>3. timer'.at # "call"
    BY <1>4 DEF Q2!Enrage, Q2!At, Q2!NextLook
  <2> QED BY <2>1, <2>2, <2>3, SignalledStay, TimerGoesOn DEF StadiumInv
<1>5. CASE Q2!LookGroup
  <2>1. UNCHANGED <<state, chosen, sem, zone, got, main>>
    BY <1>5 DEF Q2!LookGroup, Q2!spectatorVars
  <2>2. CASE timer'.at # "call"
    BY <2>1, <2>2, SignalledStay, TimerGoesOn DEF StadiumInv
  <2>3. CASE timer'.at = "call"
    <3>1. Q2!AllAtExit(Q2!Each) /\ timer' = [at |-> "call", n |-> timer.n]
      BY <1>5, <2>3 DEF Q2!LookGroup, Q2!At, Q2!NextExit
    <3>2. Q2!Each' = Q2!Each
      BY <3>1 DEF Q2!Each
    <3>3. \A n \in Q2!Others(Q2!Each) : main[n] \in PastGate
      BY <3>1, SpectatorEach DEF Q2!AllAtExit, SpectatorOK, StadiumInv, Q2!Others, PastGate
    <3>4. FriendInv'
      BY <2>1, <3>2, <3>3 DEF StadiumInv, FriendInv, Q2!Others
    <3> QED BY <2>1, <3>4, SignalledStay DEF StadiumInv
  <2> QED BY <2>2, <2>3
<1>6. CASE Q2!CallGroup
  <2>0. timer.at = "call" /\ UNCHANGED <<state, chosen, sem, zone, got>>
    BY <1>6 DEF Q2!CallGroup
  <2>1. CASE UNCHANGED main
    <3>1. CASE timer'.at # "call"
      BY <2>0, <2>1, <3>1, SignalledStay, TimerGoesOn DEF StadiumInv
    <3>2. CASE timer'.at = "call"
      <4>1. UNCHANGED timer
        BY <1>6, <3>2 DEF Q2!CallGroup, Q2!At, Q2!NextExit
      <4>2. FriendInv'
        BY <2>1, <4>1, FriendSame DEF StadiumInv
      <4> QED BY <2>0, <2>1, <4>2, SignalledStay DEF StadiumInv
    <3> QED BY <3>1, <3>2
  <2>2. CASE main' # main
    <3>1. PICK k \in Q2!Others(Q2!Each) :
            /\ state[k] = "waiting_friends"
            /\ main' = [main EXCEPT ![k] = IF @ = "asleep" THEN "woken" ELSE @]
            /\ UNCHANGED timer
      BY <1>6, <2>2 DEF Q2!CallGroup
    <3>2. k \in Q2!Watchers /\ Group[k] = Group[Q2!Each]
      BY DEF Q2!Others
    <3>3. main \in [Q2!Watchers -> PastGate \cup {"away", "join"}]
      BY DEF StadiumInv, StadiumType
    <3>4. main' = [main EXCEPT ![k] = "woken"] /\ main[k] = "asleep"
      BY <2>2, <3>1, <3>2, <3>3
    <3>5. /\ main' \in [Q2!Watchers -> PastGate \cup {"away", "join"}]
          /\ main'[k] = "woken" /\ \A l \in Q2!Watchers : l # k => main'[l] = main[l]
      BY <3>2, <3>3, <3>4 DEF PastGate
    <3>6. SpectatorOK(k)
      BY <3>2, SpectatorEach DEF StadiumInv
    <3>7. Q2!Seated(k)' = Q2!Seated(k)
      BY <2>0 DEF Q2!Seated
    <3>8. SpectatorOK(k)'
      BY <2>0, <3>1, <3>4, <3>5, <3>6, <3>7 DEF SpectatorOK, Watching
    <3>9. SpectatorInv'
      BY <2>0, <3>2, <3>5, <3>8, SpectatorStep DEF StadiumInv
    <3>10. SeatsInv'
      BY <2>0, SeatsSame DEF StadiumInv
    <3>11. \A n \in Q2!Others(Q2!Each) : main[n] \in PastGate /\ n \in Q2!Watchers
      BY <2>0 DEF StadiumInv, FriendInv, Q2!Others
    <3>12. \A l \in Q2!Watchers : main[l] \in PastGate => main'[l] \in PastGate
      BY <3>5 DEF PastGate
    <3>13. \A n \in Q2!Others(k) : main'[n] \in PastGate
      BY <3>2, <3>11, <3>12 DEF Q2!Others
    <3>14. \A l \in Q2!Watchers : main'[l] \in {"woken", "done"} =>
             \A n \in Q2!Others(l) : main'[n] \in PastGate
      <4> SUFFICES ASSUME NEW l \in Q2!Watchers, main'[l] \in {"woken", "done"}, l # k
                   PROVE  \A n \in Q2!Others(l) : main'[n] \in PastGate
        BY <3>13
      <4>1. main[l] \in {"woken", "done"}
        BY <3>5
      <4>2. \A n \in Q2!Others(l) : main[n] \in PastGate /\ n \in Q2!Watchers
        BY <4>1 DEF StadiumInv, FriendInv, Q2!Others
      <4> QED BY <3>12, <4>2
    <3>15. Q2!Each' = Q2!Each
      BY <3>1 DEF Q2!Each
    <3>16. FriendInv'
      BY <3>1, <3>11, <3>12, <3>14, <3>15 DEF FriendInv, Q2!Others
    <3> QED BY <2>0, <3>5, <3>9, <3>10, <3>16 DEF StadiumInv, StadiumType
  <2> QED BY <2>1, <2>2
<1> QED BY <1>1, <1>2, <1>3, <1>4, <1>5, <1>6 DEF Q2!Timer

LEMMA StadiumStep ==
  ASSUME StadiumInv, Q2!Next
  PROVE  StadiumInv'
<1>1. CASE Q2!SpectatorThreads
  BY <1>1, InZone, AtTheGate DEF Q2!SpectatorThreads
<1> QED BY <1>1, TimerSteps DEF Q2!Next

LEMMA StadiumSame ==
  ASSUME StadiumInv, UNCHANGED stadiumVars
  PROVE  StadiumInv'
<1>1. UNCHANGED <<state, chosen, sem, zone, got, main, timer>>
  BY DEF stadiumVars
<1>2. FriendInv'
  BY <1>1, FriendSame DEF StadiumInv
<1> QED BY <1>1, <1>2, SignalledStay DEF StadiumInv

LEMMA StadiumInit ==
  ASSUME Q2!Init
  PROVE  StadiumInv
<1>1. /\ state = [k \in Q2!Watchers |-> "not_reached"]
      /\ chosen = [k \in Q2!Watchers |-> FALSE] /\ sem = Capacity
      /\ zone = [k \in Q2!Watchers |-> [z \in Q2!Seats |-> "gone"]]
      /\ got = [k \in Q2!Watchers |-> [z \in Q2!Seats |-> FALSE]]
      /\ main = [k \in Q2!Watchers |-> "away"] /\ timer = [at |-> "pause", n |-> 1]
  BY DEF Q2!Init
<1>2. Capacity \in [Q2!Seats -> Nat]
  BY SimulationsAssumption DEF Q2!Parameters
<1>3. StadiumType
  BY <1>1, <1>2 DEF StadiumType
<1>4. \A k \in Q2!Watchers : SpectatorOK(k)
  BY <1>1 DEF SpectatorOK, Watching, Q2!Seated
<1>5. SeatsInv
  <2>1. ASSUME NEW z \in Q2!Seats
        PROVE  sem[z] + Cardinality({k \in Q2!Watchers : got[k][z]}) = Capacity[z]
    <3>1. {k \in Q2!Watchers : got[k][z]} = {}
      BY <1>1
    <3>2. Cardinality({k \in Q2!Watchers : got[k][z]}) = 0
      BY <3>1, FS_EmptySet
    <3> QED BY <1>1, <1>2, <3>2
  <2> QED BY <2>1 DEF SeatsInv
<1>6. FriendInv
  BY <1>1 DEF FriendInv
<1> QED BY <1>3, <1>4, <1>5, <1>6, SpectatorEach DEF StadiumInv

LEMMA StadiumSafe ==
  ASSUME StadiumInv
  PROVE  Q2!SeatsCounted /\ Q2!LeaveTogether
<1>1. ASSUME NEW k \in Q2!Watchers
      PROVE  Cardinality(Q2!Seated(k)) = IF state[k] = "watching_match" THEN 1 ELSE 0
  <2>1. SpectatorOK(k)
    BY SpectatorEach DEF StadiumInv
  <2>2. CASE state[k] = "watching_match"
    <3>1. PICK z \in Q2!Seats : Q2!Seated(k) = {z}
      BY <2>1, <2>2 DEF SpectatorOK
    <3> QED BY <2>2, <3>1, FS_Singleton
  <2>3. CASE state[k] # "watching_match"
    <3>1. Q2!Seated(k) = {}
      BY <2>1, <2>3 DEF SpectatorOK
    <3> QED BY <2>3, <3>1, FS_EmptySet
  <2> QED BY <2>2, <2>3
<1>2. ASSUME NEW k \in Q2!Watchers, state[k] = "exited", NEW n \in Q2!Others(k)
      PROVE  state[n] \in {"waiting_friends", "exited"}
  <2>1. main[k] = "done" /\ n \in Q2!Watchers
    BY <1>2, SpectatorEach DEF StadiumInv, SpectatorOK, Q2!Others
  <2>2. main[n] \in PastGate
    BY <2>1 DEF StadiumInv, FriendInv
  <2> QED BY <2>1, <2>2, SpectatorEach DEF StadiumInv, SpectatorOK, PastGate
<1>3. Q2!SeatsCounted
  <2>1. \A S : Q2!Cardinality(S) = Cardinality(S)
    BY DEF Q2!Cardinality, Cardinality
  <2> QED BY <1>1, <2>1 DEF StadiumInv, SeatsInv, Q2!SeatsCounted
<1>4. Q2!LeaveTogether
  BY <1>2 DEF Q2!LeaveTogether
<1> QED BY <1>3, <1>4

----------------------------------------------------------------------------
(* Lines of connections *)

LEMMA AppendOnce ==
  ASSUME NEW S, NEW line \in Seq(S), NEW x \in S, Once(line), x \notin In(line)
  PROVE  /\ Append(line, x) \in Seq(S) /\ Once(Append(line, x))
         /\ In(Append(line, x)) = In(line) \cup {x}
<1> DEFINE longer == Append(line, x)
<1>1. /\ Len(line) \in Nat /\ Len(longer) = Len(line) + 1
      /\ longer[Len(line) + 1] = x /\ \A n \in 1 .. Len(line) : longer[n] = line[n]
      /\ longer \in Seq(S)
  OBVIOUS
<1> HIDE DEF longer
<1>2. 1 .. Len(longer) = (1 .. Len(line)) \cup {Len(line) + 1}
  BY <1>1
<1>3. In(longer) = In(line) \cup {x}
  BY <1>1, <1>2 DEF In
<1>4. Once(longer)
  <2> SUFFICES ASSUME NEW m \in 1 .. Len(longer), NEW n \in 1 .. Len(longer),
                      longer[m] = longer[n]
               PROVE  m = n
    BY DEF Once
  <2>1. CASE m \in 1 .. Len(line) /\ n \in 1 .. Len(line)
    BY <1>1, <2>1 DEF Once
  <2>2. ASSUME NEW y \in 1 .. Len(line) PROVE longer[y] # x
    BY <1>1 DEF In
  <2> QED BY <1>1, <1>2, <2>1, <2>2
<1> QED BY <1>1, <1>3, <1>4 DEF longer

LEMMA TailOnce ==
  ASSUME NEW S, NEW line \in Seq(S), line # <<>>, Once(line)
  PROVE  /\ Tail(line) \in Seq(S) /\ Once(Tail(line))
         /\ Head(line) \in S /\ Head(line) \in In(line)
         /\ In(Tail(line)) = In(line) \ {Head(line)}
<1> DEFINE rest == Tail(line)
<1>1. /\ Len(line) \in Nat \ {0} /\ Len(rest) = Len(line) - 1 /\ Head(line) = line[1]
      /\ \A n \in 1 .. Len(rest) : rest[n] = line[n + 1]
      /\ rest \in Seq(S) /\ Head(line) \in S
  OBVIOUS
<1> HIDE DEF rest
<1>2. Head(line) \in In(line)
  BY <1>1 DEF In
<1>3. Once(rest)
  <2> SUFFICES ASSUME NEW m \in 1 .. Len(rest), NEW n \in 1 .. Len(rest), rest[m] = rest[n]
               PROVE  m = n
    BY DEF Once
  <2>1. m + 1 \in 1 .. Len(line) /\ n + 1 \in 1 .. Len(line) /\ line[m + 1] = line[n + 1]
    BY <1>1
  <2>2. m + 1 = n + 1
    BY <2>1 DEF Once
  <2> QED BY <1>1, <2>2
<1>4. In(rest) = In(line) \ {Head(line)}
  <2>1. ASSUME NEW y \in In(rest) PROVE y \in In(line) \ {Head(line)}
    <3>1. PICK n \in 1 .. Len(rest) : y = rest[n]
      BY DEF In
    <3>2. n + 1 \in 1 .. Len(line) /\ y = line[n + 1] /\ n + 1 # 1 /\ 1 \in 1 .. Len(line)
      BY <1>1, <3>1
    <3>3. line[n + 1] # line[1]
      BY <3>2 DEF Once
    <3> QED BY <1>1, <3>2, <3>3 DEF In
  <2>2. ASSUME NEW y \in In(line), y # Head(line) PROVE y \in In(rest)
    <3>1. PICK n \in 1 .. Len(line) : y = line[n]
      BY DEF In
    <3>2. n # 1
      BY <1>1, <2>2, <3>1
    <3>3. n - 1 \in 1 .. Len(rest) /\ (n - 1) + 1 = n
      BY <1>1, <3>2
    <3>4. rest[n - 1] = y
      BY <1>1, <3>1, <3>3
    <3> QED BY <3>3, <3>4 DEF In
  <2> QED BY <2>1, <2>2
<1> QED BY <1>1, <1>2, <1>3, <1>4 DEF rest

----------------------------------------------------------------------------
(* The answers of the dictionary *)

LEMMA Q3Cardinality == \A S : Q3!Cardinality(S) = Cardinality(S)
BY DEF Q3!Cardinality, Cardinality

LEMMA CommandsAre ==
  ASSUME DictionaryType
  PROVE  /\ commands \in Seq([op   : {"insert", "delete", "update", "concat", "fetch"},
                              key  : Keys,
                              key2 : Keys])
         /\ Len(commands) \in Nat /\ IsFiniteSet(Q3!Clients)
         /\ \A n \in 1 .. Len(commands) :
              /\ commands[n].op \in {"insert", "delete", "update", "concat", "fetch"}
              /\ commands[n].key \in Keys /\ commands[n].key2 \in Keys
         /\ Nobody \notin Workers
<1>1. commands \in Seq([op   : {"insert", "delete", "update", "concat", "fetch"},
                        key  : Keys,
                        key2 : Keys])
  BY SimulationsAssumption DEF DictionaryType, Q3!Parameters
<1>2. Len(commands) \in Nat
  BY <1>1
<1>3. IsFiniteSet(Q3!Clients)
  BY <1>2, FS_Interval DEF Q3!Clients
<1>4. \A n \in 1 .. Len(commands) :
        commands[n] \in [op   : {"insert", "delete", "update", "concat", "fetch"},
                         key  : Keys,
                         key2 : Keys]
  <2> DEFINE S == [op   : {"insert", "delete", "update", "concat", "fetch"},
                   key  : Keys,
                   key2 : Keys]
  <2>1. commands \in Seq(S)
    BY <1>1
  <2> HIDE DEF S
  <2>2. \A n \in 1 .. Len(commands) : commands[n] \in S
    BY <2>1
  <2> QED BY <2>2 DEF S
<1> QED BY <1>1, <1>2, <1>3, <1>4, SimulationsAssumption DEF Q3!Parameters

\* What a thread at work is at.
LEMMA ServedIs ==
  ASSUME DictionaryInv, NEW u \in Workers, worker[u] \in Serving
  PROVE  /\ conn[u] \in Q3!Clients /\ client[conn[u]] = "sent"
         /\ cmd[conn[u]] \in 1 .. Len(commands)
         /\ Q3!Served(u).op \in {"insert", "delete", "update", "concat", "fetch"}
         /\ Q3!Served(u).key \in Keys /\ Q3!Served(u).key2 \in Keys /\ Q3!KeyOf(u) \in Keys
<1>1. conn[u] \in Q3!Clients /\ client[conn[u]] = "sent"
  BY DEF DictionaryInv, PlaceInv
<1>2. cmd[conn[u]] \in 1 .. Len(commands)
  BY <1>1, CommandsAre DEF DictionaryInv, ClientInv, DictionaryType
<1>3. /\ Q3!Served(u).op \in {"insert", "delete", "update", "concat", "fetch"}
      /\ Q3!Served(u).key \in Keys /\ Q3!Served(u).key2 \in Keys
  BY <1>2, CommandsAre DEF DictionaryInv, Q3!Served
<1> QED BY <1>1, <1>2, <1>3 DEF Q3!KeyOf

\* The count goes on while answers and keys stay as they are.
LEMMA KeysSame ==
  ASSUME Q3!KeysCounted, UNCHANGED <<commands, present>>,
         \A n \in Q3!Clients : answer[n] = "yes" \/ answer'[n] = "yes" =>
           answer'[n] = answer[n] /\ cmd'[n] = cmd[n]
  PROVE  Q3!KeysCounted'
<1>1. \A o, k : Q3!Answered(o, k)' = Q3!Answered(o, k)
  BY DEF Q3!Answered, Q3!Clients
<1> QED BY <1>1, Q3Cardinality DEF Q3!KeysCounted

\* What KeyInv says of one thread.
KeyOK(u) ==
  /\ worker[u] \in {"test", "write", "test2"} => locks[Q3!KeyOf(u)] = u
  /\ worker[u] = "write" =>
       \/ Q3!Served(u).op = "insert" /\ ~ present[Q3!KeyOf(u)]
       \/ Q3!Served(u).op = "delete" /\ present[Q3!KeyOf(u)]
  /\ worker[u] \in {"second", "test2"} => Q3!Served(u).op = "concat"

LEMMA KeyEach == KeyInv <=> \A u \in Workers : KeyOK(u)
BY DEF KeyInv, KeyOK

LEMMA KeyEachNext == KeyInv' <=> \A u \in Workers : KeyOK(u)'
BY DEF KeyInv, KeyOK

\* A thread keeps what it knows while what it looks at stays.
LEMMA KeyKept ==
  ASSUME DictionaryInv, NEW u \in Workers, UNCHANGED commands,
         \/ worker'[u] \notin Serving
         \/ /\ worker'[u] = worker[u] /\ conn'[u] = conn[u] /\ cmd'[conn[u]] = cmd[conn[u]]
            /\ locks[Q3!KeyOf(u)] = u =>
                 locks'[Q3!KeyOf(u)] = u /\ present'[Q3!KeyOf(u)] = present[Q3!KeyOf(u)]
  PROVE  KeyOK(u)'
<1>1. KeyOK(u)
  BY KeyEach DEF DictionaryInv
<1>2. CASE worker'[u] \notin Serving
  BY <1>2 DEF KeyOK, Serving
<1>3. CASE worker'[u] \in Serving
  <2>1. Q3!Served(u)' = Q3!Served(u) /\ worker'[u] = worker[u]
    BY <1>3 DEF Q3!Served
  <2>2. Q3!KeyOf(u)' = Q3!KeyOf(u)
    BY <2>1 DEF Q3!KeyOf
  <2> QED BY <1>1, <1>3, <2>1, <2>2 DEF KeyOK
<1> QED BY <1>2, <1>3


----------------------------------------------------------------------------
(* The clients *)

\* A client that no thread serves goes on.
LEMMA ClientMoves ==
  ASSUME DictionaryInv, NEW n \in Q3!Clients, client[n] # "sent",
         NEW l \in {"created", "asleep", "sent", "replied", "closed"},
         client' = [client EXCEPT ![n] = l],
         NEW x \in 0 .. Len(commands), cmd' = [cmd EXCEPT ![n] = x], l # "created" => x # 0,
         NEW a \in arg .. Len(commands), arg' = a, n <= a,
         answer[n] # "none" => l \in {"sent", "replied", "closed"} /\ x = cmd[n],
         UNCHANGED <<commands, answer, thread_q, worker, conn, present, locks>>,
         \/ l # "sent" /\ UNCHANGED backlog
         \/ l = "sent" /\ answer[n] = "none" /\ backlog' = Append(backlog, n)
  PROVE  DictionaryInv'
<1>0. DictionaryType
  BY DEF DictionaryInv
<1>1. /\ client' \in [Q3!Clients -> {"none", "created", "asleep", "sent", "replied", "closed"}]
      /\ client'[n] = l /\ \A m \in Q3!Clients : m # n => client'[m] = client[m]
      /\ cmd' \in [Q3!Clients -> 0 .. Len(commands)]
      /\ cmd'[n] = x /\ \A m \in Q3!Clients : m # n => cmd'[m] = cmd[m]
  BY <1>0 DEF DictionaryType
<1>2. Q3!Clients' = Q3!Clients
  BY DEF Q3!Clients
<1>3. n \notin In(backlog) \cup In(thread_q)
  BY DEF DictionaryInv, PlaceInv
<1>4. \A u \in Workers : worker[u] \in Serving => conn[u] # n
  BY DEF DictionaryInv, PlaceInv
<1>5. /\ backlog' \in Seq(Q3!Clients) /\ Once(backlog')
      /\ \A m \in In(backlog') : m \in In(backlog) \/ (m = n /\ l = "sent" /\ answer[n] = "none")
  <2>0. backlog \in Seq(Q3!Clients) /\ Once(backlog)
    BY <1>0 DEF DictionaryType, DictionaryInv, PlaceInv
  <2>1. CASE UNCHANGED backlog
    BY <2>0, <2>1
  <2>2. CASE l = "sent" /\ answer[n] = "none" /\ backlog' = Append(backlog, n)
    BY <1>3, <2>0, <2>2, AppendOnce
  <2> QED BY <2>1, <2>2
<1>6. DictionaryType'
  <2>1. arg' \in 0 .. Len(commands)
    BY <1>0, CommandsAre DEF DictionaryType
  <2> QED BY <1>0, <1>1, <1>2, <1>5, <2>1 DEF DictionaryType
<1>7. ClientInv'
  <2> SUFFICES ASSUME NEW m \in Q3!Clients
               PROVE  /\ client'[m] # "none" => m <= a
                      /\ client'[m] \in {"asleep", "sent", "replied", "closed"} => cmd'[m] # 0
                      /\ answer[m] # "none" => client'[m] \in {"sent", "replied", "closed"}
    BY <1>2 DEF ClientInv
  <2>1. /\ client[m] # "none" => m <= arg
        /\ client[m] \in {"asleep", "sent", "replied", "closed"} => cmd[m] # 0
        /\ answer[m] # "none" => client[m] \in {"sent", "replied", "closed"}
    BY DEF DictionaryInv, ClientInv
  <2>2. m \in Int /\ a \in Int /\ arg \in Int /\ arg <= a
    BY <1>0, CommandsAre DEF DictionaryType, Q3!Clients
  <2>3. CASE m = n
    BY <1>1, <2>3
  <2>4. CASE m # n
    BY <1>1, <2>1, <2>2, <2>4
  <2> QED BY <2>3, <2>4
<1>8. PlaceInv'
  <2>1. /\ Once(thread_q)' /\ In(thread_q)' = In(thread_q) /\ In(backlog)' = In(backlog')
        /\ Once(backlog)'
    BY <1>5 DEF DictionaryInv, PlaceInv, Once, In
  <2>2. In(backlog') \cap In(thread_q) = {}
    BY <1>3, <1>5 DEF DictionaryInv, PlaceInv
  <2>3. ASSUME NEW m \in In(backlog') \cup In(thread_q)
        PROVE  client'[m] = "sent" /\ answer[m] = "none"
    <3>1. CASE m = n
      BY <1>1, <1>3, <1>5, <2>3, <3>1
    <3>2. CASE m # n
      <4>1. m \in In(backlog) \cup In(thread_q)
        BY <1>5, <2>3, <3>2
      <4>2. client[m] = "sent" /\ answer[m] = "none"
        BY <4>1 DEF DictionaryInv, PlaceInv
      <4>3. m \in Q3!Clients
        <5>1. backlog \in Seq(Q3!Clients) /\ thread_q \in Seq(Q3!Clients)
          BY <1>0 DEF DictionaryType
        <5> QED BY <4>1, <5>1 DEF In
      <4> QED BY <1>1, <3>2, <4>2, <4>3
    <3> QED BY <3>1, <3>2
  <2>4. ASSUME NEW u \in Workers, worker[u] \in Serving
        PROVE  /\ conn[u] \in Q3!Clients /\ client'[conn[u]] = "sent"
               /\ worker[u] # "reply" => answer[conn[u]] = "none"
               /\ conn[u] \notin In(backlog') \cup In(thread_q)
    <3>1. /\ conn[u] \in Q3!Clients /\ client[conn[u]] = "sent"
          /\ worker[u] # "reply" => answer[conn[u]] = "none"
          /\ conn[u] \notin In(backlog) \cup In(thread_q)
      BY <2>4 DEF DictionaryInv, PlaceInv
    <3> QED BY <1>1, <1>4, <1>5, <2>4, <3>1
  <2>5. \A u, v \in Workers :
          worker[u] \in Serving /\ worker[v] \in Serving /\ conn[u] = conn[v] => u = v
    BY DEF DictionaryInv, PlaceInv
  <2> QED BY <1>2, <2>1, <2>2, <2>3, <2>4, <2>5 DEF PlaceInv
<1>9. KeyInv'
  <2>1. ASSUME NEW u \in Workers PROVE KeyOK(u)'
    <3>1. CASE worker[u] \notin Serving
      BY <3>1, KeyKept
    <3>2. CASE worker[u] \in Serving
      <4>1. cmd'[conn[u]] = cmd[conn[u]]
        BY <1>1, <1>4, <3>2, ServedIs
      <4> QED BY <4>1, KeyKept
    <3> QED BY <3>1, <3>2
  <2> QED BY <2>1, KeyEachNext
<1>10. Q3!KeysCounted'
  <2>1. \A m \in Q3!Clients : answer[m] = "yes" => cmd'[m] = cmd[m]
    BY <1>1
  <2> QED BY <2>1, KeysSame DEF DictionaryInv
<1> QED BY <1>6, <1>7, <1>8, <1>9, <1>10 DEF DictionaryInv

LEMMA ClientSteps ==
  ASSUME DictionaryInv, Q3!Client
  PROVE  DictionaryInv'
<1>0. DictionaryType /\ ClientInv
  BY DEF DictionaryInv
<1>1. /\ client \in [Q3!Clients -> {"none", "created", "asleep", "sent", "replied", "closed"}]
      /\ cmd \in [Q3!Clients -> 0 .. Len(commands)]
      /\ arg \in 0 .. Len(commands) /\ Len(commands) \in Nat /\ Q3!Clients = 1 .. Len(commands)
  BY <1>0, CommandsAre DEF DictionaryType, Q3!Clients
<1>2. \A m \in Q3!Clients : cmd' = cmd => cmd' = [cmd EXCEPT ![m] = cmd[m]] /\ cmd[m] \in 0 .. Len(commands)
  BY <1>1
<1>3. CASE Q3!NewThread
  <2>1. /\ arg + 1 \in Q3!Clients /\ arg + 1 \in arg .. Len(commands)
        /\ arg' = arg + 1 /\ client' = [client EXCEPT ![arg + 1] = "created"]
        /\ UNCHANGED <<commands, cmd, answer, backlog, thread_q, worker, conn, present, locks>>
    BY <1>1, <1>3 DEF Q3!NewThread
  <2>2. client[arg + 1] = "none" /\ answer[arg + 1] = "none"
    BY <1>0, <1>1, <2>1 DEF ClientInv
  <2> DEFINE n == arg + 1
  <2>3. n \in Q3!Clients /\ n \in arg .. Len(commands) /\ n <= n /\ arg' = n
    BY <1>1, <2>1
  <2> HIDE DEF n
  <2>4. /\ client' = [client EXCEPT ![n] = "created"] /\ client[n] = "none" /\ answer[n] = "none"
    BY <2>1, <2>2 DEF n
  <2>5. cmd' = [cmd EXCEPT ![n] = cmd[n]] /\ cmd[n] \in 0 .. Len(commands)
    BY <1>2, <2>1, <2>3
  <2> QED BY <2>1, <2>3, <2>4, <2>5, ClientMoves
<1>4. ASSUME NEW n \in Q3!Clients, Q3!CopyArg(n) PROVE DictionaryInv'
  <2>1. /\ client[n] = "created" /\ cmd' = [cmd EXCEPT ![n] = arg]
        /\ client' = [client EXCEPT ![n] = "asleep"]
        /\ UNCHANGED <<commands, arg, answer, backlog, thread_q, worker, conn, present, locks>>
    BY <1>4 DEF Q3!CopyArg
  <2>2. n <= arg /\ answer[n] = "none"
    BY <1>0, <1>4, <2>1 DEF ClientInv
  <2>3. n \in 1 .. Len(commands)
    BY <1>1, <1>4
  <2>4. arg # 0 /\ arg \in arg .. Len(commands)
    BY <1>1, <2>2, <2>3
  <2> QED BY <1>1, <1>4, <2>1, <2>2, <2>4, ClientMoves
<1>5. ASSUME NEW n \in Q3!Clients, Q3!Connect(n) PROVE DictionaryInv'
  <2>1. /\ client[n] = "asleep" /\ client' = [client EXCEPT ![n] = "sent"]
        /\ backlog' = Append(backlog, n)
        /\ UNCHANGED <<commands, arg, cmd, answer, thread_q, worker, conn, present, locks>>
    BY <1>5 DEF Q3!Connect
  <2>2. n <= arg /\ answer[n] = "none" /\ cmd[n] # 0
    BY <1>0, <1>5, <2>1 DEF ClientInv
  <2>3. cmd' = [cmd EXCEPT ![n] = cmd[n]] /\ cmd[n] \in 0 .. Len(commands)
    BY <1>2, <1>5, <2>1
  <2>4. arg \in arg .. Len(commands)
    BY <1>1
  <2> QED BY <1>5, <2>1, <2>2, <2>3, <2>4, ClientMoves
<1>6. ASSUME NEW n \in Q3!Clients, Q3!ReadAnswer(n) PROVE DictionaryInv'
  <2>1. /\ client[n] = "replied" /\ client' = [client EXCEPT ![n] = "closed"]
        /\ UNCHANGED <<commands, arg, cmd, answer, backlog, thread_q, worker, conn, present, locks>>
    BY <1>6 DEF Q3!ReadAnswer
  <2>2. n <= arg /\ cmd[n] # 0 /\ arg \in arg .. Len(commands)
    BY <1>0, <1>1, <1>6, <2>1 DEF ClientInv, DictionaryType
  <2>3. cmd' = [cmd EXCEPT ![n] = cmd[n]] /\ cmd[n] \in 0 .. Len(commands)
    BY <1>2, <1>6, <2>1
  <2> QED BY <1>6, <2>1, <2>2, <2>3, ClientMoves
<1> QED BY <1>3, <1>4, <1>5, <1>6 DEF Q3!Client


----------------------------------------------------------------------------
(* The server *)

LEMMA AcceptStep ==
  ASSUME DictionaryInv, Q3!Accept
  PROVE  DictionaryInv'
<1>0. /\ DictionaryType
      /\ backlog \in Seq(Q3!Clients) /\ thread_q \in Seq(Q3!Clients)
      /\ worker \in [Workers -> Serving \cup {"loop", "asleep", "read"}]
      /\ Once(backlog) /\ Once(thread_q) /\ In(backlog) \cap In(thread_q) = {}
  BY DEF DictionaryInv, DictionaryType, PlaceInv
<1>1. /\ backlog # <<>> /\ backlog' = Tail(backlog)
      /\ thread_q' = Append(thread_q, Head(backlog))
      /\ UNCHANGED <<commands, arg, client, cmd, answer, conn, present, locks>>
  BY DEF Q3!Accept, Q3!clientVars
<1>2. /\ backlog' \in Seq(Q3!Clients) /\ Once(backlog')
      /\ Head(backlog) \in Q3!Clients /\ Head(backlog) \in In(backlog)
      /\ In(backlog') = In(backlog) \ {Head(backlog)}
  BY <1>0, <1>1, TailOnce
<1>3. /\ thread_q' \in Seq(Q3!Clients) /\ Once(thread_q')
      /\ In(thread_q') = In(thread_q) \cup {Head(backlog)}
  <2>1. Head(backlog) \notin In(thread_q)
    BY <1>0, <1>2
  <2> QED BY <1>0, <1>1, <1>2, <2>1, AppendOnce
<1>4. /\ worker' \in [Workers -> Serving \cup {"loop", "asleep", "read"}]
      /\ \A u \in Workers : worker'[u] = worker[u] \/ worker'[u] = "loop"
      /\ \A u \in Workers : worker'[u] \in Serving => worker'[u] = worker[u]
  <2>1. CASE UNCHANGED worker
    BY <1>0, <2>1
  <2>2. CASE \E u \in Q3!Asleep : worker' = [worker EXCEPT ![u] = "loop"]
    <3>1. PICK u \in Workers : worker' = [worker EXCEPT ![u] = "loop"]
      BY <2>2 DEF Q3!Asleep
    <3> QED BY <1>0, <3>1 DEF Serving
  <2> QED BY <2>1, <2>2 DEF Q3!Accept, Q3!WakeOne
<1>5. Q3!Clients' = Q3!Clients
  BY <1>1 DEF Q3!Clients
<1>6. DictionaryType'
  BY <1>0, <1>1, <1>2, <1>3, <1>4, <1>5 DEF DictionaryType
<1>7. ClientInv'
  BY <1>1, <1>5 DEF DictionaryInv, ClientInv
<1>8. PlaceInv'
  <2>1. /\ Once(backlog)' = Once(backlog') /\ Once(thread_q)' = Once(thread_q')
        /\ In(backlog)' = In(backlog') /\ In(thread_q)' = In(thread_q')
    BY DEF Once, In
  <2>2. In(backlog') \cup In(thread_q') = In(backlog) \cup In(thread_q)
        /\ In(backlog') \cap In(thread_q') = {}
    BY <1>0, <1>2, <1>3
  <2>3. /\ \A n \in In(backlog) \cup In(thread_q) : client[n] = "sent" /\ answer[n] = "none"
        /\ \A u \in Workers : worker[u] \in Serving =>
             /\ conn[u] \in Q3!Clients /\ client[conn[u]] = "sent"
             /\ worker[u] # "reply" => answer[conn[u]] = "none"
             /\ conn[u] \notin In(backlog) \cup In(thread_q)
        /\ \A u, v \in Workers :
             worker[u] \in Serving /\ worker[v] \in Serving /\ conn[u] = conn[v] => u = v
    BY DEF DictionaryInv, PlaceInv
  <2>4. \A u \in Workers : worker'[u] \in Serving =>
             /\ conn[u] \in Q3!Clients /\ client[conn[u]] = "sent"
             /\ worker'[u] # "reply" => answer[conn[u]] = "none"
             /\ conn[u] \notin In(backlog') \cup In(thread_q')
    BY <1>4, <2>2, <2>3
  <2>5. \A u, v \in Workers :
             worker'[u] \in Serving /\ worker'[v] \in Serving /\ conn[u] = conn[v] => u = v
    BY <1>4, <2>3
  <2> QED BY <1>1, <1>2, <1>3, <1>5, <2>1, <2>2, <2>3, <2>4, <2>5 DEF PlaceInv
<1>9. KeyInv'
  <2>1. ASSUME NEW u \in Workers PROVE KeyOK(u)'
    BY <1>1, <1>4, KeyKept
  <2> QED BY <2>1, KeyEachNext
<1>10. Q3!KeysCounted'
  BY <1>1, KeysSame DEF DictionaryInv
<1> QED BY <1>6, <1>7, <1>8, <1>9, <1>10 DEF DictionaryInv

LEMMA TakeStep ==
  ASSUME DictionaryInv, NEW w \in Workers, Q3!TakeConnection(w)
  PROVE  DictionaryInv'
<1>0. /\ DictionaryType
      /\ thread_q \in Seq(Q3!Clients) /\ Once(thread_q)
      /\ worker \in [Workers -> Serving \cup {"loop", "asleep", "read"}]
      /\ conn \in [Workers -> 0 .. Len(commands)]
  BY DEF DictionaryInv, DictionaryType, PlaceInv
<1>1. /\ worker[w] = "loop"
      /\ UNCHANGED <<commands, arg, client, cmd, answer, backlog, present, locks>>
  BY DEF Q3!TakeConnection, Q3!clientVars
<1>2. Q3!Clients' = Q3!Clients
  BY <1>1 DEF Q3!Clients
<1>3. ClientInv'
  BY <1>1, <1>2 DEF DictionaryInv, ClientInv
<1>4. Q3!KeysCounted'
  BY <1>1, KeysSame DEF DictionaryInv
<1>5. /\ Once(backlog)' = Once(backlog) /\ Once(thread_q)' = Once(thread_q')
      /\ In(backlog)' = In(backlog) /\ In(thread_q)' = In(thread_q')
  BY <1>1 DEF Once, In
<1>6. CASE thread_q = <<>>
  <2>1. worker' = [worker EXCEPT ![w] = "asleep"] /\ UNCHANGED <<thread_q, conn>>
    BY <1>6 DEF Q3!TakeConnection
  <2>2. /\ worker' \in [Workers -> Serving \cup {"loop", "asleep", "read"}]
        /\ \A u \in Workers : worker'[u] \in Serving => worker'[u] = worker[u]
    BY <1>0, <2>1 DEF Serving
  <2>3. DictionaryType'
    BY <1>0, <1>1, <1>2, <2>1, <2>2 DEF DictionaryType
  <2>4. PlaceInv'
    <3>1. /\ \A u \in Workers : worker'[u] \in Serving =>
               /\ conn[u] \in Q3!Clients /\ client[conn[u]] = "sent"
               /\ worker'[u] # "reply" => answer[conn[u]] = "none"
               /\ conn[u] \notin In(backlog) \cup In(thread_q)
          /\ \A u, v \in Workers :
               worker'[u] \in Serving /\ worker'[v] \in Serving /\ conn[u] = conn[v] => u = v
      BY <2>2 DEF DictionaryInv, PlaceInv
    <3> QED BY <1>1, <1>2, <1>5, <2>1, <3>1 DEF DictionaryInv, PlaceInv
  <2>5. KeyInv'
    <3>1. ASSUME NEW u \in Workers PROVE KeyOK(u)'
      BY <1>1, <2>1, <2>2, KeyKept
    <3> QED BY <3>1, KeyEachNext
  <2> QED BY <1>3, <1>4, <2>3, <2>4, <2>5 DEF DictionaryInv
<1>7. CASE thread_q # <<>>
  <2>1. /\ conn' = [conn EXCEPT ![w] = Head(thread_q)] /\ thread_q' = Tail(thread_q)
        /\ worker' = [worker EXCEPT ![w] = "first"]
    BY <1>7 DEF Q3!TakeConnection
  <2>2. /\ thread_q' \in Seq(Q3!Clients) /\ Once(thread_q')
        /\ Head(thread_q) \in Q3!Clients /\ Head(thread_q) \in In(thread_q)
        /\ In(thread_q') = In(thread_q) \ {Head(thread_q)}
    BY <1>0, <1>7, <2>1, TailOnce
  <2>3. PICK n \in Q3!Clients : n = Head(thread_q)
    BY <2>2
  <2>4. /\ worker' \in [Workers -> Serving \cup {"loop", "asleep", "read"}]
        /\ worker'[w] = "first" /\ \A u \in Workers : u # w => worker'[u] = worker[u]
        /\ conn' \in [Workers -> 0 .. Len(commands)]
        /\ conn'[w] = n /\ \A u \in Workers : u # w => conn'[u] = conn[u]
    BY <1>0, <2>1, <2>3 DEF Serving, Q3!Clients
  <2>5. client[n] = "sent" /\ answer[n] = "none" /\ n \notin In(backlog) \cup In(thread_q')
    BY <2>2, <2>3 DEF DictionaryInv, PlaceInv
  <2>6. DictionaryType'
    BY <1>0, <1>1, <1>2, <2>2, <2>4 DEF DictionaryType
  <2>7. \A u \in Workers : worker[u] \in Serving =>
               /\ conn[u] \in Q3!Clients /\ client[conn[u]] = "sent"
               /\ worker[u] # "reply" => answer[conn[u]] = "none"
               /\ conn[u] \notin In(backlog) \cup In(thread_q) /\ conn[u] # n
    BY <2>2, <2>3 DEF DictionaryInv, PlaceInv
  <2>8. PlaceInv'
    <3>1. \A u \in Workers : worker'[u] \in Serving =>
               /\ conn'[u] \in Q3!Clients /\ client[conn'[u]] = "sent"
               /\ worker'[u] # "reply" => answer[conn'[u]] = "none"
               /\ conn'[u] \notin In(backlog) \cup In(thread_q')
      BY <2>2, <2>4, <2>5, <2>7
    <3>2. \A u, v \in Workers :
               worker[u] \in Serving /\ worker[v] \in Serving /\ conn[u] = conn[v] => u = v
      BY DEF DictionaryInv, PlaceInv
    <3>3. \A u, v \in Workers :
               worker'[u] \in Serving /\ worker'[v] \in Serving /\ conn'[u] = conn'[v] => u = v
      BY <2>4, <2>7, <3>2
    <3> QED BY <1>1, <1>2, <1>5, <2>2, <3>1, <3>3 DEF DictionaryInv, PlaceInv
  <2>9. KeyInv'
    <3>1. ASSUME NEW u \in Workers, u # w PROVE KeyOK(u)'
      BY <1>1, <2>4, <3>1, KeyKept
    <3>2. KeyOK(w)'
      BY <2>4 DEF KeyOK
    <3> QED BY <3>1, <3>2, KeyEachNext
  <2> QED BY <1>3, <1>4, <2>6, <2>8, <2>9 DEF DictionaryInv
<1> QED BY <1>6, <1>7

\* A thread goes on with the command it serves, or answers it.
LEMMA WorkerMoves ==
  ASSUME DictionaryInv, NEW w \in Workers, worker[w] \in Serving \ {"reply"},
         NEW l \in Serving, worker' = [worker EXCEPT ![w] = l],
         \/ UNCHANGED answer /\ l # "reply"
         \/ l = "reply" /\ \E a \in {"yes", "no"} : answer' = [answer EXCEPT ![conn[w]] = a],
         UNCHANGED <<commands, arg, client, cmd, backlog, thread_q, conn>>,
         present' \in [Keys -> BOOLEAN], locks' \in [Keys -> Workers \cup {Nobody}]
  PROVE  /\ DictionaryType' /\ ClientInv' /\ PlaceInv'
         /\ worker'[w] = l /\ \A u \in Workers : u # w => worker'[u] = worker[u]
<1>0. DictionaryType
  BY DEF DictionaryInv
<1>1. conn[w] \in Q3!Clients /\ client[conn[w]] = "sent" /\ answer[conn[w]] = "none"
  BY DEF DictionaryInv, PlaceInv
<1>2. Q3!Clients' = Q3!Clients
  BY DEF Q3!Clients
<1>3. /\ worker' \in [Workers -> Serving \cup {"loop", "asleep", "read"}]
      /\ worker'[w] = l /\ \A u \in Workers : u # w => worker'[u] = worker[u]
  BY <1>0 DEF DictionaryType
<1>4. /\ answer' \in [Q3!Clients -> {"none", "yes", "no"}]
      /\ \A n \in Q3!Clients : n # conn[w] => answer'[n] = answer[n]
      /\ l # "reply" => answer' = answer
  BY <1>0, <1>1 DEF DictionaryType
<1>5. DictionaryType'
  BY <1>0, <1>2, <1>3, <1>4 DEF DictionaryType
<1>6. ClientInv'
  BY <1>1, <1>2, <1>4 DEF DictionaryInv, ClientInv
<1>7. PlaceInv'
  <2>1. /\ Once(backlog)' = Once(backlog) /\ Once(thread_q)' = Once(thread_q)
        /\ In(backlog)' = In(backlog) /\ In(thread_q)' = In(thread_q)
    BY DEF Once, In
  <2>2. /\ \A n \in In(backlog) \cup In(thread_q) : client[n] = "sent" /\ answer[n] = "none"
        /\ \A u \in Workers : worker[u] \in Serving =>
             /\ conn[u] \in Q3!Clients /\ client[conn[u]] = "sent"
             /\ worker[u] # "reply" => answer[conn[u]] = "none"
             /\ conn[u] \notin In(backlog) \cup In(thread_q)
        /\ \A u, v \in Workers :
             worker[u] \in Serving /\ worker[v] \in Serving /\ conn[u] = conn[v] => u = v
        /\ conn[w] \notin In(backlog) \cup In(thread_q)
        /\ In(backlog) \cup In(thread_q) \subseteq Q3!Clients
    BY <1>0 DEF DictionaryInv, PlaceInv, DictionaryType, In
  <2>3. \A n \in In(backlog) \cup In(thread_q) : client[n] = "sent" /\ answer'[n] = "none"
    BY <1>4, <2>2
  <2>4. \A u \in Workers : worker'[u] \in Serving => worker[u] \in Serving
    BY <1>3
  <2>5. ASSUME NEW u \in Workers, worker'[u] \in Serving
        PROVE  worker'[u] # "reply" => answer'[conn[u]] = "none"
    <3>1. CASE u = w
      BY <1>1, <1>3, <1>4, <3>1
    <3>2. CASE u # w
      BY <1>3, <1>4, <2>2, <2>5, <3>2
    <3> QED BY <3>1, <3>2
  <2> QED BY <1>2, <2>1, <2>2, <2>3, <2>4, <2>5 DEF DictionaryInv, PlaceInv
<1> QED BY <1>3, <1>5, <1>6, <1>7


\* An answer that is "no", or to another command, changes no count.
LEMMA AnswerSame ==
  ASSUME DictionaryInv, NEW w \in Workers, worker[w] \in Serving \ {"reply"},
         NEW a \in {"yes", "no"}, answer' = [answer EXCEPT ![conn[w]] = a],
         a = "no" \/ Q3!Served(w).op \notin {"insert", "delete"},
         UNCHANGED <<commands, cmd, present>>
  PROVE  Q3!KeysCounted'
<1>1. conn[w] \in Q3!Clients /\ answer[conn[w]] = "none"
  BY DEF DictionaryInv, PlaceInv
<1>2. answer \in [Q3!Clients -> {"none", "yes", "no"}]
  BY DEF DictionaryInv, DictionaryType
<1>3. answer'[conn[w]] = a /\ \A n \in Q3!Clients : n # conn[w] => answer'[n] = answer[n]
  BY <1>1, <1>2
<1>4. ASSUME NEW o \in {"insert", "delete"}, NEW k
      PROVE  Q3!Answered(o, k)' = Q3!Answered(o, k)
  <2>1. \A n \in Q3!Clients :
          /\ answer'[n] = "yes" /\ commands[cmd[n]].op = o
          <=>
          /\ answer[n] = "yes" /\ commands[cmd[n]].op = o
    BY <1>1, <1>3 DEF Q3!Served
  <2> QED BY <2>1 DEF Q3!Answered, Q3!Clients
<1> QED BY <1>4, Q3Cardinality DEF Q3!KeysCounted, DictionaryInv

\* The lock of the key is released, or taken while nobody has it.
LEMMA LockMoves ==
  ASSUME DictionaryInv, NEW w \in Workers, worker[w] \in Serving,
         locks[Q3!KeyOf(w)] \in {w, Nobody}, NEW v \in {w, Nobody},
         locks' = [locks EXCEPT ![Q3!KeyOf(w)] = v]
  PROVE  /\ locks' \in [Keys -> Workers \cup {Nobody}] /\ locks'[Q3!KeyOf(w)] = v
         /\ \A u \in Workers : u # w =>
              \A k \in Keys : locks[k] = u => locks'[k] = u /\ k # Q3!KeyOf(w)
<1>1. locks \in [Keys -> Workers \cup {Nobody}]
  BY DEF DictionaryInv, DictionaryType
<1>2. Q3!KeyOf(w) \in Keys /\ Nobody \notin Workers
  BY ServedIs, CommandsAre DEF DictionaryInv
<1>3. PICK key \in Keys : key = Q3!KeyOf(w)
  BY <1>2
<1> QED BY <1>1, <1>2, <1>3

LEMMA LockStep ==
  ASSUME DictionaryInv, NEW w \in Workers, Q3!LockKey(w)
  PROVE  DictionaryInv'
<1>1. /\ worker[w] \in {"first", "second"} /\ locks[Q3!KeyOf(w)] = Nobody
      /\ locks' = [locks EXCEPT ![Q3!KeyOf(w)] = w]
      /\ UNCHANGED <<commands, arg, client, cmd, answer, backlog, thread_q, conn, present>>
  BY DEF Q3!LockKey, Q3!clientVars
<1>2. PICK l \in {"test", "test2"} :
        l = (IF worker[w] = "first" THEN "test" ELSE "test2")
  OBVIOUS
<1>3. worker' = [worker EXCEPT ![w] = l]
  BY <1>2 DEF Q3!LockKey, Q3!Goto
<1>4. worker[w] \in Serving \ {"reply"} /\ l \in Serving /\ l # "reply"
  BY <1>1 DEF Serving
<1>5. present \in [Keys -> BOOLEAN]
  BY DEF DictionaryInv, DictionaryType
<1>6. /\ locks' \in [Keys -> Workers \cup {Nobody}] /\ locks'[Q3!KeyOf(w)] = w
      /\ \A u \in Workers : u # w =>
           \A k \in Keys : locks[k] = u => locks'[k] = u /\ k # Q3!KeyOf(w)
  BY <1>1, <1>4, LockMoves
<1>7. /\ DictionaryType' /\ ClientInv' /\ PlaceInv'
      /\ worker'[w] = l /\ \A u \in Workers : u # w => worker'[u] = worker[u]
  BY <1>1, <1>3, <1>4, <1>5, <1>6, WorkerMoves
<1>8. KeyInv'
  <2>1. ASSUME NEW u \in Workers, u # w PROVE KeyOK(u)'
    <3>1. CASE worker[u] \in Serving
      BY <1>1, <1>6, <1>7, <2>1, <3>1, KeyKept, ServedIs
    <3>2. CASE worker[u] \notin Serving
      BY <1>1, <1>7, <2>1, <3>2, KeyKept
    <3> QED BY <3>1, <3>2
  <2>2. KeyOK(w)'
    <3>1. KeyOK(w)
      BY KeyEach DEF DictionaryInv
    <3>2. Q3!Served(w)' = Q3!Served(w)
      BY <1>1 DEF Q3!Served
    <3>3. Q3!KeyOf(w)' = Q3!KeyOf(w)
      BY <1>1, <1>2, <1>7, <3>2 DEF Q3!KeyOf
    <3> QED BY <1>1, <1>2, <1>6, <1>7, <3>1, <3>2, <3>3 DEF KeyOK
  <2> QED BY <2>1, <2>2, KeyEachNext
<1>9. Q3!KeysCounted'
  BY <1>1, KeysSame DEF DictionaryInv
<1> QED BY <1>7, <1>8, <1>9 DEF DictionaryInv

LEMMA TestStep ==
  ASSUME DictionaryInv, NEW w \in Workers, Q3!Test(w)
  PROVE  DictionaryInv'
<1>0. KeyOK(w)
  BY KeyEach DEF DictionaryInv
<1>1. /\ worker[w] \in {"test", "test2"} /\ locks[Q3!KeyOf(w)] = w
      /\ UNCHANGED <<commands, arg, client, cmd, backlog, thread_q, conn, present>>
  BY <1>0 DEF Q3!Test, Q3!clientVars, KeyOK
<1>2. worker[w] \in Serving \ {"reply"}
  BY <1>1 DEF Serving
<1>3. present \in [Keys -> BOOLEAN] /\ locks \in [Keys -> Workers \cup {Nobody}]
  BY DEF DictionaryInv, DictionaryType
<1>4. \/ \E a \in {"yes", "no"} :
           Q3!Reply(w, a) /\ (a = "no" \/ Q3!Served(w).op \notin {"insert", "delete"})
      \/ /\ Q3!Goto(w, "write") /\ UNCHANGED <<answer, locks>>
         /\ \/ Q3!Served(w).op = "insert" /\ ~ present[Q3!KeyOf(w)]
            \/ Q3!Served(w).op = "delete" /\ present[Q3!KeyOf(w)]
      \/ Q3!Unlock(w) /\ Q3!Goto(w, "second") /\ UNCHANGED answer /\ Q3!Served(w).op = "concat"
  BY DEF Q3!Test, Q3!Insert, Q3!Delet, Q3!Update, Q3!Fetch, Q3!Concat
<1>5. ASSUME NEW l \in Serving, worker' = [worker EXCEPT ![w] = l],
             locks' = [locks EXCEPT ![Q3!KeyOf(w)] = Nobody],
             \/ UNCHANGED answer /\ l # "reply"
             \/ l = "reply" /\ \E a \in {"yes", "no"} : answer' = [answer EXCEPT ![conn[w]] = a]
      PROVE  /\ DictionaryType' /\ ClientInv' /\ PlaceInv' /\ worker'[w] = l
             /\ \A u \in Workers : u # w => KeyOK(u)'
  <2>1. /\ locks' \in [Keys -> Workers \cup {Nobody}]
        /\ \A u \in Workers : u # w =>
             \A k \in Keys : locks[k] = u => locks'[k] = u /\ k # Q3!KeyOf(w)
    BY <1>1, <1>2, <1>5, LockMoves
  <2>2. /\ DictionaryType' /\ ClientInv' /\ PlaceInv'
        /\ worker'[w] = l /\ \A u \in Workers : u # w => worker'[u] = worker[u]
    BY <1>1, <1>2, <1>3, <1>5, <2>1, WorkerMoves
  <2>3. ASSUME NEW u \in Workers, u # w PROVE KeyOK(u)'
    <3>1. CASE worker[u] \in Serving
      BY <1>1, <2>1, <2>2, <2>3, <3>1, KeyKept, ServedIs
    <3>2. CASE worker[u] \notin Serving
      BY <1>1, <2>2, <2>3, <3>2, KeyKept
    <3> QED BY <3>1, <3>2
  <2> QED BY <2>2, <2>3
<1>6. CASE \E a \in {"yes", "no"} :
             Q3!Reply(w, a) /\ (a = "no" \/ Q3!Served(w).op \notin {"insert", "delete"})
  <2>1. PICK a \in {"yes", "no"} :
          Q3!Reply(w, a) /\ (a = "no" \/ Q3!Served(w).op \notin {"insert", "delete"})
    BY <1>6
  <2>2. /\ answer' = [answer EXCEPT ![conn[w]] = a]
        /\ locks' = [locks EXCEPT ![Q3!KeyOf(w)] = Nobody]
        /\ worker' = [worker EXCEPT ![w] = "reply"] /\ "reply" \in Serving
    BY <2>1 DEF Q3!Reply, Q3!Answer, Q3!Unlock, Q3!Goto, Serving
  <2>3. /\ DictionaryType' /\ ClientInv' /\ PlaceInv' /\ worker'[w] = "reply"
        /\ \A u \in Workers : u # w => KeyOK(u)'
    BY <1>5, <2>2
  <2>4. KeyOK(w)'
    BY <2>3 DEF KeyOK
  <2>5. Q3!KeysCounted'
    BY <1>1, <1>2, <2>1, <2>2, AnswerSame
  <2> QED BY <2>3, <2>4, <2>5, KeyEachNext DEF DictionaryInv
<1>7. CASE /\ Q3!Goto(w, "write") /\ UNCHANGED <<answer, locks>>
           /\ \/ Q3!Served(w).op = "insert" /\ ~ present[Q3!KeyOf(w)]
              \/ Q3!Served(w).op = "delete" /\ present[Q3!KeyOf(w)]
  <2>1. worker' = [worker EXCEPT ![w] = "write"] /\ "write" \in Serving /\ worker[w] = "test"
    BY <1>0, <1>1, <1>7 DEF Q3!Goto, Serving, KeyOK
  <2>2. /\ DictionaryType' /\ ClientInv' /\ PlaceInv' /\ worker'[w] = "write"
        /\ \A u \in Workers : u # w => worker'[u] = worker[u]
    BY <1>1, <1>2, <1>3, <1>7, <2>1, WorkerMoves
  <2>3. ASSUME NEW u \in Workers, u # w PROVE KeyOK(u)'
    BY <1>1, <1>7, <2>2, <2>3, KeyKept
  <2>4. KeyOK(w)'
    <3>1. Q3!Served(w)' = Q3!Served(w)
      BY <1>1 DEF Q3!Served
    <3>2. Q3!KeyOf(w)' = Q3!KeyOf(w)
      BY <2>1, <2>2, <3>1 DEF Q3!KeyOf
    <3> QED BY <1>1, <1>7, <2>2, <3>1, <3>2 DEF KeyOK
  <2>5. Q3!KeysCounted'
    BY <1>1, <1>7, KeysSame DEF DictionaryInv
  <2> QED BY <2>2, <2>3, <2>4, <2>5, KeyEachNext DEF DictionaryInv
<1>8. CASE Q3!Unlock(w) /\ Q3!Goto(w, "second") /\ UNCHANGED answer /\ Q3!Served(w).op = "concat"
  <2>1. /\ locks' = [locks EXCEPT ![Q3!KeyOf(w)] = Nobody]
        /\ worker' = [worker EXCEPT ![w] = "second"] /\ "second" \in Serving
    BY <1>8 DEF Q3!Unlock, Q3!Goto, Serving
  <2>2. /\ DictionaryType' /\ ClientInv' /\ PlaceInv' /\ worker'[w] = "second"
        /\ \A u \in Workers : u # w => KeyOK(u)'
    BY <1>5, <1>8, <2>1
  <2>3. Q3!Served(w)' = Q3!Served(w)
    BY <1>1 DEF Q3!Served
  <2>4. KeyOK(w)'
    BY <1>8, <2>2, <2>3 DEF KeyOK
  <2>5. Q3!KeysCounted'
    BY <1>1, <1>8, KeysSame DEF DictionaryInv
  <2> QED BY <2>2, <2>4, <2>5, KeyEachNext DEF DictionaryInv
<1> QED BY <1>4, <1>6, <1>7, <1>8


\* A key is written and the answer is "yes": both counts of the key move together.
LEMMA WriteCounts ==
  ASSUME DictionaryInv, NEW w \in Workers, Q3!Write(w)
  PROVE  Q3!KeysCounted'
<1>0. DictionaryType
  BY DEF DictionaryInv
<1>1. /\ worker[w] = "write" /\ answer' = [answer EXCEPT ![conn[w]] = "yes"]
      /\ present' = [present EXCEPT ![Q3!KeyOf(w)] = Q3!Served(w).op = "insert"]
      /\ UNCHANGED <<commands, cmd>>
  BY DEF Q3!Write, Q3!Reply, Q3!Answer, Q3!clientVars
<1>2. worker[w] \in Serving \ {"reply"}
  BY <1>1 DEF Serving
<1>3. PICK n \in Q3!Clients : n = conn[w] /\ answer[n] = "none"
  BY <1>2 DEF DictionaryInv, PlaceInv
<1>4. PICK key \in Keys : key = Q3!KeyOf(w) /\ commands[cmd[n]].key = key
  BY <1>1, <1>2, <1>3, ServedIs DEF Q3!KeyOf, Q3!Served
<1>5. PICK o \in {"insert", "delete"} :
        /\ commands[cmd[n]].op = o
        /\ o = "insert" => ~ present[key]
        /\ o = "delete" => present[key]
  <2>1. KeyOK(w)
    BY KeyEach DEF DictionaryInv
  <2> QED BY <1>1, <1>3, <1>4, <2>1 DEF KeyOK, Q3!Served
<1>6. /\ \A m \in Q3!Clients : m # n => answer'[m] = answer[m]
      /\ answer'[n] = "yes"
  BY <1>0, <1>1, <1>3 DEF DictionaryType
<1>7. /\ \A k \in Keys : k # key => present'[k] = present[k]
      /\ o = "insert" => present'[key]
      /\ o = "delete" => ~ present'[key]
  <2>1. present \in [Keys -> BOOLEAN] /\ Q3!Served(w).op = o
    BY <1>0, <1>3, <1>5 DEF DictionaryType, Q3!Served
  <2>2. o = "insert" => present' = [present EXCEPT ![key] = TRUE]
    BY <1>1, <1>4, <2>1
  <2>3. o = "delete" => present' = [present EXCEPT ![key] = FALSE]
    BY <1>1, <1>4, <2>1
  <2> QED BY <1>4, <1>5, <2>1, <2>2, <2>3
<1>8. \A p \in {"insert", "delete"}, k \in Keys :
        IF p = o /\ k = key
        THEN Q3!Answered(p, k)' = Q3!Answered(p, k) \cup {n} /\ n \notin Q3!Answered(p, k)
        ELSE Q3!Answered(p, k)' = Q3!Answered(p, k)
  <2> SUFFICES ASSUME NEW p \in {"insert", "delete"}, NEW k \in Keys
               PROVE  IF p = o /\ k = key
                      THEN /\ Q3!Answered(p, k)' = Q3!Answered(p, k) \cup {n}
                           /\ n \notin Q3!Answered(p, k)
                      ELSE Q3!Answered(p, k)' = Q3!Answered(p, k)
    OBVIOUS
  <2>1. n \notin Q3!Answered(p, k)
    BY <1>3 DEF Q3!Answered
  <2>2. n \in Q3!Answered(p, k)' <=> p = o /\ k = key
    BY <1>1, <1>3, <1>4, <1>5, <1>6 DEF Q3!Answered, Q3!Clients
  <2>3. \A m : m # n => (m \in Q3!Answered(p, k)' <=> m \in Q3!Answered(p, k))
    BY <1>1, <1>6 DEF Q3!Answered, Q3!Clients
  <2> QED BY <2>1, <2>2, <2>3
<1>9. \A p, k : IsFiniteSet(Q3!Answered(p, k)) /\ Cardinality(Q3!Answered(p, k)) \in Nat
  <2>1. \A p, k : Q3!Answered(p, k) \subseteq Q3!Clients
    BY DEF Q3!Answered
  <2> QED BY <1>0, <2>1, CommandsAre, FS_Subset, FS_CardinalityType
<1>10. ASSUME NEW k \in Keys
       PROVE  Cardinality(Q3!Answered("insert", k)') =
              Cardinality(Q3!Answered("delete", k)') + (IF present'[k] THEN 1 ELSE 0)
  <2>1. /\ Cardinality(Q3!Answered("insert", k)) =
             Cardinality(Q3!Answered("delete", k)) + (IF present[k] THEN 1 ELSE 0)
        /\ Cardinality(Q3!Answered("insert", k)) \in Nat
        /\ Cardinality(Q3!Answered("delete", k)) \in Nat
    BY <1>9, Q3Cardinality DEF DictionaryInv, Q3!KeysCounted
  <2>2. CASE k # key
    BY <1>7, <1>8, <2>1, <2>2
  <2>3. CASE k = key /\ o = "insert"
    <3>1. Cardinality(Q3!Answered("insert", k)') = Cardinality(Q3!Answered("insert", k)) + 1
      BY <1>8, <1>9, <2>3, FS_AddElement
    <3>2. Q3!Answered("delete", k)' = Q3!Answered("delete", k)
      BY <1>8, <2>3
    <3>3. ~ present[k] /\ present'[k]
      BY <1>5, <1>7, <2>3
    <3> QED BY <2>1, <3>1, <3>2, <3>3
  <2>4. CASE k = key /\ o = "delete"
    <3>1. Cardinality(Q3!Answered("delete", k)') = Cardinality(Q3!Answered("delete", k)) + 1
      BY <1>8, <1>9, <2>4, FS_AddElement
    <3>2. Q3!Answered("insert", k)' = Q3!Answered("insert", k)
      BY <1>8, <2>4
    <3>3. present[k] /\ ~ present'[k]
      BY <1>5, <1>7, <2>4
    <3> QED BY <2>1, <3>1, <3>2, <3>3
  <2> QED BY <2>2, <2>3, <2>4
<1> QED BY <1>10, Q3Cardinality DEF Q3!KeysCounted

LEMMA WriteStep ==
  ASSUME DictionaryInv, NEW w \in Workers, Q3!Write(w)
  PROVE  DictionaryInv'
<1>1. /\ worker[w] = "write" /\ answer' = [answer EXCEPT ![conn[w]] = "yes"]
      /\ present' = [present EXCEPT ![Q3!KeyOf(w)] = Q3!Served(w).op = "insert"]
      /\ locks' = [locks EXCEPT ![Q3!KeyOf(w)] = Nobody]
      /\ worker' = [worker EXCEPT ![w] = "reply"]
      /\ UNCHANGED <<commands, arg, client, cmd, backlog, thread_q, conn>>
  BY DEF Q3!Write, Q3!Reply, Q3!Answer, Q3!Unlock, Q3!Goto, Q3!clientVars
<1>2. worker[w] \in Serving \ {"reply"} /\ "reply" \in Serving
  BY <1>1 DEF Serving
<1>3. PICK b \in BOOLEAN : b = (Q3!Served(w).op = "insert")
  OBVIOUS
<1>4. PICK key \in Keys : key = Q3!KeyOf(w)
  BY <1>2, ServedIs
<1>5. present' \in [Keys -> BOOLEAN] /\ \A k \in Keys : k # key => present'[k] = present[k]
  <2>1. present \in [Keys -> BOOLEAN] /\ present' = [present EXCEPT ![key] = b]
    BY <1>1, <1>3, <1>4 DEF DictionaryInv, DictionaryType
  <2> QED BY <2>1
<1>6. locks[key] = w
  BY <1>1, <1>4, KeyEach DEF DictionaryInv, KeyOK
<1>7. /\ locks' \in [Keys -> Workers \cup {Nobody}]
      /\ \A u \in Workers : u # w =>
           \A k \in Keys : locks[k] = u => locks'[k] = u /\ k # key
  BY <1>1, <1>2, <1>4, <1>6, LockMoves
<1>8. /\ DictionaryType' /\ ClientInv' /\ PlaceInv'
      /\ worker'[w] = "reply" /\ \A u \in Workers : u # w => worker'[u] = worker[u]
  BY <1>1, <1>2, <1>5, <1>7, WorkerMoves
<1>9. ASSUME NEW u \in Workers, u # w PROVE KeyOK(u)'
  <2>1. CASE worker[u] \in Serving
    BY <1>1, <1>5, <1>7, <1>8, <1>9, <2>1, KeyKept, ServedIs
  <2>2. CASE worker[u] \notin Serving
    BY <1>1, <1>8, <1>9, <2>2, KeyKept
  <2> QED BY <2>1, <2>2
<1>10. KeyOK(w)'
  BY <1>8 DEF KeyOK
<1> QED BY <1>8, <1>9, <1>10, KeyEachNext, WriteCounts DEF DictionaryInv

\* A thread has answered, or finds the connection closed.
LEMMA LastSteps ==
  ASSUME DictionaryInv, NEW w \in Workers, Q3!Respond(w) \/ Q3!CloseConnection(w)
  PROVE  DictionaryInv'
<1>0. DictionaryType
  BY DEF DictionaryInv
<1>1. PICK l \in {"read", "loop"} :
        worker' = [worker EXCEPT ![w] = l] /\ (l = "loop" => worker[w] = "read")
  BY DEF Q3!Respond, Q3!CloseConnection, Q3!Goto
<1>2. UNCHANGED <<commands, arg, cmd, answer, backlog, thread_q, present, locks>>
  BY DEF Q3!Respond, Q3!CloseConnection, Q3!clientVars
<1>3. /\ worker' \in [Workers -> Serving \cup {"loop", "asleep", "read"}]
      /\ worker'[w] \notin Serving /\ \A u \in Workers : u # w => worker'[u] = worker[u]
  BY <1>0, <1>1 DEF DictionaryType, Serving
<1>4. conn' \in [Workers -> 0 .. Len(commands)]
      /\ \A u \in Workers : u # w => conn'[u] = conn[u]
  <2>1. UNCHANGED conn \/ conn' = [conn EXCEPT ![w] = 0]
    BY DEF Q3!Respond, Q3!CloseConnection
  <2>2. 0 \in 0 .. Len(commands)
    BY <1>0, CommandsAre
  <2> QED BY <1>0, <2>1, <2>2 DEF DictionaryType
<1>5. /\ client' \in [Q3!Clients -> {"none", "created", "asleep", "sent", "replied", "closed"}]
      /\ \A n \in Q3!Clients : \/ client'[n] = client[n]
                               \/ n = conn[w] /\ worker[w] = "reply" /\ client'[n] = "replied"
  <2>1. UNCHANGED client
        \/ (worker[w] = "reply" /\ client' = [client EXCEPT ![conn[w]] = "replied"])
    BY DEF Q3!Respond, Q3!CloseConnection, Q3!clientVars
  <2> QED BY <1>0, <2>1 DEF DictionaryType
<1>6. Q3!Clients' = Q3!Clients
  BY <1>2 DEF Q3!Clients
<1>7. DictionaryType'
  BY <1>0, <1>2, <1>3, <1>4, <1>5, <1>6 DEF DictionaryType
<1>8. worker[w] = "reply" => conn[w] \in Q3!Clients /\ client[conn[w]] = "sent"
                             /\ conn[w] \notin In(backlog) \cup In(thread_q)
  BY DEF DictionaryInv, PlaceInv, Serving
<1>9. ClientInv'
  BY <1>2, <1>5, <1>6, <1>8 DEF DictionaryInv, ClientInv
<1>10. PlaceInv'
  <2>1. /\ Once(backlog)' = Once(backlog) /\ Once(thread_q)' = Once(thread_q)
        /\ In(backlog)' = In(backlog) /\ In(thread_q)' = In(thread_q)
    BY <1>2 DEF Once, In
  <2>2. /\ \A n \in In(backlog) \cup In(thread_q) :
             n \in Q3!Clients /\ client[n] = "sent" /\ answer[n] = "none"
        /\ \A u \in Workers : worker[u] \in Serving =>
             /\ conn[u] \in Q3!Clients /\ client[conn[u]] = "sent"
             /\ worker[u] # "reply" => answer[conn[u]] = "none"
             /\ conn[u] \notin In(backlog) \cup In(thread_q)
        /\ \A u, v \in Workers :
             worker[u] \in Serving /\ worker[v] \in Serving /\ conn[u] = conn[v] => u = v
    BY <1>0 DEF DictionaryInv, PlaceInv, DictionaryType, In
  <2>3. \A n \in In(backlog) \cup In(thread_q) : client'[n] = "sent"
    BY <1>5, <1>8, <2>2
  <2>4. ASSUME NEW u \in Workers, worker'[u] \in Serving
        PROVE  /\ u # w /\ worker[u] \in Serving /\ worker'[u] = worker[u]
               /\ conn'[u] = conn[u] /\ client'[conn[u]] = "sent"
    <3>1. u # w /\ worker[u] \in Serving /\ worker'[u] = worker[u] /\ conn'[u] = conn[u]
      BY <1>3, <1>4, <2>4
    <3>2. worker[w] = "reply" => conn[u] # conn[w]
      BY <2>2, <3>1 DEF Serving
    <3> QED BY <1>5, <2>2, <3>1, <3>2
  <2>5. \A u \in Workers : worker'[u] \in Serving =>
          /\ conn'[u] \in Q3!Clients /\ client'[conn'[u]] = "sent"
          /\ worker'[u] # "reply" => answer[conn'[u]] = "none"
          /\ conn'[u] \notin In(backlog) \cup In(thread_q)
    BY <2>2, <2>4
  <2>6. \A u, v \in Workers :
          worker'[u] \in Serving /\ worker'[v] \in Serving /\ conn'[u] = conn'[v] => u = v
    BY <2>2, <2>4
  <2> QED BY <1>2, <1>6, <2>1, <2>2, <2>3, <2>5, <2>6 DEF DictionaryInv, PlaceInv
<1>11. KeyInv'
  <2>1. ASSUME NEW u \in Workers PROVE KeyOK(u)'
    BY <1>2, <1>3, <1>4, KeyKept
  <2> QED BY <2>1, KeyEachNext
<1>12. Q3!KeysCounted'
  BY <1>2, KeysSame DEF DictionaryInv
<1> QED BY <1>7, <1>9, <1>10, <1>11, <1>12 DEF DictionaryInv

LEMMA DictionaryStep ==
  ASSUME DictionaryInv, Q3!Next
  PROVE  DictionaryInv'
BY ClientSteps, AcceptStep, TakeStep, LockStep, TestStep, WriteStep, LastSteps
   DEF Q3!Next, Q3!HandleConnection

LEMMA DictionarySame ==
  ASSUME DictionaryInv, UNCHANGED dictionaryVars
  PROVE  DictionaryInv'
<1>1. UNCHANGED <<commands, arg, client, cmd, answer, backlog, thread_q,
                  worker, conn, present, locks>>
  BY DEF dictionaryVars
<1>2. DictionaryType' /\ ClientInv'
  BY <1>1 DEF DictionaryInv, DictionaryType, ClientInv, Q3!Clients
<1>3. PlaceInv'
  BY <1>1 DEF DictionaryInv, PlaceInv, Q3!Clients, Once, In
<1>4. KeyInv'
  <2>1. ASSUME NEW u \in Workers PROVE KeyOK(u)'
    BY <1>1, KeyKept
  <2> QED BY <2>1, KeyEachNext
<1>5. Q3!KeysCounted'
  BY <1>1, KeysSame DEF DictionaryInv
<1> QED BY <1>2, <1>3, <1>4, <1>5 DEF DictionaryInv

LEMMA DictionaryInit ==
  ASSUME Q3!Init
  PROVE  DictionaryInv
<1>1. /\ commands \in Inputs /\ arg = 0 /\ backlog = <<>> /\ thread_q = <<>>
      /\ client = [n \in Q3!Clients |-> "none"] /\ cmd = [n \in Q3!Clients |-> 0]
      /\ answer = [n \in Q3!Clients |-> "none"]
      /\ worker = [u \in Workers |-> "loop"] /\ conn = [u \in Workers |-> 0]
      /\ present = [k \in Keys |-> FALSE] /\ locks = [k \in Keys |-> Nobody]
  BY DEF Q3!Init
<1>2. Len(commands) \in Nat
  BY <1>1, SimulationsAssumption DEF Q3!Parameters
<1>3. DictionaryType
  BY <1>1, <1>2 DEF DictionaryType, Serving
<1>4. In(backlog) = {} /\ In(thread_q) = {} /\ Once(backlog) /\ Once(thread_q)
  BY <1>1 DEF In, Once
<1>5. ClientInv /\ PlaceInv
  BY <1>1, <1>4 DEF ClientInv, PlaceInv, Serving
<1>6. KeyInv
  BY <1>1 DEF KeyInv
<1>7. Q3!KeysCounted
  <2>1. \A o, k : Q3!Answered(o, k) = {}
    BY <1>1 DEF Q3!Answered
  <2>2. \A k \in Keys : ~ present[k]
    BY <1>1
  <2> QED BY <2>1, <2>2, Q3Cardinality, FS_EmptySet DEF Q3!KeysCounted
<1> QED BY <1>3, <1>5, <1>6, <1>7 DEF DictionaryInv


----------------------------------------------------------------------------
(* The courses and the TAs they take *)

ServiceAll == CourseType /\ ServiceInv /\ BonusInv

LEMMA RegistrationIs ==
  ASSUME CourseType
  PROVE  /\ \A d \in Courses : Q1!LabsOf[d] \in Seq(Labs) /\ Len(Q1!LabsOf[d]) \in Nat
         /\ \A d \in Courses : \A n \in 1 .. Len(Q1!LabsOf[d]) : Q1!LabsOf[d][n] \in Labs
         /\ \A l \in Labs : Q1!NumTA[l] \in Nat \ {0} /\ Q1!Quota[l] \in Nat \ {0}
         /\ Len(Q1!Prefs) \in Nat
         /\ \A s \in Q1!Students : Q1!Pref(s) \in Courses
         /\ Nobody \notin Courses
         /\ Courses \cap {"loop", "apply", "look", "doze", "change", "exited"} = {}
<1>1. /\ input.LabsOf \in [Courses -> Seq(Labs)] /\ input.NumTA \in [Labs -> 1 .. 20]
      /\ input.Quota \in [Labs -> Nat \ {0}] /\ input.Prefs \in Seq([1 .. 3 -> Courses])
      /\ Nobody \notin Courses
      /\ Courses \cap {"loop", "apply", "look", "doze", "change", "exited"} = {}
  BY SimulationsAssumption DEF CourseType, Q1!Parameters
<1>2. \A d \in Courses : Q1!LabsOf[d] \in Seq(Labs) /\ Len(Q1!LabsOf[d]) \in Nat
  BY <1>1 DEF Q1!LabsOf
<1>3. \A d \in Courses : \A n \in 1 .. Len(Q1!LabsOf[d]) : Q1!LabsOf[d][n] \in Labs
  BY <1>2
<1>4. \A l \in Labs : Q1!NumTA[l] \in Nat \ {0} /\ Q1!Quota[l] \in Nat \ {0}
  <2>1. \A l \in Labs : input.NumTA[l] \in 1 .. 20 /\ input.Quota[l] \in Nat \ {0}
    BY <1>1
  <2>2. \A n \in 1 .. 20 : n \in Nat \ {0}
    OBVIOUS
  <2> QED BY <2>1, <2>2 DEF Q1!NumTA, Q1!Quota
<1>5. Len(Q1!Prefs) \in Nat
  BY <1>1 DEF Q1!Prefs
<1>6. \A s \in Q1!Students : Q1!Pref(s) \in Courses
  <2>1. \A s \in Q1!Students : Q1!Prefs[s] \in [1 .. 3 -> Courses]
    BY <1>1 DEF Q1!Prefs, Q1!Students
  <2>2. \A s \in Q1!Students : student[s].current_pref \in 1 .. 3
    BY DEF CourseType, StudentType
  <2> QED BY <2>1, <2>2 DEF Q1!Pref
<1> QED BY <1>1, <1>2, <1>3, <1>4, <1>5, <1>6

LEMMA StudentsFinite == CourseType => IsFiniteSet(Q1!Students)
<1> HAVE CourseType
<1>1. Len(Q1!Prefs) \in Nat
  BY RegistrationIs
<1> QED BY <1>1, FS_Interval DEF Q1!Students

\* A TA is one of a lab's.
LEMMA TaIs ==
  ASSUME CourseType, NEW d \in Courses,
         i[d] \in 1 .. Len(Q1!LabsOf[d]), j[d] \in 0 .. Q1!NumTA[Q1!LabAt(d)] - 1
  PROVE  Q1!LabAt(d) \in Labs /\ Q1!TaAt(d) \in Q1!TAs /\ Q1!TaAt(d)[1] = Q1!LabAt(d)
<1>1. Q1!LabAt(d) \in Labs
  BY RegistrationIs DEF Q1!LabAt
<1> QED BY <1>1 DEF Q1!TaAt, Q1!TAs

\* What ServiceInv says of one course.
ServiceOK(d) ==
  /\ at[d] \in Holding \cup {"look", "take"} =>
       i[d] \in 1 .. Len(Q1!LabsOf[d]) /\ j[d] \in 0 .. Q1!NumTA[Q1!LabAt(d)] - 1
  /\ at[d] \in Holding =>
       /\ ta[Q1!TaAt(d)].current_course = d
       /\ at[d] # "leave" => ta[Q1!TaAt(d)].state # "unassigned"
       /\ at[d] \in Locked => talock[Q1!TaAt(d)] = d
  /\ at[d] \in {"free", "leave"} => course[d] # "waiting_slots"
  /\ course[d] = "withdrawn" => at[d] \in {"notify", "exited"}

Serves(d) ==
  \A t \in Q1!TAs : ta[t].current_course = d => at[d] \in Holding /\ t = Q1!TaAt(d)

LEMMA ServiceEach == ServiceInv <=> \A d \in Courses : ServiceOK(d) /\ Serves(d)
BY DEF ServiceInv, ServiceOK, Serves

LEMMA ServiceEachNext == ServiceInv' <=> \A d \in Courses : ServiceOK(d)' /\ Serves(d)'
BY DEF ServiceInv, ServiceOK, Serves

\* A course that holds a TA is the one this serves.
LEMMA HoldingIs ==
  ASSUME CourseType, ServiceInv, NEW c \in Courses, at[c] \in Holding
  PROVE  /\ Q1!LabAt(c) \in Labs /\ Q1!TaAt(c) \in Q1!TAs
         /\ ta[Q1!TaAt(c)].current_course = c
         /\ at[c] # "leave" => ta[Q1!TaAt(c)].state # "unassigned"
         /\ at[c] \in Locked => talock[Q1!TaAt(c)] = c
BY TaIs, ServiceEach DEF ServiceOK

\* A step of one course: who serves another goes on with it.
LEMMA ServiceStep ==
  ASSUME CourseType, ServiceInv, NEW c \in Courses, UNCHANGED input,
         \A d \in Courses : d # c =>
           at'[d] = at[d] /\ i'[d] = i[d] /\ j'[d] = j[d] /\ course'[d] = course[d],
         \A t \in Q1!TAs :
           \/ ta'[t] = ta[t] /\ talock'[t] = talock[t]
           \/ /\ ta[t].current_course \in {c, Nobody}
              /\ ta'[t].current_course \in {c, Nobody},
         ServiceOK(c)', Serves(c)'
  PROVE  ServiceInv'
<1>1. /\ Q1!TAs' = Q1!TAs /\ Q1!LabsOf' = Q1!LabsOf /\ Q1!NumTA' = Q1!NumTA
      /\ Nobody \notin Courses
  BY RegistrationIs DEF Q1!TAs, Q1!LabsOf, Q1!NumTA
<1>2. ASSUME NEW d \in Courses, d # c PROVE ServiceOK(d)' /\ Serves(d)'
  <2>1. Q1!LabAt(d)' = Q1!LabAt(d) /\ Q1!TaAt(d)' = Q1!TaAt(d)
    BY <1>1, <1>2 DEF Q1!LabAt, Q1!TaAt
  <2>2. at'[d] = at[d] /\ i'[d] = i[d] /\ j'[d] = j[d] /\ course'[d] = course[d]
    BY <1>2
  <2>3. ServiceOK(d) /\ Serves(d)
    BY ServiceEach
  <2>4. ServiceOK(d)'
    <3>1. CASE at[d] \in Holding
      <4>1. Q1!TaAt(d) \in Q1!TAs /\ ta[Q1!TaAt(d)].current_course = d
        BY <3>1, HoldingIs
      <4>2. ta'[Q1!TaAt(d)] = ta[Q1!TaAt(d)] /\ talock'[Q1!TaAt(d)] = talock[Q1!TaAt(d)]
        BY <1>1, <1>2, <4>1
      <4> QED BY <1>1, <2>1, <2>2, <2>3, <4>2 DEF ServiceOK
    <3>2. CASE at[d] \notin Holding
      BY <1>1, <2>1, <2>2, <2>3, <3>2 DEF ServiceOK
    <3> QED BY <3>1, <3>2
  <2>5. Serves(d)'
    <3>1. ASSUME NEW t \in Q1!TAs, ta'[t].current_course = d
          PROVE  ta[t].current_course = d
      BY <1>1, <1>2, <3>1
    <3> QED BY <1>1, <2>1, <2>2, <2>3, <3>1 DEF Serves
  <2> QED BY <2>4, <2>5
<1> QED BY <1>2, ServiceEachNext

LEMMA BonusSame ==
  ASSUME BonusInv, UNCHANGED <<input, lab>>,
         \A t \in Q1!TAs : ta'[t].taship = ta[t].taship
  PROVE  BonusInv'
BY DEF BonusInv, Q1!TAs, Q1!NumTA, Q1!Quota

\* The thread of a course goes on, and holds the TA it has held, if any.
LEMMA JustMoves ==
  ASSUME ServiceAll, NEW c \in Courses, UNCHANGED <<input, lab, ta, talock, course, i, j>>,
         NEW l, at' = [at EXCEPT ![c] = l],
         \/ at[c] \in Locked \ {"free", "leave"} /\ l \in Locked \ {"free", "leave"}
         \/ at[c] = "notify" /\ l \in {"notify", "exited"}
         \/ at[c] = "look" /\ l = "take",
         TutorialType', StudentType'
  PROVE  ServiceAll'
<1>0. CourseType /\ ServiceInv /\ BonusInv
  BY DEF ServiceAll
<1>1. /\ at' \in [Courses -> Holding \cup {"check", "look", "take", "notify", "exited"}]
      /\ at'[c] = l /\ \A d \in Courses : d # c => at'[d] = at[d]
  BY <1>0 DEF CourseType, Holding, Locked
<1>2. /\ Q1!TAs' = Q1!TAs /\ Q1!Students' = Q1!Students /\ Q1!LabsOf' = Q1!LabsOf
      /\ Q1!NumTA' = Q1!NumTA
  BY DEF Q1!TAs, Q1!Students, Q1!Prefs, Q1!LabsOf, Q1!NumTA
<1>3. CourseType'
  BY <1>0, <1>1, <1>2 DEF CourseType, TaType
<1>4. Q1!LabAt(c)' = Q1!LabAt(c) /\ Q1!TaAt(c)' = Q1!TaAt(c)
  BY <1>2 DEF Q1!LabAt, Q1!TaAt
<1>5. ServiceOK(c) /\ Serves(c)
  BY <1>0, ServiceEach
<1>6. ServiceOK(c)' /\ Serves(c)'
  BY <1>1, <1>2, <1>4, <1>5 DEF ServiceOK, Serves, Holding, Locked
<1>7. ServiceInv'
  BY <1>0, <1>1, <1>6, ServiceStep
<1> QED BY <1>0, <1>3, <1>7, BonusSame DEF ServiceAll


\* A course and one TA that serves nobody else change; the labs do not.
LEMMA ServiceMoves ==
  ASSUME ServiceAll, NEW c \in Courses, UNCHANGED <<input, lab, student, where, seen, late>>,
         NEW l \in Holding \cup {"check", "look", "take", "notify", "exited"},
         at' = [at EXCEPT ![c] = l],
         i' \in [Courses -> Nat], j' \in [Courses -> Nat],
         course' \in [Courses -> {"waiting_TA", "waiting_slots", "withdrawn"}],
         \A d \in Courses : d # c => i'[d] = i[d] /\ j'[d] = j[d] /\ course'[d] = course[d],
         TaType', TutorialType',
         \A t \in Q1!TAs :
           \/ ta'[t] = ta[t] /\ talock'[t] = talock[t]
           \/ /\ ta[t].current_course \in {c, Nobody}
              /\ ta'[t].current_course \in {c, Nobody},
         ServiceOK(c)', Serves(c)', BonusInv'
  PROVE  ServiceAll'
<1>0. CourseType /\ ServiceInv
  BY DEF ServiceAll
<1>1. /\ at' \in [Courses -> Holding \cup {"check", "look", "take", "notify", "exited"}]
      /\ \A d \in Courses : d # c => at'[d] = at[d]
  BY <1>0 DEF CourseType
<1>2. StudentType'
  BY <1>0 DEF CourseType, StudentType, Q1!Students, Q1!Prefs
<1>3. CourseType'
  BY <1>0, <1>1, <1>2 DEF CourseType
<1>4. ServiceInv'
  BY <1>0, <1>1, ServiceStep
<1> QED BY <1>3, <1>4 DEF ServiceAll

\* The next TA a course looks at is one there is.
LEMMA AdvanceIs ==
  ASSUME CourseType, NEW c \in Courses, UNCHANGED input, Q1!Advance(c),
         i[c] \in 1 .. Len(Q1!LabsOf[c]), j[c] \in 0 .. Q1!NumTA[Q1!LabAt(c)] - 1
  PROVE  /\ \E l \in {"look", "check"} : at' = [at EXCEPT ![c] = l]
         /\ i' \in [Courses -> Nat] /\ j' \in [Courses -> Nat]
         /\ \A d \in Courses : d # c => i'[d] = i[d] /\ j'[d] = j[d]
         /\ i'[c] \in 1 .. Len(Q1!LabsOf'[c])
         /\ j'[c] \in 0 .. Q1!NumTA'[Q1!LabAt(c)'] - 1
<1>1. /\ i \in [Courses -> Nat] /\ j \in [Courses -> Nat] /\ Len(Q1!LabsOf[c]) \in Nat
      /\ \A n \in 1 .. Len(Q1!LabsOf[c]) : Q1!LabsOf[c][n] \in Labs
      /\ \A l \in Labs : Q1!NumTA[l] \in Nat \ {0}
      /\ Q1!LabAt(c) = Q1!LabsOf[c][i[c]] /\ Q1!LabAt(c)' = Q1!LabsOf'[c][i'[c]]
      /\ Q1!LabsOf' = Q1!LabsOf /\ Q1!NumTA' = Q1!NumTA
  BY RegistrationIs DEF CourseType, Q1!LabAt, Q1!LabsOf, Q1!NumTA
<1>2. CASE j[c] + 1 < Q1!NumTA[Q1!LabAt(c)]
  <2>1. /\ j' = [j EXCEPT ![c] = j[c] + 1] /\ UNCHANGED i
        /\ at' = [at EXCEPT ![c] = "look"]
    BY <1>2 DEF Q1!Advance, Q1!Goto
  <2>2. j[c] + 1 \in Nat /\ j'[c] = j[c] + 1 /\ \A d \in Courses : d # c => j'[d] = j[d]
    BY <1>1, <2>1
  <2>3. Q1!LabAt(c)' = Q1!LabAt(c) /\ Q1!NumTA[Q1!LabAt(c)] \in Nat
    BY <1>1, <2>1
  <2> QED BY <1>1, <1>2, <2>1, <2>2, <2>3
<1>3. CASE ~ (j[c] + 1 < Q1!NumTA[Q1!LabAt(c)]) /\ i[c] < Len(Q1!LabsOf[c])
  <2>1. /\ j' = [j EXCEPT ![c] = 0] /\ i' = [i EXCEPT ![c] = i[c] + 1]
        /\ at' = [at EXCEPT ![c] = "look"]
    BY <1>3 DEF Q1!Advance, Q1!Goto
  <2>2. /\ i[c] + 1 \in 1 .. Len(Q1!LabsOf[c]) /\ i'[c] = i[c] + 1 /\ j'[c] = 0
        /\ \A d \in Courses : d # c => j'[d] = j[d] /\ i'[d] = i[d]
        /\ i' \in [Courses -> Nat] /\ j' \in [Courses -> Nat]
    BY <1>1, <1>3, <2>1
  <2>3. Q1!NumTA'[Q1!LabAt(c)'] \in Nat \ {0}
    BY <1>1, <2>2
  <2> QED BY <1>1, <2>1, <2>2, <2>3
<1>4. CASE ~ (j[c] + 1 < Q1!NumTA[Q1!LabAt(c)]) /\ ~ (i[c] < Len(Q1!LabsOf[c]))
  <2>1. UNCHANGED <<i, j>> /\ at' = [at EXCEPT ![c] = "check"]
    BY <1>4 DEF Q1!Advance, Q1!Goto
  <2>2. Q1!LabAt(c)' = Q1!LabAt(c)
    BY <1>1, <2>1
  <2> QED BY <1>1, <2>1, <2>2
<1> QED BY <1>2, <1>3, <1>4

LEMMA LookService ==
  ASSUME ServiceAll, NEW c \in Courses, Q1!Look(c), UNCHANGED input
  PROVE  ServiceAll'
<1>0. CourseType /\ ServiceInv /\ BonusInv
  BY DEF ServiceAll
<1>1. /\ at[c] = "look"
      /\ UNCHANGED <<lab, ta, talock, course, tut, student, where, seen, late>>
  BY DEF Q1!Look, Q1!studentVars
<1>2. /\ i[c] \in 1 .. Len(Q1!LabsOf[c]) /\ j[c] \in 0 .. Q1!NumTA[Q1!LabAt(c)] - 1
      /\ course[c] # "withdrawn"
      /\ \A t \in Q1!TAs : ta[t].current_course # c
  BY <1>0, <1>1, ServiceEach DEF ServiceOK, Serves, Holding, Locked
<1>3. TutorialType' /\ StudentType' /\ TaType' /\ BonusInv'
  BY <1>0, <1>1, BonusSame
     DEF CourseType, TutorialType, StudentType, TaType, Q1!Students, Q1!Prefs, Q1!TAs, Q1!NumTA
<1>4. CASE ta[Q1!TaAt(c)].state = "unassigned"
  <2>1. at' = [at EXCEPT ![c] = "take"] /\ UNCHANGED <<i, j>>
    BY <1>4 DEF Q1!Look, Q1!Goto
  <2> QED BY <1>1, <1>3, <2>1, JustMoves
<1>5. CASE ta[Q1!TaAt(c)].state # "unassigned"
  <2>1. Q1!Advance(c)
    BY <1>5 DEF Q1!Look
  <2>2. PICK l \in {"look", "check"} : at' = [at EXCEPT ![c] = l]
    BY <1>0, <1>2, <2>1, AdvanceIs
  <2>3. /\ i' \in [Courses -> Nat] /\ j' \in [Courses -> Nat]
        /\ \A d \in Courses : d # c => i'[d] = i[d] /\ j'[d] = j[d]
        /\ i'[c] \in 1 .. Len(Q1!LabsOf'[c])
        /\ j'[c] \in 0 .. Q1!NumTA'[Q1!LabAt(c)'] - 1
    BY <1>0, <1>2, <2>1, AdvanceIs
  <2>4. at'[c] = l /\ l \notin Holding /\ l \notin {"free", "leave"}
    BY <1>0, <2>2 DEF CourseType, Holding, Locked
  <2>5. ServiceOK(c)' /\ Serves(c)'
    BY <1>1, <1>2, <2>3, <2>4 DEF ServiceOK, Serves, Q1!TAs, Q1!NumTA
  <2> QED BY <1>0, <1>1, <1>3, <2>2, <2>3, <2>5, ServiceMoves DEF CourseType
<1> QED BY <1>4, <1>5

LEMMA TakeService ==
  ASSUME ServiceAll, NEW c \in Courses, Q1!Take(c), UNCHANGED input
  PROVE  ServiceAll'
<1>0. CourseType /\ ServiceInv /\ BonusInv
  BY DEF ServiceAll
<1>1. /\ at[c] = "take" /\ talock[Q1!TaAt(c)] = Nobody
      /\ UNCHANGED <<lab, talock, tut, student, where, seen, late>>
  BY DEF Q1!Take, Q1!studentVars
<1>2. /\ i[c] \in 1 .. Len(Q1!LabsOf[c]) /\ j[c] \in 0 .. Q1!NumTA[Q1!LabAt(c)] - 1
      /\ course[c] # "withdrawn"
      /\ \A t \in Q1!TAs : ta[t].current_course # c
  BY <1>0, <1>1, ServiceEach DEF ServiceOK, Serves, Holding, Locked
<1>3. PICK t \in Q1!TAs : t = Q1!TaAt(c) /\ t[1] = Q1!LabAt(c)
  BY <1>0, <1>2, TaIs
<1>4. TutorialType'
  BY <1>0, <1>1 DEF CourseType, TutorialType
<1>5. Q1!TAs' = Q1!TAs /\ Q1!NumTA' = Q1!NumTA /\ Q1!LabsOf' = Q1!LabsOf /\ Q1!Quota' = Q1!Quota
      /\ Nobody \notin Courses
  BY <1>0, RegistrationIs DEF Q1!TAs, Q1!NumTA, Q1!LabsOf, Q1!Quota
<1>6. CASE Q1!Eligible(t)
  <2>1. /\ ta' = [ta EXCEPT ![t] = [state |-> "assigned", taship |-> ta[t].taship + 1,
                                    current_course |-> c]]
        /\ course' = [course EXCEPT ![c] = "waiting_slots"]
        /\ at' = [at EXCEPT ![c] = "conduct"] /\ UNCHANGED <<i, j>>
    BY <1>3, <1>6 DEF Q1!Take, Q1!Goto
  <2>2. /\ ta \in [Q1!TAs -> [state : {"unassigned", "assigned", "in_tut"}, taship : Nat,
                              current_course : Courses \cup {Nobody}]]
        /\ talock \in [Q1!TAs -> Courses \cup {Nobody}]
        /\ at \in [Courses -> Holding \cup {"check", "look", "take", "notify", "exited"}]
        /\ course \in [Courses -> {"waiting_TA", "waiting_slots", "withdrawn"}]
    BY <1>0 DEF CourseType, TaType
  <2>3. /\ ta' \in [Q1!TAs -> [state : {"unassigned", "assigned", "in_tut"}, taship : Nat,
                               current_course : Courses \cup {Nobody}]]
        /\ ta'[t] = [state |-> "assigned", taship |-> ta[t].taship + 1, current_course |-> c]
        /\ \A u \in Q1!TAs : u # t => ta'[u] = ta[u]
    BY <2>1, <2>2
  <2>4. ta[t].current_course = Nobody
    <3>1. ASSUME NEW d \in Courses, ta[t].current_course = d PROVE FALSE
      <4>1. at[d] \in Holding /\ t = Q1!TaAt(d)
        BY <1>0, <3>1, ServiceEach DEF Serves
      <4>2. ta[t].state = "unassigned"
        BY <1>6 DEF Q1!Eligible
      <4>3. at[d] = "leave" /\ talock[t] = d
        BY <1>0, <4>1, <4>2, HoldingIs DEF Locked
      <4> QED BY <1>1, <1>3, <1>5, <3>1, <4>3
    <3> QED BY <2>2, <3>1
  <2>5. at'[c] = "conduct" /\ course'[c] = "waiting_slots"
        /\ \A d \in Courses : d # c => course'[d] = course[d]
    BY <2>1, <2>2
  <2>6. Q1!LabAt(c)' = Q1!LabAt(c) /\ Q1!TaAt(c)' = t
    BY <1>3, <1>5, <2>1 DEF Q1!LabAt, Q1!TaAt
  <2>7. ServiceOK(c)'
    BY <1>2, <1>5, <2>1, <2>3, <2>5, <2>6 DEF ServiceOK, Locked
  <2>8. Serves(c)'
    BY <1>2, <1>5, <2>3, <2>5, <2>6 DEF Serves, Holding
  <2>9. BonusInv'
    <3>1. PICK n \in Nat : n = ta[t].taship
      BY <2>2
    <3>2. PICK b \in Nat : b = lab[t[1]].bonus
      <4>1. t[1] \in Labs
        BY <1>0, <1>2, <1>3, TaIs
      <4> QED BY <1>0, <4>1 DEF CourseType
    <3>3. PICK q \in Nat : q = Q1!Quota[t[1]]
      <4>1. t[1] \in Labs
        BY <1>0, <1>2, <1>3, TaIs
      <4> QED BY <1>0, <4>1, RegistrationIs
    <3>4. n < b /\ n < q /\ b <= n + 1
      BY <1>0, <1>6, <3>1, <3>2, <3>3 DEF Q1!Eligible, BonusInv
    <3>5. n + 1 <= b /\ b <= (n + 1) + 1 /\ n + 1 <= q
      BY <3>4
    <3>6. ta'[t].taship = n + 1
      BY <2>3, <3>1
    <3>7. \A u \in Q1!TAs :
            /\ ta'[u].taship <= lab[u[1]].bonus /\ lab[u[1]].bonus <= ta'[u].taship + 1
            /\ ta'[u].taship <= Q1!Quota[u[1]]
      <4> SUFFICES ASSUME NEW u \in Q1!TAs
                   PROVE  /\ ta'[u].taship <= lab[u[1]].bonus
                          /\ lab[u[1]].bonus <= ta'[u].taship + 1
                          /\ ta'[u].taship <= Q1!Quota[u[1]]
        OBVIOUS
      <4>1. CASE u = t
        BY <3>2, <3>3, <3>5, <3>6, <4>1
      <4>2. CASE u # t
        BY <1>0, <2>3, <4>2 DEF BonusInv
      <4> QED BY <4>1, <4>2
    <3> QED BY <1>1, <1>5, <3>7 DEF BonusInv
  <2>10. \A u \in Q1!TAs :
           \/ ta'[u] = ta[u] /\ talock'[u] = talock[u]
           \/ /\ ta[u].current_course \in {c, Nobody}
              /\ ta'[u].current_course \in {c, Nobody}
    BY <1>1, <2>3, <2>4
  <2>11. TaType'
    BY <1>1, <1>5, <2>2, <2>3 DEF TaType
  <2>12. course' \in [Courses -> {"waiting_TA", "waiting_slots", "withdrawn"}]
         /\ "conduct" \in Holding /\ i' \in [Courses -> Nat] /\ j' \in [Courses -> Nat]
    BY <1>0, <2>1, <2>2 DEF Holding, CourseType
  <2> QED BY <1>0, <1>1, <1>4, <2>1, <2>5, <2>7, <2>8, <2>9, <2>10, <2>11, <2>12, ServiceMoves
<1>7. CASE ~ Q1!Eligible(t)
  <2>1. Q1!Advance(c) /\ UNCHANGED <<ta, course>>
    BY <1>3, <1>7 DEF Q1!Take
  <2>2. PICK l \in {"look", "check"} : at' = [at EXCEPT ![c] = l]
    BY <1>0, <1>2, <2>1, AdvanceIs
  <2>3. /\ i' \in [Courses -> Nat] /\ j' \in [Courses -> Nat]
        /\ \A d \in Courses : d # c => i'[d] = i[d] /\ j'[d] = j[d]
        /\ i'[c] \in 1 .. Len(Q1!LabsOf'[c])
        /\ j'[c] \in 0 .. Q1!NumTA'[Q1!LabAt(c)'] - 1
    BY <1>0, <1>2, <2>1, AdvanceIs
  <2>4. at'[c] = l /\ l \notin Holding /\ l \notin {"free", "leave"}
    BY <1>0, <2>2 DEF CourseType, Holding, Locked
  <2>5. ServiceOK(c)' /\ Serves(c)'
    BY <1>1, <1>2, <1>5, <2>1, <2>3, <2>4 DEF ServiceOK, Serves
  <2>6. TaType' /\ BonusInv'
    BY <1>0, <1>1, <1>5, <2>1, BonusSame DEF CourseType, TaType
  <2> QED BY <1>0, <1>1, <1>4, <2>1, <2>2, <2>3, <2>5, <2>6, ServiceMoves DEF CourseType
<1> QED BY <1>6, <1>7


\* A course goes on with the TA it holds.
LEMMA HoldsOn ==
  ASSUME ServiceAll, NEW c \in Courses, at[c] \in Holding,
         NEW l \in Holding, at' = [at EXCEPT ![c] = l],
         UNCHANGED <<input, lab, i, j, student, where, seen, late>>,
         TaType', TutorialType',
         \A u \in Q1!TAs : u # Q1!TaAt(c) => ta'[u] = ta[u] /\ talock'[u] = talock[u],
         ta'[Q1!TaAt(c)].taship = ta[Q1!TaAt(c)].taship,
         ta'[Q1!TaAt(c)].current_course = c,
         l # "leave" => ta'[Q1!TaAt(c)].state # "unassigned",
         l \in Locked => talock'[Q1!TaAt(c)] = c,
         NEW m \in {"waiting_TA", "waiting_slots"}, course' = [course EXCEPT ![c] = m],
         l \in {"free", "leave"} => m = "waiting_TA"
  PROVE  ServiceAll'
<1>0. CourseType /\ ServiceInv /\ BonusInv
  BY DEF ServiceAll
<1>1. PICK t \in Q1!TAs : t = Q1!TaAt(c) /\ ta[t].current_course = c
  BY <1>0, HoldingIs
<1>2. Q1!TAs' = Q1!TAs /\ Q1!NumTA' = Q1!NumTA /\ Q1!LabsOf' = Q1!LabsOf
  BY DEF Q1!TAs, Q1!NumTA, Q1!LabsOf
<1>3. Q1!LabAt(c)' = Q1!LabAt(c) /\ Q1!TaAt(c)' = t
  BY <1>1, <1>2 DEF Q1!LabAt, Q1!TaAt
<1>4. at'[c] = l /\ course'[c] = m /\ i' \in [Courses -> Nat] /\ j' \in [Courses -> Nat]
      /\ course' \in [Courses -> {"waiting_TA", "waiting_slots", "withdrawn"}]
      /\ \A d \in Courses : d # c => course'[d] = course[d]
  BY <1>0 DEF CourseType
<1>5. ServiceOK(c) /\ Serves(c)
  BY <1>0, ServiceEach
<1>6. ServiceOK(c)'
  BY <1>1, <1>2, <1>3, <1>4, <1>5 DEF ServiceOK
<1>7. Serves(c)'
  <2>1. ASSUME NEW u \in Q1!TAs, ta'[u].current_course = c PROVE u = t
    BY <1>1, <1>5, <2>1 DEF Serves
  <2> QED BY <1>2, <1>3, <1>4, <2>1 DEF Serves
<1>8. \A u \in Q1!TAs :
        \/ ta'[u] = ta[u] /\ talock'[u] = talock[u]
        \/ /\ ta[u].current_course \in {c, Nobody}
           /\ ta'[u].current_course \in {c, Nobody}
  BY <1>1
<1>9. \A u \in Q1!TAs : ta'[u].taship = ta[u].taship
  BY <1>1
<1>10. BonusInv'
  BY <1>0, <1>9, BonusSame
<1> QED BY <1>4, <1>6, <1>7, <1>8, <1>10, ServiceMoves

LEMMA TAsAre ==
  ASSUME CourseType
  PROVE  /\ ta \in [Q1!TAs -> [state : {"unassigned", "assigned", "in_tut"}, taship : Nat,
                               current_course : Courses \cup {Nobody}]]
         /\ talock \in [Q1!TAs -> Courses \cup {Nobody}]
         /\ tut \in [Courses -> [D : Nat, done : Nat, s : Nat \ {0}]]
         /\ course \in [Courses -> {"waiting_TA", "waiting_slots", "withdrawn"}]
         /\ at \in [Courses -> Holding \cup {"check", "look", "take", "notify", "exited"}]
BY DEF CourseType, TaType, TutorialType

\* A course that holds a TA has not been withdrawn.
LEMMA NotWithdrawn ==
  ASSUME ServiceAll, NEW c \in Courses, at[c] \notin {"notify", "exited"}
  PROVE  course[c] \in {"waiting_TA", "waiting_slots"}
BY ServiceEach, TAsAre DEF ServiceAll, ServiceOK

LEMMA LockService ==
  ASSUME ServiceAll, NEW c \in Courses, Q1!Count(c) \/ Q1!Finish(c), UNCHANGED input
  PROVE  ServiceAll'
<1>0. CourseType /\ ServiceInv
  BY DEF ServiceAll
<1>1. /\ at[c] \in {"conduct", "tutorial"} /\ talock' = [talock EXCEPT ![Q1!TaAt(c)] = c]
      /\ UNCHANGED <<lab, ta, course, i, j, student, where, seen, late>>
  BY DEF Q1!Count, Q1!Finish, Q1!Lock, Q1!studentVars
<1>2. PICK l \in {"seat", "release"} : at' = [at EXCEPT ![c] = l]
  BY DEF Q1!Count, Q1!Finish, Q1!Goto
<1>3. /\ at[c] \in Holding /\ l \in Holding /\ l # "leave" /\ l \notin {"free", "leave"}
      /\ at[c] # "leave"
  BY <1>1 DEF Holding, Locked
<1>4. PICK t \in Q1!TAs : t = Q1!TaAt(c) /\ ta[t].current_course = c /\ ta[t].state # "unassigned"
  BY <1>0, <1>3, HoldingIs
<1>5. talock' \in [Q1!TAs -> Courses \cup {Nobody}] /\ talock'[t] = c
      /\ \A u \in Q1!TAs : u # t => talock'[u] = talock[u]
  BY <1>0, <1>1, <1>4, TAsAre
<1>6. TaType'
  BY <1>0, <1>1, <1>5, TAsAre DEF TaType, Q1!TAs, Q1!NumTA
<1>7. TutorialType'
  <2>1. CASE Q1!Finish(c)
    BY <1>0, <2>1, TAsAre DEF Q1!Finish, TutorialType
  <2>2. CASE Q1!Count(c)
    <3>1. PICK D \in 1 .. Q1!MaxSlot[c] :
            tut' = [tut EXCEPT ![c].D =
                      IF D > Q1!Cardinality({s \in Q1!Students : Q1!Waiting(c, s)})
                      THEN Q1!Cardinality({s \in Q1!Students : Q1!Waiting(c, s)}) ELSE D]
      BY <2>2 DEF Q1!Count
    <3>2. Q1!Cardinality({s \in Q1!Students : Q1!Waiting(c, s)}) \in Nat
      <4>1. \A S : Q1!Cardinality(S) = Cardinality(S)
        BY DEF Q1!Cardinality, Cardinality
      <4> QED BY <1>0, <4>1, StudentsFinite, FS_Subset, FS_CardinalityType
    <3>3. D \in Nat
      OBVIOUS
    <3>4. PICK n \in Nat : tut' = [tut EXCEPT ![c].D = n]
      BY <3>1, <3>2, <3>3
    <3> QED BY <1>0, <3>4, TAsAre DEF TutorialType
  <2> QED BY <2>1, <2>2
<1>8. PICK m \in {"waiting_TA", "waiting_slots"} : m = course[c] /\ course' = [course EXCEPT ![c] = m]
  BY <1>0, <1>1, NotWithdrawn, TAsAre
<1> QED BY <1>1, <1>2, <1>3, <1>4, <1>5, <1>6, <1>7, <1>8, HoldsOn

LEMMA StartService ==
  ASSUME ServiceAll, NEW c \in Courses, Q1!Start(c), UNCHANGED input
  PROVE  ServiceAll'
<1>0. CourseType /\ ServiceInv
  BY DEF ServiceAll
<1>1. /\ at[c] = "seat" /\ ta' = [ta EXCEPT ![Q1!TaAt(c)].state = "in_tut"]
      /\ talock' = [talock EXCEPT ![Q1!TaAt(c)] = Nobody]
      /\ tut' = [tut EXCEPT ![c] = [Q1!NoTutorial EXCEPT !.D = tut[c].D]]
      /\ at' = [at EXCEPT ![c] = "tutorial"]
      /\ UNCHANGED <<lab, course, i, j, student, where, seen, late>>
  BY DEF Q1!Start, Q1!Goto, Q1!studentVars
<1>2. /\ at[c] \in Holding /\ "tutorial" \in Holding /\ "tutorial" \notin Locked
  BY <1>1 DEF Holding, Locked
<1>3. PICK t \in Q1!TAs : t = Q1!TaAt(c) /\ ta[t].current_course = c
  BY <1>0, <1>2, HoldingIs
<1>4. /\ talock' \in [Q1!TAs -> Courses \cup {Nobody}]
      /\ ta' \in [Q1!TAs -> [state : {"unassigned", "assigned", "in_tut"}, taship : Nat,
                             current_course : Courses \cup {Nobody}]]
      /\ \A u \in Q1!TAs : u # t => talock'[u] = talock[u] /\ ta'[u] = ta[u]
      /\ ta'[t].state = "in_tut" /\ ta'[t].taship = ta[t].taship /\ ta'[t].current_course = c
  BY <1>0, <1>1, <1>3, TAsAre
<1>5. TaType'
  BY <1>4 DEF TaType, Q1!TAs, Q1!NumTA
<1>6. TutorialType'
  <2>1. PICK n \in Nat : n = tut[c].D
    BY <1>0, TAsAre
  <2>2. [Q1!NoTutorial EXCEPT !.D = n] = [D |-> n, done |-> 0, s |-> 1]
    BY DEF Q1!NoTutorial
  <2>3. tut' = [tut EXCEPT ![c] = [D |-> n, done |-> 0, s |-> 1]]
    BY <1>1, <2>1, <2>2
  <2> QED BY <1>0, <2>3, TAsAre DEF TutorialType
<1>7. PICK m \in {"waiting_TA", "waiting_slots"} : m = course[c]
  BY <1>1, NotWithdrawn
<1>8. course' = [course EXCEPT ![c] = m]
  <2>1. course' = course /\ course \in [Courses -> {"waiting_TA", "waiting_slots", "withdrawn"}]
    BY <1>0, <1>1, TAsAre
  <2> QED BY <1>7, <2>1
<1>9. /\ at' = [at EXCEPT ![c] = "tutorial"]
      /\ UNCHANGED <<input, lab, i, j, student, where, seen, late>>
  BY <1>1
<1>10. "tutorial" \notin {"free", "leave"}
  OBVIOUS
<1> QED BY <1>2, <1>3, <1>4, <1>5, <1>6, <1>8, <1>9, <1>10, HoldsOn

LEMMA EndService ==
  ASSUME ServiceAll, NEW c \in Courses, Q1!End(c), UNCHANGED input
  PROVE  ServiceAll' /\ course' = [course EXCEPT ![c] = "waiting_TA"]
<1>0. CourseType /\ ServiceInv
  BY DEF ServiceAll
<1>1. /\ at[c] = "release" /\ course' = [course EXCEPT ![ta[Q1!TaAt(c)].current_course] = "waiting_TA"]
      /\ tut' = [tut EXCEPT ![c] = Q1!NoTutorial] /\ at' = [at EXCEPT ![c] = "free"]
      /\ UNCHANGED <<lab, ta, talock, i, j, student, where, seen, late>>
  BY DEF Q1!End, Q1!Goto, Q1!studentVars
<1>2. at[c] \in Holding /\ "free" \in Holding /\ at[c] \in Locked /\ at[c] # "leave"
  BY <1>1 DEF Holding, Locked
<1>3. PICK t \in Q1!TAs : /\ t = Q1!TaAt(c) /\ ta[t].current_course = c
                          /\ ta[t].state # "unassigned" /\ talock[t] = c
  BY <1>0, <1>2, HoldingIs
<1>4. course' = [course EXCEPT ![c] = "waiting_TA"]
  BY <1>1, <1>3
<1>5. TaType'
  BY <1>0, <1>1, TAsAre DEF TaType, Q1!TAs, Q1!NumTA
<1>6. TutorialType'
  BY <1>0, <1>1, TAsAre DEF TutorialType, Q1!NoTutorial
<1>7. ServiceAll'
  BY <1>1, <1>2, <1>3, <1>4, <1>5, <1>6, HoldsOn
<1> QED BY <1>4, <1>7

LEMMA FreeService ==
  ASSUME ServiceAll, NEW c \in Courses, Q1!Free(c), UNCHANGED input
  PROVE  ServiceAll'
<1>0. CourseType /\ ServiceInv
  BY DEF ServiceAll
<1>1. /\ at[c] = "free" /\ ta' = [ta EXCEPT ![Q1!TaAt(c)].state = "unassigned"]
      /\ at' = [at EXCEPT ![c] = "leave"]
      /\ UNCHANGED <<lab, talock, course, i, j, tut, student, where, seen, late>>
  BY DEF Q1!Free, Q1!Goto, Q1!studentVars
<1>2. at[c] \in Holding /\ "leave" \in Holding /\ at[c] \in Locked /\ course[c] = "waiting_TA"
  <2>1. at[c] \in Holding /\ "leave" \in Holding /\ at[c] \in Locked
    BY <1>1 DEF Holding, Locked
  <2> QED BY <1>0, <1>1, <2>1, ServiceEach, NotWithdrawn DEF ServiceOK
<1>3. PICK t \in Q1!TAs : t = Q1!TaAt(c) /\ ta[t].current_course = c /\ talock[t] = c
  BY <1>0, <1>2, HoldingIs
<1>4. /\ ta' \in [Q1!TAs -> [state : {"unassigned", "assigned", "in_tut"}, taship : Nat,
                             current_course : Courses \cup {Nobody}]]
      /\ \A u \in Q1!TAs : u # t => ta'[u] = ta[u]
      /\ ta'[t].taship = ta[t].taship /\ ta'[t].current_course = c
  BY <1>0, <1>1, <1>3, TAsAre
<1>5. TaType'
  BY <1>0, <1>1, <1>4, TAsAre DEF TaType, Q1!TAs, Q1!NumTA
<1>6. TutorialType'
  BY <1>0, <1>1, TAsAre DEF TutorialType
<1>7. course' = [course EXCEPT ![c] = "waiting_TA"]
  BY <1>0, <1>1, <1>2, TAsAre
<1> QED BY <1>1, <1>2, <1>3, <1>4, <1>5, <1>6, <1>7, HoldsOn

LEMMA LeaveService ==
  ASSUME ServiceAll, NEW c \in Courses, Q1!Leave(c), UNCHANGED input
  PROVE  ServiceAll' /\ at' = [at EXCEPT ![c] = "check"]
<1>0. CourseType /\ ServiceInv /\ BonusInv
  BY DEF ServiceAll
<1>1. /\ at[c] = "leave" /\ ta' = [ta EXCEPT ![Q1!TaAt(c)].current_course = Nobody]
      /\ talock' = [talock EXCEPT ![Q1!TaAt(c)] = Nobody]
      /\ UNCHANGED <<lab, course, i, j, tut, student, where, seen, late>>
  BY DEF Q1!Leave, Q1!studentVars
<1>2. at[c] \in Holding
  BY <1>1 DEF Holding, Locked
<1>3. course[c] = "waiting_TA"
  BY <1>0, <1>1, ServiceEach, NotWithdrawn DEF ServiceOK
<1>4. at' = [at EXCEPT ![c] = "check"]
  BY <1>3 DEF Q1!Leave, Q1!Goto
<1>5. PICK t \in Q1!TAs : t = Q1!TaAt(c) /\ ta[t].current_course = c
  BY <1>0, <1>2, HoldingIs
<1>6. /\ talock' \in [Q1!TAs -> Courses \cup {Nobody}]
      /\ ta' \in [Q1!TAs -> [state : {"unassigned", "assigned", "in_tut"}, taship : Nat,
                             current_course : Courses \cup {Nobody}]]
      /\ \A u \in Q1!TAs : u # t => talock'[u] = talock[u] /\ ta'[u] = ta[u]
      /\ ta'[t].taship = ta[t].taship /\ ta'[t].current_course = Nobody
  BY <1>0, <1>1, <1>5, TAsAre
<1>7. TaType' /\ Q1!TAs' = Q1!TAs
  BY <1>6 DEF TaType, Q1!TAs, Q1!NumTA
<1>8. TutorialType'
  BY <1>0, <1>1, TAsAre DEF TutorialType
<1>9. at'[c] = "check" /\ "check" \notin Holding
  BY <1>0, <1>4, TAsAre DEF Holding, Locked
<1>10. ServiceOK(c)'
  BY <1>1, <1>3, <1>9 DEF ServiceOK
<1>11. \A u \in Q1!TAs : ta'[u].current_course # c
  <2>1. \A u \in Q1!TAs : ta[u].current_course = c => u = t
    BY <1>0, <1>5, ServiceEach DEF Serves
  <2> QED BY <1>0, <1>6, <2>1, RegistrationIs
<1>12. Serves(c)'
  BY <1>7, <1>11 DEF Serves
<1>13. \A u \in Q1!TAs :
         \/ ta'[u] = ta[u] /\ talock'[u] = talock[u]
         \/ /\ ta[u].current_course \in {c, Nobody}
            /\ ta'[u].current_course \in {c, Nobody}
  BY <1>5, <1>6
<1>14. BonusInv'
  BY <1>0, <1>1, <1>6, BonusSame
<1>15. /\ i' \in [Courses -> Nat] /\ j' \in [Courses -> Nat]
       /\ course' \in [Courses -> {"waiting_TA", "waiting_slots", "withdrawn"}]
  BY <1>0, <1>1 DEF CourseType
<1>16. ServiceAll'
  BY <1>1, <1>4, <1>7, <1>8, <1>10, <1>12, <1>13, <1>14, <1>15, ServiceMoves
<1> QED BY <1>4, <1>16


\* Before it looks for a TA a course may be withdrawn.
LEMMA InitService ==
  ASSUME ServiceAll, NEW c \in Courses, Q1!Withdraw(c) \/ Q1!Check(c), UNCHANGED input
  PROVE  ServiceAll'
<1>0. CourseType /\ ServiceInv /\ BonusInv
  BY DEF ServiceAll
<1>1. /\ at[c] = "check"
      /\ UNCHANGED <<lab, ta, talock, tut, student, where, seen, late>>
  BY DEF Q1!Withdraw, Q1!Check, Q1!studentVars
<1>2. \A t \in Q1!TAs : ta[t].current_course # c
  BY <1>0, <1>1, ServiceEach DEF Serves, Holding, Locked
<1>3. /\ Q1!TAs' = Q1!TAs /\ Q1!NumTA' = Q1!NumTA /\ Q1!LabsOf' = Q1!LabsOf
      /\ TaType' /\ TutorialType' /\ BonusInv'
  BY <1>0, <1>1, BonusSame
     DEF CourseType, TaType, TutorialType, Q1!TAs, Q1!NumTA, Q1!LabsOf
<1>4. /\ i \in [Courses -> Nat] /\ j \in [Courses -> Nat]
      /\ course \in [Courses -> {"waiting_TA", "waiting_slots", "withdrawn"}]
      /\ at \in [Courses -> Holding \cup {"check", "look", "take", "notify", "exited"}]
  BY <1>0 DEF CourseType
<1>5. Serves(c)'
  BY <1>1, <1>2, <1>3 DEF Serves
<1>6. CASE Q1!Withdraw(c)
  <2>1. /\ course' = [course EXCEPT ![c] = "withdrawn"] /\ at' = [at EXCEPT ![c] = "notify"]
        /\ UNCHANGED <<i, j>>
    BY <1>6 DEF Q1!Withdraw, Q1!Goto
  <2>2. at'[c] = "notify" /\ "notify" \notin Holding
    BY <1>4, <2>1 DEF Holding, Locked
  <2>3. ServiceOK(c)'
    BY <2>2 DEF ServiceOK
  <2>4. /\ course' \in [Courses -> {"waiting_TA", "waiting_slots", "withdrawn"}]
        /\ \A d \in Courses : d # c => course'[d] = course[d]
    BY <1>4, <2>1
  <2> QED BY <1>1, <1>3, <1>4, <1>5, <2>1, <2>3, <2>4, ServiceMoves
<1>7. CASE Q1!Check(c)
  <2>1. /\ i' = [i EXCEPT ![c] = 1] /\ j' = [j EXCEPT ![c] = 0] /\ UNCHANGED course
        /\ at' = [at EXCEPT ![c] = "look"]
    BY <1>7 DEF Q1!Check, Q1!Goto
  <2>2. /\ i' \in [Courses -> Nat] /\ j' \in [Courses -> Nat] /\ i'[c] = 1 /\ j'[c] = 0
        /\ \A d \in Courses : d # c => i'[d] = i[d] /\ j'[d] = j[d]
        /\ at'[c] = "look" /\ "look" \notin Holding /\ course[c] # "withdrawn"
    BY <1>0, <1>1, <1>4, <2>1, ServiceEach DEF Holding, Locked, ServiceOK
  <2>3. 1 \in 1 .. Len(Q1!LabsOf[c])
    <3>1. PICK n \in 1 .. Len(Q1!LabsOf[c]) : TRUE
      BY <1>7 DEF Q1!Check
    <3>2. Len(Q1!LabsOf[c]) \in Nat
      BY <1>0, RegistrationIs
    <3> QED BY <3>1, <3>2
  <2>4. Q1!LabAt(c)' = Q1!LabsOf[c][1] /\ Q1!NumTA[Q1!LabsOf[c][1]] \in Nat \ {0}
    BY <1>0, <1>3, <2>2, <2>3, RegistrationIs DEF Q1!LabAt
  <2>5. 0 \in 0 .. Q1!NumTA[Q1!LabsOf[c][1]] - 1
    BY <2>4
  <2>6. ServiceOK(c)'
    BY <1>3, <2>1, <2>2, <2>3, <2>4, <2>5 DEF ServiceOK
  <2> QED BY <1>1, <1>3, <1>4, <1>5, <2>1, <2>2, <2>6, ServiceMoves
<1> QED BY <1>6, <1>7

\* The turns of the loops over the students.
LEMMA LoopService ==
  ASSUME ServiceAll, NEW c \in Courses, UNCHANGED input,
         Q1!NotifyAll(c) \/ Q1!Search(c) \/ Q1!Seat(c) \/ Q1!Decide(c) \/ Q1!Move(c)
  PROVE  ServiceAll'
<1>0. CourseType
  BY DEF ServiceAll
<1>1. /\ UNCHANGED <<lab, ta, talock, course, i, j>>
      /\ \E l : /\ at' = [at EXCEPT ![c] = l]
                /\ \/ at[c] \in Locked \ {"free", "leave"} /\ l \in Locked \ {"free", "leave"}
                   \/ at[c] = "notify" /\ l \in {"notify", "exited"}
  <2>1. UNCHANGED <<lab, ta, talock, course, i, j>>
    BY DEF Q1!NotifyAll, Q1!Search, Q1!Seat, Q1!Decide, Q1!Move, Q1!taVars
  <2>2. at' = at => at' = [at EXCEPT ![c] = at[c]]
    BY <1>0, TAsAre
  <2>3. CASE Q1!NotifyAll(c)
    BY <2>1, <2>2, <2>3 DEF Q1!NotifyAll, Q1!Goto
  <2>4. CASE Q1!Search(c)
    <3>1. at[c] \in Locked \ {"free", "leave"}
      BY <2>4 DEF Q1!Search, Locked
    <3>2. {"overrun", "found", "decide"} \subseteq Locked \ {"free", "leave"}
      BY DEF Locked
    <3> QED BY <2>1, <2>2, <2>4, <3>1, <3>2 DEF Q1!Search, Q1!Goto
  <2>5. CASE Q1!Seat(c) \/ Q1!Decide(c) \/ Q1!Move(c)
    BY <2>1, <2>5 DEF Q1!Seat, Q1!Decide, Q1!Move, Q1!Goto, Locked
  <2> QED BY <2>3, <2>4, <2>5
<1>2. TutorialType'
  <2>1. PICK n \in Nat, D \in Nat, m \in Nat \ {0} :
          tut[c] = [D |-> D, done |-> n, s |-> m]
    BY <1>0, TAsAre
  <2>2. \/ UNCHANGED tut
        \/ tut' = [tut EXCEPT ![c].s = m + 1]
        \/ tut' = [tut EXCEPT ![c].done = n + 1, ![c].s = m + 1]
    BY <1>0, <2>1, TAsAre DEF Q1!NotifyAll, Q1!Search, Q1!Seat, Q1!Decide, Q1!Move, Q1!Done
  <2>3. m + 1 \in Nat \ {0} /\ n + 1 \in Nat
    OBVIOUS
  <2>4. tut \in [Courses -> [D : Nat, done : Nat, s : Nat \ {0}]]
    BY <1>0, TAsAre
  <2>5. CASE UNCHANGED tut
    BY <2>4, <2>5 DEF TutorialType
  <2>6. CASE tut' = [tut EXCEPT ![c].s = m + 1]
    BY <2>3, <2>4, <2>6 DEF TutorialType
  <2>7. CASE tut' = [tut EXCEPT ![c].done = n + 1, ![c].s = m + 1]
    <3>1. tut' = [tut EXCEPT ![c] = [D |-> D, done |-> n + 1, s |-> m + 1]]
      BY <2>1, <2>4, <2>7
    <3> QED BY <2>3, <2>4, <3>1 DEF TutorialType
  <2> QED BY <2>2, <2>5, <2>6, <2>7
<1>3. StudentType'
  <2>0. StudentType /\ Q1!Students' = Q1!Students
    BY <1>0 DEF CourseType, Q1!Students, Q1!Prefs
  <2>1. where' \in [Q1!Students ->
          Courses \cup {"loop", "apply", "look", "doze", "change", "exited"}]
    <3>1. UNCHANGED where \/ Q1!Signal(c, tut[c].s)
      BY DEF Q1!NotifyAll, Q1!Search, Q1!Seat, Q1!Decide, Q1!Move
    <3> QED BY <2>0, <3>1 DEF Q1!Signal, StudentType
  <2>3. seen' = seen /\ late' \in [Q1!Students -> {"no", "missed", "skipped"}]
    <3>1. /\ seen' = seen
          /\ \/ UNCHANGED late
             \/ \E u : late' = late \/ late' = [late EXCEPT ![u] = "missed"]
                                  \/ late' = [late EXCEPT ![u] = late[u]]
      BY DEF Q1!NotifyAll, Q1!Search, Q1!Seat, Q1!Decide, Q1!Move
    <3> QED BY <2>0, <3>1 DEF StudentType
  <2>2. student' \in [Q1!Students ->
          [state : {"not_registered", "waiting", "attending_tut", "selected_course",
                    "exited_simulation"},
           current_pref : 1 .. 3]]
    <3>1. \/ UNCHANGED student
          \/ \E x \in {"waiting", "attending_tut", "selected_course"} :
               student' = [student EXCEPT ![tut[c].s].state = x]
          \/ Q1!NextPref(tut[c].s) /\ Q1!Decide(c)
      BY DEF Q1!NotifyAll, Q1!Search, Q1!Seat, Q1!Decide, Q1!Move
    <3>2. CASE Q1!NextPref(tut[c].s) /\ Q1!Decide(c)
      <4>1. CASE student[tut[c].s].current_pref < 3
        <5>1. student' = [student EXCEPT ![tut[c].s].current_pref =
                            student[tut[c].s].current_pref + 1]
          BY <3>2, <4>1 DEF Q1!NextPref
        <5>2. CASE tut[c].s \in Q1!Students
          <6>1. PICK p \in 1 .. 3 : p = student[tut[c].s].current_pref
            BY <2>0, <5>2 DEF StudentType
          <6>2. p + 1 \in 1 .. 3
            BY <4>1, <6>1
          <6> QED BY <2>0, <5>1, <6>1, <6>2 DEF StudentType
        <5>3. CASE tut[c].s \notin Q1!Students
          BY <2>0, <5>1, <5>3 DEF StudentType
        <5> QED BY <5>2, <5>3
      <4>2. CASE ~ (student[tut[c].s].current_pref < 3)
        BY <2>0, <3>2, <4>2 DEF Q1!NextPref, StudentType
      <4> QED BY <4>1, <4>2
    <3> QED BY <2>0, <3>1, <3>2 DEF StudentType
  <2> QED BY <2>0, <2>1, <2>2, <2>3 DEF StudentType
<1> QED BY <1>1, <1>2, <1>3, JustMoves

\* A lab raises its bonus once all its TAs have come as far.
LEMMA LabService ==
  ASSUME ServiceAll, NEW l \in Labs, Q1!Close(l) \/ Q1!RaiseBonus(l), UNCHANGED input
  PROVE  ServiceAll' /\ UNCHANGED <<course, at, tut, student, where, seen, late>>
<1>0. CourseType /\ ServiceInv /\ BonusInv
  BY DEF ServiceAll
<1>1. UNCHANGED <<ta, talock, course, i, j, at, tut, student, where, seen, late>>
  BY DEF Q1!Close, Q1!RaiseBonus, Q1!studentVars
<1>2. /\ Q1!TAs' = Q1!TAs /\ Q1!NumTA' = Q1!NumTA /\ Q1!LabsOf' = Q1!LabsOf
      /\ Q1!Quota' = Q1!Quota /\ Q1!Students' = Q1!Students
  BY DEF Q1!TAs, Q1!NumTA, Q1!LabsOf, Q1!Quota, Q1!Students, Q1!Prefs
<1>3. lab \in [Labs -> [state : {"TA_available", "No_TA_available"}, bonus : Nat]]
  BY <1>0 DEF CourseType
<1>4. ServiceInv'
  BY <1>0, <1>1, <1>2 DEF ServiceInv, Q1!LabAt, Q1!TaAt
<1>5. CourseType' /\ BonusInv'
  <2>1. lab' \in [Labs -> [state : {"TA_available", "No_TA_available"}, bonus : Nat]]
        /\ \A t \in Q1!TAs :
             ta[t].taship <= lab'[t[1]].bonus /\ lab'[t[1]].bonus <= ta[t].taship + 1
    <3>1. CASE Q1!Close(l)
      <4>1. lab' = [lab EXCEPT ![l].state = "No_TA_available"]
        BY <3>1 DEF Q1!Close
      <4>2. \A m \in Labs : lab'[m].bonus = lab[m].bonus
        BY <1>3, <4>1
      <4>3. \A t \in Q1!TAs : t[1] \in Labs
        BY DEF Q1!TAs
      <4> QED BY <1>0, <1>3, <4>1, <4>2, <4>3 DEF BonusInv
    <3>2. CASE Q1!RaiseBonus(l)
      <4>1. /\ lab' = [lab EXCEPT ![l].bonus = lab[l].bonus + 1]
            /\ \A t \in Q1!TAs : t[1] = l => ta[t].taship = lab[l].bonus
        BY <3>2 DEF Q1!RaiseBonus, Q1!AllServed, Q1!OfLab
      <4>2. PICK b \in Nat : b = lab[l].bonus
        BY <1>3
      <4>3. lab'[l].bonus = b + 1 /\ \A m \in Labs : m # l => lab'[m].bonus = lab[m].bonus
        BY <1>3, <4>1, <4>2
      <4>4. lab' \in [Labs -> [state : {"TA_available", "No_TA_available"}, bonus : Nat]]
        BY <1>3, <4>1, <4>2
      <4>5. ASSUME NEW t \in Q1!TAs
            PROVE  ta[t].taship <= lab'[t[1]].bonus /\ lab'[t[1]].bonus <= ta[t].taship + 1
        <5>1. t[1] \in Labs
          BY DEF Q1!TAs
        <5>2. CASE t[1] = l
          <6>1. ta[t].taship = b
            BY <4>1, <4>2, <5>2
          <6> QED BY <4>3, <5>2, <6>1
        <5>3. CASE t[1] # l
          BY <1>0, <4>3, <5>1, <5>3 DEF BonusInv
        <5> QED BY <5>2, <5>3
      <4> QED BY <4>4, <4>5
    <3> QED BY <3>1, <3>2
  <2>2. CourseType'
    BY <1>0, <1>1, <1>2, <2>1 DEF CourseType, TaType, TutorialType, StudentType
  <2>3. BonusInv'
    BY <1>0, <1>1, <1>2, <2>1 DEF BonusInv
  <2> QED BY <2>2, <2>3
<1> QED BY <1>1, <1>4, <1>5 DEF ServiceAll


\* A student does what concerns no TA.
LEMMA ThreadService ==
  ASSUME ServiceAll, NEW s \in Q1!Students, Q1!StudentThread(s), UNCHANGED input
  PROVE  ServiceAll' /\ UNCHANGED <<lab, ta, talock, course, i, j, at, tut>>
<1>0. CourseType /\ ServiceInv /\ BonusInv
  BY DEF ServiceAll
<1>1. UNCHANGED <<lab, ta, talock, course, i, j, at, tut>>
  BY DEF Q1!StudentThread, Q1!FillRegistration, Q1!Apply, Q1!ReadPref, Q1!Withdrawn,
         Q1!Offered, Q1!ChangePref, Q1!Wait, Q1!StudentExit, Q1!taVars
<1>2. /\ Q1!TAs' = Q1!TAs /\ Q1!NumTA' = Q1!NumTA /\ Q1!LabsOf' = Q1!LabsOf
      /\ Q1!Students' = Q1!Students
  BY DEF Q1!TAs, Q1!NumTA, Q1!LabsOf, Q1!Students, Q1!Prefs
<1>3. StudentType
  BY <1>0 DEF CourseType
<1>4. Q1!Pref(s) \in Courses
  BY <1>0, RegistrationIs
<1>5. /\ where' \in [Q1!Students ->
           Courses \cup {"loop", "apply", "look", "doze", "change", "exited"}]
      /\ seen' \in [Q1!Students -> Courses \cup {Nobody}]
      /\ late' \in [Q1!Students -> {"no", "missed", "skipped"}]
  BY <1>3, <1>4 DEF StudentType, Q1!StudentThread, Q1!FillRegistration, Q1!Apply, Q1!ReadPref,
                    Q1!Withdrawn, Q1!Offered, Q1!ChangePref, Q1!Wait, Q1!StudentExit
<1>6. student' \in [Q1!Students ->
        [state : {"not_registered", "waiting", "attending_tut", "selected_course",
                  "exited_simulation"},
         current_pref : 1 .. 3]]
  <2>1. PICK p \in 1 .. 3 : p = student[s].current_pref
    BY <1>3 DEF StudentType
  <2>2. \/ UNCHANGED student
        \/ student' = [student EXCEPT ![s].state = "waiting"]
        \/ student' = [student EXCEPT ![s].state = "exited_simulation"]
        \/ p < 3 /\ student' = [student EXCEPT ![s].current_pref = p + 1]
    BY <2>1 DEF Q1!StudentThread, Q1!FillRegistration, Q1!Apply, Q1!ReadPref, Q1!Withdrawn,
                Q1!Offered, Q1!ChangePref, Q1!Wait, Q1!StudentExit, Q1!NextPref
  <2>3. p < 3 => p + 1 \in 1 .. 3
    OBVIOUS
  <2> QED BY <1>3, <2>2, <2>3 DEF StudentType
<1>7. CourseType'
  BY <1>0, <1>1, <1>2, <1>5, <1>6 DEF CourseType, TaType, TutorialType, StudentType
<1>8. ServiceInv'
  BY <1>0, <1>1, <1>2 DEF ServiceInv, Q1!LabAt, Q1!TaAt
<1>9. BonusInv'
  BY <1>0, <1>1, BonusSame
<1> QED BY <1>1, <1>7, <1>8, <1>9 DEF ServiceAll

----------------------------------------------------------------------------
(* The tutorials and the students they seat *)

LEMMA StudentsAre ==
  ASSUME CourseType
  PROVE  /\ student \in [Q1!Students ->
              [state : {"not_registered", "waiting", "attending_tut", "selected_course",
                        "exited_simulation"},
               current_pref : 1 .. 3]]
         /\ where \in [Q1!Students ->
              Courses \cup {"loop", "apply", "look", "doze", "change", "exited"}]
         /\ seen \in [Q1!Students -> Courses \cup {Nobody}]
         /\ late \in [Q1!Students -> {"no", "missed", "skipped"}]
BY DEF CourseType, StudentType

\* How many look for a seat, from a student on, and how many have one.
LEMMA SeatedFinite ==
  ASSUME CourseType, NEW d \in Courses, NEW n
  PROVE  /\ IsFiniteSet(Applicants(d)) /\ IsFiniteSet(Attendants(d))
         /\ IsFiniteSet({s \in Applicants(d) : s >= n})
         /\ Cardinality(Attendants(d)) \in Nat
         /\ Cardinality({s \in Applicants(d) : s >= n}) \in Nat
<1>1. IsFiniteSet(Q1!Students)
  BY StudentsFinite
<1>2. /\ Applicants(d) \subseteq Q1!Students /\ Attendants(d) \subseteq Q1!Students
      /\ {s \in Applicants(d) : s >= n} \subseteq Q1!Students
  BY DEF Applicants, Attendants
<1> QED BY <1>1, <1>2, FS_Subset, FS_CardinalityType

\* What a student is to every tutorial, if neither changes.
LEMMA OthersSame ==
  ASSUME UNCHANGED input, NEW u, student'[u] = student[u],
         \A e \in Courses : at[e] = "moving" /\ tut[e].s = u
                              <=> at'[e] = "moving" /\ tut'[e].s = u
  PROVE  \A d \in Courses : /\ u \in Applicants(d)' <=> u \in Applicants(d)
                            /\ u \in Attendants(d)' <=> u \in Attendants(d)
<1>1. Q1!Students' = Q1!Students /\ Q1!Prefs' = Q1!Prefs
  BY DEF Q1!Students, Q1!Prefs
<1>2. Q1!Held(u)' <=> Q1!Held(u)
  BY DEF Q1!Held
<1>3. Q1!Pref(u)' = Q1!Pref(u)
  BY <1>1 DEF Q1!Pref
<1> QED BY <1>1, <1>2, <1>3 DEF Applicants, Attendants, Q1!Waiting, Q1!Attending

\* A tutorial whose students stay, and of whose applicants none goes.
LEMMA TutorialKept ==
  ASSUME CourseType, CourseType', NEW d \in Courses, TutorialInv(d),
         at'[d] = at[d], tut'[d] = tut[d], Q1!Students' = Q1!Students,
         at[d] \in {"seat", "found"} => Applicants(d) \subseteq Applicants(d)',
         Attendants(d)' = Attendants(d),
         at[d] = "moving" => student'[tut[d].s] = student[tut[d].s]
  PROVE  TutorialInv(d)'
<1>1. CASE at[d] \in {"seat", "found"}
  <2> DEFINE A == {s \in Applicants(d) : s >= tut[d].s}
             B == {s \in Applicants(d)' : s >= tut[d].s}
  <2>1. A \subseteq B /\ IsFiniteSet(B) /\ Cardinality(A) \in Nat /\ Cardinality(B) \in Nat
    <3>1. IsFiniteSet(A) /\ Cardinality(A) \in Nat
      BY SeatedFinite
    <3>2. IsFiniteSet(Q1!Students')
      BY StudentsFinite
    <3>3. IsFiniteSet(B)
      <4>1. B \subseteq Q1!Students'
        BY DEF Applicants
      <4> QED BY <3>2, <4>1, FS_Subset
    <3> QED BY <1>1, <3>1, <3>3, FS_CardinalityType
  <2>2. Cardinality(A) <= Cardinality(B)
    BY <2>1, FS_Subset
  <2>3. tut[d].D \in Nat /\ tut[d].done \in Nat
    BY TAsAre
  <2>4. tut[d].D <= tut[d].done + Cardinality(A)
    BY <1>1 DEF TutorialInv
  <2> HIDE DEF A, B
  <2>5. tut[d].D <= tut[d].done + Cardinality(B)
    BY <2>1, <2>2, <2>3, <2>4
  <2>6. B = {s \in Applicants(d)' : s >= tut'[d].s}
    BY DEF B
  <2>7. Q1!SeatsTaken(d)' = Q1!SeatsTaken(d)
    BY DEF Q1!SeatsTaken
  <2> QED BY <1>1, <2>5, <2>6, <2>7 DEF TutorialInv
<1>2. CASE at[d] \notin {"seat", "found"}
  <2>1. Q1!SeatsTaken(d)' = Q1!SeatsTaken(d)
    BY DEF Q1!SeatsTaken
  <2> QED BY <1>2, <2>1 DEF TutorialInv
<1> QED BY <1>1, <1>2

\* Who looks at a course goes on looking at it, and a withdrawn one stays so.
LEMMA LookKept ==
  ASSUME LookInv, UNCHANGED <<input, seen>>,
         \A d \in Courses : course[d] = "withdrawn" => course'[d] = "withdrawn",
         \A s \in Q1!Students : where'[s] \in {"look", "change"} => where[s] = where'[s]
  PROVE  LookInv'
<1>1. Q1!Students' = Q1!Students
  BY DEF Q1!Students, Q1!Prefs
<1> QED BY <1>1 DEF LookInv

\* A course goes on alone: no student's state or preference changes.
LEMMA QuietStep ==
  ASSUME CourseType, CourseType', SeatingInv, NEW c \in Courses,
         UNCHANGED <<input, student, seen>>,
         \A d \in Courses : d # c => at'[d] = at[d] /\ tut'[d] = tut[d],
         at[c] # "moving", at'[c] # "moving",
         \A d \in Courses : course[d] = "withdrawn" => course'[d] = "withdrawn",
         \A s \in Q1!Students : where'[s] \in {"look", "change"} => where[s] = where'[s],
         Applicants(c)' = Applicants(c) /\ Attendants(c)' = Attendants(c) => TutorialInv(c)'
  PROVE  SeatingInv'
<1>1. Q1!Students' = Q1!Students /\ Q1!Prefs' = Q1!Prefs
  BY DEF Q1!Students, Q1!Prefs
<1>2. ASSUME NEW d \in Courses
      PROVE  Applicants(d)' = Applicants(d) /\ Attendants(d)' = Attendants(d)
  <2>1. \A u \in Q1!Students : /\ u \in Applicants(d)' <=> u \in Applicants(d)
                               /\ u \in Attendants(d)' <=> u \in Attendants(d)
    <3>1. TAKE u \in Q1!Students
    <3>2. \A e \in Courses : at[e] = "moving" /\ tut[e].s = u
                              <=> at'[e] = "moving" /\ tut'[e].s = u
      OBVIOUS
    <3> QED BY <3>2, OthersSame
  <2> QED BY <1>1, <2>1 DEF Applicants, Attendants
<1>3. \A d \in Courses : TutorialInv(d)'
  <2>1. TAKE d \in Courses
  <2>2. CASE d = c
    BY <1>2, <2>2
  <2>3. CASE d # c
    <3>1. TutorialInv(d) /\ at'[d] = at[d] /\ tut'[d] = tut[d]
      BY <2>3 DEF SeatingInv
    <3> QED BY <1>1, <1>2, <3>1, TutorialKept
  <2> QED BY <2>2, <2>3
<1>4. \A d, e \in Courses :
        at'[d] = "moving" /\ at'[e] = "moving" /\ tut'[d].s = tut'[e].s => d = e
  BY DEF SeatingInv
<1>5. LookInv'
  BY LookKept DEF SeatingInv
<1> QED BY <1>3, <1>4, <1>5 DEF SeatingInv

\* A course and the student it looks at go on together.
LEMMA PairStep ==
  ASSUME CourseType, CourseType', SeatingInv, NEW c \in Courses,
         UNCHANGED <<input, course, where, seen>>,
         \A d \in Courses : d # c => at'[d] = at[d] /\ tut'[d] = tut[d],
         NEW s \in Q1!Students, tut[c].s = s, at'[c] = "moving" => tut'[c].s = s,
         \A u \in Q1!Students : u # s => student'[u] = student[u],
         \A d \in Courses : d # c /\ at[d] = "moving" => tut[d].s # s,
         \A d \in Courses : d # c => /\ s \in Applicants(d) => s \in Applicants(d)'
                                     /\ s \notin Attendants(d) /\ s \notin Attendants(d)',
         (/\ \A u \in Q1!Students : u # s => /\ u \in Applicants(c)' <=> u \in Applicants(c)
                                             /\ u \in Attendants(c)' <=> u \in Attendants(c))
           => TutorialInv(c)'
  PROVE  SeatingInv'
<1>1. Q1!Students' = Q1!Students /\ Q1!Prefs' = Q1!Prefs
  BY DEF Q1!Students, Q1!Prefs
<1>2. ASSUME NEW d \in Courses, NEW u \in Q1!Students, u # s
      PROVE  /\ u \in Applicants(d)' <=> u \in Applicants(d)
             /\ u \in Attendants(d)' <=> u \in Attendants(d)
  <2>1. \A e \in Courses : at[e] = "moving" /\ tut[e].s = u
                            <=> at'[e] = "moving" /\ tut'[e].s = u
    BY <1>2
  <2>2. student'[u] = student[u]
    BY <1>2
  <2> QED BY <2>1, <2>2, OthersSame
<1>3. \A d \in Courses : TutorialInv(d)'
  <2>1. TAKE d \in Courses
  <2>2. CASE d = c
    BY <1>2, <2>2
  <2>3. CASE d # c
    <3>1. TutorialInv(d) /\ at'[d] = at[d] /\ tut'[d] = tut[d]
      BY <2>3 DEF SeatingInv
    <3>2. Applicants(d) \subseteq Applicants(d)' /\ Attendants(d)' = Attendants(d)
      <4>1. /\ Applicants(d) \subseteq Q1!Students /\ Attendants(d) \subseteq Q1!Students
            /\ Attendants(d)' \subseteq Q1!Students
        BY <1>1 DEF Applicants, Attendants
      <4>2. /\ s \in Applicants(d) => s \in Applicants(d)'
            /\ s \notin Attendants(d) /\ s \notin Attendants(d)'
        BY <2>3
      <4>3. \A u \in Q1!Students : u # s =>
              /\ u \in Applicants(d)' <=> u \in Applicants(d)
              /\ u \in Attendants(d)' <=> u \in Attendants(d)
        BY <1>2
      <4>4. Applicants(d) \subseteq Applicants(d)'
        BY <4>1, <4>2, <4>3
      <4>5. \A u \in Q1!Students : u \in Attendants(d)' <=> u \in Attendants(d)
        BY <4>2, <4>3
      <4> QED BY <4>1, <4>4, <4>5
    <3>3. at[d] = "moving" => student'[tut[d].s] = student[tut[d].s]
      BY <2>3, <3>1 DEF TutorialInv
    <3> QED BY <1>1, <3>1, <3>2, <3>3, TutorialKept
  <2> QED BY <2>2, <2>3
<1>4. \A d, e \in Courses :
        at'[d] = "moving" /\ at'[e] = "moving" /\ tut'[d].s = tut'[e].s => d = e
  <2>1. TAKE d, e \in Courses
  <2> QED BY DEF SeatingInv
<1>5. LookInv'
  BY LookKept DEF SeatingInv
<1> QED BY <1>3, <1>4, <1>5 DEF SeatingInv

\* A student goes on alone, who attends no tutorial and is none's to move.
LEMMA AloneStep ==
  ASSUME CourseType, CourseType', SeatingInv, UNCHANGED <<input, course, at, tut>>,
         NEW s \in Q1!Students,
         \A u \in Q1!Students : u # s => student'[u] = student[u],
         student[s].state # "attending_tut", student'[s].state # "attending_tut",
         \A d \in Courses : at[d] \in {"seat", "found"} /\ s \in Applicants(d)
                              => s \in Applicants(d)',
         LookInv'
  PROVE  SeatingInv'
<1>1. Q1!Students' = Q1!Students /\ Q1!Prefs' = Q1!Prefs
  BY DEF Q1!Students, Q1!Prefs
<1>2. ASSUME NEW d \in Courses, NEW u \in Q1!Students, u # s
      PROVE  /\ u \in Applicants(d)' <=> u \in Applicants(d)
             /\ u \in Attendants(d)' <=> u \in Attendants(d)
  <2>1. \A e \in Courses : at[e] = "moving" /\ tut[e].s = u
                            <=> at'[e] = "moving" /\ tut'[e].s = u
    OBVIOUS
  <2>2. student'[u] = student[u]
    BY <1>2
  <2> QED BY <2>1, <2>2, OthersSame
<1>3. \A d \in Courses : TutorialInv(d)'
  <2>1. TAKE d \in Courses
  <2>2. TutorialInv(d) /\ at'[d] = at[d] /\ tut'[d] = tut[d]
    BY DEF SeatingInv
  <2>3. s \notin Attendants(d) /\ s \notin Attendants(d)'
    BY DEF Attendants, Q1!Attending
  <2>4. /\ Applicants(d) \subseteq Q1!Students /\ Attendants(d) \subseteq Q1!Students
        /\ Attendants(d)' \subseteq Q1!Students
    BY <1>1 DEF Applicants, Attendants
  <2>5. Attendants(d)' = Attendants(d)
    BY <1>2, <2>3, <2>4
  <2>6. at[d] \in {"seat", "found"} => Applicants(d) \subseteq Applicants(d)'
    BY <1>2, <2>4
  <2>7. at[d] = "moving" => student'[tut[d].s] = student[tut[d].s]
    BY <2>2 DEF TutorialInv
  <2> QED BY <1>1, <2>2, <2>5, <2>6, <2>7, TutorialKept
<1> QED BY <1>3 DEF SeatingInv

\* No tutorial and no student goes on, though one may wait or be woken.
LEMMA StillStep ==
  ASSUME SeatingInv, UNCHANGED <<input, course, at, tut, student>>, LookInv'
  PROVE  SeatingInv'
<1>1. Q1!Students' = Q1!Students /\ Q1!Prefs' = Q1!Prefs
  BY DEF Q1!Students, Q1!Prefs
<1>2. \A u : Q1!Pref(u)' = Q1!Pref(u) /\ (Q1!Held(u)' <=> Q1!Held(u))
  BY <1>1 DEF Q1!Pref, Q1!Held
<1>3. ASSUME NEW d \in Courses
      PROVE  Applicants(d)' = Applicants(d) /\ Attendants(d)' = Attendants(d)
  BY <1>1, <1>2 DEF Applicants, Attendants, Q1!Waiting, Q1!Attending
<1>4. \A d \in Courses : TutorialInv(d)'
  <2>1. TAKE d \in Courses
  <2>2. TutorialInv(d) /\ Applicants(d)' = Applicants(d) /\ Attendants(d)' = Attendants(d)
    BY <1>3 DEF SeatingInv
  <2>3. Q1!SeatsTaken(d)' = Q1!SeatsTaken(d)
    BY DEF Q1!SeatsTaken
  <2> QED BY <1>1, <2>2, <2>3 DEF TutorialInv, Q1!NoTutorial
<1> QED BY <1>1, <1>2, <1>4 DEF SeatingInv

LEMMA ThreadSeating ==
  ASSUME ServiceAll, ServiceAll', SeatingInv, UNCHANGED input,
         NEW s \in Q1!Students, Q1!StudentThread(s)
  PROVE  Q1!Skipped' \/ SeatingInv'
<1>0. CourseType /\ CourseType' /\ ServiceInv /\ LookInv
  BY DEF ServiceAll, SeatingInv
<1>1. UNCHANGED <<course, at, tut>>
  BY ThreadService
<1>2. StudentType /\ Q1!Students' = Q1!Students /\ Q1!Pref(s) \in Courses
      /\ Courses \cap {"loop", "apply", "look", "doze", "change", "exited"} = {}
  BY <1>0, RegistrationIs DEF CourseType, Q1!Prefs, Q1!Students
<1>3. CASE Q1!FillRegistration(s)
  <2>1. /\ student[s].state = "not_registered" /\ UNCHANGED <<where, seen>>
        /\ student' = [student EXCEPT ![s].state = "waiting"]
    BY <1>3 DEF Q1!FillRegistration
  <2>2. /\ student'[s].state = "waiting"
        /\ \A u \in Q1!Students : u # s => student'[u] = student[u]
    BY <1>2, <2>1 DEF StudentType
  <2>3. \A d \in Courses : s \notin Applicants(d)
    BY <2>1 DEF Applicants, Q1!Waiting
  <2>4. LookInv'
    BY <1>0, <1>1, <2>1, LookKept
  <2> QED BY <1>0, <1>1, <2>1, <2>2, <2>3, <2>4, AloneStep
<1>4. CASE Q1!Apply(s) \/ Q1!Wait(s) \/ Q1!StudentExit(s)
  <2>1. /\ UNCHANGED <<student, seen>>
        /\ \E l \in Courses \cup {"apply", "exited"} : where' = [where EXCEPT ![s] = l]
    BY <1>2, <1>4 DEF Q1!Apply, Q1!Wait, Q1!StudentExit
  <2>2. \A u \in Q1!Students : where'[u] \in {"look", "change"} => where[u] = where'[u]
    BY <1>2, <2>1 DEF StudentType
  <2>3. LookInv'
    BY <1>0, <1>1, <2>1, <2>2, LookKept
  <2> QED BY <1>1, <2>1, <2>3, StillStep
<1>5. CASE Q1!ReadPref(s) \/ Q1!Withdrawn(s) \/ Q1!Offered(s)
  <2>1. UNCHANGED student
    BY <1>5 DEF Q1!ReadPref, Q1!Withdrawn, Q1!Offered
  <2>2. \A u \in Q1!Students : u # s => where'[u] = where[u] /\ seen'[u] = seen[u]
    BY <1>2, <1>5 DEF Q1!ReadPref, Q1!Withdrawn, Q1!Offered, StudentType
  <2>3. /\ where'[s] \in {"look", "change"} => seen'[s] \in Courses
        /\ where'[s] = "change" => course[seen'[s]] = "withdrawn"
    <3>1. CASE Q1!ReadPref(s)
      BY <1>2, <3>1 DEF Q1!ReadPref, StudentType
    <3>2. CASE Q1!Withdrawn(s)
      BY <1>0, <1>2, <3>2 DEF Q1!Withdrawn, LookInv, StudentType
    <3>3. CASE Q1!Offered(s)
      BY <1>2, <3>3 DEF Q1!Offered, StudentType
    <3> QED BY <1>5, <3>1, <3>2, <3>3
  <2>4. LookInv'
    BY <1>0, <1>1, <1>2, <2>2, <2>3 DEF LookInv
  <2> QED BY <1>1, <2>1, <2>4, StillStep
<1>6. CASE Q1!ChangePref(s)
  <2>1. /\ where[s] = "change" /\ ~ Q1!Held(s) /\ Q1!NextPref(s)
        /\ where' = [where EXCEPT ![s] = "loop"] /\ seen' = [seen EXCEPT ![s] = Nobody]
        /\ late' = [late EXCEPT ![s] = IF seen[s] = Q1!Pref(s) THEN late[s] ELSE "skipped"]
    BY <1>6 DEF Q1!ChangePref
  <2>2. CASE seen[s] # Q1!Pref(s)
    BY <1>2, <2>1, <2>2 DEF Q1!Skipped, StudentType
  <2>3. CASE seen[s] = Q1!Pref(s)
    <3>1. course[Q1!Pref(s)] = "withdrawn"
      BY <1>0, <2>1, <2>3 DEF LookInv
    <3>2. at[Q1!Pref(s)] \in {"notify", "exited"}
      BY <1>0, <1>2, <3>1, ServiceEach DEF ServiceOK
    <3>3. Attendants(Q1!Pref(s)) = {}
      <4>1. Cardinality(Attendants(Q1!Pref(s))) = 0
        BY <1>2, <3>2 DEF SeatingInv, TutorialInv, Q1!SeatsTaken
      <4>2. IsFiniteSet(Attendants(Q1!Pref(s)))
        BY <1>0, <1>2, SeatedFinite
      <4> QED BY <4>1, <4>2, FS_EmptySet
    <3>4. student[s].state # "attending_tut"
      BY <2>1, <3>3 DEF Attendants, Q1!Attending
    <3>5. /\ student'[s].state # "attending_tut"
          /\ \A u \in Q1!Students : u # s => student'[u] = student[u]
      BY <1>2, <2>1, <3>4 DEF Q1!NextPref, StudentType
    <3>6. /\ where'[s] = "loop"
          /\ \A u \in Q1!Students : u # s => where'[u] = where[u] /\ seen'[u] = seen[u]
      BY <1>2, <2>1 DEF StudentType
    <3>7. LookInv'
      BY <1>0, <1>1, <1>2, <3>6 DEF LookInv
    <3>8. ASSUME NEW d \in Courses, at[d] \in {"seat", "found"}, s \in Applicants(d)
          PROVE  FALSE
      BY <3>2, <3>8 DEF Applicants, Q1!Waiting
    <3> QED BY <1>0, <1>1, <3>4, <3>5, <3>7, <3>8, AloneStep
  <2> QED BY <2>2, <2>3
<1> QED BY <1>3, <1>4, <1>5, <1>6 DEF Q1!StudentThread

\* Who is signalled looks at no course for it.
LEMMA SignalKeeps ==
  ASSUME CourseType, NEW c, NEW s, Q1!Signal(c, s) \/ UNCHANGED where
  PROVE  \A u \in Q1!Students : where'[u] \in {"look", "change"} => where[u] = where'[u]
BY StudentsAre DEF Q1!Signal

\* Until a course has a TA nobody attends its tutorial.
LEMMA EarlySeating ==
  ASSUME ServiceAll, ServiceAll', SeatingInv, UNCHANGED input, NEW c \in Courses,
         Q1!Withdraw(c) \/ Q1!NotifyAll(c) \/ Q1!Check(c) \/ Q1!Look(c) \/ Q1!Take(c)
  PROVE  SeatingInv'
<1> DEFINE Early == {"check", "look", "take", "conduct", "notify", "exited"}
<1>0. CourseType /\ CourseType' /\ ServiceInv
  BY DEF ServiceAll
<1>1. at \in [Courses -> Holding \cup {"check", "look", "take", "notify", "exited"}]
  BY <1>0, TAsAre
<1>2. UNCHANGED <<student, seen>> /\ at[c] \in {"check", "look", "take", "notify"}
  BY DEF Q1!Withdraw, Q1!NotifyAll, Q1!Check, Q1!Look, Q1!Take, Q1!studentVars
<1>3. \E l \in Early : at' = [at EXCEPT ![c] = l]
  <2>1. at' = at => at' = [at EXCEPT ![c] = at[c]]
    BY <1>1
  <2>2. Q1!Advance(c) => \E l \in Early : at' = [at EXCEPT ![c] = l]
    BY DEF Q1!Advance, Q1!Goto
  <2> QED BY <1>2, <2>1, <2>2
          DEF Q1!Withdraw, Q1!NotifyAll, Q1!Check, Q1!Look, Q1!Take, Q1!Goto
<1>4. PICK l \in Early : at' = [at EXCEPT ![c] = l]
  BY <1>3
<1>5. at'[c] = l /\ \A d \in Courses : d # c => at'[d] = at[d]
  BY <1>1, <1>4
<1>6. CASE at[c] = "notify"
  <2>1. Q1!NotifyAll(c) /\ UNCHANGED course /\ l \in {"notify", "exited"}
    BY <1>5, <1>6, <1>1 DEF Q1!Withdraw, Q1!NotifyAll, Q1!Check, Q1!Look, Q1!Take, Q1!taVars, Q1!Goto
  <2>2. \A d \in Courses : d # c => tut'[d] = tut[d]
    <3>1. UNCHANGED tut \/ tut' = [tut EXCEPT ![c].s = tut[c].s + 1]
      BY <2>1 DEF Q1!NotifyAll
    <3> QED BY <1>0, <3>1, TAsAre
  <2>3. \A s \in Q1!Students : where'[s] \in {"look", "change"} => where[s] = where'[s]
    BY <1>0, <2>1, SignalKeeps DEF Q1!NotifyAll
  <2>4. Attendants(c)' = Attendants(c) => TutorialInv(c)'
    <3>1. Cardinality(Attendants(c)) = 0
      BY <1>6 DEF SeatingInv, TutorialInv, Q1!SeatsTaken
    <3>2. Q1!SeatsTaken(c)' = 0
      BY <1>5, <2>1 DEF Q1!SeatsTaken
    <3> QED BY <1>5, <2>1, <3>1, <3>2 DEF TutorialInv
  <2>5. at[c] # "moving" /\ at'[c] # "moving"
    BY <1>5, <1>6
  <2> QED BY <1>0, <1>2, <1>5, <2>1, <2>2, <2>3, <2>4, <2>5, QuietStep
<1>7. CASE at[c] # "notify"
  <2>1. UNCHANGED <<tut, where>>
    BY <1>7 DEF Q1!Withdraw, Q1!NotifyAll, Q1!Check, Q1!Look, Q1!Take, Q1!studentVars
  <2>0. at[c] \in {"check", "look", "take"}
    BY <1>2, <1>7
  <2>2. course[c] # "withdrawn"
    <3>1. course[c] \in {"waiting_TA", "waiting_slots"}
      BY <2>0, NotWithdrawn
    <3> QED BY <3>1
  <2>3. \A d \in Courses : course[d] = "withdrawn" => course'[d] = "withdrawn"
    <3>1. \A d \in Courses : d # c => course'[d] = course[d]
      BY <1>0, TAsAre DEF Q1!Withdraw, Q1!NotifyAll, Q1!Check, Q1!Look, Q1!Take, Q1!taVars
    <3> QED BY <2>2, <3>1
  <2>4. Attendants(c)' = Attendants(c) => TutorialInv(c)'
    <3>0. TutorialInv(c)
      BY DEF SeatingInv
    <3>1. Cardinality(Attendants(c)) = 0 /\ tut[c] = Q1!NoTutorial
      BY <2>0, <3>0 DEF TutorialInv, Q1!SeatsTaken
    <3>2. Q1!SeatsTaken(c)' = 0
      BY <1>5 DEF Q1!SeatsTaken
    <3> QED BY <1>5, <2>1, <3>1, <3>2 DEF TutorialInv, Q1!NoTutorial
  <2>5. at[c] # "moving" /\ at'[c] # "moving"
    BY <1>2, <1>5
  <2> QED BY <1>0, <1>2, <1>5, <2>1, <2>3, <2>4, <2>5, QuietStep
<1> QED BY <1>6, <1>7

\* A tutorial begins with as many seats as students wait for it at most.
LEMMA CountSeating ==
  ASSUME ServiceAll, ServiceAll', SeatingInv, UNCHANGED input, NEW c \in Courses, Q1!Count(c)
  PROVE  SeatingInv'
<1>0. CourseType /\ CourseType'
  BY DEF ServiceAll
<1>1. /\ at[c] = "conduct" /\ at' = [at EXCEPT ![c] = "seat"]
      /\ UNCHANGED <<course, student, where, seen, late>>
  BY DEF Q1!Count, Q1!Lock, Q1!Goto, Q1!studentVars
<1>2. PICK W \in Nat : W = Cardinality(Applicants(c))
  BY <1>0, SeatedFinite, FS_CardinalityType
<1>3. W = Q1!Cardinality({s \in Q1!Students : Q1!Waiting(c, s)})
  <2>1. \A S : Q1!Cardinality(S) = Cardinality(S)
    BY DEF Q1!Cardinality, Cardinality
  <2> QED BY <1>2, <2>1 DEF Applicants
<1>4. PICK n \in Nat : n <= W /\ tut' = [tut EXCEPT ![c].D = n]
  <2>1. PICK D \in 1 .. Q1!MaxSlot[c] : tut' = [tut EXCEPT ![c].D = IF D > W THEN W ELSE D]
    BY <1>3 DEF Q1!Count
  <2>2. D \in Nat
    OBVIOUS
  <2>3. PICK n \in Nat : n = IF D > W THEN W ELSE D
    BY <2>2
  <2>4. n <= W
    BY <2>2, <2>3
  <2>5. tut' = [tut EXCEPT ![c].D = n]
    BY <2>1, <2>3
  <2> QED BY <2>4, <2>5
<1>5. tut[c] = [D |-> 0, done |-> 0, s |-> 1] /\ Cardinality(Attendants(c)) = 0
  BY <1>1 DEF SeatingInv, TutorialInv, Q1!SeatsTaken, Q1!NoTutorial
<1>6. tut'[c] = [D |-> n, done |-> 0, s |-> 1] /\ \A d \in Courses : d # c => tut'[d] = tut[d]
  BY <1>0, <1>4, <1>5, TAsAre
<1>7. at'[c] = "seat" /\ \A d \in Courses : d # c => at'[d] = at[d]
  BY <1>0, <1>1, TAsAre
<1>8. ASSUME Applicants(c)' = Applicants(c), Attendants(c)' = Attendants(c)
      PROVE  TutorialInv(c)'
  <2>1. {s \in Applicants(c)' : s >= tut'[c].s} = Applicants(c)
    <3>1. \A s \in Applicants(c) : s \in Nat /\ s >= 1
      BY <1>0, RegistrationIs DEF Applicants, Q1!Students
    <3> QED BY <1>6, <1>8, <3>1
  <2>2. tut'[c].D <= tut'[c].done + Cardinality({s \in Applicants(c)' : s >= tut'[c].s})
    BY <1>2, <1>4, <1>6, <2>1
  <2>3. Q1!SeatsTaken(c)' = 0 /\ tut'[c].done <= tut'[c].D
    BY <1>6, <1>7 DEF Q1!SeatsTaken
  <2> QED BY <1>5, <1>7, <1>8, <2>2, <2>3 DEF TutorialInv
<1> QED BY <1>0, <1>1, <1>6, <1>7, <1>8, QuietStep

\* A tutorial of which all the seats are taken, and one of which none is.
LEMMA RoundsSeating ==
  ASSUME ServiceAll, ServiceAll', SeatingInv, UNCHANGED input, NEW c \in Courses,
         Q1!Start(c) \/ Q1!Finish(c) \/ Q1!End(c) \/ Q1!Free(c) \/ Q1!Leave(c)
  PROVE  SeatingInv'
<1>0. CourseType /\ CourseType' /\ TutorialInv(c)
  BY DEF ServiceAll, SeatingInv
<1>1. UNCHANGED <<student, where, seen, late>>
  BY DEF Q1!Start, Q1!Finish, Q1!Lock, Q1!End, Q1!Free, Q1!Leave, Q1!studentVars
<1>2. PICK n \in Nat, D \in Nat, m \in Nat \ {0} : tut[c] = [D |-> D, done |-> n, s |-> m]
  BY <1>0, TAsAre
<1>3. \A l : at' = [at EXCEPT ![c] = l] => /\ at'[c] = l
                                           /\ \A d \in Courses : d # c => at'[d] = at[d]
  BY <1>0, TAsAre
<1>4. \A l : tut' = [tut EXCEPT ![c] = l] => /\ tut'[c] = l
                                             /\ \A d \in Courses : d # c => tut'[d] = tut[d]
  BY <1>0, TAsAre
<1>5. CASE Q1!Start(c)
  <2>1. /\ at[c] = "seat" /\ n = D /\ at' = [at EXCEPT ![c] = "tutorial"] /\ UNCHANGED course
        /\ tut' = [tut EXCEPT ![c] = [Q1!NoTutorial EXCEPT !.D = D]]
    BY <1>2, <1>5 DEF Q1!Start, Q1!Goto
  <2>2. [Q1!NoTutorial EXCEPT !.D = D] = [D |-> D, done |-> 0, s |-> 1]
    BY DEF Q1!NoTutorial
  <2>3. tut'[c] = [D |-> D, done |-> 0, s |-> 1] /\ at'[c] = "tutorial"
    BY <1>3, <1>4, <2>1, <2>2
  <2>4. Cardinality(Attendants(c)) = D /\ Q1!SeatsTaken(c)' = D
    BY <1>0, <1>2, <2>1, <2>3 DEF TutorialInv, Q1!SeatsTaken
  <2>5. Attendants(c)' = Attendants(c) => TutorialInv(c)'
    BY <2>3, <2>4 DEF TutorialInv
  <2>6. /\ \A d \in Courses : d # c => at'[d] = at[d] /\ tut'[d] = tut[d]
        /\ at[c] # "moving" /\ at'[c] # "moving"
    BY <1>3, <1>4, <2>1
  <2> QED BY <1>0, <1>1, <2>1, <2>5, <2>6, QuietStep
<1>6. CASE Q1!Finish(c)
  <2>1. at[c] = "tutorial" /\ at' = [at EXCEPT ![c] = "release"] /\ UNCHANGED <<course, tut>>
    BY <1>6 DEF Q1!Finish, Q1!Lock, Q1!Goto
  <2>2. n = 0 /\ m = 1 /\ at'[c] = "release"
    <3>1. tut[c].done = 0 /\ tut[c].s = 1
      BY <1>0, <2>1 DEF TutorialInv
    <3>2. at'[c] = "release"
      BY <1>3, <2>1
    <3> QED BY <1>2, <3>1, <3>2
  <2>3. Cardinality(Attendants(c)) = D /\ Q1!SeatsTaken(c)' = D - 0
    BY <1>0, <1>2, <2>1, <2>2 DEF TutorialInv, Q1!SeatsTaken
  <2>4. \A s \in Attendants(c) : 1 <= s
    BY <1>0, RegistrationIs DEF Attendants, Q1!Students
  <2>5. Attendants(c)' = Attendants(c) => TutorialInv(c)'
    BY <1>2, <2>1, <2>2, <2>3, <2>4 DEF TutorialInv
  <2>6. /\ \A d \in Courses : d # c => at'[d] = at[d] /\ tut'[d] = tut[d]
        /\ at[c] # "moving" /\ at'[c] # "moving"
    BY <1>3, <2>1
  <2> QED BY <1>0, <1>1, <2>1, <2>5, <2>6, QuietStep
<1>7. CASE Q1!End(c)
  <2>1. at[c] = "release" /\ n = D /\ at' = [at EXCEPT ![c] = "free"]
        /\ tut' = [tut EXCEPT ![c] = Q1!NoTutorial]
    BY <1>2, <1>7 DEF Q1!End, Q1!Goto
  <2>2. at'[c] = "free" /\ tut'[c] = Q1!NoTutorial
    BY <1>3, <1>4, <2>1
  <2>3. Cardinality(Attendants(c)) = 0 /\ Q1!SeatsTaken(c)' = 0
    BY <1>0, <1>2, <2>1, <2>2 DEF TutorialInv, Q1!SeatsTaken
  <2>4. Attendants(c)' = Attendants(c) => TutorialInv(c)'
    BY <2>2, <2>3 DEF TutorialInv, Q1!NoTutorial
  <2>5. /\ \A d \in Courses : d # c => at'[d] = at[d] /\ tut'[d] = tut[d]
        /\ at[c] # "moving" /\ at'[c] # "moving"
    BY <1>3, <1>4, <2>1
  <2>6. \A d \in Courses : course[d] = "withdrawn" => course'[d] = "withdrawn"
    <3>1. course' = [course EXCEPT ![c] = "waiting_TA"]
      BY <1>7, EndService
    <3>2. course[c] \in {"waiting_TA", "waiting_slots"}
      BY <2>1, NotWithdrawn
    <3> QED BY <1>0, <3>1, <3>2, TAsAre
  <2> QED BY <1>0, <1>1, <2>4, <2>5, <2>6, QuietStep
<1>8. CASE Q1!Free(c) \/ Q1!Leave(c)
  <2>1. at[c] \in {"free", "leave"} /\ UNCHANGED <<course, tut>>
    BY <1>8 DEF Q1!Free, Q1!Leave
  <2>2. at' = [at EXCEPT ![c] = "leave"] \/ at' = [at EXCEPT ![c] = "check"]
    BY <1>8, LeaveService DEF Q1!Free, Q1!Goto
  <2>3. at'[c] \in {"leave", "check"} /\ \A d \in Courses : d # c => at'[d] = at[d]
    BY <1>3, <2>2
  <2>4. /\ Cardinality(Attendants(c)) = 0 /\ Q1!SeatsTaken(c)' = 0
        /\ tut[c] = Q1!NoTutorial
    BY <1>0, <2>1, <2>3 DEF TutorialInv, Q1!SeatsTaken
  <2>5. Attendants(c)' = Attendants(c) => TutorialInv(c)'
    BY <2>1, <2>3, <2>4 DEF TutorialInv, Q1!NoTutorial
  <2>6. /\ \A d \in Courses : d # c => at'[d] = at[d] /\ tut'[d] = tut[d]
        /\ at[c] # "moving" /\ at'[c] # "moving"
    BY <2>1, <2>3
  <2> QED BY <1>0, <1>1, <2>1, <2>5, <2>6, QuietStep
<1> QED BY <1>5, <1>6, <1>7, <1>8

\* The loops that look for students find them before they run past the last.
LEMMA SearchSeating ==
  ASSUME ServiceAll, ServiceAll', SeatingInv, UNCHANGED input, NEW c \in Courses, Q1!Search(c)
  PROVE  SeatingInv'
<1>0. CourseType /\ CourseType' /\ TutorialInv(c)
  BY DEF ServiceAll, SeatingInv
<1>1. at[c] \in {"seat", "release"} /\ UNCHANGED <<course, student, seen>>
  BY DEF Q1!Search, Q1!taVars
<1>2. PICK n \in Nat, D \in Nat, s \in Nat \ {0} : tut[c] = [D |-> D, done |-> n, s |-> s]
  BY <1>0, TAsAre
<1>3. n < D
  BY <1>2 DEF Q1!Search
<1>4. Applicants(c) \subseteq Q1!Students /\ Attendants(c) \subseteq Q1!Students
  BY DEF Applicants, Attendants
<1>5. s \in Q1!Students
  <2>1. \E u \in Q1!Students : u >= s
    <3>1. CASE at[c] = "seat"
      <4> DEFINE A == {u \in Applicants(c) : u >= s}
      <4>1. D <= n + Cardinality(A) /\ Cardinality(A) \in Nat
        BY <1>0, <1>2, <3>1, SeatedFinite DEF TutorialInv
      <4>2. A # {}
        BY <1>3, <4>1, FS_EmptySet
      <4> QED BY <1>4, <4>2
    <3>2. CASE at[c] = "release"
      <4>1. Cardinality(Attendants(c)) = D - n
        BY <1>0, <1>2, <3>2 DEF TutorialInv, Q1!SeatsTaken
      <4>2. Attendants(c) # {}
        BY <1>3, <4>1, FS_EmptySet
      <4>3. \A u \in Attendants(c) : s <= u
        BY <1>0, <1>2, <3>2 DEF TutorialInv
      <4>4. \A u \in Q1!Students : u \in Nat
        BY DEF Q1!Students
      <4> QED BY <1>4, <4>2, <4>3, <4>4
    <3> QED BY <1>1, <3>1, <3>2
  <2>2. Len(Q1!Prefs) \in Nat
    BY <1>0, RegistrationIs
  <2> QED BY <2>1, <2>2 DEF Q1!Students
<1>6. \A l : at' = [at EXCEPT ![c] = l] => /\ at'[c] = l
                                           /\ \A d \in Courses : d # c => at'[d] = at[d]
  BY <1>0, TAsAre
<1>7. \A u \in Q1!Students : where'[u] \in {"look", "change"} => where[u] = where'[u]
  BY <1>0, SignalKeeps DEF Q1!Search
<1>8. CASE at[c] = "seat"
  <2>1. CASE Q1!Waiting(c, s)
    <3>1. at' = [at EXCEPT ![c] = "found"] /\ UNCHANGED tut
      BY <1>2, <1>5, <1>8, <2>1 DEF Q1!Search, Q1!Goto
    <3>2. at'[c] = "found" /\ s \in Applicants(c)
      BY <1>5, <1>6, <2>1, <3>1 DEF Applicants
    <3>3. Q1!SeatsTaken(c)' = Q1!SeatsTaken(c)
      BY <1>8, <3>1, <3>2 DEF Q1!SeatsTaken
    <3>4. ASSUME Applicants(c)' = Applicants(c), Attendants(c)' = Attendants(c)
          PROVE  TutorialInv(c)'
      BY <1>0, <1>2, <1>3, <1>8, <3>1, <3>2, <3>3, <3>4 DEF TutorialInv
    <3>5. /\ \A d \in Courses : d # c => at'[d] = at[d] /\ tut'[d] = tut[d]
          /\ at[c] # "moving" /\ at'[c] # "moving"
      BY <1>6, <1>8, <3>1
    <3> QED BY <1>0, <1>1, <1>7, <3>4, <3>5, QuietStep
  <2>2. CASE ~ Q1!Waiting(c, s)
    <3>1. UNCHANGED at /\ tut' = [tut EXCEPT ![c].s = s + 1]
      BY <1>2, <1>5, <1>8, <2>2 DEF Q1!Search
    <3>2. tut'[c] = [D |-> D, done |-> n, s |-> s + 1]
          /\ \A d \in Courses : d # c => tut'[d] = tut[d]
      BY <1>0, <1>2, <3>1, TAsAre
    <3>3. Q1!SeatsTaken(c)' = n /\ Q1!SeatsTaken(c) = n
      BY <1>2, <1>8, <3>1, <3>2 DEF Q1!SeatsTaken
    <3>4. ASSUME Applicants(c)' = Applicants(c), Attendants(c)' = Attendants(c)
          PROVE  TutorialInv(c)'
      <4>1. {u \in Applicants(c)' : u >= tut'[c].s} = {u \in Applicants(c) : u >= s}
        <5>1. \A u \in Applicants(c) : u \in Nat /\ u # s
          BY <2>2 DEF Applicants, Q1!Students
        <5>2. \A u \in Applicants(c) : u >= s + 1 <=> u >= s
          BY <5>1
        <5> QED BY <3>2, <3>4, <5>2
      <4>2. D <= n + Cardinality({u \in Applicants(c) : u >= s})
        BY <1>0, <1>2, <1>8 DEF TutorialInv
      <4>3. tut'[c].D <= tut'[c].done + Cardinality({u \in Applicants(c)' : u >= tut'[c].s})
        BY <3>2, <4>1, <4>2
      <4>4. tut'[c].done <= tut'[c].D
        BY <1>3, <3>2
      <4>5. Cardinality(Attendants(c)) = n
        BY <1>0, <3>3 DEF TutorialInv
      <4> QED BY <1>8, <3>1, <3>3, <3>4, <4>3, <4>4, <4>5 DEF TutorialInv
    <3>5. at[c] # "moving" /\ at'[c] # "moving"
      BY <1>8, <3>1
    <3> QED BY <1>0, <1>1, <1>7, <3>1, <3>2, <3>4, <3>5, QuietStep
  <2> QED BY <2>1, <2>2
<1>9. CASE at[c] = "release"
  <2>1. CASE Q1!Attending(c, s)
    <3>1. at' = [at EXCEPT ![c] = "decide"] /\ UNCHANGED tut
      BY <1>2, <1>5, <1>9, <2>1 DEF Q1!Search, Q1!Goto
    <3>2. at'[c] = "decide" /\ Q1!Students' = Q1!Students
      BY <1>6, <3>1 DEF Q1!Students, Q1!Prefs
    <3>3. Q1!SeatsTaken(c)' = Q1!SeatsTaken(c)
      BY <1>9, <3>1, <3>2 DEF Q1!SeatsTaken
    <3>4. ASSUME Applicants(c)' = Applicants(c), Attendants(c)' = Attendants(c)
          PROVE  TutorialInv(c)'
      BY <1>0, <1>2, <1>3, <1>5, <1>9, <3>1, <3>2, <3>3, <3>4 DEF TutorialInv
    <3>5. /\ \A d \in Courses : d # c => at'[d] = at[d] /\ tut'[d] = tut[d]
          /\ at[c] # "moving" /\ at'[c] # "moving"
      BY <1>6, <1>9, <3>1
    <3> QED BY <1>0, <1>1, <1>7, <3>4, <3>5, QuietStep
  <2>2. CASE ~ Q1!Attending(c, s)
    <3>1. UNCHANGED at /\ tut' = [tut EXCEPT ![c].s = s + 1]
      BY <1>2, <1>5, <1>9, <2>2 DEF Q1!Search
    <3>2. tut'[c] = [D |-> D, done |-> n, s |-> s + 1]
          /\ \A d \in Courses : d # c => tut'[d] = tut[d]
      BY <1>0, <1>2, <3>1, TAsAre
    <3>3. Q1!SeatsTaken(c)' = D - n /\ Q1!SeatsTaken(c) = D - n
      BY <1>2, <1>9, <3>1, <3>2 DEF Q1!SeatsTaken
    <3>4. ASSUME Attendants(c)' = Attendants(c) PROVE TutorialInv(c)'
      <4>1. \A u \in Attendants(c) : u \in Nat /\ u # s /\ s <= u
        BY <1>0, <1>2, <1>9, <2>2 DEF Attendants, Q1!Students, TutorialInv
      <4>2. \A u \in Attendants(c) : s + 1 <= u
        BY <4>1
      <4>3. tut'[c].done <= tut'[c].D /\ \A u \in Attendants(c)' : tut'[c].s <= u
        BY <1>3, <3>2, <3>4, <4>2
      <4>4. Cardinality(Attendants(c)) = D - n
        BY <1>0, <3>3 DEF TutorialInv
      <4> QED BY <1>9, <3>1, <3>3, <3>4, <4>3, <4>4 DEF TutorialInv
    <3>5. at[c] # "moving" /\ at'[c] # "moving"
      BY <1>9, <3>1
    <3> QED BY <1>0, <1>1, <1>7, <3>1, <3>2, <3>4, <3>5, QuietStep
  <2> QED BY <2>1, <2>2
<1> QED BY <1>1, <1>8, <1>9

\* A set of students to which one is added, or from which one is taken.
LEMMA OneMore ==
  ASSUME NEW S, NEW T, IsFiniteSet(S), NEW x, x \notin S, x \in T,
         \A y : y # x => (y \in S <=> y \in T)
  PROVE  /\ Cardinality(S) \in Nat /\ Cardinality(T) \in Nat
         /\ Cardinality(T) = Cardinality(S) + 1
<1>1. /\ Cardinality(S) \in Nat /\ Cardinality(T) \in Nat
      /\ Cardinality(T) + (IF x \in S THEN 1 ELSE 0)
           = Cardinality(S) + (IF x \in T THEN 1 ELSE 0)
  BY SetCount
<1>2. Cardinality(T) + 0 = Cardinality(S) + 1
  BY <1>1
<1> QED BY <1>1, <1>2

\* A student that waits for a tutorial gets a seat of it.
LEMMA SeatSeating ==
  ASSUME ServiceAll, ServiceAll', SeatingInv, UNCHANGED input, NEW c \in Courses, Q1!Seat(c)
  PROVE  SeatingInv'
<1>0. CourseType /\ CourseType' /\ TutorialInv(c) /\ ServiceInv
  BY DEF ServiceAll, SeatingInv
<1>1. PICK n \in Nat, D \in Nat, s \in Nat \ {0} : tut[c] = [D |-> D, done |-> n, s |-> s]
  BY <1>0, TAsAre
<1>2. /\ at[c] = "found" /\ ~ Q1!Held(s) /\ UNCHANGED <<course, where, seen>>
      /\ student' = [student EXCEPT ![s].state = "attending_tut"]
      /\ at' = [at EXCEPT ![c] = "seat"]
      /\ tut' = [tut EXCEPT ![c].done = n + 1, ![c].s = s + 1]
  BY <1>1 DEF Q1!Seat, Q1!Goto, Q1!Done, Q1!taVars
<1>3. s \in Q1!Students /\ Q1!Waiting(c, s) /\ n < D
  BY <1>0, <1>1, <1>2 DEF TutorialInv, Applicants
<1>4. Q1!Students' = Q1!Students /\ Q1!Prefs' = Q1!Prefs
  BY DEF Q1!Students, Q1!Prefs
<1>5. /\ student'[s].state = "attending_tut" /\ student'[s].current_pref = student[s].current_pref
      /\ \A u \in Q1!Students : u # s => student'[u] = student[u]
  BY <1>0, <1>2, <1>3, StudentsAre
<1>6. at'[c] = "seat" /\ \A d \in Courses : d # c => at'[d] = at[d]
  BY <1>0, <1>2, TAsAre
<1>7. /\ tut'[c] = [D |-> D, done |-> n + 1, s |-> s + 1]
      /\ \A d \in Courses : d # c => tut'[d] = tut[d]
  <2>1. tut' = [tut EXCEPT ![c] = [D |-> D, done |-> n + 1, s |-> s + 1]]
    BY <1>0, <1>1, <1>2, TAsAre
  <2> QED BY <1>0, <2>1, TAsAre
<1>8. Q1!Pref(s) = c /\ Q1!Pref(s)' = c /\ student[s].state = "waiting"
  BY <1>3, <1>4, <1>5 DEF Q1!Waiting, Q1!Pref
<1>9. ~ Q1!Held(s)'
  BY <1>2, <1>6, <1>7 DEF Q1!Held
<1>11. \A d \in Courses : d # c /\ at[d] = "moving" => tut[d].s # s
  BY <1>2 DEF Q1!Held
<1>12. \A d \in Courses : d # c => /\ s \notin Applicants(d)
                                   /\ s \notin Attendants(d) /\ s \notin Attendants(d)'
  BY <1>8 DEF Applicants, Attendants, Q1!Waiting, Q1!Attending
<1>13. /\ s \in Applicants(c) /\ s \notin Applicants(c)'
       /\ s \notin Attendants(c) /\ s \in Attendants(c)'
  BY <1>3, <1>4, <1>5, <1>8, <1>9 DEF Applicants, Attendants, Q1!Waiting, Q1!Attending
<1>14. ASSUME \A u \in Q1!Students : u # s => /\ u \in Applicants(c)' <=> u \in Applicants(c)
                                              /\ u \in Attendants(c)' <=> u \in Attendants(c)
       PROVE  TutorialInv(c)'
  <2>0. /\ Applicants(c) \subseteq Q1!Students /\ Applicants(c)' \subseteq Q1!Students
        /\ Attendants(c) \subseteq Q1!Students /\ Attendants(c)' \subseteq Q1!Students
    BY <1>4 DEF Applicants, Attendants
  <2>1. Cardinality(Attendants(c)') = n + 1
    <3>1. IsFiniteSet(Attendants(c))
      BY <1>0, SeatedFinite
    <3>2. \A y : y # s => (y \in Attendants(c) <=> y \in Attendants(c)')
      BY <1>14, <2>0
    <3>3. Cardinality(Attendants(c)') = Cardinality(Attendants(c)) + 1
      BY <1>13, <3>1, <3>2, OneMore
    <3>4. Cardinality(Attendants(c)) = n
      BY <1>0, <1>1, <1>2 DEF TutorialInv, Q1!SeatsTaken
    <3> QED BY <3>3, <3>4
  <2>2. D <= n + 1 + Cardinality({u \in Applicants(c)' : u >= s + 1})
    <3> DEFINE A == {u \in Applicants(c)' : u >= s + 1}
               B == {u \in Applicants(c) : u >= s}
    <3>1. B \subseteq Q1!Students /\ A \subseteq Q1!Students /\ \A u \in Q1!Students : u \in Nat
      BY <2>0 DEF Q1!Students
    <3>2. IsFiniteSet(A)
      BY <1>0, <3>1, StudentsFinite, FS_Subset
    <3>3. \A y \in Q1!Students : y # s => (y \in A <=> y \in B)
      <4>1. TAKE y \in Q1!Students
      <4>2. y \in Nat
        BY <3>1
      <4>3. y # s => (y >= s + 1 <=> y >= s)
        BY <4>2
      <4> QED BY <1>14, <4>3
    <3>4. s \notin A /\ s \in B
      BY <1>13
    <3>5. D <= n + Cardinality(B)
      BY <1>0, <1>1, <1>2 DEF TutorialInv
    <3> HIDE DEF A, B
    <3>6. \A y : y # s => (y \in A <=> y \in B)
      BY <3>1, <3>3
    <3>7. Cardinality(A) \in Nat /\ Cardinality(B) \in Nat /\ Cardinality(B) = Cardinality(A) + 1
      BY <3>2, <3>4, <3>6, OneMore
    <3>8. D <= n + 1 + Cardinality(A)
      BY <3>5, <3>7
    <3> QED BY <3>8 DEF A
  <2>3. Q1!SeatsTaken(c)' = n + 1
    BY <1>6, <1>7 DEF Q1!SeatsTaken
  <2>4. n + 1 <= D
    BY <1>3
  <2> QED BY <1>6, <1>7, <2>1, <2>2, <2>3, <2>4 DEF TutorialInv
<1>15. /\ UNCHANGED <<course, where, seen>> /\ tut[c].s = s /\ (at'[c] = "moving" => tut'[c].s = s)
       /\ \A d \in Courses : d # c => at'[d] = at[d] /\ tut'[d] = tut[d]
  <2>1. UNCHANGED <<course, where, seen>>
    BY <1>2
  <2>2. tut[c].s = s
    BY <1>1
  <2>3. /\ at'[c] = "moving" => tut'[c].s = s
        /\ \A d \in Courses : d # c => at'[d] = at[d] /\ tut'[d] = tut[d]
    BY <1>6, <1>7
  <2> QED BY <2>1, <2>2, <2>3
<1>16. \A d \in Courses : d # c => /\ s \in Applicants(d) => s \in Applicants(d)'
                                   /\ s \notin Attendants(d) /\ s \notin Attendants(d)'
  BY <1>12
<1>17. \A u \in Q1!Students : u # s => student'[u] = student[u]
  BY <1>5
<1> QED BY <1>0, <1>3, <1>11, <1>14, <1>15, <1>16, <1>17, PairStep

\* A student that has attended leaves the tutorial it was found in.
LEMMA DecideSeating ==
  ASSUME ServiceAll, ServiceAll', SeatingInv, UNCHANGED input, NEW c \in Courses, Q1!Decide(c)
  PROVE  Q1!Astray' \/ SeatingInv'
<1>0. CourseType /\ CourseType' /\ TutorialInv(c)
  BY DEF ServiceAll, SeatingInv
<1>1. PICK n \in Nat, D \in Nat, s \in Nat \ {0} : tut[c] = [D |-> D, done |-> n, s |-> s]
  BY <1>0, TAsAre
<1>2. tut[c].s = s /\ tut[c].done = n /\ tut[c].D = D
  BY <1>1
<1>3. at[c] = "decide" /\ ~ Q1!Held(s) /\ UNCHANGED <<course, where, seen>>
  BY <1>2 DEF Q1!Decide, Q1!taVars
<1>4. /\ s \in Q1!Students /\ n < D /\ Cardinality(Attendants(c)) = D - n
      /\ \A u \in Attendants(c) : s <= u
  BY <1>0, <1>2, <1>3 DEF TutorialInv, Q1!SeatsTaken
<1>5. Q1!Students' = Q1!Students /\ Q1!Prefs' = Q1!Prefs
  BY DEF Q1!Students, Q1!Prefs
<1>6. \A l : at' = [at EXCEPT ![c] = l] => /\ at'[c] = l
                                           /\ \A d \in Courses : d # c => at'[d] = at[d]
  BY <1>0, TAsAre
<1>7. CASE at' = [at EXCEPT ![c] = "astray"]
  BY <1>6, <1>7 DEF Q1!Astray
<1>8. CASE at' # [at EXCEPT ![c] = "astray"]
  <2>1. /\ Q1!Attending(c, s)
        /\ \/ /\ at' = [at EXCEPT ![c] = "release"] /\ Q1!Done(c)
              /\ \/ student' = [student EXCEPT ![s].state = "selected_course"]
                 \/ student' = [student EXCEPT ![s].state = "exited_simulation"]
           \/ /\ at' = [at EXCEPT ![c] = "moving"] /\ UNCHANGED tut
              /\ student' = [student EXCEPT ![s].current_pref = @ + 1]
    BY <1>2, <1>8 DEF Q1!Decide, Q1!Goto, Q1!NextPref
  <2>2. Q1!Pref(s) = c /\ student[s].state = "attending_tut"
    BY <2>1 DEF Q1!Attending
  <2>3. s \in Attendants(c)
    BY <1>3, <1>4, <2>1 DEF Attendants
  <2>5. \A d \in Courses : d # c /\ at[d] = "moving" => tut[d].s # s
    BY <1>3 DEF Q1!Held
  <2>6. \A u \in Q1!Students : u # s => student'[u] = student[u]
    BY <1>0, <1>4, <2>1, StudentsAre
  <2>7. \A d \in Courses : s \notin Applicants(d) /\ (d # c => s \notin Attendants(d))
    BY <2>2 DEF Applicants, Attendants, Q1!Waiting, Q1!Attending
  <2>8. /\ at'[c] \in {"release", "moving"} /\ \A d \in Courses : d # c => at'[d] = at[d]
        /\ at'[c] = "release" => tut'[c] = [D |-> D, done |-> n + 1, s |-> s + 1]
        /\ at'[c] = "moving" => tut'[c] = tut[c]
        /\ \A d \in Courses : d # c => tut'[d] = tut[d]
    <3>1. CASE at' = [at EXCEPT ![c] = "release"] /\ Q1!Done(c)
      <4>1. tut' = [tut EXCEPT ![c].done = n + 1, ![c].s = s + 1]
        BY <1>2, <3>1 DEF Q1!Done
      <4>2. tut' = [tut EXCEPT ![c] = [D |-> D, done |-> n + 1, s |-> s + 1]]
        BY <1>0, <1>1, <4>1, TAsAre
      <4>3. /\ tut'[c] = [D |-> D, done |-> n + 1, s |-> s + 1]
            /\ \A d \in Courses : d # c => tut'[d] = tut[d]
        BY <1>0, <4>2, TAsAre
      <4>4. at'[c] = "release" /\ \A d \in Courses : d # c => at'[d] = at[d]
        BY <1>6, <3>1
      <4> QED BY <4>3, <4>4
    <3>2. CASE at' = [at EXCEPT ![c] = "moving"] /\ UNCHANGED tut
      <4>1. at'[c] = "moving" /\ \A d \in Courses : d # c => at'[d] = at[d]
        BY <1>6, <3>2
      <4> QED BY <3>2, <4>1
    <3> QED BY <2>1, <3>1, <3>2
  <2>9. \A d \in Courses : s \notin Attendants(d)'
    <3>1. CASE at' = [at EXCEPT ![c] = "moving"]
      <4>1. at'[c] = "moving" /\ tut'[c].s = s
        BY <1>2, <1>6, <2>8, <3>1
      <4>2. Q1!Held(s)'
        BY <4>1 DEF Q1!Held
      <4> QED BY <4>2 DEF Attendants
    <3>2. CASE at' = [at EXCEPT ![c] = "release"]
      <4>1. at'[c] = "release"
        BY <1>6, <3>2
      <4>2. at' # [at EXCEPT ![c] = "moving"]
        BY <1>6, <4>1
      <4>3. student'[s].state \in {"selected_course", "exited_simulation"}
        BY <1>0, <1>4, <2>1, <4>2, StudentsAre
      <4> QED BY <4>3 DEF Attendants, Q1!Attending
    <3> QED BY <2>1, <3>1, <3>2
  <2>10. at'[c] = "moving" => student'[s].state = "attending_tut"
    <3>1. ASSUME at'[c] = "moving" PROVE student'[s].state = "attending_tut"
      <4>1. at' # [at EXCEPT ![c] = "release"]
        BY <1>6, <3>1
      <4>2. student' = [student EXCEPT ![s].current_pref = @ + 1]
        BY <2>1, <4>1
      <4> QED BY <1>0, <1>4, <2>2, <4>2, StudentsAre
    <3> QED BY <3>1
  <2>11. ASSUME \A u \in Q1!Students : u # s => /\ u \in Applicants(c)' <=> u \in Applicants(c)
                                                /\ u \in Attendants(c)' <=> u \in Attendants(c)
         PROVE  TutorialInv(c)'
    <3>0. /\ Attendants(c) \subseteq Q1!Students /\ Attendants(c)' \subseteq Q1!Students
          /\ \A u \in Q1!Students : u \in Nat
      BY <1>5 DEF Attendants, Q1!Students
    <3>1. \A y : y # s => (y \in Attendants(c)' <=> y \in Attendants(c))
      BY <2>11, <3>0
    <3>2. IsFiniteSet(Attendants(c)')
      BY <1>0, <3>0, StudentsFinite, FS_Subset
    <3>3. s \notin Attendants(c)'
      BY <2>9
    <3>4. /\ Cardinality(Attendants(c)') \in Nat
          /\ Cardinality(Attendants(c)) = Cardinality(Attendants(c)') + 1
      BY <2>3, <3>1, <3>2, <3>3, OneMore
    <3>5. Cardinality(Attendants(c)') = D - n - 1
      BY <1>4, <3>4
    <3>6. \A u \in Attendants(c)' : u \in Nat /\ s <= u /\ s + 1 <= u
      <4>1. \A u \in Attendants(c)' : u \in Nat /\ u # s /\ s <= u
        BY <1>4, <3>0, <3>1, <3>3
      <4> QED BY <4>1
    <3>7. CASE at'[c] = "release"
      <4>1. tut'[c].D = D /\ tut'[c].done = n + 1 /\ tut'[c].s = s + 1
        BY <2>8, <3>7
      <4>2. Q1!SeatsTaken(c)' = D - (n + 1)
        BY <3>7, <4>1 DEF Q1!SeatsTaken
      <4>3. n + 1 <= D /\ Cardinality(Attendants(c)') = D - (n + 1)
        BY <1>4, <3>5
      <4> QED BY <3>6, <3>7, <4>1, <4>2, <4>3 DEF TutorialInv
    <3>8. CASE at'[c] = "moving"
      <4>1. tut'[c].D = D /\ tut'[c].done = n /\ tut'[c].s = s
        BY <1>2, <2>8, <3>8
      <4>2. Q1!SeatsTaken(c)' = D - n - 1
        BY <3>8, <4>1 DEF Q1!SeatsTaken
      <4>3. tut'[c].s \in Q1!Students' /\ student'[tut'[c].s].state = "attending_tut"
        BY <1>4, <1>5, <2>10, <3>8, <4>1
      <4>4. tut'[c].done < tut'[c].D /\ tut'[c].done <= tut'[c].D
        BY <1>4, <4>1
      <4> QED BY <3>5, <3>6, <3>8, <4>1, <4>2, <4>3, <4>4 DEF TutorialInv
    <3> QED BY <2>8, <3>7, <3>8
  <2>12. /\ at'[c] = "moving" => tut'[c].s = s
         /\ \A d \in Courses : d # c => at'[d] = at[d] /\ tut'[d] = tut[d]
    BY <1>2, <2>8
  <2>13. \A d \in Courses : d # c => /\ s \in Applicants(d) => s \in Applicants(d)'
                                     /\ s \notin Attendants(d) /\ s \notin Attendants(d)'
    BY <2>7, <2>9
  <2>14. UNCHANGED <<input, course, where, seen>>
    BY <1>3
  <2>15. tut[c].s = s /\ s \in Q1!Students
    BY <1>2, <1>4
  <2> QED BY <1>0, <2>5, <2>6, <2>11, <2>12, <2>13, <2>14, <2>15, PairStep
<1> QED BY <1>7, <1>8

\* A student that has left a tutorial for its next preference waits for that.
LEMMA MoveSeating ==
  ASSUME ServiceAll, ServiceAll', SeatingInv, UNCHANGED input, NEW c \in Courses, Q1!Move(c)
  PROVE  SeatingInv'
<1>0. CourseType /\ CourseType' /\ TutorialInv(c)
  BY DEF ServiceAll, SeatingInv
<1>1. PICK n \in Nat, D \in Nat, s \in Nat \ {0} : tut[c] = [D |-> D, done |-> n, s |-> s]
  BY <1>0, TAsAre
<1>2. tut[c].s = s /\ tut[c].done = n /\ tut[c].D = D
  BY <1>1
<1>3. /\ at[c] = "moving" /\ at' = [at EXCEPT ![c] = "release"] /\ UNCHANGED <<course, where, seen>>
      /\ student' = [student EXCEPT ![s].state = "waiting"]
      /\ tut' = [tut EXCEPT ![c].done = n + 1, ![c].s = s + 1]
  BY <1>2 DEF Q1!Move, Q1!Done, Q1!Goto, Q1!taVars
<1>4. /\ s \in Q1!Students /\ n < D /\ Cardinality(Attendants(c)) = D - n - 1
      /\ student[s].state = "attending_tut" /\ \A u \in Attendants(c) : s <= u
  BY <1>0, <1>2, <1>3 DEF TutorialInv, Q1!SeatsTaken
<1>5. Q1!Students' = Q1!Students
  BY DEF Q1!Students, Q1!Prefs
<1>6. at'[c] = "release" /\ \A d \in Courses : d # c => at'[d] = at[d]
  BY <1>0, <1>3, TAsAre
<1>7. /\ tut'[c] = [D |-> D, done |-> n + 1, s |-> s + 1]
      /\ \A d \in Courses : d # c => tut'[d] = tut[d]
  <2>1. tut' = [tut EXCEPT ![c] = [D |-> D, done |-> n + 1, s |-> s + 1]]
    BY <1>0, <1>1, <1>3, TAsAre
  <2> QED BY <1>0, <2>1, TAsAre
<1>8. student'[s].state = "waiting" /\ \A u \in Q1!Students : u # s => student'[u] = student[u]
  BY <1>0, <1>3, <1>4, StudentsAre
<1>9. Q1!Held(s)
  BY <1>2, <1>3 DEF Q1!Held
<1>10. \A d \in Courses : /\ s \notin Applicants(d)
                          /\ s \notin Attendants(d) /\ s \notin Attendants(d)'
  BY <1>4, <1>8, <1>9 DEF Applicants, Attendants, Q1!Waiting, Q1!Attending
<1>12. \A d \in Courses : d # c /\ at[d] = "moving" => tut[d].s # s
  BY <1>2, <1>3 DEF SeatingInv
<1>13. ASSUME \A u \in Q1!Students : u # s => /\ u \in Applicants(c)' <=> u \in Applicants(c)
                                              /\ u \in Attendants(c)' <=> u \in Attendants(c)
       PROVE  TutorialInv(c)'
  <2>1. Attendants(c) \subseteq Q1!Students /\ Attendants(c)' \subseteq Q1!Students
    BY <1>5 DEF Attendants
  <2>2. Attendants(c)' = Attendants(c) /\ \A u \in Attendants(c) : u \in Nat /\ u # s /\ s <= u
    <3>1. s \notin Attendants(c) /\ s \notin Attendants(c)'
      BY <1>10
    <3>2. Attendants(c)' = Attendants(c)
      BY <1>13, <2>1, <3>1
    <3>3. \A u \in Q1!Students : u \in Nat
      BY DEF Q1!Students
    <3> QED BY <1>4, <2>1, <3>1, <3>2, <3>3
  <2>3. \A u \in Attendants(c)' : s + 1 <= u
    BY <2>2
  <2>4. tut'[c].D = D /\ tut'[c].done = n + 1 /\ tut'[c].s = s + 1
    BY <1>7
  <2>5. Q1!SeatsTaken(c)' = D - (n + 1)
    BY <1>6, <2>4 DEF Q1!SeatsTaken
  <2>6. n + 1 <= D /\ Cardinality(Attendants(c)') = D - (n + 1)
    BY <1>4, <2>2
  <2> QED BY <1>6, <2>3, <2>4, <2>5, <2>6 DEF TutorialInv
<1>14. /\ at'[c] = "moving" => tut'[c].s = s
       /\ \A d \in Courses : d # c => at'[d] = at[d] /\ tut'[d] = tut[d]
  BY <1>6, <1>7
<1>15. \A d \in Courses : d # c => /\ s \in Applicants(d) => s \in Applicants(d)'
                                   /\ s \notin Attendants(d) /\ s \notin Attendants(d)'
  BY <1>10
<1>16. UNCHANGED <<input, course, where, seen>> /\ tut[c].s = s /\ s \in Q1!Students
  BY <1>2, <1>3, <1>4
<1>17. \A u \in Q1!Students : u # s => student'[u] = student[u]
  BY <1>8
<1> QED BY <1>0, <1>12, <1>13, <1>14, <1>15, <1>16, <1>17, PairStep

----------------------------------------------------------------------------
(* The course registration as a whole *)

\* What has gone astray or has been skipped stays so.
LEMMA StaysLost ==
  ASSUME ServiceAll, Q1!Next, Lost
  PROVE  Lost'
<1>1. UNCHANGED input /\ CourseType /\ Q1!Students' = Q1!Students
  BY DEF ServiceAll, Q1!Next, Q1!Students, Q1!Prefs
<1>2. /\ at \in [Courses -> Holding \cup {"check", "look", "take", "notify", "exited"}]
      /\ late \in [Q1!Students -> {"no", "missed", "skipped"}]
  BY <1>1, TAsAre, StudentsAre
<1>3. ASSUME NEW d \in Courses, at[d] = "astray" PROVE at'[d] = "astray"
  <2>1. CASE Q1!LabThreads \/ Q1!StudentThreads
    <3>1. UNCHANGED at
      BY <1>1, <2>1, LabService, ThreadService DEF Q1!LabThreads, Q1!StudentThreads
    <3> QED BY <1>3, <3>1
  <2>2. CASE \E c \in Courses : Q1!CourseThread(c)
    <3>1. PICK c \in Courses : Q1!CourseThread(c)
      BY <2>2
    <3>2. at[c] # "astray"
      BY <3>1 DEF Q1!CourseThread, Q1!InitCourse, Q1!AssignTA, Q1!ConductTutorial,
           Q1!Withdraw, Q1!NotifyAll, Q1!Check, Q1!Look, Q1!Take, Q1!Count, Q1!Finish,
           Q1!Search, Q1!Seat, Q1!Start, Q1!Decide, Q1!Move, Q1!End, Q1!Free, Q1!Leave
    <3>3. UNCHANGED at \/ \E l : at' = [at EXCEPT ![c] = l]
      BY <3>1 DEF Q1!CourseThread, Q1!InitCourse, Q1!AssignTA, Q1!ConductTutorial,
           Q1!Withdraw, Q1!NotifyAll, Q1!Check, Q1!Look, Q1!Take, Q1!Count, Q1!Finish,
           Q1!Search, Q1!Seat, Q1!Start, Q1!Decide, Q1!Move, Q1!End, Q1!Free, Q1!Leave,
           Q1!Advance, Q1!Goto
    <3> QED BY <1>2, <1>3, <3>2, <3>3
  <2> QED BY <2>1, <2>2 DEF Q1!Next
<1>4. ASSUME NEW s \in Q1!Students, late[s] = "skipped" PROVE late'[s] = "skipped"
  <2>1. CASE Q1!LabThreads
    BY <1>1, <1>4, <2>1, LabService DEF Q1!LabThreads
  <2>2. CASE Q1!StudentThreads
    <3>1. PICK u \in Q1!Students : Q1!StudentThread(u)
      BY <2>2 DEF Q1!StudentThreads
    <3>2. \/ UNCHANGED late
          \/ late' = [late EXCEPT ![u] = late[u]]
          \/ late' = [late EXCEPT ![u] = "skipped"]
      BY <3>1 DEF Q1!StudentThread, Q1!FillRegistration, Q1!Apply, Q1!ReadPref,
           Q1!Withdrawn, Q1!Offered, Q1!ChangePref, Q1!Wait, Q1!StudentExit
    <3> QED BY <1>2, <1>4, <3>2
  <2>3. CASE \E c \in Courses : Q1!CourseThread(c)
    <3>1. PICK c \in Courses : Q1!CourseThread(c)
      BY <2>3
    <3>2. CASE Q1!Search(c)
      <4>1. \/ UNCHANGED late
            \/ late' = [late EXCEPT ![tut[c].s] = late[tut[c].s]]
            \/ late[tut[c].s] = "no" /\ late' = [late EXCEPT ![tut[c].s] = "missed"]
        BY <3>2 DEF Q1!Search
      <4> QED BY <1>2, <1>4, <4>1
    <3>3. CASE ~ Q1!Search(c)
      <4>1. UNCHANGED late
        BY <3>1, <3>3 DEF Q1!CourseThread, Q1!InitCourse, Q1!AssignTA, Q1!ConductTutorial,
           Q1!Withdraw, Q1!NotifyAll, Q1!Check, Q1!Look, Q1!Take, Q1!Count, Q1!Finish,
           Q1!Seat, Q1!Start, Q1!Decide, Q1!Move, Q1!End, Q1!Free, Q1!Leave, Q1!Lock,
           Q1!studentVars
      <4> QED BY <1>4, <4>1
    <3> QED BY <3>2, <3>3
  <2> QED BY <2>1, <2>2, <2>3 DEF Q1!Next
<1>5. Q1!Astray => Q1!Astray'
  BY <1>3 DEF Q1!Astray
<1>6. Q1!Skipped => Q1!Skipped'
  BY <1>1, <1>4 DEF Q1!Skipped
<1> QED BY <1>5, <1>6 DEF Lost

LEMMA CourseStep == CourseInv /\ Q1!Next => CourseInv'
<1> SUFFICES ASSUME CourseInv, Q1!Next PROVE CourseInv'
  OBVIOUS
<1>1. ServiceAll /\ UNCHANGED input
  BY DEF CourseInv, ServiceAll, Q1!Next
<1>2. CASE \E c \in Courses : Q1!CourseThread(c)
  <2>1. PICK c \in Courses : Q1!CourseThread(c)
    BY <1>2
  <2>2. ServiceAll'
    BY <1>1, <2>1, InitService, LoopService, LookService, TakeService, LockService,
       StartService, EndService, FreeService, LeaveService
       DEF Q1!CourseThread, Q1!InitCourse, Q1!AssignTA, Q1!ConductTutorial
  <2>3. ASSUME SeatingInv PROVE Lost' \/ SeatingInv'
    BY <1>1, <2>1, <2>2, <2>3, EarlySeating, CountSeating, RoundsSeating, SearchSeating,
       SeatSeating, DecideSeating, MoveSeating
       DEF Lost, Q1!CourseThread, Q1!InitCourse, Q1!AssignTA, Q1!ConductTutorial
  <2> QED BY <1>1, <2>2, <2>3, StaysLost DEF CourseInv, ServiceAll
<1>3. CASE Q1!LabThreads
  <2>1. ServiceAll' /\ UNCHANGED <<course, at, tut, student, where, seen, late>>
    BY <1>1, <1>3, LabService DEF Q1!LabThreads
  <2>2. ASSUME SeatingInv PROVE SeatingInv'
    <3>1. LookInv'
      BY <1>1, <2>1, <2>2, LookKept DEF SeatingInv
    <3> QED BY <1>1, <2>1, <2>2, <3>1, StillStep
  <2> QED BY <1>1, <2>1, <2>2, StaysLost DEF CourseInv, ServiceAll
<1>4. CASE Q1!StudentThreads
  <2>1. PICK s \in Q1!Students : Q1!StudentThread(s)
    BY <1>4 DEF Q1!StudentThreads
  <2>2. ServiceAll'
    BY <1>1, <2>1, ThreadService
  <2>3. ASSUME SeatingInv PROVE Lost' \/ SeatingInv'
    BY <1>1, <2>1, <2>2, <2>3, ThreadSeating DEF Lost
  <2> QED BY <1>1, <2>2, <2>3, StaysLost DEF CourseInv, ServiceAll
<1> QED BY <1>2, <1>3, <1>4 DEF Q1!Next

LEMMA CourseSame == CourseInv /\ UNCHANGED courseVars => CourseInv'
<1> SUFFICES ASSUME CourseInv, UNCHANGED courseVars PROVE CourseInv'
  OBVIOUS
<1>1. UNCHANGED <<input, lab, ta, talock, course, at, i, j, tut, student, where, seen, late>>
  BY DEF courseVars
<1>2. /\ Q1!TAs' = Q1!TAs /\ Q1!NumTA' = Q1!NumTA /\ Q1!LabsOf' = Q1!LabsOf
      /\ Q1!Quota' = Q1!Quota /\ Q1!Students' = Q1!Students
  BY <1>1 DEF Q1!TAs, Q1!NumTA, Q1!LabsOf, Q1!Quota, Q1!Students, Q1!Prefs
<1>3. CourseType'
  BY <1>1, <1>2 DEF CourseInv, CourseType, TaType, TutorialType, StudentType
<1>4. ServiceInv' /\ BonusInv'
  BY <1>1, <1>2 DEF CourseInv, ServiceInv, BonusInv, Q1!LabAt, Q1!TaAt
<1>5. ASSUME SeatingInv PROVE SeatingInv'
  <2>1. LookInv'
    BY <1>1, <1>5, LookKept DEF SeatingInv
  <2> QED BY <1>1, <1>5, <2>1, StillStep
<1>6. Lost => Lost'
  BY <1>1, <1>2 DEF Lost, Q1!Astray, Q1!Skipped
<1> QED BY <1>3, <1>4, <1>5, <1>6 DEF CourseInv

LEMMA CourseInit == Q1!Init => CourseInv
<1> SUFFICES ASSUME Q1!Init PROVE CourseInv
  OBVIOUS
<1>1. /\ input \in Registrations
      /\ lab = [l \in Labs |-> [state |-> "TA_available", bonus |-> 1]]
      /\ ta = [t \in Q1!TAs |-> [state |-> "unassigned", taship |-> 0, current_course |-> Nobody]]
      /\ talock = [t \in Q1!TAs |-> Nobody]
      /\ course = [d \in Courses |-> "waiting_TA"]
      /\ at = [d \in Courses |-> "check"]
      /\ i = [d \in Courses |-> 1] /\ j = [d \in Courses |-> 0]
      /\ tut = [d \in Courses |-> [D |-> 0, done |-> 0, s |-> 1]]
      /\ student = [s \in Q1!Students |-> [state |-> "not_registered", current_pref |-> 1]]
      /\ where = [s \in Q1!Students |-> "loop"]
      /\ seen = [s \in Q1!Students |-> Nobody] /\ late = [s \in Q1!Students |-> "no"]
  BY DEF Q1!Init, Q1!NoTutorial
<1>2. TaType
  BY <1>1 DEF TaType
<1>3. TutorialType
  BY <1>1 DEF TutorialType
<1>4. StudentType
  <2>1. 1 \in 1 .. 3
    OBVIOUS
  <2> QED BY <1>1, <2>1 DEF StudentType
<1>5. CourseType
  BY <1>1, <1>2, <1>3, <1>4 DEF CourseType
<1>6. ServiceInv
  <2>1. Nobody \notin Courses
    BY <1>5, RegistrationIs
  <2> QED BY <1>1, <2>1 DEF ServiceInv, Holding, Locked
<1>7. BonusInv
  <2>1. ASSUME NEW t \in Q1!TAs
        PROVE  /\ ta[t].taship <= lab[t[1]].bonus /\ lab[t[1]].bonus <= ta[t].taship + 1
               /\ ta[t].taship <= Q1!Quota[t[1]]
    <3>1. t[1] \in Labs
      BY DEF Q1!TAs
    <3>2. ta[t].taship = 0 /\ lab[t[1]].bonus = 1
      BY <1>1, <3>1
    <3>3. Q1!Quota[t[1]] \in Nat \ {0}
      BY <1>5, <3>1, RegistrationIs
    <3> QED BY <3>2, <3>3
  <2> QED BY <2>1 DEF BonusInv
<1>8. SeatingInv
  <2>1. \A d \in Courses : TutorialInv(d)
    <3>1. TAKE d \in Courses
    <3>2. at[d] = "check" /\ tut[d] = Q1!NoTutorial
      BY <1>1 DEF Q1!NoTutorial
    <3>3. Attendants(d) = {}
      BY <1>1 DEF Attendants, Q1!Attending
    <3>4. Cardinality(Attendants(d)) = 0 /\ Q1!SeatsTaken(d) = 0
      BY <3>2, <3>3, FS_EmptySet DEF Q1!SeatsTaken
    <3> QED BY <3>2, <3>4 DEF TutorialInv
  <2>2. LookInv
    BY <1>1 DEF LookInv
  <2> QED BY <1>1, <2>1, <2>2 DEF SeatingInv
<1> QED BY <1>5, <1>6, <1>7, <1>8 DEF CourseInv

LEMMA CourseSafe ==
  ASSUME CourseInv
  PROVE  Q1!OneCourseEach /\ Q1!EqualRounds /\ Q1!SeatsFilled
<1>0. CourseType /\ ServiceInv /\ BonusInv
  BY DEF CourseInv
<1>1. Q1!OneCourseEach
  <2>1. SUFFICES ASSUME NEW d \in Courses,
                        at[d] \notin {"check", "look", "take", "notify", "exited"}
                 PROVE  /\ ta[Q1!TaAt(d)].current_course = d
                        /\ \A t \in Q1!TAs : ta[t].current_course = d => t = Q1!TaAt(d)
    BY DEF Q1!OneCourseEach
  <2>2. at[d] \in Holding
    BY <1>0, <2>1, TAsAre
  <2> QED BY <1>0, <2>2, ServiceEach DEF ServiceOK, Serves
<1>2. Q1!EqualRounds
  <2>1. \A t \in Q1!TAs : t[1] \in Labs /\ ta[t].taship \in Nat
    BY <1>0, TAsAre DEF Q1!TAs
  <2>2. \A l \in Labs : lab[l].bonus \in Nat
    BY <1>0 DEF CourseType
  <2>3. ASSUME NEW l \in Labs, NEW t \in Q1!OfLab(l), NEW u \in Q1!OfLab(l)
        PROVE  ta[t].taship <= ta[u].taship + 1
    <3>1. /\ t \in Q1!TAs /\ u \in Q1!TAs /\ t[1] = l /\ u[1] = l
      BY DEF Q1!OfLab
    <3>2. /\ ta[t].taship \in Nat /\ ta[u].taship \in Nat /\ lab[l].bonus \in Nat
          /\ ta[t].taship <= lab[l].bonus /\ lab[l].bonus <= ta[u].taship + 1
      BY <1>0, <2>1, <2>2, <3>1 DEF BonusInv
    <3> QED BY <3>2
  <2> QED BY <1>0, <2>3 DEF Q1!EqualRounds, BonusInv
<1>3. Q1!SeatsFilled
  <2>1. SUFFICES ASSUME ~ Lost, NEW d \in Courses
                 PROVE  /\ at[d] # "overrun"
                        /\ Q1!Cardinality({s \in Q1!Students : Q1!Attending(d, s) /\ ~ Q1!Held(s)})
                             = Q1!SeatsTaken(d)
    BY DEF Q1!SeatsFilled, Lost
  <2>2. TutorialInv(d)
    BY <2>1 DEF CourseInv, SeatingInv
  <2>3. \A S : Q1!Cardinality(S) = Cardinality(S)
    BY DEF Q1!Cardinality, Cardinality
  <2> QED BY <2>2, <2>3 DEF TutorialInv, Attendants
<1> QED BY <1>1, <1>2, <1>3

----------------------------------------------------------------------------
(* The three programs *)

SimInv == CourseInv /\ StadiumInv /\ DictionaryInv

LEMMA SimulationsInv == Spec => []SimInv
<1>1. Init => SimInv
  BY CourseInit, StadiumInit, DictionaryInit DEF Init, SimInv
<1>2. SimInv /\ [Next]_vars => SimInv'
  <2> SUFFICES ASSUME SimInv, [Next]_vars PROVE SimInv'
    OBVIOUS
  <2>1. CASE RunQ1
    BY <2>1, CourseStep, StadiumSame, DictionarySame DEF RunQ1, OnlyQ1, SimInv
  <2>2. CASE RunQ2
    BY <2>2, CourseSame, StadiumStep, DictionarySame DEF RunQ2, OnlyQ2, SimInv
  <2>3. CASE RunQ3
    BY <2>3, CourseSame, StadiumSame, DictionaryStep DEF RunQ3, OnlyQ3, SimInv
  <2>4. CASE UNCHANGED vars
    BY <2>4, CourseSame, StadiumSame, DictionarySame DEF vars, SimInv
  <2> QED BY <2>1, <2>2, <2>3, <2>4 DEF Next
<1> QED BY <1>1, <1>2, PTL DEF Spec

\* What is shared is given out once, in each of the three programs, for every number
\* of threads and every input: a TA that assign_TA() has taken serves the course that
\* took it, a seat of a tutorial has a student in it, a seat of the stadium a
\* spectator, a key of the dictionary one who inserted it (q1/globals.c:71-81,
\* 162-233; q2/globals.c:28-65; q3/dictionary.cpp:8-25).
THEOREM GivenOnceCorrect == Spec => []GivenOnce
<1>1. SimInv => GivenOnce
  BY CourseSafe, StadiumSafe DEF SimInv, GivenOnce, DictionaryInv
<1> QED BY <1>1, SimulationsInv, PTL

\* Nobody gets ahead, however many there are: no TA of the others of its lab by more
\* than one TAship, since the lab raises what it allows only when all have served as
\* often, and no spectator of its group, whose main threads wait for one another at
\* the gate (q1/globals.c:75, q1/lab.c:84-102; q2/main.c:122-146).
THEOREM NobodyAheadCorrect == Spec => []NobodyAhead
<1>1. SimInv => NobodyAhead
  BY CourseSafe, StadiumSafe DEF SimInv, NobodyAhead
<1> QED BY <1>1, SimulationsInv, PTL
=============================================================================
