-------------------------------- MODULE Course --------------------------------
(***************************************************************************)
(* The course registration of src/OSN_ass5/q1.  A thread per course takes  *)
(* a teaching assistant, conducts a tutorial and lets it go, until its     *)
(* labs have nobody left; a thread per lab raises the number of TAships    *)
(* everyone may have, and closes the lab; a thread per student waits for   *)
(* the course it prefers, attends, and is told what it has decided.        *)
(*                                                                         *)
(* A TA is looked at without its lock, locked, and looked at again.        *)
(* Students are looked at without their locks, which guard what follows.   *)
(***************************************************************************)
EXTENDS Naturals, Sequences, FiniteSets

CONSTANTS
  Courses,
  Labs,
  Registrations,  \* what main() may read: see Parameters
  Nobody

\* Assumed where the module is instantiated (Simulations).
Parameters ==
  /\ \A in \in Registrations :
       /\ in.LabsOf \in [Courses -> Seq(Labs)]      \* the labs of a course, in order
       /\ in.MaxSlot \in [Courses -> Nat \ {0}]      \* the seats a tutorial may have
       /\ in.NumTA \in [Labs -> 1 .. 20]             \* how many TAs a lab has
       /\ in.Quota \in [Labs -> Nat \ {0}]           \* how often each may serve
       /\ in.Prefs \in Seq([1 .. 3 -> Courses])      \* what a student prefers, in order
  /\ Nobody \notin Courses
  \* See where.
  /\ Courses \intersect {"loop", "apply", "look", "doze", "change", "exited"} = {}

VARIABLES
  input,   \* what main() has read
  lab,     \* the state and the bonus of a lab
  ta,      \* the state, the TAships and the course of a TA
  talock,  \* get_TA_lock
  course,  \* the state of a course
  at,      \* where the thread of a course is
  i, j,    \* its TA: number j of its i-th lab
  tut,     \* its tutorial: D seats, how many are dealt with, the student looked at
  student, \* the state and the preference of a student
  where,   \* where the thread of a student is: a course stands for its condition
  seen,    \* the course the thread of a student looks at
  late     \* history: what a student has missed or skipped

LabsOf  == input.LabsOf
MaxSlot == input.MaxSlot
NumTA   == input.NumTA
Quota   == input.Quota
Prefs   == input.Prefs

Students == 1 .. Len(Prefs)
TAs == UNION {{l} \X (0 .. NumTA[l] - 1) : l \in Labs}

taVars == <<lab, ta, talock, course, i, j>>
studentVars == <<student, where, seen, late>>
vars == <<input, taVars, at, tut, studentVars>>

NoTutorial == [D |-> 0, done |-> 0, s |-> 1]

Init ==
  /\ input \in Registrations
  /\ lab = [l \in Labs |-> [state |-> "TA_available", bonus |-> 1]]
  /\ ta = [t \in TAs |-> [state |-> "unassigned", taship |-> 0, current_course |-> Nobody]]
  /\ talock = [t \in TAs |-> Nobody]
  /\ course = [c \in Courses |-> "waiting_TA"]
  /\ at = [c \in Courses |-> "check"]
  /\ i = [c \in Courses |-> 1]
  /\ j = [c \in Courses |-> 0]
  /\ tut = [c \in Courses |-> NoTutorial]
  /\ student = [s \in Students |-> [state |-> "not_registered", current_pref |-> 1]]
  /\ where = [s \in Students |-> "loop"]
  /\ seen = [s \in Students |-> Nobody]
  /\ late = [s \in Students |-> "no"]

Goto(c, l) == at' = [at EXCEPT ![c] = l]

\* The lab, and the TA, a course looks at.
LabAt(c) == LabsOf[c][i[c]]
TaAt(c)  == <<LabAt(c), j[c]>>

Pref(s) == Prefs[s][student[s].current_pref]

\* student_lock, as far as another thread can find it taken: while the state of a
\* student follows its preference (globals.c:219-220).
Held(s) == \E c \in Courses : at[c] = "moving" /\ tut[c].s = s

\* pthread_cond_signal(): nobody else waits for the condition of a student, which
\* looks at its state again.  That it needs its lock first makes no difference: while
\* another has it, the student finds itself attending.
Signal(c, s) == where' = IF where[s] = c THEN [where EXCEPT ![s] = "loop"] ELSE where

----------------------------------------------------------------------------
(* init_student(), which does nothing while it attends a tutorial *)

FillRegistration(s) ==
  /\ where[s] = "loop"
  /\ student[s].state = "not_registered"
  /\ student' = [student EXCEPT ![s].state = "waiting"]
  /\ UNCHANGED <<taVars, at, tut, where, seen, late>>

\* The state, the preference and the course it names are looked at before the lock
\* is taken, one after the other.
Apply(s) ==
  /\ where[s] = "loop"
  /\ student[s].state = "waiting"
  /\ where' = [where EXCEPT ![s] = "apply"]
  /\ UNCHANGED <<taVars, at, tut, student, seen, late>>

ReadPref(s) ==
  /\ where[s] = "apply"
  /\ where' = [where EXCEPT ![s] = "look"]
  /\ seen' = [seen EXCEPT ![s] = Pref(s)]
  /\ UNCHANGED <<taVars, at, tut, student, late>>

Withdrawn(s) ==
  /\ where[s] = "look"
  /\ course[seen[s]] = "withdrawn"
  /\ where' = [where EXCEPT ![s] = "change"]
  /\ UNCHANGED <<taVars, at, tut, student, seen, late>>

Offered(s) ==
  /\ where[s] = "look"
  /\ course[seen[s]] # "withdrawn"
  /\ where' = [where EXCEPT ![s] = "doze"]
  /\ seen' = [seen EXCEPT ![s] = Nobody]
  /\ UNCHANGED <<taVars, at, tut, student, late>>

NextPref(s) ==
  IF student[s].current_pref < 3
  THEN student' = [student EXCEPT ![s].current_pref = @ + 1]
  ELSE student' = [student EXCEPT ![s].state = "exited_simulation"]

\* It gives up the preference it has now, and skips it if it has looked at another.
ChangePref(s) ==
  /\ where[s] = "change"
  /\ ~Held(s)
  /\ NextPref(s)
  /\ where' = [where EXCEPT ![s] = "loop"]
  /\ seen' = [seen EXCEPT ![s] = Nobody]
  /\ late' = [late EXCEPT ![s] = IF seen[s] = Pref(s) THEN @ ELSE "skipped"]
  /\ UNCHANGED <<taVars, at, tut>>

Wait(s) ==
  /\ where[s] = "doze"
  /\ ~Held(s)
  /\ where' = [where EXCEPT ![s] = Pref(s)]
  /\ UNCHANGED <<taVars, at, tut, student, seen, late>>

StudentExit(s) ==
  /\ where[s] = "loop"
  /\ student[s].state \in {"selected_course", "exited_simulation"}
  /\ where' = [where EXCEPT ![s] = "exited"]
  /\ UNCHANGED <<taVars, at, tut, student, seen, late>>

StudentThread(s) ==
  \/ FillRegistration(s) \/ Apply(s) \/ ReadPref(s) \/ Withdrawn(s) \/ Offered(s)
  \/ ChangePref(s) \/ Wait(s) \/ StudentExit(s)

----------------------------------------------------------------------------
(* init_course() and check_labs() *)

\* No lab opens again, so the three calls of check_labs() agree on "none left".
NoneLeft(c) == \A n \in 1 .. Len(LabsOf[c]) : lab[LabsOf[c][n]].state = "No_TA_available"

Withdraw(c) ==
  /\ at[c] = "check"
  /\ NoneLeft(c)
  /\ course' = [course EXCEPT ![c] = "withdrawn"]
  /\ Goto(c, "notify")
  /\ UNCHANGED <<lab, ta, talock, i, j, tut, studentVars>>

Waiting(c, s) == Pref(s) = c /\ student[s].state = "waiting"

\* Mutant of NotifyAll: one signal each.
NotifyOnce(c) ==
  LET s == tut[c].s
  IN  /\ at[c] = "notify"
      /\ IF s \in Students
         THEN /\ IF Waiting(c, s) THEN Signal(c, s) ELSE UNCHANGED where
              /\ tut' = [tut EXCEPT ![c].s = s + 1]
              /\ UNCHANGED at
         ELSE Goto(c, "exited") /\ UNCHANGED <<tut, where>>
      /\ UNCHANGED <<taVars, student, seen, late>>

\* Each student that waits is signalled until it does not; a signal it is not
\* asleep for changes nothing.
NotifyAll(c) ==
  LET s == tut[c].s
  IN  /\ at[c] = "notify"
      /\ \/ /\ s \in Students /\ Waiting(c, s)
            /\ Signal(c, s)
            /\ UNCHANGED <<at, tut>>
         \/ /\ s \in Students /\ ~Waiting(c, s)
            /\ tut' = [tut EXCEPT ![c].s = s + 1]
            /\ UNCHANGED <<at, where>>
         \/ /\ s \notin Students
            /\ Goto(c, "exited")
            /\ UNCHANGED <<tut, where>>
      /\ UNCHANGED <<taVars, student, seen, late>>

\* A lab that is open, with a TA that serves nobody.
Check(c) ==
  /\ at[c] = "check"
  /\ \E n \in 1 .. Len(LabsOf[c]) :
       LET l == LabsOf[c][n]
       IN  /\ lab[l].state = "TA_available"
           /\ \E m \in 0 .. NumTA[l] - 1 : ta[<<l, m>>].state = "unassigned"
  /\ i' = [i EXCEPT ![c] = 1]
  /\ j' = [j EXCEPT ![c] = 0]
  /\ Goto(c, "look")
  /\ UNCHANGED <<lab, ta, talock, course, tut, studentVars>>

----------------------------------------------------------------------------
(* assign_TA() *)

\* The next TA of the lab, the next lab, or none: back to init_course().
Advance(c) ==
  IF j[c] + 1 < NumTA[LabAt(c)]
  THEN j' = [j EXCEPT ![c] = @ + 1] /\ Goto(c, "look") /\ UNCHANGED i
  ELSE IF i[c] < Len(LabsOf[c])
  THEN j' = [j EXCEPT ![c] = 0] /\ i' = [i EXCEPT ![c] = @ + 1] /\ Goto(c, "look")
  ELSE Goto(c, "check") /\ UNCHANGED <<i, j>>

Look(c) ==
  /\ at[c] = "look"
  /\ IF ta[TaAt(c)].state = "unassigned"
     THEN Goto(c, "take") /\ UNCHANGED <<i, j>>
     ELSE Advance(c)
  /\ UNCHANGED <<lab, ta, talock, course, tut, studentVars>>

\* Mutants of Eligible: the look without the lock is trusted; the bonus is
\* forgotten.
EligibleOnce(t) == ta[t].taship < Quota[t[1]] /\ ta[t].taship < lab[t[1]].bonus
EligibleAlways(t) == ta[t].state = "unassigned" /\ ta[t].taship < Quota[t[1]]

Eligible(t) ==
  /\ ta[t].state = "unassigned"
  /\ ta[t].taship < Quota[t[1]]
  /\ ta[t].taship < lab[t[1]].bonus

\* Under the lock of the TA, which nobody waits for while holding another.
Take(c) ==
  LET t == TaAt(c)
  IN  /\ at[c] = "take"
      /\ talock[t] = Nobody
      /\ IF Eligible(t)
         THEN /\ ta' = [ta EXCEPT ![t] = [state |-> "assigned", taship |-> @.taship + 1,
                                          current_course |-> c]]
              /\ course' = [course EXCEPT ![c] = "waiting_slots"]
              /\ Goto(c, "conduct")
              /\ UNCHANGED <<i, j>>
         ELSE Advance(c) /\ UNCHANGED <<ta, course>>
      /\ UNCHANGED <<lab, talock, tut, studentVars>>

----------------------------------------------------------------------------
(* conduct_tutorial() *)

Lock(c) ==
  /\ talock[TaAt(c)] = Nobody
  /\ talock' = [talock EXCEPT ![TaAt(c)] = c]
  /\ UNCHANGED <<lab, ta, course, i, j, studentVars>>

\* As many seats as chance offers and students wait.
Count(c) ==
  LET W == Cardinality({s \in Students : Waiting(c, s)})
  IN  /\ at[c] = "conduct"
      /\ Lock(c)
      /\ \E D \in 1 .. MaxSlot[c] : tut' = [tut EXCEPT ![c].D = IF D > W THEN W ELSE D]
      /\ Goto(c, "seat")

\* After 2 seconds, which wait for no student.
Finish(c) ==
  /\ at[c] = "tutorial"
  /\ Lock(c)
  /\ Goto(c, "release")
  /\ UNCHANGED tut

Attending(c, s) == Pref(s) = c /\ student[s].state = "attending_tut"

\* On its way from the look at its state to the wait: a signal now is missed.
OnItsWay(s) == where[s] \in {"apply", "look", "doze"}

\* The next turn of the loops that seat students and release them: whoever is
\* looked for is signalled, once.  The loops have no bound on s.
Search(c) ==
  LET s == tut[c].s
      found == IF at[c] = "seat" THEN Waiting(c, s) ELSE Attending(c, s)
  IN  /\ at[c] \in {"seat", "release"}
      /\ tut[c].done < tut[c].D
      /\ IF s \notin Students THEN Goto(c, "overrun") /\ UNCHANGED <<tut, where, late>>
         ELSE IF found
         THEN /\ Signal(c, s)
              /\ Goto(c, IF at[c] = "seat" THEN "found" ELSE "decide")
              /\ late' = [late EXCEPT ![s] = IF at[c] = "release" /\ OnItsWay(s) /\ @ = "no"
                                             THEN "missed" ELSE @]
              /\ UNCHANGED tut
         ELSE tut' = [tut EXCEPT ![c].s = s + 1] /\ UNCHANGED <<at, where, late>>
      /\ UNCHANGED <<taVars, student, seen>>

\* One more is dealt with.
Done(c) == tut' = [tut EXCEPT ![c].done = @ + 1, ![c].s = @ + 1]

\* Mutant of Seat: the student is not marked as seated.
SeatNobody(c) ==
  /\ at[c] = "found"
  /\ ~Held(tut[c].s)
  /\ Done(c)
  /\ Goto(c, "seat")
  /\ UNCHANGED <<taVars, studentVars>>

Seat(c) ==
  /\ at[c] = "found"
  /\ ~Held(tut[c].s)
  /\ student' = [student EXCEPT ![tut[c].s].state = "attending_tut"]
  /\ Done(c)
  /\ Goto(c, "seat")
  /\ UNCHANGED <<taVars, where, seen, late>>

\* The tutorial starts.
Start(c) ==
  /\ at[c] = "seat"
  /\ tut[c].done = tut[c].D
  /\ tut' = [tut EXCEPT ![c] = [NoTutorial EXCEPT !.D = tut[c].D]]
  /\ ta' = [ta EXCEPT ![TaAt(c)].state = "in_tut"]
  /\ talock' = [talock EXCEPT ![TaAt(c)] = Nobody]
  /\ Goto(c, "tutorial")
  /\ UNCHANGED <<lab, course, i, j, studentVars>>

\* What a student decides is left to chance.  One of another tutorial, found
\* between its preference and its state, does not attend this one: it is decided
\* for, and one of those that attend is never released.  That is the place "astray".
Decide(c) ==
  LET s == tut[c].s
  IN  /\ at[c] = "decide"
      /\ ~Held(s)
      /\ \/ /\ ~Attending(c, s)
            /\ Goto(c, "astray")
            /\ UNCHANGED <<tut, student>>
         \/ /\ Attending(c, s)
            /\ student' = [student EXCEPT ![s].state = "selected_course"]
            /\ Done(c)
            /\ Goto(c, "release")
         \/ /\ Attending(c, s) /\ student[s].current_pref < 3
            /\ NextPref(s)
            /\ Goto(c, "moving")
            /\ UNCHANGED tut
         \/ /\ Attending(c, s) /\ student[s].current_pref = 3
            /\ NextPref(s)
            /\ Done(c)
            /\ Goto(c, "release")
      /\ UNCHANGED <<taVars, where, seen, late>>

\* The preference has changed, and now the state does.
Move(c) ==
  /\ at[c] = "moving"
  /\ student' = [student EXCEPT ![tut[c].s].state = "waiting"]
  /\ Done(c)
  /\ Goto(c, "release")
  /\ UNCHANGED <<taVars, where, seen, late>>

\* All are released; the course looks for a TA again, the one its TA serves.
End(c) ==
  /\ at[c] = "release"
  /\ tut[c].done = tut[c].D
  /\ tut' = [tut EXCEPT ![c] = NoTutorial]
  /\ course' = [course EXCEPT ![ta[TaAt(c)].current_course] = "waiting_TA"]
  /\ Goto(c, "free")
  /\ UNCHANGED <<lab, ta, talock, i, j, studentVars>>

\* The TA looks free before it has left the course.
Free(c) ==
  /\ at[c] = "free"
  /\ ta' = [ta EXCEPT ![TaAt(c)].state = "unassigned"]
  /\ Goto(c, "leave")
  /\ UNCHANGED <<lab, talock, course, i, j, tut, studentVars>>

Leave(c) ==
  /\ at[c] = "leave"
  /\ ta' = [ta EXCEPT ![TaAt(c)].current_course = Nobody]
  /\ talock' = [talock EXCEPT ![TaAt(c)] = Nobody]
  /\ Goto(c, IF course[c] = "waiting_slots" THEN "conduct" ELSE "check")
  /\ UNCHANGED <<lab, course, i, j, tut, studentVars>>

----------------------------------------------------------------------------
(* init_lab(), which takes no TA's lock *)

OfLab(l) == {t \in TAs : t[1] = l}

\* assign_TA() counts the TAship before the TA stops being unassigned: a look in
\* between closes the lab while the last TAship goes on.
Close(l) ==
  /\ lab[l].state = "TA_available"
  /\ \A t \in OfLab(l) : ta[t].taship >= Quota[l]
  /\ lab' = [lab EXCEPT ![l].state = "No_TA_available"]
  /\ UNCHANGED <<ta, talock, course, i, j, at, tut, studentVars>>

\* Mutant of AllServed: it waits for more than there can be.
MoreServed(l) == \A t \in OfLab(l) : ta[t].taship > lab[l].bonus

\* A TAship equal to the bonus stays so until it is raised.
AllServed(l) == \A t \in OfLab(l) : ta[t].taship = lab[l].bonus

RaiseBonus(l) ==
  /\ lab[l].state = "TA_available"
  /\ AllServed(l)
  /\ lab[l].bonus < Quota[l]
  /\ lab' = [lab EXCEPT ![l].bonus = @ + 1]
  /\ UNCHANGED <<ta, talock, course, i, j, at, tut, studentVars>>

----------------------------------------------------------------------------

InitCourse(c) == Withdraw(c) \/ NotifyAll(c) \/ Check(c)
AssignTA(c)   == Look(c) \/ Take(c)
ConductTutorial(c) ==
  \/ Count(c) \/ Finish(c) \/ Search(c) \/ Seat(c) \/ Start(c)
  \/ Decide(c) \/ Move(c) \/ End(c) \/ Free(c) \/ Leave(c)

CourseThread(c) == InitCourse(c) \/ AssignTA(c) \/ ConductTutorial(c)
LabThreads == \E l \in Labs : Close(l) \/ RaiseBonus(l)

StudentThreads == \E s \in Students : StudentThread(s)

Next ==
  /\ (\E c \in Courses : CourseThread(c)) \/ LabThreads \/ StudentThreads
  /\ UNCHANGED input

----------------------------------------------------------------------------

\* The course a TA serves is the one that has taken it, and no course has two: the
\* look without the lock is made good by the one under it (globals.c:71-81,
\* 234-241).
OneCourseEach ==
  \A c \in Courses :
    at[c] \notin {"check", "look", "take", "notify", "exited"} =>
      /\ ta[TaAt(c)].current_course = c
      /\ \A t \in TAs : ta[t].current_course = c => t = TaAt(c)

\* Nobody serves once more before everyone in the lab has served as often, and
\* nobody more than the quota (globals.c:75; lab.c:84-102).
EqualRounds ==
  /\ \A l \in Labs : \A t, u \in OfLab(l) : ta[t].taship <= ta[u].taship + 1
  /\ \A t \in TAs : ta[t].taship <= Quota[t[1]]

\* The seats a tutorial has given away and not yet taken back.
SeatsTaken(c) ==
  CASE at[c] \in {"seat", "found"} -> tut[c].done
    [] at[c] = "tutorial"          -> tut[c].D
    [] at[c] \in {"release", "decide"} -> tut[c].D - tut[c].done
    [] at[c] = "moving"            -> tut[c].D - tut[c].done - 1
    [] OTHER                       -> 0

Astray == \E c \in Courses : at[c] = "astray"

\* A student has given up a preference without a look at it, maybe while a tutorial
\* had a seat for it.
Skipped == \E s \in Students : late[s] = "skipped"

\* Unless a tutorial takes a student that attends another (Astray), or a student
\* gives up a seat this way, who attends a tutorial is seated in it, as many as have
\* seats, and the loops find them all before they run past the array, though every
\* student is looked at without its lock (globals.c:162-233).
SeatsFilled ==
  ~Astray /\ ~Skipped =>
    \A c \in Courses :
      /\ at[c] # "overrun"
      /\ Cardinality({s \in Students : Attending(c, s) /\ ~Held(s)}) = SeatsTaken(c)

\* Asleep for a signal it has missed.
Stuck(s) == late[s] = "missed" /\ where[s] \in Courses

\* A course that is withdrawn signals such a student for ever, if it sleeps for another.
Signalling(c) ==
  /\ at[c] = "notify"
  /\ tut[c].s \in Students /\ Stuck(tut[c].s) /\ where[tut[c].s] # c

\* With the same exceptions every lab closes, every course is withdrawn, and every
\* student has a course or none left to ask for, but for those that were on their way
\* to the wait when a tutorial released them, and those behind them: no other wakeup
\* is lost (course.c:7-38; lab.c:37-104; student.c:16-53).
Over ==
  \/ /\ \A l \in Labs : lab[l].state = "No_TA_available"
     /\ \A c \in Courses : at[c] = "exited" \/ Signalling(c)
     /\ \A s \in Students :
          \/ where[s] = "exited"
          \/ Stuck(s)
          \/ where[s] \in Courses /\ Signalling(where[s])
  \/ Astray \/ Skipped

\* What becomes of a student there is.
Decided(s) == s \in Students /\ student[s].state \in {"selected_course", "exited_simulation"}
Gone(s)    == s \in Students /\ where[s] = "exited"
=============================================================================
