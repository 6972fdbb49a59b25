----------------------------- MODULE Simulations ------------------------------
(***************************************************************************)
(* The three programs of src/OSN_ass5, all threads, locks, condition       *)
(* variables and sleeps of one process each (the third of two).  They have *)
(* nothing in common but what is asked of them: what threads share is not  *)
(* given out twice, and main(), which joins them, comes to its end.        *)
(* A behaviour is one of a single program.                                 *)
(***************************************************************************)
EXTENDS Integers, Sequences

CONSTANTS
  Courses, Labs, Registrations,
  Spectators, Group, Zone, R, Capacity, X, MaxGoals,
  Workers, Keys, Inputs,
  Nobody

VARIABLES
  program,
  input, lab, ta, talock, course, at, i, j, tut, student, where, seen, late,
  state, enraged, left, chosen, sem, zone, got, main, goals, timer,
  commands, arg, client, cmd, answer, backlog, thread_q, worker, conn, present, locks

courseVars == <<input, lab, ta, talock, course, at, i, j, tut, student, where, seen, late>>
stadiumVars == <<state, enraged, left, chosen, sem, zone, got, main, goals, timer>>
dictionaryVars ==
  <<commands, arg, client, cmd, answer, backlog, thread_q, worker, conn, present, locks>>
vars == <<program, courseVars, stadiumVars, dictionaryVars>>

Q1 == INSTANCE Course
Q2 == INSTANCE Stadium
Q3 == INSTANCE Dictionary

ASSUME SimulationsAssumption == Q1!Parameters /\ Q2!Parameters /\ Q3!Parameters

Init ==
  /\ program \in {"q1", "q2", "q3"}
  /\ Q1!Init
  /\ Q2!Init
  /\ Q3!Init
  \* An input, or what malloc() leaves in etime, makes a difference to one of them.
  /\ program # "q1" => input = CHOOSE in \in Registrations : TRUE
  /\ program # "q2" => \A k \in Q2!Watchers : left[k] = 0
  /\ program # "q3" => commands = CHOOSE in \in Inputs : TRUE

OnlyQ1 == program = "q1" /\ UNCHANGED <<program, input, stadiumVars, dictionaryVars>>
OnlyQ2 == program = "q2" /\ UNCHANGED <<program, courseVars, dictionaryVars>>
OnlyQ3 == program = "q3" /\ UNCHANGED <<program, courseVars, stadiumVars>>

RunQ1 == OnlyQ1 /\ Q1!Next
RunQ2 == OnlyQ2 /\ Q2!Next
RunQ3 == OnlyQ3 /\ Q3!Next

Next == RunQ1 \/ RunQ2 \/ RunQ3

Spec == Init /\ [][Next]_vars

\* Threads that spin do not keep others from running: a course that looks for a
\* TA, the timer that signals.  All other threads take finitely many steps, so
\* that fairness to each is fairness to them together.
Finite ==
  \/ OnlyQ1 /\ (Q1!LabThreads \/ Q1!StudentThreads)
  \/ OnlyQ2 /\ Q2!SpectatorThreads
  \/ RunQ3

Fairness ==
  /\ WF_vars(Finite)
  /\ WF_vars(OnlyQ2 /\ Q2!Timer)
  /\ \A c \in Courses : WF_vars(OnlyQ1 /\ Q1!CourseThread(c))

FairSpec == Spec /\ Fairness

----------------------------------------------------------------------------

\* What is shared is given out once: a TA to a course (q1/globals.c:71-81), a seat of
\* a tutorial to a student (q1/globals.c:178-233), one of the stadium to a spectator
\* (q2/globals.c:28-65), a key to who inserts it (q3/dictionary.cpp:8-25).
GivenOnce ==
  /\ Q1!OneCourseEach
  /\ Q1!SeatsFilled
  /\ Q2!SeatsCounted
  /\ Q3!KeysCounted

\* Nobody gets ahead: no TA of its lab by more than one TAship, no spectator of
\* its group (q1/REPORT.md, "ensuring equal oppurtunities"; q2/REPORT.md, "all the
\* threads wakeup and exit the simulation together").
NobodyAhead ==
  /\ Q1!EqualRounds
  /\ Q2!LeaveTogether

\* Every program comes to its end, no thread being left asleep: all labs closed,
\* courses withdrawn and students gone, but for what Course!Over excepts: a tutorial
\* that goes astray, a preference skipped, a signal missed while on the way to the wait;
\* all spectators gone; all clients answered (q1/main.c:110-121, q2/main.c:228-234,
\* q3/client_sim.cpp:202-205).
ComesToAnEnd ==
  <>(CASE program = "q1" -> Q1!Over
       [] program = "q2" -> Q2!Over
       [] program = "q3" -> Q3!Over)

AllStudents == UNION {1 .. Len(in.Prefs) : in \in Registrations}

\* Whose course is decided, one way or the other, is woken and leaves: "we keep
\* signalling that specific thread till its state is changed (confirmation that the
\* thread woke up)" (q1/REPORT.md:67).  A tutorial signals once (q1/globals.c:182, 204).
StudentsWake == \A s \in AllStudents : Q1!Decided(s) ~> Q1!Gone(s)
=============================================================================
