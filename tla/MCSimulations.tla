---------------------------- MODULE MCSimulations -----------------------------
(* A small input of each program. *)
EXTENDS Simulations

MCCourses == {"os", "dsm"}
MCLabs == {"alpha", "beta"}
\* Either two courses compete for the TAs of a lab, and nobody attends, or two
\* students for the tutorials of two courses.
MCRegistrations ==
  {[LabsOf |-> [os |-> <<"alpha">>, dsm |-> <<"beta", "alpha">>],
    NumTA |-> [alpha |-> 2, beta |-> 1], Quota |-> [alpha |-> 2, beta |-> 1],
    MaxSlot |-> [os |-> 1, dsm |-> 1], Prefs |-> << >>],
   [LabsOf |-> [os |-> <<"alpha">>, dsm |-> <<"beta">>],
    NumTA |-> [alpha |-> 1, beta |-> 1], Quota |-> [alpha |-> 1, beta |-> 1],
    MaxSlot |-> [os |-> 2, dsm |-> 1],
    Prefs |-> <<<<"os", "dsm", "os">>, <<"dsm", "dsm", "os">>>>]}

\* One student, whose preferences are all of one course.
MCOneStudent ==
  {[LabsOf |-> [os |-> <<"alpha">>, dsm |-> <<"beta">>], NumTA |-> [alpha |-> 1, beta |-> 1],
    Quota |-> [alpha |-> 1, beta |-> 1], MaxSlot |-> [os |-> 1, dsm |-> 1],
    Prefs |-> <<<<"os", "os", "os">>>>]}

\* With these, one spectator and no command.
MCFan == <<"home">>
MCFanZone == [home |-> "H"]
MCOneEach == [home |-> 1]
MCNoInput == {<< >>}

MCSpectators == <<"home", "fan">>
MCGroup == [home |-> 1, fan |-> 1]
MCZone == [home |-> "H", fan |-> "H"]
MCR == [home |-> 1, fan |-> 0]
MCCapacity == [H |-> 1, A |-> 0, N |-> 1]

Command(op) == [op |-> op, key |-> 1, key2 |-> 1]
MCInputs == {<<Command("concat"), Command("insert"), Command("delete")>>,
             <<Command("insert"), Command("update"), Command("fetch")>>}
=============================================================================
