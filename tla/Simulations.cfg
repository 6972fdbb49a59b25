SPECIFICATION FairSpec
CONSTANTS
  Courses <- MCCourses
  Labs <- MCLabs
  Registrations <- MCRegistrations
  Spectators <- MCSpectators
  Group <- MCGroup
  Zone <- MCZone
  R <- MCR
  Capacity <- MCCapacity
  X = 1
  MaxGoals = 1
  Workers = {w1, w2}
  Keys = {1}
  Inputs <- MCInputs
  Nobody = Nobody
INVARIANTS
  GivenOnce NobodyAhead
PROPERTIES
  ComesToAnEnd
CHECK_DEADLOCK FALSE
