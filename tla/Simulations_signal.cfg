SPECIFICATION FairSpec
CONSTANTS
  Courses <- MCCourses
  Labs <- MCLabs
  Registrations <- MCOneStudent
  Spectators <- MCFan
  Group <- MCOneEach
  Zone <- MCFanZone
  R <- MCOneEach
  Capacity <- MCCapacity
  X = 1
  MaxGoals = 1
  Workers = {w1, w2}
  Keys = {1}
  Inputs <- MCNoInput
  Nobody = Nobody
PROPERTY StudentsWake
CHECK_DEADLOCK FALSE
