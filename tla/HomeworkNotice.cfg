SPECIFICATION Spec
CONSTANTS
  h1 = h1
  h2 = h2
  Homework <- MCOneHomework
  MaxDt = 3
  LogEndpoint = FALSE
INVARIANTS
  AssignmentToldIsInEffect
