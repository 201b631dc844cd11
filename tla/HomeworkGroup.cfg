SPECIFICATION Spec
CONSTANTS
  h1 = h1
  h2 = h2
  Homework <- MCHomework
  MaxDt = 4
  LogEndpoint = TRUE
SYMMETRY Symmetry
INVARIANTS
  TypeOK
  CreationLogKept
  OnlyDecisionsWait
  AgreedInOrder
  OpenedFirst
  VerdictToldIsInEffect
PROPERTIES
  AgreedStaysAgreed
  ImplementsGate
