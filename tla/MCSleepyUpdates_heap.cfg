SPECIFICATION Spec
CONSTANTS
  Module <- Six
  Owner <- ThreeObjects
  Modules <- ByObject
  Phase <- SixPhases
  Forever = 4
  Delays = {1}
  MaxFrame = 1
INVARIANTS RunningIsFirst AllScheduled ValidHeap
PROPERTY ImplementsSchedule
CHECK_DEADLOCK FALSE
