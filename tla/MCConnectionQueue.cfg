SPECIFICATION Spec
CONSTANTS
  Jobs = {j1, j2, j3}
  Consumers = {c1, c2, c3}
  Capacity = 2
  NoJob = NoJob
INVARIANTS
  TypeOK NoLostWakeup
PROPERTIES
  FifoSpec StopDrainsAndEnds
CHECK_DEADLOCK FALSE
