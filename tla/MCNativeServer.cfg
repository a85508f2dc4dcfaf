SPECIFICATION SafeSpec
CONSTANTS
  w1 = w1  w2 = w2
  c1 = c1  c2 = c2  c3 = c3
  None = None
  Workers <- MCWorkers
  Conns <- MCConns
  Fds <- MCFds
  Capacity = 1
  Failing <- FailureNames
SYMMETRY MCSymmetry
INVARIANTS
  TypeOK DescriptorOwnership RegistryMatchesWorkers NoBlockingReadAfterStop
  StopReachesPoll HandlerFindsPipe CleanExit
