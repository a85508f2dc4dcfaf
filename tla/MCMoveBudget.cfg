SPECIFICATION Spec
CONSTANTS
  Ms = 2
  IntMax = 5
  Timeouts <- MCTimeouts
  default_time_budget_ms = 2
  safety_margin_ms = 1
  min_time_budget_ms = 1
  Horizon = 14
INVARIANTS
  SearchFits NoNeedlessFallback
CHECK_DEADLOCK FALSE
