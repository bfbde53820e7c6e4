\* Two regions: one can close while the other is being read.
CONSTANTS
  NONE = NONE
  Regions = {r1, r2}
SPECIFICATION Spec
\* A failed build, a failed stop and a completed stop end the process.
CHECK_DEADLOCK FALSE
INVARIANT FlowStatsNeverPanics
INVARIANT StopOkShutsEverythingDown
INVARIANT QueriesReadRunningBackends
INVARIANT RegionStatsEntriesCurrent
