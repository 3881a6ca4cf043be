\* An old-style and a new-style event, a small channel, a restart, a failure;
\* three runs and three fixes to list.
CONSTANTS
  e1 = e1  e2 = e2  i1 = i1  i2 = i2  i3 = i3  i4 = i4
  local = local  other = other  Unset = Unset
  Events = {e1, e2}
  NewStyle = {e2}
  Capacity = 1
  BatchSize = 2
  Retention = 0
  MaxNow = 1
  MaxChanges = 2
  MaxCrashes = 1
  MaxFaults = 1
  Tie <- Order
  Runs <- ThreeRuns
  Fixes <- ThreeFixes
  RunCRs <- ThreeCRs
  FixCRs <- ThreeCRs
SPECIFICATION FairSpec
INVARIANT TypeOK PagesCover
PROPERTY RowsNeverFallBack OccurrencesStored
CHECK_DEADLOCK FALSE
