\* One run, every fault: crashes, failed calls, edits, deletes, a lost Job.
CONSTANTS
  u1 = u1  u2 = u2  s1 = s1  s2 = s2  None = None
  Runs = {u1}
  Slots = {s1}
  JobSlot <- OneName
  WatchSlot <- OneName
  RemoteRuns = {}
  TimedRuns = {u1}
  TTLSlots = {s1}
  Doomed = {u1}
  MaxFindings = 1
  MaxVersion = 3
  MaxCrashes = 1
  MaxFaults = 1
SPECIFICATION FairSpec
INVARIANT TypeOK RowAgreesWithCR NoSecondJob AgentCanReport ReportComplete
PROPERTY RowNotReopened EndedStartsNoJob ImplementsContract RunningEnds PendingLeftUnlessBlocked
CHECK_DEADLOCK FALSE
