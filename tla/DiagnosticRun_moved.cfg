\* A run deleted and created again under its name, for another cluster.
CONSTANTS
  u1 = u1  u2 = u2  s1 = s1  s2 = s2  None = None
  Runs = {u1, u2}
  Slots = {s1, s2}
  JobSlot <- Moved
  WatchSlot <- SameName
  RemoteRuns = {u2}
  TimedRuns = {u1}
  TTLSlots = {}
  Doomed = {u1}
  MaxFindings = 0
  MaxVersion = 2
  MaxCrashes = 0
  MaxFaults = 0
SPECIFICATION Spec
PROPERTY ImplementsContract
CHECK_DEADLOCK FALSE
