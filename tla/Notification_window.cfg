\* Two approvals at once over HTTP and two requests on the configurations,
\* three of the four in all, with a crash, a failure or a client that leaves.
CONSTANTS
  c1 = c1  c2 = c2  r1 = r1  r2 = r2
  Callers = {c1, c2}
  Clients = {c1, c2}
  Requests = {r1, r2}
  Types = {"fix.approved", "fix.rejected"}
  Events <- OneEvent
  Settings <- SomeSettings
  Flags <- OneFlag
  Stored <- OneRow
  TTL = 1
  MaxStarts = 3
  MaxFaults = 1
SPECIFICATION FairSpec
INVARIANT TypeOK LoneEditsTakeEffect
PROPERTY WindowKept SentOrReported WindowCloses
CHECK_DEADLOCK FALSE
