\* Two requests on the configurations at once, nothing fails.
CONSTANTS
  c1 = c1  c2 = c2  r1 = r1  r2 = r2
  Callers = {c1}
  Clients = {c1}
  Requests = {r1, r2}
  Types = {"fix.approved", "fix.rejected"}
  Events <- OneEvent
  Settings <- SomeSettings
  Flags <- OneFlag
  Stored <- OneRow
  TTL = 1
  MaxStarts = 2
  MaxFaults = 0
SPECIFICATION Spec
INVARIANT ChangesTakeEffect
CHECK_DEADLOCK FALSE
