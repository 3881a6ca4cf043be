\* Two requests on one fix, with a crash, a failed call and an edit.
CONSTANTS
  q1 = q1  q2 = q2
  Requests = {q1, q2}
  MaxVersion = 3
  MaxCrashes = 1
  MaxFaults = 1
SPECIFICATION Spec
SYMMETRY SameRequests
INVARIANT TypeOK OutcomeTrue PatchNeedsConsent
PROPERTY ImplementsFixContract
CHECK_DEADLOCK FALSE
