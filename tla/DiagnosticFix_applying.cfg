\* A crash while the patch is applied.
CONSTANTS
  q1 = q1  q2 = q2
  Requests = {q1}
  MaxVersion = 1
  MaxCrashes = 1
  MaxFaults = 0
SPECIFICATION FairSpec
PROPERTY ApplyingDecided
CHECK_DEADLOCK FALSE
