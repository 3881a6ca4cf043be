\* One request, for liveness.
CONSTANTS
  q1 = q1  q2 = q2
  Requests = {q1}
  MaxVersion = 3
  MaxCrashes = 1
  MaxFaults = 1
SPECIFICATION FairSpec
PROPERTY DecisionsTaken
CHECK_DEADLOCK FALSE
