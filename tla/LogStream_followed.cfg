\* Every line's shape, with a failed call, a cut or a crash, and other rows.
CONSTANTS
  Lines <- FiveLines
  MaxOthers = 1
  MaxFaults = 1
SPECIFICATION FairSpec
INVARIANT TypeOK SameLog
PROPERTY FollowerReleased
CHECK_DEADLOCK FALSE
