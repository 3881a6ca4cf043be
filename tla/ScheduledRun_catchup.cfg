\* Two due times, a limit of none, and every interference.
CONSTANTS
  Horizon = 2
  Limit = 0
  Doomed <- FirstChild
  MaxVersion = 2
  MaxCrashes = 1
  MaxFaults = 1
SPECIFICATION FairSpec
INVARIANT TypeOK NoneSkipped HistoryBounded
PROPERTY NoneRepeated DueTimesServed
CHECK_DEADLOCK FALSE
