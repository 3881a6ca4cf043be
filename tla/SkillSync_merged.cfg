\* A name in two namespaces, a name that is built in, and two broken files.
CONSTANTS
  a1 = a1  a2 = a2  b1 = b1  pods = pods  nodes = nodes  None = None
  CRs = {a1, a2, b1}
  Names = {pods, nodes}
  NameOf <- Naming
  Files <- ThreeFiles
  Specs <- TwoSpecs
  MaxEdits = 4
  MaxCrashes = 1
  MaxFaults = 1
SPECIFICATION FairSpec
INVARIANT RowsTrue
PROPERTY SyncedAtLast
CHECK_DEADLOCK FALSE
