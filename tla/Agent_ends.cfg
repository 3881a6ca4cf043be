\* Three skills, a primary with a retry and two fallbacks, three turns.
CONSTANTS
  pods = pods  nodes = nodes  costs = costs
  sonnet = sonnet  haiku = haiku  opus = opus
  Names <- ThreeNames
  Rows <- ThreeRows
  Wanted <- TwoWanted
  ModelConfigRef = sonnet
  Fallbacks <- TwoBehind
  Specs <- ThreeSpecs
  Leftover <- OldBundle
  MaxTurns = 3
  ContinueLimit = 2
  OnMaxTokens = "continue"
  MaxRetries = 2
  MaxFindings = 2
SPECIFICATION FairSpec
INVARIANT TypeOK FallbackInOrder FindingsAccounted AsAsked
PROPERTY AgentEnds
CHECK_DEADLOCK FALSE
