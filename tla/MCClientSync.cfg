CONSTANTS
  shield = shield
  swap = swap
  spend = spend
  Tx <- MCTx
  Own = {shield, swap}
  Swap = {swap}
  Labelled = {shield, swap}
  SpenderOf <- MCSpenderOf
  c1 = c1
  c2 = c2
  Call = {c1, c2}
  Scenario <- MCScenario
SPECIFICATION FairSpec
INVARIANTS AccountFollowsTree SkipsOnlyWhenTorn
PROPERTY CatchesUp
