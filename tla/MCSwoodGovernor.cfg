CONSTANTS
  ann = ann
  bob = bob
  User = {ann, bob}
  Supply <- MCSupply
  SCALE = 2
  Amount = {1, 2}
  Reward = {3, 5}
  Duration = {0, 2, 3}
  MaxTime = 4
  MaxNotices = 2
  votingPeriod = 2
  proposalThreshold = 1
  MaxProposals = 1
SPECIFICATION GovernorSpec
CONSTRAINT Slices
INVARIANTS NeverStuck Solvent TallyWasStaked
PROPERTY EarnedIsLocal
