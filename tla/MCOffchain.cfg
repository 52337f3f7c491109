SPECIFICATION OffchainSpec
CONSTANTS
  Account = {me, other}
  Key = me
  NoOne = noone
  Nothing = nothing
  Unset = unset
  Root <- Roots
  MaxDeposits = 2
  MaxLag = 1
  MaxFailures = 1
  MaxByHand = 4
  ASSOC_ROOT_HISTORY = 3
  ASP_TIMELOCK = 2
  MaxTime = 5
  MaxPublished = 16
  WATCHED <- Wallets
  MIN = 2
  TOPUP = 3
  FUNDER_RESERVE = 1
  Fee = 1
  Funds = 11
  MaxRpcErrors = 2
  OrderKind = {"out", "zx"}
  MaxOrders = 2
  MaxFetches = 2
  MaxMishaps = 2
INVARIANTS AcceptedRootsAreRecent ApprovedStaysSpendable
PROPERTIES RotationIsAnnounced EventuallyApproved ToppedUp PollsShowTheEnd
CHECK_DEADLOCK FALSE
