SPECIFICATION TradesSpec
CONSTANTS
  trader = trader
  founder = founder
  taxed = taxed
  WETH = WETH
  VIRTUAL = VIRTUAL
  SWOOD = SWOOD
  ETH = ETH
  Zero = Zero
  Router = Router
  WETH9 = WETH9
  AggRouter = AggRouter
  PublicRouter = PublicRouter
  SwapExecutor = SwapExecutor
  Pool = Pool
  Treasury = Treasury
  Venue = Venue
  Founder = founder
  FEE = 1
  FEE_BASE = 10
  MINIMUM_LIQUIDITY = 1
  MAX_RESERVE = 30
  LEAST_KEPT = 7
  KEPT_SWOOD = 8
  FEE_BPS = 50
  FEE_BPS_T1 = 25
  TIER1 = 6
  TIER2 = 9
  BPS = 100
  Token <- MCToken
  Asset <- MCAsset
  Taxed = {taxed}
  Account <- MCAccount
  User = {trader}
  Supply <- MCSupply
  PairFee <- MCPairFee
  RouteOf <- MCRoute
  Outcome = {0, 3}
  Amount = {2, 5}
  Minimum = {2}
  Path <- MCPath
  Deal <- MCDeal
  Provided <- MCProvided
  Desired <- MCDesired
  Stock = {taxed}
  FeeAccount = {Zero, Treasury}
  Seedings <- MCSeedings
  MaxCalls = 3
  Routes <- MCRoutes
  Preset <- MCPreset
  REF = 3
  Wanted <- MCWanted
  Percent = {50, 100}
  PoolToken = SWOOD
  SLIP = 60
  HALF_SLIP = 20
  SHIELD_SLIP = 60
  TradeKind = {"page", "panel", "agent", "private", "add", "remove"}
  MaxTasks = 1
  MaxAround = 1
INVARIANTS QuotesExecuteBetween CallsSettleBetween SettlesUnlessMoved
PROPERTIES ShareValueKept FeeOnTradingOnly
CHECK_DEADLOCK FALSE
