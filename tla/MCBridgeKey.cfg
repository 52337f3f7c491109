CONSTANTS
  ip1 = ip1
  ip2 = ip2
  note = note
  fresh = fresh
  f1 = f1
  f2 = f2
  u1 = u1
  u2 = u2
  u3 = u3
  c1 = c1
  c2 = c2
  c3 = c3
  ann = ann
  bob = bob
  cat = cat
  asked1 = asked1
  asked2 = asked2
  Part = {"bridge"}
  Ip = {ip1, ip2}
  Note = {note}
  Fresh = {fresh}
  ratePerMin = 1
  rateGlobalPerMin = 2
  WINDOW = 2
  GAS_SEED = 1
  Requests = 3
  Flow = {f1, f2}
  NoKey = NoKey
  Wants <- MCWants
  Jobs = 2
  Action = {"swap_execute", "onramp", "answer"}
  MaxLives = 2
  Url = {u1, u2, u3}
  NoUrl = NoUrl
  Caller = {c1, c2, c3}
  GAP_MS = 2
  TTL = 3
  Backoff = 3
  Retries = 2
  Addr = {ann, bob, cat}
  Shielder = {ann}
  None = None
  Request = {asked1, asked2}
  Kind = {"shield"}
  Failing = TRUE
  DayOf <- MCDayOf
  rules <- MCRules
  MaxBlocks = 1
  MaxEvents = 2
  MaxCrashes = 1
  Token = {"btc", "eth", "sol"}
  Home = "eth"
  Empty = "empty"
  Option = {"fixed"}
  Rail = {"private", "dex", "zx", "zxc"}
  MaxEdits = 3
  Scenario <- MCScenario
  MaxReplies = 2
  MaxTries = 2
  tok = tok
  usd = usd
  pool = pool
  Coin = {tok, usd}
  NoCoin = nocoin
  Pool = {pool}
  NoPool = nopool
  Legs <- MCLegs
  MaxTabs = 2
  MaxFailed = 2
  MaxLoads = 3
  UNIVERSE = {"x", "y", "z"}
  TEMPLATES <- MCTemplates
  Picked <- MCPicked
  Budget = {30, 101}
  MaxHoldings = 2
  THIN_MAX_USD = 25
  MaxHistories = 5
  MaxErrors = 3
SPECIFICATION ServicesSpec
INVARIANT NeverStranded
CHECK_DEADLOCK FALSE
