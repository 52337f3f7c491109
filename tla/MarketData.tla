----------------------------- MODULE MarketData -----------------------------
(***************************************************************************)
(* The market data the application shows (WoodieApp.tsx, geckoterminal.ts, *)
(* dexscreener.ts): the feed of all tokens is loaded over and over; the    *)
(* sheet of a token looks for a pool of it and draws that pool's chart and *)
(* trades. A pool keeps its tokens in an order of its own, so the side to  *)
(* ask for is looked up and remembered; a chart that disagrees with the    *)
(* price is of the other side. Both data services are external: a request  *)
(* is answered, or fails. Time is left out: what a cache keeps may expire. *)
(* Whether the feed has a price of a token is left open at every step.     *)
(*                                                                         *)
(* Operators Name_Fault are faults that the README lists.                  *)
(***************************************************************************)
EXTENDS Naturals, FiniteSets

CONSTANTS Coin, NoCoin,        \* tokens
          Pool, NoPool, Legs,  \* per pool [base, quote]
          MaxTabs, MaxFailed, MaxLoads   \* bounds: charts asked for, failures, loads

ASSUME MarketDataAssumption ==
  /\ NoCoin \notin Coin /\ NoPool \notin Pool
  /\ Legs \in [Pool -> [base : Coin, quote : Coin]]
  /\ {MaxTabs, MaxFailed, MaxLoads} \subseteq Nat

VARIABLES
  sides,    \* storage: per pool which token is said to be its quote
  rows,     \* session: charts kept, with what was asked for and what they show
  keptTrades,   \* session: trades kept
  sheet,    \* the open sheet: its token, the token whose details it has, the pool,
            \* the chart and the trades shown, and whether it was another token's
  looking,  \* tokens whose pool is being looked for
  charts,   \* attempts to get a chart
  tradesOf, \* requests for trades
  tabs, misses,
  version,  \* the services' data, numbered
  loads,    \* loads of the feed under way, with the number they got
  markets   \* the number of the feed shown

sheetVars == <<sides, rows, keptTrades, sheet, looking, charts, tradesOf, tabs, misses>>
feedVars == <<version, loads, markets>>
marketVars == <<sheetVars, feedVars>>

(* A chart: the token it draws and the one it was asked for, and whether   *)
(* the latter's price was known when it was fetched.                       *)
NoCandles == [leg |-> NoCoin, token |-> NoCoin, known |-> FALSE]
NoChart == [leg |-> NoCoin, asked |-> NoCoin]
Closed == [token |-> NoCoin, detail |-> NoCoin, pool |-> NoPool, candles |-> NoCandles,
           trades |-> NoChart, turned |-> FALSE]

MarketDataInit ==
  /\ sides = [p \in Pool |-> "unknown"] /\ rows = {} /\ keptTrades = [p \in Pool |-> NoChart]
  /\ sheet = Closed /\ looking = {} /\ charts = {} /\ tradesOf = {} /\ tabs = 0 /\ misses = 0
  /\ version = 0 /\ loads = {} /\ markets = 0

Fails == misses < MaxFailed /\ misses' = misses + 1
PoolsOf(t) == { p \in Pool : t \in {Legs[p].base, Legs[p].quote} }
Leg(p, side) == IF side = "quote" THEN Legs[p].quote ELSE Legs[p].base

-----------------------------------------------------------------------------
(* A sheet opens, with the details that the feed has, or none; or it turns *)
(* to another token: then the details, the pool, the chart and the trades  *)
(* stay. Closed, nothing that is on its way is shown any more.             *)
Dropped(set) == { [c EXCEPT !.alive = FALSE] : c \in set }
Opens(t) ==
  /\ t # sheet.token /\ tabs < MaxTabs
  /\ IF sheet = Closed
     THEN \E detail \in {t, NoCoin} : sheet' = [sheet EXCEPT !.token = t, !.detail = detail]
     ELSE sheet' = [sheet EXCEPT !.token = t, !.turned = TRUE]
  /\ looking' = {t}
  /\ UNCHANGED <<sides, rows, keptTrades, charts, tradesOf, tabs, misses, feedVars>>
closeToken ==
  /\ sheet # Closed /\ sheet' = Closed /\ looking' = {}
  /\ charts' = Dropped(charts) /\ tradesOf' = Dropped(tradesOf)
  /\ UNCHANGED <<sides, rows, keptTrades, tabs, misses, feedVars>>

(* A chart is asked for anew for a pool and the sheet's token. What it is  *)
(* held against is the price in the details, else the one the feed has.    *)
Reference(detail, t) == IF detail # NoCoin THEN {detail} ELSE {t, NoCoin}
AskCharts(p, t, detail) ==
  \E ref \in Reference(detail, t) :
    charts' = Dropped(charts) \cup
      {[at |-> "start", pool |-> p, token |-> t, ref |-> ref, side |-> "base", left |-> 1, alive |-> TRUE]}

(* The sheet gets details, and a pool if it has none: that one's chart and *)
(* trades are asked for.                                                   *)
Charted(p, detail) ==
  IF sheet.pool # NoPool THEN sheet' = [sheet EXCEPT !.detail = detail] /\ UNCHANGED <<charts, tradesOf, tabs>>
  ELSE /\ sheet' = [sheet EXCEPT !.detail = detail, !.pool = p] /\ tabs' = tabs + 1
       /\ AskCharts(p, sheet.token, detail)
       /\ tradesOf' = Dropped(tradesOf) \cup {[pool |-> p, token |-> sheet.token, alive |-> TRUE]}

(* The quicker service answers: what there is stays. In the end the token's*)
(* own details are taken; the slower one tells the sides of its pools too. *)
DexPool(p) ==
  /\ looking # {} /\ p \in PoolsOf(sheet.token)
  /\ Charted(p, IF sheet.detail = NoCoin THEN sheet.token ELSE sheet.detail)
  /\ UNCHANGED <<sides, rows, keptTrades, looking, misses, feedVars>>
GtPool(p, withSides) ==
  /\ looking # {} /\ looking' = {} /\ p \in PoolsOf(sheet.token)
  /\ sides' = IF withSides THEN [sides EXCEPT ![p] = Legs[p].quote] ELSE sides
  /\ Charted(p, sheet.token)
  /\ UNCHANGED <<rows, keptTrades, misses, feedVars>>

(* The feed knew a pool when the sheet opened.                             *)
KnownPool(p) ==
  /\ looking # {} /\ sheet.pool = NoPool /\ p \in PoolsOf(sheet.token)
  /\ Charted(p, sheet.detail)
  /\ UNCHANGED <<sides, rows, keptTrades, looking, misses, feedVars>>

(* Another timeframe of the chart.                                         *)
Timeframe ==
  /\ sheet.pool # NoPool /\ tabs < MaxTabs /\ tabs' = tabs + 1
  /\ AskCharts(sheet.pool, sheet.token, sheet.detail)
  /\ UNCHANGED <<sides, rows, keptTrades, sheet, looking, tradesOf, misses, feedVars>>

-----------------------------------------------------------------------------
(* The side of a token in a pool: as remembered, else looked up, else      *)
(* taken to be the base.                                                   *)
SideOf(quote, t) == IF quote = t THEN "quote" ELSE "base"
poolSideFor(p, t, side, remembered) ==
  \/ sides[p] # "unknown" /\ side = SideOf(sides[p], t) /\ remembered = sides /\ UNCHANGED misses
  \/ /\ sides[p] = "unknown"
     /\ \/ /\ remembered = [sides EXCEPT ![p] = Legs[p].quote] /\ side = SideOf(Legs[p].quote, t)
           /\ UNCHANGED misses
        \/ Fails /\ side = "base" /\ remembered = sides

(* What a chart is kept under.                                             *)
ChartKey_Pool(p, t) == <<p>>
ChartKey(p, t) == <<p, t>>

(* The attempt `c` is over, with the chart of a token or none; it is tried *)
(* once more, later. Without a chart the sheet shows none.                 *)
Drawn(c, leg, known) == IF leg = NoCoin THEN NoCandles ELSE [leg |-> leg, token |-> c.token, known |-> known]
Over(c, leg, known) ==
  /\ charts' = IF leg # NoCoin \/ c.left = 0 \/ ~ c.alive THEN charts \ {c}
               ELSE (charts \ {c}) \cup {[c EXCEPT !.at = "start", !.left = 0]}
  /\ sheet' = IF c.alive /\ (leg # NoCoin \/ c.left = 0)
              THEN [sheet EXCEPT !.candles = Drawn(c, leg, known)] ELSE sheet

(* fetchOhlcv: a kept chart is shown; else the side is found out,          *)
fetchOhlcv(c) ==
  /\ c.at = "start"
  /\ LET kept == { r \in rows : r.key = ChartKey(c.pool, c.token) } IN
     IF kept # {}
     THEN /\ \E r \in kept : Over(c, r.leg, r.known)
          /\ UNCHANGED <<sides, misses>>
     ELSE /\ \E side \in {"base", "quote"} :
               /\ poolSideFor(c.pool, c.token, side, sides')
               /\ charts' = (charts \ {c}) \cup {[c EXCEPT !.at = "rows", !.side = side]}
          /\ UNCHANGED sheet
  /\ UNCHANGED <<rows, keptTrades, looking, tradesOf, tabs, feedVars>>

(* and the chart asked for: one that disagrees with the known price is     *)
(* dropped, and the other side remembered. (Prices of two tokens of a pool *)
(* differ by more than the factor allowed.)                                *)
Disagrees(c, leg) == c.ref # NoCoin /\ leg # c.ref
Other(c) == IF c.side = "base" THEN c.token ELSE NoCoin
Filed(c, leg) ==
  { r \in rows : r.key # ChartKey(c.pool, c.token) }
    \cup {[key |-> ChartKey(c.pool, c.token), leg |-> leg, known |-> c.ref = c.token]}
Rows(c) ==
  /\ c.at = "rows"
  /\ \/ LET leg == Leg(c.pool, c.side) IN
        /\ IF Disagrees(c, leg)
           THEN sides' = [sides EXCEPT ![c.pool] = Other(c)] /\ Over(c, NoCoin, FALSE) /\ UNCHANGED rows
           ELSE rows' = Filed(c, leg) /\ Over(c, leg, c.ref = c.token) /\ UNCHANGED sides
        /\ UNCHANGED misses
     \/ Fails /\ Over(c, NoCoin, FALSE) /\ UNCHANGED <<sides, rows>>
  /\ UNCHANGED <<keptTrades, looking, tradesOf, tabs, feedVars>>

(* fetchTrades: kept ones are shown as they are; else each buy or sale of  *)
(* the base is turned round for a token that is the quote.                 *)
fetchTrades(r) ==
  /\ r \in tradesOf /\ tradesOf' = tradesOf \ {r}
  /\ IF keptTrades[r.pool] # NoChart
     THEN /\ sheet' = IF r.alive THEN [sheet EXCEPT !.trades = keptTrades[r.pool]] ELSE sheet
          /\ UNCHANGED <<sides, keptTrades, misses>>
     ELSE \/ /\ Fails /\ UNCHANGED keptTrades
             /\ sides' \in {sides, [sides EXCEPT ![r.pool] = IF @ = "unknown" THEN Legs[r.pool].quote ELSE @]}
             /\ sheet' = IF r.alive THEN [sheet EXCEPT !.trades = NoChart] ELSE sheet
          \/ \E side \in {"base", "quote"} :
            /\ poolSideFor(r.pool, r.token, side, sides')
            /\ LET got == [leg |-> Leg(r.pool, side), asked |-> r.token] IN
               /\ keptTrades' = [keptTrades EXCEPT ![r.pool] = got]
               /\ sheet' = IF r.alive THEN [sheet EXCEPT !.trades = got] ELSE sheet
  /\ UNCHANGED <<rows, looking, charts, tabs, feedVars>>

(* What is kept for minutes expires.                                       *)
Expire ==
  /\ rows # {} \/ \E p \in Pool : keptTrades[p] # NoChart
  /\ rows' = {} /\ keptTrades' = [p \in Pool |-> NoChart]
  /\ UNCHANGED <<sides, sheet, looking, charts, tradesOf, tabs, misses, feedVars>>

-----------------------------------------------------------------------------
(* The feed: a load begins every 20 seconds, whether the one before it is  *)
(* over or waits for the slower services, and then shows all it got.       *)
Load ==
  /\ Cardinality(loads) < 2 /\ version < MaxLoads
  /\ version' = version + 1 /\ loads' = loads \cup {version + 1}
  /\ UNCHANGED <<sheetVars, markets>>
FeedShows(n) == loads' = loads \ {n} /\ markets' = n /\ UNCHANGED <<sheetVars, version>>
LoadFails(n) == loads' = loads \ {n} /\ UNCHANGED <<sheetVars, version, markets>>

SheetNext ==
  \/ \E t \in Coin : Opens(t)
  \/ closeToken \/ Timeframe \/ Expire
  \/ \E p \in Pool : KnownPool(p) \/ DexPool(p) \/ \E withSides \in BOOLEAN : GtPool(p, withSides)
  \/ \E c \in charts : fetchOhlcv(c) \/ Rows(c)
  \/ \E r \in tradesOf : fetchTrades(r)
FeedNext == Load \/ \E n \in loads : FeedShows(n) \/ LoadFails(n)
MarketDataNext == SheetNext \/ FeedNext
MarketDataSpec == MarketDataInit /\ [][MarketDataNext]_marketVars

-----------------------------------------------------------------------------
(* "the caller knows roughly what the token trades at"                     *)
(* (geckoterminal.ts:225): a chart that was fetched with its token's price *)
(* known is that token's, never of the other token of the pool, whatever   *)
(* failed, was remembered, kept or asked for by other sheets and           *)
(* timeframes; and a sheet shows a chart asked for its own token, unless it*)
(* was turned from another one.                                            *)
ChartIsItsToken ==
  /\ sheet.candles.known => sheet.candles.leg = sheet.candles.token
  /\ sheet.turned \/ sheet.candles.token \in {NoCoin, sheet.token}

(* The chart drawn is always of the sheet's token. It is not, once a sheet *)
(* has turned, or after a lookup failed while no price was known.          *)
ChartAlwaysRight == sheet.candles.leg \in {NoCoin, sheet.token}

(* "so "Buy" means buying OUR token" (geckoterminal.ts:240).               *)
BuyMeansOurs == sheet.trades.leg \in {NoCoin, sheet.token}

(* The feed shown is never replaced by an older one.                       *)
FeedNeverGoesBack == [][markets' >= markets]_marketVars
=============================================================================
