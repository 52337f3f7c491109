------------------------------ MODULE PublicTrades ------------------------------
(***************************************************************************)
(* Trades of the app and of the agent on the AMM: how a way to ETH is      *)
(* picked and a trade quoted off chain (aggregator.ts, routing.ts), and    *)
(* the flows that quote, set a least amount and send: the Swap page, the   *)
(* panel of the trading app, its private trades, the agent's swaps, and    *)
(* the Pool page's deposits and withdrawals of liquidity. Between the      *)
(* steps of a flow anyone may trade.                                       *)
(*                                                                         *)
(* A quote is the set of amounts it can answer: a venue outside answers    *)
(* any Outcome, and a set without elements is no answer.                   *)
(*                                                                         *)
(* Operators Name_Fault are faults that the README lists.                  *)
(***************************************************************************)
EXTENDS Amm

CONSTANTS
  Routes,            \* Routes[t]: the spokes [kind, fee] there may be for token t
  Preset,            \* the spokes that the token list comes with
  REF,               \* a whole token, what routes are compared with
  Wanted,            \* the trades asked for, <<token in, token out>>
  Percent,           \* shares of a position that are withdrawn
  PoolToken,         \* the Pool page's pair is this token's with WETH
  SLIP, HALF_SLIP, SHIELD_SLIP, \* 100, 50 and 300 of BPS in the app
  TradeKind,         \* the flows there are
  MaxTasks,          \* bound on the trades of the app and the agent
  MaxAround          \* bound on the calls of others before and during one

ASSUME TradesAssumption ==
  /\ {SLIP, HALF_SLIP, SHIELD_SLIP} \subseteq 0..BPS /\ PoolToken \in Token
  /\ TradeKind \subseteq {"page", "panel", "agent", "private", "add", "remove"}
  /\ {MaxTasks, MaxAround} \subseteq Nat
  /\ Wanted \subseteq Asset \X Asset /\ Percent \subseteq Nat
  /\ \A a \in Asset : \A spoke \in Routes[a] : IsSpoke(spoke)
  /\ \A a \in DOMAIN Preset : IsSpoke(Preset[a])

VARIABLES
  task,      \* the trade under way
  approved,  \* tokens the user lets the router take
  tasks

tradeVars == <<vars, task, approved, tasks>>

isHub(token) == token \in {ETH, WETH}
NoSpoke == [kind |-> "v4", fee |-> 0]
Standard == FEE_BASE - FEE

-----------------------------------------------------------------------------
(* Quotes of public trades.                                                *)
v2Quote_ReservesSwapped(s, from, to, amount, feeNum) ==
  LET f == amount * feeNum
  IN IF {from, to} \in DOMAIN s.pool /\ ReserveOf(s, to, from) + f > 0
     THEN {(f * ReserveOf(s, from, to)) \div (ReserveOf(s, to, from) * FEE_BASE + f)} ELSE {}
v2Quote(s, from, to, amount, feeNum) ==
  LET f == amount * feeNum
  IN IF {from, to} \in DOMAIN s.pool /\ ReserveOf(s, from, to) + f > 0
     THEN {(f * ReserveOf(s, to, from)) \div (ReserveOf(s, from, to) * FEE_BASE + f)} ELSE {}
TwoHops(s, from, to, amount, fee1, fee2) ==
  UNION {v2Quote(s, VIRTUAL, to, x, fee2) : x \in v2Quote(s, from, VIRTUAL, amount, fee1)}

FeeNum(spoke) == IF spoke.fee = 0 THEN Standard ELSE spoke.fee

toEth(s, token, spoke, amount) ==
  CASE isHub(token) -> {amount}
    [] ~isHub(token) /\ spoke.kind \in {"v3", "v4"} -> Outcome
    [] ~isHub(token) /\ spoke.kind = "v2" -> v2Quote(s, token, WETH, amount, FeeNum(spoke))
    [] ~isHub(token) /\ spoke.kind = "via" -> TwoHops(s, token, WETH, amount, FeeNum(spoke), Standard)
fromEth(s, token, spoke, eth) ==
  CASE isHub(token) -> {eth}
    [] ~isHub(token) /\ spoke.kind \in {"v3", "v4"} -> Outcome
    [] ~isHub(token) /\ spoke.kind = "v2" -> v2Quote(s, WETH, token, eth, FeeNum(spoke))
    [] ~isHub(token) /\ spoke.kind = "via" -> TwoHops(s, WETH, token, eth, Standard, FeeNum(spoke))

quotePublic(s, in, spokeIn, out, spokeOut, amount) ==
  IF amount = 0 \/ in = out THEN {}
  ELSE UNION {fromEth(s, out, spokeOut, eth) : eth \in toEth(s, in, spokeIn, amount)}

(* The agent's copy takes every pair for a standard one.                   *)
agentQuote(s, in, spokeIn, out, spokeOut, amount) ==
  quotePublic(s, in, [spokeIn EXCEPT !.fee = 0], out, [spokeOut EXCEPT !.fee = 0], amount)

(* The spokes that may win: none must answer more. A probe can fail.       *)
resolveRoutes(s, token, candidates) ==
  LET Quoted(c) == {x \in toEth(s, token, c, REF) : x > 0}
      Certain(c) == c.kind \in {"v2", "via"}
  IN IF isHub(token) THEN {NoSpoke}
     ELSE {c \in candidates :
             \E x \in Quoted(c) : \A d \in candidates : Certain(d) => \A y \in Quoted(d) : y <= x}

-----------------------------------------------------------------------------
(* The quote of a private trade goes SwapExecutor's ways.                  *)
v2Out(s, from, to, amount, feeNum) == v2Quote(s, from, to, amount, feeNum)
toWeth(s, token, amount) ==
  CASE Way(token) = "weth" -> {amount}
    [] Way(token) \in {"v3", "v4"} -> Outcome
    [] Way(token) = "v2" -> v2Out(s, token, WETH, amount, Standard)
    [] Way(token) = "via" -> TwoHops(s, token, WETH, amount, KeptOf(token), Standard)
fromWeth(s, token, weth) ==
  CASE Way(token) = "weth" -> {weth}
    [] Way(token) \in {"v3", "v4"} -> Outcome
    [] Way(token) = "v2" -> v2Out(s, WETH, token, weth, Standard)
    [] Way(token) = "via" -> TwoHops(s, WETH, token, weth, Standard, KeptOf(token))
quoteRoute(s, in, out, amount) ==
  IF amount = 0 \/ in = out THEN {} ELSE UNION {fromWeth(s, out, weth) : weth \in toWeth(s, in, amount)}

-----------------------------------------------------------------------------
(* Least amounts. The Swap page takes off what it read as the router's fee *)
(* and the slippage; without a quote it asks for nothing.                  *)
NoQuote == -1
Less(amount, bps) == amount - (amount * bps) \div BPS
minOut(t) == IF t.expected = NoQuote THEN 0 ELSE Less((t.expected * (BPS - t.fee)) \div BPS, SLIP)

(* What the router would pay now, asked by simulating the call.            *)
Simulated(t, u) ==
  {l.out - (l.out * _feeBps(l.s, u)) \div BPS :
     l \in Traded(state, AggRouter, u, t.in, t.out, t.spokeIn, t.spokeOut, t.amount)}
FloorOf(t, u) ==
  IF t.kind = "page"
  THEN {Less(x, SLIP) : x \in Simulated(t, u)} \cup {minOut(t)}
  ELSE {(x * (BPS - HALF_SLIP)) \div BPS : x \in Simulated(t, u)}
         \cup {(((t.expected * (BPS - fee)) \div BPS) * (BPS - SLIP)) \div BPS : fee \in {_feeBps(state, u), FEE_BPS}}

(* The call that is sent in the end.                                       *)
CallSent(t, u) ==
  CASE t.kind \in {"page", "panel", "agent"} ->
         aggSwap(state, u, t.in, t.spokeIn, t.out, t.spokeOut, t.amount, t.floor)
    [] t.kind = "private" -> executorSwap(state, t.in, t.out, t.amount, t.floor)
    [] t.kind = "add" -> addLiquidityETH(state, u, PoolToken, t.amount, t.floor)
    [] t.kind = "remove" -> removeLiquidityETH(state, u, PoolToken, t.amount, t.floor, FALSE)

-----------------------------------------------------------------------------
(* The flows.                                                              *)
Idle == [at |-> "idle"]
TradesInit == AmmInit /\ task = Idle /\ approved = {} /\ tasks = 0

Ready(kind) ==
  kind \in TradeKind /\ task.at \in {"idle", "done"} /\ tasks < MaxTasks /\ calls <= MaxAround
Fresh == [at |-> "asked", moved |-> FALSE, mined |-> FALSE, floor |-> 0]
Ask(t) ==
  /\ task' = [f \in DOMAIN t \cup DOMAIN Fresh |-> IF f \in DOMAIN t THEN t[f] ELSE Fresh[f]]
  /\ tasks' = tasks + 1
  /\ UNCHANGED <<vars, approved>>
AskSwap(kind, in, out, spokeIn, spokeOut, amount, expected, fee) ==
  Ask([kind |-> kind, in |-> in, out |-> out, spokeIn |-> spokeIn, spokeOut |-> spokeOut,
       amount |-> amount, expected |-> expected, fee |-> fee])

(* The Swap page takes the token list's spokes for what they are. Its      *)
(* quote may have failed, and so may its reading of the fee.               *)
Selected(token) ==
  IF token \in DOMAIN Preset THEN {Preset[token]} ELSE resolveRoutes(state, token, Routes[token])
doSwap(u) ==
  /\ Ready("page")
  /\ \E w \in Wanted, amount \in Amount :
       \E spokeIn \in Selected(w[1]), spokeOut \in Selected(w[2]), fee \in {_feeBps(state, u), FEE_BPS} :
         \E expected \in quotePublic(state, w[1], spokeIn, w[2], spokeOut, amount) \cup {NoQuote} :
           /\ amount <= wallet[w[1]][u]
           /\ AskSwap("page", w[1], w[2], spokeIn, spokeOut, amount, expected, fee)

(* The trading app looks the routes up anew and needs a quote.             *)
toAggToken(token) == resolveRoutes(state, token, Routes[token])
executePublicSwap(u) ==
  /\ Ready("panel")
  /\ \E w \in Wanted, amount \in Amount :
       \E spokeIn \in toAggToken(w[1]), spokeOut \in toAggToken(w[2]) :
         \E expected \in quotePublic(state, w[1], spokeIn, w[2], spokeOut, amount) \ {0} :
           /\ amount <= wallet[w[1]][u]
           /\ AskSwap("panel", w[1], w[2], spokeIn, spokeOut, amount, expected, 0)

(* The agent asks for its quote less the slippage, without simulating, and *)
(* knows no way through VIRTUAL but the list's.                            *)
resolveToken(token) ==
  IF token \in DOMAIN Preset THEN {Preset[token]}
  ELSE resolveRoutes(state, token, {c \in Routes[token] : c.kind # "via"})
executeSwap(u) ==
  /\ Ready("agent")
  /\ \E w \in Wanted, amount \in Amount :
       \E spokeIn \in resolveToken(w[1]), spokeOut \in resolveToken(w[2]) :
         \E expected \in agentQuote(state, w[1], spokeIn, w[2], spokeOut, amount) \ {0} :
           /\ amount <= wallet[w[1]][u]
           /\ AskSwap("agent", w[1], w[2], spokeIn, spokeOut, amount, expected, 0)

doTrade ==
  /\ Ready("private")
  /\ \E w \in Wanted, amount \in Amount :
       LET hub(a) == IF a = ETH THEN WETH ELSE a
           in == hub(w[1])  out == hub(w[2])
           quotes == quoteRoute(state, in, out, amount)
       IN \E expected \in IF quotes = {} THEN {0} ELSE quotes :
            /\ amount <= wallet[in][Pool]
            /\ AskSwap("private", in, out, NoSpoke, NoSpoke, amount, expected, 0)

(* The Pool page: the ETH of a deposit follows the ratio of the pair, or   *)
(* is free while the pair is empty; a withdrawal is a part of the shares.  *)
PoolPair == {PoolToken, WETH}
Share(r, u, percent) == (r.balanceOf[u] * percent) \div 100
addLiq(u) ==
  LET Fits(d) ==
        \/ ReserveOf(state, PoolToken, WETH) = 0
        \/ d[2] = (d[1] * ReserveOf(state, WETH, PoolToken)) \div ReserveOf(state, PoolToken, WETH)
  IN /\ Ready("add") /\ PoolPair \in DOMAIN pool
     /\ \E a \in Amount, b \in 1..wallet[ETH][u] :
          /\ a <= wallet[PoolToken][u] /\ Fits(<<a, b>>)
          /\ Ask([kind |-> "add", in |-> PoolToken, amount |-> <<a, b>>])
removeLiq(u) ==
  /\ Ready("remove") /\ PoolPair \in DOMAIN pool
  /\ \E percent \in Percent :
       LET r == pool[PoolPair]
           liquidity == Share(r, u, percent)
       IN /\ liquidity > 0
          /\ Ask([kind |-> "remove", in |-> PoolPair, amount |-> liquidity,
                  expected |-> [t \in PoolPair |-> (r.reserve[t] * liquidity) \div r.totalSupply]])

(* The approval is unlimited, and waited for.                              *)
approve ==
  /\ task.at = "asked" /\ task.kind # "private"
  /\ task.in # ETH /\ task.in \notin approved
  /\ approved' = approved \cup {task.in}
  /\ UNCHANGED <<vars, task, tasks>>
Allowed == task.kind = "private" \/ task.in = ETH \/ task.in \in approved

(* The least amount is fixed and the call is sent.                         *)
send(u) ==
  /\ task.at = "asked" /\ Allowed
  /\ \E floor \in
       CASE task.kind \in {"page", "panel"} -> FloorOf(task, u)
         [] task.kind = "agent" -> {Less(task.expected, SLIP)}
         [] task.kind = "private" -> {(task.expected * (BPS - SHIELD_SLIP)) \div BPS}
         [] task.kind = "add" -> {<<(task.amount[1] * (BPS - SLIP)) \div BPS, (task.amount[2] * (BPS - SLIP)) \div BPS>>}
         [] task.kind = "remove" -> {[t \in PoolPair |-> (task.expected[t] * (BPS - SLIP)) \div BPS]} :
       task' = [task EXCEPT !.at = "sent", !.floor = floor]
  /\ UNCHANGED <<vars, approved, tasks>>

(* The receipt is waited for; whether the call was reverted is not looked  *)
(* at.                                                                     *)
mine(u) ==
  /\ task.at = "sent"
  /\ \/ \E s \in CallSent(task, u) :
          /\ wallet' = s.wallet /\ pool' = s.pool
          /\ task' = [task EXCEPT !.at = "done", !.mined = TRUE]
     \/ /\ CallSent(task, u) = {}
        /\ task' = [task EXCEPT !.at = "done"]
        /\ UNCHANGED <<wallet, pool>>
  /\ UNCHANGED <<feeTo, stockRoute, calls, approved, tasks>>

(* Somebody's call.                                                        *)
Others ==
  /\ task.at = "idle" \/ calls < MaxAround
  /\ Next
  /\ task' = IF task.at \in {"asked", "sent"} THEN [task EXCEPT !.moved = TRUE] ELSE task
  /\ UNCHANGED <<approved, tasks>>

TradesNext ==
  \/ Others \/ approve \/ doTrade
  \/ \E u \in User :
       \/ doSwap(u) \/ executePublicSwap(u) \/ executeSwap(u)
       \/ addLiq(u) \/ removeLiq(u) \/ send(u) \/ mine(u)

TradesSpec == TradesInit /\ [][TradesNext]_tradeVars

-----------------------------------------------------------------------------
(* What holds of the calls in every state, looked at between the flows: a  *)
(* flow moves the pairs by such calls only.                                *)
QuotesExecuteBetween == task.at = "idle" => QuotesExecute
CallsSettleBetween == task.at = "idle" => CallsSettle

(* A trade that nothing crossed is not refused by its own least amount:    *)
(* when nobody traded since it was quoted, it is mined. So the quotes are  *)
(* what the contracts pay, fees and ways included, on every way through    *)
(* pairs; what leaves out the protocol's fee or the pairs' must be within  *)
(* the slippage. Not so for tokens that tax transfers, for the spokes of   *)
(* the token list, for a deposit too small for a share, and for            *)
(* withdrawals while the protocol's fee is on.                             *)
Foreseen(t) ==
  LET OnPairs(spoke, token) == isHub(token) \/ (spoke.kind \in {"v2", "via"} /\ token \notin DOMAIN Preset)
      Untaxed == {t.in, t.out} \intersect Taxed = {}
  IN CASE t.kind \in {"page", "panel", "agent"} ->
            t.expected > 0 /\ Untaxed /\ OnPairs(t.spokeIn, t.in) /\ OnPairs(t.spokeOut, t.out)
       [] t.kind = "private" -> t.expected > 0 /\ Untaxed /\ \A a \in {t.in, t.out} : Way(a) \in {"weth", "v2", "via"}
       [] t.kind = "add" ->
            LET r == pool[PoolPair]
            IN /\ t.amount[1] * r.totalSupply >= r.reserve[PoolToken]
               /\ t.amount[2] * r.totalSupply >= r.reserve[WETH] /\ r.totalSupply > 0
       [] t.kind = "remove" -> feeTo = Zero /\ \A a \in PoolPair : t.expected[a] > 0
SettlesUnlessMoved == task.at = "done" /\ ~task.moved /\ Foreseen(task) => task.mined

(* The token list's own way to trade SWOOD works.                          *)
ListedTokensTrade ==
  task.at = "done" /\ ~task.moved /\ task.kind = "page" /\ task.expected > 0
    /\ {task.in, task.out} \intersect DOMAIN Preset # {} => task.mined

(* Who trades on the Swap page receives what it shows as the least.        *)
MinimumReceived ==
  [][\A u \in User :
       task.at = "sent" /\ task.kind = "page" /\ task'.at = "done" /\ task'.mined /\ task.out \notin Taxed
         => wallet'[task.out][u] - wallet[task.out][u] >= minOut(task)]_tradeVars

(* What the flows report as done was done.                                 *)
DoneWhenReported == task.at = "done" => task.mined
=============================================================================
