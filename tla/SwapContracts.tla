----------------------------- MODULE SwapContracts -----------------------------
(***************************************************************************)
(* The contracts that trade for others: AggRouter and PublicRouter for a   *)
(* user, SwapExecutor for the shielded pool. They go through a hub, ETH or *)
(* WETH, and pay out what a trade brought in, measured as a difference of  *)
(* their balance. Uniswap v3 and v4 are one outside account, Venue, which  *)
(* pays any amount of Outcome for what it is sent.                         *)
(*                                                                         *)
(* A leg is an operator from a state and an amount to the records          *)
(* [s |-> state, out |-> amount] it can end in.                            *)
(*                                                                         *)
(* Operators Name_Fault are faults that the README lists.                  *)
(***************************************************************************)
EXTENDS SherwoodV2Router

CONSTANTS
  AggRouter, PublicRouter, SwapExecutor, Pool, Treasury, Venue,
  VIRTUAL, SWOOD,                  \* the token of two-hop routes; the fee token
  RouteOf,                         \* RouteOf[t]: SwapExecutor's way to WETH
  LEAST_KEPT, KEPT_SWOOD,          \* 900 and 985 in the contracts
  FEE_BPS, FEE_BPS_T1, TIER1, TIER2, BPS,
  Outcome

ASSUME SwapAssumption ==
  /\ {AggRouter, PublicRouter, SwapExecutor, Pool, Treasury, Venue} \subseteq Account
  /\ {VIRTUAL, SWOOD} \subseteq Token /\ WETH # VIRTUAL
  /\ RouteOf \in [Token -> {"weth", "v4", "v3", "v2", "via", "stock"}]
  /\ \A t \in Token : RouteOf[t] = "weth" <=> t = WETH
  /\ {FEE_BPS, FEE_BPS_T1} \subseteq 0..BPS /\ TIER1 <= TIER2
  /\ Outcome \subseteq Nat

(* Of a token to ETH or WETH: [kind, fee].                                 *)
IsSpoke(spoke) == spoke.kind \in {"v2", "v3", "v4", "via"}

VARIABLE stockRoute      \* the stocks SwapExecutor has a route for

Measured(s, c, a, S) == {[s |-> x, out |-> x.wallet[a][c] - s.wallet[a][c]] : x \in S}
Chain(L, Leg(_, _)) == UNION {Leg(l.s, l.out) : l \in L}
Converted(s, out, legs) == {[s |-> x, out |-> out] : x \in Transfers(s, legs)}

-----------------------------------------------------------------------------
(* Legs of a contract c.                                                   *)
Trade(s, c, from, to, amount) ==
  Measured(s, c, to,
    UNION {Transfers(s, <<<<from, c, Venue, amount>>, <<to, Venue, c, o>>>>) : o \in Outcome})
_v3(s, c, from, to, amount) == Trade(s, c, from, to, amount)
_v4(s, c, from, to, amount) == Trade(s, c, from, to, amount)
_v4Single(s, from, to, amount) == Trade(s, SwapExecutor, from, to, amount)

_v2Fee(f) == IF f \in LEAST_KEPT..FEE_BASE THEN f ELSE FEE_BASE - FEE

_v2(s, c, from, to, amount, kept) ==
  LET p == {from, to}
      in == amount * kept
      amountOut == (in * ReserveOf(s, to, from)) \div (ReserveOf(s, from, to) * FEE_BASE + in)
  IN IF p \in DOMAIN s.pool /\ amount > 0
     THEN Measured(s, c, to,
            Then(Transfers(s, <<<<from, c, p, amount>>>>),
                 LAMBDA x : swap(x, p, [t \in p |-> IF t = to THEN amountOut ELSE 0], c, [t \in p |-> 0])))
     ELSE {}

(* Between a token and WETH; the fee named is that of the token's pair.    *)
WethLeg(s, c, from, to, amount, kind, kept) ==
  CASE kind = "v3" -> _v3(s, c, from, to, amount)
    [] kind = "v2" -> _v2(s, c, from, to, amount, kept)
    [] kind = "via" /\ to = WETH ->
         Chain(_v2(s, c, from, VIRTUAL, amount, kept),
               LAMBDA x, out : _v2(x, c, VIRTUAL, WETH, out, FEE_BASE - FEE))
    [] kind = "via" /\ from = WETH ->
         Chain(_v2(s, c, WETH, VIRTUAL, amount, FEE_BASE - FEE),
               LAMBDA x, out : _v2(x, c, VIRTUAL, to, out, kept))

-----------------------------------------------------------------------------
(* AggRouter and PublicRouter: c takes amount from u and turns it into ETH,*)
(* then into the token asked for.                                          *)
Pulled(s, c, u, a, amount) == Measured(s, c, a, Transfers(s, <<<<a, u, c, amount>>>>))
_toEth(s, c, u, token, spoke, amount) ==
  LET Swapped(x, got) ==
        IF token = WETH THEN Converted(x, amount, Unwrap(c, amount))
        ELSE IF spoke.kind = "v4" THEN _v4(x, c, token, ETH, amount)
        ELSE Chain(WethLeg(x, c, token, WETH, amount, spoke.kind, _v2Fee(spoke.fee)),
                   LAMBDA y, out : Converted(y, out, Unwrap(c, out)))
  IN IF token = ETH THEN Pulled(s, c, u, ETH, amount) ELSE Chain(Pulled(s, c, u, token, amount), Swapped)

_fromEth(s, c, token, spoke, amount) ==
  IF token = ETH THEN {[s |-> s, out |-> amount]}
  ELSE IF token = WETH THEN Converted(s, amount, Wrap(c, amount))
  ELSE IF spoke.kind = "v4" THEN _v4(s, c, ETH, token, amount)
  ELSE Chain(Converted(s, amount, Wrap(c, amount)),
             LAMBDA x, out : WethLeg(x, c, WETH, token, out, spoke.kind, _v2Fee(spoke.fee)))

_feeBps(s, u) ==
  IF s.wallet[SWOOD][u] >= TIER2 THEN 0 ELSE IF s.wallet[SWOOD][u] >= TIER1 THEN FEE_BPS_T1 ELSE FEE_BPS

Traded(s, c, u, in, out, spokeIn, spokeOut, amount) ==
  IF in = out THEN {}
  ELSE Chain(_toEth(s, c, u, in, spokeIn, amount), LAMBDA x, eth : _fromEth(x, c, out, spokeOut, eth))

(* The minimum is on what the caller receives, the protocol's fee deducted.*)
Payout_GrossChecked(x, c, u, out, gross, bps, minOut) ==
  LET fee == (gross * bps) \div BPS
  IN IF gross >= minOut
     THEN Transfers(x, <<<<out, c, Treasury, fee>>, <<out, c, u, gross - fee>>>>) ELSE {}
Payout(x, c, u, out, gross, bps, minOut) ==
  LET fee == (gross * bps) \div BPS
  IN IF gross - fee >= minOut
     THEN Transfers(x, <<<<out, c, Treasury, fee>>, <<out, c, u, gross - fee>>>>) ELSE {}

aggSwap(s, u, in, spokeIn, out, spokeOut, amount, minOut) ==
  UNION {Payout(l.s, AggRouter, u, out, l.out, _feeBps(l.s, u), minOut) :
           l \in Traded(s, AggRouter, u, in, out, spokeIn, spokeOut, amount)}
publicSwap(s, u, in, out, amount, minOut) ==
  LET v4 == [kind |-> "v4", fee |-> 0]
  IN UNION {Payout(l.s, PublicRouter, u, out, l.out, 0, minOut) :
              l \in Traded(s, PublicRouter, u, in, out, v4, v4, amount)}

-----------------------------------------------------------------------------
(* SwapExecutor: paid in advance by the pool; ways are fixed per token.    *)
Listed(token) == RouteOf[token] = "stock" => token \in stockRoute
Way(token) == IF RouteOf[token] = "stock" THEN "v4" ELSE RouteOf[token]
KeptOf(token) == IF token = SWOOD THEN KEPT_SWOOD ELSE FEE_BASE - FEE
_stockToWeth(s, stock, amount) ==
  Chain(_v4Single(s, stock, ETH, amount), LAMBDA x, out : Converted(x, out, Wrap(SwapExecutor, out)))
_wethToStock(s, stock, amount) ==
  Chain(Converted(s, amount, Unwrap(SwapExecutor, amount)), LAMBDA x, out : _v4Single(x, ETH, stock, out))

_toWeth(s, token, amount) ==
  LET c == SwapExecutor
  IN CASE Way(token) = "weth" -> {[s |-> s, out |-> amount]}
       [] Way(token) = "v4" -> _stockToWeth(s, token, amount)
       [] OTHER -> WethLeg(s, c, token, WETH, amount, Way(token), KeptOf(token))
_fromWeth(s, token, amount) ==
  LET c == SwapExecutor
  IN CASE Way(token) = "weth" -> {[s |-> s, out |-> amount]}
       [] Way(token) = "v4" -> _wethToStock(s, token, amount)
       [] OTHER -> WethLeg(s, c, WETH, token, amount, Way(token), KeptOf(token))

executorSwap(s, in, out, amount, minOut) ==
  LET funded == Transfers(s, <<<<in, Pool, SwapExecutor, amount>>>>)
      legs == UNION {Chain(_toWeth(x, in, amount), LAMBDA y, weth : _fromWeth(y, out, weth)) : x \in funded}
  IN IF Listed(in) /\ Listed(out)
     THEN UNION {Transfers(l.s, <<<<out, SwapExecutor, Pool, l.out>>>>) : l \in {k \in legs : k.out >= minOut}}
     ELSE {}

=============================================================================
