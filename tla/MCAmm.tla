--------------------------------- MODULE MCAmm ---------------------------------
(***************************************************************************)
(* The AMM and the trades of the app on four tokens, one taxed, with one   *)
(* user. A fee of a tenth and a minimum liquidity of one make rounding and *)
(* fees matter at amounts TLC can enumerate. MCListedToken.cfg has the     *)
(* Swap page's trades only.                                                *)
(***************************************************************************)
EXTENDS PublicTrades

CONSTANTS trader, founder, taxed

MCToken == {WETH, VIRTUAL, SWOOD, taxed}
MCAsset == MCToken \cup {ETH}
MCAccount == {trader, founder, Zero, Router, WETH9, AggRouter, PublicRouter, SwapExecutor, Pool, Treasury, Venue}
MCSupply ==
  [a \in MCAsset |-> [h \in MCAccount |->
     CASE h \in {founder, WETH9, Venue} -> 40 [] h = trader -> 5 [] h = Pool -> 4 [] OTHER -> 0]]
MCRoute == [t \in MCToken |->
  CASE t = WETH -> "weth" [] t = VIRTUAL -> "v2" [] t = SWOOD -> "via" [] t = taxed -> "stock"]
MCPairFee == [p \in kSubset(2, MCToken) |-> IF p = {VIRTUAL, SWOOD} THEN FEE_BASE - KEPT_SWOOD ELSE FEE]
MCDesired == {<<2, 5>>, <<5, 3>>}
MCProvided == {<<taxed, WETH>>, <<SWOOD, VIRTUAL>>, <<SWOOD, WETH>>}
MCPath ==
  {[path |-> <<WETH, taxed>>, ether |-> "none"], [path |-> <<taxed, WETH>>, ether |-> "out"],
   [path |-> <<SWOOD, VIRTUAL, WETH>>, ether |-> "out"], [path |-> <<WETH, VIRTUAL>>, ether |-> "in"]}
Spoke(kind, fee) == [kind |-> kind, fee |-> fee]
MCDeal ==
  {[in |-> i[1], spokeIn |-> i[2], out |-> o[1], spokeOut |-> o[2]] :
     <<i, o>> \in {<<<<ETH, Spoke("v4", 0)>>, <<SWOOD, Spoke("via", 8)>>>>,
                  <<<<taxed, Spoke("v2", 8)>>, <<WETH, Spoke("v4", 0)>>>>,
                  <<<<WETH, Spoke("v4", 0)>>, <<VIRTUAL, Spoke("v2", 12)>>>>,
                  <<<<VIRTUAL, Spoke("v3", 0)>>, <<ETH, Spoke("v4", 0)>>>>}}
MCSeedings == {<<>>, <<<<WETH, taxed, 6, 9>>>>, <<<<WETH, SWOOD, 7, 8>>>>,
               <<<<WETH, VIRTUAL, 8, 6>>, <<VIRTUAL, SWOOD, 5, 9>>>>}
MCRoutes == [a \in MCAsset |->
  CASE a = SWOOD -> {Spoke("via", 8), Spoke("v2", 0), Spoke("v4", 0)}
    [] a = VIRTUAL -> {Spoke("v2", 0), Spoke("v3", 0)}
    [] a = taxed -> {Spoke("v2", 0)}
    [] OTHER -> {}]
MCPreset == [t \in {SWOOD} |-> Spoke("via", 0)]
MCWanted == {<<ETH, SWOOD>>, <<SWOOD, WETH>>, <<VIRTUAL, SWOOD>>, <<taxed, ETH>>}

(* The instance is one that the theorem on calls is about.                 *)
ASSUME RolesOfInstance == RolesApart
=============================================================================
