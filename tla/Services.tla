------------------------------ MODULE Services ------------------------------
(***************************************************************************)
(* The programs around the pool that share nothing with one another: the   *)
(* relayer, the application's exits through throwaway addresses, its form  *)
(* for swaps across chains, its chat, its market data; the agent's         *)
(* provider and client loops and its planner; the market data proxy and    *)
(* the points service. A behaviour is about one of them, its `part`; the   *)
(* others rest. (To interleave processes that share no state would show    *)
(* nothing more.) The sheet and the feed of MarketData meet in the price   *)
(* and the pool that the feed had for a token, which Opens, Reference and  *)
(* KnownPool leave open.                                                   *)
(***************************************************************************)
EXTENDS Relayer, BridgeOut, AcpProvider, GtProxy, Points, PrivateRoute, Woodie, MarketData, Basket, Hire

CONSTANT Part
ASSUME ServicesAssumption ==
  Part \subseteq {"relayer", "bridge", "agent", "proxy", "points", "route", "chat", "sheet", "feed", "basket", "hire"}

VARIABLE part

serverVars == <<relayerVars, acpVars, gtVars, pointsVars>>
webVars == <<bridgeVars, routeVars, chatVars, marketVars>>
servicesVars == <<part, serverVars, webVars, basketVars, hireVars>>

(* A part that rests is in one of its initial states.                      *)
First(set) == CHOOSE x \in set : TRUE
Resting ==
  /\ part # "route" => form.from = Home /\ form.to = First(Token \ {Home})
  /\ part # "bridge" => wanted = First(Wants)
  /\ part # "chat" => scenario = First(Scenario)
  /\ part # "basket" => budget = First(Budget)
  /\ part # "hire" => AUTO_APPROVE

ServicesInit ==
  /\ part \in Part
  /\ RelayerInit /\ BridgeOutInit /\ AcpInit /\ GtInit /\ PointsInit
  /\ PrivateRouteInit /\ WoodieInit /\ MarketDataInit /\ BasketInit /\ HireInit
  /\ Resting

Servers ==
  \/ part = "relayer" /\ RelayerNext /\ UNCHANGED <<acpVars, gtVars, pointsVars>>
  \/ part = "agent" /\ AcpNext /\ UNCHANGED <<relayerVars, gtVars, pointsVars>>
  \/ part = "proxy" /\ GtNext /\ UNCHANGED <<relayerVars, acpVars, pointsVars>>
  \/ part = "points" /\ PointsNext /\ UNCHANGED <<relayerVars, acpVars, gtVars>>
Web ==
  \/ part = "bridge" /\ BridgeOutNext /\ UNCHANGED <<routeVars, chatVars, marketVars>>
  \/ part = "route" /\ PrivateRouteNext /\ UNCHANGED <<bridgeVars, chatVars, marketVars>>
  \/ part = "chat" /\ WoodieNext /\ UNCHANGED <<bridgeVars, routeVars, marketVars>>
  \/ part = "sheet" /\ SheetNext /\ UNCHANGED <<bridgeVars, routeVars, chatVars>>
  \/ part = "feed" /\ FeedNext /\ UNCHANGED <<bridgeVars, routeVars, chatVars>>
Agents ==
  \/ part = "basket" /\ BasketNext /\ UNCHANGED hireVars
  \/ part = "hire" /\ HireNext /\ UNCHANGED basketVars

ServicesNext ==
  /\ UNCHANGED part
  /\ \/ Servers /\ UNCHANGED <<webVars, basketVars, hireVars>>
     \/ Web /\ UNCHANGED <<serverVars, basketVars, hireVars>>
     \/ Agents /\ UNCHANGED <<serverVars, webVars>>

ServicesSpec == ServicesInit /\ [][ServicesNext]_servicesVars
=============================================================================
