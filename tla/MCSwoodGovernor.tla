--------------------------- MODULE MCSwoodGovernor --------------------------
(* An instance of SwoodGovernor with its staking contract: two holders with *)
(* two tokens and one, a scale that does not divide the totals, and streams *)
(* that overlap. The two contracts share nothing but the stakes, so reward  *)
(* streams are explored without proposals and trades, and the other way     *)
(* round (Slices, a state constraint).                                      *)
EXTENDS SwoodGovernor, TLC

CONSTANTS ann, bob
MCSupply == ann :> 2 @@ bob :> 1

Slices ==
  \/ notices = 0
  \/ proposals = << >> /\ \A u \in User : wallet[u] + staked[u] = Supply[u]
=============================================================================
