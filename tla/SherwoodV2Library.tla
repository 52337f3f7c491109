--------------------------- MODULE SherwoodV2Library ---------------------------
(***************************************************************************)
(* The arithmetic of the AMM (src/amm/libraries): integer square root, the *)
(* ratio of a deposit and the price of a swap, over one pair and along a   *)
(* path. FEE of FEE_BASE (3 of 1000 in the contracts) of a swap's input    *)
(* stays in the pair.                                                      *)
(*                                                                         *)
(* Operators Name_Fault are faults that the README lists.                  *)
(***************************************************************************)
EXTENDS Integers, Sequences

CONSTANTS FEE, FEE_BASE

ASSUME FeeAssumption == FEE_BASE \in Nat \ {0} /\ FEE \in 0..(FEE_BASE - 1)

(* The result of a call that reverts: below every amount a caller asks for.*)
Revert == -1

(* The Babylonian method, from above: the first step is to y \div 2 + 1.   *)
sqrt(y) ==
  LET descend[z \in Nat \ {0}] ==
        LET x == (y \div z + z) \div 2 IN IF x < z THEN descend[x] ELSE z
  IN IF y > 3 THEN descend[y \div 2 + 1] ELSE IF y # 0 THEN 1 ELSE 0

quote(amountA, reserveA, reserveB) ==
  IF amountA > 0 /\ reserveA > 0 /\ reserveB > 0
  THEN (amountA * reserveB) \div reserveA ELSE Revert

getAmountOut(amountIn, reserveIn, reserveOut) ==
  LET amountInWithFee == amountIn * (FEE_BASE - FEE)
  IN IF amountIn > 0 /\ reserveIn > 0 /\ reserveOut > 0
     THEN (amountInWithFee * reserveOut) \div (reserveIn * FEE_BASE + amountInWithFee)
     ELSE Revert

getAmountIn_RoundedDown(amountOut, reserveIn, reserveOut) ==
  IF amountOut > 0 /\ reserveIn > 0 /\ amountOut < reserveOut
  THEN (reserveIn * amountOut * FEE_BASE) \div ((reserveOut - amountOut) * (FEE_BASE - FEE))
  ELSE Revert
getAmountIn(amountOut, reserveIn, reserveOut) ==
  IF amountOut > 0 /\ reserveIn > 0 /\ amountOut < reserveOut
  THEN (reserveIn * amountOut * FEE_BASE) \div ((reserveOut - amountOut) * (FEE_BASE - FEE)) + 1
  ELSE Revert

(* Along a path of tokens; reserve[<<a, b>>] is what the pair of a and b   *)
(* holds of a. A hop that reverts makes every later one revert.            *)
getAmountsOut(reserve, amountIn, path) ==
  LET amounts[i \in 1..Len(path)] ==
        IF i = 1 THEN amountIn
        ELSE getAmountOut(amounts[i - 1], reserve[<<path[i - 1], path[i]>>], reserve[<<path[i], path[i - 1]>>])
  IN amounts

getAmountsIn(reserve, amountOut, path) ==
  LET amounts[i \in 1..Len(path)] ==
        IF i = Len(path) THEN amountOut
        ELSE getAmountIn(amounts[i + 1], reserve[<<path[i], path[i + 1]>>], reserve[<<path[i + 1], path[i]>>])
  IN amounts
=============================================================================
