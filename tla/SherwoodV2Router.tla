--------------------------- MODULE SherwoodV2Router ---------------------------
(***************************************************************************)
(* The AMM's router (src/amm/SherwoodV2Router.sol): liquidity and swaps    *)
(* along a path of tokens, with native ETH at either end, for tokens that  *)
(* tax transfers too. Every call is made for the account that pays and     *)
(* receives, u. Deadlines and permits are left out: a late or unsigned     *)
(* call reverts, as any other may.                                         *)
(*                                                                         *)
(* Operators Name_Fault are faults that the README lists.                  *)
(***************************************************************************)
EXTENDS SherwoodV2Pair

CONSTANTS Router, WETH, ETH, WETH9    \* WETH9: the contract that issues WETH

ASSUME RouterAssumption ==
  /\ {Router, WETH9} \subseteq Account /\ WETH \in Token \ Taxed
  /\ Asset = Token \cup {ETH} /\ ETH \notin Token

(* It exchanges ETH and WETH one for one; what it may issue it holds.      *)
Wrap(h, amount) == <<<<ETH, h, WETH9, amount>>, <<WETH, WETH9, h, amount>>>>
Unwrap(h, amount) == <<<<WETH, h, WETH9, amount>>, <<ETH, WETH9, h, amount>>>>

ReserveOf(s, a, b) == IF {a, b} \in DOMAIN s.pool THEN s.pool[{a, b}].reserve[a] ELSE 0
Reserves(s, path) == [ab \in Range(path) \X Range(path) |-> ReserveOf(s, ab[1], ab[2])]

-----------------------------------------------------------------------------
(* The amounts to add, <<of a, of b>>: both as desired in an empty pair,   *)
(* or one as desired and the other in proportion.                          *)
OptimalA(s, a, b, desired) == quote(desired[2], ReserveOf(s, b, a), ReserveOf(s, a, b))
OptimalB(s, a, b, desired) == quote(desired[1], ReserveOf(s, a, b), ReserveOf(s, b, a))
Amounts(s, a, b, desired) ==
  IF ReserveOf(s, a, b) = 0 /\ ReserveOf(s, b, a) = 0 THEN desired
  ELSE IF OptimalB(s, a, b, desired) <= desired[2] THEN <<desired[1], OptimalB(s, a, b, desired)>>
  ELSE <<OptimalA(s, a, b, desired), desired[2]>>

(* _addLiquidity, then the call's transfers and mint; nothing when the     *)
(* amounts are below the minima.                                           *)
Added(s, u, a, b, desired, min, legs) ==
  LET amounts == Amounts(s, a, b, desired)
      there == IF {a, b} \in DOMAIN s.pool THEN {s} ELSE createPair(s, {a, b})
  IN IF amounts[1] >= min[1] /\ amounts[2] >= min[2]
     THEN Then(Then(there, LAMBDA x : Transfers(x, legs)), LAMBDA x : mint(x, {a, b}, u))
     ELSE {}

addLiquidity(s, u, a, b, desired, min) ==
  LET amounts == Amounts(s, a, b, desired)
  IN Added(s, u, a, b, desired, min, <<<<a, u, {a, b}, amounts[1]>>, <<b, u, {a, b}, amounts[2]>>>>)

(* desired[2] is the ETH sent with the call; what is not used comes back.  *)
DustRefund(u, value, used) == IF value > used THEN <<<<ETH, Router, u, value - used>>>> ELSE <<>>
addLiquidityETH(s, u, token, desired, min) ==
  LET p == {token, WETH}
      amounts == Amounts(s, token, WETH, desired)
      legs == <<<<ETH, u, Router, desired[2]>>, <<token, u, p, amounts[1]>>>>
                \o Wrap(Router, amounts[2]) \o <<<<WETH, Router, p, amounts[2]>>>>
  IN Then(Added(s, u, token, WETH, desired, min, legs),
          LAMBDA x : Transfers(x, DustRefund(u, desired[2], amounts[2])))

(* The amounts are those the pair sends, as before: x is the state after.  *)
Sent(s, x, p) == [t \in p |-> s.wallet[t][p] - x.wallet[t][p]]
Burnt(s, u, p, liquidity, min, to) ==
  IF p \in DOMAIN s.pool
  THEN {x \in Then(TransferShares(s, p, u, p, liquidity), LAMBDA y : burn(y, p, to)) :
          \A t \in p : Sent(s, x, p)[t] >= min[t]}
  ELSE {}
removeLiquidity(s, u, p, liquidity, min) == Burnt(s, u, p, liquidity, min, u)

(* The variant for taxed tokens passes on what has arrived.                *)
removeLiquidityETH(s, u, token, liquidity, min, taxed) ==
  LET p == {token, WETH}
      Forward(x) ==
        LET amount == IF taxed THEN x.wallet[token][Router] ELSE Sent(s, x, p)[token]
            ether == Sent(s, x, p)[WETH]
        IN Transfers(x, <<<<token, Router, u, amount>>>> \o Unwrap(Router, ether)
                          \o <<<<ETH, Router, u, ether>>>>)
  IN Then(Burnt(s, u, p, liquidity, min, Router), Forward)

-----------------------------------------------------------------------------
(* Swaps. ether: whether ETH goes in, comes out, or neither.               *)
PathOK(s, path, ether) ==
  /\ \A i \in 1..(Len(path) - 1) : {path[i], path[i + 1]} \in DOMAIN s.pool
  /\ ether = "in" => path[1] = WETH
  /\ ether = "out" => Last(path) = WETH

(* Value is the ETH sent with the call.                                    *)
Enter(u, path, amount, value, ether) ==
  IF ether = "in"
  THEN <<<<ETH, u, Router, value>>>> \o Wrap(Router, amount)
         \o <<<<WETH, Router, {path[1], path[2]}, amount>>>>
  ELSE <<<<path[1], u, {path[1], path[2]}, amount>>>>
Leave(u, amount, ether) ==
  IF ether = "out" THEN Unwrap(Router, amount) \o <<<<ETH, Router, u, amount>>>> ELSE <<>>

(* Each pair pays its output to the next; the last one to the receiver.    *)
Hop(s, path, i, out, receiver) ==
  LET p == {path[i], path[i + 1]}
      to == IF i + 1 < Len(path) THEN {path[i + 1], path[i + 2]} ELSE receiver
  IN swap(s, p, [t \in p |-> IF t = path[i + 1] THEN out ELSE 0], to, [t \in p |-> 0])
_swap(s, amounts, path, receiver) ==
  InTurn(s, Len(path) - 1, LAMBDA x, i : Hop(x, path, i, amounts[i + 1], receiver))
_swapTaxed(s, path, receiver) ==
  LET Out(x, i) == getAmountOut(x.wallet[path[i]][{path[i], path[i + 1]}] - ReserveOf(x, path[i], path[i + 1]),
                                ReserveOf(x, path[i], path[i + 1]), ReserveOf(x, path[i + 1], path[i]))
      Paid(x, i) == IF Out(x, i) > 0 THEN Hop(x, path, i, Out(x, i), receiver) ELSE {}
  IN InTurn(s, Len(path) - 1, Paid)

Receiver(u, ether) == IF ether = "out" THEN Router ELSE u
Exchange(s, u, path, amounts, value, ether) ==
  Then(Then(Then(Transfers(s, Enter(u, path, amounts[1], value, ether)),
                 LAMBDA x : _swap(x, amounts, path, Receiver(u, ether))),
            LAMBDA x : Transfers(x, Leave(u, Last(amounts), ether))),
       LAMBDA x : Transfers(x, IF ether = "in" THEN DustRefund(u, value, amounts[1]) ELSE <<>>))

(* swapExactTokensForTokens, swapExactETHForTokens, swapExactTokensForETH. *)
swapExactIn(s, u, path, amountIn, amountOutMin, ether) ==
  LET amounts == getAmountsOut(Reserves(s, path), amountIn, path)
  IN IF PathOK(s, path, ether) /\ Last(amounts) >= amountOutMin
     THEN Exchange(s, u, path, amounts, amountIn, ether) ELSE {}

(* swapTokensForExactTokens, swapTokensForExactETH, swapETHForExactTokens: *)
(* there amountInMax is the ETH sent.                                      *)
swapExactOut(s, u, path, amountOut, amountInMax, ether) ==
  LET amounts == getAmountsIn(Reserves(s, path), amountOut, path)
  IN IF PathOK(s, path, ether) /\ amounts[1] <= amountInMax
     THEN Exchange(s, u, path, amounts, amountInMax, ether) ELSE {}

(* The three ...SupportingFeeOnTransferTokens: the minimum is on what the  *)
(* receiver's balance gained, or on all of the router's WETH.              *)
swapExactInTaxed(s, u, path, amountIn, amountOutMin, ether) ==
  LET Before == IF ether = "out" THEN 0 ELSE s.wallet[Last(path)][u]
      Out(x) == x.wallet[Last(path)][Receiver(u, ether)]
      Swapped == {x \in Then(Transfers(s, Enter(u, path, amountIn, amountIn, ether)),
                             LAMBDA y : _swapTaxed(y, path, Receiver(u, ether))) :
                    Out(x) - Before >= amountOutMin}
  IN IF PathOK(s, path, ether) THEN Then(Swapped, LAMBDA x : Transfers(x, Leave(u, Out(x), ether))) ELSE {}
=============================================================================
