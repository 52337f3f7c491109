---------------------------------- MODULE Amm ----------------------------------
(***************************************************************************)
(* The AMM as a whole: users, liquidity providers and the contracts that   *)
(* trade for others call the pairs, directly or through the router, one    *)
(* transaction after another. The inputs of a call come from small sets.   *)
(***************************************************************************)
EXTENDS SwapContracts

CONSTANTS
  Amount, Minimum,     \* amounts of a call, minima it asks for
  Desired,             \* pairs of amounts to add as liquidity
  Provided,            \* Provided: <<a, b>>, the pairs liquidity is added to
  Path,                \* the router's paths, with ETH in, out or at neither end
  Deal,                \* AggRouter's trades, [in, out, spokeIn, spokeOut]
  Stock,               \* tokens setStockRoute is called for
  FeeAccount,          \* what feeTo may be set to, Zero included
  Seedings, Founder,   \* liquidity that is there from the start, and whose it is
  MaxCalls             \* bound on the calls

ASSUME AmmAssumption ==
  /\ Amount \subseteq Nat /\ Minimum \subseteq Nat
  /\ FeeAccount \subseteq Account /\ Founder \in Account /\ MaxCalls \in Nat
  /\ Provided \subseteq Token \X Token
  /\ \A way \in Path : way.path \in Seq(Token) /\ Len(way.path) >= 2
  /\ \A d \in Deal : {d.in, d.out} \subseteq Asset /\ IsSpoke(d.spokeIn) /\ IsSpoke(d.spokeOut)
  /\ \A seeding \in Seedings : seeding \in Seq(Token \X Token \X Nat \X Nat)

VARIABLE calls

vars == <<wallet, pool, feeTo, stockRoute, calls>>

(* A seeding is a sequence of addLiquidity's, as <<a, b, of a, of b>>.     *)
Seeded(s, seeding) ==
  LET Add(x, i) ==
        LET l == seeding[i] IN addLiquidity(x, Founder, l[1], l[2], <<l[3], l[4]>>, <<0, 0>>)
  IN InTurn(s, Len(seeding), Add)
AmmInit ==
  /\ feeTo \in FeeAccount
  /\ \E seeding \in Seedings :
       \E s \in Seeded([wallet |-> [a \in Asset |-> [h \in Holder |-> IF h \in Account THEN Supply[a][h] ELSE 0]],
                        pool |-> <<>>], seeding) :
         wallet = s.wallet /\ pool = s.pool
  /\ stockRoute = Stock /\ calls = 0

(* The call succeeds, with one of its outcomes.                            *)
Call(S) ==
  /\ calls < MaxCalls /\ calls' = calls + 1
  /\ \E s \in S : wallet' = s.wallet /\ pool' = s.pool
  /\ UNCHANGED <<feeTo, stockRoute>>

One(p, t, amount) == [x \in p |-> IF x = t THEN amount ELSE 0]

DirectCall ==
  \E p \in DOMAIN pool, u \in User :
    \/ \E t \in p, amount \in Amount : Call(Transfer(state, t, u, p, amount))
    \/ \E amount \in Amount : Call(TransferShares(state, p, u, p, amount))
    \/ Call(mint(state, p, u)) \/ Call(burn(state, p, u))
    \/ Call(skim(state, p, u)) \/ Call(_update(state, p))
    \/ \E t, back \in p, out, paid \in Amount :
         Call(swap(state, p, One(p, t, out), u, One(p, back, paid)))

LiquidityCall ==
  \E u \in User, ab \in Provided, m \in Minimum :
    LET a == ab[1]  b == ab[2]
    IN \/ \E d \in Desired :
            \/ Call(addLiquidity(state, u, a, b, d, <<m, m>>))
            \/ b = WETH /\ Call(addLiquidityETH(state, u, a, d, <<m, m>>))
       \/ \E x \in Amount :
            \/ Call(removeLiquidity(state, u, {a, b}, x, [t \in {a, b} |-> m]))
            \/ \E taxed \in BOOLEAN :
                 b = WETH /\ Call(removeLiquidityETH(state, u, a, x, [t \in {a, b} |-> m], taxed))

SwapCall ==
  \E u \in User, way \in Path, x \in Amount, m \in Minimum :
    \/ Call(swapExactIn(state, u, way.path, x, m, way.ether))
    \/ Call(swapExactOut(state, u, way.path, m, x, way.ether))
    \/ Call(swapExactInTaxed(state, u, way.path, x, m, way.ether))

AggregatorCall ==
  \E u \in User, d \in Deal, x \in Amount, m \in Minimum :
    \/ Call(aggSwap(state, u, d.in, d.spokeIn, d.out, d.spokeOut, x, m))
    \/ Call(publicSwap(state, u, d.in, d.out, x, m))
    \/ {d.in, d.out} \subseteq Token /\ Call(executorSwap(state, d.in, d.out, x, m))

setFeeTo(account) ==
  /\ feeTo' = account /\ account # feeTo
  /\ calls < MaxCalls /\ calls' = calls + 1
  /\ UNCHANGED <<wallet, pool, stockRoute>>
setStockRoute(token) ==
  /\ stockRoute' \in {stockRoute \cup {token}, stockRoute \ {token}}
  /\ stockRoute' # stockRoute
  /\ calls < MaxCalls /\ calls' = calls + 1
  /\ UNCHANGED <<wallet, pool, feeTo>>

Next ==
  \/ DirectCall \/ LiquidityCall \/ SwapCall \/ AggregatorCall
  \/ \E account \in FeeAccount : setFeeTo(account)
  \/ \E token \in Stock : setStockRoute(token)

Spec == AmmInit /\ [][Next]_vars

-----------------------------------------------------------------------------
(* Amounts never go below zero; a pair's shares add up to its supply.      *)
AmmTypeOK ==
  /\ wallet \in [Asset -> [Holder -> Nat]]
  /\ feeTo \in FeeAccount /\ stockRoute \subseteq Stock
  /\ DOMAIN pool \subseteq Pair
  /\ \A p \in DOMAIN pool :
       /\ pool[p].reserve \in [p -> 0..MAX_RESERVE] /\ pool[p].kLast \in Nat
       /\ MapThenSumSet(LAMBDA h : pool[p].balanceOf[h], Holder) = pool[p].totalSupply

(* No call makes a share of a pair worth less: with the shares the         *)
(* protocol is owed counted as there already, k per share squared never    *)
(* falls, through mints, burns, swaps, donations and transfer taxes. So a  *)
(* pair with shares is never drained.                                      *)
ShareValueKept ==
  [][\A p \in DOMAIN pool :
       LET shares == pool[p].totalSupply + FeeOwed(pool[p])
       IN pool[p].totalSupply > 0 =>
            /\ Product(pool'[p].reserve) > 0
            /\ Product(pool'[p].reserve) * shares * shares
                 >= Product(pool[p].reserve) * pool'[p].totalSupply * pool'[p].totalSupply]_vars

(* The protocol's fee is on what trading brought, never on liquidity that  *)
(* was added: whenever shares are minted or burnt the growth is counted    *)
(* from there, or not at all, also when the fee is switched off and on.    *)
FeeOnTradingOnly ==
  [][\A p \in DOMAIN pool :
       LET r == pool'[p]
       IN /\ r.kLast <= Product(r.reserve)
          /\ r.totalSupply # pool[p].totalSupply => r.kLast \in {0, Product(r.reserve)}]_vars

(* In every state a quote can be executed: a pair of this factory pays the *)
(* output quoted for an input, but not a unit more, and an input quoted    *)
(* for an output buys it.                                                  *)
QuotesExecute ==
  \A p \in DOMAIN pool, t \in UNION DOMAIN pool, x \in Amount :
    t \in p /\ PairFee[p] = FEE =>
      LET r == pool[p].reserve
          u == Other(p, t)
          Executes(in, out) ==
            /\ out < r[u]
            /\ KHolds(r, [One(p, t, r[t] + in) EXCEPT ![u] = r[u] - out], One(p, t, in), FEE)
          out == getAmountOut(x, r[t], r[u])
          in == getAmountIn(x, r[t], r[u])
      IN /\ out # Revert => Executes(x, out) /\ ~Executes(x, out + 1)
         /\ in # Revert => Executes(in, x)

(* The contracts that trade for others, and who they are not: they are     *)
(* accounts of their own, nothing is sent to them in advance, and no path  *)
(* and no deal ends where it begins.                                       *)
Contracts == {Router, AggRouter, PublicRouter, SwapExecutor}
RolesApart ==
  /\ (User \cup {Pool, Founder, Treasury, WETH9, Venue}) \cap Contracts = {}
  /\ (User \cup {Pool}) \cap {WETH9, Venue} = {}
  /\ \A a \in Asset, c \in Contracts : Supply[a][c] = 0
  /\ \A way \in Path : way.ether \in {"in", "out"} \/ way.path[1] # Last(way.path)
  /\ \A d \in Deal : d.in # d.out

(* A call that succeeds has kept its word, whatever happened before it:    *)
(* the caller paid exactly, or at most, what it offered, received exactly, *)
(* or at least, what it asked for, and the contract it went through kept   *)
(* nothing. Only a swap not meant for taxed tokens may deliver less, when  *)
(* its output is taxed.                                                    *)
CallsSettle ==
  \A u \in User, x \in Amount, m \in Minimum :
    LET Gain(s, h, a) == s.wallet[a][h] - wallet[a][h]
        Settles(S, h, in, out, payments, receipts) ==
          \A s \in S : /\ -Gain(s, h, in) \in payments
                       /\ Gain(s, h, out) >= receipts
                       /\ \A c \in Contracts, a \in Asset : Gain(s, c, a) = 0
        Net(out, amount) == IF out \in Taxed THEN amount - 1 ELSE amount
    IN /\ \A way \in Path :
            LET path == way.path
                in == IF way.ether = "in" THEN ETH ELSE path[1]
                out == IF way.ether = "out" THEN ETH ELSE Last(path)
            IN /\ Settles(swapExactIn(state, u, path, x, m, way.ether), u, in, out, {x}, Net(out, m))
               /\ Settles(swapExactOut(state, u, path, m, x, way.ether), u, in, out, 0..x, Net(out, m))
               /\ Settles(swapExactInTaxed(state, u, path, x, m, way.ether), u, in, out, {x}, m)
       /\ \A d \in Deal :
            /\ Settles(aggSwap(state, u, d.in, d.spokeIn, d.out, d.spokeOut, x, m),
                       u, d.in, d.out, {x}, Net(d.out, m))
            /\ Settles(publicSwap(state, u, d.in, d.out, x, m), u, d.in, d.out, {x}, Net(d.out, m))
            /\ {d.in, d.out} \subseteq Token =>
                 Settles(executorSwap(state, d.in, d.out, x, m), Pool, d.in, d.out, {x}, Net(d.out, m))
=============================================================================
