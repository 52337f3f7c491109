---------------------------- MODULE SherwoodV2Pair ----------------------------
(***************************************************************************)
(* The factory, its pairs and their shares (src/amm/SherwoodV2Factory,     *)
(* SherwoodV2Pair and SherwoodV2ERC20). A pair is the set of its two       *)
(* tokens, so that the order of tokens and getPair's two entries are one.  *)
(*                                                                         *)
(* A call is an operator from a state to the set of states it can end in:  *)
(* the empty set when it reverts. Then runs one call after another, as     *)
(* one transaction does.                                                   *)
(*                                                                         *)
(* Left out: the price accumulators and their timestamp, which nothing in  *)
(* the repository reads, and allowances.                                   *)
(*                                                                         *)
(* Operators Name_Fault are faults that the README lists.                  *)
(***************************************************************************)
EXTENDS SherwoodV2Library, FiniteSetsExt, SequencesExt

CONSTANTS
  Token, Asset,          \* Asset: Token and native ETH
  Taxed,                 \* tokens that burn a unit of every transfer
  Account, User, Zero,   \* Zero: address(0)
  Supply,                \* Supply[a][u]: what account u starts with of asset a
  MINIMUM_LIQUIDITY,     \* 1000 in the contract
  PairFee,               \* what a pair keeps: FEE, more for some pairs of other factories
  MAX_RESERVE            \* type(uint112).max in the contract

ASSUME PairAssumption ==
  /\ Token \subseteq Asset /\ Taxed \subseteq Token
  /\ User \subseteq Account \ {Zero} /\ Zero \in Account
  /\ IsFiniteSet(Token) /\ IsFiniteSet(Account) /\ \A p \in kSubset(2, Token) : p \notin Account
  /\ Supply \in [Asset -> [Account -> Nat]]
  /\ MINIMUM_LIQUIDITY \in Nat \ {0} /\ MAX_RESERVE \in Nat

ASSUME PairFeeAssumption == PairFee \in [kSubset(2, Token) -> FEE..(FEE_BASE - 1)]

VARIABLES
  wallet,     \* wallet[a][h]: what h holds of asset a
  pool,       \* the pairs created so far
  feeTo       \* the protocol's account, Zero when its fee is off

Pair == kSubset(2, Token)
Holder == Account \cup Pair
Other(p, t) == CHOOSE u \in p : u # t

state == [wallet |-> wallet, pool |-> pool]
Then(S, Call(_)) == UNION {Call(s) : s \in S}

(* Steps 1 to n from s, each from every state that the one before it can   *)
(* end in.                                                                 *)
InTurn(s, n, Step(_, _)) ==
  LET after[i \in 0..n] == IF i = 0 THEN {s} ELSE UNION {Step(x, i) : x \in after[i - 1]}
  IN after[n]

Init ==
  /\ wallet = [a \in Asset |-> [h \in Holder |-> IF h \in Account THEN Supply[a][h] ELSE 0]]
  /\ pool = <<>> /\ feeTo = Zero

-----------------------------------------------------------------------------
(* Tokens: a transfer reverts when the sender has too little.              *)
Received(a, amount) == IF a \in Taxed /\ amount > 0 THEN amount - 1 ELSE amount
Transfer(s, a, from, to, amount) ==
  LET taken == [s EXCEPT !.wallet[a][from] = @ - amount]
  IN IF amount \in 0..s.wallet[a][from]
     THEN {[taken EXCEPT !.wallet[a][to] = @ + Received(a, amount)]} ELSE {}

(* Transfers in order; a leg is <<asset, from, to, amount>>.               *)
Transfers(s, legs) ==
  InTurn(s, Len(legs), LAMBDA x, i : Transfer(x, legs[i][1], legs[i][2], legs[i][3], legs[i][4]))
BothTokens(p, from, to, amount) ==
  LET t == CHOOSE u \in p : TRUE
  IN <<<<t, from, to, amount[t]>>, <<Other(p, t), from, to, amount[Other(p, t)]>>>>

-----------------------------------------------------------------------------
(* The factory.                                                            *)
NewPair(p) ==
  [reserve |-> [t \in p |-> 0], kLast |-> 0,
   totalSupply |-> 0, balanceOf |-> [h \in Holder |-> 0]]
createPair(s, p) ==
  IF p \in Pair \ DOMAIN s.pool
  THEN {[s EXCEPT !.pool = [q \in DOMAIN @ \cup {p} |-> IF q = p THEN NewPair(p) ELSE @[q]]]}
  ELSE {}

-----------------------------------------------------------------------------
(* Parts of a pair's operations; r is the record of a pair.                *)
Product(f) == LET t == CHOOSE u \in DOMAIN f : TRUE IN f[t] * f[Other(DOMAIN f, t)]

_mint_SupplyKept(r, to, value) == [r EXCEPT !.balanceOf[to] = @ + value]
_mint(r, to, value) == [r EXCEPT !.totalSupply = @ + value, !.balanceOf[to] = @ + value]

(* Shares that bring the protocol a sixth of the growth of the root of k.  *)
FeeOwed(r) ==
  LET rootK == sqrt(Product(r.reserve))
      rootKLast == sqrt(r.kLast)
  IN IF feeTo # Zero /\ r.kLast # 0 /\ rootK > rootKLast
     THEN (r.totalSupply * (rootK - rootKLast)) \div (rootK * 5 + rootKLast) ELSE 0
_mintFee_KLastKept(r) == IF feeTo = Zero THEN r ELSE _mint(r, feeTo, FeeOwed(r))
_mintFee(r) ==
  IF feeTo = Zero THEN [r EXCEPT !.kLast = 0] ELSE _mint(r, feeTo, FeeOwed(r))

Balances(s, p) == [t \in p |-> s.wallet[t][p]]
_update(s, p) ==
  IF \A t \in p : s.wallet[t][p] <= MAX_RESERVE
  THEN {[s EXCEPT !.pool[p].reserve = Balances(s, p)]} ELSE {}
SetKLast(s, p) ==
  IF feeTo = Zero THEN {s} ELSE {[s EXCEPT !.pool[p].kLast = Product(s.pool[p].reserve)]}

-----------------------------------------------------------------------------
(* The pair's operations.                                                  *)
Liquidity_Larger(r, amount) ==
  IF r.totalSupply = 0 THEN sqrt(Product(amount)) - MINIMUM_LIQUIDITY
  ELSE Max({(amount[t] * r.totalSupply) \div r.reserve[t] : t \in DOMAIN amount})
Liquidity(r, amount) ==
  IF r.totalSupply = 0 THEN sqrt(Product(amount)) - MINIMUM_LIQUIDITY
  ELSE Min({(amount[t] * r.totalSupply) \div r.reserve[t] : t \in DOMAIN amount})

mint(s, p, to) ==
  LET amount == [t \in p |-> s.wallet[t][p] - s.pool[p].reserve[t]]
      r == _mintFee(s.pool[p])
      minimum == IF r.totalSupply = 0 THEN MINIMUM_LIQUIDITY ELSE 0
      minted == _mint(_mint(r, Zero, minimum), to, Liquidity(r, amount))
  IN IF (\A t \in p : amount[t] >= 0) /\ Liquidity(r, amount) > 0
     THEN Then(_update([s EXCEPT !.pool[p] = minted], p), LAMBDA x : SetKLast(x, p)) ELSE {}

(* Shares of what the pair holds, unaccounted tokens included.             *)
Redeemed(r, liquidity, balances) ==
  [t \in DOMAIN balances |-> (liquidity * balances[t]) \div r.totalSupply]

burn(s, p, to) ==
  LET liquidity == s.pool[p].balanceOf[p]
      r == _mintFee(s.pool[p])
      amount == Redeemed(r, liquidity, Balances(s, p))
      burnt == [r EXCEPT !.balanceOf[p] = @ - liquidity, !.totalSupply = @ - liquidity]
  IN IF r.totalSupply > 0 /\ \A t \in p : amount[t] > 0
     THEN Then(Then(Transfers([s EXCEPT !.pool[p] = burnt], BothTokens(p, p, to, amount)),
                    LAMBDA x : _update(x, p)),
               LAMBDA x : SetKLast(x, p))
     ELSE {}

(* The product of the balances, less the fee on what came in, may not fall.*)
KHolds(reserve, balance, in, fee) ==
  Product([t \in DOMAIN reserve |-> balance[t] * FEE_BASE - in[t] * fee])
    >= Product(reserve) * FEE_BASE * FEE_BASE

(* paid is what the recipient pays back inside sherwoodV2Call.             *)
swap(s, p, out, to, paid) ==
  LET reserve == s.pool[p].reserve
      In(x) == [t \in p |-> Max({0, x.wallet[t][p] - (reserve[t] - out[t])})]
      Settled(x) == /\ \E t \in p : In(x)[t] > 0
                    /\ KHolds(reserve, Balances(x, p), In(x), PairFee[p])
  IN IF (\E t \in p : out[t] > 0) /\ (\A t \in p : out[t] < reserve[t])
     THEN Then(Transfers(s, BothTokens(p, p, to, out) \o BothTokens(p, to, p, paid)),
               LAMBDA x : IF Settled(x) THEN _update(x, p) ELSE {})
     ELSE {}

skim(s, p, to) ==
  Transfers(s, BothTokens(p, p, to, [t \in p |-> s.wallet[t][p] - s.pool[p].reserve[t]]))

TransferShares(s, p, from, to, value) ==
  LET taken == [s EXCEPT !.pool[p].balanceOf[from] = @ - value]
  IN IF value <= s.pool[p].balanceOf[from]
     THEN {[taken EXCEPT !.pool[p].balanceOf[to] = @ + value]} ELSE {}
=============================================================================
