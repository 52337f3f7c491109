------------------------------- MODULE Basket -------------------------------
(***************************************************************************)
(* The planner of baskets (agent/src/planner.ts): a language model picks   *)
(* stocks with weights, which are checked against the tradable ones and    *)
(* the depth of their pools and made percentages of the budget; without a  *)
(* usable answer a template is taken. The basket is then bought leg by     *)
(* leg. The language model, the pools' depth and the trades are external.  *)
(*                                                                         *)
(* Fractions are compared exactly: rounding of floating point is left out. *)
(* Operators Name_Fault are faults that the README lists.                  *)
(***************************************************************************)
EXTENDS Naturals, SequencesExt

CONSTANTS UNIVERSE,      \* the tradable stocks
          TEMPLATES,     \* the templates, as picks
          Picked,        \* what the language model may pick, as sequences of picks
          Budget,        \* budgets in dollars
          MaxHoldings,   \* 6 in the code
          THIN_MAX_USD

Pick == [symbol : UNIVERSE \cup {"unknown"}, pct : Nat]
ASSUME BasketAssumption ==
  /\ Picked \cup TEMPLATES \subseteq Seq(Pick) /\ Budget \subseteq Nat
  /\ MaxHoldings \in Nat \ {0} /\ THIN_MAX_USD \in Nat

VARIABLES
  budget,
  depth,    \* per stock the tier read from its pool: "thin", or another one
  plan,     \* the holdings, << >> while there are none
  legs      \* what executePlan reports, per leg

basketVars == <<budget, depth, plan, legs>>

BasketInit ==
  /\ budget \in Budget
  /\ depth = [s \in UNIVERSE |-> "unread"] /\ plan = << >> /\ legs = << >>

-----------------------------------------------------------------------------
Pcts(rows) == [i \in DOMAIN rows |-> rows[i].pct]
Total(ws) == SumFunction(ws)

(* Weights as whole percentages: rounded down, and what is missing to 100  *)
(* goes to the largest remainders, the first of equal ones.                *)
Rest(ws, i) == (100 * ws[i]) % Total(ws)
Rank(ws, i) == Cardinality({ j \in DOMAIN ws :
                 Rest(ws, j) > Rest(ws, i) \/ (Rest(ws, j) = Rest(ws, i) /\ j < i) })
normalizePct_RoundedDown(ws) == [i \in DOMAIN ws |-> (100 * ws[i]) \div Total(ws)]
normalizePct(ws) ==
  LET down == [i \in DOMAIN ws |-> (100 * ws[i]) \div Total(ws)]
  IN  [i \in DOMAIN ws |-> down[i] + IF Rank(ws, i) < 100 - Total(down) THEN 1 ELSE 0]

(* The dollars of a percentage, rounded to the nearest.                    *)
Usd(pct) == (budget * pct + 50) \div 100

(* The rows at some positions, in the order they had.                      *)
KeptAt(rows, kept) ==
  [k \in 1 .. Cardinality(kept) |->
     rows[CHOOSE i \in kept : Cardinality({ j \in kept : j < i }) = k - 1]]

(* Tradable stocks with a weight, each once; the largest MaxHoldings;      *)
(* without those of a thin pool that the amount would move; and without    *)
(* those that come to nothing.                                             *)
Known(picks) ==
  KeptAt(picks, { i \in DOMAIN picks :
    /\ picks[i].symbol \in UNIVERSE /\ picks[i].pct > 0
    /\ \A j \in 1 .. i - 1 : picks[j].symbol = picks[i].symbol => picks[j].pct = 0 })
Largest(rows) ==
  LET n == IF Len(rows) < MaxHoldings THEN Len(rows) ELSE MaxHoldings
      before(i) == Cardinality({ j \in DOMAIN rows :
                     rows[j].pct > rows[i].pct \/ (rows[j].pct = rows[i].pct /\ j < i) })
  IN  [k \in 1 .. n |-> rows[CHOOSE i \in DOMAIN rows : before(i) = k - 1]]
Absorbed(rows, tier) ==
  LET pct == normalizePct(Pcts(rows))
  IN  KeptAt(rows, { i \in DOMAIN rows : tier[rows[i].symbol] # "thin" \/ Usd(pct[i]) <= THIN_MAX_USD })
NonZero(rows) == LET pct == normalizePct(Pcts(rows)) IN KeptAt(rows, { i \in DOMAIN rows : pct[i] > 0 })
buildHoldings(picks, tier) ==
  LET rows == NonZero(Absorbed(Largest(Known(picks)), tier))
      pct == normalizePct(Pcts(rows))
  IN  [i \in DOMAIN rows |-> [symbol |-> rows[i].symbol, allocPct |-> pct[i], usd |-> Usd(pct[i])]]

(* The template, whose stocks are taken to be liquid.                      *)
ruleBasedPlan(tpl) == buildHoldings(tpl, [s \in UNIVERSE |-> "medium"])

-----------------------------------------------------------------------------
(* The depth of the pools is read; a pool that can not be read counts as   *)
(* medium.                                                                 *)
getUniverse ==
  /\ plan = << >> /\ \E s \in UNIVERSE : depth[s] = "unread"
  /\ depth' \in [UNIVERSE -> {"thin", "medium"}]
  /\ UNCHANGED <<budget, plan, legs>>

(* The language model answers with picks, or fails: then there are none.   *)
callCompute == Picked \cup {<< >>}

(* The template of the goal and the risk: any.                             *)
themeFor == TEMPLATES

(* If nothing of the answer is left, the template is taken.                *)
buildPlan ==
  /\ plan = << >> /\ \A s \in UNIVERSE : depth[s] # "unread"
  /\ \E picks \in callCompute, tpl \in themeFor :
       LET holdings == buildHoldings(picks, depth)
       IN  plan' = IF holdings # << >> THEN holdings ELSE ruleBasedPlan(tpl)
  /\ UNCHANGED <<budget, depth, legs>>

(* The next leg is priced and bought; it fails, or comes to no dollars:    *)
(* then its error is reported and the legs after it go on.                 *)
executePlan ==
  /\ Len(legs) < Len(plan)
  /\ \E result \in {"sent", "error"} :
       /\ plan[Len(legs) + 1].usd = 0 => result = "error"
       /\ legs' = Append(legs, result)
  /\ UNCHANGED <<budget, depth, plan>>

BasketNext == getUniverse \/ buildPlan \/ executePlan
BasketSpec == BasketInit /\ [][BasketNext]_basketVars

-----------------------------------------------------------------------------
(* "a validated, liquidity-gated holdings[]" (planner.ts:158): a basket    *)
(* has up to MaxHoldings tradable stocks, each once, its percentages are   *)
(* 100 together and its dollars the budget, up to a half of one for each   *)
(* holding, whatever was picked and dropped.                               *)
BasketAddsUp ==
  plan # << >> =>
    LET spent == Total([i \in DOMAIN plan |-> plan[i].usd]) IN
    /\ Len(plan) <= MaxHoldings /\ IsInjective([i \in DOMAIN plan |-> plan[i].symbol])
    /\ Total([i \in DOMAIN plan |-> plan[i].allocPct]) = 100
    /\ 2 * spent <= 2 * budget + Len(plan) /\ 2 * budget <= 2 * spent + Len(plan)

(* Not so, see the README: "drop THIN pools that a big clip would move"    *)
(* (planner.ts:173), "drop any that rounded to 0%" (planner.ts:177).       *)
ThinIsSmall ==
  \A i \in DOMAIN plan : depth[plan[i].symbol] = "thin" => plan[i].usd <= THIN_MAX_USD
NoneIsEmpty == \A i \in DOMAIN plan : plan[i].allocPct > 0
=============================================================================
