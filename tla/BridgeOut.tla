----------------------------- MODULE BridgeOut ------------------------------
(***************************************************************************)
(* The two pages of the web application that move funds between the pool   *)
(* and other chains: the bridge's card (Bridge.tsx) and the cash-out       *)
(* (XChainPanel.tsx). The card bridges out through the wallet or through a *)
(* throwaway address, or bridges in and shields what arrived; a cash-out   *)
(* goes through an address and on to an exchange, which refunds to the     *)
(* same address on another chain. For an address the page makes a key,     *)
(* keeps it in one slot of the browser's storage, has the relayer seed the *)
(* address and unshields to it; the funds at an address are recovered with *)
(* its key. A flow and its key have one name. The relayer, the Relay       *)
(* bridge and the exchange are external.                                   *)
(*                                                                         *)
(* Nothing in the pages keeps a second flow from taking the slot, a quote  *)
(* for an older form from being shown, or Recover and "Hide" from being    *)
(* pressed while funds are on their way: all of it may happen here, and so *)
(* may a refund at any time and a transfer whose state is never told. The  *)
(* application is open in one tab.                                         *)
(*                                                                         *)
(* Operators Name_Fault are faults that the README lists.                  *)
(***************************************************************************)
EXTENDS Naturals, FiniteSets

CONSTANTS Flow, NoKey,
          Wants                          \* what may stand in the form

ASSUME BridgeOutAssumption ==
  /\ NoKey \notin Flow \cup Wants
  /\ \A c \in Wants : c.page \in {"out", "in", "cashout"}

VARIABLES
  flow,         \* per flow: which one it is, how far it is, what was asked for and quoted,
                \* what the wallet held when it began, and `late` at that time
  funds,        \* per flow: where its amount is
  slot,         \* storage: sw-bridge-eph
  stored,       \* storage: OUT_LS, the order with its key
  pendingEph,   \* the card: the slot as it was on mounting
  shown,        \* the cash-out: the order, as it was on mounting or as its flow left it
  waits,        \* the mounted component: the flows whose end it waits for (working, step)
  wanted,       \* the mounted component: the form
  quoted,       \* the mounted component: what the quote shown (q, est) is for
  asks,         \* the mounted component: the requests for a quote that are out
  late,         \* auxiliary: the quote shown came after the form was changed
  crossed       \* auxiliary: the flows whose key the user's own acts set aside

flowVars == <<flow, funds>>
askVars == <<wanted, quoted, asks, late>>
tabVars == <<pendingEph, shown, waits>>
bridgeVars == <<flowVars, slot, stored, tabVars, askVars, crossed>>

BridgeOutInit ==
  /\ flow = [f \in Flow |-> [kind |-> "bridge", at |-> "new", asked |-> NoKey, quote |-> NoKey,
                              before |-> {}, late |-> FALSE]]
  /\ funds = [f \in Flow |-> "pool"]
  /\ slot = NoKey /\ stored = NoKey /\ pendingEph = NoKey /\ shown = NoKey /\ waits = {}
  /\ wanted \in Wants /\ quoted = NoKey /\ asks = {} /\ late = FALSE
  /\ crossed = {}

FlowAt(f, stage) == flow[f].at = stage
FlowTo(f, stage) == flow' = [flow EXCEPT ![f].at = stage]
Move(f, place) == funds' = [funds EXCEPT ![f] = place]
KindOf(f) == flow[f].kind
OnCard(f) == KindOf(f) # "cashout"
HasAddress(f) == KindOf(f) \in {"bridge", "cashout"}
Running(f) == flow[f].at \notin {"new", "failed", "done", "gone"}
InWallet == {f \in Flow : funds[f] = "wallet"}

(* Funds that only the key can move, on the pool's chain; funds that may   *)
(* still come to be there.                                                 *)
AtAddress(f) == funds[f] \in {"token", "ether"}
OnTheirWay(f) == funds[f] = "relayer"

(* A flow ends, and so does the wait of the component that began it, if it *)
(* is still mounted.                                                       *)
Ended(f, stage) == FlowTo(f, stage) /\ waits' = waits \ {f}

-----------------------------------------------------------------------------
(* The form is of no use once every flow has begun.                        *)
MayFill == \E f \in Flow : FlowAt(f, "new")

(* The card's two directions are one component, the cash-out is another.   *)
SamePage(c, d) == (c.page = "cashout") = (d.page = "cashout")

(* The form is changed: another direction, chain or amount. The quote is   *)
(* dropped; a request for one that is out is not. (A change of the address *)
(* that a cash-out pays is not modelled, nor is the check of it.)          *)
TypeCard(c) ==
  /\ MayFill /\ SamePage(c, wanted) /\ c # wanted /\ wanted' = c
  /\ quoted' = NoKey /\ late' = FALSE
  /\ UNCHANGED <<flowVars, slot, stored, tabVars, asks, crossed>>

(* The timer fires, and the quote for the form is asked for.               *)
AskCard ==
  /\ MayFill /\ quoted # wanted /\ asks' = asks \cup {wanted} /\ asks' # asks
  /\ UNCHANGED <<flowVars, slot, stored, tabVars, wanted, quoted, late, crossed>>

(* An answer is shown, whatever the form says by then. A call that throws  *)
(* clears the card's quote, and leaves the cash-out's.                     *)
QuoteCard(c) ==
  /\ MayFill /\ c \in asks /\ asks' = asks \ {c}
  /\ \/ quoted' = c /\ late' = (c # wanted)
     \/ wanted.page = "cashout" /\ UNCHANGED <<quoted, late>>
     \/ wanted.page # "cashout" /\ quoted' = NoKey /\ late' = FALSE
  /\ UNCHANGED <<flowVars, slot, stored, tabVars, wanted, crossed>>

(* What a press of the button needs: a quote shown, no flow that the       *)
(* component waits for, and for a cash-out that no order is shown.         *)
MayStart(kind) == quoted # NoKey /\ waits = {} /\ (kind = "cashout" => shown = NoKey)

KindsOn(page) ==
  CASE page = "out" -> {"bridge", "wallet"} [] page = "in" -> {"in"} [] page = "cashout" -> {"cashout"}

(* Whose key a flow with an address sets aside: the one in the slot, those *)
(* of flows that still run, for a cash-out the order stored; and its own   *)
(* if one of the latter is to end, or to be updated, after it.             *)
Crosses(f, kind) ==
  LET rivals == {g \in Flow : (HasAddress(g) /\ Running(g)) \/ (kind = "cashout" /\ stored = g)}
  IN  IF kind \notin {"bridge", "cashout"} THEN {}
      ELSE rivals \cup ({slot} \ {NoKey}) \cup {g \in {f} : rivals # {}}

(* Only a bridge in runs the quote shown, and a cash-out is asked for at   *)
(* its rate; to bridge out another is fetched. A key is stored first, in   *)
(* the place of any other.                                                 *)
Start(f) ==
  /\ FlowAt(f, "new")
  /\ \E kind \in KindsOn(wanted.page) :
       LET address == kind \in {"bridge", "cashout"}
       IN  /\ MayStart(kind)
           /\ flow' = [flow EXCEPT ![f] =
                [ kind |-> kind,
                  at |-> CASE address -> "seeding" [] kind = "wallet" -> "unshielding" [] OTHER -> "depositing",
                  asked |-> wanted,
                  quote |-> IF wanted.page = "out" THEN wanted ELSE quoted,
                  before |-> IF kind = "in" THEN InWallet ELSE {},
                  late |-> late ]]
           /\ slot' = IF address THEN f ELSE slot
           /\ funds' = IF kind = "in" THEN [funds EXCEPT ![f] = "away"] ELSE funds
           /\ crossed' = crossed \cup Crosses(f, kind)
  /\ waits' = {f}
  /\ UNCHANGED <<stored, pendingEph, shown, askVars>>

(* The order is created (cash-out) and the seed arrives.                   *)
Seeded(f) ==
  /\ FlowAt(f, "seeding") /\ FlowTo(f, "unshielding")
  /\ UNCHANGED <<funds, slot, stored, tabVars, askVars, crossed>>

(* The relayer has the transaction of unshieldToken; it may be mined later,*)
(* and the answer awaited may be lost or an error.                         *)
Unshield(f) ==
  /\ FlowAt(f, "unshielding") /\ FlowTo(f, "awaiting") /\ Move(f, "relayer")
  /\ UNCHANGED <<slot, stored, tabVars, askVars, crossed>>

UnshieldMined(f) ==
  /\ funds[f] = "relayer"
  /\ Move(f, IF HasAddress(f) THEN "token" ELSE "wallet") \/ Move(f, "pool")      \* or it reverts
  /\ UNCHANGED <<flow, slot, stored, tabVars, askVars, crossed>>

(* The answer; it does not say that the transaction reverted.              *)
Unshielded(f) ==
  /\ FlowAt(f, "awaiting") /\ ~ OnTheirWay(f)
  /\ FlowTo(f, IF HasAddress(f) THEN "unwrapping" ELSE "depositing")
  /\ UNCHANGED <<funds, slot, stored, tabVars, askVars, crossed>>

(* WETH becomes ETH (another token is bridged as it is).                   *)
Unwrap(f) ==
  /\ FlowAt(f, "unwrapping") /\ funds[f] = "token" /\ FlowTo(f, "depositing")
  /\ Move(f, "ether") \/ (OnCard(f) /\ UNCHANGED funds)
  /\ UNCHANGED <<slot, stored, tabVars, askVars, crossed>>

(* execTxs: the quote's transactions, each after ensureChain.              *)
Deposit(f) ==
  /\ FlowAt(f, "depositing")
  /\ IF HasAddress(f) THEN AtAddress(f) ELSE funds[f] = (IF KindOf(f) = "in" THEN "away" ELSE "wallet")
  /\ Move(f, "bridge") /\ FlowTo(f, "tracking")
  /\ UNCHANGED <<slot, stored, tabVars, askVars, crossed>>

KeyOnThrow_Removed(f) == NoKey
KeyOnThrow(f) == slot

(* An await throws: the flow ends, and the slot keeps the key.             *)
Throws(f) ==
  /\ flow[f].at \in {"seeding", "unshielding", "awaiting", "unwrapping", "depositing", "arriving"}
  /\ Ended(f, "failed") /\ slot' = KeyOnThrow(f)
  /\ UNCHANGED <<funds, stored, pendingEph, shown, askVars, crossed>>

(* The bridge delivers, to the recipient, the exchange or the wallet; or   *)
(* refunds.                                                                *)
Relayed(f) ==
  /\ funds[f] = "bridge"
  /\ \/ Move(f, CASE KindOf(f) = "cashout" -> "exchange" [] KindOf(f) = "in" -> "wallet" [] OTHER -> "delivered")
     \/ CASE KindOf(f) = "wallet" -> Move(f, "wallet")
          [] KindOf(f) = "in" -> Move(f, "away")
          [] OTHER -> Move(f, "ether")
  /\ UNCHANGED <<flow, slot, stored, tabVars, askVars, crossed>>

(* What is answered about a transfer.                                      *)
relayStatus(f) ==
  {"unknown"} \cup
  CASE funds[f] = "bridge" -> {"pending"}
    [] funds[f] \in {"ether", "away"} \/ (funds[f] = "wallet" /\ KindOf(f) # "in") -> {"refund"}
    [] OTHER -> {"success"}

KeyAfter_Never(f, refunded) == NoKey
KeyAfter(f, refunded) ==
  IF ~ HasAddress(f) \/ (refunded /\ ~ OnCard(f)) THEN slot ELSE NoKey

(* Tracking ends with an outcome or, at the last poll, without one. A      *)
(* refund makes a cash-out throw; all else removes the slot. A cash-out    *)
(* stores its order, and shows it if its page is still open; a delivered   *)
(* bridge in waits for the wallet to have more than before.                *)
Tracked(f) ==
  /\ FlowAt(f, "tracking")
  /\ \E s \in relayStatus(f) :
       LET refunded == s \in {"failure", "refund"}
           arriving == KindOf(f) = "in" /\ s = "success"
           ordered == ~ OnCard(f) /\ ~ refunded
       IN  /\ IF arriving THEN FlowTo(f, "arriving") /\ UNCHANGED waits
              ELSE Ended(f, IF refunded /\ ~ OnCard(f) THEN "failed" ELSE "done")
           /\ slot' = KeyAfter(f, refunded)
           /\ stored' = IF ordered THEN f ELSE stored
           /\ shown' = IF ordered /\ f \in waits THEN f ELSE shown
  /\ UNCHANGED <<funds, pendingEph, askVars, crossed>>

(* What arrived is shielded, all but a reserve for gas; or nothing, if it  *)
(* is not more than the reserve or is not seen in time.                    *)
ShieldArrived(f) ==
  /\ FlowAt(f, "arriving") /\ Ended(f, "done")
  /\ \/ UNCHANGED funds
     \/ \E received \in SUBSET InWallet :
          /\ Cardinality(received) = Cardinality(InWallet) - Cardinality(flow[f].before)
          /\ received # {}
          /\ funds' = [g \in Flow |-> IF g \in received THEN "pool" ELSE funds[g]]
  /\ UNCHANGED <<slot, stored, pendingEph, shown, askVars, crossed>>

(* The exchange pays out, or refunds to the address on its chain.          *)
Exchanged(f) ==
  /\ funds[f] = "exchange"
  /\ Move(f, "delivered") \/ Move(f, "refunded")
  /\ UNCHANGED <<flow, slot, stored, tabVars, askVars, crossed>>

-----------------------------------------------------------------------------
(* A component is mounted with nothing in flight: the card reads the slot, *)
(* the cash-out the order. The form is filled anew (with any content while *)
(* a flow may yet begin). Its page is opened again while flows go on, or   *)
(* the application is loaded again, and executions are gone.               *)
Blank == {CHOOSE c \in Wants : c.page = "cashout", CHOOSE c \in Wants : c.page # "cashout"}

Mounted(c) ==
  /\ MayFill \/ c \in Blank
  /\ pendingEph' = IF c.page = "cashout" THEN NoKey ELSE slot
  /\ shown' = IF c.page = "cashout" THEN stored ELSE NoKey
  /\ wanted' = c /\ waits' = {} /\ quoted' = NoKey /\ asks' = {} /\ late' = FALSE
  /\ UNCHANGED <<funds, slot, stored, crossed>>

Visit(c) == Mounted(c) /\ UNCHANGED flow

Reload(c) ==
  /\ Mounted(c)
  /\ flow' = [f \in Flow |-> IF Running(f) THEN [flow[f] EXCEPT !.at = "gone"] ELSE flow[f]]

(* recoverEph moves what is at the address of the key in memory to the     *)
(* wallet and removes the slot, whichever key is in it.                    *)
recoverEph ==
  /\ pendingEph # NoKey /\ waits = {}
  /\ funds' = [funds EXCEPT ![pendingEph] = IF AtAddress(pendingEph) THEN "wallet" ELSE @]
  /\ crossed' = crossed \cup ({pendingEph, slot} \ {NoKey})
  /\ slot' = NoKey /\ pendingEph' = NoKey
  /\ UNCHANGED <<flow, stored, shown, waits, askVars>>

(* xchainWatch stores the order shown with each new status.                *)
Watched ==
  /\ shown # NoKey /\ shown # stored /\ stored' = shown
  /\ UNCHANGED <<flowVars, slot, tabVars, askVars, crossed>>

sweepRefund ==
  /\ shown # NoKey /\ funds[shown] = "refunded" /\ Move(shown, "swept")
  /\ UNCHANGED <<flow, slot, stored, tabVars, askVars, crossed>>

(* "New cash-out", or "Hide (keeps running)".                              *)
clearOrder ==
  /\ shown # NoKey /\ shown' = NoKey /\ stored' = NoKey
  /\ crossed' = crossed \cup ({shown, stored} \ {NoKey})
  /\ UNCHANGED <<flowVars, slot, pendingEph, waits, askVars>>

BridgeOutNext ==
  \/ recoverEph \/ Watched \/ sweepRefund \/ clearOrder \/ AskCard
  \/ \E c \in Wants : TypeCard(c) \/ QuoteCard(c) \/ Visit(c) \/ Reload(c)
  \/ \E f \in Flow :
       \/ Start(f) \/ Seeded(f) \/ Unshield(f) \/ UnshieldMined(f) \/ Unshielded(f) \/ Unwrap(f)
       \/ Deposit(f) \/ Throws(f) \/ Relayed(f) \/ Tracked(f) \/ ShieldArrived(f) \/ Exchanged(f)

-----------------------------------------------------------------------------
(* "Persist the throwaway key for the flow's duration so a tab reload      *)
(* can't strand funds at the temporary address" (Bridge.tsx:213): whenever *)
(* funds are at an address, or refunded to it by the exchange, its key is  *)
(* in storage, where a reload finds it; unless the user set it aside.      *)
Kept(f) == f \in {slot, stored}
NeedsKey(f) == (AtAddress(f) \/ funds[f] = "refunded") /\ f \notin crossed

NeverStranded == \A f \in Flow : NeedsKey(f) => Kept(f)

(* The same but for the card's flows that ended without an error, whose    *)
(* key is gone whatever became of the transfer (Bridge.tsx:244). The key   *)
(* outlives every error, reload, lost answer, late unshield and refund.    *)
KeyKept == \A f \in Flow : NeedsKey(f) /\ ~ (OnCard(f) /\ FlowAt(f, "done")) => Kept(f)

(* What a flow runs or prices is a quote for what the form asked for when  *)
(* the button was pressed, unless the quote shown had come for an older    *)
(* form.                                                                   *)
MovesAsAsked ==
  \A f \in Flow : ~ FlowAt(f, "new") /\ ~ flow[f].late => flow[f].quote = flow[f].asked

ExitsSafely == KeyKept /\ MovesAsAsked

(* The two without what the user's own acts set aside, and without the     *)
(* quotes that came late (not so: the README).                             *)
AlwaysKept == \A f \in Flow : AtAddress(f) \/ funds[f] = "refunded" => Kept(f)
AlwaysAsAsked == \A f \in Flow : flow[f].quote = flow[f].asked
=============================================================================
