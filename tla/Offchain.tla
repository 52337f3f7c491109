------------------------------ MODULE Offchain ------------------------------
(***************************************************************************)
(* The loops that must get somewhere: the approver, the watchdog, which    *)
(* keeps the approver's wallet and the relayer's in funds, and a tab that  *)
(* follows an order. The first two meet only in that wallet: to the        *)
(* approver an empty wallet is one of the rounds that fail, to the         *)
(* watchdog the approver's publications are payments at any time. A        *)
(* behaviour is about one `side`; the others rest.                         *)
(***************************************************************************)
EXTENDS AspApprover, Watchdog, OrderWatch

Roots == 0 .. MaxDeposits                \* values of Root and WATCHED
Wallets == <<"relayer", "asp">>

VARIABLE side

offchainVars == <<side, approverVars, watchdogVars, watchVars>>

OffchainInit ==
  /\ side \in {"approver", "watchdog", "orders"}
  /\ ApproverInit /\ WatchdogInit /\ OrderWatchInit
  /\ side # "approver" => byHand /\ asp = Key

OffchainNext ==
  \/ side = "approver" /\ ApproverNext /\ UNCHANGED <<side, watchdogVars, watchVars>>
  \/ side = "watchdog" /\ WatchdogNext /\ UNCHANGED <<side, approverVars, watchVars>>
  \/ side = "orders" /\ OrderWatchNext /\ UNCHANGED <<side, approverVars, watchdogVars>>

(* The approver's and the watchdog's loops never end, sent transactions    *)
(* are mined in the end, and nodes catch up with the chain; a tab's timer  *)
(* and its requests' answers come in the end.                              *)
OffchainSpec ==
  /\ OffchainInit /\ [][OffchainNext]_offchainVars
  /\ WF_approverVars(side = "approver" /\ tick)
  /\ WF_approverVars(side = "approver" /\ Mine)
  /\ WF_approverVars(side = "approver" /\ CatchUp)
  /\ WF_watchdogVars(side = "watchdog" /\ (StartRound \/ TopUp))
  /\ OrderWatchFairness
=============================================================================
