------------------------------ MODULE Watchdog ------------------------------
(***************************************************************************)
(* The watchdog (deploy/vps/watchdog.mjs): in rounds, it tops up the hot   *)
(* wallets of the relayer and the ASP from a funder. The wallets pay gas   *)
(* meanwhile. An exception ends the round. Health checks and warnings      *)
(* change nothing and are left out.                                        *)
(*                                                                         *)
(* Operators Name_Fault are faults that the README lists.                  *)
(***************************************************************************)
EXTENDS Integers, Sequences

CONSTANTS
  WATCHED,                         \* the wallets, in the order of the round
  MIN, TOPUP, FUNDER_RESERVE,
  Fee,                             \* of a top-up
  Funds,                           \* what the funder starts with
  MaxRpcErrors                     \* bound: failed calls

ASSUME WatchdogAssumption ==
  /\ {MIN, TOPUP, FUNDER_RESERVE, Fee, Funds, MaxRpcErrors} \subseteq Nat
  /\ MIN <= TOPUP /\ Fee <= FUNDER_RESERVE

VARIABLES
  eth,                             \* balances of the wallets, in their order
  funder,                          \* the funder's balance
  funderBal, round,                \* read at the start of a round; the next wallet, 0 asleep
  rpcErrors

watchdogVars == <<eth, funder, funderBal, round, rpcErrors>>

WatchdogInit ==
  /\ eth = [i \in DOMAIN WATCHED |-> MIN] /\ funder = Funds
  /\ funderBal = 0 /\ round = 0 /\ rpcErrors = 0

(* A watched wallet pays for a transaction of its own.                     *)
Pays(i) == eth[i] > 0 /\ eth' = [eth EXCEPT ![i] = @ - 1]
        /\ UNCHANGED <<funder, funderBal, round, rpcErrors>>

StartRound == /\ round = 0 /\ round' = 1 /\ funderBal' = funder
              /\ UNCHANGED <<eth, funder, rpcErrors>>

amt_AllOrNothing(bal) == IF TOPUP + FUNDER_RESERVE > bal THEN 0 ELSE TOPUP
amt(bal) == IF TOPUP + FUNDER_RESERVE <= bal THEN TOPUP
            ELSE IF bal > FUNDER_RESERVE THEN bal - FUNDER_RESERVE ELSE 0

After(i) == IF i = Len(WATCHED) THEN 0 ELSE i + 1

(* One wallet: nothing to do, or too little to do it with, or a top-up,    *)
(* which the chain refuses if the funder no longer has what was read.      *)
TopUp ==
  /\ round > 0
  /\ IF eth[round] >= MIN \/ amt(funderBal) = 0
     THEN round' = After(round) /\ UNCHANGED <<eth, funder>>
     ELSE IF amt(funderBal) + Fee <= funder
          THEN /\ eth' = [eth EXCEPT ![round] = @ + amt(funderBal)]
               /\ funder' = funder - amt(funderBal) - Fee
               /\ round' = After(round)
          ELSE round' = 0 /\ UNCHANGED <<eth, funder>>
  /\ UNCHANGED <<funderBal, rpcErrors>>

(* A call fails, or the receipt of a top-up that was taken never comes.    *)
RpcError ==
  /\ rpcErrors < MaxRpcErrors /\ rpcErrors' = rpcErrors + 1
  /\ round > 0 /\ round' = 0
  /\ UNCHANGED <<eth, funder, funderBal>>

WatchdogNext ==
  StartRound \/ TopUp \/ RpcError \/ \E i \in DOMAIN WATCHED : Pays(i)

-----------------------------------------------------------------------------
(* Every low wallet is topped up sooner or later, while the funder has     *)
(* anything to give: reading its balance once per round, and an exception  *)
(* that cuts the round short, starve no wallet.                            *)
ToppedUp ==
  \A i \in DOMAIN WATCHED :
    eth[i] < MIN ~> (eth[i] >= MIN \/ funder <= FUNDER_RESERVE)

(* "keep for the topup tx's own gas": the reserve is never paid out.       *)
ReserveKept == funder >= FUNDER_RESERVE - Fee
=============================================================================
