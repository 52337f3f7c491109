------------------------------ MODULE Relayer -------------------------------
(***************************************************************************)
(* The relayer (relayer/src/server.ts): /transact validates, simulates and *)
(* submits a user's transaction, /fund-gas seeds a fresh address with gas, *)
(* both from one hot wallet, behind one sliding-window limiter. Handlers   *)
(* interleave at their awaits; each handler passes through                 *)
(*                                                                         *)
(*   "new" -> "checking" -> "preparing" -> "sending" -> "waiting"          *)
(*                                                                         *)
(* and ends in the answer given. The chain executes transactions in the    *)
(* order it receives them, and takes each nonce of the wallet once.        *)
(*                                                                         *)
(* Operators Name_Fault are faults that the README lists.                  *)
(***************************************************************************)
EXTENDS Integers, SequencesExt

CONSTANTS
  Ip, Note, Fresh,               \* clients, notes to spend, addresses to seed
  ratePerMin, rateGlobalPerMin, WINDOW,
  GAS_SEED,
  Requests                       \* bound: how many requests come in

ASSUME RelayerAssumption ==
  /\ {ratePerMin, rateGlobalPerMin, WINDOW, GAS_SEED} \subseteq Nat \ {0}
  /\ Requests \in Nat /\ Note \cap Fresh = {}

VARIABLES
  hits, globalHits,              \* ages of the requests let through
  handler,                       \* per request: where it is, and its locals
  nonce,                         \* transactions of the wallet so far
  spentBy,                       \* per note: the handler that spent it
  balance                        \* of the fresh addresses

relayerVars == <<hits, globalHits, handler, nonce, spentBy, balance>>

Id == 1 .. Requests
Unspent == 0          \* an unspent note, and
Stranger == -1       \* one spent through someone else

NewRequest == [at |-> "new", ip |-> "none", to |-> "none", age |-> 0, nonce |-> 0, receipt |-> "none"]

RelayerInit ==
  /\ hits = [ip \in Ip |-> << >>] /\ globalHits = << >>
  /\ handler = [r \in Id |-> NewRequest] /\ nonce = 0
  /\ spentBy = [n \in Note |-> Unspent] /\ balance = [a \in Fresh |-> 0]

Passed == { r \in Id : handler[r].at \notin {"new", "429"} }

(* Time passes; an age stops counting when it leaves the window.           *)
Older(age) == Min({age + 1, WINDOW})
RelayerTick ==
  /\ hits' = [ip \in Ip |-> [i \in DOMAIN hits[ip] |-> Older(hits[ip][i])]]
  /\ globalHits' = [i \in DOMAIN globalHits |-> Older(globalHits[i])]
  /\ handler' = [r \in Id |-> IF r \in Passed THEN [handler[r] EXCEPT !.age = Older(@)] ELSE handler[r]]
  /\ UNCHANGED <<nonce, spentBy, balance>>

HandlerAt(r, stage) == handler[r].at = stage
HandlerTo(r, stage) == handler' = [handler EXCEPT ![r].at = stage]
Answered(r, code) == handler' = [handler EXCEPT ![r].at = code, ![r].nonce = 0, ![r].receipt = "none"]
IsTransact(r) == handler[r].to \in Note

-----------------------------------------------------------------------------
(* From the front of the ages those out of the window are shifted off, up  *)
(* to the first that is within.                                            *)
Outdated(ages, window) == { n \in 0 .. Len(ages) : \A i \in 1 .. n : ages[i] >= window }
prune_TooEarly(ages) == SubSeq(ages, Max(Outdated(ages, WINDOW - 1)) + 1, Len(ages))
prune(ages) == SubSeq(ages, Max(Outdated(ages, WINDOW)) + 1, Len(ages))

(* The limiter: the global window is pruned first, the caller's only when  *)
(* that has room, and only a request let through is noted.                 *)
rateLimit(r, ip, to) ==
  LET global == prune(globalHits)
      own    == prune(hits[ip])
      noted(at) == handler' = [handler EXCEPT ![r] =
                     [NewRequest EXCEPT !.at = at, !.ip = ip, !.to = to]]
  IN  IF Len(global) < rateGlobalPerMin /\ Len(own) < ratePerMin
      THEN /\ hits' = [hits EXCEPT ![ip] = Append(own, 0)]
           /\ globalHits' = Append(global, 0)
           /\ noted("checking")
      ELSE /\ hits' = IF Len(global) < rateGlobalPerMin THEN [hits EXCEPT ![ip] = own] ELSE hits
           /\ globalHits' = global
           /\ noted("429")

(* A request comes in (one after the other; the routes share the limiter). *)
Receive(r) ==
  /\ HandlerAt(r, "new") /\ \A q \in Id : q < r => ~ HandlerAt(q, "new")
  /\ \E ip \in Ip, to \in Note \cup Fresh : rateLimit(r, ip, to)
  /\ UNCHANGED <<nonce, spentBy, balance>>

(* Body, validation and screening are about the request alone; then the    *)
(* simulation, or the balance of the address to seed, is about the chain.  *)
CheckPasses(r) == IF IsTransact(r) THEN spentBy[handler[r].to] = Unspent
                                   ELSE balance[handler[r].to] < GAS_SEED
CheckRequest(r) ==
  /\ HandlerAt(r, "checking")
  /\ \/ CheckPasses(r) /\ HandlerTo(r, "preparing")
     \/ ~ CheckPasses(r) /\ HandlerTo(r, IF IsTransact(r) THEN "400" ELSE "funded before")
     \/ HandlerTo(r, IF IsTransact(r) THEN "400" ELSE "502")    \* invalid, or no answer
  /\ UNCHANGED <<hits, globalHits, nonce, spentBy, balance>>

(* The library prepares the transaction: it asks for the wallet's next     *)
(* nonce and estimates the gas, which fails where the transaction would.   *)
PrepareFor(r) ==
  /\ HandlerAt(r, "preparing")
  /\ \/ /\ IsTransact(r) => spentBy[handler[r].to] = Unspent
        /\ handler' = [handler EXCEPT ![r].at = "sending", ![r].nonce = nonce + 1]
     \/ Answered(r, "502")
  /\ UNCHANGED <<hits, globalHits, nonce, spentBy, balance>>

(* What the chain makes of it: a transfer goes through; a transaction of a *)
(* spent note reverts, and any other may too (since it was simulated, the  *)
(* price moved, a deadline passed or a root left its ring), with the note  *)
(* unspent.                                                                *)
ExecuteFor(r, good) ==
  LET to == handler[r].to
  IN  /\ IsTransact(r) => (good => spentBy[to] = Unspent)
      /\ IsTransact(r) \/ good
      /\ nonce' = nonce + 1
      /\ spentBy' = IF IsTransact(r) /\ good THEN [spentBy EXCEPT ![to] = r] ELSE spentBy
      /\ balance' = IF IsTransact(r) THEN balance ELSE [balance EXCEPT ![to] = @ + GAS_SEED]
      /\ handler' = [handler EXCEPT ![r].at = "waiting",
                       ![r].receipt = IF good THEN "success" ELSE "reverted"]

(* It is sent, unless another handler has used its nonce, or it fails. The *)
(* library may also fail after the chain has taken it.                     *)
SendFor(r) ==
  /\ HandlerAt(r, "sending")
  /\ \/ handler[r].nonce = nonce + 1 /\ \E good \in BOOLEAN : ExecuteFor(r, good)
     \/ Answered(r, "502") /\ UNCHANGED <<nonce, spentBy, balance>>
  /\ UNCHANGED <<hits, globalHits>>

Status_Assumed(r) == "success"
Status(r) == handler[r].receipt

AnswerTo(r) ==
  /\ HandlerAt(r, "waiting")
  /\ Answered(r, Status(r)) \/ Answered(r, "502")         \* no receipt in time
  /\ UNCHANGED <<hits, globalHits, nonce, spentBy, balance>>

(* A user spends a note without this relayer, or what an address was given.*)
SpentElsewhere ==
  \/ \E n \in Note : spentBy[n] = Unspent /\ spentBy' = [spentBy EXCEPT ![n] = Stranger]
                  /\ UNCHANGED <<hits, globalHits, handler, nonce, balance>>
  \/ \E a \in Fresh : balance[a] > 0 /\ balance' = [balance EXCEPT ![a] = 0]
                   /\ UNCHANGED <<hits, globalHits, handler, nonce, spentBy>>

RelayerNext ==
  \/ RelayerTick \/ SpentElsewhere
  \/ \E r \in Id : Receive(r) \/ CheckRequest(r) \/ PrepareFor(r) \/ SendFor(r) \/ AnswerTo(r)

-----------------------------------------------------------------------------
(* "bound gas-drain": whatever the handlers of earlier requests are still  *)
(* doing, no window of any position holds more requests let through than   *)
(* allowed, of one client or of all.                                       *)
RateLimited ==
  LET window == { r \in Passed : handler[r].age < WINDOW }
  IN  /\ Cardinality(window) <= rateGlobalPerMin
      /\ \A ip \in Ip : Cardinality({ r \in window : handler[r].ip = ip }) <= ratePerMin

(* What a client may conclude from its answer, however requests for one    *)
(* note race and whatever makes a transaction revert: after a success the  *)
(* note is spent, and through this request; after a refusal or a revert    *)
(* this request did not spend it and never will, so that a second attempt  *)
(* cannot pay twice. Only a 502 leaves it open.                            *)
AnswersTrue ==
  \A r \in Id : IsTransact(r) =>
    LET by == spentBy[handler[r].to]
    IN  /\ HandlerAt(r, "success") => by = r
        /\ handler[r].at \in {"400", "429", "reverted"} => by # r

(* "only funds a near-empty address": no address ever has two seeds.       *)
FundsNearEmpty == \A a \in Fresh : balance[a] <= GAS_SEED
=============================================================================
