---------------------------- MODULE ClientBuilds ----------------------------
(***************************************************************************)
(* How an account spends and deposits (client/src/pool.ts), driven by the  *)
(* flows of the app (web/app/src/App.tsx). A send, swap or withdrawal is   *)
(* split into parts that one label can pay; each part is built and         *)
(* submitted. A build syncs if the client is dirty, selects notes and      *)
(* reserves them while it proves; the app invalidates the client after     *)
(* each submission. A shield wraps ether, approves the pool, reads the     *)
(* sender's deposit nonce and proves for it. Flows interleave at their     *)
(* awaits and share the client and the wallet. One asset, wrapped ether;   *)
(* no relayer, no fee.                                                     *)
(*                                                                         *)
(* Operators Name_Fault are faults that the README lists.                  *)
(***************************************************************************)
EXTENDS Integers, FiniteSetsExt

CONSTANTS
  Flow,          \* flows under way
  Scenario,      \* records [deposits, overlaps, amounts, ether]: first notes, sets of kinds
                 \* of flows that may overlap, amounts asked for, the wallet's ether
  Reverts,       \* whether a submitted transaction may revert on the chain
  ReadsFail,     \* whether the balance reads of a refresh may fail
  MaxNonce       \* bound: no shield starts once the deposit nonce is higher

Split   == {"send", "swap", "withdraw", "unshieldToken"}
Exits   == {"withdraw", "unshieldToken"}
Shields == {"shield", "shieldToken"}
Helpers == {"unshieldToken", "shieldToken"}     \* their errors go to the caller
Kind    == Split \cup Shields \cup {"refresh"}

ASSUME SpendAssumption ==
  /\ \A s \in Scenario :
       /\ s.deposits \subseteq [id : Nat, label : Nat, amount : Nat \ {0}]
       /\ IsFiniteSet(s.deposits) /\ s.overlaps \subseteq SUBSET Kind
       /\ s.amounts \subseteq Nat /\ s.ether \in Nat
  /\ {Reverts, ReadsFail} \subseteq BOOLEAN /\ MaxNonce \in Nat

VARIABLES
  scenario,      \* the one this behaviour is about
  notes,         \* on the chain: the account's notes
  nullified,     \* on the chain: ids of the notes spent
  wallet,        \* on the chain: eth, weth, whether the pool is approved, deposit nonce
  client,        \* owned, spent, reserved (ids), everSynced and dirty; auxiliary: freed, told, lost
  flow           \* per flow: where it waits and its locals

vars == <<scenario, notes, nullified, wallet, client, flow>>

Resting ==
  [at |-> "idle", kind |-> "send", then |-> "idle", self |-> FALSE, caught |-> FALSE,
   amount |-> 0, remaining |-> 0, chunk |-> 0, floor |-> 0, parts |-> 0, nonce |-> 0,
   inputs |-> {}, logs |-> <<{}, {}>>,
   paid |-> 0, reverted |-> FALSE, unwrapped |-> FALSE,   \* auxiliary: what happened,
   knew |-> {},                                           \* and client.told when the build began
   ok |-> FALSE]                                          \* reported as done

Init ==
  /\ scenario \in Scenario
  /\ notes = scenario.deposits /\ nullified = {}
  /\ wallet = [eth |-> scenario.ether, weth |-> 0, allowed |-> FALSE,
               nonce |-> Max({0} \cup { n.label : n \in notes }) + 1]
  /\ client = [owned |-> {}, spent |-> {}, reserved |-> {}, everSynced |-> FALSE, dirty |-> FALSE,
                freed |-> {}, told |-> {}, lost |-> FALSE]
  /\ flow = [f \in Flow |-> Resting]

Ids(set) == { n.id : n \in set }
Total(set) == SumFunctionOnSet([n \in set |-> n.amount], set)

(* Notes that may be selected.                                             *)
utxos_SpentOnly == { n \in client.owned : n.id \notin client.spent }
utxos == { n \in client.owned : n.id \notin client.spent \cup client.reserved }

OfLabel(label) == { n \in utxos : n.label = label }
Labels == { n.label : n \in utxos }

(* The largest note of a label if it covers, else its two largest.         *)
Largest(set) == { n \in set : \A m \in set : m.amount <= n.amount }
Candidates(label, need) ==
  { {n} : n \in { m \in Largest(OfLabel(label)) : m.amount >= need } }
Pairs(label) ==
  UNION { { {n, m} : m \in Largest(OfLabel(label) \ {n}) } : n \in Largest(OfLabel(label)) }

(* Any label that covers may come first in the client's list.              *)
selectInputs(need) ==
  UNION { LET one == Candidates(label, need)
          IN  IF one # {} THEN one ELSE { p \in Pairs(label) : Total(p) >= need }
        : label \in Labels }

maxSpendable_WholeLabel == Max({0} \cup { Total(OfLabel(label)) : label \in Labels })
maxSpendable ==
  Max({0} \cup { n.amount : n \in utxos } \cup { Total(p) : p \in UNION { Pairs(l) : l \in Labels } })

-----------------------------------------------------------------------------
Go(f, local) == flow' = [flow EXCEPT ![f] = local]

(* invalidate may come at any time. It frees what other builds hold (their *)
(* flows are noted in `freed`), and the client is told of all that was     *)
(* spent so far (`told`); but a build's sync that has read its logs will   *)
(* clear the mark again (`lost`).                                          *)
Holders == { g \in Flow : flow[g].inputs # {} }
SyncsForBuild == { g \in Flow : flow[g].at \in {"apply", "guard"} /\ flow[g].then \in {"select", "nonce"} }
Invalidated(f) ==
  [client EXCEPT !.reserved = {}, !.freed = Holders \ {f}, !.told = nullified,
                 !.lost = @ \/ SyncsForBuild \ {f} # {}]
invalidate_Unmarked(f) == client' = Invalidated(f)
invalidate(f) == client' = [Invalidated(f) EXCEPT !.dirty = TRUE]

UpToDate == client.everSynced /\ ~client.dirty

(* A build starts; it syncs first if the client is dirty. A spend selects  *)
(* then, a shield reads the nonce.                                         *)
Build(local, next) ==
  [local EXCEPT !.at = IF UpToDate THEN next ELSE "ask", !.then = next, !.knew = client.told]

Delivered(f) == flow[f].amount - flow[f].remaining

(* Whether a flow believes that it withdraws ether to the user's wallet.   *)
(* withdrawMulti compares the recipient with myAddress, which is the       *)
(* shielded address: no recipient equals it.                               *)
Recipient(f) == IF flow[f].self THEN "wallet" ELSE "other"
myAddress == "shielded"
isSelfNative(f) ==
  \/ flow[f].kind = "withdraw" /\ Recipient(f) = myAddress
  \/ flow[f].kind = "unshieldToken" /\ Recipient(f) = "wallet"

(* An exception: a helper's goes to its caller; the other flows unwrap     *)
(* what was delivered so far and refresh.                                  *)
Caught(f) ==
  IF flow[f].kind \in Helpers THEN Resting
  ELSE [flow[f] EXCEPT !.at = IF isSelfNative(f) /\ Delivered(f) > 0 THEN "unwrap" ELSE "refresh",
                       !.inputs = {}, !.ok = FALSE, !.caught = TRUE]

(* The flows: what the user asks for, and where it starts.                 *)
Starts(f, kind, at, amounts, selves) ==
  /\ flow[f].at = "idle"
  /\ \A g \in Flow \ {f} : flow[g].at # "idle" => {kind, flow[g].kind} \in scenario.overlaps
  /\ \E kinds \in scenario.overlaps : kind \in kinds
  /\ \E amount \in amounts, self \in selves :
       Go(f, [Resting EXCEPT !.kind = kind, !.amount = amount, !.remaining = amount,
                             !.self = self, !.at = at, !.caught = at = "refresh"])
  /\ UNCHANGED <<scenario, notes, nullified, wallet, client>>

sendMulti(f)     == Starts(f, "send", "part", scenario.amounts, {FALSE})
swapMulti(f)     == Starts(f, "swap", "part", scenario.amounts, {FALSE})
withdrawMulti(f) == Starts(f, "withdraw", "part", scenario.amounts, BOOLEAN)
unshieldToken(f) == Starts(f, "unshieldToken", "part", scenario.amounts, BOOLEAN)
run(f)           == wallet.nonce <= MaxNonce /\ Starts(f, "shield", "wrap", scenario.amounts, {FALSE})
shieldToken(f)   == wallet.nonce <= MaxNonce /\ Starts(f, "shieldToken", "wrap", scenario.amounts, {FALSE})
onRefresh(f)     == Starts(f, "refresh", "refresh", {0}, {FALSE})

-----------------------------------------------------------------------------
(* A split flow.                                                           *)
Chunk_Whole(remaining) == maxSpendable
Chunk(remaining) == Min({remaining, maxSpendable})

(* The least a swap may return, for its amount and for one of its parts.   *)
MinOut(amount) == 2 * amount - 1
MinOutChunk_LastOnly(minOut, chunk, amount, remaining) ==
  IF remaining = chunk THEN (minOut * chunk) \div amount ELSE 0
MinOutChunk(minOut, chunk, amount, remaining) == (minOut * chunk) \div amount

Part(f) ==
  /\ flow[f].at = "part"
  /\ Go(f, IF maxSpendable = 0 THEN Caught(f)
           ELSE LET chunk == Chunk(flow[f].remaining)
                IN  Build([flow[f] EXCEPT
                             !.chunk = chunk, !.parts = @ + 1,
                             !.floor = IF flow[f].kind # "swap" THEN 0 ELSE
                                @ + MinOutChunk(MinOut(flow[f].amount), chunk,
                                                flow[f].amount, flow[f].remaining)],
                          "select"))
  /\ UNCHANGED <<scenario, notes, nullified, wallet, client>>

(* Selecting and reserving happen at once.                                 *)
Select(f) ==
  /\ flow[f].at = "select"
  /\ IF selectInputs(flow[f].chunk) = {}
     THEN Go(f, Caught(f)) /\ UNCHANGED client
     ELSE \E inputs \in selectInputs(flow[f].chunk) :
            /\ client' = [client EXCEPT !.reserved = @ \cup Ids(inputs), !.freed = @ \ {f}]
            /\ Go(f, [flow[f] EXCEPT !.at = "prove", !.inputs = inputs])
  /\ UNCHANGED <<scenario, notes, nullified, wallet>>

-----------------------------------------------------------------------------
(* A shield: wrapEth, ensureApproval, the nonce that its label is made of. *)
Wrap(f) ==
  /\ flow[f].at = "wrap" /\ wallet.eth >= flow[f].amount
  /\ wallet' = [wallet EXCEPT !.eth = @ - flow[f].amount, !.weth = @ + flow[f].amount]
  /\ Go(f, [flow[f] EXCEPT !.at = "approve"])
  /\ UNCHANGED <<scenario, notes, nullified, client>>

ensureApproval(f) ==
  /\ flow[f].at = "approve"
  /\ wallet' = [wallet EXCEPT !.allowed = TRUE]
  /\ Go(f, Build(flow[f], "nonce"))
  /\ UNCHANGED <<scenario, notes, nullified, client>>

(* The wallet refuses: no funds, or the user says no.                      *)
WalletRefuses(f) ==
  /\ \/ flow[f].at \in {"wrap", "unwrap"}
     \/ flow[f].at = "approve" /\ ~wallet.allowed
  /\ Go(f, IF flow[f].at = "unwrap" /\ flow[f].caught
           THEN [flow[f] EXCEPT !.at = "refresh"] ELSE Caught(f))
  /\ UNCHANGED <<scenario, notes, nullified, wallet, client>>

ReadNonce(f) ==
  /\ flow[f].at = "nonce"
  /\ Go(f, [flow[f] EXCEPT !.at = "prove", !.nonce = wallet.nonce])
  /\ UNCHANGED <<scenario, notes, nullified, wallet, client>>

-----------------------------------------------------------------------------
(* sync: the logs are read, then applied, then the root check answers.     *)
Query(f) ==
  /\ flow[f].at = "ask"
  /\ Go(f, [flow[f] EXCEPT !.at = "apply", !.logs = <<notes, nullified>>])
  /\ UNCHANGED <<scenario, notes, nullified, wallet, client>>

Apply(f) ==
  /\ flow[f].at = "apply"
  /\ client' = [client EXCEPT !.owned = @ \cup flow[f].logs[1],
                              !.spent = @ \cup flow[f].logs[2]]
  /\ Go(f, [flow[f] EXCEPT !.at = "guard", !.logs = Resting.logs])
  /\ UNCHANGED <<scenario, notes, nullified, wallet>>

Synced(f) ==
  /\ flow[f].at = "guard"
  /\ client' = IF flow[f].then \in {"select", "nonce"}
               THEN [client EXCEPT !.everSynced = TRUE, !.dirty = FALSE]
               ELSE client
  /\ Go(f, IF flow[f].then = "idle" THEN Resting ELSE [flow[f] EXCEPT !.at = flow[f].then])
  /\ UNCHANGED <<scenario, notes, nullified, wallet>>

(* A refresh that fails inside a flow is caught, and tried once more.      *)
RefreshOver(f) == IF flow[f].caught THEN Resting ELSE Caught(f)

(* A query fails for good.                                                 *)
SyncFails(f) ==
  /\ flow[f].at \in {"ask", "apply", "guard", "nonce"}
  /\ Go(f, IF flow[f].at # "nonce" /\ flow[f].then = "idle" THEN RefreshOver(f) ELSE Caught(f))
  /\ UNCHANGED <<scenario, notes, nullified, wallet, client>>

Prove(f) ==
  /\ flow[f].at = "prove"
  /\ Go(f, [flow[f] EXCEPT !.at = "submit"])
  /\ UNCHANGED <<scenario, notes, nullified, wallet, client>>

(* The label is not approved yet, or the prover fails: the notes are       *)
(* released, whoever else may hold them by now.                            *)
Sharing(f) == { g \in Flow \ {f} : Ids(flow[g].inputs) \cap Ids(flow[f].inputs) # {} }
ProveFails(f) ==
  /\ flow[f].at = "prove"
  /\ client' = [client EXCEPT !.reserved = @ \ Ids(flow[f].inputs), !.freed = @ \cup Sharing(f)]
  /\ Go(f, Caught(f))
  /\ UNCHANGED <<scenario, notes, nullified, wallet>>

-----------------------------------------------------------------------------
(* What a built transaction asks of the contract: whom it pays and whether *)
(* it mints a label, for a swap's proceeds.                                *)
buildTransfer(f) == [pays |-> "receiver", mints |-> FALSE]
buildUnshield(f) == [pays |-> Recipient(f), mints |-> FALSE]
buildSwap(f)     == [pays |-> "market", mints |-> TRUE]
Built(f) == IF flow[f].kind = "send" THEN buildTransfer(f)
            ELSE IF flow[f].kind = "swap" THEN buildSwap(f) ELSE buildUnshield(f)

NewNote(label, amount) == {[id |-> Max({0} \cup Ids(notes)) + 1, label |-> label, amount |-> amount]}

(* The contract takes a part: its inputs are spent, the change is a note   *)
(* of the same label.                                                      *)
MineSpend(f) ==
  /\ flow[f].at = "submit" /\ flow[f].kind \in Split
  /\ Ids(flow[f].inputs) \cap nullified = {}
  /\ LET change == Total(flow[f].inputs) - flow[f].chunk
         label  == (CHOOSE n \in flow[f].inputs : TRUE).label
     IN  notes' = notes \cup (IF change = 0 THEN {} ELSE NewNote(label, change))
  /\ nullified' = nullified \cup Ids(flow[f].inputs)
  /\ wallet' = [wallet EXCEPT !.weth  = IF Built(f).pays = "wallet" THEN @ + flow[f].chunk ELSE @,
                              !.nonce = IF Built(f).mints THEN @ + 1 ELSE @]
  /\ Go(f, [flow[f] EXCEPT !.at = "mined", !.paid = @ + flow[f].chunk])
  /\ UNCHANGED <<scenario, client>>

(* It takes a shield whose proof names the sender's current nonce.         *)
NonceCurrent(f) == flow[f].nonce = wallet.nonce

MineShield(f) ==
  /\ flow[f].at = "submit" /\ flow[f].kind \in Shields
  /\ NonceCurrent(f) /\ wallet.weth >= flow[f].amount
  /\ notes' = notes \cup NewNote(flow[f].nonce, flow[f].amount)
  /\ wallet' = [wallet EXCEPT !.weth = @ - flow[f].amount, !.nonce = @ + 1]
  /\ Go(f, [flow[f] EXCEPT !.at = "mined", !.paid = flow[f].amount, !.remaining = 0])
  /\ UNCHANGED <<scenario, nullified, client>>

(* It is mined and reverts.                                                *)
Revert(f) ==
  /\ Reverts /\ flow[f].at = "submit"
  /\ Go(f, [flow[f] EXCEPT !.at = "mined", !.reverted = TRUE])
  /\ UNCHANGED <<scenario, notes, nullified, wallet, client>>

(* It is refused, or its receipt never comes.                              *)
SubmitFails(f) ==
  /\ flow[f].at \in {"submit", "mined"}
  /\ Go(f, Caught(f))
  /\ UNCHANGED <<scenario, notes, nullified, wallet, client>>

Done(f, local) == [local EXCEPT !.at = "refresh", !.inputs = {}, !.ok = TRUE]

(* The receipt: its status is not looked at.                               *)
Receipt(f) ==
  /\ flow[f].at = "mined"
  /\ LET left == IF flow[f].kind \in Split THEN flow[f].remaining - flow[f].chunk ELSE 0
         local == [flow[f] EXCEPT !.remaining = left, !.inputs = {}]
     IN  IF left > 0
         THEN /\ invalidate(f)
              /\ Go(f, [local EXCEPT !.at = "ask", !.then = "part"])
         ELSE /\ UNCHANGED client
              /\ Go(f, IF isSelfNative(f) THEN [local EXCEPT !.at = "unwrap"] ELSE Done(f, local))
  /\ UNCHANGED <<scenario, notes, nullified, wallet>>

(* WETH delivered to the wallet becomes ether; a reverted part leaves too  *)
(* little of it, and the withdrawal from WETH reverts.                     *)
unwrapEth(f) ==
  /\ flow[f].at = "unwrap"
  /\ LET ok == Delivered(f) <= wallet.weth
     IN  /\ wallet' = IF ok THEN [wallet EXCEPT !.weth = @ - Delivered(f), !.eth = @ + Delivered(f)]
                      ELSE wallet
         /\ Go(f, Done(f, [flow[f] EXCEPT !.unwrapped = ok, !.reverted = @ \/ ~ok]))
  /\ UNCHANGED <<scenario, notes, nullified, client>>

(* The end of every flow, whether it went well or not.                     *)
Refresh(f) ==
  /\ flow[f].at = "refresh"
  /\ invalidate(f)
  /\ Go(f, [Resting EXCEPT !.at = "ask", !.caught = flow[f].caught \/ flow[f].kind \in Helpers])
  /\ UNCHANGED <<scenario, notes, nullified, wallet>>

(* Its balance reads come first; when they fail the rest is not run.       *)
RefreshFails(f) ==
  /\ ReadsFail /\ flow[f].at = "refresh"
  /\ Go(f, RefreshOver(f))
  /\ UNCHANGED <<scenario, notes, nullified, wallet, client>>

Next ==
  \E f \in Flow :
    \/ sendMulti(f) \/ swapMulti(f) \/ withdrawMulti(f) \/ unshieldToken(f)
    \/ run(f) \/ shieldToken(f) \/ onRefresh(f)
    \/ Part(f) \/ Query(f) \/ Apply(f) \/ Synced(f) \/ SyncFails(f)
    \/ Select(f) \/ Wrap(f) \/ ensureApproval(f) \/ WalletRefuses(f) \/ ReadNonce(f)
    \/ Prove(f) \/ ProveFails(f)
    \/ MineSpend(f) \/ MineShield(f) \/ Revert(f) \/ SubmitFails(f) \/ Receipt(f)
    \/ unwrapEth(f) \/ Refresh(f) \/ RefreshFails(f)

Spec == Init /\ [][Next]_vars

-----------------------------------------------------------------------------
TypeOK ==
  /\ nullified \subseteq Ids(notes) /\ client.owned \subseteq notes
  /\ client.spent \cup client.reserved \subseteq Ids(notes)
  /\ {wallet.eth, wallet.weth} \subseteq Nat
  /\ \A f \in Flow : /\ flow[f].inputs \subseteq notes /\ Cardinality(flow[f].inputs) <= 2
                     /\ flow[f].kind \in Kind
                     /\ {flow[f].remaining, flow[f].chunk} \subseteq Nat

(* "concurrent/rapid builds can't double-select" (AUDIT.md:31): two builds *)
(* under way never hold the same note.                                     *)
NoDoubleSelect ==
  \A f, g \in Flow : f # g => flow[f].inputs \cap flow[g].inputs = {}

(* What is so of the code: two builds hold the same note only if one of    *)
(* them lost its hold, to an invalidate or to a build that failed.         *)
HoldsAreApart ==
  \A f, g \in Flow \ client.freed : f # g => flow[f].inputs \cap flow[g].inputs = {}

(* A build never takes a note the account's own transactions have spent.   *)
SelectsUnspent ==
  \A f \in Flow :
    flow[f].at \in {"prove", "submit"} => Ids(flow[f].inputs) \cap nullified = {}

(* What is so of the code: it never takes one whose spending came before   *)
(* an invalidate that came before the build, though receipts get lost and  *)
(* syncs fail, unless some invalidate came while a build was synchronising *)
(* ("the next build does an incremental sync", client/src/pool.ts:575).    *)
TakesNoneItWasToldOf ==
  \A f \in Flow :
    ~ client.lost /\ flow[f].at \in {"prove", "submit"} => Ids(flow[f].inputs) \cap flow[f].knew = {}

(* However its builds, submissions and syncs ended, an account with no     *)
(* flow under way has no note locked: "reconcile state (frees any reserved *)
(* notes) so a retry works" (web/app/src/App.tsx:191).                     *)
NothingLockedAtRest == (\A f \in Flow : flow[f].at = "idle") => client.reserved = {}

(* The amount maxSpendable promises is the most selectInputs can cover, so *)
(* a split flow does not fail on a part it chose itself.                   *)
SplitFits ==
  \A need \in 1 .. Total(utxos) : (selectInputs(need) # {}) <=> need <= maxSpendable

(* A flow that reports an amount as sent, withdrawn, swapped or shielded   *)
(* has moved it, no less and no more, unless a transaction of it was mined *)
(* and reverted: "Send `amount` privately, splitting across labels         *)
(* automatically" (web/app/src/App.tsx, sendMulti).                        *)
SentUnlessReverted ==
  \A f \in Flow : flow[f].ok /\ ~flow[f].reverted => flow[f].paid = flow[f].amount

(* The same without the exception; a reverted part refutes it.             *)
SentInFull == \A f \in Flow : flow[f].ok => flow[f].paid = flow[f].amount

(* The floors of a swap's parts add up to the floor of the whole, but for  *)
(* the rounding, less than one unit in each part: "Each chunk gets a       *)
(* proportional slippage floor" (web/app/src/App.tsx, swapMulti).          *)
FloorsAddUp ==
  \A f \in Flow :
    flow[f].kind = "swap" /\ flow[f].ok => flow[f].floor + flow[f].parts > MinOut(flow[f].amount)

(* "For a native-ETH withdrawal to yourself the delivered WETH is          *)
(* unwrapped once at the end" (web/app/src/App.tsx, withdrawMulti).        *)
WithdrawnAsEther ==
  \A f \in Flow :
    flow[f].kind = "withdraw" /\ flow[f].self /\ flow[f].ok /\ ~flow[f].reverted
      => flow[f].unwrapped
=============================================================================
