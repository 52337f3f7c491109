------------------------ MODULE ClientBuilds_proofs ------------------------
(***************************************************************************)
(* Proofs about ClientBuilds, for any number of flows over any notes: that *)
(* a flow which reports an amount as moved has moved it, and that two      *)
(* builds share a note only if one of them lost its hold, and which spent  *)
(* notes a build may still take.                                           *)
(***************************************************************************)
EXTENDS ClientBuilds, SumTheorems

USE SpendAssumption

Fields ==
  {"at", "kind", "then", "self", "caught", "amount", "remaining", "chunk", "floor", "parts", "nonce",
   "inputs", "logs", "paid", "reverted", "unwrapped", "knew", "ok"}

(* A flow between its parts, before the contract has taken the next one.   *)
Syncing(r) == r.at \in {"ask", "apply", "guard"}
HasChunk(r) == r.at \in {"select", "prove", "submit"} \/ (Syncing(r) /\ r.then = "select")
BeforePart(r) == r.at = "part" \/ (Syncing(r) /\ r.then = "part") \/ HasChunk(r)

(* What a flow has moved so far, at each place where it may wait.          *)
Amounted(r) ==
  /\ r.amount \in Int /\ r.remaining \in Int /\ r.chunk \in Int /\ r.paid \in Int
  /\ Syncing(r) => r.then \in {"select", "nonce", "part", "idle"}
  /\ r.kind \in Split => r.at \notin {"wrap", "approve", "nonce"} /\ r.then # "nonce"
  /\ r.kind \in Split /\ BeforePart(r) /\ ~ r.reverted => r.paid + r.remaining = r.amount
  /\ r.kind \in Split /\ (HasChunk(r) \/ r.at = "mined") => r.chunk <= r.remaining
  /\ r.at = "mined" /\ ~ r.reverted =>
       IF r.kind \in Split THEN r.paid + r.remaining = r.amount + r.chunk ELSE r.paid = r.amount
  /\ r.at = "unwrap" /\ ~ r.reverted => r.paid = r.amount
  /\ r.ok => r.at = "refresh" /\ (~ r.reverted => r.paid = r.amount)
Good(r) == DOMAIN r = Fields /\ Amounted(r)

NotesOK ==
  IsFiniteSet(notes) /\ (\A n \in notes : n.amount \in Int) /\ client.owned \subseteq notes
ClientOK ==
  DOMAIN client = {"owned", "spent", "reserved", "everSynced", "dirty", "freed", "told", "lost"}

Fits(r, set) == r.inputs \subseteq set /\ r.logs[1] \subseteq set
FlowsOK == DOMAIN flow = Flow /\ \A f \in Flow : Good(flow[f]) /\ Fits(flow[f], notes)
BuildsInv == FlowsOK /\ NotesOK /\ ClientOK /\ scenario \in Scenario

(* A flow's step changes its record, and no other's.                       *)
LEMMA GoStep ==
  ASSUME DOMAIN flow = Flow, NEW f, f \in Flow, NEW r, Go(f, r)
  PROVE  DOMAIN flow' = Flow /\ flow'[f] = r /\ \A g \in Flow : g # f => flow'[g] = flow[g]
BY DEF Go

(* A flow that moves on, while notes are only added, leaves the flows in   *)
(* order.                                                                  *)
LEMMA FlowsGo ==
  ASSUME FlowsOK, NEW f, f \in Flow, NEW r, Good(r), Go(f, r), notes \subseteq notes', Fits(r, notes')
  PROVE  FlowsOK'
<1>1. DOMAIN flow = Flow
  BY DEF FlowsOK
<1>2. DOMAIN flow' = Flow /\ flow'[f] = r /\ \A g \in Flow : g # f => flow'[g] = flow[g]
  BY <1>1, GoStep
<1>3. \A g \in Flow : Good(flow[g]) /\ Fits(flow[g], notes')
  BY DEF FlowsOK, Fits
<1>4. \A g \in Flow : Good(flow'[g]) /\ Fits(flow'[g], notes')
  BY <1>2, <1>3
<1> QED BY <1>2, <1>4 DEF FlowsOK

(* Most steps leave the chain's notes as they are.                         *)
LEMMA QuietStep ==
  ASSUME BuildsInv, NEW f, f \in Flow, NEW r, Good(r), Go(f, r), Fits(r, notes),
         notes' = notes, ClientOK', client'.owned \subseteq notes, scenario' = scenario
  PROVE  BuildsInv'
<1>1. FlowsOK'
  BY FlowsGo DEF BuildsInv
<1> QED BY <1>1 DEF BuildsInv, NotesOK

(* A flow at rest, and one whose refresh has started.                      *)
LEMMA RestingGood == Good(Resting) /\ \A a : Good([Resting EXCEPT !.at = "ask", !.caught = a])
BY DEF Good, Amounted, Resting, Fields, Syncing, HasChunk, BeforePart, Split, Exits

(* Nothing is reported by a flow that fails.                               *)
LEMMA CaughtGood == ASSUME NEW f, Good(flow[f]) PROVE Good(Caught(f))
<1> DEFINE r == flow[f]
<1>1. CASE r.kind \in Helpers
  BY <1>1, RestingGood DEF Caught
<1>2. CASE r.kind \notin Helpers
  <2>1. ~ isSelfNative(f)
    BY <1>2 DEF isSelfNative, Recipient, myAddress, Helpers
  <2>2. Caught(f) = [r EXCEPT !.at = "refresh", !.inputs = {}, !.ok = FALSE, !.caught = TRUE]
    BY <1>2, <2>1 DEF Caught
  <2>3. Good(r)
    OBVIOUS
  <2> HIDE DEF r
  <2>4. Good([r EXCEPT !.at = "refresh", !.inputs = {}, !.ok = FALSE, !.caught = TRUE])
    BY <2>3 DEF Good, Amounted, Fields, Syncing, HasChunk, BeforePart
  <2> QED BY <2>2, <2>4
<1> QED BY <1>1, <1>2

(* The steps that only move a flow on.                                     *)
LEMMA MovesOn ==
  ASSUME NEW r, Good(r)
  PROVE  /\ r.at = "prove" => Good([r EXCEPT !.at = "submit"])
         /\ r.at = "ask" => \A x : Good([r EXCEPT !.at = "apply", !.logs = x])
         /\ r.at = "apply" => \A x : Good([r EXCEPT !.at = "guard", !.logs = x])
         /\ r.at = "guard" /\ r.then # "idle" => Good([r EXCEPT !.at = r.then])
         /\ r.at = "nonce" => \A x : Good([r EXCEPT !.at = "prove", !.nonce = x])
         /\ r.at = "wrap" => Good([r EXCEPT !.at = "approve"])
         /\ r.at = "select" => \A x : Good([r EXCEPT !.at = "prove", !.inputs = x])
         /\ r.at = "unwrap" => Good([r EXCEPT !.at = "refresh"])
         /\ r.at = "submit" => Good([r EXCEPT !.at = "mined", !.reverted = TRUE])
<1> USE DEF Good, Amounted, Fields, Syncing, HasChunk, BeforePart
<1>1. r.at = "prove" => Good([r EXCEPT !.at = "submit"])
  OBVIOUS
<1>2. r.at = "ask" => \A x : Good([r EXCEPT !.at = "apply", !.logs = x])
  OBVIOUS
<1>3. r.at = "apply" => \A x : Good([r EXCEPT !.at = "guard", !.logs = x])
  OBVIOUS
<1>4. r.at = "guard" /\ r.then # "idle" => Good([r EXCEPT !.at = r.then])
  OBVIOUS
<1>5. r.at = "nonce" => \A x : Good([r EXCEPT !.at = "prove", !.nonce = x])
  OBVIOUS
<1>6. r.at = "wrap" => Good([r EXCEPT !.at = "approve"])
  OBVIOUS
<1>7. r.at = "select" => \A x : Good([r EXCEPT !.at = "prove", !.inputs = x])
  OBVIOUS
<1>8. r.at = "unwrap" => Good([r EXCEPT !.at = "refresh"])
  OBVIOUS
<1>9. r.at = "submit" => Good([r EXCEPT !.at = "mined", !.reverted = TRUE])
  OBVIOUS
<1> HIDE DEF Good, Amounted, Fields, Syncing, HasChunk, BeforePart
<1> QED BY <1>1, <1>2, <1>3, <1>4, <1>5, <1>6, <1>7, <1>8, <1>9

(* What may be selected, and the pairs maxSpendable looks at, are sets of  *)
(* free notes.                                                             *)
LEMMA PairsAreNotes == ASSUME NEW label PROVE Pairs(label) \subseteq SUBSET utxos
BY DEF Pairs, Largest, OfLabel

(* Inputs are selected from the notes the client knows to be unspent.      *)
LEMMA SelectedAreNotes == ASSUME NEW need PROVE selectInputs(need) \subseteq SUBSET utxos
<1>1. \A label : Candidates(label, need) \subseteq SUBSET utxos
  BY DEF Candidates, Largest, OfLabel
<1>2. \A label : Pairs(label) \subseteq SUBSET utxos
  BY PairsAreNotes
<1> QED BY <1>1, <1>2 DEF selectInputs

(* The client's notes are notes of the chain, finitely many.               *)
LEMMA FreeNotes ==
  ASSUME NotesOK
  PROVE  /\ utxos \subseteq notes /\ IsFiniteSet(utxos) /\ IsFiniteSet(SUBSET utxos)
         /\ \A n \in utxos : n.amount \in Int
<1>1. utxos \subseteq notes
  BY DEF utxos, NotesOK
<1>2. IsFiniteSet(utxos)
  BY <1>1, FS_Subset DEF NotesOK
<1> QED BY <1>1, <1>2, FS_SUBSET DEF NotesOK

(* Notes have an integer total.                                            *)
LEMMA TotalIsInt == ASSUME NotesOK, NEW p, p \subseteq notes PROVE Total(p) \in Int
<1>1. IsFiniteSet(p)
  BY FS_Subset DEF NotesOK
<1>2. \A n \in p : [m \in p |-> m.amount][n] \in Int
  BY DEF NotesOK
<1> HIDE DEF NotesOK
<1>3. SumFunctionOnSet([m \in p |-> m.amount], p) \in Int
  BY <1>1, <1>2, SumType
<1> QED BY <1>3 DEF Total

(* The most one transaction can spend is an integer.                       *)
LEMMA SpendableIsInt == ASSUME NotesOK PROVE maxSpendable \in Int
<1> DEFINE A == { n.amount : n \in utxos }
           Q == UNION { Pairs(l) : l \in Labels }
           B == { Total(p) : p \in Q }
           g == [n \in utxos |-> n.amount]
           t == [p \in Q |-> Total(p)]
<1>1. Q \subseteq SUBSET utxos
  BY PairsAreNotes
<1>2. IsFiniteSet(Q)
  BY <1>1, FreeNotes, FS_Subset
<1>3. B \subseteq Int
  BY <1>1, FreeNotes, TotalIsInt
<1>4. A \subseteq Int
  BY FreeNotes
<1>5. { g[n] : n \in utxos } = A
  OBVIOUS
<1>6. { t[p] : p \in Q } = B
  OBVIOUS
<1>7. IsFiniteSet(A)
  <2> HIDE DEF g, A
  <2> QED BY <1>5, FreeNotes, FiniteImage
<1>8. IsFiniteSet(B)
  <2> HIDE DEF t, B, Q
  <2> QED BY <1>2, <1>6, FiniteImage
<1>9. maxSpendable = Max({0} \cup A \cup B)
  BY DEF maxSpendable
<1> HIDE DEF A, B, Q, g, t
<1>10. IsFiniteSet({0} \cup A \cup B)
  BY <1>7, <1>8, FS_Singleton, FS_Union
<1>11. {0} \cup A \cup B \subseteq Int /\ {0} \cup A \cup B # {}
  BY <1>3, <1>4
<1>12. Max({0} \cup A \cup B) \in {0} \cup A \cup B
  BY <1>10, <1>11, MaxOfFinite
<1> QED BY <1>9, <1>11, <1>12

(* A part is no larger than what is left to send.                          *)
LEMMA ChunkFits ==
  ASSUME NotesOK, NEW left \in Int PROVE Chunk(left) \in Int /\ Chunk(left) <= left
BY SpendableIsInt, MinOfPair DEF Chunk

(* A flow that begins.                                                     *)
Begun(kind, at, amount, self) ==
  [Resting EXCEPT !.kind = kind, !.amount = amount, !.remaining = amount,
                  !.self = self, !.at = at, !.caught = at = "refresh"]
Entry(kind, at) ==
  \/ kind \in Split /\ at = "part"
  \/ kind \in Shields /\ at = "wrap"
  \/ kind = "refresh" /\ at = "refresh"

(* A flow begins in order.                                                 *)
LEMMA BegunGood ==
  ASSUME NEW kind, NEW at, NEW amount \in Int, NEW self, Entry(kind, at)
  PROVE  Good(Begun(kind, at, amount, self)) /\ Fits(Begun(kind, at, amount, self), notes)
<1>1. Good(Begun(kind, at, amount, self))
  BY DEF Good, Amounted, Resting, Fields, Syncing, HasChunk, BeforePart, Split, Shields, Entry, Begun
<1>2. Fits(Begun(kind, at, amount, self), notes)
  BY DEF Fits, Resting, Begun
<1> QED BY <1>1, <1>2

(* The invariant, when a flow starts.                                      *)
LEMMA StartsStep ==
  ASSUME BuildsInv, NEW f, f \in Flow, NEW kind, NEW at, NEW amounts, amounts \subseteq Int, NEW selves,
         Entry(kind, at), Starts(f, kind, at, amounts, selves)
  PROVE  BuildsInv'
<1>1. PICK amount \in amounts, self \in selves : Go(f, Begun(kind, at, amount, self))
  BY DEF Starts, Begun
<1>2. amount \in Int
  OBVIOUS
<1>3. UNCHANGED <<scenario, notes, client>>
  BY DEF Starts
<1>4. ClientOK' /\ client'.owned \subseteq notes
  BY <1>3 DEF BuildsInv, ClientOK, NotesOK
<1> QED BY <1>1, <1>2, <1>3, <1>4, BegunGood, QuietStep

Begins(f) ==
  \/ sendMulti(f) \/ swapMulti(f) \/ withdrawMulti(f) \/ unshieldToken(f)
  \/ run(f) \/ shieldToken(f) \/ onRefresh(f)

(* The same for every kind of flow.                                        *)
LEMMA BeginsStep ==
  ASSUME BuildsInv, NEW f, f \in Flow, Begins(f) PROVE BuildsInv'
<1>1. scenario.amounts \subseteq Int /\ {0} \subseteq Int
  BY DEF BuildsInv
<1>2. Entry("send", "part") /\ Entry("swap", "part") /\ Entry("withdraw", "part")
      /\ Entry("unshieldToken", "part") /\ Entry("shield", "wrap") /\ Entry("shieldToken", "wrap")
      /\ Entry("refresh", "refresh")
  BY DEF Entry, Split, Shields
<1>3. \/ Starts(f, "send", "part", scenario.amounts, {FALSE})
      \/ Starts(f, "swap", "part", scenario.amounts, {FALSE})
      \/ Starts(f, "withdraw", "part", scenario.amounts, BOOLEAN)
      \/ Starts(f, "unshieldToken", "part", scenario.amounts, BOOLEAN)
      \/ Starts(f, "shield", "wrap", scenario.amounts, {FALSE})
      \/ Starts(f, "shieldToken", "wrap", scenario.amounts, {FALSE})
      \/ Starts(f, "refresh", "refresh", {0}, {FALSE})
  BY DEF Begins, sendMulti, swapMulti, withdrawMulti, unshieldToken, run, shieldToken, onRefresh
<1> HIDE DEF Begins
<1> QED BY <1>1, <1>2, <1>3, StartsStep

(* An exception ends a helper, and sends any other flow to its refresh.    *)
LEMMA CaughtFits ==
  ASSUME NEW f, Good(flow[f]), Fits(flow[f], notes) PROVE Fits(Caught(f), notes)
<1>1. Fits(Resting, notes)
  BY DEF Fits, Resting
<1>2. \A at : Fits([flow[f] EXCEPT !.at = at, !.inputs = {}, !.ok = FALSE, !.caught = TRUE], notes)
  BY DEF Fits, Good, Fields
<1>3. \A c \in BOOLEAN :
        Fits([flow[f] EXCEPT !.at = IF c THEN "unwrap" ELSE "refresh",
                             !.inputs = {}, !.ok = FALSE, !.caught = TRUE], notes)
  BY <1>2
<1> QED BY <1>1, <1>2, <1>3 DEF Caught

(* The invariant, when a flow's error is caught.                           *)
LEMMA CaughtStep ==
  ASSUME BuildsInv, NEW f, f \in Flow, Go(f, Caught(f)), notes' = notes, scenario' = scenario,
         ClientOK', client'.owned \subseteq notes
  PROVE  BuildsInv'
<1>1. Good(flow[f]) /\ Fits(flow[f], notes)
  BY DEF BuildsInv, FlowsOK
<1>2. Good(Caught(f)) /\ Fits(Caught(f), notes)
  BY <1>1, CaughtGood, CaughtFits
<1> QED BY <1>2, QuietStep

(* The client may change its marks, not what notes it knows.               *)
LEMMA ClientKept ==
  ASSUME BuildsInv, client' = client PROVE ClientOK' /\ client'.owned \subseteq notes
BY DEF BuildsInv, ClientOK, NotesOK

(* Marks the client sets on its notes leave its notes alone.               *)
LEMMA ClientMarks ==
  ASSUME BuildsInv, NEW s, NEW e, client' = [client EXCEPT !.reserved = s, !.freed = e]
  PROVE  ClientOK' /\ client'.owned \subseteq notes
BY DEF BuildsInv, ClientOK, NotesOK

(* Invalidating the client leaves its notes alone, too.                    *)
LEMMA InvalidateMarks ==
  ASSUME BuildsInv, NEW f, invalidate(f) PROVE ClientOK' /\ client'.owned \subseteq notes
BY DEF invalidate, Invalidated, BuildsInv, ClientOK, NotesOK

(* A build starts from a flow that is about to sync or select.             *)
LEMMA PartGood ==
  ASSUME NEW r, Good(r), Fits(r, notes), r.at = "part", NEW chunk \in Int, chunk <= r.remaining,
         NEW parts, NEW floor
  PROVE  LET b == Build([r EXCEPT !.chunk = chunk, !.parts = parts, !.floor = floor], "select")
         IN  Good(b) /\ Fits(b, notes)
<1> DEFINE q == [r EXCEPT !.chunk = chunk, !.parts = parts, !.floor = floor]
<1>1. \A k : \A at \in {"select", "ask"} : Good([q EXCEPT !.at = at, !.then = "select", !.knew = k])
  BY DEF Good, Amounted, Fields, Syncing, HasChunk, BeforePart
<1>2. \A k, at : Fits([q EXCEPT !.at = at, !.then = "select", !.knew = k], notes)
  BY DEF Good, Fields, Fits
<1> HIDE DEF q
<1>3. Good(Build(q, "select")) /\ Fits(Build(q, "select"), notes)
  BY <1>1, <1>2 DEF Build
<1> QED BY <1>3 DEF q

(* The invariant, when a flow takes its next part.                         *)
LEMMA PartStep == ASSUME BuildsInv, NEW f, f \in Flow, Part(f) PROVE BuildsInv'
<1> DEFINE r == flow[f]
           chunk == Chunk(r.remaining)
           floor == IF r.kind # "swap" THEN 0
                    ELSE r.floor + MinOutChunk(MinOut(r.amount), chunk, r.amount, r.remaining)
<1>1. Good(r) /\ Fits(r, notes)
  BY DEF BuildsInv, FlowsOK
<1>2. UNCHANGED <<scenario, notes, client>> /\ r.at = "part"
  BY DEF Part
<1>3. ClientOK' /\ client'.owned \subseteq notes
  BY <1>2, ClientKept
<1>4. CASE maxSpendable = 0
  BY <1>2, <1>3, <1>4, CaughtStep DEF Part
<1>5. CASE maxSpendable # 0
  <2>1. chunk \in Int /\ chunk <= r.remaining
    BY <1>1, ChunkFits DEF Good, Amounted, BuildsInv
  <2>2. Go(f, Build([r EXCEPT !.chunk = chunk, !.parts = r.parts + 1, !.floor = floor], "select"))
    BY <1>5 DEF Part
  <2>3. Good(r) /\ Fits(r, notes) /\ r.at = "part"
    BY <1>1, <1>2
  <2> HIDE DEF r, chunk, floor
  <2>4. Good(Build([r EXCEPT !.chunk = chunk, !.parts = r.parts + 1, !.floor = floor], "select"))
        /\ Fits(Build([r EXCEPT !.chunk = chunk, !.parts = r.parts + 1, !.floor = floor], "select"), notes)
    BY <2>1, <2>3, PartGood
  <2> QED BY <1>2, <1>3, <2>2, <2>4, QuietStep
<1> QED BY <1>4, <1>5

(* When it selects inputs.                                                 *)
LEMMA SelectStep == ASSUME BuildsInv, NEW f, f \in Flow, Select(f) PROVE BuildsInv'
<1>1. Good(flow[f]) /\ Fits(flow[f], notes)
  BY DEF BuildsInv, FlowsOK
<1>2. UNCHANGED <<scenario, notes>> /\ flow[f].at = "select"
  BY DEF Select
<1>3. CASE selectInputs(flow[f].chunk) = {}
  <2>1. Go(f, Caught(f)) /\ client' = client
    BY <1>3 DEF Select
  <2> QED BY <1>2, <2>1, ClientKept, CaughtStep
<1>4. CASE selectInputs(flow[f].chunk) # {}
  <2>1. PICK inputs \in selectInputs(flow[f].chunk) :
          /\ client' = [client EXCEPT !.reserved = client.reserved \cup Ids(inputs),
                                      !.freed = client.freed \ {f}]
          /\ Go(f, [flow[f] EXCEPT !.at = "prove", !.inputs = inputs])
    BY <1>4 DEF Select
  <2>2. inputs \subseteq notes
    BY <2>1, SelectedAreNotes, FreeNotes DEF BuildsInv
  <2>3. Good([flow[f] EXCEPT !.at = "prove", !.inputs = inputs])
    BY <1>1, <1>2, MovesOn
  <2>4. Fits([flow[f] EXCEPT !.at = "prove", !.inputs = inputs], notes)
    BY <1>1, <2>2 DEF Fits, Good, Fields
  <2>5. ClientOK' /\ client'.owned \subseteq notes
    BY <2>1, ClientMarks
  <2> QED BY <1>2, <2>1, <2>3, <2>4, <2>5, QuietStep
<1> QED BY <1>3, <1>4

(* When it wraps ether.                                                    *)
LEMMA WrapStep == ASSUME BuildsInv, NEW f, f \in Flow, Wrap(f) PROVE BuildsInv'
<1>1. Good(flow[f]) /\ Fits(flow[f], notes)
  BY DEF BuildsInv, FlowsOK
<1>2. Go(f, [flow[f] EXCEPT !.at = "approve"]) /\ UNCHANGED <<scenario, notes>> /\ client' = client /\ flow[f].at = "wrap"
  BY DEF Wrap
<1>3. Good([flow[f] EXCEPT !.at = "approve"])
  BY <1>1, <1>2, MovesOn
<1>4. Fits([flow[f] EXCEPT !.at = "approve"], notes)
  BY <1>1 DEF Fits, Good, Fields
<1> QED BY <1>2, <1>3, <1>4, ClientKept, QuietStep

(* When it has an approval.                                                *)
LEMMA ApprovalStep == ASSUME BuildsInv, NEW f, f \in Flow, ensureApproval(f) PROVE BuildsInv'
<1>1. Good(flow[f]) /\ Fits(flow[f], notes)
  BY DEF BuildsInv, FlowsOK
<1>2. Go(f, Build(flow[f], "nonce")) /\ UNCHANGED <<scenario, notes>> /\ client' = client /\ flow[f].at = "approve"
  BY DEF ensureApproval
<1>3. \A k : \A at \in {"nonce", "ask"} : Good([flow[f] EXCEPT !.at = at, !.then = "nonce", !.knew = k])
  BY <1>1, <1>2 DEF Good, Amounted, Fields, Syncing, HasChunk, BeforePart
<1>4. \A k, at : Fits([flow[f] EXCEPT !.at = at, !.then = "nonce", !.knew = k], notes)
  BY <1>1 DEF Fits, Good, Fields
<1>5. Good(Build(flow[f], "nonce")) /\ Fits(Build(flow[f], "nonce"), notes)
  BY <1>3, <1>4 DEF Build
<1> QED BY <1>2, <1>5, ClientKept, QuietStep

(* When the user refuses in the wallet.                                    *)
LEMMA RefusedStep == ASSUME BuildsInv, NEW f, f \in Flow, WalletRefuses(f) PROVE BuildsInv'
<1>1. Good(flow[f]) /\ Fits(flow[f], notes)
  BY DEF BuildsInv, FlowsOK
<1>2. UNCHANGED <<scenario, notes>> /\ client' = client
  BY DEF WalletRefuses
<1>3. ClientOK' /\ client'.owned \subseteq notes
  BY <1>2, ClientKept
<1>4. CASE flow[f].at = "unwrap" /\ flow[f].caught
  <2>1. Go(f, [flow[f] EXCEPT !.at = "refresh"])
    BY <1>4 DEF WalletRefuses
  <2>2. Good([flow[f] EXCEPT !.at = "refresh"])
    BY <1>1, <1>4, MovesOn
  <2>3. Fits([flow[f] EXCEPT !.at = "refresh"], notes)
    BY <1>1 DEF Fits, Good, Fields
  <2> QED BY <1>2, <1>3, <2>1, <2>2, <2>3, QuietStep
<1>5. CASE ~ (flow[f].at = "unwrap" /\ flow[f].caught)
  <2>1. Go(f, Caught(f))
    BY <1>5 DEF WalletRefuses
  <2> QED BY <1>2, <1>3, <2>1, CaughtStep
<1> QED BY <1>4, <1>5

(* When it reads the deposit nonce.                                        *)
LEMMA NonceStep == ASSUME BuildsInv, NEW f, f \in Flow, ReadNonce(f) PROVE BuildsInv'
<1>1. Good(flow[f]) /\ Fits(flow[f], notes)
  BY DEF BuildsInv, FlowsOK
<1>2. Go(f, [flow[f] EXCEPT !.at = "prove", !.nonce = wallet.nonce]) /\ UNCHANGED <<scenario, notes>> /\ client' = client
      /\ flow[f].at = "nonce"
  BY DEF ReadNonce
<1>3. Good([flow[f] EXCEPT !.at = "prove", !.nonce = wallet.nonce])
  BY <1>1, <1>2, MovesOn
<1>4. Fits([flow[f] EXCEPT !.at = "prove", !.nonce = wallet.nonce], notes)
  BY <1>1 DEF Fits, Good, Fields
<1> QED BY <1>2, <1>3, <1>4, ClientKept, QuietStep

(* When it reads the logs.                                                 *)
LEMMA QueryStep == ASSUME BuildsInv, NEW f, f \in Flow, Query(f) PROVE BuildsInv'
<1>1. Good(flow[f]) /\ Fits(flow[f], notes)
  BY DEF BuildsInv, FlowsOK
<1>2. Go(f, [flow[f] EXCEPT !.at = "apply", !.logs = <<notes, nullified>>]) /\ UNCHANGED <<scenario, notes>>
      /\ client' = client /\ flow[f].at = "ask"
  BY DEF Query
<1>3. Good([flow[f] EXCEPT !.at = "apply", !.logs = <<notes, nullified>>])
  BY <1>1, <1>2, MovesOn
<1>4. Fits([flow[f] EXCEPT !.at = "apply", !.logs = <<notes, nullified>>], notes)
  BY <1>1 DEF Fits, Good, Fields
<1> QED BY <1>2, <1>3, <1>4, ClientKept, QuietStep

(* When it applies them.                                                   *)
LEMMA ApplyStep == ASSUME BuildsInv, NEW f, f \in Flow, Apply(f) PROVE BuildsInv'
<1>1. Good(flow[f]) /\ Fits(flow[f], notes)
  BY DEF BuildsInv, FlowsOK
<1>2. Go(f, [flow[f] EXCEPT !.at = "guard", !.logs = Resting.logs]) /\ UNCHANGED <<scenario, notes>>
      /\ flow[f].at = "apply"
      /\ client' = [client EXCEPT !.owned = client.owned \cup flow[f].logs[1],
                                  !.spent = client.spent \cup flow[f].logs[2]]
  BY DEF Apply
<1>3. Good([flow[f] EXCEPT !.at = "guard", !.logs = Resting.logs])
  BY <1>1, <1>2, MovesOn
<1>4. Fits([flow[f] EXCEPT !.at = "guard", !.logs = Resting.logs], notes)
  BY <1>1 DEF Fits, Good, Fields, Resting
<1>5. ClientOK' /\ client'.owned \subseteq notes
  BY <1>1, <1>2 DEF BuildsInv, ClientOK, NotesOK, Fits
<1> QED BY <1>2, <1>3, <1>4, <1>5, QuietStep

(* When a synchronisation is over.                                         *)
LEMMA SyncedStep == ASSUME BuildsInv, NEW f, f \in Flow, Synced(f) PROVE BuildsInv'
<1>1. Good(flow[f]) /\ Fits(flow[f], notes)
  BY DEF BuildsInv, FlowsOK
<1>2. UNCHANGED <<scenario, notes>> /\ flow[f].at = "guard"
      /\ (client' = client \/ client' = [client EXCEPT !.everSynced = TRUE, !.dirty = FALSE])
  BY DEF Synced
<1>3. ClientOK' /\ client'.owned \subseteq notes
  <2>1. CASE client' = client
    BY <2>1, ClientKept
  <2>2. CASE client' = [client EXCEPT !.everSynced = TRUE, !.dirty = FALSE]
    BY <2>2 DEF BuildsInv, ClientOK, NotesOK
  <2> QED BY <1>2, <2>1, <2>2
<1>4. CASE flow[f].then = "idle"
  <2>1. Go(f, Resting) /\ Fits(Resting, notes)
    BY <1>4 DEF Synced, Fits, Resting
  <2> QED BY <1>2, <1>3, <2>1, RestingGood, QuietStep
<1>5. CASE flow[f].then # "idle"
  <2>1. Go(f, [flow[f] EXCEPT !.at = flow[f].then])
    BY <1>5 DEF Synced
  <2>2. Good([flow[f] EXCEPT !.at = flow[f].then])
    BY <1>1, <1>2, <1>5, MovesOn
  <2>3. Fits([flow[f] EXCEPT !.at = flow[f].then], notes)
    BY <1>1 DEF Fits, Good, Fields
  <2> QED BY <1>2, <1>3, <2>1, <2>2, <2>3, QuietStep
<1> QED BY <1>4, <1>5

(* When a refresh is over.                                                 *)
LEMMA RefreshOverStep ==
  ASSUME BuildsInv, NEW f, f \in Flow, Go(f, RefreshOver(f)), notes' = notes, client' = client,
         scenario' = scenario
  PROVE  BuildsInv'
<1>1. ClientOK' /\ client'.owned \subseteq notes
  BY ClientKept
<1>2. CASE flow[f].caught
  <2>1. Go(f, Resting) /\ Fits(Resting, notes)
    BY <1>2 DEF RefreshOver, Fits, Resting
  <2> QED BY <1>1, <2>1, RestingGood, QuietStep
<1>3. CASE ~ flow[f].caught
  BY <1>1, <1>3, CaughtStep DEF RefreshOver
<1> QED BY <1>2, <1>3

(* When a synchronisation fails.                                           *)
LEMMA SyncFailsStep == ASSUME BuildsInv, NEW f, f \in Flow, SyncFails(f) PROVE BuildsInv'
<1>1. UNCHANGED <<scenario, notes>> /\ client' = client /\ (Go(f, RefreshOver(f)) \/ Go(f, Caught(f)))
  BY DEF SyncFails
<1> QED BY <1>1, RefreshOverStep, ClientKept, CaughtStep

(* When a proof is ready.                                                  *)
LEMMA ProveStep == ASSUME BuildsInv, NEW f, f \in Flow, Prove(f) PROVE BuildsInv'
<1>1. Good(flow[f]) /\ Fits(flow[f], notes)
  BY DEF BuildsInv, FlowsOK
<1>2. Go(f, [flow[f] EXCEPT !.at = "submit"]) /\ UNCHANGED <<scenario, notes>> /\ client' = client /\ flow[f].at = "prove"
  BY DEF Prove
<1>3. Good([flow[f] EXCEPT !.at = "submit"])
  BY <1>1, <1>2, MovesOn
<1>4. Fits([flow[f] EXCEPT !.at = "submit"], notes)
  BY <1>1 DEF Fits, Good, Fields
<1> QED BY <1>2, <1>3, <1>4, ClientKept, QuietStep

(* When proving, submitting or refreshing fails.                           *)
LEMMA FailsStep ==
  ASSUME BuildsInv, NEW f, f \in Flow, ProveFails(f) \/ SubmitFails(f) \/ RefreshFails(f) PROVE BuildsInv'
<1>1. CASE ProveFails(f)
  <2>1. Go(f, Caught(f)) /\ UNCHANGED <<scenario, notes>>
        /\ client' = [client EXCEPT !.reserved = client.reserved \ Ids(flow[f].inputs),
                                    !.freed = client.freed \cup Sharing(f)]
    BY <1>1 DEF ProveFails
  <2> QED BY <2>1, ClientMarks, CaughtStep
<1>2. CASE SubmitFails(f)
  <2>1. Go(f, Caught(f)) /\ UNCHANGED <<scenario, notes>> /\ client' = client
    BY <1>2 DEF SubmitFails
  <2> QED BY <2>1, ClientKept, CaughtStep
<1>3. CASE RefreshFails(f)
  BY <1>3, RefreshOverStep DEF RefreshFails
<1> QED BY <1>1, <1>2, <1>3

(* When a transaction is mined and reverts.                                *)
LEMMA RevertStep == ASSUME BuildsInv, NEW f, f \in Flow, Revert(f) PROVE BuildsInv'
<1>1. Good(flow[f]) /\ Fits(flow[f], notes)
  BY DEF BuildsInv, FlowsOK
<1>2. Go(f, [flow[f] EXCEPT !.at = "mined", !.reverted = TRUE]) /\ UNCHANGED <<scenario, notes>> /\ client' = client
      /\ flow[f].at = "submit"
  BY DEF Revert
<1>3. Good([flow[f] EXCEPT !.at = "mined", !.reverted = TRUE])
  BY <1>1, <1>2, MovesOn
<1>4. Fits([flow[f] EXCEPT !.at = "mined", !.reverted = TRUE], notes)
  BY <1>1 DEF Fits, Good, Fields
<1> QED BY <1>2, <1>3, <1>4, ClientKept, QuietStep

(* The receipt of a part that is not the last one, and of the last.        *)
LEMMA ReceiptGood ==
  ASSUME NEW r, Good(r), Fits(r, notes), r.at = "mined", NEW left,
         left = IF r.kind \in Split THEN r.remaining - r.chunk ELSE 0
  PROVE  LET local == [r EXCEPT !.remaining = left, !.inputs = {}]
         IN  /\ left > 0 => Good([local EXCEPT !.at = "ask", !.then = "part"])
             /\ ~ (left > 0) => Good([local EXCEPT !.at = "unwrap"]) /\ Good(Done(flow, local))
             /\ \A at, then : Fits([local EXCEPT !.at = at, !.then = then], notes)
             /\ \A at : Fits([local EXCEPT !.at = at], notes)
             /\ Fits(Done(flow, local), notes)
<1> DEFINE local == [r EXCEPT !.remaining = left, !.inputs = {}]
<1> USE DEF Good, Amounted, Fields, Syncing, HasChunk, BeforePart
<1>1. left > 0 => Good([local EXCEPT !.at = "ask", !.then = "part"])
  OBVIOUS
<1>2. ~ (left > 0) => Good([local EXCEPT !.at = "unwrap"])
  OBVIOUS
<1>3. ~ (left > 0) => Good(Done(flow, local))
  BY DEF Done
<1> HIDE DEF Amounted, Syncing, HasChunk, BeforePart
<1>4. \A at, then : Fits([local EXCEPT !.at = at, !.then = then], notes)
  BY DEF Fits
<1>5. \A at : Fits([local EXCEPT !.at = at], notes)
  BY DEF Fits
<1>6. Fits(Done(flow, local), notes)
  BY DEF Fits, Done
<1> HIDE DEF Good
<1> QED BY <1>1, <1>2, <1>3, <1>4, <1>5, <1>6

(* When a receipt has come.                                                *)
LEMMA ReceiptStep == ASSUME BuildsInv, NEW f, f \in Flow, Receipt(f) PROVE BuildsInv'
<1> DEFINE r == flow[f]
           left == IF r.kind \in Split THEN r.remaining - r.chunk ELSE 0
           local == [r EXCEPT !.remaining = left, !.inputs = {}]
<1>1. Good(r) /\ Fits(r, notes)
  BY DEF BuildsInv, FlowsOK
<1>2. UNCHANGED <<scenario, notes>> /\ r.at = "mined"
  BY DEF Receipt
<1>3. /\ left > 0 => Good([local EXCEPT !.at = "ask", !.then = "part"])
      /\ ~ (left > 0) => Good([local EXCEPT !.at = "unwrap"]) /\ Good(Done(flow, local))
      /\ \A at, then : Fits([local EXCEPT !.at = at, !.then = then], notes)
      /\ \A at : Fits([local EXCEPT !.at = at], notes)
      /\ Fits(Done(flow, local), notes)
  <2> HIDE DEF r
  <2> QED BY <1>1, <1>2, ReceiptGood
<1>4. CASE left > 0
  <2>1. invalidate(f) /\ Go(f, [local EXCEPT !.at = "ask", !.then = "part"])
    BY <1>4 DEF Receipt
  <2>2. ClientOK' /\ client'.owned \subseteq notes
    BY <2>1, InvalidateMarks
  <2>3. Good([local EXCEPT !.at = "ask", !.then = "part"])
        /\ Fits([local EXCEPT !.at = "ask", !.then = "part"], notes)
    BY <1>3, <1>4
  <2> HIDE DEF local
  <2> QED BY <1>2, <2>1, <2>2, <2>3, QuietStep
<1>5. CASE ~ (left > 0)
  <2>1. client' = client /\ (Go(f, [local EXCEPT !.at = "unwrap"]) \/ Go(f, Done(f, local)))
    BY <1>5 DEF Receipt
  <2>2. ClientOK' /\ client'.owned \subseteq notes
    BY <2>1, ClientKept
  <2>3. Good([local EXCEPT !.at = "unwrap"]) /\ Fits([local EXCEPT !.at = "unwrap"], notes)
        /\ Good(Done(f, local)) /\ Fits(Done(f, local), notes)
    BY <1>3, <1>5 DEF Done
  <2> HIDE DEF local
  <2> QED BY <1>2, <2>1, <2>2, <2>3, QuietStep
<1> QED BY <1>4, <1>5

(* When it unwraps ether.                                                  *)
LEMMA UnwrapStep == ASSUME BuildsInv, NEW f, f \in Flow, unwrapEth(f) PROVE BuildsInv'
<1> DEFINE r == flow[f]
           ok == Delivered(f) <= wallet.weth
           end == Done(f, [r EXCEPT !.unwrapped = ok, !.reverted = r.reverted \/ ~ ok])
<1>1. Good(r) /\ Fits(r, notes)
  BY DEF BuildsInv, FlowsOK
<1>2. UNCHANGED <<scenario, notes>> /\ client' = client /\ r.at = "unwrap" /\ Go(f, end)
  BY DEF unwrapEth
<1>3. Good(end) /\ Fits(end, notes)
  <2>1. Good(r) /\ Fits(r, notes) /\ r.at = "unwrap"
    BY <1>1, <1>2
  <2> HIDE DEF r, ok
  <2>2. Good(end)
    BY <2>1 DEF Done, Good, Amounted, Fields, Syncing, HasChunk, BeforePart
  <2>3. Fits(end, notes)
    BY <2>1 DEF Done, Good, Fields, Fits
  <2> QED BY <2>2, <2>3
<1> HIDE DEF end
<1> QED BY <1>2, <1>3, ClientKept, QuietStep

(* When it asks for a refresh.                                             *)
LEMMA RefreshStep == ASSUME BuildsInv, NEW f, f \in Flow, Refresh(f) PROVE BuildsInv'
<1> DEFINE c == flow[f].caught \/ flow[f].kind \in Helpers
<1>1. UNCHANGED <<scenario, notes>> /\ invalidate(f)
      /\ Go(f, [Resting EXCEPT !.at = "ask", !.caught = c])
  BY DEF Refresh
<1>2. ClientOK' /\ client'.owned \subseteq notes
  BY <1>1, InvalidateMarks
<1>3. Fits([Resting EXCEPT !.at = "ask", !.caught = c], notes)
  BY DEF Fits, Resting
<1> HIDE DEF c
<1> QED BY <1>1, <1>2, <1>3, RestingGood, QuietStep

(* The contract takes a spend or a shield.                                 *)
LEMMA MinedGood ==
  ASSUME NEW r, Good(r), Fits(r, notes), r.at = "submit", NEW set, notes \subseteq set
  PROVE  /\ r.kind \in Split => Good([r EXCEPT !.at = "mined", !.paid = r.paid + r.chunk])
         /\ r.kind \in Shields => Good([r EXCEPT !.at = "mined", !.paid = r.amount, !.remaining = 0])
         /\ Fits([r EXCEPT !.at = "mined", !.paid = r.paid + r.chunk], set)
         /\ Fits([r EXCEPT !.at = "mined", !.paid = r.amount, !.remaining = 0], set)
<1>1. r.kind \in Split => Good([r EXCEPT !.at = "mined", !.paid = r.paid + r.chunk])
  BY DEF Good, Amounted, Fields, Syncing, HasChunk, BeforePart
<1>2. r.kind \in Shields => Good([r EXCEPT !.at = "mined", !.paid = r.amount, !.remaining = 0])
  <2>1. Shields \cap Split = {}
    BY DEF Shields, Split
  <2> QED BY <2>1 DEF Good, Amounted, Fields, Syncing, HasChunk, BeforePart
<1>3. Fits([r EXCEPT !.at = "mined", !.paid = r.paid + r.chunk], set)
  BY DEF Fits, Good, Fields
<1>4. Fits([r EXCEPT !.at = "mined", !.paid = r.amount, !.remaining = 0], set)
  BY DEF Fits, Good, Fields
<1> QED BY <1>1, <1>2, <1>3, <1>4

(* A note that is mined is a note with an integer amount.                  *)
LEMMA NewNoteOK ==
  ASSUME NotesOK, NEW label, NEW amount \in Int,
         notes' = notes \/ notes' = notes \cup NewNote(label, amount), client' = client
  PROVE  NotesOK' /\ notes \subseteq notes'
<1>1. CASE notes' = notes
  BY <1>1 DEF NotesOK
<1>2. CASE notes' = notes \cup NewNote(label, amount)
  <2> DEFINE n == [id |-> Max({0} \cup Ids(notes)) + 1, label |-> label, amount |-> amount]
  <2>1. notes' = notes \cup {n} /\ n.amount = amount
    BY <1>2 DEF NewNote
  <2> HIDE DEF n
  <2>2. IsFiniteSet(notes')
    BY <2>1, FS_AddElement DEF NotesOK
  <2> QED BY <2>1, <2>2 DEF NotesOK
<1> QED BY <1>1, <1>2

(* The invariant, when a spend is mined.                                   *)
LEMMA MineSpendStep == ASSUME BuildsInv, NEW f, f \in Flow, MineSpend(f) PROVE BuildsInv'
<1> DEFINE change == Total(flow[f].inputs) - flow[f].chunk
           label  == (CHOOSE n \in flow[f].inputs : TRUE).label
<1>1. Good(flow[f]) /\ Fits(flow[f], notes) /\ FlowsOK /\ NotesOK /\ ClientOK
  BY DEF BuildsInv, FlowsOK
<1>2. change \in Int /\ scenario' = scenario
  BY <1>1, TotalIsInt DEF Good, Amounted, Fits, MineSpend
<1>3. notes' = notes \/ notes' = notes \cup NewNote(label, change)
  BY DEF MineSpend
<1>4. client' = client /\ flow[f].at = "submit" /\ flow[f].kind \in Split
      /\ Go(f, [flow[f] EXCEPT !.at = "mined", !.paid = flow[f].paid + flow[f].chunk])
  BY DEF MineSpend
<1> HIDE DEF change, label
<1>5. NotesOK' /\ notes \subseteq notes'
  BY <1>1, <1>2, <1>3, <1>4, NewNoteOK
<1>6. Good([flow[f] EXCEPT !.at = "mined", !.paid = flow[f].paid + flow[f].chunk])
      /\ Fits([flow[f] EXCEPT !.at = "mined", !.paid = flow[f].paid + flow[f].chunk], notes')
  BY <1>1, <1>4, <1>5, MinedGood
<1>7. FlowsOK'
  BY <1>1, <1>4, <1>5, <1>6, FlowsGo
<1> QED BY <1>1, <1>2, <1>4, <1>5, <1>7 DEF BuildsInv, ClientOK

(* When a deposit is mined.                                                *)
LEMMA MineShieldStep == ASSUME BuildsInv, NEW f, f \in Flow, MineShield(f) PROVE BuildsInv'
<1>1. Good(flow[f]) /\ Fits(flow[f], notes) /\ FlowsOK /\ NotesOK /\ ClientOK
  BY DEF BuildsInv, FlowsOK
<1>2. flow[f].amount \in Int /\ notes' = notes \cup NewNote(flow[f].nonce, flow[f].amount)
      /\ UNCHANGED <<scenario, client>> /\ flow[f].at = "submit" /\ flow[f].kind \in Shields
      /\ Go(f, [flow[f] EXCEPT !.at = "mined", !.paid = flow[f].amount, !.remaining = 0])
  BY <1>1 DEF MineShield, Good, Amounted
<1>3. NotesOK' /\ notes \subseteq notes'
  BY <1>1, <1>2, NewNoteOK
<1>4. Good([flow[f] EXCEPT !.at = "mined", !.paid = flow[f].amount, !.remaining = 0])
      /\ Fits([flow[f] EXCEPT !.at = "mined", !.paid = flow[f].amount, !.remaining = 0], notes')
  BY <1>1, <1>2, <1>3, MinedGood
<1>5. FlowsOK'
  BY <1>1, <1>2, <1>3, <1>4, FlowsGo
<1> QED BY <1>1, <1>2, <1>3, <1>5 DEF BuildsInv, ClientOK

-----------------------------------------------------------------------------
(* Every step of every flow keeps the invariant.                           *)
LEMMA BuildsStep == ASSUME BuildsInv, [Next]_vars PROVE BuildsInv'
<1>1. CASE UNCHANGED vars
  BY <1>1 DEF vars, BuildsInv, FlowsOK, NotesOK, ClientOK
<1>2. CASE Next
  <2>1. PICK f \in Flow :
          \/ Begins(f) \/ Part(f) \/ Query(f) \/ Apply(f) \/ Synced(f) \/ SyncFails(f)
          \/ Select(f) \/ Wrap(f) \/ ensureApproval(f) \/ WalletRefuses(f) \/ ReadNonce(f)
          \/ Prove(f) \/ ProveFails(f) \/ MineSpend(f) \/ MineShield(f) \/ Revert(f) \/ SubmitFails(f)
          \/ Receipt(f) \/ unwrapEth(f) \/ Refresh(f) \/ RefreshFails(f)
    BY <1>2 DEF Next, Begins
  <2> QED BY <2>1, BeginsStep, PartStep, QueryStep, ApplyStep, SyncedStep, SyncFailsStep, SelectStep,
             WrapStep, ApprovalStep, RefusedStep, NonceStep, ProveStep, FailsStep, MineSpendStep,
             MineShieldStep, RevertStep, ReceiptStep, UnwrapStep, RefreshStep
<1> QED BY <1>1, <1>2

(* The invariant holds at first.                                           *)
LEMMA BuildsInit == ASSUME Init PROVE BuildsInv
<1>1. scenario \in Scenario /\ notes = scenario.deposits
  BY DEF Init
<1>2. IsFiniteSet(notes) /\ \A n \in notes : n.amount \in Int
  BY <1>1, SpendAssumption
<1>3. Fits(Resting, notes)
  BY DEF Fits, Resting
<1>4. FlowsOK
  BY <1>3, RestingGood DEF Init, FlowsOK
<1>5. client.owned = {} /\ ClientOK
  BY DEF Init, ClientOK
<1> QED BY <1>1, <1>2, <1>4, <1>5 DEF BuildsInv, NotesOK

(* The invariant holds always.                                             *)
LEMMA BuildsAlways == Spec => []BuildsInv
BY BuildsInit, BuildsStep, PTL DEF Spec

(* A flow that reports an amount as sent, withdrawn, swapped or shielded   *)
(* has moved it, no less and no more, unless a transaction of it was mined *)
(* and reverted (web/app/src/App.tsx, sendMulti): for any number of flows, *)
(* whichever of them overlap and wherever they fail.                       *)
THEOREM SentCorrect == Spec => []SentUnlessReverted
<1>1. BuildsInv => SentUnlessReverted
  BY DEF BuildsInv, FlowsOK, Good, Amounted, SentUnlessReverted
<1> QED BY <1>1, BuildsAlways, PTL

-----------------------------------------------------------------------------
(* What a build relies on. Its notes are reserved, unless it lost its hold *)
(* (freed). When its notes are selected the client knows, as spent, all it *)
(* was told of before the build (told, knew): either it was up to date, or *)
(* a synchronisation has read the logs since. The one thing that breaks    *)
(* this is an invalidate between that reading and its end (lost).          *)
ForBuild == {"select", "nonce"}
Awaiting == {"select", "guard", "apply"}

Owns(f, r, c, gone) ==
  /\ r.inputs # {} => r.at \in {"prove", "submit", "mined"}
  /\ f \notin c.freed => Ids(r.inputs) \subseteq c.reserved
  /\ r.knew \subseteq gone
  /\ ~ c.lost /\ r.at = "apply" /\ r.then \in ForBuild => r.knew \cup c.told \subseteq c.spent \cup r.logs[2]
  /\ ~ c.lost /\ r.at = "guard" /\ r.then \in ForBuild => r.knew \cup c.told \subseteq c.spent
  /\ ~ c.lost /\ r.at = "select" => r.knew \subseteq c.spent
  /\ ~ c.lost /\ r.at \in {"prove", "submit"} => Ids(r.inputs) \cap r.knew = {}

Apart(r, s) == Ids(r.inputs) \cap Ids(s.inputs) = {}
Marked == client.told \subseteq nullified /\ (~ client.lost /\ UpToDate => client.told \subseteq client.spent)
HoldInv ==
  /\ \A f \in Flow : Owns(f, flow[f], client, nullified)
  /\ \A f, g \in Flow \ client.freed : f # g => Apart(flow[f], flow[g])
  /\ Marked

(* The invariant, when a flow moves on.                                    *)
LEMMA HoldGo ==
  ASSUME HoldInv, BuildsInv, NEW f, f \in Flow, NEW r, Go(f, r), Owns(f, r, client', nullified'),
         \A g \in Flow \ {f} : Owns(g, flow[g], client', nullified'),
         \A g \in Flow \ {f} : f \notin client'.freed /\ g \notin client'.freed => Apart(r, flow[g]),
         \A g, h \in Flow \ {f} :
           g # h /\ g \notin client'.freed /\ h \notin client'.freed => Apart(flow[g], flow[h]),
         Marked'
  PROVE  HoldInv'
<1>1. DOMAIN flow = Flow
  BY DEF BuildsInv, FlowsOK
<1>2. flow'[f] = r /\ \A g \in Flow \ {f} : flow'[g] = flow[g]
  BY <1>1, GoStep
<1>3. \A g \in Flow : Owns(g, flow'[g], client', nullified')
  <2>1. TAKE g \in Flow
  <2> QED BY <1>2
<1>4. ASSUME NEW g \in Flow \ client'.freed, NEW h \in Flow \ client'.freed, g # h
      PROVE  Apart(flow'[g], flow'[h])
  <2>1. CASE g = f
    BY <1>2, <1>4, <2>1
  <2>2. CASE h = f
    <3>1. Apart(r, flow[g])
      BY <1>4, <2>2
    <3> QED BY <1>2, <1>4, <2>2, <3>1 DEF Apart
  <2>3. CASE g # f /\ h # f
    BY <1>2, <1>4, <2>3
  <2> QED BY <2>1, <2>2, <2>3
<1> QED BY <1>3, <1>4 DEF HoldInv

(* Steps that free no notes and give none out.                            *)
LEMMA HoldKept ==
  ASSUME HoldInv, BuildsInv, NEW f, f \in Flow, NEW r, Go(f, r), Owns(f, r, client', nullified'),
         \A g \in Flow \ {f} : Owns(g, flow[g], client', nullified'),
         client'.freed = client.freed, r.inputs \subseteq flow[f].inputs, Marked'
  PROVE  HoldInv'
<1>1. Ids(r.inputs) \subseteq Ids(flow[f].inputs)
  BY DEF Ids
<1>2. \A g, h \in Flow : g # h /\ g \notin client'.freed /\ h \notin client'.freed => Apart(flow[g], flow[h])
  BY DEF HoldInv
<1>3. \A g \in Flow \ {f} : f \notin client'.freed /\ g \notin client'.freed => Apart(r, flow[g])
  BY <1>1, <1>2 DEF Apart
<1> QED BY <1>2, <1>3, HoldGo

(* Steps that neither touch the client nor spend.                          *)
LEMMA HoldQuiet ==
  ASSUME HoldInv, BuildsInv, NEW f, f \in Flow, NEW r, Go(f, r), client' = client,
         nullified' = nullified, Owns(f, r, client, nullified), r.inputs \subseteq flow[f].inputs
  PROVE  HoldInv'
<1>1. \A g \in Flow \ {f} : Owns(g, flow[g], client', nullified')
  BY DEF HoldInv
<1>2. Marked'
  BY DEF HoldInv, Marked, UpToDate
<1> QED BY <1>1, <1>2, HoldKept

(* No notes have no ids.                                                   *)
LEMMA NoIds == Ids({}) = {}
BY DEF Ids

(* A flow without inputs owns nothing.                                     *)
LEMMA IdleOwns ==
  ASSUME NEW f, NEW r, r.inputs = {}, NEW c, NEW gone, r.knew \subseteq gone, r.at \notin Awaiting
  PROVE  Owns(f, r, c, gone)
BY NoIds DEF Owns, Awaiting

(* A flow that ends up with no notes, anywhere but before a selection.     *)
LEMMA HoldIdle ==
  ASSUME HoldInv, BuildsInv, NEW f, f \in Flow, NEW r, Go(f, r), client' = client,
         nullified' = nullified, r.inputs = {}, r.knew \subseteq nullified, r.at \notin Awaiting
  PROVE  HoldInv'
BY IdleOwns, HoldQuiet

(* A flow whose error is caught has no notes any more.                     *)
LEMMA CaughtIdle ==
  ASSUME NEW f, Good(flow[f]), NEW gone, flow[f].knew \subseteq gone
  PROVE  Caught(f).inputs = {} /\ Caught(f).at \notin Awaiting /\ Caught(f).knew \subseteq gone
<1>1. Resting.inputs = {} /\ Resting.at \notin Awaiting /\ Resting.knew \subseteq gone
  BY DEF Resting, Awaiting
<1>2. \A at : LET r == [flow[f] EXCEPT !.at = at, !.inputs = {}, !.ok = FALSE, !.caught = TRUE]
              IN  r.at = at /\ r.inputs = {} /\ r.knew = flow[f].knew
  BY DEF Good, Fields
<1>3. \A c \in BOOLEAN : LET r == [flow[f] EXCEPT !.at = IF c THEN "unwrap" ELSE "refresh",
                                       !.inputs = {}, !.ok = FALSE, !.caught = TRUE]
             IN  r.at \in {"unwrap", "refresh"} /\ r.inputs = {} /\ r.knew = flow[f].knew
  BY <1>2
<1>4. \/ Caught(f) = Resting
      \/ Caught(f).at \in {"unwrap", "refresh"} /\ Caught(f).inputs = {} /\ Caught(f).knew = flow[f].knew
  BY <1>3 DEF Caught
<1> HIDE DEF Caught
<1> QED BY <1>1, <1>4 DEF Awaiting

(* What a flow knew was spent stays spent.                                 *)
LEMMA KnewGone ==
  ASSUME HoldInv, BuildsInv, NEW f, f \in Flow
  PROVE  Good(flow[f]) /\ Owns(f, flow[f], client, nullified) /\ flow[f].knew \subseteq nullified
         /\ Marked /\ ClientOK
BY DEF BuildsInv, FlowsOK, HoldInv, Owns

(* When a flow's error is caught.                                          *)
LEMMA HoldCaught ==
  ASSUME HoldInv, BuildsInv, NEW f, f \in Flow, Go(f, Caught(f)), client' = client, nullified' = nullified
  PROVE  HoldInv'
BY KnewGone, CaughtIdle, HoldIdle

(* When a refresh is over.                                                 *)
LEMMA HoldRefreshOver ==
  ASSUME HoldInv, BuildsInv, NEW f, f \in Flow, Go(f, RefreshOver(f)), client' = client,
         nullified' = nullified
  PROVE  HoldInv'
<1>1. Resting.inputs = {} /\ Resting.at \notin Awaiting /\ Resting.knew \subseteq nullified
  BY DEF Resting, Awaiting
<1>2. RefreshOver(f) = Resting \/ RefreshOver(f) = Caught(f)
  BY DEF RefreshOver
<1> HIDE DEF RefreshOver
<1>3. CASE RefreshOver(f) = Resting
  BY <1>1, <1>3, HoldIdle
<1>4. CASE RefreshOver(f) = Caught(f)
  BY <1>4, HoldCaught
<1> QED BY <1>2, <1>3, <1>4

(* A flow begins without inputs.                                           *)
LEMMA BegunIdle ==
  ASSUME NEW kind, NEW at, NEW amount, NEW self, at \notin Awaiting
  PROVE  Begun(kind, at, amount, self).inputs = {} /\ Begun(kind, at, amount, self).at \notin Awaiting
         /\ Begun(kind, at, amount, self).knew = {}
BY DEF Begun, Resting

(* When a flow starts.                                                     *)
LEMMA HoldStarts ==
  ASSUME HoldInv, BuildsInv, NEW f, f \in Flow, NEW kind, NEW at, NEW amounts, NEW selves,
         at \notin Awaiting, Starts(f, kind, at, amounts, selves)
  PROVE  HoldInv'
<1>1. PICK amount \in amounts, self \in selves : Go(f, Begun(kind, at, amount, self))
  BY DEF Starts, Begun
<1>2. UNCHANGED <<nullified, client>>
  BY DEF Starts
<1> QED BY <1>1, <1>2, BegunIdle, HoldIdle

(* The same for every kind of flow.                                        *)
LEMMA HoldBegins ==
  ASSUME HoldInv, BuildsInv, NEW f, f \in Flow, Begins(f) PROVE HoldInv'
<1> DEFINE amounts == scenario.amounts
<1>1. \/ Starts(f, "send", "part", amounts, {FALSE})
      \/ Starts(f, "swap", "part", amounts, {FALSE})
      \/ Starts(f, "withdraw", "part", amounts, BOOLEAN)
      \/ Starts(f, "unshieldToken", "part", amounts, BOOLEAN)
      \/ Starts(f, "shield", "wrap", amounts, {FALSE})
      \/ Starts(f, "shieldToken", "wrap", amounts, {FALSE})
      \/ Starts(f, "refresh", "refresh", {0}, {FALSE})
  BY DEF Begins, sendMulti, swapMulti, withdrawMulti, unshieldToken, run, shieldToken, onRefresh
<1>2. "part" \notin Awaiting /\ "wrap" \notin Awaiting /\ "refresh" \notin Awaiting
  BY DEF Awaiting
<1> HIDE DEF Begins, amounts
<1> QED BY <1>1, <1>2, HoldStarts

(* When a flow takes its next part: what the client was told so far is     *)
(* known to it if it need not synchronise.                                 *)
LEMMA HoldPart == ASSUME HoldInv, BuildsInv, NEW f, f \in Flow, Part(f) PROVE HoldInv'
<1> DEFINE r == flow[f]
           chunk == Chunk(r.remaining)
           floor == IF r.kind # "swap" THEN 0
                    ELSE r.floor + MinOutChunk(MinOut(r.amount), chunk, r.amount, r.remaining)
           s == Build([r EXCEPT !.chunk = chunk, !.parts = r.parts + 1, !.floor = floor], "select")
<1>1. Good(r) /\ Owns(f, r, client, nullified) /\ Marked
  BY KnewGone
<1>2. nullified' = nullified /\ client' = client /\ r.at = "part"
  BY DEF Part
<1>3. r.inputs = {}
  BY <1>1, <1>2 DEF Owns
<1>4. CASE maxSpendable = 0
  BY <1>2, <1>4, HoldCaught DEF Part
<1>5. CASE maxSpendable # 0
  <2>1. Go(f, s)
    BY <1>5 DEF Part
  <2> HIDE DEF r, chunk, floor
  <2>2. s.inputs = r.inputs /\ s.at \in {"select", "ask"} /\ (s.at = "select" => UpToDate)
        /\ s.knew = client.told
    BY <1>1 DEF Build, Good, Fields
  <2> HIDE DEF s
  <2>3. Owns(f, s, client, nullified)
    BY <1>1, <1>3, <2>2, NoIds DEF Marked, Owns
  <2>4. s.inputs \subseteq flow[f].inputs
    BY <2>2 DEF r
  <2> QED BY <1>2, <2>1, <2>3, <2>4, HoldQuiet
<1> QED BY <1>4, <1>5

(* A flow with no notes that moves on.                                     *)
LEMMA HoldOn ==
  ASSUME HoldInv, BuildsInv, NEW f, f \in Flow, NEW r, Go(f, r), client' = client, nullified' = nullified,
         flow[f].at \notin {"prove", "submit", "mined"}, r.inputs = flow[f].inputs,
         r.knew = flow[f].knew, r.at \notin Awaiting
  PROVE  HoldInv'
<1>1. flow[f].inputs = {} /\ flow[f].knew \subseteq nullified
  BY DEF HoldInv, Owns
<1> QED BY <1>1, HoldIdle

(* A build whose proof is ready, or whose transaction is mined.            *)
LEMMA HoldOwned ==
  ASSUME HoldInv, BuildsInv, NEW f, f \in Flow, NEW r, Go(f, r), client' = client, nullified' = nullified,
         flow[f].at \in {"prove", "submit"}, r.at \in {"submit", "mined"}, r.inputs = flow[f].inputs,
         r.knew = flow[f].knew
  PROVE  HoldInv'
<1>1. Owns(f, r, client, nullified)
  BY DEF HoldInv, Owns
<1> QED BY <1>1, HoldQuiet

(* The steps at which a flow only moves on.                                *)
LEMMA HoldMoves ==
  ASSUME HoldInv, BuildsInv, NEW f, f \in Flow,
         Wrap(f) \/ ReadNonce(f) \/ Prove(f) \/ Revert(f) \/ MineShield(f) \/ ensureApproval(f)
  PROVE  HoldInv'
<1>1. Good(flow[f]) /\ Marked
  BY KnewGone
<1>2. client' = client /\ nullified' = nullified
  BY DEF Wrap, ReadNonce, Prove, Revert, MineShield, ensureApproval
<1>3. CASE Wrap(f)
  <2> DEFINE s == [flow[f] EXCEPT !.at = "approve"]
  <2>1. Go(f, s) /\ flow[f].at = "wrap"
    BY <1>3 DEF Wrap
  <2>2. s.inputs = flow[f].inputs /\ s.at = "approve" /\ s.knew = flow[f].knew
    BY <1>1 DEF Good, Fields
  <2> HIDE DEF s
  <2> QED BY <1>2, <2>1, <2>2, HoldOn DEF Awaiting
<1>4. CASE ReadNonce(f)
  <2> DEFINE s == [flow[f] EXCEPT !.at = "prove", !.nonce = wallet.nonce]
  <2>1. Go(f, s) /\ flow[f].at = "nonce"
    BY <1>4 DEF ReadNonce
  <2>2. s.inputs = flow[f].inputs /\ s.at = "prove" /\ s.knew = flow[f].knew
    BY <1>1 DEF Good, Fields
  <2> HIDE DEF s
  <2> QED BY <1>2, <2>1, <2>2, HoldOn DEF Awaiting
<1>5. CASE Prove(f)
  <2> DEFINE s == [flow[f] EXCEPT !.at = "submit"]
  <2>1. Go(f, s) /\ flow[f].at = "prove"
    BY <1>5 DEF Prove
  <2>2. s.inputs = flow[f].inputs /\ s.at = "submit" /\ s.knew = flow[f].knew
    BY <1>1 DEF Good, Fields
  <2> HIDE DEF s
  <2> QED BY <1>2, <2>1, <2>2, HoldOwned
<1>6. CASE Revert(f)
  <2> DEFINE s == [flow[f] EXCEPT !.at = "mined", !.reverted = TRUE]
  <2>1. Go(f, s) /\ flow[f].at = "submit"
    BY <1>6 DEF Revert
  <2>2. s.inputs = flow[f].inputs /\ s.at = "mined" /\ s.knew = flow[f].knew
    BY <1>1 DEF Good, Fields
  <2> HIDE DEF s
  <2> QED BY <1>2, <2>1, <2>2, HoldOwned
<1>7. CASE MineShield(f)
  <2> DEFINE s == [flow[f] EXCEPT !.at = "mined", !.paid = flow[f].amount, !.remaining = 0]
  <2>1. Go(f, s) /\ flow[f].at = "submit"
    BY <1>7 DEF MineShield
  <2>2. s.inputs = flow[f].inputs /\ s.at = "mined" /\ s.knew = flow[f].knew
    BY <1>1 DEF Good, Fields
  <2> HIDE DEF s
  <2> QED BY <1>2, <2>1, <2>2, HoldOwned
<1>8. CASE ensureApproval(f)
  <2> DEFINE s == Build(flow[f], "nonce")
  <2>1. Go(f, s) /\ flow[f].at = "approve"
    BY <1>8 DEF ensureApproval
  <2>2. s.inputs = flow[f].inputs /\ s.at \in {"nonce", "ask"} /\ s.knew = client.told
    BY <1>1 DEF Build, Good, Fields
  <2> HIDE DEF s
  <2>3. s.inputs = {} /\ s.knew \subseteq nullified
    BY <1>1, <2>1, <2>2 DEF HoldInv, Owns, Marked
  <2> QED BY <1>2, <2>1, <2>2, <2>3, HoldIdle DEF Awaiting
<1> QED BY <1>3, <1>4, <1>5, <1>6, <1>7, <1>8

(* The steps at which something fails, but for a failed proof.             *)
LEMMA HoldFails ==
  ASSUME HoldInv, BuildsInv, NEW f, f \in Flow,
         WalletRefuses(f) \/ SyncFails(f) \/ SubmitFails(f) \/ RefreshFails(f)
  PROVE  HoldInv'
<1>1. client' = client /\ nullified' = nullified
  BY DEF WalletRefuses, SyncFails, SubmitFails, RefreshFails
<1>2. CASE Go(f, Caught(f))
  BY <1>1, <1>2, HoldCaught
<1>3. CASE Go(f, RefreshOver(f))
  BY <1>1, <1>3, HoldRefreshOver
<1>4. CASE flow[f].at = "unwrap" /\ Go(f, [flow[f] EXCEPT !.at = "refresh"])
  <2> DEFINE s == [flow[f] EXCEPT !.at = "refresh"]
  <2>1. Good(flow[f]) /\ Go(f, s)
    BY <1>4, KnewGone
  <2>2. s.inputs = flow[f].inputs /\ s.at = "refresh" /\ s.knew = flow[f].knew
    BY <2>1 DEF Good, Fields
  <2> HIDE DEF s
  <2> QED BY <1>1, <1>4, <2>1, <2>2, HoldOn DEF Awaiting
<1>5. Go(f, Caught(f)) \/ Go(f, RefreshOver(f))
      \/ (flow[f].at = "unwrap" /\ Go(f, [flow[f] EXCEPT !.at = "refresh"]))
  BY DEF WalletRefuses, SyncFails, SubmitFails, RefreshFails
<1> QED BY <1>2, <1>3, <1>4, <1>5

(* When it unwraps ether.                                                  *)
LEMMA HoldUnwrap == ASSUME HoldInv, BuildsInv, NEW f, f \in Flow, unwrapEth(f) PROVE HoldInv'
<1> DEFINE ok == Delivered(f) <= wallet.weth
           s == Done(f, [flow[f] EXCEPT !.unwrapped = ok, !.reverted = flow[f].reverted \/ ~ ok])
<1>1. Good(flow[f]) /\ flow[f].knew \subseteq nullified
  BY KnewGone
<1>2. client' = client /\ nullified' = nullified /\ Go(f, s)
  BY DEF unwrapEth
<1>3. s.inputs = {} /\ s.at = "refresh" /\ s.knew = flow[f].knew
  BY <1>1 DEF Done, Good, Fields
<1> HIDE DEF s
<1> QED BY <1>1, <1>2, <1>3, HoldIdle DEF Awaiting

(* Reading the logs: all that was spent is in them.                        *)
LEMMA HoldQuery == ASSUME HoldInv, BuildsInv, NEW f, f \in Flow, Query(f) PROVE HoldInv'
<1> DEFINE s == [flow[f] EXCEPT !.at = "apply", !.logs = <<notes, nullified>>]
<1>1. Good(flow[f]) /\ Owns(f, flow[f], client, nullified) /\ Marked
  BY KnewGone
<1>2. client' = client /\ nullified' = nullified /\ Go(f, s) /\ flow[f].at = "ask"
  BY DEF Query
<1>3. s.inputs = flow[f].inputs /\ s.at = "apply" /\ s.logs[2] = nullified /\ s.knew = flow[f].knew
  BY <1>1 DEF Good, Fields
<1> HIDE DEF s
<1>4. s.inputs = {}
  BY <1>1, <1>2, <1>3 DEF Owns
<1>5. Owns(f, s, client, nullified)
  BY <1>1, <1>3, <1>4, NoIds DEF Owns, Marked
<1> QED BY <1>2, <1>3, <1>5, HoldQuiet

(* When it applies the logs it read.                                       *)
LEMMA HoldApply == ASSUME HoldInv, BuildsInv, NEW f, f \in Flow, Apply(f) PROVE HoldInv'
<1> DEFINE s == [flow[f] EXCEPT !.at = "guard", !.logs = Resting.logs]
<1>1. Good(flow[f]) /\ Owns(f, flow[f], client, nullified) /\ Marked /\ ClientOK
  BY KnewGone
<1>2. nullified' = nullified /\ Go(f, s) /\ flow[f].at = "apply"
      /\ client' = [client EXCEPT !.owned = client.owned \cup flow[f].logs[1],
                                  !.spent = client.spent \cup flow[f].logs[2]]
  BY DEF Apply
<1>3. s.inputs = flow[f].inputs /\ s.at = "guard" /\ s.then = flow[f].then /\ s.knew = flow[f].knew
  BY <1>1 DEF Good, Fields
<1>4. /\ client'.spent = client.spent \cup flow[f].logs[2] /\ client'.reserved = client.reserved
      /\ client'.everSynced = client.everSynced /\ client'.dirty = client.dirty
      /\ client'.freed = client.freed /\ client'.told = client.told /\ client'.lost = client.lost
  BY <1>1, <1>2 DEF ClientOK
<1> HIDE DEF s
<1>5. s.inputs = {}
  BY <1>1, <1>2, <1>3 DEF Owns
<1>6. Owns(f, s, client', nullified')
  BY <1>1, <1>2, <1>3, <1>4, <1>5, NoIds DEF Owns
<1>7. ASSUME NEW g \in Flow \ {f} PROVE Owns(g, flow[g], client', nullified')
  <2>1. Owns(g, flow[g], client, nullified)
    BY DEF HoldInv
  <2> QED BY <1>2, <1>4, <2>1 DEF Owns
<1>8. Marked'
  BY <1>1, <1>2, <1>4 DEF Marked, UpToDate
<1> QED BY <1>2, <1>3, <1>4, <1>6, <1>7, <1>8, HoldKept

(* When a synchronisation is over.                                         *)
LEMMA HoldSynced == ASSUME HoldInv, BuildsInv, NEW f, f \in Flow, Synced(f) PROVE HoldInv'
<1> DEFINE s == IF flow[f].then = "idle" THEN Resting ELSE [flow[f] EXCEPT !.at = flow[f].then]
<1>1. Good(flow[f]) /\ Owns(f, flow[f], client, nullified) /\ Marked /\ ClientOK
  BY KnewGone
<1>2. nullified' = nullified /\ Go(f, s) /\ flow[f].at = "guard"
  BY DEF Synced
<1>3. flow[f].inputs = {} /\ flow[f].then \in {"select", "nonce", "part", "idle"}
  BY <1>1, <1>2 DEF Owns, Good, Amounted, Syncing
<1>4. s.inputs = {} /\ s.at = flow[f].then /\ s.knew \subseteq flow[f].knew
  BY <1>1, <1>3 DEF Good, Fields, Resting
<1> HIDE DEF s
<1>5. /\ client'.spent = client.spent /\ client'.reserved = client.reserved
      /\ client'.freed = client.freed /\ client'.told = client.told /\ client'.lost = client.lost
  BY <1>1 DEF ClientOK, Synced
<1>6. Owns(f, s, client', nullified')
  BY <1>1, <1>2, <1>3, <1>4, <1>5, NoIds DEF Owns, ForBuild
<1>7. ASSUME NEW g \in Flow \ {f} PROVE Owns(g, flow[g], client', nullified')
  <2>1. Owns(g, flow[g], client, nullified)
    BY DEF HoldInv
  <2> QED BY <1>2, <1>5, <2>1 DEF Owns
<1>8. Marked'
  <2>1. CASE flow[f].then \in ForBuild
    BY <1>1, <1>2, <1>5, <2>1 DEF Owns, Marked
  <2>2. CASE flow[f].then \notin ForBuild
    <3>1. client' = client
      BY <2>2 DEF Synced, ForBuild
    <3> QED BY <1>1, <1>2, <3>1 DEF Marked, UpToDate
  <2> QED BY <2>1, <2>2
<1>9. s.inputs \subseteq flow[f].inputs
  BY <1>4
<1> QED BY <1>2, <1>5, <1>6, <1>7, <1>8, <1>9, HoldKept

(* Invalidating the client: whoever holds notes has lost its hold, and a   *)
(* build that had read its logs will clear the mark.                       *)
LEMMA HoldInvalidate ==
  ASSUME HoldInv, BuildsInv, NEW f, f \in Flow, NEW r, Go(f, r), r.inputs = {}, r.at = "ask",
         r.knew \subseteq nullified, invalidate(f), nullified' = nullified
  PROVE  HoldInv'
<1>1. Marked /\ ClientOK
  BY KnewGone
<1>2. /\ client'.dirty = TRUE /\ client'.reserved = {} /\ client'.freed = Holders \ {f}
      /\ client'.told = nullified /\ client'.spent = client.spent
      /\ client'.lost = (client.lost \/ SyncsForBuild \ {f} # {})
  BY <1>1 DEF invalidate, Invalidated, ClientOK
<1>3. Marked'
  BY <1>2 DEF Marked, UpToDate
<1>4. Owns(f, r, client', nullified')
  BY IdleOwns DEF Awaiting
<1>5. \A g \in Flow \ {f} : g \notin client'.freed => Ids(flow[g].inputs) = {}
  BY <1>2, NoIds DEF Holders
<1>6. ASSUME NEW g \in Flow \ {f} PROVE Owns(g, flow[g], client', nullified')
  <2>1. Owns(g, flow[g], client, nullified)
    BY DEF HoldInv
  <2>2. ~ client'.lost => ~ client.lost /\ ~ (flow[g].at \in {"apply", "guard"} /\ flow[g].then \in ForBuild)
    BY <1>2 DEF SyncsForBuild, ForBuild
  <2> QED BY <1>2, <1>5, <2>1, <2>2 DEF Owns
<1>7. \A g \in Flow \ {f} : g \notin client'.freed => Apart(r, flow[g])
  BY NoIds DEF Apart
<1>8. \A g, h \in Flow \ {f} :
        g # h /\ g \notin client'.freed /\ h \notin client'.freed => Apart(flow[g], flow[h])
  BY <1>5 DEF Apart
<1> QED BY <1>3, <1>4, <1>6, <1>7, <1>8, HoldGo

(* When it asks for a refresh.                                             *)
LEMMA HoldRefresh == ASSUME HoldInv, BuildsInv, NEW f, f \in Flow, Refresh(f) PROVE HoldInv'
<1> DEFINE s == [Resting EXCEPT !.at = "ask", !.caught = flow[f].caught \/ flow[f].kind \in Helpers]
<1>1. Go(f, s) /\ invalidate(f) /\ nullified' = nullified
  BY DEF Refresh
<1>2. s.inputs = {} /\ s.at = "ask" /\ s.knew = {}
  BY DEF Resting
<1> HIDE DEF s
<1> QED BY <1>1, <1>2, HoldInvalidate

(* When a receipt has come.                                                *)
LEMMA HoldReceipt == ASSUME HoldInv, BuildsInv, NEW f, f \in Flow, Receipt(f) PROVE HoldInv'
<1> DEFINE r == flow[f]
           left == IF r.kind \in Split THEN r.remaining - r.chunk ELSE 0
           local == [r EXCEPT !.remaining = left, !.inputs = {}]
<1>1. Good(r) /\ nullified' = nullified /\ r.knew \subseteq nullified
  BY KnewGone DEF Receipt
<1>2. CASE left > 0
  <2> DEFINE s == [local EXCEPT !.at = "ask", !.then = "part"]
  <2>1. Go(f, s) /\ invalidate(f)
    BY <1>2 DEF Receipt
  <2>2. s.inputs = {} /\ s.at = "ask" /\ s.knew = r.knew
    BY <1>1 DEF Good, Fields
  <2> HIDE DEF s
  <2> QED BY <1>1, <2>1, <2>2, HoldInvalidate
<1>3. CASE ~ (left > 0)
  <2> DEFINE s == [local EXCEPT !.at = "unwrap"]
             d == Done(f, local)
  <2>1. client' = client /\ (Go(f, s) \/ Go(f, d))
    BY <1>3 DEF Receipt
  <2>2. s.inputs = {} /\ s.at = "unwrap" /\ d.inputs = {} /\ d.at = "refresh"
        /\ s.knew = r.knew /\ d.knew = r.knew
    BY <1>1 DEF Good, Fields, Done
  <2> HIDE DEF s, d
  <2> QED BY <1>1, <2>1, <2>2, HoldIdle DEF Awaiting
<1> QED BY <1>2, <1>3

(* Selecting: what is free is not reserved, nor is it known to be spent.   *)
LEMMA HoldSelect == ASSUME HoldInv, BuildsInv, NEW f, f \in Flow, Select(f) PROVE HoldInv'
<1>1. Good(flow[f]) /\ Owns(f, flow[f], client, nullified) /\ Marked /\ ClientOK
  BY KnewGone
<1>2. nullified' = nullified /\ flow[f].at = "select"
  BY DEF Select
<1>3. CASE selectInputs(flow[f].chunk) = {}
  <2>1. Go(f, Caught(f)) /\ client' = client
    BY <1>3 DEF Select
  <2> QED BY <1>2, <2>1, HoldCaught
<1>4. CASE selectInputs(flow[f].chunk) # {}
  <2>1. PICK inputs \in selectInputs(flow[f].chunk) :
          /\ client' = [client EXCEPT !.reserved = client.reserved \cup Ids(inputs),
                                      !.freed = client.freed \ {f}]
          /\ Go(f, [flow[f] EXCEPT !.at = "prove", !.inputs = inputs])
    BY <1>4 DEF Select
  <2> DEFINE s == [flow[f] EXCEPT !.at = "prove", !.inputs = inputs]
  <2>2. s.at = "prove" /\ s.inputs = inputs /\ s.knew = flow[f].knew /\ Go(f, s)
    BY <1>1, <2>1 DEF Good, Fields
  <2>3. /\ client'.reserved = client.reserved \cup Ids(inputs) /\ client'.spent = client.spent
        /\ client'.everSynced = client.everSynced /\ client'.dirty = client.dirty
        /\ client'.freed = client.freed \ {f} /\ client'.told = client.told /\ client'.lost = client.lost
    BY <1>1, <2>1 DEF ClientOK
  <2>4. Ids(inputs) \cap client.spent = {} /\ Ids(inputs) \cap client.reserved = {}
    <3>1. inputs \subseteq utxos
      BY <2>1, SelectedAreNotes
    <3> QED BY <3>1 DEF Ids, utxos
  <2>5. ~ client.lost => Ids(inputs) \cap flow[f].knew = {}
    BY <1>1, <1>2, <2>4 DEF Owns
  <2> HIDE DEF s
  <2>6. Owns(f, s, client', nullified')
    BY <1>1, <1>2, <2>2, <2>3, <2>5 DEF Owns
  <2>7. ASSUME NEW g \in Flow \ {f}
        PROVE  Owns(g, flow[g], client', nullified') /\ (g \notin client'.freed => Apart(s, flow[g]))
    <3>1. Owns(g, flow[g], client, nullified)
      BY DEF HoldInv
    <3>2. Owns(g, flow[g], client', nullified')
      BY <1>2, <2>3, <3>1 DEF Owns
    <3>3. g \notin client'.freed => Ids(flow[g].inputs) \subseteq client.reserved
      BY <2>3, <3>1 DEF Owns
    <3> QED BY <2>2, <2>4, <3>2, <3>3 DEF Apart
  <2>8. \A g, h \in Flow \ {f} :
          g # h /\ g \notin client'.freed /\ h \notin client'.freed => Apart(flow[g], flow[h])
    BY <2>3 DEF HoldInv
  <2>9. Marked'
    BY <1>1, <1>2, <2>3 DEF Marked, UpToDate
  <2> QED BY <2>2, <2>6, <2>7, <2>8, <2>9, HoldGo
<1> QED BY <1>3, <1>4

(* A failed proof frees its notes; who shares them has lost its hold.      *)
LEMMA HoldProveFails == ASSUME HoldInv, BuildsInv, NEW f, f \in Flow, ProveFails(f) PROVE HoldInv'
<1>1. Good(flow[f]) /\ flow[f].knew \subseteq nullified /\ Marked /\ ClientOK
  BY KnewGone
<1>2. nullified' = nullified /\ Go(f, Caught(f))
      /\ client' = [client EXCEPT !.reserved = client.reserved \ Ids(flow[f].inputs),
                                  !.freed = client.freed \cup Sharing(f)]
  BY DEF ProveFails
<1>3. /\ client'.reserved = client.reserved \ Ids(flow[f].inputs) /\ client'.spent = client.spent
      /\ client'.everSynced = client.everSynced /\ client'.dirty = client.dirty
      /\ client'.freed = client.freed \cup Sharing(f)
      /\ client'.told = client.told /\ client'.lost = client.lost
  BY <1>1, <1>2 DEF ClientOK
<1>4. Caught(f).inputs = {} /\ Caught(f).at \notin Awaiting /\ Caught(f).knew \subseteq nullified
  BY <1>1, CaughtIdle
<1>5. Owns(f, Caught(f), client', nullified')
  BY <1>2, <1>4, IdleOwns
<1>6. ASSUME NEW g \in Flow \ {f} PROVE Owns(g, flow[g], client', nullified')
  <2>1. Owns(g, flow[g], client, nullified)
    BY DEF HoldInv
  <2>2. g \notin client'.freed => g \notin client.freed /\ Ids(flow[g].inputs) \cap Ids(flow[f].inputs) = {}
    BY <1>3 DEF Sharing
  <2> QED BY <1>2, <1>3, <2>1, <2>2 DEF Owns
<1>7. \A g \in Flow \ {f} : Apart(Caught(f), flow[g])
  BY <1>4, NoIds DEF Apart
<1>8. \A g, h \in Flow \ {f} :
        g # h /\ g \notin client'.freed /\ h \notin client'.freed => Apart(flow[g], flow[h])
  BY <1>3 DEF HoldInv
<1>9. Marked'
  BY <1>1, <1>2, <1>3 DEF Marked, UpToDate
<1> QED BY <1>2, <1>5, <1>6, <1>7, <1>8, <1>9, HoldGo

(* A spend is mined.                                                       *)
LEMMA HoldMineSpend == ASSUME HoldInv, BuildsInv, NEW f, f \in Flow, MineSpend(f) PROVE HoldInv'
<1> DEFINE s == [flow[f] EXCEPT !.at = "mined", !.paid = flow[f].paid + flow[f].chunk]
<1>1. Good(flow[f]) /\ Owns(f, flow[f], client, nullified) /\ Marked
  BY KnewGone
<1>2. nullified' = nullified \cup Ids(flow[f].inputs) /\ client' = client /\ Go(f, s)
  BY DEF MineSpend
<1>3. s.at = "mined" /\ s.inputs = flow[f].inputs /\ s.knew = flow[f].knew
  BY <1>1 DEF Good, Fields
<1> HIDE DEF s
<1>4. Owns(f, s, client', nullified')
  BY <1>1, <1>2, <1>3 DEF Owns
<1>5. ASSUME NEW g \in Flow \ {f} PROVE Owns(g, flow[g], client', nullified')
  <2>1. Owns(g, flow[g], client, nullified)
    BY DEF HoldInv
  <2> QED BY <1>2, <2>1 DEF Owns
<1>6. Marked'
  BY <1>1, <1>2 DEF Marked, UpToDate
<1> QED BY <1>2, <1>3, <1>4, <1>5, <1>6, HoldKept

(* Every step keeps the invariant of holds.                                *)
LEMMA HoldStep == ASSUME HoldInv, BuildsInv, [Next]_vars PROVE HoldInv'
<1>1. CASE UNCHANGED vars
  BY <1>1 DEF vars, HoldInv, Marked, UpToDate
<1>2. CASE Next
  <2>1. PICK f \in Flow :
          \/ Begins(f) \/ Part(f) \/ Query(f) \/ Apply(f) \/ Synced(f) \/ SyncFails(f)
          \/ Select(f) \/ Wrap(f) \/ ensureApproval(f) \/ WalletRefuses(f) \/ ReadNonce(f)
          \/ Prove(f) \/ ProveFails(f) \/ MineSpend(f) \/ MineShield(f) \/ Revert(f) \/ SubmitFails(f)
          \/ Receipt(f) \/ unwrapEth(f) \/ Refresh(f) \/ RefreshFails(f)
    BY <1>2 DEF Next, Begins
  <2> QED BY <2>1, HoldBegins, HoldPart, HoldQuery, HoldApply, HoldSynced, HoldSelect, HoldMoves,
             HoldFails, HoldProveFails, HoldMineSpend, HoldReceipt, HoldUnwrap, HoldRefresh
<1> QED BY <1>1, <1>2

(* It holds always.                                                        *)
LEMMA HoldAlways == Spec => []HoldInv
<1>1. ASSUME Init PROVE HoldInv
  <2>1. flow = [f \in Flow |-> Resting] /\ client.everSynced = FALSE /\ client.told = {}
    BY <1>1 DEF Init
  <2>2. Resting.inputs = {} /\ Resting.at \notin Awaiting /\ Resting.knew = {}
    BY DEF Resting, Awaiting
  <2>3. \A f \in Flow : Owns(f, flow[f], client, nullified)
    BY <2>1, <2>2, IdleOwns
  <2>4. \A f, g \in Flow : Apart(flow[f], flow[g])
    BY <2>1, <2>2, NoIds DEF Apart
  <2>5. Marked
    BY <2>1 DEF Marked, UpToDate
  <2> QED BY <2>3, <2>4, <2>5 DEF HoldInv
<1>2. HoldInv /\ BuildsInv /\ [Next]_vars => HoldInv'
  BY HoldStep
<1> QED BY <1>1, <1>2, BuildsAlways, PTL DEF Spec

(* Two builds hold the same note only if an invalidate, or the end of a    *)
(* build that failed, took the hold of one of them (client/src/pool.ts:    *)
(* 576-581 clears what is reserved, selectInputs takes what is not).       *)
THEOREM HoldsAreApartCorrect == Spec => []HoldsAreApart
<1>1. ASSUME HoldInv PROVE HoldsAreApart
  <2>1. \A f, g \in Flow \ client.freed : f # g => Ids(flow[f].inputs) \cap Ids(flow[g].inputs) = {}
    BY <1>1 DEF HoldInv, Apart
  <2> QED BY <2>1 DEF HoldsAreApart, Ids
<1> QED BY <1>1, HoldAlways, PTL

(* A build takes no note whose spending an invalidate before the build has *)
(* told the client of, whatever overlaps, gets lost or fails, as long as   *)
(* no invalidate comes between a build's reading of its logs and the end   *)
(* of its synchronisation (client/src/pool.ts:575).                        *)
THEOREM TakesNoneItWasToldOfCorrect == Spec => []TakesNoneItWasToldOf
<1>1. HoldInv => TakesNoneItWasToldOf
  BY DEF HoldInv, Owns, TakesNoneItWasToldOf
<1> QED BY <1>1, HoldAlways, PTL
=============================================================================
