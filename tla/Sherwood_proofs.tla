-------------------------- MODULE Sherwood_proofs --------------------------
(***************************************************************************)
(* Proofs about Sherwood, for any number of senders, assets, leaves and    *)
(* publications: the types of the pool's state, the freshness of labels,   *)
(* the screening of spends, and what the circuit's balance equation in the *)
(* field says of the amounts as integers.                                  *)
(***************************************************************************)
EXTENDS Sherwood, SumTheorems, SequenceTheorems, TLAPS

USE FieldAssumption, FeeAssumption, LevelsAssumption, AssetAssumption

-----------------------------------------------------------------------------
(* Types of the external data of a call.                                   *)
LEMMA ExtDataTypes ==
  ASSUME NEW x \in ExtData
  PROVE  /\ x.asset \in Asset
         /\ x.extAmount \in Int /\ x.extAmount < MAX_AMOUNT /\ x.extAmount > -MAX_AMOUNT
         /\ x.fee \in Nat /\ x.fee < MAX_AMOUNT
         /\ x.tokenOut \in Asset \cup {NoAsset}
         /\ x.minAmountOut \in Nat
         /\ x.tokenOut # NoAsset => x.extAmount < 0 /\ x.tokenOut # x.asset
<1>1. /\ x.asset \in Asset
      /\ x.extAmount \in -(MAX_AMOUNT - 1) .. MAX_AMOUNT - 1
      /\ x.fee \in Fee
      /\ x.tokenOut \in Asset \cup {NoAsset}
      /\ x.minAmountOut \in {1}
  BY DEF ExtData
<1>2. x.tokenOut # NoAsset => x.extAmount < 0 /\ x.tokenOut # x.asset
  BY DEF ExtData
<1>3. x.fee \in 0 .. MAX_AMOUNT - 1
  BY <1>1
<1> QED BY <1>1, <1>2, <1>3

(* The balance equation holds in the field; below MAX_AMOUNT it holds of   *)
(* the integers too: no choice of amounts and fee wraps around, so a proof *)
(* neither creates nor destroys value.                                     *)
LEMMA FieldResidue ==
  ASSUME NEW n \in 0 .. 2 * FIELD_SIZE - 1
  PROVE  n % FIELD_SIZE = IF n < FIELD_SIZE THEN n ELSE n - FIELD_SIZE
<1>1. CASE n < FIELD_SIZE
  BY <1>1
<1>2. CASE n >= FIELD_SIZE
  BY <1>2
<1> QED BY <1>1, <1>2

(* The circuit's balance equation in the field is one of integers: no      *)
(* wrap-around creates value (JoinSplit.circom).                           *)
THEOREM BalanceHasNoWraparound ==
  ASSUME NEW ins, NEW outs \in Amount \X Amount, NEW x \in ExtData,
         sumIns(ins) \in 0 .. 2 * (MAX_AMOUNT - 1),
         Balanced(ins, outs, x)
  PROVE  sumIns(ins) + x.extAmount = outs[1] + outs[2] + x.fee
<1> DEFINE in  == sumIns(ins)
           net == x.extAmount - x.fee
           out == outs[1] + outs[2]
<1>1. in \in 0 .. 2 * (MAX_AMOUNT - 1) /\ out \in 0 .. 2 * (MAX_AMOUNT - 1)
  BY DEF Amount
<1>2. net \in -(2 * (MAX_AMOUNT - 1)) .. MAX_AMOUNT - 1
  BY ExtDataTypes
<1>0. x.extAmount \in Int /\ x.fee \in Int /\ sumIns(ins) \in Int /\ outs[1] + outs[2] \in Int
  BY ExtDataTypes DEF Amount
<1>3. _publicAmount(x.extAmount, x.fee) = IF net >= 0 THEN net ELSE FIELD_SIZE + net
  BY ExtDataTypes DEF _publicAmount
<1>4. (in + (IF net >= 0 THEN net ELSE FIELD_SIZE + net)) % FIELD_SIZE = out % FIELD_SIZE
  BY <1>3 DEF Balanced
<1> HIDE DEF in, net, out
<1>5. out % FIELD_SIZE = out
  BY <1>1, FieldResidue
<1>6. in + net = out
  <2>1. CASE net >= 0
    <3>1. (in + net) % FIELD_SIZE = in + net
      BY <2>1, <1>1, <1>2, FieldResidue
    <3> QED BY <2>1, <3>1, <1>4, <1>5
  <2>2. CASE net < 0
    <3>1. in + (FIELD_SIZE + net) \in 0 .. 2 * FIELD_SIZE - 1
      BY <2>2, <1>1, <1>2
    <3>2. (in + (FIELD_SIZE + net)) % FIELD_SIZE
            = IF in + net < 0 THEN in + net + FIELD_SIZE ELSE in + net
      BY <3>1, FieldResidue, <1>1, <1>2
    <3>3. in + net + FIELD_SIZE > out
      BY <1>1, <1>2
    <3>4. (IF in + net < 0 THEN in + net + FIELD_SIZE ELSE in + net) = out
      <4>1. (IF net >= 0 THEN net ELSE FIELD_SIZE + net) = FIELD_SIZE + net
        BY <2>2, <1>2
      <4> QED BY <4>1, <3>2, <1>4, <1>5
    <3> QED BY <3>3, <3>4, <1>1, <1>2
  <2> QED BY <2>1, <2>2, <1>2
<1> QED BY <1>6, <1>0 DEF in, net, out

-----------------------------------------------------------------------------
(* Labels. A sender's nonce counts its deposits and swaps, and each of     *)
(* them inserts two leaves or four: that keeps labels within Label.        *)
NoncesFit == \A s \in Sender : 2 * depositNonce[s] <= Len(leaves)

IInv == PoolTypeOK /\ NextLabelsUnused /\ NoncesFit

LeafValue == Note \cup {Dust}

(* Leaves in use hold notes.                                               *)
LEMMA IndexTypes ==
  ASSUME PoolTypeOK
  PROVE  /\ Len(leaves) \in Nat
         /\ Index \subseteq Nat
         /\ \A i \in Index : NoteAt(i) \in LeafValue
BY DEF PoolTypeOK, Index, NoteAt, LeafValue

(* The note of an output is a leaf's value.                                *)
LEMMA OutNoteTypes ==
  ASSUME NEW amount \in Amount, NEW asset \in Asset, NEW label \in Label
  PROVE  OutNote(amount, asset, label) \in LeafValue
BY DEF OutNote, LeafValue, Note

(* What a proof says: its inputs are leaves under one asset and one label, *)
(* and its outputs are in range.                                           *)
LEMMA ProvableTypes ==
  ASSUME PoolTypeOK, NEW x \in ExtData, NEW p \in Provable(x)
  PROVE  /\ p.ins \in (Index \cup {Dummy}) \X (Index \cup {Dummy})
         /\ p.outs \in Amount \X Amount
         /\ p.label \in Label
         /\ InputsMatch(p.ins, x.asset, p.label)
         /\ DistinctNullifiers(p.ins)
         /\ Balanced(p.ins, p.outs, x)
<1>1. PICK ins \in InputPairs :
        /\ DistinctNullifiers(ins)
        /\ \E label \in { l \in LabelsTried(ins) : InputsMatch(ins, x.asset, l) },
           outs \in { o \in OutputPairs : Balanced(ins, o, x) } :
             p = [ins |-> ins, outs |-> outs, label |-> label]
  BY DEF Provable
<1>2. PICK label \in LabelsTried(ins), outs \in OutputPairs :
        /\ InputsMatch(ins, x.asset, label)
        /\ Balanced(ins, outs, x)
        /\ p = [ins |-> ins, outs |-> outs, label |-> label]
  BY <1>1
<1>3. ins \in (Index \cup {Dummy}) \X (Index \cup {Dummy})
  BY DEF InputPairs
<1>4. outs \in Amount \X Amount
  BY DEF OutputPairs
<1>5. label \in Label
  <2>1. CASE Real(ins) = {}
    BY <2>1 DEF LabelsTried
  <2>2. CASE Real(ins) # {}
    <3>1. PICK i \in Real(ins) : label = NoteAt(i).label
      BY <2>2 DEF LabelsTried
    <3>2. i \in Index
      BY <1>3, <3>1 DEF Real
    <3>3. NoteAt(i).amount \in 1 .. MAX_AMOUNT - 1
      BY <1>2, <3>1 DEF InputsMatch
    <3>4. NoteAt(i) \in LeafValue
      BY <3>2, IndexTypes
    <3>5. NoteAt(i) # Dust
      BY <3>3 DEF Dust
    <3> QED BY <3>1, <3>4, <3>5 DEF LeafValue, Note
  <2> QED BY <2>1, <2>2
<1> QED BY <1>1, <1>2, <1>3, <1>4, <1>5

(* The tree's capacity is a number.                                        *)
LEMMA MaxLeavesType == MaxLeaves \in Nat
BY DEF MaxLeaves

(* The label minted next is one of the labels there are.                   *)
LEMMA FreshLabelFits ==
  ASSUME IInv, HasRoom(2), NEW sender \in Sender
  PROVE  FreshLabel(sender) \in Label /\ depositNonce[sender] \in Nat
<1>1. depositNonce[sender] \in Nat
  BY DEF IInv, PoolTypeOK
<1>2. Len(leaves) \in Nat
  BY IndexTypes DEF IInv
<1>3. 2 * depositNonce[sender] + 2 <= MaxLeaves
  BY <1>1, <1>2, MaxLeavesType DEF IInv, NoncesFit, HasRoom
<1>4. depositNonce[sender] \in 0 .. MaxLeaves \div 2 - 1
  BY <1>1, <1>3, MaxLeavesType
<1> QED BY <1>1, <1>4 DEF FreshLabel, Label

(* Types and lengths of a concatenation.                                   *)
LEMMA ConcatTypes ==
  ASSUME NEW S, NEW s \in Seq(S), NEW t \in Seq(S)
  PROVE  /\ s \o t \in Seq(S)
         /\ Len(s \o t) = Len(s) + Len(t)
OBVIOUS

-----------------------------------------------------------------------------
(* The three ways a step of transact touches the state, one lemma each.    *)

(* Inserting k notes keeps the tree typed and every old leaf where it was. *)
LEMMA InsertTypes ==
  ASSUME IInv, NEW notes \in Seq(LeafValue), Insert(notes)
  PROVE  /\ leaves' \in Seq(LeafValue)
         /\ Len(leaves') = Len(leaves) + Len(notes)
         /\ Len(leaves') <= MaxLeaves
         /\ Len(leaves') \in Nat
<1>1. leaves \in Seq(LeafValue)
  BY DEF IInv, PoolTypeOK, LeafValue
<1>2. leaves' = leaves \o notes /\ Len(leaves) + Len(notes) <= MaxLeaves
  BY DEF Insert, HasRoom
<1>3. leaves \o notes \in Seq(LeafValue) /\ Len(leaves \o notes) = Len(leaves) + Len(notes)
  BY <1>1, ConcatTypes
<1>4. Len(leaves \o notes) \in Nat
  BY <1>3
<1> QED BY <1>2, <1>3, <1>4

(* A proof's two outputs are two notes.                                    *)
LEMMA OutNotesTypes ==
  ASSUME PoolTypeOK, NEW x \in ExtData, NEW p \in Provable(x)
  PROVE  OutNotes(p, x) \in Seq(LeafValue) /\ Len(OutNotes(p, x)) = 2
<1>1. p.outs[1] \in Amount /\ p.outs[2] \in Amount /\ p.label \in Label
  BY ProvableTypes
<1>2. x.asset \in Asset
  BY DEF ExtData
<1>3. /\ OutNote(p.outs[1], x.asset, p.label) \in LeafValue
      /\ OutNote(p.outs[2], x.asset, p.label) \in LeafValue
  BY <1>1, <1>2, OutNoteTypes
<1> QED BY <1>3 DEF OutNotes

(* Minting a label keeps labels fresh, as at least two leaves go in with   *)
(* it.                                                                     *)
LEMMA MintKeepsLabels ==
  ASSUME IInv, HasRoom(2), NEW sender \in Sender, MintLabel(sender),
         Len(leaves') \in Nat, Len(leaves') >= Len(leaves) + 2, Len(leaves') <= MaxLeaves
  PROVE  /\ depositNonce' \in [Sender -> 0 .. MaxLeaves \div 2]
         /\ usedLabel' \subseteq Label
         /\ NextLabelsUnused'
         /\ NoncesFit'
<1>1. /\ FreshLabel(sender) \in Label
      /\ FreshLabel(sender).by = sender
      /\ FreshLabel(sender).nonce = depositNonce[sender]
  BY FreshLabelFits DEF FreshLabel
<1>2. /\ depositNonce \in [Sender -> 0 .. MaxLeaves \div 2]
      /\ usedLabel \subseteq Label
      /\ Len(leaves) \in Nat
  BY IndexTypes DEF IInv, PoolTypeOK
<1>3. /\ depositNonce' = [depositNonce EXCEPT ![sender] = @ + 1]
      /\ usedLabel' = usedLabel \cup {FreshLabel(sender)}
  BY DEF MintLabel
<1>4. \A s \in Sender :
        depositNonce'[s] = IF s = sender THEN depositNonce[s] + 1 ELSE depositNonce[s]
  BY <1>2, <1>3
<1>10. \A s \in Sender : depositNonce[s] \in Nat
  BY <1>2, MaxLeavesType
<1>5. NoncesFit'
  BY <1>10, <1>2, <1>4 DEF NoncesFit, IInv
<1>6. \A s \in Sender : depositNonce'[s] \in 0 .. MaxLeaves \div 2
  <2> TAKE s \in Sender
  <2>1. depositNonce'[s] \in Nat
    BY <1>10, <1>4
  <2>2. 2 * depositNonce'[s] <= MaxLeaves
    BY <2>1, <1>5, MaxLeavesType DEF NoncesFit
  <2> QED BY <2>1, <2>2, MaxLeavesType
<1>7. depositNonce' \in [Sender -> 0 .. MaxLeaves \div 2]
  BY <1>2, <1>3, <1>4, <1>6
<1>8. NextLabelsUnused'
  <2> SUFFICES ASSUME NEW s \in Sender, NEW l \in usedLabel', l.by = s
               PROVE  l.nonce < depositNonce'[s]
    BY DEF NextLabelsUnused
  <2>1. CASE l \in usedLabel
    <3>1. l.nonce < depositNonce[s]
      BY <2>1 DEF IInv, NextLabelsUnused
    <3>2. l.nonce \in Int
      BY <2>1, <1>2 DEF Label
    <3> QED BY <3>1, <3>2, <1>4, <1>10
  <2>2. CASE l = FreshLabel(sender)
    BY <2>2, <1>1, <1>4, <1>10
  <2> QED BY <2>1, <2>2, <1>3
<1>9. usedLabel' \subseteq Label
  BY <1>1, <1>2, <1>3
<1> QED BY <1>5, <1>7, <1>8, <1>9

(* A step that mints no label keeps the labels to come unused.             *)
LEMMA KeepLabels ==
  ASSUME IInv, UNCHANGED <<depositNonce, usedLabel>>,
         Len(leaves') \in Nat, Len(leaves') >= Len(leaves)
  PROVE  /\ depositNonce' \in [Sender -> 0 .. MaxLeaves \div 2]
         /\ usedLabel' \subseteq Label
         /\ NextLabelsUnused'
         /\ NoncesFit'
<1>1. \A s \in Sender : depositNonce[s] \in Nat
  BY MaxLeavesType DEF IInv, PoolTypeOK
<1>2. NoncesFit'
  BY <1>1, IndexTypes DEF IInv, NoncesFit
<1>3. NextLabelsUnused'
  BY DEF IInv, NextLabelsUnused
<1> QED BY <1>2, <1>3 DEF IInv, PoolTypeOK

(* What a step of transact must establish for IInv to hold after it.       *)
StepTypes ==
  /\ leaves' \in Seq(LeafValue)
  /\ Len(leaves') >= Len(leaves) + 2
  /\ Len(leaves') <= MaxLeaves
  /\ depositNonce' \in [Sender -> 0 .. MaxLeaves \div 2]
  /\ usedLabel' \subseteq Label
  /\ NextLabelsUnused'
  /\ NoncesFit'
  /\ balance' \in [Asset -> Nat]

(* Types after a deposit.                                                  *)
LEMMA ShieldTypes ==
  ASSUME IInv, HasRoom(2), NEW x \in ExtData, NEW p \in Provable(x),
         NEW sender \in Sender, Shield(sender, p, x)
  PROVE  StepTypes
<1>1. Insert(OutNotes(p, x)) /\ MintLabel(sender)
  BY DEF Shield
<1>2. OutNotes(p, x) \in Seq(LeafValue) /\ Len(OutNotes(p, x)) = 2
  BY OutNotesTypes DEF IInv
<1>3. /\ leaves' \in Seq(LeafValue) /\ Len(leaves') \in Nat
      /\ Len(leaves') = Len(leaves) + 2 /\ Len(leaves') <= MaxLeaves
  BY <1>1, <1>2, InsertTypes
<1>4. balance' \in [Asset -> Nat]
  <2>1. PICK credited \in 0 .. x.extAmount :
          /\ balance[x.asset] + credited >= x.fee
          /\ balance' = [balance EXCEPT ![x.asset] = @ + credited - x.fee]
    BY DEF Shield
  <2>2. balance \in [Asset -> Nat] /\ credited \in Nat
    BY ExtDataTypes DEF IInv, PoolTypeOK
  <2>3. balance[x.asset] + credited - x.fee \in Nat
    BY <2>1, <2>2, ExtDataTypes
  <2> QED BY <2>1, <2>2, <2>3, ExtDataTypes
<1>5. Len(leaves) \in Nat
  BY IndexTypes DEF IInv
<1> QED BY <1>1, <1>3, <1>4, <1>5, MintKeepsLabels DEF StepTypes

(* Transfers and exits: no label, two leaves, tokens out if any.           *)
LEMMA PaidTypes ==
  ASSUME IInv, NEW asset \in Asset, NEW amount \in Nat, Pay(asset, amount),
         balance' = [balance EXCEPT ![asset] = @ - amount]
  PROVE  balance' \in [Asset -> Nat]
<1>1. balance \in [Asset -> Nat]
  BY DEF IInv, PoolTypeOK
<1>2. balance[asset] - amount \in Nat
  BY <1>1 DEF Pay
<1> QED BY <1>1, <1>2

(* Types after a payment in the pool or out of it.                         *)
LEMMA TransferTypes ==
  ASSUME IInv, NEW x \in ExtData, NEW p \in Provable(x),
         Transfer(p, x) \/ Unshield(p, x)
  PROVE  StepTypes
<1>1. Insert(OutNotes(p, x)) /\ UNCHANGED <<depositNonce, usedLabel>>
  BY DEF Transfer, Unshield
<1>2. OutNotes(p, x) \in Seq(LeafValue) /\ Len(OutNotes(p, x)) = 2
  BY OutNotesTypes DEF IInv
<1>3. /\ leaves' \in Seq(LeafValue) /\ Len(leaves') \in Nat
      /\ Len(leaves') = Len(leaves) + 2 /\ Len(leaves') <= MaxLeaves
  BY <1>1, <1>2, InsertTypes
<1>4. balance' \in [Asset -> Nat]
  <2>1. CASE Transfer(p, x)
    BY <2>1, PaidTypes, ExtDataTypes DEF Transfer
  <2>2. CASE Unshield(p, x)
    <3>1. /\ x.fee - x.extAmount \in Nat
          /\ Pay(x.asset, x.fee - x.extAmount)
      BY <2>2, ExtDataTypes DEF Unshield
    <3>2. balance' = [balance EXCEPT ![x.asset] = @ - (x.fee - x.extAmount)]
      <4>1. balance[x.asset] \in Nat
        BY ExtDataTypes DEF IInv, PoolTypeOK
      <4>2. balance[x.asset] - x.fee + x.extAmount = balance[x.asset] - (x.fee - x.extAmount)
        BY <4>1, ExtDataTypes
      <4> QED BY <2>2, <4>2 DEF Unshield
    <3> QED BY <3>1, <3>2, PaidTypes, ExtDataTypes
  <2> QED BY <2>1, <2>2
<1>5. Len(leaves) \in Nat
  BY IndexTypes DEF IInv
<1> QED BY <1>1, <1>3, <1>4, <1>5, KeepLabels DEF StepTypes

(* Types after a swap.                                                     *)
LEMMA SwapTypes ==
  ASSUME IInv, HasRoom(2), NEW x \in ExtData, NEW p \in Provable(x),
         NEW sender \in Sender, x.tokenOut # NoAsset, swapAndReshield(sender, p, x)
  PROVE  StepTypes
<1>1. PICK received \in 0 .. MAX_AMOUNT :
        /\ received < MAX_AMOUNT
        /\ Insert(OutNotes(p, x) \o
                  << OutNote(received, x.tokenOut, ClaimLabel(sender, p)), Dust >>)
        /\ balance' = [balance EXCEPT ![x.asset] = @ - x.fee + x.extAmount,
                                      ![x.tokenOut] = @ + received]
  BY DEF swapAndReshield
<1> DEFINE claim == OutNote(received, x.tokenOut, ClaimLabel(sender, p))
           pair  == <<claim, Dust>>
           notes == OutNotes(p, x) \o pair
<1>2. OutNotes(p, x) \in Seq(LeafValue) /\ Len(OutNotes(p, x)) = 2
  BY OutNotesTypes DEF IInv
<1>3. x.tokenOut \in Asset /\ x.tokenOut # x.asset /\ x.extAmount < 0
  BY ExtDataTypes
<1>4. Insert(notes)
  BY <1>1
<1>5. Len(leaves) \in Nat
  BY IndexTypes DEF IInv
<1>6. notes \in Seq(LeafValue) /\ Len(notes) = 4
  <2>1. ClaimLabel(sender, p) \in Label
    BY FreshLabelFits DEF ClaimLabel
  <2>2. received \in Amount
    BY <1>1 DEF Amount
  <2>3. claim \in LeafValue
    BY <1>3, <2>1, <2>2, OutNoteTypes
  <2>4. Dust \in LeafValue
    BY DEF LeafValue
  <2> HIDE DEF claim
  <2>5. pair \in Seq(LeafValue) /\ Len(pair) = 2
    BY <2>3, <2>4
  <2> HIDE DEF pair
  <2>6. notes \in Seq(LeafValue) /\ Len(notes) = Len(OutNotes(p, x)) + Len(pair)
    BY <1>2, <2>5, ConcatTypes
  <2> QED BY <1>2, <2>5, <2>6
<1> HIDE DEF notes
<1>7. /\ leaves' \in Seq(LeafValue) /\ Len(leaves') \in Nat
      /\ Len(leaves') = Len(leaves) + 4 /\ Len(leaves') <= MaxLeaves
  BY <1>4, <1>6, InsertTypes
<1>8. balance' \in [Asset -> Nat]
  <2>1. balance \in [Asset -> Nat] /\ received \in Nat
    BY DEF IInv, PoolTypeOK
  <2>2. balance[x.asset] >= x.fee - x.extAmount
    BY DEF swapAndReshield, Pay
  <2>3. balance[x.asset] \in Nat /\ balance[x.tokenOut] \in Nat
    BY <1>3, <2>1, ExtDataTypes
  <2>4. /\ balance[x.asset] - x.fee + x.extAmount \in Nat
        /\ balance[x.tokenOut] + received \in Nat
    BY <2>1, <2>2, <2>3, ExtDataTypes
  <2> QED BY <1>1, <1>3, <2>1, <2>4, ExtDataTypes
<1>9. MintLabel(sender)
  BY DEF swapAndReshield
<1>10. Len(leaves') >= Len(leaves) + 2
  BY <1>5, <1>7
<1> QED BY <1>7, <1>8, <1>9, <1>10, MintKeepsLabels DEF StepTypes

(* The invariant, after any call of transact or swapAndReshield.           *)
LEMMA TransactTypes ==
  ASSUME IInv, HasRoom(2), NEW x \in ExtData, NEW p \in Provable(x),
         NEW sender \in Sender, transact(sender, p, x)
  PROVE  IInv'
<1>1. StepTypes
  <2>1. CASE Shield(sender, p, x)
    BY <2>1, ShieldTypes
  <2>2. CASE Transfer(p, x) \/ Unshield(p, x)
    BY <2>2, TransferTypes
  <2>3. CASE swapAndReshield(sender, p, x)
    <3>1. x.tokenOut # NoAsset
      BY <2>3, AssetAssumption DEF swapAndReshield, IInv, PoolTypeOK
    <3> QED BY <2>3, <3>1, SwapTypes
  <2> QED BY <2>1, <2>2, <2>3 DEF transact
<1>2. nullifierHashes' \subseteq Index'
  <2>1. Real(p.ins) \subseteq Index
    <3>1. p.ins \in (Index \cup {Dummy}) \X (Index \cup {Dummy})
      BY ProvableTypes DEF IInv
    <3> QED BY <3>1 DEF Real
  <2>2. Index \subseteq Index'
    <3>1. Len(leaves) \in Nat /\ Len(leaves') \in Nat
      BY <1>1, IndexTypes DEF IInv, StepTypes
    <3> QED BY <1>1, <3>1 DEF Index, StepTypes
  <2> QED BY <2>1, <2>2 DEF transact, IInv, PoolTypeOK
<1>3. supportedAsset' \subseteq Asset
  BY DEF transact, IInv, PoolTypeOK
<1>4. PoolTypeOK'
  BY <1>1, <1>2, <1>3 DEF StepTypes, PoolTypeOK, LeafValue
<1> QED BY <1>1, <1>4 DEF StepTypes, IInv

-----------------------------------------------------------------------------
(* Init and every step of the pool keep IInv.                              *)
LEMMA InitIInv == Init => IInv
<1> SUFFICES ASSUME Init PROVE IInv
  OBVIOUS
<1>1. leaves = << >> /\ nullifierHashes = {} /\ usedLabel = {}
  BY DEF Init
<1>2. depositNonce = [s \in Sender |-> 0] /\ balance = [a \in Asset |-> 0]
  BY DEF Init
<1>3. supportedAsset \subseteq Asset
  BY DEF Init
<1>4. leaves \in Seq(Note \cup {Dust}) /\ Len(leaves) = 0
  BY <1>1
<1>5. depositNonce \in [Sender -> 0 .. MaxLeaves \div 2]
  BY <1>2, MaxLeavesType
<1>6. PoolTypeOK
  BY <1>1, <1>2, <1>3, <1>4, <1>5, MaxLeavesType DEF PoolTypeOK
<1>7. NextLabelsUnused
  BY <1>1 DEF NextLabelsUnused
<1>8. NoncesFit
  BY <1>2, <1>4 DEF NoncesFit
<1> QED BY <1>6, <1>7, <1>8 DEF IInv

(* Every step of the pool keeps the invariant.                             *)
LEMMA StepIInv == IInv /\ [Next]_vars => IInv'
<1> SUFFICES ASSUME IInv, [Next]_vars PROVE IInv'
  OBVIOUS
<1>1. ASSUME HasRoom(2), NEW x \in ExtData, NEW p \in Provable(x), NEW sender \in Sender,
             transact(sender, p, x)
      PROVE  IInv'
  BY <1>1, TransactTypes
<1>2. ASSUME UNCHANGED poolVars, supportedAsset' \subseteq Asset
      PROVE  IInv'
  BY <1>2 DEF IInv, PoolTypeOK, NextLabelsUnused, NoncesFit, poolVars, Index
<1>3. ASSUME NEW token \in Listable, NEW supported \in BOOLEAN, setAsset(token, supported)
      PROVE  IInv'
  <2>1. supportedAsset' \subseteq Asset
    BY <1>3 DEF setAsset, IInv, PoolTypeOK
  <2> QED BY <1>2, <1>3, <2>1 DEF setAsset
<1>4. ASSUME NEW labels \in SUBSET usedLabel, setAssociationRoot(labels)
      PROVE  IInv'
  BY <1>2, <1>4 DEF setAssociationRoot, IInv, PoolTypeOK
<1>5. CASE UNCHANGED vars
  BY <1>2, <1>5 DEF vars, IInv, PoolTypeOK
<1> QED BY <1>1, <1>3, <1>4, <1>5 DEF Next

(* The invariant holds always.                                             *)
LEMMA PoolInvariant == Spec => []IInv
BY InitIInv, StepIInv, PTL DEF Spec

(* No label is minted twice: `require(!usedLabel[expected])` in transact   *)
(* never refuses a deposit or a swap.                                      *)
THEOREM LabelsCorrect == Spec => []NextLabelsUnused
<1>1. IInv => NextLabelsUnused
  BY DEF IInv
<1> QED BY <1>1, PoolInvariant, PTL

-----------------------------------------------------------------------------
(* The pool moves the association roots only by publishing sets of labels. *)
(* So the ring holds what was published last, and what it holds is sets of *)
(* labels.                                                                 *)
RingInv ==
  /\ Roots!TypeOK
  /\ RingHolds(associationRoots, assocRootIndex, published, Unset, ASSOC_ROOT_HISTORY)
  /\ associationRoot = IF published = << >> THEN Unset ELSE published[Len(published)]

LEMMA InitRing == Init => RingInv
<1> SUFFICES ASSUME Init PROVE RingInv
  OBVIOUS
<1> DEFINE n == ASSOC_ROOT_HISTORY
<1>1. n \in Nat \ {0}
  BY RingAssumption
<1>2. /\ associationRoot = Unset /\ associationRoots = [s \in 0 .. n - 1 |-> Unset]
      /\ assocRootIndex = 0 /\ published = << >>
  BY DEF Init, Roots!Init, Roots!Slot
<1>3. RingHolds([s \in 0 .. n - 1 |-> Unset], 0, << >>, Unset, n)
  <2> HIDE DEF n
  <2> QED BY <1>1, RingEmpty
<1>4. Roots!TypeOK
  <2>1. 0 \in 0 .. n - 1 /\ << >> \in Seq((SUBSET Label) \cup {Unset})
    BY <1>1
  <2> QED BY <1>2, <2>1 DEF Roots!TypeOK, Roots!Slot
<1> QED BY <1>2, <1>3, <1>4 DEF RingInv

(* One publication.                                                        *)
LEMMA PublishRing ==
  ASSUME RingInv, NEW labels \in SUBSET Label, Roots!publish(labels)
  PROVE  RingInv'
<1> USE RingAssumption
<1> DEFINE n == ASSOC_ROOT_HISTORY
<1>1. /\ associationRoots \in [0 .. n - 1 -> (SUBSET Label) \cup {Unset}] /\ assocRootIndex \in 0 .. n - 1
      /\ published \in Seq((SUBSET Label) \cup {Unset})
  BY DEF RingInv, Roots!TypeOK, Roots!Slot
<1>2. /\ associationRoot' = labels /\ associationRoots' = [associationRoots EXCEPT ![assocRootIndex] = labels]
      /\ assocRootIndex' = (assocRootIndex + 1) % n /\ published' = Append(published, labels)
  BY DEF Roots!publish, Roots!NextSlot
<1>3. assocRootIndex' \in 0 .. n - 1
  BY <1>1, <1>2, NextInRing
<1>4. Roots!TypeOK'
  BY <1>1, <1>2, <1>3 DEF Roots!TypeOK, Roots!Slot
<1>5. RingHolds(associationRoots, assocRootIndex, published, Unset, n)'
  BY <1>1, <1>2, RingStep DEF RingInv
<1>6. associationRoot' = published'[Len(published')] /\ published' # << >>
  <2> DEFINE S == (SUBSET Label) \cup {Unset}
  <2>1. published \in Seq(S) /\ labels \in S
    BY <1>1
  <2> HIDE DEF S
  <2>2. Len(published') = Len(published) + 1 /\ published'[Len(published) + 1] = labels
    BY <1>2, <2>1
  <2> QED BY <1>2, <2>1, <2>2
<1> QED BY <1>4, <1>5, <1>6 DEF RingInv

LEMMA RingInvariant == Spec => []RingInv
<1>1. IInv /\ RingInv /\ [Next]_vars => RingInv'
  <2> SUFFICES ASSUME IInv, RingInv, [Next]_vars PROVE RingInv'
    OBVIOUS
  <2>1. ASSUME NEW labels \in SUBSET usedLabel, setAssociationRoot(labels)
        PROVE  RingInv'
    <3>1. labels \in SUBSET Label
      BY DEF IInv, PoolTypeOK
    <3> QED BY <2>1, <3>1, PublishRing DEF setAssociationRoot
  <2>2. ASSUME UNCHANGED rootVars
        PROVE  RingInv'
    BY <2>2 DEF rootVars, RingInv, Roots!TypeOK
  <2> QED BY <2>1, <2>2 DEF Next, transact, setAsset, vars
<1> QED BY <1>1, InitRing, PoolInvariant, PTL DEF Spec

(* Types of the pool.                                                      *)
THEOREM TypeCorrect == Spec => []TypeOK
<1>1. IInv /\ RingInv => TypeOK
  BY DEF IInv, TypeOK, RingInv
<1> QED BY <1>1, PoolInvariant, RingInvariant, PTL

-----------------------------------------------------------------------------
(* A note spent by a proof has a positive amount, so the proof is no pure  *)
(* deposit and names the note's label.                                     *)
LEMMA SpentNoteLabel ==
  ASSUME IInv, NEW x \in ExtData, NEW p \in Provable(x), NEW i \in Real(p.ins)
  PROVE  ~isDeposit(p.ins) /\ NoteAt(i).label = p.label
<1>1. /\ p.ins[1] \in Index \cup {Dummy} /\ p.ins[2] \in Index \cup {Dummy}
      /\ InputsMatch(p.ins, x.asset, p.label)
  BY ProvableTypes DEF IInv
<1>2. \A j \in Real(p.ins) : NoteAt(j).amount \in 1 .. MAX_AMOUNT - 1 /\ NoteAt(j).label = p.label
  BY <1>1 DEF InputsMatch
<1>3. Real(p.ins) = {p.ins[1], p.ins[2]} \ {Dummy}
  BY DEF Real
<1>4. \A k \in 1 .. 2 :
        /\ InAmount(p.ins[k]) \in Nat
        /\ p.ins[k] # Dummy => InAmount(p.ins[k]) > 0
  BY <1>2, <1>3 DEF InAmount
<1>5. p.ins[1] # Dummy \/ p.ins[2] # Dummy
  BY <1>3
<1>6. ~isDeposit(p.ins)
  BY <1>4, <1>5 DEF isDeposit, sumIns
<1> QED BY <1>2, <1>6

(* A root the contract knows is one that was published recently: its       *)
(* labels are approved.                                                    *)
LEMMA KnownRootApproves ==
  ASSUME RingInv,
         NEW root \in { associationRoot } \cup { associationRoots[s] : s \in Roots!Slot },
         Roots!isKnownAssociationRoot(root), NEW l \in root
  PROVE  Approved(l)
<1> USE RingAssumption
<1> DEFINE n == ASSOC_ROOT_HISTORY
<1>1. /\ associationRoots \in [0 .. n - 1 -> (SUBSET Label) \cup {Unset}] /\ assocRootIndex \in 0 .. n - 1
      /\ published \in Seq((SUBSET Label) \cup {Unset})
  BY DEF RingInv, Roots!TypeOK, Roots!Slot
<1>2. root # Unset /\ (root = associationRoot \/ \E s \in 0 .. n - 1 : associationRoots[s] = root)
  BY DEF Roots!isKnownAssociationRoot, Roots!Searched, Roots!Slot
<1>3. \E k \in 1 .. Len(published) : published[k] = root /\ Len(published) - k < n
  <2>1. CASE root = associationRoot
    <3>1. published # << >> /\ Len(published) \in 1 .. Len(published)
      BY <1>1, <1>2, <2>1 DEF RingInv
    <3>2. published[Len(published)] = root
      BY <2>1, <3>1 DEF RingInv
    <3>3. Len(published) - Len(published) < n
      BY <3>1
    <3> QED BY <3>1, <3>2, <3>3
  <2>2. CASE \E s \in 0 .. n - 1 : associationRoots[s] = root
    <3> DEFINE S == (SUBSET Label) \cup {Unset}
    <3>1. RingHolds(associationRoots, assocRootIndex, published, Unset, n)
      BY DEF RingInv
    <3>2. /\ n \in Nat \ {0} /\ associationRoots \in [0 .. n - 1 -> S] /\ assocRootIndex \in 0 .. n - 1
          /\ published \in Seq(S)
      BY <1>1
    <3>3. root # Unset
      BY <1>2
    <3> HIDE DEF S, n
    <3>4. (\E s \in 0 .. n - 1 : associationRoots[s] = root)
            <=> \E k \in 1 .. Len(published) : published[k] = root /\ Len(published) - k < n
      BY ONLY <3>1, <3>2, <3>3, RingFinds
    <3> QED BY <2>2, <3>4
  <2> QED BY <1>2, <2>1, <2>2
<1> QED BY <1>3 DEF Approved

(* No note is spent unless its label is in one of the newest               *)
(* ASSOC_ROOT_HISTORY publications: the association-set binding of         *)
(* transact, for any interleaving of spends and publications.              *)
THEOREM ScreeningCorrect == Spec => SpendsAreScreened
<1>1. IInv /\ RingInv /\ [Next]_vars
        => [\A i \in nullifierHashes' \ nullifierHashes : Approved(NoteAt(i).label)]_vars
  <2> SUFFICES ASSUME IInv, RingInv, [Next]_vars,
                      NEW i \in nullifierHashes' \ nullifierHashes
               PROVE  Approved(NoteAt(i).label)
    OBVIOUS
  <2>0. PICK x \in ExtData :
          \E p \in Provable(x), sender \in Sender : transact(sender, p, x)
    <3>1. nullifierHashes' # nullifierHashes
      OBVIOUS
    <3> QED BY <3>1 DEF Next, setAsset, setAssociationRoot, vars, poolVars
  <2>1. PICK p \in Provable(x), sender \in Sender : transact(sender, p, x)
    BY <2>0
  <2>2. i \in Real(p.ins)
    BY <2>1 DEF transact
  <2>3. ~isDeposit(p.ins) /\ NoteAt(i).label = p.label
    BY <2>2, SpentNoteLabel
  <2>4. PICK root \in { associationRoot } \cup { associationRoots[s] : s \in Roots!Slot } :
          Roots!isKnownAssociationRoot(root) /\ p.label \in root
    BY <2>1, <2>3 DEF transact, Screened
  <2> QED BY <2>3, <2>4, KnownRootApproves
<1> QED BY <1>1, PoolInvariant, RingInvariant, PTL DEF Spec, SpendsAreScreened

-----------------------------------------------------------------------------
IndexOf(ls) == 0 .. Len(ls) - 1
AmountsOf(ls) == [i \in IndexOf(ls) |-> ls[i + 1].amount]
LiveOf(ls, spent, Q) ==
  { i \in IndexOf(ls) : ls[i + 1].amount # 0 /\ i \notin spent /\ ls[i + 1] \in Q }
WorthOf(ls, spent, Q) == SumFunctionOnSet(AmountsOf(ls), LiveOf(ls, spent, Q))
Counted(n, Q) == IF n \in Q THEN n.amount ELSE 0

(* Amounts of leaves are natural numbers.                                  *)
LEMMA LeafAmounts == \A n \in LeafValue : n.amount \in Nat
BY DEF LeafValue, Note, Dust, Amount

(* The unspent leaves of a kind are finitely many, with natural amounts.   *)
LEMMA LiveTypes ==
  ASSUME NEW ls, NEW spent, NEW Q, ls \in Seq(LeafValue)
  PROVE  /\ IsFiniteSet(LiveOf(ls, spent, Q))
         /\ \A i \in IndexOf(ls) : AmountsOf(ls)[i] = ls[i + 1].amount /\ ls[i + 1] \in LeafValue /\ AmountsOf(ls)[i] \in Nat
         /\ LiveOf(ls, spent, Q) \subseteq IndexOf(ls)
         /\ WorthOf(ls, spent, Q) \in Nat
<1>1. \A i \in IndexOf(ls) : ls[i + 1] \in LeafValue
  BY DEF IndexOf
<1>2. \A i \in IndexOf(ls) : AmountsOf(ls)[i] = ls[i + 1].amount /\ AmountsOf(ls)[i] \in Nat
  BY <1>1, LeafAmounts DEF AmountsOf
<1>3. LiveOf(ls, spent, Q) \subseteq IndexOf(ls)
  BY DEF LiveOf
<1>4. IsFiniteSet(IndexOf(ls))
  BY FS_Interval DEF IndexOf
<1>5. IsFiniteSet(LiveOf(ls, spent, Q))
  BY <1>3, <1>4, FS_Subset
<1>6. WorthOf(ls, spent, Q) \in Nat
  BY <1>2, <1>3, <1>5, SumNat DEF WorthOf
<1> QED BY <1>1, <1>2, <1>3, <1>5, <1>6

(* One leaf more.                                                          *)
LEMMA WorthAppend ==
  ASSUME NEW ls, NEW spent, NEW Q, NEW n,
         ls \in Seq(LeafValue), spent \subseteq IndexOf(ls), n \in LeafValue
  PROVE  /\ Append(ls, n) \in Seq(LeafValue)
         /\ spent \subseteq IndexOf(Append(ls, n))
         /\ WorthOf(Append(ls, n), spent, Q) = WorthOf(ls, spent, Q) + Counted(n, Q)
<1> DEFINE more == Append(ls, n)
           old  == LiveOf(ls, spent, Q)
           v    == AmountsOf(more)
           last == Len(ls)
<1>1. more \in Seq(LeafValue) /\ Len(more) = Len(ls) + 1 /\ Len(ls) \in Nat
  OBVIOUS
<1>2. IndexOf(more) = IndexOf(ls) \cup {last} /\ last \notin IndexOf(ls) /\ last \notin spent
  BY <1>1 DEF IndexOf
<1>3. \A i \in IndexOf(ls) : more[i + 1] = ls[i + 1]
  BY DEF IndexOf
<1>4. more[last + 1] = n
  OBVIOUS
<1> HIDE DEF more, last
<1>5. v[last] = n.amount /\ n.amount \in Nat /\ \A i \in IndexOf(ls) : v[i] = AmountsOf(ls)[i] /\ v[i] \in Nat
  BY <1>2, <1>3, <1>4, LiveTypes, LeafAmounts DEF AmountsOf
<1>6. LiveOf(more, spent, Q) = IF n.amount # 0 /\ n \in Q THEN old \cup {last} ELSE old
  BY <1>2, <1>3, <1>4 DEF LiveOf
<1>7. IsFiniteSet(old) /\ old \subseteq IndexOf(ls) /\ last \notin old
  BY <1>2, LiveTypes
<1> HIDE DEF old, v
<1>8. SumFunctionOnSet(v, old) = SumFunctionOnSet(AmountsOf(ls), old)
  BY <1>5, <1>7, SumSame
<1>9. SumFunctionOnSet(v, old) \in Nat
  BY <1>5, <1>7, SumNat
<1>10. WorthOf(ls, spent, Q) = SumFunctionOnSet(v, old)
  BY <1>8 DEF WorthOf, old
<1>11. CASE n.amount # 0 /\ n \in Q
  <2>3. \A i \in old \cup {last} : v[i] \in Int
    BY <1>5, <1>7
  <2>1. SumFunctionOnSet(v, old \cup {last}) = v[last] + SumFunctionOnSet(v, old)
    BY <1>7, <2>3, SumAdd
  <2>2. WorthOf(more, spent, Q) = SumFunctionOnSet(v, old \cup {last})
    BY <1>6, <1>11 DEF WorthOf, v
  <2> QED BY <1>1, <1>2, <1>5, <1>9, <1>10, <1>11, <2>1, <2>2 DEF Counted, more
<1>12. CASE ~(n.amount # 0 /\ n \in Q)
  <2>1. WorthOf(more, spent, Q) = SumFunctionOnSet(v, old)
    BY <1>6, <1>12 DEF WorthOf, v
  <2> QED BY <1>1, <1>2, <1>5, <1>9, <1>10, <1>12, <2>1 DEF Counted, more
<1> QED BY <1>11, <1>12

(* One leaf spent.                                                         *)
LEMMA WorthSpend ==
  ASSUME NEW ls \in Seq(LeafValue), NEW spent, NEW Q, NEW i \in IndexOf(ls) \ spent
  PROVE  WorthOf(ls, spent \cup {i}, Q) = WorthOf(ls, spent, Q) - Counted(ls[i + 1], Q)
<1> DEFINE live == LiveOf(ls, spent, Q)
           v    == AmountsOf(ls)
<1>1. /\ IsFiniteSet(live) /\ WorthOf(ls, spent, Q) \in Nat /\ live \subseteq IndexOf(ls)
      /\ \A j \in IndexOf(ls) : v[j] = ls[j + 1].amount /\ v[j] \in Nat
  BY LiveTypes
<1>2. LiveOf(ls, spent \cup {i}, Q) = live \ {i}
  BY DEF LiveOf
<1>3. CASE i \in live
  <2>1. SumFunctionOnSet(v, live) = v[i] + SumFunctionOnSet(v, live \ {i})
    <3> HIDE DEF live, v
    <3> QED BY <1>1, <1>3, SumRemove
  <2>2. WorthOf(ls, spent \cup {i}, Q) \in Nat
    BY LiveTypes
  <2>3. Counted(ls[i + 1], Q) = v[i]
    BY <1>1, <1>3 DEF Counted, LiveOf
  <2>4. /\ WorthOf(ls, spent, Q) = SumFunctionOnSet(v, live)
        /\ WorthOf(ls, spent \cup {i}, Q) = SumFunctionOnSet(v, live \ {i})
    BY <1>2 DEF WorthOf
  <2> HIDE DEF live, v
  <2> QED BY <1>1, <2>1, <2>2, <2>3, <2>4
<1>4. CASE i \notin live
  <2>1. Counted(ls[i + 1], Q) = 0
    BY <1>4 DEF Counted, LiveOf
  <2>2. live \ {i} = live
    BY <1>4
  <2>3. WorthOf(ls, spent \cup {i}, Q) = WorthOf(ls, spent, Q)
    BY <1>2, <2>2 DEF WorthOf
  <2> HIDE DEF live, v
  <2> QED BY <1>1, <2>1, <2>3
<1> QED BY <1>3, <1>4

(* Two leaves more.                                                        *)
LEMMA WorthOfPair ==
  ASSUME NEW ls, NEW spent, NEW Q, NEW m, NEW n,
         ls \in Seq(LeafValue), spent \subseteq IndexOf(ls), m \in LeafValue, n \in LeafValue
  PROVE  /\ ls \o <<m, n>> \in Seq(LeafValue)
         /\ spent \subseteq IndexOf(ls \o <<m, n>>)
         /\ WorthOf(ls \o <<m, n>>, spent, Q) = WorthOf(ls, spent, Q) + Counted(m, Q) + Counted(n, Q)
<1>1. ASSUME NEW s \in Seq(LeafValue), spent \subseteq IndexOf(s), NEW k \in LeafValue
      PROVE  /\ Append(s, k) \in Seq(LeafValue) /\ spent \subseteq IndexOf(Append(s, k))
             /\ WorthOf(Append(s, k), spent, Q) = WorthOf(s, spent, Q) + Counted(k, Q)
  <2>1. Append(s, k) \in Seq(LeafValue)
    BY <1>1
  <2>2. spent \subseteq IndexOf(Append(s, k))
    BY <1>1, WorthAppend
  <2>3. WorthOf(Append(s, k), spent, Q) = WorthOf(s, spent, Q) + Counted(k, Q)
    BY <1>1, WorthAppend
  <2> QED BY <2>1, <2>2, <2>3
<1>2. ls \o <<m, n>> = Append(Append(ls, m), n)
  OBVIOUS
<1>3. /\ Append(ls, m) \in Seq(LeafValue) /\ spent \subseteq IndexOf(Append(ls, m))
      /\ WorthOf(Append(ls, m), spent, Q) = WorthOf(ls, spent, Q) + Counted(m, Q)
  BY <1>1
<1> QED BY <1>1, <1>2, <1>3

(* The notes of one asset under any of a set of labels.                    *)
Of(L, a) == { n \in LeafValue : n.asset = a /\ n.label \in L }

(* What an output adds to the account of the labels L in the asset a.      *)
LEMMA OutNoteCounts ==
  ASSUME NEW L, NEW a \in Asset,
         NEW amount \in Amount, NEW asset \in Asset, NEW label \in Label
  PROVE  Counted(OutNote(amount, asset, label), Of(L, a))
           = IF asset = a /\ label \in L THEN amount ELSE 0
<1>1. OutNote(amount, asset, label) \in LeafValue
  BY OutNoteTypes
<1>2. CASE amount = 0
  BY <1>1, <1>2 DEF Counted, OutNote, Dust
<1>3. CASE amount # 0
  BY <1>1, <1>3 DEF Counted, OutNote, Of
<1> QED BY <1>2, <1>3

(* Dust notes have no worth.                                               *)
LEMMA DustCountsNothing == \A Q : Counted(Dust, Q) = 0
BY DEF Counted, Dust

sumOuts(p) == p.outs[1] + p.outs[2]
Net(x) == x.extAmount - x.fee

(* What of an amount of the asset and label of a proof counts in an        *)
(* account.                                                                *)
Share(L, a, p, x, amount) == IF x.asset = a /\ p.label \in L THEN amount ELSE 0

(* Spending the inputs of a proof takes their sum out of the account of    *)
(* the proof's asset and label, and nothing out of any other.              *)
LEMMA SpendWorth ==
  ASSUME NEW x, NEW p, NEW L, NEW a,
         IInv, x \in ExtData, p \in Provable(x), Unspent(p.ins), a \in Asset
  PROVE  /\ sumIns(p.ins) \in 0 .. 2 * (MAX_AMOUNT - 1)
         /\ Real(p.ins) \subseteq IndexOf(leaves)
         /\ WorthOf(leaves, nullifierHashes \cup Real(p.ins), Of(L, a))
              = WorthOf(leaves, nullifierHashes, Of(L, a))
                - Share(L, a, p, x, sumIns(p.ins))
<1> DEFINE i == p.ins[1]
           j == p.ins[2]
           Q == Of(L, a)
           hit == x.asset = a /\ p.label \in L
           part(k) == IF hit THEN InAmount(k) ELSE 0
           worth(spent) == WorthOf(leaves, spent, Q)
<1>1. leaves \in Seq(LeafValue) /\ nullifierHashes \subseteq IndexOf(leaves)
  BY DEF IInv, PoolTypeOK, LeafValue, Index, IndexOf
<1>2. /\ i \in IndexOf(leaves) \cup {Dummy} /\ j \in IndexOf(leaves) \cup {Dummy}
      /\ InputsMatch(p.ins, x.asset, p.label)
      /\ i = j => i = Dummy
  BY ProvableTypes DEF IInv, DistinctNullifiers, Index, IndexOf
<1>3. Real(p.ins) = {i, j} \ {Dummy}
  BY DEF Real
<1>4. Real(p.ins) \subseteq IndexOf(leaves) /\ Real(p.ins) \cap nullifierHashes = {}
  BY <1>2, <1>3 DEF Unspent
<1>5. ASSUME NEW k \in Real(p.ins)
      PROVE  /\ Counted(leaves[k + 1], Q) = part(k)
             /\ InAmount(k) = leaves[k + 1].amount
             /\ InAmount(k) \in 1 .. MAX_AMOUNT - 1
  <2>1. /\ leaves[k + 1].amount \in 1 .. MAX_AMOUNT - 1
        /\ leaves[k + 1].asset = x.asset /\ leaves[k + 1].label = p.label
    BY <1>2 DEF InputsMatch, NoteAt
  <2>2. leaves[k + 1] \in LeafValue
    BY <1>1, <1>4, LiveTypes
  <2>3. k # Dummy
    BY <1>3
  <2> QED BY <2>1, <2>2, <2>3 DEF Counted, Of, InAmount, NoteAt
<1>6. ASSUME NEW k \in {i, j} PROVE InAmount(k) \in 0 .. MAX_AMOUNT - 1 /\ part(k) \in Nat
  <2>1. CASE k = Dummy
    BY <2>1 DEF InAmount
  <2>2. CASE k # Dummy
    <3>1. InAmount(k) \in 1 .. MAX_AMOUNT - 1
      BY <1>3, <1>5, <2>2
    <3> QED BY <3>1
  <2> QED BY <2>1, <2>2
<1>7. /\ sumIns(p.ins) = InAmount(i) + InAmount(j)
      /\ sumIns(p.ins) \in 0 .. 2 * (MAX_AMOUNT - 1)
  BY <1>6 DEF sumIns
<1>8. part(Dummy) = 0
  BY DEF InAmount
<1>9. ASSUME NEW spent, NEW k \in {i, j}, k \notin spent
      PROVE  worth(spent \cup ({k} \ {Dummy})) = worth(spent) - part(k)
  <2>1. CASE k = Dummy
    <3>1. worth(spent) \in Nat /\ spent \cup ({k} \ {Dummy}) = spent
      BY <1>1, <2>1, LiveTypes
    <3>2. worth(spent) - 0 = worth(spent)
      BY <3>1
    <3> QED BY <1>8, <2>1, <3>1, <3>2
  <2>2. CASE k # Dummy
    <3>1. k \in Real(p.ins) /\ k \in IndexOf(leaves) \ spent /\ {k} \ {Dummy} = {k}
      BY <1>3, <1>4, <1>9, <2>2
    <3>2. worth(spent \cup {k}) = worth(spent) - Counted(leaves[k + 1], Q)
      BY <1>1, <3>1, WorthSpend
    <3> QED BY <1>5, <3>1, <3>2
  <2> QED BY <2>1, <2>2
<1>10. Dummy \notin IndexOf(leaves)
  BY DEF IndexOf, Dummy
<1> DEFINE first == nullifierHashes \cup ({i} \ {Dummy})
<1>11. worth(first) = worth(nullifierHashes) - part(i)
  <2>1. i \notin nullifierHashes
    BY <1>1, <1>3, <1>4, <1>10
  <2> QED BY <1>9, <2>1
<1>12. worth(first \cup ({j} \ {Dummy})) = worth(first) - part(j)
  <2>1. j \notin first
    BY <1>1, <1>2, <1>3, <1>4, <1>10
  <2> QED BY <1>9, <2>1
<1>13. first \cup ({j} \ {Dummy}) = nullifierHashes \cup Real(p.ins)
  BY <1>3
<1>14. worth(nullifierHashes) \in Nat /\ part(i) \in Nat /\ part(j) \in Nat
  BY <1>1, <1>6, LiveTypes
<1>15. part(i) + part(j) = Share(L, a, p, x, sumIns(p.ins))
  BY <1>7 DEF Share
<1>16. worth(nullifierHashes \cup Real(p.ins)) = worth(nullifierHashes) - (part(i) + part(j))
  <2> DEFINE w0 == worth(nullifierHashes)
             w1 == worth(first)
             m  == part(i)
             n  == part(j)
  <2>1. w1 = w0 - m /\ w0 \in Nat /\ m \in Nat /\ n \in Nat
    BY <1>11, <1>14
  <2>2. worth(nullifierHashes \cup Real(p.ins)) = w1 - n
    BY <1>12, <1>13
  <2>3. w1 - n = w0 - (m + n)
    <3> HIDE DEF w0, w1, m, n
    <3> QED BY <2>1
  <2> QED BY <2>2, <2>3
<1> QED BY <1>4, <1>7, <1>15, <1>16

(* What a proof's outputs add to an account, before its inputs are spent.  *)
LEMMA OutputWorth ==
  ASSUME NEW ls, NEW spent, NEW x, NEW p, NEW L, NEW a,
         IInv, ls \in Seq(LeafValue), spent \subseteq IndexOf(ls),
         x \in ExtData, p \in Provable(x), a \in Asset
  PROVE  /\ ls \o OutNotes(p, x) \in Seq(LeafValue)
         /\ spent \subseteq IndexOf(ls \o OutNotes(p, x))
         /\ WorthOf(ls \o OutNotes(p, x), spent, Of(L, a))
              = WorthOf(ls, spent, Of(L, a))
                + Share(L, a, p, x, sumOuts(p))
<1> DEFINE m == OutNote(p.outs[1], x.asset, p.label)
           n == OutNote(p.outs[2], x.asset, p.label)
           Q == Of(L, a)
<1>1. p.outs[1] \in Amount /\ p.outs[2] \in Amount /\ p.label \in Label
  BY ProvableTypes DEF IInv
<1>2. x.asset \in Asset
  BY ExtDataTypes
<1>3. m \in LeafValue /\ n \in LeafValue
  BY <1>1, <1>2, OutNoteTypes
<1>4. /\ Counted(m, Q) = IF x.asset = a /\ p.label \in L THEN p.outs[1] ELSE 0
      /\ Counted(n, Q) = IF x.asset = a /\ p.label \in L THEN p.outs[2] ELSE 0
  BY <1>1, <1>2, OutNoteCounts
<1>5. OutNotes(p, x) = <<m, n>>
  BY DEF OutNotes
<1>6. p.outs[1] \in Nat /\ p.outs[2] \in Nat /\ WorthOf(ls, spent, Q) \in Nat
  BY <1>1, LiveTypes DEF Amount
<1> HIDE DEF m, n, Q
<1>7. WorthOf(ls \o <<m, n>>, spent, Q) = WorthOf(ls, spent, Q) + Counted(m, Q) + Counted(n, Q)
  BY <1>3, WorthOfPair
<1>9. ls \o <<m, n>> \in Seq(LeafValue)
  BY <1>3, WorthOfPair
<1>10. spent \subseteq IndexOf(ls \o <<m, n>>)
  BY <1>3, WorthOfPair
<1>8. WorthOf(ls \o <<m, n>>, spent, Q)
        = WorthOf(ls, spent, Q) + Share(L, a, p, x, sumOuts(p))
  BY <1>4, <1>6, <1>7 DEF Share, sumOuts
<1> QED BY <1>5, <1>8, <1>9, <1>10 DEF Q

(* What a proof does to an account: its inputs out, its outputs in, which  *)
(* by the balance equation is extAmount - fee.                             *)
LEMMA ProofWorth ==
  ASSUME NEW x, NEW p, NEW L, NEW a,
         IInv, x \in ExtData, p \in Provable(x), Unspent(p.ins), a \in Asset
  PROVE  /\ leaves \o OutNotes(p, x) \in Seq(LeafValue)
         /\ nullifierHashes \cup Real(p.ins) \subseteq IndexOf(leaves \o OutNotes(p, x))
         /\ WorthOf(leaves \o OutNotes(p, x), nullifierHashes \cup Real(p.ins), Of(L, a))
              = WorthOf(leaves, nullifierHashes, Of(L, a))
                + Share(L, a, p, x, Net(x))
<1> DEFINE spent == nullifierHashes \cup Real(p.ins)
           in  == sumIns(p.ins)
           out == sumOuts(p)
           net == Net(x)
           part(amount) == Share(L, a, p, x, amount)
           w0  == WorthOf(leaves, nullifierHashes, Of(L, a))
           w1  == WorthOf(leaves, spent, Of(L, a))
           w2  == WorthOf(leaves \o OutNotes(p, x), spent, Of(L, a))
<1>1. leaves \in Seq(LeafValue) /\ nullifierHashes \subseteq IndexOf(leaves)
  BY DEF IInv, PoolTypeOK, LeafValue, Index, IndexOf
<1>2. in \in 0 .. 2 * (MAX_AMOUNT - 1) /\ Real(p.ins) \subseteq IndexOf(leaves)
  BY SpendWorth
<1>12. w1 = w0 - part(in)
  BY SpendWorth
<1>3. spent \subseteq IndexOf(leaves)
  BY <1>1, <1>2
<1>4. leaves \o OutNotes(p, x) \in Seq(LeafValue)
  BY <1>1, <1>3, OutputWorth
<1>5. spent \subseteq IndexOf(leaves \o OutNotes(p, x))
  BY <1>1, <1>3, OutputWorth
<1>6. w2 = w1 + part(out)
  BY <1>1, <1>3, OutputWorth
<1>7. p.outs \in Amount \X Amount /\ Balanced(p.ins, p.outs, x)
  BY ProvableTypes DEF IInv
<1>8. in + x.extAmount = out + x.fee
  BY <1>2, <1>7, BalanceHasNoWraparound DEF sumOuts
<1>9. out \in Nat /\ x.extAmount \in Int /\ x.fee \in Nat
  BY <1>7, ExtDataTypes DEF Amount, sumOuts
<1>10. w0 \in Nat
  BY <1>1, LiveTypes
<1>11. w2 = w0 + part(net)
  <2> HIDE DEF w0, w1, w2, in, out
  <2>1. net = out - in /\ in \in Nat
    BY <1>2, <1>8, <1>9 DEF Net
  <2> HIDE DEF net
  <2> QED BY <1>12, <1>6, <1>9, <1>10, <2>1 DEF Share
<1> QED BY <1>4, <1>5, <1>11

(* The same with the proceeds of a swap in a claim note.                   *)
Claim(L, a, token, label, amount) == IF token = a /\ label \in L THEN amount ELSE 0

(* What a swap adds to an account: the proof's outputs and what was        *)
(* received.                                                               *)
LEMMA SwapWorth ==
  ASSUME NEW x, NEW p, NEW L, NEW a, NEW received, NEW label,
         IInv, x \in ExtData, p \in Provable(x), Unspent(p.ins), a \in Asset,
         received \in Amount, label \in Label, x.tokenOut \in Asset
  PROVE  WorthOf(leaves \o (OutNotes(p, x) \o <<OutNote(received, x.tokenOut, label), Dust>>),
                 nullifierHashes \cup Real(p.ins), Of(L, a))
           = WorthOf(leaves, nullifierHashes, Of(L, a)) + Share(L, a, p, x, Net(x))
             + Claim(L, a, x.tokenOut, label, received)
<1> DEFINE claim == OutNote(received, x.tokenOut, label)
           ls    == leaves \o OutNotes(p, x)
           spent == nullifierHashes \cup Real(p.ins)
           Q     == Of(L, a)
<1>1. claim \in LeafValue /\ Dust \in LeafValue
  BY OutNoteTypes DEF LeafValue
<1>2. /\ Counted(claim, Q) = Claim(L, a, x.tokenOut, label, received)
      /\ Counted(Dust, Q) = 0
  BY OutNoteCounts, DustCountsNothing DEF Claim
<1>3. /\ ls \in Seq(LeafValue)
      /\ spent \subseteq IndexOf(ls)
  BY ProofWorth
<1>4. WorthOf(ls, spent, Q) = WorthOf(leaves, nullifierHashes, Q) + Share(L, a, p, x, Net(x))
  BY ProofWorth
<1>5. WorthOf(ls \o <<claim, Dust>>, spent, Q)
        = WorthOf(ls, spent, Q) + Counted(claim, Q) + Counted(Dust, Q)
  <2> HIDE DEF claim, ls, spent, Q
  <2> QED BY <1>1, <1>3, WorthOfPair
<1>6. ls \o <<claim, Dust>> = leaves \o (OutNotes(p, x) \o <<claim, Dust>>)
  <2>1. leaves \in Seq(LeafValue) /\ OutNotes(p, x) \in Seq(LeafValue)
    BY OutNotesTypes DEF IInv, PoolTypeOK, LeafValue
  <2> DEFINE o == OutNotes(p, x)
             d == <<claim, Dust>>
  <2> HIDE DEF claim
  <2>2. d \in Seq(LeafValue)
    BY <1>1
  <2>3. ls = leaves \o o
    OBVIOUS
  <2> HIDE DEF d, ls
  <2>4. leaves \in Seq(LeafValue) /\ o \in Seq(LeafValue)
    BY <2>1
  <2> HIDE DEF o
  <2>5. (leaves \o o) \o d = leaves \o (o \o d)
    BY ONLY <2>2, <2>4, ConcatAssociative
  <2>6. ls \o d = leaves \o (o \o d)
    BY <2>3, <2>5
  <2> QED BY <2>6 DEF o, d
<1>7. Counted(claim, Q) \in Nat /\ WorthOf(ls, spent, Q) \in Nat
  <2>1. WorthOf(ls, spent, Q) \in Nat
    BY <1>3, LiveTypes
  <2>2. Counted(claim, Q) \in Nat
    BY <1>2 DEF Claim, Amount
  <2> QED BY <2>1, <2>2
<1> HIDE DEF claim, ls, spent, Q
<1>8. WorthOf(ls \o <<claim, Dust>>, spent, Q)
        = WorthOf(ls, spent, Q) + Claim(L, a, x.tokenOut, label, received)
  BY <1>2, <1>5, <1>7
<1> QED BY <1>4, <1>6, <1>8 DEF claim, ls, spent, Q

(* The pool's accounts, of an asset and of an asset under a label, now and *)
(* after a step.                                                           *)
LEMMA LeafLabels == \A n \in LeafValue : n.amount # 0 => n.label \in Label
BY DEF LeafValue, Note, Dust

(* An account is the worth of unspent notes.                               *)
LEMMA AccountsNow ==
  ASSUME IInv, NEW a \in Asset
  PROVE  /\ Worth(LiveNotes(a)) = WorthOf(leaves, nullifierHashes, Of(Label, a))
         /\ \A l \in Label : Held(l, a) = WorthOf(leaves, nullifierHashes, Of({l}, a))
<1>1. \A i \in Index : NoteAt(i) \in LeafValue /\ NoteAt(i) = leaves[i + 1]
  BY IndexTypes DEF IInv, NoteAt
<1>2. Index = IndexOf(leaves) /\ [i \in Index |-> NoteAt(i).amount] = AmountsOf(leaves)
  BY DEF Index, IndexOf, NoteAt, AmountsOf
<1>3. LiveNotes(a) = LiveOf(leaves, nullifierHashes, Of(Label, a))
  BY <1>1, <1>2, LeafLabels DEF LiveNotes, LiveOf, Of, Unspendable
<1>4. \A l \in Label : LiveUnder(l, a) = LiveOf(leaves, nullifierHashes, Of({l}, a))
  BY <1>1, <1>2 DEF LiveUnder, LiveNotes, LiveOf, Of, Unspendable
<1> QED BY <1>2, <1>3, <1>4 DEF Worth, WorthOf, Held

(* The same after a step.                                                  *)
LEMMA AccountsNext ==
  ASSUME IInv', NEW a \in Asset
  PROVE  /\ Worth(LiveNotes(a))' = WorthOf(leaves', nullifierHashes', Of(Label, a))
         /\ \A l \in Label : Held(l, a)' = WorthOf(leaves', nullifierHashes', Of({l}, a))
<1>1. \A i \in Index' : NoteAt(i)' \in LeafValue /\ NoteAt(i)' = leaves'[i + 1]
  BY DEF IInv, PoolTypeOK, Index, NoteAt, LeafValue
<1>2. Index' = IndexOf(leaves') /\ [i \in Index' |-> NoteAt(i)'.amount] = AmountsOf(leaves')
  BY DEF Index, IndexOf, NoteAt, AmountsOf
<1>3. LiveNotes(a)' = LiveOf(leaves', nullifierHashes', Of(Label, a))
  BY <1>1, <1>2, LeafLabels DEF LiveNotes, LiveOf, Of, Unspendable
<1>4. \A l \in Label : LiveUnder(l, a)' = LiveOf(leaves', nullifierHashes', Of({l}, a))
  BY <1>1, <1>2 DEF LiveUnder, LiveNotes, LiveOf, Of, Unspendable
<1> QED BY <1>2, <1>3, <1>4 DEF Worth, WorthOf, Held

-----------------------------------------------------------------------------
(* What transact does to the leaves and to the balance, but for swaps.     *)
Pooled(x) == [balance EXCEPT ![x.asset] = @ + Net(x)]

(* What a call that is no swap does to the leaves and the balances.        *)
LEMMA PlainStep ==
  ASSUME IInv, NEW x \in ExtData, NEW p \in Provable(x), NEW sender \in Sender,
         Shield(sender, p, x) \/ Transfer(p, x) \/ Unshield(p, x)
  PROVE  leaves' = leaves \o OutNotes(p, x) /\ balance' = Pooled(x)
<1>1. /\ balance \in [Asset -> Nat] /\ x.asset \in Asset
      /\ x.extAmount \in Int /\ x.fee \in Nat /\ balance[x.asset] \in Nat
  BY ExtDataTypes DEF IInv, PoolTypeOK
<1>2. leaves' = leaves \o OutNotes(p, x)
  BY DEF Shield, Transfer, Unshield, Insert
<1>3. CASE Shield(sender, p, x)
  <2>1. balance' = [balance EXCEPT ![x.asset] = @ + x.extAmount - x.fee]
    BY <1>3 DEF Shield, ExactCredit
  <2>2. balance[x.asset] + x.extAmount - x.fee = balance[x.asset] + Net(x)
    BY <1>1 DEF Net
  <2> QED BY <1>2, <2>1, <2>2 DEF Pooled
<1>4. CASE Transfer(p, x)
  <2>1. balance' = [balance EXCEPT ![x.asset] = @ - x.fee] /\ x.extAmount = 0
    BY <1>4 DEF Transfer
  <2>2. balance[x.asset] - x.fee = balance[x.asset] + Net(x)
    BY <1>1, <2>1 DEF Net
  <2> QED BY <1>2, <2>1, <2>2 DEF Pooled
<1>5. CASE Unshield(p, x)
  <2>1. balance' = [balance EXCEPT ![x.asset] = @ - x.fee + x.extAmount]
    BY <1>5 DEF Unshield
  <2>2. balance[x.asset] - x.fee + x.extAmount = balance[x.asset] + Net(x)
    BY <1>1 DEF Net
  <2> QED BY <1>2, <2>1, <2>2 DEF Pooled
<1> QED BY <1>3, <1>4, <1>5

(* What a swap does to the leaves and the balances.                        *)
LEMMA SwapStep ==
  ASSUME IInv, NEW x \in ExtData, NEW p \in Provable(x), NEW sender \in Sender,
         swapAndReshield(sender, p, x)
  PROVE  /\ x.tokenOut \in Asset /\ x.tokenOut # x.asset
         /\ \E received \in Amount :
              /\ leaves' = leaves \o (OutNotes(p, x) \o
                             <<OutNote(received, x.tokenOut, FreshLabel(sender)), Dust>>)
              /\ balance' = [Pooled(x) EXCEPT ![x.tokenOut] = @ + received]
<1>1. /\ balance \in [Asset -> Nat] /\ x.asset \in Asset
      /\ x.extAmount \in Int /\ x.fee \in Nat /\ balance[x.asset] \in Nat
  BY ExtDataTypes DEF IInv, PoolTypeOK
<1>2. x.tokenOut \in Asset
  BY DEF swapAndReshield, IInv, PoolTypeOK
<1>3. x.tokenOut # x.asset
  BY <1>2, ExtDataTypes, AssetAssumption
<1>4. PICK received \in 0 .. MAX_AMOUNT :
        /\ received < MAX_AMOUNT
        /\ Insert(OutNotes(p, x) \o
                  << OutNote(received, x.tokenOut, ClaimLabel(sender, p)), Dust >>)
        /\ balance' = [balance EXCEPT ![x.asset] = @ - x.fee + x.extAmount,
                                      ![x.tokenOut] = @ + received]
  BY DEF swapAndReshield
<1>5. received \in Amount
  BY <1>4 DEF Amount
<1>6. balance[x.asset] - x.fee + x.extAmount = balance[x.asset] + Net(x)
  BY <1>1 DEF Net
<1>7. balance' = [Pooled(x) EXCEPT ![x.tokenOut] = @ + received]
  <2>1. Pooled(x) = [balance EXCEPT ![x.asset] = @ - x.fee + x.extAmount]
    BY <1>6 DEF Pooled
  <2> QED BY <1>1, <1>2, <1>3, <1>4, <2>1
<1>8. leaves' = leaves \o (OutNotes(p, x) \o
                             <<OutNote(received, x.tokenOut, FreshLabel(sender)), Dust>>)
  BY <1>4 DEF Insert, ClaimLabel
<1> QED BY <1>2, <1>3, <1>5, <1>7, <1>8

(* Every step of transact moves the balance of an asset and the worth of   *)
(* its unspent notes by the same amount.                                   *)
LEMMA TransactBacked ==
  ASSUME IInv, IInv', HasRoom(2), FullyBacked,
         NEW x \in ExtData, NEW p \in Provable(x), NEW sender \in Sender, transact(sender, p, x)
  PROVE  FullyBacked'
<1> SUFFICES ASSUME NEW a \in Asset
             PROVE  balance'[a] = Worth(LiveNotes(a))'
  BY DEF FullyBacked
<1> DEFINE w == WorthOf(leaves, nullifierHashes, Of(Label, a))
           next == WorthOf(leaves', nullifierHashes', Of(Label, a))
           share == Share(Label, a, p, x, Net(x))
<1>1. Worth(LiveNotes(a))' = next /\ balance[a] = w
  BY AccountsNow, AccountsNext DEF FullyBacked
<1>2. /\ balance \in [Asset -> Nat] /\ x.asset \in Asset /\ Net(x) \in Int
      /\ p.label \in Label
  <2>1. balance \in [Asset -> Nat]
    BY DEF IInv, PoolTypeOK
  <2>2. x.asset \in Asset /\ p.label \in Label
    BY ExtDataTypes, ProvableTypes DEF IInv
  <2>3. x.extAmount \in Int /\ x.fee \in Int
    BY ExtDataTypes
  <2>4. Net(x) \in Int
    BY <2>3 DEF Net
  <2> QED BY <2>1, <2>2, <2>4
<1>3. Unspent(p.ins) /\ nullifierHashes' = nullifierHashes \cup Real(p.ins)
  BY DEF transact
<1>4. Pooled(x) \in [Asset -> Int] /\ Pooled(x)[a] = w + share
  BY <1>1, <1>2 DEF Pooled, Share
<1>5. CASE Shield(sender, p, x) \/ Transfer(p, x) \/ Unshield(p, x)
  <2>1. leaves' = leaves \o OutNotes(p, x) /\ balance' = Pooled(x)
    BY <1>5, PlainStep
  <2>2. next = w + share
    BY <1>3, <2>1, ProofWorth
  <2> QED BY <1>1, <1>4, <2>1, <2>2
<1>6. CASE swapAndReshield(sender, p, x)
  <2>1. x.tokenOut \in Asset /\ x.tokenOut # x.asset
    BY <1>6, SwapStep
  <2>2. PICK received \in Amount :
          /\ leaves' = leaves \o (OutNotes(p, x) \o
                         <<OutNote(received, x.tokenOut, FreshLabel(sender)), Dust>>)
          /\ balance' = [Pooled(x) EXCEPT ![x.tokenOut] = @ + received]
    BY <1>6, SwapStep
  <2>3. FreshLabel(sender) \in Label
    BY FreshLabelFits
  <2>4. next = w + share + Claim(Label, a, x.tokenOut, FreshLabel(sender), received)
    BY <1>3, <2>1, <2>2, <2>3, SwapWorth
  <2>5. received \in Int /\ Pooled(x)[a] \in Int
    BY <1>4 DEF Amount
  <2>6. balance'[a] = Pooled(x)[a] + Claim(Label, a, x.tokenOut, FreshLabel(sender), received)
    BY <1>4, <2>1, <2>2, <2>3, <2>5 DEF Claim
  <2> QED BY <1>1, <1>4, <2>4, <2>6
<1> QED BY <1>5, <1>6 DEF transact

(* Every step keeps the pool fully backed.                                 *)
LEMMA StepBacked == IInv /\ IInv' /\ FullyBacked /\ [Next]_vars => FullyBacked'
<1> SUFFICES ASSUME IInv, IInv', FullyBacked, [Next]_vars PROVE FullyBacked'
  OBVIOUS
<1>1. ASSUME HasRoom(2), NEW x \in ExtData, NEW p \in Provable(x), NEW sender \in Sender,
             transact(sender, p, x)
      PROVE  FullyBacked'
  BY <1>1, TransactBacked
<1>2. ASSUME UNCHANGED poolVars PROVE FullyBacked'
  BY <1>2 DEF FullyBacked, poolVars, Worth, LiveNotes, Unspendable, NoteAt, Index
<1> QED BY <1>1, <1>2 DEF Next, setAsset, setAssociationRoot, vars

(* The empty pool is fully backed.                                         *)
LEMMA InitBacked == Init => FullyBacked
<1> SUFFICES ASSUME Init, NEW a \in Asset PROVE balance[a] = Worth(LiveNotes(a))
  BY DEF FullyBacked
<1>1. LiveNotes(a) = {}
  BY DEF Init, LiveNotes, Index
<1>2. Worth(LiveNotes(a)) = 0
  BY <1>1, SumEmpty DEF Worth
<1> QED BY <1>2 DEF Init

(* The tokens the pool holds are exactly the notes that can still be       *)
(* spent, asset by asset, after every sequence of shields, transfers,      *)
(* exits and swaps, for any number of users, tokens and leaves and any     *)
(* bound on amounts.                                                       *)
THEOREM BackingCorrect == Spec => []FullyBacked
BY InitBacked, StepBacked, PoolInvariant, PTL DEF Spec

-----------------------------------------------------------------------------
(* The ASP publishes labels already minted.                                *)
PublishedMinted == published \in Seq(SUBSET usedLabel)

(* A sequence over S is one over a larger set.                             *)
LEMMA WiderSeq ==
  ASSUME NEW S, NEW T, S \subseteq T, NEW s \in Seq(S)
  PROVE  s \in Seq(T)
OBVIOUS

(* A call mints the caller's next label or none.                           *)
LEMMA TransactMints ==
  ASSUME NEW x \in ExtData, NEW p \in Provable(x), NEW sender \in Sender, transact(sender, p, x)
  PROVE  /\ usedLabel' = usedLabel \/ usedLabel' = usedLabel \cup {FreshLabel(sender)}
         /\ published' = published
BY DEF transact, Shield, Transfer, Unshield, swapAndReshield, MintLabel, rootVars

(* Every step keeps the published sets among the minted labels.            *)
LEMMA StepPublished == PublishedMinted /\ [Next]_vars => PublishedMinted'
<1> SUFFICES ASSUME PublishedMinted, [Next]_vars PROVE PublishedMinted'
  OBVIOUS
<1>1. ASSUME SUBSET usedLabel \subseteq SUBSET (usedLabel'), published' = published
      PROVE  PublishedMinted'
  BY <1>1, WiderSeq DEF PublishedMinted
<1>2. ASSUME NEW x \in ExtData, NEW p \in Provable(x), NEW sender \in Sender, transact(sender, p, x)
      PROVE  PublishedMinted'
  <2>1. usedLabel \subseteq usedLabel' /\ published' = published
    BY <1>2, TransactMints
  <2> QED BY <1>1, <2>1
<1>3. ASSUME NEW labels \in SUBSET usedLabel, setAssociationRoot(labels)
      PROVE  PublishedMinted'
  <2>1. published' = Append(published, labels) /\ usedLabel' = usedLabel
    BY <1>3 DEF setAssociationRoot, Roots!publish, poolVars
  <2> QED BY <2>1 DEF PublishedMinted
<1>4. ASSUME UNCHANGED usedLabel, UNCHANGED published PROVE PublishedMinted'
  BY <1>1, <1>4
<1>5. ASSUME NEW token \in Listable, NEW supported \in BOOLEAN, setAsset(token, supported)
      PROVE  PublishedMinted'
  BY <1>4, <1>5 DEF setAsset, poolVars, rootVars
<1>6. CASE UNCHANGED vars
  BY <1>4, <1>6 DEF vars, poolVars, rootVars
<1> QED BY <1>2, <1>3, <1>5, <1>6 DEF Next

(* The ASP approves labels that were minted only.                          *)
LEMMA PublishedInvariant == Spec => []PublishedMinted
<1>1. Init => PublishedMinted
  BY DEF Init, Roots!Init, PublishedMinted
<1> QED BY <1>1, StepPublished, PTL DEF Spec

(* What transact does to the account of a label and an asset.              *)
LEMMA PlainHeld ==
  ASSUME IInv, IInv', NEW x \in ExtData, NEW p \in Provable(x), NEW sender \in Sender,
         transact(sender, p, x), Shield(sender, p, x) \/ Transfer(p, x) \/ Unshield(p, x),
         NEW l \in Label, NEW a \in Asset
  PROVE  /\ Held(l, a) \in Nat /\ Held(l, a)' \in Nat
         /\ Held(l, a)' = Held(l, a) + Share({l}, a, p, x, Net(x))
<1>1. Unspent(p.ins) /\ nullifierHashes' = nullifierHashes \cup Real(p.ins)
  BY DEF transact
<1>2. leaves' = leaves \o OutNotes(p, x)
  BY PlainStep
<1>3. /\ Held(l, a) = WorthOf(leaves, nullifierHashes, Of({l}, a))
      /\ Held(l, a)' = WorthOf(leaves', nullifierHashes', Of({l}, a))
  BY AccountsNow, AccountsNext
<1>4. WorthOf(leaves', nullifierHashes', Of({l}, a))
        = WorthOf(leaves, nullifierHashes, Of({l}, a)) + Share({l}, a, p, x, Net(x))
  BY <1>1, <1>2, ProofWorth
<1>5. leaves \in Seq(LeafValue) /\ leaves' \in Seq(LeafValue)
  BY DEF IInv, PoolTypeOK, LeafValue
<1>6. /\ WorthOf(leaves, nullifierHashes, Of({l}, a)) \in Nat
      /\ WorthOf(leaves', nullifierHashes', Of({l}, a)) \in Nat
  BY <1>5, LiveTypes
<1> QED BY <1>3, <1>4, <1>6

(* What a swap does to the account of a label and an asset.                *)
LEMMA SwapHeld ==
  ASSUME IInv, IInv', HasRoom(2), NEW x \in ExtData, NEW p \in Provable(x), NEW sender \in Sender,
         transact(sender, p, x), NEW received \in Amount,
         x.tokenOut \in Asset,
         leaves' = leaves \o (OutNotes(p, x) \o
                     <<OutNote(received, x.tokenOut, FreshLabel(sender)), Dust>>),
         NEW l \in Label, NEW a \in Asset
  PROVE  /\ Held(l, a) \in Nat /\ Held(l, a)' \in Nat
         /\ Held(l, a)' = Held(l, a) + Share({l}, a, p, x, Net(x))
                          + Claim({l}, a, x.tokenOut, FreshLabel(sender), received)
<1>1. Unspent(p.ins) /\ nullifierHashes' = nullifierHashes \cup Real(p.ins)
  BY DEF transact
<1>2. FreshLabel(sender) \in Label
  BY FreshLabelFits
<1>3. /\ Held(l, a) = WorthOf(leaves, nullifierHashes, Of({l}, a))
      /\ Held(l, a)' = WorthOf(leaves', nullifierHashes', Of({l}, a))
  BY AccountsNow, AccountsNext
<1>4. WorthOf(leaves', nullifierHashes', Of({l}, a))
        = WorthOf(leaves, nullifierHashes, Of({l}, a)) + Share({l}, a, p, x, Net(x))
          + Claim({l}, a, x.tokenOut, FreshLabel(sender), received)
  BY <1>1, <1>2, SwapWorth
<1>5. leaves \in Seq(LeafValue) /\ leaves' \in Seq(LeafValue)
  BY DEF IInv, PoolTypeOK, LeafValue
<1>6. /\ WorthOf(leaves, nullifierHashes, Of({l}, a)) \in Nat
      /\ WorthOf(leaves', nullifierHashes', Of({l}, a)) \in Nat
  BY <1>5, LiveTypes
<1> QED BY <1>3, <1>4, <1>6

(* A step never adds to the account of a label approved before.            *)
LEMMA OnlyShrinks ==
  ASSUME IInv, IInv', PublishedMinted, [Next]_vars,
         NEW k \in 1 .. Len(published), NEW l \in published[k], NEW a \in Asset
  PROVE  Held(l, a)' <= Held(l, a)
<1>1. l \in usedLabel /\ l \in Label
  BY DEF PublishedMinted, IInv, PoolTypeOK
<1>2. ASSUME HasRoom(2), NEW x \in ExtData, NEW p \in Provable(x), NEW sender \in Sender,
             transact(sender, p, x)
      PROVE  Held(l, a)' <= Held(l, a)
  <2>0. x.extAmount \in Int /\ x.fee \in Nat
    BY ExtDataTypes
  <2>1. CASE Shield(sender, p, x)
    <3>1. p.label # l
      BY <1>1, <2>1 DEF Shield, DepositLabelOK
    <3>2. Share({l}, a, p, x, Net(x)) = 0
      BY <3>1 DEF Share
    <3>3. Held(l, a) \in Nat /\ Held(l, a)' = Held(l, a) + Share({l}, a, p, x, Net(x))
      BY <1>1, <1>2, <2>1, PlainHeld
    <3> QED BY <3>2, <3>3
  <2>2. CASE Transfer(p, x) \/ Unshield(p, x)
    <3>1. Net(x) \in Int /\ Net(x) <= 0
      BY <2>0, <2>2 DEF Net, Transfer, Unshield
    <3>2. Share({l}, a, p, x, Net(x)) \in Int /\ Share({l}, a, p, x, Net(x)) <= 0
      BY <3>1 DEF Share
    <3>3. Held(l, a) \in Nat /\ Held(l, a)' = Held(l, a) + Share({l}, a, p, x, Net(x))
      BY <1>1, <1>2, <2>2, PlainHeld
    <3> QED BY <3>2, <3>3
  <2>3. CASE swapAndReshield(sender, p, x)
    <3>1. x.tokenOut \in Asset
      BY <2>3, SwapStep
    <3>2. PICK received \in Amount :
            leaves' = leaves \o (OutNotes(p, x) \o
                        <<OutNote(received, x.tokenOut, FreshLabel(sender)), Dust>>)
      BY <2>3, SwapStep
    <3>3. Net(x) \in Int /\ Net(x) <= 0
      <4>1. x.tokenOut # NoAsset
        BY <3>1, AssetAssumption
      <4> QED BY <2>0, <4>1, ExtDataTypes DEF Net
    <3>4. Share({l}, a, p, x, Net(x)) \in Int /\ Share({l}, a, p, x, Net(x)) <= 0
      BY <3>3 DEF Share
    <3>5. Claim({l}, a, x.tokenOut, FreshLabel(sender), received) = 0
      BY <1>1, <2>3 DEF Claim, swapAndReshield
    <3>6. /\ Held(l, a) \in Nat
          /\ Held(l, a)' = Held(l, a) + Share({l}, a, p, x, Net(x))
                           + Claim({l}, a, x.tokenOut, FreshLabel(sender), received)
      <4>1. /\ IInv /\ IInv' /\ HasRoom(2) /\ transact(sender, p, x) /\ l \in Label
        BY <1>1, <1>2
      <4> QED BY ONLY <4>1, <1>2, <3>1, <3>2, SwapHeld
    <3> QED BY <3>4, <3>5, <3>6
  <2> QED BY <1>2, <2>1, <2>2, <2>3 DEF transact
<1>3. ASSUME UNCHANGED poolVars PROVE Held(l, a)' <= Held(l, a)
  <2>1. Held(l, a)' = Held(l, a)
    BY <1>3 DEF poolVars, Held, Worth, LiveUnder, LiveNotes, Unspendable, NoteAt, Index
  <2>2. Held(l, a) \in Nat
    <3>1. leaves \in Seq(LeafValue)
      BY DEF IInv, PoolTypeOK, LeafValue
    <3>2. WorthOf(leaves, nullifierHashes, Of({l}, a)) \in Nat
      BY <3>1, LiveTypes
    <3>3. Held(l, a) = WorthOf(leaves, nullifierHashes, Of({l}, a))
      BY <1>1, AccountsNow
    <3> QED BY <3>2, <3>3
  <2> QED BY <2>1, <2>2
<1> QED BY <1>2, <1>3 DEF Next, setAsset, setAssociationRoot, vars

(* What the ASP has approved only shrinks: no step adds value under a      *)
(* label that any publication contains, since shields and swaps mint their *)
(* labels and everything else only moves value under one label or out.     *)
THEOREM ApprovalCorrect == Spec => ApprovedOnlyShrinks
<1>1. IInv /\ IInv' /\ PublishedMinted /\ [Next]_vars
        => [\A k \in 1 .. Len(published) : \A l \in published[k], a \in Asset :
              Held(l, a)' <= Held(l, a)]_vars
  BY OnlyShrinks
<1> QED BY <1>1, PoolInvariant, PublishedInvariant, PTL DEF Spec, ApprovedOnlyShrinks

-----------------------------------------------------------------------------
(* The refinement: Shield opens an account, Transfer and Unshield withdraw *)
(* the fee and what leaves, a swap is an Exchange.                         *)
Accounts == [l \in Label |-> [a \in Asset |-> Held(l, a)]]

(* A call that is no swap changes one account and the balance of its asset *)
(* by the net amount.                                                      *)
LEMMA PlainAccounts ==
  ASSUME IInv, IInv', NEW x \in ExtData, NEW p \in Provable(x), NEW sender \in Sender,
         transact(sender, p, x), Shield(sender, p, x) \/ Transfer(p, x) \/ Unshield(p, x)
  PROVE  /\ Accounts' = [Accounts EXCEPT ![p.label][x.asset] = @ + Net(x)]
         /\ balance' = [balance EXCEPT ![x.asset] = @ + Net(x)]
         /\ Accounts[p.label][x.asset] \in Nat
         /\ Accounts[p.label][x.asset] + Net(x) \in Nat
         /\ p.label \in Label
<1>1. p.label \in Label /\ x.asset \in Asset /\ Net(x) \in Int
  BY ProvableTypes, ExtDataTypes DEF IInv, Net
<1>2. \A l \in Label, a \in Asset :
        /\ Held(l, a) \in Nat /\ Held(l, a)' \in Nat
        /\ Held(l, a)' = Held(l, a) + Share({l}, a, p, x, Net(x))
  BY PlainHeld
<1>3. \A l \in Label, a \in Asset :
        Held(l, a)' = IF l = p.label /\ a = x.asset THEN Held(l, a) + Net(x) ELSE Held(l, a)
  BY <1>2 DEF Share
<1>4. Accounts' = [Accounts EXCEPT ![p.label][x.asset] = @ + Net(x)]
  BY <1>1, <1>3 DEF Accounts
<1>5. Accounts[p.label][x.asset] = Held(p.label, x.asset)
  BY <1>1 DEF Accounts
<1>6. Held(p.label, x.asset) \in Nat /\ Held(p.label, x.asset) + Net(x) \in Nat
  BY <1>1, <1>2, <1>3
<1>7. balance' = [balance EXCEPT ![x.asset] = @ + Net(x)]
  BY PlainStep DEF Pooled
<1> QED BY <1>1, <1>4, <1>5, <1>6, <1>7

(* A deposit brings something in or nothing, after its fee.                *)
LEMMA DepositGains ==
  ASSUME IInv, NEW x \in ExtData, NEW p \in Provable(x), Unspent(p.ins), isDeposit(p.ins)
  PROVE  Net(x) \in Nat
<1>1. x.extAmount \in Int /\ x.fee \in Nat /\ x.extAmount < MAX_AMOUNT /\ x.extAmount > -MAX_AMOUNT
      /\ x.fee < MAX_AMOUNT /\ x.asset \in Asset
  BY ExtDataTypes
<1>2. sumIns(p.ins) \in 0 .. 2 * (MAX_AMOUNT - 1)
  BY <1>1, SpendWorth
<1>3. p.outs \in Amount \X Amount /\ Balanced(p.ins, p.outs, x)
  BY ProvableTypes DEF IInv
<1>4. sumIns(p.ins) + x.extAmount = p.outs[1] + p.outs[2] + x.fee
  BY <1>2, <1>3, BalanceHasNoWraparound
<1>5. p.outs[1] \in Nat /\ p.outs[2] \in Nat
  BY <1>3 DEF Amount
<1> QED BY <1>1, <1>2, <1>4, <1>5 DEF Net, isDeposit

(* What the vault gains, in the words of LabelLedger.                      *)
Gain(a) == balance'[a] - balance[a]
Moves(assets) == balance' = [b \in Asset |-> balance[b] + IF b \in assets THEN Gain(b) ELSE 0]

LEMMA PlainGain ==
  ASSUME NEW a \in Asset, NEW n \in Int, balance \in [Asset -> Nat],
         balance' = [balance EXCEPT ![a] = @ + n]
  PROVE  balance'[a] - balance[a] = n /\ Moves({a})
<1>1. \A b \in Asset : balance[b] \in Nat /\ balance'[b] = IF b = a THEN balance[b] + n ELSE balance[b]
  OBVIOUS
<1>2. \A b \in Asset : balance'[b] = balance[b] + IF b \in {a} THEN balance'[b] - balance[b] ELSE 0
  BY <1>1
<1>3. balance' = [b \in Asset |-> balance'[b]]
  OBVIOUS
<1>4. balance' = [b \in Asset |-> balance[b] + IF b \in {a} THEN balance'[b] - balance[b] ELSE 0]
  BY <1>2, <1>3
<1> QED BY <1>1, <1>4 DEF Moves, Gain

LEMMA SwapGain ==
  ASSUME NEW a \in Asset, NEW b \in Asset, a # b, NEW n \in Int, NEW got \in Int, balance \in [Asset -> Nat],
         balance' = [balance EXCEPT ![a] = @ + n, ![b] = @ + got]
  PROVE  balance'[a] - balance[a] = n /\ balance'[b] - balance[b] = got /\ Moves({a, b})
<1>1. \A c \in Asset : balance[c] \in Nat /\ balance'[c] = IF c = a THEN balance[c] + n
                                                          ELSE IF c = b THEN balance[c] + got ELSE balance[c]
  OBVIOUS
<1>2. \A c \in Asset : balance'[c] = balance[c] + IF c \in {a, b} THEN balance'[c] - balance[c] ELSE 0
  BY <1>1
<1>3. balance' = [c \in Asset |-> balance'[c]]
  OBVIOUS
<1>4. balance' = [c \in Asset |-> balance[c] + IF c \in {a, b} THEN balance'[c] - balance[c] ELSE 0]
  BY <1>2, <1>3
<1> QED BY <1>1, <1>4 DEF Moves, Gain

(* A deposit opens an account under a new label: Open of LabelLedger.      *)
LEMMA ShieldOpens ==
  ASSUME IInv, IInv', HasRoom(2), NEW x \in ExtData, NEW p \in Provable(x), NEW sender \in Sender,
         transact(sender, p, x), Shield(sender, p, x)
  PROVE  Ledger!Open
<1>1. /\ Accounts' = [Accounts EXCEPT ![p.label][x.asset] = @ + Net(x)]
      /\ balance' = [balance EXCEPT ![x.asset] = @ + Net(x)]
  BY PlainAccounts
<1>2. p.label \in Label /\ x.asset \in Asset
  BY PlainAccounts, ExtDataTypes
<1>3. p.label \notin usedLabel /\ usedLabel' = usedLabel \cup {p.label}
  BY DEF Shield, DepositLabelOK, MintLabel
<1>4. Net(x) \in Nat
  <2>1. isDeposit(p.ins) /\ Unspent(p.ins)
    BY DEF transact, PureDeposit, Shield
  <2> QED BY <2>1, DepositGains
<1>5. balance \in [Asset -> Nat] /\ Net(x) \in Int
  BY <1>4 DEF IInv, PoolTypeOK
<1>6. balance'[x.asset] - balance[x.asset] = Net(x) /\ Moves({x.asset})
  BY <1>1, <1>2, <1>5, PlainGain
<1>7. \E a \in Asset, l \in Label :
        /\ Moves({a}) /\ balance'[a] - balance[a] >= 0
        /\ l \notin usedLabel /\ usedLabel' = usedLabel \cup {l}
        /\ Accounts' = [Accounts EXCEPT ![l][a] = @ + (balance'[a] - balance[a])]
  <2>1. Accounts' = [Accounts EXCEPT ![p.label][x.asset] = @ + (balance'[x.asset] - balance[x.asset])]
    BY <1>1, <1>6
  <2>2. balance'[x.asset] - balance[x.asset] >= 0
    BY <1>4, <1>6
  <2> USE <1>2
  <2> WITNESS x.asset \in Asset, p.label \in Label
  <2> QED BY <1>3, <1>6, <2>1, <2>2
<1> QED BY <1>7 DEF Ledger!Open, Ledger!Opens, Ledger!Gained, Ledger!OnlyMoves, Moves, Gain, Accounts

(* A payment is a Withdraw of LabelLedger, of 0 inside the pool.           *)
LEMMA PaymentWithdraws ==
  ASSUME IInv, IInv', NEW x \in ExtData, NEW p \in Provable(x), NEW sender \in Sender,
         transact(sender, p, x), Transfer(p, x) \/ Unshield(p, x)
  PROVE  Ledger!Withdraw
<1>1. /\ Accounts' = [Accounts EXCEPT ![p.label][x.asset] = @ + Net(x)]
      /\ balance' = [balance EXCEPT ![x.asset] = @ + Net(x)]
      /\ Accounts[p.label][x.asset] \in Nat
      /\ Accounts[p.label][x.asset] + Net(x) \in Nat
      /\ p.label \in Label
  BY PlainAccounts
<1>2. /\ x.asset \in Asset /\ Net(x) \in Int /\ balance \in [Asset -> Nat]
      /\ x.extAmount <= 0 /\ Net(x) = x.extAmount - x.fee /\ x.fee \in Nat /\ x.extAmount \in Int
  BY ExtDataTypes DEF Net, IInv, PoolTypeOK, Transfer, Unshield
<1>3. usedLabel' = usedLabel
  BY DEF Transfer, Unshield
<1>4. balance'[x.asset] - balance[x.asset] = Net(x) /\ Moves({x.asset})
  BY <1>1, <1>2, PlainGain
<1>5. -Net(x) \in 0 .. Accounts[p.label][x.asset]
  BY <1>1, <1>2
<1>6. \E a \in Asset, l \in Label :
        /\ Moves({a}) /\ -(balance'[a] - balance[a]) \in 0 .. Accounts[l][a]
        /\ Accounts' = [Accounts EXCEPT ![l][a] = @ + (balance'[a] - balance[a])]
  BY <1>1, <1>2, <1>4, <1>5
<1> QED BY <1>3, <1>6 DEF Ledger!Withdraw, Ledger!Gained, Ledger!OnlyMoves, Moves, Gain, Accounts

(* A swap is an Exchange of LabelLedger, from an approved label to a new   *)
(* one.                                                                    *)
LEMMA SwapExchanges ==
  ASSUME IInv, IInv', HasRoom(2), PublishedMinted, RingInv,
         NEW x \in ExtData, NEW p \in Provable(x), NEW sender \in Sender,
         transact(sender, p, x), swapAndReshield(sender, p, x)
  PROVE  Ledger!Exchange
<1> DEFINE fresh  == FreshLabel(sender)
           amount == -Net(x)
<1>1. /\ x.asset \in Asset /\ p.label \in Label /\ fresh \in Label
      /\ x.extAmount \in Int /\ x.fee \in Nat /\ balance \in [Asset -> Nat]
  BY ExtDataTypes, ProvableTypes, FreshLabelFits DEF IInv, PoolTypeOK
<1>2. x.tokenOut \in Asset /\ x.tokenOut # x.asset /\ x.extAmount < 0
  <2>1. x.tokenOut \in Asset /\ x.tokenOut # x.asset
    BY SwapStep
  <2> QED BY <2>1, ExtDataTypes, AssetAssumption
<1>3. PICK received \in Amount :
        /\ leaves' = leaves \o (OutNotes(p, x) \o <<OutNote(received, x.tokenOut, fresh), Dust>>)
        /\ balance' = [Pooled(x) EXCEPT ![x.tokenOut] = @ + received]
  BY SwapStep
<1>4. fresh \notin usedLabel /\ usedLabel' = usedLabel \cup {fresh}
  BY DEF swapAndReshield, MintLabel
(* The note spent is under a published label, so under one already used.   *)
<1>5. p.label \in usedLabel
  <2>1. ~isDeposit(p.ins)
    <3>1. sumIns(p.ins) \in 0 .. 2 * (MAX_AMOUNT - 1)
      BY <1>1, SpendWorth DEF transact
    <3>2. p.outs \in Amount \X Amount /\ Balanced(p.ins, p.outs, x)
      BY ProvableTypes DEF IInv
    <3>3. sumIns(p.ins) + x.extAmount = p.outs[1] + p.outs[2] + x.fee
      BY <3>1, <3>2, BalanceHasNoWraparound
    <3>4. p.outs[1] \in Nat /\ p.outs[2] \in Nat
      BY <3>2 DEF Amount
    <3> QED BY <1>1, <1>2, <3>1, <3>3, <3>4 DEF isDeposit
  <2>2. PICK root \in { associationRoot } \cup { associationRoots[s] : s \in Roots!Slot } :
          Roots!isKnownAssociationRoot(root) /\ p.label \in root
    BY <2>1 DEF transact, Screened
  <2>3. Approved(p.label)
    BY <2>2, KnownRootApproves
  <2> QED BY <2>3 DEF Approved, PublishedMinted
<1>6. amount \in Nat /\ Net(x) \in Int
  BY <1>1, <1>2 DEF Net
<1>7. \A l \in Label, a \in Asset :
        /\ Held(l, a) \in Nat /\ Held(l, a)' \in Nat
        /\ Held(l, a)' = Held(l, a) + Share({l}, a, p, x, Net(x))
                         + Claim({l}, a, x.tokenOut, fresh, received)
  BY <1>2, <1>3, SwapHeld
<1>8. received \in Nat /\ fresh # p.label
  BY <1>4, <1>5 DEF Amount
<1>9. \A l \in Label, a \in Asset :
        Held(l, a)' = IF l = p.label /\ a = x.asset THEN Held(l, a) - amount
                      ELSE IF l = fresh /\ a = x.tokenOut THEN Held(l, a) + received
                      ELSE Held(l, a)
  <2> TAKE l \in Label, a \in Asset
  <2>2. Held(l, a) \in Nat
    BY <1>7
  <2>1. Held(l, a) + Net(x) = Held(l, a) - amount
    BY <1>6, <2>2
  <2> HIDE DEF amount, fresh
  <2> QED BY <1>2, <1>6, <1>7, <1>8, <2>1, <2>2 DEF Share, Claim
<1>10. Accounts' = [Accounts EXCEPT ![p.label][x.asset] = @ - amount,
                                    ![fresh][x.tokenOut] = @ + received]
  <2> HIDE DEF amount, fresh
  <2> QED BY <1>1, <1>2, <1>8, <1>9 DEF Accounts
<1>11. Accounts[p.label][x.asset] >= amount
  <2>1. Accounts[p.label][x.asset] = Held(p.label, x.asset)
    BY <1>1 DEF Accounts
  <2>2. Held(p.label, x.asset) - amount \in Nat /\ Held(p.label, x.asset) \in Nat
    BY <1>1, <1>7, <1>9
  <2> QED BY <1>6, <2>1, <2>2
<1>12. balance' = [balance EXCEPT ![x.asset] = @ - amount, ![x.tokenOut] = @ + received]
  <2>1. balance[x.asset] + Net(x) = balance[x.asset] - amount
    BY <1>1, <1>6
  <2>2. Pooled(x) = [balance EXCEPT ![x.asset] = @ - amount]
    BY <2>1 DEF Pooled
  <2> HIDE DEF amount, fresh
  <2> QED BY <1>1, <1>2, <1>3, <2>2
<1>13. /\ balance'[x.asset] - balance[x.asset] = -amount /\ balance'[x.tokenOut] - balance[x.tokenOut] = received
       /\ Moves({x.asset, x.tokenOut})
  <2>1. balance[x.asset] \in Nat /\ balance[x.asset] - amount = balance[x.asset] + (-amount)
        /\ -amount \in Int /\ received \in Int
    BY <1>1, <1>6, <1>8
  <2> HIDE DEF amount, fresh
  <2>2. balance' = [balance EXCEPT ![x.asset] = @ + (-amount), ![x.tokenOut] = @ + received]
    BY <1>12, <2>1
  <2> QED BY <1>1, <1>2, <2>1, <2>2, SwapGain
<1> HIDE DEF amount, fresh
<1>14. -(-amount) \in 0 .. Accounts[p.label][x.asset]
  <2>1. Accounts[p.label][x.asset] \in Nat
    BY <1>1, <1>7 DEF Accounts
  <2> QED BY <1>6, <1>11, <2>1
<1>15. Accounts' = [Accounts EXCEPT ![p.label][x.asset] = @ + (-amount), ![fresh][x.tokenOut] = @ + received]
  <2>1. Accounts[p.label][x.asset] \in Nat
    BY <1>1, <1>7 DEF Accounts
  <2>2. Accounts[p.label][x.asset] - amount = Accounts[p.label][x.asset] + (-amount)
    BY <1>6, <2>1
  <2> QED BY <1>10, <2>2
<1>16. \E a, b \in Asset, new \in Label :
         /\ a # b /\ Moves({a, b}) /\ balance'[b] - balance[b] >= 0
         /\ new \notin usedLabel /\ usedLabel' = usedLabel \cup {new}
         /\ \E l \in usedLabel :
              /\ -(balance'[a] - balance[a]) \in 0 .. Accounts[l][a]
              /\ Accounts' = [Accounts EXCEPT ![l][a] = @ + (balance'[a] - balance[a]),
                                              ![new][b] = @ + (balance'[b] - balance[b])]
  <2>1. /\ -(balance'[x.asset] - balance[x.asset]) \in 0 .. Accounts[p.label][x.asset]
        /\ balance'[x.tokenOut] - balance[x.tokenOut] >= 0
    BY <1>8, <1>13, <1>14
  <2>2. Accounts' = [Accounts EXCEPT ![p.label][x.asset] = @ + (balance'[x.asset] - balance[x.asset]),
                                     ![fresh][x.tokenOut] = @ + (balance'[x.tokenOut] - balance[x.tokenOut])]
    BY <1>13, <1>15
  <2> USE <1>1, <1>2
  <2> WITNESS x.asset \in Asset, x.tokenOut \in Asset, fresh \in Label
  <2> QED BY <1>4, <1>5, <1>13, <2>1, <2>2
<1> QED BY <1>16 DEF Ledger!Exchange, Ledger!Opens, Ledger!Gained, Ledger!OnlyMoves, Moves, Gain, Accounts

(* Every step is one of LabelLedger or changes nothing it sees.            *)
LEMMA StepLedger ==
  ASSUME IInv, IInv', PublishedMinted, RingInv, [Next]_vars
  PROVE  Ledger!Next \/ UNCHANGED <<usedLabel, Accounts, balance>>
<1>1. ASSUME HasRoom(2), NEW x \in ExtData, NEW p \in Provable(x), NEW sender \in Sender,
             transact(sender, p, x)
      PROVE  Ledger!Next
  <2>1. CASE Shield(sender, p, x)
    BY <1>1, <2>1, ShieldOpens DEF Ledger!Next
  <2>2. CASE Transfer(p, x) \/ Unshield(p, x)
    BY <1>1, <2>2, PaymentWithdraws DEF Ledger!Next
  <2>3. CASE swapAndReshield(sender, p, x)
    BY <1>1, <2>3, SwapExchanges DEF Ledger!Next
  <2> QED BY <1>1, <2>1, <2>2, <2>3 DEF transact
<1>2. ASSUME UNCHANGED poolVars PROVE UNCHANGED <<usedLabel, Accounts, balance>>
  BY <1>2 DEF poolVars, Accounts, Held, Worth, LiveUnder, LiveNotes, Unspendable, NoteAt, Index
<1> QED BY <1>1, <1>2 DEF Next, setAsset, setAssociationRoot, vars

(* No account is open at first.                                            *)
LEMMA InitLedger == Init => Ledger!Init
<1> SUFFICES ASSUME Init PROVE Ledger!Init
  OBVIOUS
<1>1. \A l \in Label, a \in Asset : Held(l, a) = 0
  <2> TAKE l \in Label, a \in Asset
  <2>1. LiveUnder(l, a) = {}
    BY DEF Init, LiveUnder, LiveNotes, Index
  <2> QED BY <2>1, SumEmpty DEF Held, Worth
<1>2. usedLabel = {} /\ balance = [a \in Asset |-> 0]
  BY DEF Init
<1> QED BY <1>1, <1>2 DEF Ledger!Init

(* The pool implements the ledger of labels: however notes are split,      *)
(* merged, spent and swapped, value enters under labels never used before, *)
(* never moves between labels, and leaves only out of the pool.            *)
THEOREM LedgerCorrect == Spec => ImplementsLabelLedger
<1>1. IInv /\ IInv' /\ PublishedMinted /\ RingInv /\ [Next]_vars
        => [Ledger!Next]_<<usedLabel, Accounts, balance>>
  BY StepLedger
<1>2. Spec => Ledger!Init /\ [][Ledger!Next]_<<usedLabel, Accounts, balance>>
  BY <1>1, InitLedger, PoolInvariant, PublishedInvariant, RingInvariant, PTL DEF Spec
<1> QED BY <1>2, PTL DEF ImplementsLabelLedger, Ledger!Spec, Accounts
=============================================================================
