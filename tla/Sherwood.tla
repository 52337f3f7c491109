------------------------------ MODULE Sherwood ------------------------------
(***************************************************************************)
(* The shielded pool (src/Sherwood.sol) with the join-split circuit its    *)
(* verifier stands for (circuits/transaction.circom).                      *)
(*                                                                         *)
(* A commitment is the note it commits to, a leaf index; a nullifier is    *)
(* the index of the leaf it spends; a label is the pair (sender, nonce) it *)
(* hashes; an association root is the set of labels under it. A proof that *)
(* verifies is therefore a choice of inputs and outputs that satisfies the *)
(* circuit. The newest commitment root covers every leaf, so which known   *)
(* root a proof names decides nothing here: the window of roots is the     *)
(* subject of MerkleTreeWithHistory, the ring of association roots that of *)
(* AssociationRoots, and who publishes them that of AspRegistry. Tokens    *)
(* sent to the contract outside transact are not counted in balance.       *)
(*                                                                         *)
(* An operator Name_Fault is operator Name with a fault put into it: the   *)
(* README lists which property tells the two apart.                        *)
(***************************************************************************)
EXTENDS Integers, Sequences, FiniteSetsExt, TLC

CONSTANTS
  Sender,               \* accounts that call transact: users and relayers
  Asset, NoAsset,       \* tokens; address(0)
  NoLabel,              \* label of a leaf without value
  Fee,                  \* relayer fees that are tried
  levels,               \* depth of the commitment tree
  FIELD_SIZE,           \* the circuit's field
  MAX_AMOUNT,           \* 2^248: bound of amounts, of |extAmount| and of the fee
  Listable,             \* bound: the assets whose listing the owner changes
  Unset, ASSOC_ROOT_HISTORY, MaxPublished

(* Two inputs, two outputs, the external amount and the fee, each below    *)
(* MAX_AMOUNT, cannot wrap around the field.                               *)
ASSUME FieldAssumption ==
  /\ MAX_AMOUNT \in Nat \ {0}
  /\ FIELD_SIZE \in Nat /\ FIELD_SIZE > 4 * MAX_AMOUNT
ASSUME FeeAssumption == Fee \subseteq 0 .. MAX_AMOUNT - 1
ASSUME LevelsAssumption == levels \in Nat /\ 2 ^ levels \in Nat
ASSUME RingAssumption == ASSOC_ROOT_HISTORY \in Nat \ {0} /\ MaxPublished \in Nat
ASSUME AssetAssumption == NoAsset \notin Asset /\ Listable \subseteq Asset

VARIABLES
  leaves,               \* the notes inserted into the commitment tree, in order
  nullifierHashes,      \* leaf indices spent
  supportedAsset,       \* the allowlist
  depositNonce,         \* per sender, labels minted so far
  usedLabel,            \* every label minted
  balance,              \* tokens the contract holds
  associationRoot, associationRoots, assocRootIndex, published

poolVars == <<leaves, nullifierHashes, depositNonce, usedLabel, balance>>
rootVars == <<associationRoot, associationRoots, assocRootIndex, published>>
vars == <<poolVars, supportedAsset, rootVars>>

MaxLeaves == 2 ^ levels
Label  == [by : Sender, nonce : 0 .. MaxLeaves \div 2 - 1]
Amount == 0 .. MAX_AMOUNT - 1
Note   == [amount : Amount, asset : Asset, label : Label]
Dust   == [amount |-> 0, asset |-> NoAsset, label |-> NoLabel]

Roots == INSTANCE AssociationRoots WITH Root <- SUBSET Label

Init ==
  /\ leaves = << >>
  /\ nullifierHashes = {}
  /\ supportedAsset \in { Asset \ delisted : delisted \in SUBSET Listable }
  /\ depositNonce = [s \in Sender |-> 0]
  /\ usedLabel = {}
  /\ balance = [a \in Asset |-> 0]
  /\ Roots!Init

-----------------------------------------------------------------------------
(* The circuit. An input is the index of a leaf with value or Dummy, a     *)
(* fresh note without value, of which only its amount 0 is constrained.    *)
Dummy == -1
Index == 0 .. Len(leaves) - 1
NoteAt(i) == leaves[i + 1]
Real(ins) == { ins[k] : k \in 1 .. 2 } \ {Dummy}
InAmount(i) == IF i = Dummy THEN 0 ELSE NoteAt(i).amount
sumIns(ins) == InAmount(ins[1]) + InAmount(ins[2])
isDeposit(ins) == sumIns(ins) = 0

(* A note as the circuit outputs it: one without value has no asset and no *)
(* label worth telling apart.                                              *)
OutNote(amount, asset, label) ==
  IF amount = 0 THEN Dust ELSE [amount |-> amount, asset |-> asset, label |-> label]

(* Field encoding of extAmount - fee.                                      *)
_publicAmount(extAmount, fee) ==
  IF extAmount >= fee THEN extAmount - fee ELSE FIELD_SIZE - (fee - extAmount)

DistinctNullifiers_Unchecked(ins) == TRUE

DistinctNullifiers(ins) == ins[1] = ins[2] => ins[1] = Dummy

InputsMatch_AnyLabel(ins, asset, label) ==
  \A i \in Real(ins) :
    /\ NoteAt(i).amount \in 1 .. MAX_AMOUNT - 1
    /\ NoteAt(i).asset = asset

(* Range, asset and label constraints of the inputs.                       *)
InputsMatch(ins, asset, label) ==
  \A i \in Real(ins) :
    /\ NoteAt(i).amount \in 1 .. MAX_AMOUNT - 1
    /\ NoteAt(i).asset = asset
    /\ NoteAt(i).label = label

(* sumIns + publicAmount === sumOuts, in the field.                        *)
Balanced(ins, outs, x) ==
  (sumIns(ins) + _publicAmount(x.extAmount, x.fee)) % FIELD_SIZE
    = (outs[1] + outs[2]) % FIELD_SIZE

LabelsTried(ins) ==
  IF Real(ins) = {} THEN Label ELSE { NoteAt(i).label : i \in Real(ins) }

(* The statements (inputs, output amounts, transaction label) that have a  *)
(* proof for the external data x. The two slots on either side are         *)
(* interchangeable, so they are listed in order.                           *)
InputPairs ==
  LET valued == { i \in Index : NoteAt(i).amount > 0 } \cup {Dummy}
  IN  { ins \in valued \X valued : ins[1] <= ins[2] }
OutputPairs == { outs \in Amount \X Amount : outs[1] >= outs[2] }

Provable(x) ==
  UNION {
    { [ins |-> ins, outs |-> outs, label |-> label] :
        label \in { l \in LabelsTried(ins) : InputsMatch(ins, x.asset, l) },
        outs  \in { o \in OutputPairs : Balanced(ins, o, x) } } :
    ins \in { i \in InputPairs : DistinctNullifiers(i) } }

-----------------------------------------------------------------------------
(* transact. The external data x: asset, extAmount, fee, tokenOut (NoAsset *)
(* when the transaction is no swap) and minAmountOut.                      *)
ExtData ==
  { x \in [ asset : Asset,
            extAmount : -(MAX_AMOUNT - 1) .. MAX_AMOUNT - 1,
            fee : Fee,
            tokenOut : Asset \cup {NoAsset},
            minAmountOut : {1} ] :
      x.tokenOut # NoAsset => x.extAmount < 0 /\ x.tokenOut # x.asset }

AssetAllowed_ExitsToo(x) == x.asset \in supportedAsset

(* Only value coming in needs the asset to be listed.                      *)
AssetAllowed(x) == x.extAmount > 0 => x.asset \in supportedAsset

PureDeposit(p, x) == x.extAmount > 0 => isDeposit(p.ins)

Screened_DepositsOnly(p) == TRUE

(* A spend proves its label under an accepted association root.            *)
Screened(p) ==
  ~isDeposit(p.ins) =>
    \E root \in { associationRoot } \cup { associationRoots[s] : s \in Roots!Slot } :
      /\ Roots!isKnownAssociationRoot(root)
      /\ p.label \in root

Unspent_Unchecked(ins) == TRUE

Unspent(ins) == Real(ins) \cap nullifierHashes = {}

FreshLabel(sender) == [by |-> sender, nonce |-> depositNonce[sender]]

DepositLabelOK_AnyLabel(sender, label) == FreshLabel(sender) \notin usedLabel

DepositLabelOK(sender, label) ==
  label = FreshLabel(sender) /\ FreshLabel(sender) \notin usedLabel

MintLabel_NonceKept(sender) ==
  /\ UNCHANGED depositNonce
  /\ usedLabel' = usedLabel \cup {FreshLabel(sender)}

MintLabel(sender) ==
  /\ depositNonce' = [depositNonce EXCEPT ![sender] = @ + 1]
  /\ usedLabel' = usedLabel \cup {FreshLabel(sender)}

OutNotes(p, x) == << OutNote(p.outs[1], x.asset, p.label),
                     OutNote(p.outs[2], x.asset, p.label) >>

HasRoom_FirstPairOnly(count) == Len(leaves) + 2 <= MaxLeaves

HasRoom(count) == Len(leaves) + count <= MaxLeaves

Insert(notes) ==
  /\ HasRoom(Len(notes))
  /\ leaves' = leaves \o notes

(* Tokens the contract pays out; the transfers revert if it holds less.    *)
Pay(asset, amount) == balance[asset] >= amount

ExactCredit_Unchecked(credited, amount) == TRUE

ExactCredit(credited, amount) == credited = amount

Shield(sender, p, x) ==
  /\ x.extAmount > 0
  /\ DepositLabelOK(sender, p.label)
  /\ MintLabel(sender)
  /\ Insert(OutNotes(p, x))
  /\ \E credited \in 0 .. x.extAmount :      \* a fee-on-transfer token credits less
       /\ ExactCredit(credited, x.extAmount)
       /\ balance[x.asset] + credited >= x.fee
       /\ balance' = [balance EXCEPT ![x.asset] = @ + credited - x.fee]

Transfer(p, x) ==
  /\ x.extAmount = 0
  /\ Insert(OutNotes(p, x))
  /\ Pay(x.asset, x.fee)
  /\ balance' = [balance EXCEPT ![x.asset] = @ - x.fee]
  /\ UNCHANGED <<depositNonce, usedLabel>>

Unshield(p, x) ==
  /\ x.extAmount < 0 /\ x.tokenOut = NoAsset
  /\ Insert(OutNotes(p, x))
  /\ Pay(x.asset, x.fee - x.extAmount)
  /\ balance' = [balance EXCEPT ![x.asset] = @ - x.fee + x.extAmount]
  /\ UNCHANGED <<depositNonce, usedLabel>>

ClaimLabel_Inherited(sender, p) == p.label

(* The proceeds of a swap never inherit the label of the note spent.       *)
ClaimLabel(sender, p) == FreshLabel(sender)

(* The market delivers whatever it delivers; the pool credits the actual   *)
(* balance difference to a claim note inserted beside an empty leaf.       *)
swapAndReshield(sender, p, x) ==
  /\ x.tokenOut \in supportedAsset
  /\ FreshLabel(sender) \notin usedLabel
  /\ MintLabel(sender)
  /\ Pay(x.asset, x.fee - x.extAmount)
  /\ \E received \in 0 .. MAX_AMOUNT :
       /\ received >= x.minAmountOut
       /\ received < MAX_AMOUNT
       /\ Insert(OutNotes(p, x) \o
                 << OutNote(received, x.tokenOut, ClaimLabel(sender, p)), Dust >>)
       /\ balance' = [balance EXCEPT ![x.asset] = @ - x.fee + x.extAmount,
                                     ![x.tokenOut] = @ + received]

transact(sender, p, x) ==
  /\ Unspent(p.ins)
  /\ AssetAllowed(x)
  /\ PureDeposit(p, x)
  /\ Screened(p)
  /\ nullifierHashes' = nullifierHashes \cup Real(p.ins)
  /\ \/ Shield(sender, p, x)
     \/ Transfer(p, x)
     \/ Unshield(p, x)
     \/ swapAndReshield(sender, p, x)
  /\ UNCHANGED <<supportedAsset, rootVars>>

-----------------------------------------------------------------------------
setAsset(token, supported) ==
  /\ supportedAsset' = IF supported THEN supportedAsset \cup {token}
                                    ELSE supportedAsset \ {token}
  /\ UNCHANGED <<poolVars, rootVars>>

(* The ASP publishes a set of labels it saw in Deposit events.             *)
setAssociationRoot(labels) ==
  /\ Roots!publish(labels)
  /\ UNCHANGED <<poolVars, supportedAsset>>

Next ==
  \/ /\ HasRoom(2)     \* or every transact reverts
     /\ \E x \in ExtData : \E p \in Provable(x), sender \in Sender : transact(sender, p, x)
  \/ \E token \in Listable, supported \in BOOLEAN : setAsset(token, supported)
  \/ \E labels \in SUBSET usedLabel : setAssociationRoot(labels)

Spec == Init /\ [][Next]_vars

-----------------------------------------------------------------------------
PoolTypeOK ==
  /\ leaves \in Seq(Note \cup {Dust})
  /\ Len(leaves) <= MaxLeaves
  /\ nullifierHashes \subseteq Index
  /\ supportedAsset \subseteq Asset
  /\ depositNonce \in [Sender -> 0 .. MaxLeaves \div 2]
  /\ usedLabel \subseteq Label
  /\ balance \in [Asset -> Nat]

TypeOK == PoolTypeOK /\ Roots!TypeOK

Unspendable(i) == NoteAt(i).amount = 0 \/ i \in nullifierHashes

(* The unspent notes of asset a, those of them under label l, and what a   *)
(* set of notes is worth.                                                  *)
LiveNotes(a) == { i \in Index : ~Unspendable(i) /\ NoteAt(i).asset = a }
LiveUnder(l, a) == { i \in LiveNotes(a) : NoteAt(i).label = l }
Worth(notes) == SumFunctionOnSet([i \in Index |-> NoteAt(i).amount], notes)

Held(l, a) == Worth(LiveUnder(l, a))

(* Every unspent note is backed: the tokens the pool holds are exactly the *)
(* sum of the notes that can still be spent, whatever the order of         *)
(* shields, transfers, exits and swaps and whatever tokens and markets do. *)
FullyBacked == \A a \in Asset : balance[a] = Worth(LiveNotes(a))

(* The pool keeps one account per label: value enters only under a label   *)
(* never used before, never moves from one label to another, and leaves    *)
(* only out of the pool.                                                   *)
Ledger == INSTANCE LabelLedger
            WITH opened <- usedLabel,
                 held   <- [l \in Label |-> [a \in Asset |-> Held(l, a)]],
                 vault  <- balance

ImplementsLabelLedger == Ledger!Spec

(* The next label of every sender is unused, so `require(!usedLabel, ...)` *)
(* in transact never stops an honest deposit or swap                       *)
(* (src/Sherwood.sol:64, "belt-and-suspenders against reuse").             *)
NextLabelsUnused ==
  \A s \in Sender : \A l \in usedLabel : l.by = s => l.nonce < depositNonce[s]

(* No value joins a label the ASP has already approved: what is approved   *)
(* is what was screened, and only shrinks (C-1, src/Sherwood.sol:269-271). *)
ApprovedOnlyShrinks ==
  [][\A k \in 1 .. Len(published) : \A l \in published[k], a \in Asset :
       Held(l, a)' <= Held(l, a)]_vars

(* A note is spent only while its label is in one of the                  *)
(* ASSOC_ROOT_HISTORY newest publications (the association-set binding of  *)
(* transact): approval is needed, and its withdrawal takes effect after    *)
(* that many more.                                                         *)
Approved(l) ==
  \E k \in 1 .. Len(published) :
    l \in published[k] /\ Len(published) - k < ASSOC_ROOT_HISTORY

SpendsAreScreened ==
  [][\A i \in nullifierHashes' \ nullifierHashes : Approved(NoteAt(i).label)]_vars

(* An approved note can leave the pool whatever the owner has done to the  *)
(* allowlist (src/Sherwood.sol:230-232), as long as the tree has room for  *)
(* the two leaves an exit inserts.                                         *)
ExitOf(i) ==
  [ p |-> [ins |-> <<i, Dummy>>, outs |-> <<0, 0>>, label |-> NoteAt(i).label],
    x |-> [ asset |-> NoteAt(i).asset, extAmount |-> -NoteAt(i).amount, fee |-> 0,
            tokenOut |-> NoAsset, minAmountOut |-> 1 ] ]

ApprovedCanExit ==
  \A i \in Index, s \in Sender :
    /\ ~Unspendable(i)
    /\ associationRoot # Unset
    /\ NoteAt(i).label \in associationRoot
    /\ HasRoom(2)
    => LET exit == ExitOf(i)
       IN  /\ Balanced(exit.p.ins, exit.p.outs, exit.x)
           /\ InputsMatch(exit.p.ins, exit.x.asset, exit.p.label)
           /\ ENABLED transact(s, exit.p, exit.x)

-----------------------------------------------------------------------------
(* Neither the properties nor the initial states tell two assets, or two   *)
(* senders, apart (both assets are Listable in MCSherwood.cfg).            *)
Sym == Permutations(Asset) \cup Permutations(Sender)

(* Bound: the value in the pool.                                           *)
FewUnits == SumFunction(balance) <= 2
=============================================================================
