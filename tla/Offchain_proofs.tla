-------------------------- MODULE Offchain_proofs --------------------------
(***************************************************************************)
(* Proofs about the association roots (AssociationRoots), and about who    *)
(* publishes them, and what: the rotation of the ASP (AspRegistry), and    *)
(* the service that approves deposits (AspApprover), alone and among the   *)
(* loops of Offchain.                                                      *)
(***************************************************************************)
EXTENDS Offchain, SumTheorems

USE AssocHistoryAssumption, MaxPublishedAssumption

(* Types of the association roots.                                         *)
THEOREM TypeCorrect == Spec => []TypeOK
<1>1. Init => TypeOK
  BY DEF Init, TypeOK, Slot
<1>2. TypeOK /\ [Next]_rootVars => TypeOK'
  <2> SUFFICES ASSUME TypeOK, [Next]_rootVars PROVE TypeOK'
    OBVIOUS
  <2> USE DEF TypeOK
  <2>1. ASSUME NEW newRoot \in Root \cup {Unset}, publish(newRoot)
        PROVE  TypeOK'
    <3>1. assocRootIndex' \in Slot
      BY <2>1, NextInRing DEF publish, NextSlot, Slot
    <3> QED BY <2>1, <3>1 DEF publish
  <2>2. CASE UNCHANGED rootVars
    BY <2>2 DEF rootVars
  <2> QED BY <2>1, <2>2 DEF Next
<1> QED BY <1>1, <1>2, PTL DEF Spec

(* The strengthening that makes AcceptedRootsAreRecent inductive: the ring *)
(* holds what was published last, the slot of age a the publication made a *)
(* publications ago, and the current root is the newest one.               *)
RingHoldsPublished ==
  /\ RingHolds(associationRoots, assocRootIndex, published, Unset, ASSOC_ROOT_HISTORY)
  /\ associationRoot = IF published = << >> THEN Unset ELSE published[Len(published)]

(* The ring holds the last publications always.                            *)
LEMMA RingInvariant == Spec => [](TypeOK /\ RingHoldsPublished)
<1>1. Init => RingHoldsPublished
  BY RingEmpty DEF Init, RingHoldsPublished, Slot
<1>2. TypeOK /\ RingHoldsPublished /\ [Next]_rootVars => RingHoldsPublished'
  <2> SUFFICES ASSUME TypeOK, RingHoldsPublished, [Next]_rootVars
               PROVE  RingHoldsPublished'
    OBVIOUS
  <2>1. ASSUME NEW newRoot \in Root \cup {Unset}, publish(newRoot)
        PROVE  RingHoldsPublished'
    <3>1. RingHolds(associationRoots, assocRootIndex, published, Unset, ASSOC_ROOT_HISTORY)'
      BY <2>1, RingStep DEF publish, NextSlot, TypeOK, Slot, RingHoldsPublished
    <3>2. associationRoot' = published'[Len(published')] /\ published' # << >>
      BY <2>1 DEF publish, TypeOK
    <3> QED BY <3>1, <3>2 DEF RingHoldsPublished
  <2>2. CASE UNCHANGED rootVars
    BY <2>2 DEF rootVars, RingHoldsPublished
  <2> QED BY <2>1, <2>2 DEF Next
<1> QED BY <1>1, <1>2, TypeCorrect, PTL DEF Spec

(* The roots a spend may be proved against are exactly the last            *)
(* ASSOC_ROOT_HISTORY publications of the ASP.                             *)
THEOREM AcceptedCorrect == Spec => []AcceptedRootsAreRecent
<1>1. TypeOK /\ RingHoldsPublished => AcceptedRootsAreRecent
  <2> SUFFICES ASSUME TypeOK, RingHoldsPublished, NEW r \in Root \cup {Unset}
               PROVE  isKnownAssociationRoot(r)
                        <=> \E k \in 1 .. Len(published) :
                              /\ published[k] = r
                              /\ r # Unset
                              /\ Len(published) - k < ASSOC_ROOT_HISTORY
    BY DEF AcceptedRootsAreRecent
  <2>1. r # Unset =>
          ((\E s \in Slot : associationRoots[s] = r)
             <=> \E k \in 1 .. Len(published) : published[k] = r /\ Len(published) - k < ASSOC_ROOT_HISTORY)
    BY RingFinds DEF TypeOK, Slot, RingHoldsPublished
  <2>2. r # Unset /\ r = associationRoot =>
          \E k \in 1 .. Len(published) : published[k] = r /\ Len(published) - k < ASSOC_ROOT_HISTORY
    <3>1. Len(published) \in Nat /\ (published # << >> => Len(published) \in 1 .. Len(published))
      BY DEF TypeOK
    <3> QED BY <3>1 DEF RingHoldsPublished
  <2> QED BY <2>1, <2>2 DEF isKnownAssociationRoot, Searched
<1> QED BY <1>1, RingInvariant, PTL

(* The association-root ring is a shift register of the newest roots.      *)
THEOREM RingImplementsRegister == Spec => ImplementsRootRegister
<1> DEFINE reg == [a \in Slot |-> associationRoots[SlotOfAge(a)]]
<1>1. Init => Register!Init
  <2> SUFFICES ASSUME Init PROVE Register!Init
    OBVIOUS
  <2>0. assocRootIndex = 0
    BY DEF Init
  <2>1. \A a \in Slot : SlotOfAge(a) \in Slot
    BY <2>0 DEF SlotOfAge, Slot
  <2>2. \A a \in Slot : reg[a] = Unset
    BY <2>1 DEF Init
  <2> QED BY <2>2 DEF Register!Init, Register!Age, Slot
<1>2. TypeOK /\ [Next]_rootVars => [Register!Push]_reg
  <2> SUFFICES ASSUME TypeOK, [Next]_rootVars PROVE Register!Push \/ UNCHANGED reg
    OBVIOUS
  <2>1. ASSUME NEW newRoot \in Root \cup {Unset},
               publish(newRoot)
        PROVE  Register!Push
    <3>1. /\ assocRootIndex \in Slot
          /\ assocRootIndex' = IF assocRootIndex = ASSOC_ROOT_HISTORY - 1
                               THEN 0 ELSE assocRootIndex + 1
      BY <2>1, NextInRing DEF publish, NextSlot, Slot, TypeOK
    <3>2. ASSUME NEW a \in Slot \ {0} PROVE reg'[a] = reg[a - 1]
      <4>1. /\ a - 1 \in Slot
            /\ SlotOfAge(a)' = SlotOfAge(a - 1)
            /\ SlotOfAge(a - 1) \in Slot
            /\ SlotOfAge(a - 1) # assocRootIndex
        BY <3>1 DEF SlotOfAge, Slot
      <4>2. associationRoots'[SlotOfAge(a)'] = associationRoots[SlotOfAge(a - 1)]
        BY <2>1, <4>1 DEF publish, TypeOK
      <4> QED BY <4>1, <4>2
    <3> QED BY <3>2 DEF Register!Push, Register!Age, Slot
  <2>2. CASE UNCHANGED rootVars
    BY <2>2 DEF rootVars, SlotOfAge
  <2> QED BY <2>1, <2>2 DEF Next
<1> QED
  BY <1>1, <1>2, TypeCorrect, PTL DEF Spec, ImplementsRootRegister, Register!Spec

-----------------------------------------------------------------------------
USE TimelockAssumption, NoOneAssumption, MaxTimeAssumption

(* Types of the rotation's state.                                          *)
RotationTypeOK ==
  /\ asp \in Account
  /\ pendingAsp \in Account \cup {NoOne}
  /\ pendingAspTime \in Nat
  /\ now \in Nat
  /\ announcedAt \in [Account -> Nat]

(* What makes RotationIsAnnounced inductive: a pending rotation takes      *)
(* effect ASP_TIMELOCK after its latest announcement.                      *)
PendingMatchesAnnouncement ==
  pendingAsp # NoOne => pendingAspTime = announcedAt[pendingAsp] + ASP_TIMELOCK

(* A step of the registry keeps both; and the account it makes ASP was     *)
(* announced ASP_TIMELOCK before.                                          *)
LEMMA RotationStep ==
  ASSUME RotationTypeOK, PendingMatchesAnnouncement, [RegistryNext]_registryVars
  PROVE  RotationTypeOK' /\ PendingMatchesAnnouncement'
         /\ (asp' # asp => now - announcedAt[asp'] >= ASP_TIMELOCK)
<1> USE DEF RotationTypeOK, PendingMatchesAnnouncement
<1>1. ASSUME NEW newAsp \in Account, proposeAsp(newAsp)
      PROVE  RotationTypeOK' /\ PendingMatchesAnnouncement' /\ asp' = asp
  BY <1>1 DEF proposeAsp, EffectiveTime
<1>2. CASE acceptAsp
  BY <1>2 DEF acceptAsp
<1>3. CASE Tick
  BY <1>3 DEF Tick, aspVars
<1>4. CASE UNCHANGED <<aspVars, now>>
  BY <1>4 DEF aspVars
<1> QED BY <1>1, <1>2, <1>3, <1>4 DEF RegistryNext, setAssociationRoot, registryVars

(* Types of the rotation's state, and the times announced, always.         *)
LEMMA RotationInvariant == RegistrySpec => [](RotationTypeOK /\ PendingMatchesAnnouncement)
<1>1. RegistryInit => RotationTypeOK /\ PendingMatchesAnnouncement
  BY DEF RegistryInit, RotationTypeOK, PendingMatchesAnnouncement
<1>2. RotationTypeOK /\ PendingMatchesAnnouncement /\ [RegistryNext]_registryVars
        => RotationTypeOK' /\ PendingMatchesAnnouncement'
  BY RotationStep
<1> QED BY <1>1, <1>2, PTL DEF RegistrySpec

(* Rotating the ASP never touches the roots: every behaviour of the        *)
(* registry is one of AssociationRoots, whose theorems therefore hold of   *)
(* it whatever the owner does.                                             *)
THEOREM RotationLeavesRoots == RegistrySpec => Spec
<1>1. RegistryInit => Init
  BY DEF RegistryInit
<1>2. [RegistryNext]_registryVars => [Next]_rootVars
  BY DEF RegistryNext, Next, setAssociationRoot, proposeAsp, acceptAsp, Tick,
         registryVars
<1> QED BY <1>1, <1>2, PTL DEF RegistrySpec, Spec

(* No account becomes ASP less than ASP_TIMELOCK after its latest proposal.*)
THEOREM RotationCorrect == RegistrySpec => RotationIsAnnounced
<1>1. RotationTypeOK /\ PendingMatchesAnnouncement /\ [RegistryNext]_registryVars
        => [asp' # asp => now - announcedAt[asp'] >= ASP_TIMELOCK]_registryVars
  BY RotationStep
<1> QED BY <1>1, RotationInvariant, PTL DEF RegistrySpec, RotationIsAnnounced

-----------------------------------------------------------------------------
(* The service that approves deposits. Publications and transactions on    *)
(* their way form one sequence: what was or will be published.             *)
NodeState == [root : Root \cup {Unset}, asp : Account, deposits : Nat]
Queue == published \o sent

ServiceTyped ==
  /\ published \in Seq(Root) /\ sent \in Seq(Root)
  /\ associationRoot \in Root \cup {Unset} /\ asp \in Account /\ pendingAsp \in Account \cup {NoOne}
  /\ deposits \in 0 .. MaxDeposits
  /\ recent \in Seq(NodeState) /\ Len(recent) \in 1 .. MaxLag + 1
  /\ recent[Len(recent)].deposits = deposits
  /\ \A i \in 1 .. Len(recent) : recent[i].deposits <= deposits
  /\ pc \in {"idle", "reading", "waiting"} /\ failures \in Nat
  /\ local # Nothing => local \in Nat /\ local <= deposits
  /\ \A k \in 1 .. Len(Queue) : Queue[k] <= deposits

(* The service's account is the ASP; or was, and is not any more; or has   *)
(* not been it yet.                                                        *)
Waiting == sent = << >> /\ published = << >> /\ \A i \in 1 .. Len(recent) : recent[i].asp # Key
RoleOK == asp = Key \/ pendingAsp = NoOne \/ Waiting

(* Within a ring's length of each set comes one at least as large.         *)
Renewed(q) ==
  \A j \in 1 .. Len(q) : j + ASSOC_ROOT_HISTORY <= Len(q) =>
    \E k \in j + 1 .. j + ASSOC_ROOT_HISTORY : q[j] <= q[k]

(* After b more blocks every node knows of v deposits.                     *)
Fresh(v, b) ==
  \A i \in 1 .. Len(recent) : i + MaxLag + 1 > b + Len(recent) => v <= recent[i].deposits

(* The service may still send a set of fewer than v deposits: then it has  *)
(* a turn of its own, which only a block or a failure gives.               *)
MaySendLess(v, b) ==
  pc # "waiting" /\ (b > 0 \/ (pc = "reading" /\ local # Nothing /\ local < v))

(* r sets of fewer than v deposits in a row are sent: their number, the    *)
(* blocks until all nodes know better and the turn add up to no more than  *)
(* a node may lag and rounds have failed.                                  *)
Calm(v, r) ==
  \E b, t \in Nat :
    Fresh(v, b) /\ r + t + b <= MaxLag + failures /\ (MaySendLess(v, b) => t >= 1)

Active ==
  \A j \in 1 .. Len(Queue) :
    (\E k \in j + 1 .. Len(Queue) : Queue[j] <= Queue[k]) \/ Calm(Queue[j], Len(Queue) - j)

ServiceInv ==
  ~ byHand =>
    /\ ServiceTyped /\ failures <= MaxFailures /\ RoleOK /\ Renewed(published)
    /\ asp = Key => Renewed(Queue) /\ Active

(* A block brings a state of the chain that knows all deposits.            *)
LEMMA FreshBlock ==
  ASSUME ServiceTyped, ~ byHand, Block, associationRoot' \in Root \cup {Unset}, asp' \in Account,
         deposits' \in Nat, deposits <= deposits'
  PROVE  /\ recent' \in Seq(NodeState) /\ Len(recent') \in 1 .. MaxLag + 1
         /\ recent'[Len(recent')].deposits = deposits'
         /\ \A i \in 1 .. Len(recent') : recent'[i].deposits <= deposits'
         /\ \A v \in Nat, b \in Nat : v <= deposits /\ Fresh(v, b) =>
              Fresh(v, IF b > 0 THEN b - 1 ELSE 0)'
<1> DEFINE x == At(associationRoot', asp', deposits')
           all == Append(recent, x)
<1>1. x \in NodeState /\ x.deposits = deposits' /\ x.asp = asp'
  BY DEF At, NodeState
<1>2. recent \in Seq(NodeState) /\ Len(recent) \in Nat /\ Len(recent) >= 1 /\ Len(recent) <= MaxLag + 1
      /\ MaxLag \in Nat /\ deposits \in Nat
  BY ApproverAssumption DEF ServiceTyped
<1>3. recent' = IF Len(all) > MaxLag + 1 THEN Tail(all) ELSE all
  BY DEF Block
<1>4. \A s \in NodeState : s.deposits \in Nat
  BY DEF NodeState
<1> HIDE DEF x
<1>5. all \in Seq(NodeState) /\ Len(all) = Len(recent) + 1 /\ all[Len(all)] = x
      /\ \A i \in 1 .. Len(recent) : all[i] = recent[i]
  BY <1>1, <1>2
<1>8. \A i \in 1 .. Len(recent) + 1 : all[i].deposits <= deposits'
  <2>1. ASSUME NEW i \in 1 .. Len(recent) PROVE all[i].deposits <= deposits'
    <3>1. all[i].deposits <= deposits /\ all[i].deposits \in Nat
      BY <1>2, <1>4, <1>5 DEF ServiceTyped
    <3> QED BY <1>2, <3>1
  <2> QED BY <1>1, <1>2, <1>5, <2>1
<1> HIDE DEF all
<1>6. CASE Len(all) > MaxLag + 1
  <2>1. recent' = Tail(all)
    BY <1>3, <1>6
  <2>2. recent' \in Seq(NodeState) /\ Len(recent') = Len(recent) /\ Len(recent) = MaxLag + 1
        /\ \A i \in 1 .. Len(recent') : recent'[i] = all[i + 1]
    BY <1>2, <1>5, <1>6, <2>1
  <2>3. recent'[Len(recent')].deposits = deposits'
    BY <1>1, <1>2, <1>5, <2>2
  <2>4. ASSUME NEW v \in Nat, NEW b \in Nat, v <= deposits, Fresh(v, b),
               NEW i \in 1 .. Len(recent'), i + MaxLag + 1 > (IF b > 0 THEN b - 1 ELSE 0) + Len(recent')
        PROVE  v <= recent'[i].deposits
    <3>1. CASE i = Len(recent')
      BY <1>2, <2>3, <2>4, <3>1
    <3>2. CASE i # Len(recent')
      <4>1. i + 1 \in 1 .. Len(recent) /\ i + 1 + MaxLag + 1 > b + Len(recent)
        BY <1>2, <2>2, <2>4, <3>2
      <4>2. v <= recent[i + 1].deposits
        BY <2>4, <4>1 DEF Fresh
      <4> QED BY <1>5, <2>2, <4>1, <4>2
    <3> QED BY <3>1, <3>2
  <2>5. \A v \in Nat, b \in Nat : v <= deposits /\ Fresh(v, b) =>
          Fresh(v, IF b > 0 THEN b - 1 ELSE 0)'
    BY <2>4 DEF Fresh
  <2>6. \A i \in 1 .. Len(recent') : recent'[i].deposits <= deposits'
    <3>1. \A i \in 1 .. Len(recent') : i + 1 \in 1 .. Len(recent) + 1
      BY <1>2, <2>2
    <3> QED BY <1>8, <2>2, <3>1
  <2> QED BY <1>2, <2>2, <2>3, <2>5, <2>6
<1>7. CASE ~ (Len(all) > MaxLag + 1)
  <2>1. recent' = all
    BY <1>3, <1>7
  <2>2. Len(recent') = Len(recent) + 1 /\ Len(recent') <= MaxLag + 1
    BY <1>2, <1>5, <1>7, <2>1
  <2>3. recent'[Len(recent')].deposits = deposits'
    BY <1>1, <1>5, <2>1
  <2>4. ASSUME NEW v \in Nat, NEW b \in Nat, v <= deposits, Fresh(v, b),
               NEW i \in 1 .. Len(recent'), i + MaxLag + 1 > (IF b > 0 THEN b - 1 ELSE 0) + Len(recent')
        PROVE  v <= recent'[i].deposits
    <3>1. CASE i = Len(recent')
      BY <1>2, <2>3, <2>4, <3>1
    <3>2. CASE i # Len(recent')
      <4>1. i \in 1 .. Len(recent) /\ i + MaxLag + 1 > b + Len(recent)
        BY <1>2, <2>2, <2>4, <3>2
      <4>2. v <= recent[i].deposits
        BY <2>4, <4>1 DEF Fresh
      <4> QED BY <1>5, <2>1, <4>1, <4>2
    <3> QED BY <3>1, <3>2
  <2>5. \A v \in Nat, b \in Nat : v <= deposits /\ Fresh(v, b) =>
          Fresh(v, IF b > 0 THEN b - 1 ELSE 0)'
    BY <2>4 DEF Fresh
  <2>6. \A i \in 1 .. Len(recent') : recent'[i].deposits <= deposits'
    BY <1>8, <2>1, <2>2
  <2> QED BY <1>2, <1>5, <2>1, <2>2, <2>3, <2>5, <2>6
<1> QED BY <1>6, <1>7

(* A node that catches up forgets the oldest state.                        *)
LEMMA FreshCatchUp ==
  ASSUME ServiceTyped, CatchUp
  PROVE  /\ recent' \in Seq(NodeState) /\ Len(recent') \in 1 .. MaxLag + 1
         /\ recent'[Len(recent')].deposits = deposits
         /\ \A i \in 1 .. Len(recent') : recent'[i].deposits <= deposits
         /\ \A i \in 1 .. Len(recent') : i + 1 \in 1 .. Len(recent) /\ recent'[i] = recent[i + 1]
         /\ \A v \in Nat, b \in Nat : Fresh(v, b) => Fresh(v, b)'
<1>1. recent \in Seq(NodeState) /\ Len(recent) \in Nat /\ Len(recent) > 1 /\ Len(recent) <= MaxLag + 1
      /\ MaxLag \in Nat /\ recent' = Tail(recent)
  BY ApproverAssumption DEF ServiceTyped, CatchUp
<1>2. recent' \in Seq(NodeState) /\ Len(recent') = Len(recent) - 1
      /\ \A i \in 1 .. Len(recent') : recent'[i] = recent[i + 1]
  BY <1>1
<1>3. recent'[Len(recent')].deposits = deposits
  BY <1>1, <1>2 DEF ServiceTyped
<1>4. ASSUME NEW v \in Nat, NEW b \in Nat, Fresh(v, b),
             NEW i \in 1 .. Len(recent'), i + MaxLag + 1 > b + Len(recent')
      PROVE  v <= recent'[i].deposits
  <2>1. i + 1 \in 1 .. Len(recent) /\ i + 1 + MaxLag + 1 > b + Len(recent)
    BY <1>1, <1>2, <1>4
  <2>2. v <= recent[i + 1].deposits
    BY <1>4, <2>1 DEF Fresh
  <2> QED BY <1>2, <2>2
<1>5. \A v \in Nat, b \in Nat : Fresh(v, b) => Fresh(v, b)'
  BY <1>4 DEF Fresh
<1>6. \A i \in 1 .. Len(recent') : i + 1 \in 1 .. Len(recent)
  BY <1>1, <1>2
<1>7. \A i \in 1 .. Len(recent') : recent'[i].deposits <= deposits
  BY <1>2, <1>6 DEF ServiceTyped
<1> QED BY <1>1, <1>2, <1>3, <1>5, <1>6, <1>7

(* How the calm after a set changes: with a block, with a failure, when    *)
(* nothing happens to it, and when the service sends less.                 *)
LEMMA CalmBlock ==
  ASSUME ServiceTyped, ~ byHand, Block, associationRoot' \in Root \cup {Unset}, asp' \in Account,
         deposits' \in Nat, deposits <= deposits', failures' = failures, local' = local,
         pc' = pc \/ (pc = "waiting" /\ pc' = "idle"),
         NEW v \in Nat, v <= deposits, NEW r \in Nat, Calm(v, r)
  PROVE  Calm(v, r)'
<1>1. PICK b \in Nat, t \in Nat :
        Fresh(v, b) /\ r + t + b <= MaxLag + failures /\ (MaySendLess(v, b) => t >= 1)
  BY DEF Calm
<1>2. Fresh(v, IF b > 0 THEN b - 1 ELSE 0)'
  BY <1>1, FreshBlock
<1>3. MaxLag \in Nat /\ failures \in Nat
  BY ApproverAssumption DEF ServiceTyped
<1>4. CASE b = 0
  <2>1. Fresh(v, 0)' /\ r + t + 0 <= MaxLag + failures'
    BY <1>1, <1>2, <1>4
  <2>2. MaySendLess(v, 0)' => t >= 1
    BY <1>1, <1>4 DEF MaySendLess
  <2> QED BY <2>1, <2>2 DEF Calm
<1>5. CASE b > 0 /\ pc' = pc
  <2>1. b - 1 \in Nat /\ Fresh(v, b - 1)' /\ r + t + (b - 1) <= MaxLag + failures'
    BY <1>1, <1>2, <1>3, <1>5
  <2>2. MaySendLess(v, b - 1)' => t >= 1
    BY <1>1, <1>5 DEF MaySendLess
  <2> QED BY <2>1, <2>2 DEF Calm
<1>6. CASE b > 0 /\ pc' # pc
  <2>1. b - 1 \in Nat /\ t + 1 \in Nat /\ Fresh(v, b - 1)' /\ r + (t + 1) + (b - 1) <= MaxLag + failures'
    BY <1>1, <1>2, <1>3, <1>6
  <2>2. MaySendLess(v, b - 1)' => t + 1 >= 1
    OBVIOUS
  <2> QED BY <2>1, <2>2 DEF Calm
<1> QED BY <1>4, <1>5, <1>6

(* A failed round gives a turn, and is counted.                            *)
LEMMA CalmFail ==
  ASSUME ServiceTyped, recent' = recent, failures' = failures + 1,
         NEW v \in Nat, NEW r \in Nat, Calm(v, r)
  PROVE  Calm(v, r)'
<1>1. PICK b \in Nat, t \in Nat : Fresh(v, b) /\ r + t + b <= MaxLag + failures
  BY DEF Calm
<1>2. Fresh(v, b)'
  BY <1>1 DEF Fresh
<1>3. MaxLag \in Nat /\ failures \in Nat
  BY ApproverAssumption DEF ServiceTyped
<1>4. t + 1 \in Nat /\ r + (t + 1) + b <= MaxLag + failures' /\ (MaySendLess(v, b)' => t + 1 >= 1)
  BY <1>1, <1>3
<1> QED BY <1>2, <1>4 DEF Calm

(* A step that neither is a block nor fails leaves the calm as it is.      *)
LEMMA CalmStays ==
  ASSUME NEW v \in Nat, NEW r \in Nat, Calm(v, r), failures' = failures,
         \A b \in Nat : Fresh(v, b) => Fresh(v, b)',
         \A b \in Nat : Fresh(v, b) /\ MaySendLess(v, b)' => MaySendLess(v, b)
  PROVE  Calm(v, r)'
<1>1. PICK b \in Nat, t \in Nat :
        Fresh(v, b) /\ r + t + b <= MaxLag + failures /\ (MaySendLess(v, b) => t >= 1)
  BY DEF Calm
<1>2. Fresh(v, b)' /\ r + t + b <= MaxLag + failures' /\ (MaySendLess(v, b)' => t >= 1)
  BY <1>1
<1> QED BY <1>2 DEF Calm

(* Sending a smaller set uses up a turn; and r is bounded.                 *)
LEMMA CalmLess ==
  ASSUME recent' = recent, failures' = failures, pc = "reading", local # Nothing,
         pc' = "waiting", ServiceTyped, NEW v \in Nat, local < v, NEW r \in Nat, Calm(v, r)
  PROVE  Calm(v, r + 1)' /\ r + 1 <= MaxLag + failures
<1>1. PICK b \in Nat, t \in Nat :
        Fresh(v, b) /\ r + t + b <= MaxLag + failures /\ (MaySendLess(v, b) => t >= 1)
  BY DEF Calm
<1>2. t >= 1
  BY <1>1 DEF MaySendLess
<1>3. Fresh(v, b)' /\ t - 1 \in Nat /\ (r + 1) + (t - 1) + b <= MaxLag + failures'
      /\ r + 1 <= MaxLag + failures
  BY <1>1, <1>2, ApproverAssumption DEF Fresh, ServiceTyped
<1>4. MaySendLess(v, b)' => t - 1 >= 1
  BY DEF MaySendLess
<1> QED BY <1>1, <1>3, <1>4 DEF Calm

(* A set just sent is followed by nothing yet.                             *)
LEMMA CalmNew ==
  ASSUME ServiceTyped, recent' = recent, failures' = failures, pc' = "waiting",
         NEW v \in Nat, v <= deposits
  PROVE  Calm(v, 0)'
<1>1. MaxLag \in Nat /\ failures \in Nat /\ 0 \in Nat
  BY ApproverAssumption DEF ServiceTyped
<1>2. Fresh(v, MaxLag)'
  BY <1>1 DEF Fresh, ServiceTyped
<1>3. 0 + 0 + MaxLag <= MaxLag + failures'
  BY <1>1
<1>4. ~ MaySendLess(v, MaxLag)'
  BY DEF MaySendLess
<1> QED BY <1>1, <1>2, <1>3, <1>4 DEF Calm

(* The queue: a transaction that is sent joins it, and one that is mined   *)
(* only changes sides.                                                     *)
LEMMA Joined ==
  ASSUME NEW S, NEW p \in Seq(S), NEW s \in Seq(S)
  PROVE  /\ p \o s \in Seq(S) /\ Len(p \o s) = Len(p) + Len(s)
         /\ \A k \in 1 .. Len(p) : (p \o s)[k] = p[k]
         /\ \A x \in S : p \o Append(s, x) = Append(p \o s, x)
         /\ s # << >> => Append(p, Head(s)) \o Tail(s) = p \o s
<1>1. p \o s \in Seq(S) /\ Len(p \o s) = Len(p) + Len(s) /\ \A k \in 1 .. Len(p) : (p \o s)[k] = p[k]
  OBVIOUS
<1>2. ASSUME NEW x \in S PROVE p \o Append(s, x) = Append(p \o s, x)
  OBVIOUS
<1>3. ASSUME s # << >> PROVE Append(p, Head(s)) \o Tail(s) = p \o s
  BY <1>3
<1> QED BY <1>1, <1>2, <1>3

(* What was or will be published are sets of deposits on the chain.        *)
LEMMA QueueTyped ==
  ASSUME ServiceTyped
  PROVE  /\ Queue \in Seq(Root) /\ Len(Queue) \in Nat /\ Len(published) \in Nat
         /\ Len(published) <= Len(Queue)
         /\ \A k \in 1 .. Len(published) : Queue[k] = published[k]
         /\ \A k \in 1 .. Len(Queue) : Queue[k] \in Nat /\ Queue[k] <= deposits
<1>1. published \in Seq(Root) /\ sent \in Seq(Root)
  BY DEF ServiceTyped
<1>2. Queue \in Seq(Root) /\ Len(Queue) = Len(published) + Len(sent)
      /\ \A k \in 1 .. Len(published) : Queue[k] = published[k]
  BY <1>1, Joined DEF Queue
<1>3. Len(published) \in Nat /\ Len(sent) \in Nat
  BY <1>1
<1>4. \A k \in 1 .. Len(Queue) : Queue[k] \in Nat
  BY <1>2, ApproverAssumption
<1>5. \A k \in 1 .. Len(Queue) : Queue[k] <= deposits
  BY DEF ServiceTyped
<1> QED BY <1>2, <1>3, <1>4, <1>5

(* A step that sends nothing keeps each set's calm.                        *)
LEMMA ActiveKept ==
  ASSUME ServiceTyped, Active, Queue' = Queue,
         \A v \in Nat, r \in Nat : v <= deposits /\ Calm(v, r) => Calm(v, r)'
  PROVE  Active'
<1>1. Queue \in Seq(Root) /\ Len(Queue) \in Nat
      /\ \A k \in 1 .. Len(Queue) : Queue[k] \in Nat /\ Queue[k] <= deposits
  BY QueueTyped
<1>2. ASSUME NEW j \in 1 .. Len(Queue)
      PROVE  (\E k \in j + 1 .. Len(Queue) : Queue[j] <= Queue[k]) \/ Calm(Queue[j], Len(Queue) - j)'
  <2>1. CASE \E k \in j + 1 .. Len(Queue) : Queue[j] <= Queue[k]
    BY <2>1
  <2>2. CASE Calm(Queue[j], Len(Queue) - j)
    <3> DEFINE v == Queue[j]
               r == Len(Queue) - j
    <3>1. v \in Nat /\ r \in Nat /\ v <= deposits
      BY <1>1
    <3>2. Calm(v, r)
      BY <2>2
    <3>3. v' = v /\ r' = r
      OBVIOUS
    <3> HIDE DEF v, r
    <3>4. Calm(v, r)'
      BY <3>1, <3>2, <3>3
    <3> QED BY <3>4 DEF v, r
  <2> QED BY <2>1, <2>2 DEF Active
<1> HIDE DEF Calm
<1>3. \A j \in 1 .. Len(Queue') :
        (\E k \in j + 1 .. Len(Queue') : Queue'[j] <= Queue'[k]) \/ Calm(Queue[j], Len(Queue) - j)'
  BY <1>2
<1> QED BY <1>3 DEF Active

(* Sending a set: whoever waits for a set as large has one more that is    *)
(* smaller, or the wait is over.                                           *)
LEMMA QueueGrows ==
  ASSUME ServiceTyped, Active, Renewed(Queue), failures <= MaxFailures,
         MaxLag + MaxFailures < ASSOC_ROOT_HISTORY,
         recent' = recent, failures' = failures, pc = "reading", local # Nothing,
         pc' = "waiting", Queue' = Append(Queue, local)
  PROVE  Active' /\ Renewed(Queue')
<1> DEFINE n == Len(Queue)
<1>1. Queue \in Seq(Root) /\ n \in Nat /\ \A k \in 1 .. n : Queue[k] \in Nat /\ Queue[k] <= deposits
  BY QueueTyped
<1>2. local \in Nat /\ local <= deposits
  BY DEF ServiceTyped
<1>3. Len(Queue') = n + 1 /\ Queue'[n + 1] = local /\ \A k \in 1 .. n : Queue'[k] = Queue[k]
  BY <1>1
<1>4. MaxLag \in Nat /\ failures \in Nat /\ MaxFailures \in Nat /\ ASSOC_ROOT_HISTORY \in Nat
  BY ApproverAssumption, AssocHistoryAssumption DEF ServiceTyped
<1> HIDE DEF n
<1>5. ASSUME NEW j \in 1 .. n, \A k \in j + 1 .. n + 1 : ~ (Queue'[j] <= Queue'[k])
      PROVE  Calm(Queue[j], Len(Queue) - j)' /\ n - j + 1 <= MaxLag + failures
  <2>1. PICK v \in Nat, r \in Nat : v = Queue[j] /\ r = n - j
    BY <1>1
  <2>2. ~ (v <= local)
    <3>1. n + 1 \in j + 1 .. n + 1 /\ Queue'[j] = v
      BY <1>1, <1>3, <2>1
    <3> QED BY <1>3, <1>5, <3>1
  <2>3. ~ \E k \in j + 1 .. n : Queue[j] <= Queue[k]
    <3> SUFFICES ASSUME NEW k \in j + 1 .. n, Queue[j] <= Queue[k] PROVE FALSE
      OBVIOUS
    <3>1. k \in 1 .. n /\ k \in j + 1 .. n + 1
      BY <1>1
    <3> QED BY <1>3, <1>5, <3>1
  <2>4. Calm(Queue[j], n - j)
    BY <2>3 DEF Active, n
  <2>5. Calm(v, r)
    BY <2>1, <2>4
  <2>6. v <= deposits /\ local < v
    BY <1>1, <1>2, <2>1, <2>2
  <2>7. Calm(v, r + 1)' /\ r + 1 <= MaxLag + failures
    BY <2>5, <2>6, CalmLess
  <2>8. v = Queue'[j] /\ r + 1 = Len(Queue') - j
    BY <1>1, <1>3, <2>1
  <2>9. Calm(Queue[j], Len(Queue) - j)'
    <3> HIDE DEF Calm
    <3> QED BY <2>7, <2>8
  <2> QED BY <1>1, <2>1, <2>7, <2>9
<1>6. ASSUME NEW j \in 1 .. n + 1
      PROVE  ((\E k \in j + 1 .. Len(Queue) : Queue[j] <= Queue[k]) \/ Calm(Queue[j], Len(Queue) - j))'
  <2>1. CASE j = n + 1
    <3>1. PICK v \in Nat : v = local
      BY <1>2
    <3>2. Calm(v, 0)'
      BY <1>2, <3>1, CalmNew
    <3>3. Queue'[j] = v /\ Len(Queue') - j = 0
      BY <1>1, <1>3, <2>1, <3>1
    <3>4. Calm(Queue[j], Len(Queue) - j)'
      <4> HIDE DEF Calm
      <4> QED BY <3>2, <3>3
    <3> QED BY <3>4
  <2>2. CASE j # n + 1 /\ \A k \in j + 1 .. n + 1 : ~ (Queue'[j] <= Queue'[k])
    <3>1. j \in 1 .. n
      BY <1>1, <2>2
    <3> QED BY <1>5, <2>2, <3>1
  <2>3. CASE \E k \in j + 1 .. n + 1 : Queue'[j] <= Queue'[k]
    BY <1>3, <2>3
  <2> QED BY <2>1, <2>2, <2>3
<1>7. Active'
  <2>1. 1 .. Len(Queue') = 1 .. n + 1
    BY <1>3
  <2> HIDE DEF Calm
  <2> QED BY <1>6, <2>1 DEF Active
<1>8. ASSUME NEW j \in 1 .. n + 1, j + ASSOC_ROOT_HISTORY <= n + 1
      PROVE  \E k \in j + 1 .. j + ASSOC_ROOT_HISTORY : Queue'[j] <= Queue'[k]
  <2>1. j \in 1 .. n
    BY <1>1, <1>8, AssocHistoryAssumption
  <2>2. CASE j + ASSOC_ROOT_HISTORY <= n
    <3>1. PICK k \in j + 1 .. j + ASSOC_ROOT_HISTORY : Queue[j] <= Queue[k]
      BY <2>1, <2>2 DEF Renewed, n
    <3>2. k \in 1 .. n
      BY <1>1, <1>4, <2>1, <2>2, <3>1
    <3> QED BY <1>3, <2>1, <3>1, <3>2
  <2>3. CASE ~ (j + ASSOC_ROOT_HISTORY <= n)
    <3>1. n - j + 1 = ASSOC_ROOT_HISTORY
      BY <1>1, <1>4, <1>8, <2>3
    <3>2. ~ \A k \in j + 1 .. n + 1 : ~ (Queue'[j] <= Queue'[k])
      <4>1. ~ (n - j + 1 <= MaxLag + failures)
        BY <1>4, <3>1
      <4> QED BY <1>5, <2>1, <4>1
    <3>3. j + ASSOC_ROOT_HISTORY = n + 1
      BY <1>1, <1>4, <3>1
    <3> QED BY <3>2, <3>3
  <2> QED BY <2>2, <2>3
<1>9. Renewed(Queue')
  BY <1>3, <1>8 DEF Renewed
<1> QED BY <1>7, <1>9

-----------------------------------------------------------------------------
(* The steps of the service and of the chain around it.                    *)
Steady == UNCHANGED <<byHand, published, sent, associationRoot>>

(* A step that neither publishes nor sends keeps the invariant, if it      *)
(* keeps types and calm.                                                   *)
LEMMA SteadyStep ==
  ASSUME ServiceInv, ~ byHand, Steady, ServiceTyped', failures' <= MaxFailures, RoleOK',
         asp' = Key => asp = Key \/ (sent = << >> /\ published = << >>),
         \A v \in Nat, r \in Nat : v <= deposits /\ Calm(v, r) => Calm(v, r)'
  PROVE  ServiceInv'
<1>1. Queue' = Queue /\ published' = published /\ ServiceTyped /\ Renewed(published)
      /\ (asp = Key => Renewed(Queue) /\ Active)
  BY DEF Steady, Queue, ServiceInv
<1>2. Renewed(published)'
  BY <1>1 DEF Renewed
<1>3. ASSUME asp' = Key, asp = Key PROVE Renewed(Queue)' /\ Active'
  <2>1. Active'
    BY <1>1, <1>3, ActiveKept
  <2>2. Renewed(Queue)'
    BY <1>1, <1>3 DEF Renewed
  <2> QED BY <2>1, <2>2
<1>4. ASSUME asp' = Key, asp # Key PROVE Renewed(Queue)' /\ Active'
  <2>1. sent' = << >> /\ published' = << >>
    BY <1>4 DEF Steady
  <2>2. Queue' = << >>
    BY <2>1 DEF Queue
  <2>3. Len(Queue') = 0
    BY <2>2
  <2>4. 1 .. Len(Queue') = {}
    BY <2>3
  <2> QED BY <2>4 DEF Renewed, Active
<1> QED BY <1>1, <1>2, <1>3, <1>4 DEF ServiceInv

(* A step of a round that sends nothing.                                   *)
LEMMA RoundStep ==
  ASSUME ServiceInv, NEW next, next \in {"idle", "reading", "waiting"}, Round(next), sent' = sent,
         failures' = failures, local' # Nothing => local' \in Nat /\ local' <= deposits,
         \A v \in Nat, b \in Nat : Fresh(v, b) /\ MaySendLess(v, b)' => MaySendLess(v, b)
  PROVE  ServiceInv'
<1>1. ~ byHand /\ UNCHANGED <<byHand, published, associationRoot, asp, pendingAsp, deposits, recent>>
      /\ pc' = next
  BY DEF Round, registryVars, rootVars, aspVars
<1>2. Steady
  BY <1>1 DEF Steady
<1>3. ServiceTyped /\ RoleOK /\ failures <= MaxFailures
  BY <1>1 DEF ServiceInv
<1>4. Queue' = Queue
  BY <1>1 DEF Queue
<1>5. ServiceTyped' /\ RoleOK'
  BY <1>1, <1>3, <1>4 DEF ServiceTyped, RoleOK, Waiting
<1>6. \A v \in Nat, r \in Nat : v <= deposits /\ Calm(v, r) => Calm(v, r)'
  <2> SUFFICES ASSUME NEW v \in Nat, NEW r \in Nat, Calm(v, r) PROVE Calm(v, r)'
    OBVIOUS
  <2>1. \A b \in Nat : Fresh(v, b) => Fresh(v, b)'
    BY <1>1 DEF Fresh
  <2> QED BY <2>1, CalmStays
<1> QED BY <1>1, <1>2, <1>3, <1>5, <1>6, SteadyStep

(* The reads, and the rounds that end without sending.                     *)
LEMMA ReadsStep ==
  ASSUME ServiceInv, StartTick \/ ReadRoot \/ localRoot \/ InSync \/ NotAsp
  PROVE  ServiceInv'
<1>1. ServiceTyped
  BY DEF ServiceInv, StartTick, ReadRoot, localRoot, InSync, NotAsp, Round
<1>2. CASE StartTick
  <2>1. Round("reading") /\ sent' = sent /\ failures' = failures /\ local' = Nothing /\ pc = "idle"
        /\ pc' = "reading"
    BY <1>2 DEF StartTick, Round
  <2>2. \A v \in Nat, b \in Nat : MaySendLess(v, b)' => MaySendLess(v, b)
    BY <2>1 DEF MaySendLess
  <2> QED BY <2>1, <2>2, RoundStep
<1>3. CASE ReadRoot
  <2>1. Round("reading") /\ sent' = sent /\ failures' = failures /\ local' = local /\ pc = "reading"
        /\ pc' = "reading"
    BY <1>3 DEF ReadRoot, Round
  <2>2. \A v \in Nat, b \in Nat : MaySendLess(v, b)' => MaySendLess(v, b)
    BY <2>1 DEF MaySendLess
  <2>3. local' # Nothing => local' \in Nat /\ local' <= deposits
    BY <1>1, <2>1 DEF ServiceTyped
  <2> QED BY <2>1, <2>2, <2>3, RoundStep
<1>4. CASE localRoot
  <2>1. Round("reading") /\ sent' = sent /\ failures' = failures /\ pc = "reading" /\ local = Nothing
        /\ pc' = "reading"
    BY <1>4 DEF localRoot, Round
  <2>2. PICK i \in DOMAIN recent : local' = recent[i].deposits
    BY <1>4 DEF localRoot, Scanned
  <2>3. i \in 1 .. Len(recent) /\ recent[i] \in NodeState
    BY <1>1, <2>2 DEF ServiceTyped
  <2>4. local' \in Nat
    BY <2>2, <2>3 DEF NodeState
  <2>5. local' <= deposits
    BY <1>1, <2>2, <2>3 DEF ServiceTyped
  <2>6. ASSUME NEW v \in Nat, NEW b \in Nat, Fresh(v, b), MaySendLess(v, b)' PROVE MaySendLess(v, b)
    <3>1. CASE b > 0
      BY <2>1, <3>1 DEF MaySendLess
    <3>2. CASE b = 0
      <4>1. local' < v
        BY <2>6, <3>2 DEF MaySendLess
      <4>2. i + MaxLag + 1 > b + Len(recent)
        BY <1>1, <2>3, <3>2, ApproverAssumption DEF ServiceTyped
      <4>3. v <= recent[i].deposits
        BY <2>3, <2>6, <4>2 DEF Fresh
      <4> QED BY <2>2, <2>4, <4>1, <4>3
    <3> QED BY <3>1, <3>2
  <2> QED BY <2>1, <2>4, <2>5, <2>6, RoundStep
<1>5. CASE InSync \/ NotAsp
  <2>1. Round("idle") /\ sent' = sent /\ failures' = failures /\ pc = "reading" /\ local' = local
        /\ pc' = "idle"
    BY <1>5 DEF InSync, NotAsp, BothRead, Round
  <2>2. \A v \in Nat, b \in Nat : MaySendLess(v, b)' => MaySendLess(v, b)
    BY <2>1 DEF MaySendLess
  <2>3. local' # Nothing => local' \in Nat /\ local' <= deposits
    BY <1>1, <2>1 DEF ServiceTyped
  <2> QED BY <2>1, <2>2, <2>3, RoundStep
<1> QED BY <1>2, <1>3, <1>4, <1>5

(* A failed round costs a failure, which is one of the bounded number.     *)
LEMMA FailStep == ASSUME ServiceInv, Fail PROVE ServiceInv'
<1>1. failures < MaxFailures /\ failures' = failures + 1 /\ Round("idle") /\ local' = local /\ sent' = sent
  BY DEF Fail, AfterFailure
<1>2. ~ byHand /\ UNCHANGED <<byHand, published, associationRoot, asp, pendingAsp, deposits, recent>>
      /\ pc' = "idle" /\ Steady
  BY <1>1 DEF Round, registryVars, rootVars, aspVars, Steady
<1>3. ServiceTyped /\ RoleOK
  BY <1>2 DEF ServiceInv
<1>4. Queue' = Queue
  BY <1>1, <1>2 DEF Queue
<1>5. failures' \in Nat /\ failures' <= MaxFailures
  BY <1>1, <1>3, ApproverAssumption DEF ServiceTyped
<1>6. ServiceTyped' /\ RoleOK'
  BY <1>1, <1>2, <1>3, <1>4, <1>5 DEF ServiceTyped, RoleOK, Waiting
<1>7. \A v \in Nat, r \in Nat : v <= deposits /\ Calm(v, r) => Calm(v, r)'
  <2> SUFFICES ASSUME NEW v \in Nat, NEW r \in Nat, Calm(v, r) PROVE Calm(v, r)'
    OBVIOUS
  <2> QED BY <1>1, <1>2, <1>3, CalmFail
<1> QED BY <1>2, <1>5, <1>6, <1>7, SteadyStep

(* A node catches up.                                                      *)
LEMMA CatchUpStep == ASSUME ServiceInv, ~ byHand, CatchUp PROVE ServiceInv'
<1>1. UNCHANGED <<byHand, published, sent, associationRoot, asp, pendingAsp, deposits, pc, local, failures>>
  BY DEF CatchUp, registryVars, rootVars, aspVars, serviceVars
<1>2. ServiceTyped /\ RoleOK /\ failures <= MaxFailures
  BY DEF ServiceInv
<1>3. /\ recent' \in Seq(NodeState) /\ Len(recent') \in 1 .. MaxLag + 1
      /\ recent'[Len(recent')].deposits = deposits
      /\ \A i \in 1 .. Len(recent') : recent'[i].deposits <= deposits
      /\ \A i \in 1 .. Len(recent') : i + 1 \in 1 .. Len(recent) /\ recent'[i] = recent[i + 1]
      /\ \A v \in Nat, b \in Nat : Fresh(v, b) => Fresh(v, b)'
  BY <1>2, FreshCatchUp
<1>4. Queue' = Queue
  BY <1>1 DEF Queue
<1>5. ServiceTyped'
  BY <1>1, <1>2, <1>3, <1>4 DEF ServiceTyped
<1>6. RoleOK'
  BY <1>1, <1>2, <1>3 DEF RoleOK, Waiting
<1>7. \A v \in Nat, r \in Nat : v <= deposits /\ Calm(v, r) => Calm(v, r)'
  <2> SUFFICES ASSUME NEW v \in Nat, NEW r \in Nat, Calm(v, r) PROVE Calm(v, r)'
    OBVIOUS
  <2>1. \A b \in Nat : MaySendLess(v, b)' => MaySendLess(v, b)
    BY <1>1 DEF MaySendLess
  <2> QED BY <1>1, <1>3, <2>1, CalmStays
<1> QED BY <1>1, <1>2, <1>5, <1>6, <1>7, SteadyStep DEF Steady

(* A deposit or an accepted rotation is a block.                           *)
LEMMA BlockStep ==
  ASSUME ServiceInv, ~ byHand, Block, Steady, deposits' \in 0 .. MaxDeposits, deposits <= deposits',
         asp' \in Account, pendingAsp' \in Account \cup {NoOne}, pc' = pc, local' = local,
         failures' = failures, RoleOK', asp' = Key => asp = Key \/ (sent = << >> /\ published = << >>)
  PROVE  ServiceInv'
<1>1. ServiceTyped /\ failures <= MaxFailures /\ MaxDeposits \in Nat
  BY ApproverAssumption DEF ServiceInv
<1>2. associationRoot' \in Root \cup {Unset} /\ deposits' \in Nat /\ deposits \in Nat
  BY <1>1 DEF ServiceTyped, Steady
<1>3. /\ recent' \in Seq(NodeState) /\ Len(recent') \in 1 .. MaxLag + 1
      /\ recent'[Len(recent')].deposits = deposits'
      /\ \A i \in 1 .. Len(recent') : recent'[i].deposits <= deposits'
  BY <1>1, <1>2, FreshBlock
<1>4. Queue' = Queue
  BY DEF Queue, Steady
<1>5. \A k \in 1 .. Len(Queue) : Queue[k] <= deposits'
  <2>1. \A k \in 1 .. Len(Queue) : Queue[k] \in Nat /\ Queue[k] <= deposits
    BY <1>1, QueueTyped
  <2> QED BY <1>2, <2>1
<1>6. local' # Nothing => local' \in Nat /\ local' <= deposits'
  BY <1>1, <1>2 DEF ServiceTyped
<1>7. ServiceTyped'
  BY <1>1, <1>2, <1>3, <1>4, <1>5, <1>6 DEF ServiceTyped, Steady
<1>8. \A v \in Nat, r \in Nat : v <= deposits /\ Calm(v, r) => Calm(v, r)'
  <2> SUFFICES ASSUME NEW v \in Nat, NEW r \in Nat, v <= deposits, Calm(v, r) PROVE Calm(v, r)'
    OBVIOUS
  <2> QED BY <1>1, <1>2, CalmBlock
<1> QED BY <1>1, <1>7, <1>8, SteadyStep

(* Deposits and accepted rotations.                                        *)
LEMMA ChainStep == ASSUME ServiceInv, ~ byHand, Deposit \/ Rotate PROVE ServiceInv'
<1>1. ServiceTyped /\ RoleOK /\ MaxDeposits \in Nat
  BY ApproverAssumption DEF ServiceInv
<1>2. deposits \in Nat
  BY <1>1 DEF ServiceTyped
<1>3. CASE Deposit
  <2>1. Block /\ deposits' = deposits + 1 /\ deposits < MaxDeposits
        /\ UNCHANGED <<byHand, published, sent, associationRoot, asp, pendingAsp, pc, local, failures>>
    BY <1>3 DEF Deposit, registryVars, rootVars, aspVars, serviceVars
  <2>2. deposits' \in 0 .. MaxDeposits /\ deposits <= deposits'
    BY <1>1, <1>2, <2>1
  <2>3. asp' \in Account /\ pendingAsp' \in Account \cup {NoOne}
    BY <1>1, <2>1 DEF ServiceTyped
  <2>4. RoleOK'
    <3>1. CASE asp = Key \/ pendingAsp = NoOne
      BY <2>1, <3>1 DEF RoleOK
    <3>2. CASE asp # Key /\ Waiting
      <4> DEFINE x == At(associationRoot', asp', deposits')
                 all == Append(recent, x)
      <4>1. recent \in Seq(NodeState) /\ x \in NodeState /\ x.asp # Key
        BY <1>1, <1>2, <2>1, <2>2, <3>2 DEF ServiceTyped, NodeState, At
      <4>2. recent' = IF Len(all) > MaxLag + 1 THEN Tail(all) ELSE all
        BY <2>1 DEF Block
      <4>3. \A i \in 1 .. Len(recent) : recent[i].asp # Key
        BY <3>2 DEF Waiting
      <4> HIDE DEF x
      <4>4. all \in Seq(NodeState) /\ Len(all) = Len(recent) + 1 /\ Len(recent) \in Nat
            /\ \A i \in 1 .. Len(all) : all[i].asp # Key
        BY <4>1, <4>3
      <4> HIDE DEF all
      <4>5. \A i \in 1 .. Len(recent') : recent'[i].asp # Key
        <5>1. CASE recent' = all
          BY <4>4, <5>1
        <5>2. CASE recent' = Tail(all)
          <6>1. Len(recent') = Len(recent) /\ \A i \in 1 .. Len(recent') : recent'[i] = all[i + 1]
            BY <4>4, <5>2
          <6>2. \A i \in 1 .. Len(recent') : i + 1 \in 1 .. Len(all)
            BY <4>4, <6>1
          <6> QED BY <4>4, <6>1, <6>2
        <5> QED BY <4>2, <5>1, <5>2
      <4> QED BY <2>1, <3>2, <4>5 DEF RoleOK, Waiting
    <3> QED BY <1>1, <3>1, <3>2 DEF RoleOK
  <2>5. Steady
    BY <2>1 DEF Steady
  <2> QED BY <2>1, <2>2, <2>3, <2>4, <2>5, BlockStep
<1>4. CASE Rotate
  <2>1. Block /\ pendingAsp # NoOne /\ asp' = pendingAsp /\ pendingAsp' = NoOne
        /\ UNCHANGED <<byHand, published, sent, associationRoot, deposits, pc, local, failures>>
    BY <1>4 DEF Rotate, acceptAsp, rootVars, serviceVars
  <2>2. asp' \in Account /\ pendingAsp' \in Account \cup {NoOne} /\ deposits' \in 0 .. MaxDeposits
        /\ deposits <= deposits'
    BY <1>1, <1>2, <2>1 DEF ServiceTyped
  <2>3. asp = Key \/ (sent = << >> /\ published = << >>)
    BY <1>1, <2>1 DEF RoleOK, Waiting
  <2>4. RoleOK' /\ Steady
    BY <2>1 DEF RoleOK, Steady
  <2> QED BY <2>1, <2>2, <2>3, <2>4, BlockStep
<1> QED BY <1>3, <1>4

(* The service sends the set it scanned.                                   *)
LEMMA SendStep ==
  ASSUME MaxLag + MaxFailures < ASSOC_ROOT_HISTORY, ServiceInv, Send
  PROVE  ServiceInv'
<1>1. pc = "reading" /\ local # Nothing /\ (\E i \in DOMAIN recent : recent[i].asp = Key)
      /\ sent' = Append(sent, local) /\ Round("waiting") /\ local' = local /\ failures' = failures
  BY DEF Send, BothRead
<1>2. ~ byHand /\ UNCHANGED <<byHand, published, associationRoot, asp, pendingAsp, deposits, recent>>
      /\ pc' = "waiting"
  BY <1>1 DEF Round, registryVars, rootVars, aspVars
<1>3. ServiceTyped /\ RoleOK /\ failures <= MaxFailures /\ Renewed(published)
      /\ (asp = Key => Renewed(Queue) /\ Active)
  BY <1>2 DEF ServiceInv
<1>4. local \in Nat /\ local <= deposits /\ local \in Root /\ published \in Seq(Root) /\ sent \in Seq(Root)
  BY <1>1, <1>3, ApproverAssumption DEF ServiceTyped
<1>5. Queue' = Append(Queue, local)
  BY <1>1, <1>2, <1>4, Joined DEF Queue
<1>6. \A k \in 1 .. Len(Queue') : Queue'[k] <= deposits
  <2>1. Queue \in Seq(Root) /\ Len(Queue) \in Nat /\ \A k \in 1 .. Len(Queue) : Queue[k] <= deposits
    BY <1>3, QueueTyped
  <2> QED BY <1>4, <1>5, <2>1
<1>7. ServiceTyped'
  BY <1>1, <1>2, <1>3, <1>4, <1>6 DEF ServiceTyped
<1>8. RoleOK'
  <2>1. DOMAIN recent = 1 .. Len(recent)
    BY <1>3 DEF ServiceTyped
  <2>2. asp = Key \/ pendingAsp = NoOne
    BY <1>1, <1>3, <2>1 DEF RoleOK, Waiting
  <2> QED BY <1>2, <2>2 DEF RoleOK
<1>9. asp' = Key => Renewed(Queue)' /\ Active'
  <2> SUFFICES ASSUME asp = Key PROVE Renewed(Queue)' /\ Active'
    BY <1>2
  <2>1. Active' /\ Renewed(Queue')
    BY <1>1, <1>2, <1>3, <1>5, QueueGrows
  <2> QED BY <2>1 DEF Renewed
<1>10. Renewed(published)' /\ failures' <= MaxFailures
  BY <1>1, <1>2, <1>3 DEF Renewed
<1> QED BY <1>7, <1>8, <1>9, <1>10 DEF ServiceInv

(* What is still on its way are sets of deposits on the chain.             *)
LEMMA SentKnown ==
  ASSUME ServiceTyped
  PROVE  \A k \in 1 .. Len(published \o Tail(sent)) : sent # << >> =>
           (published \o Tail(sent))[k] <= deposits
<1>1. published \in Seq(Root) /\ sent \in Seq(Root) /\ \A k \in 1 .. Len(Queue) : Queue[k] <= deposits
  BY DEF ServiceTyped
<1>2. ASSUME sent # << >>, NEW k \in 1 .. Len(published \o Tail(sent))
      PROVE  (published \o Tail(sent))[k] <= deposits
  <2>1. Len(published) \in Nat /\ Len(sent) \in Nat /\ Len(sent) >= 1 /\ Tail(sent) \in Seq(Root)
        /\ Len(Tail(sent)) = Len(sent) - 1 /\ \A i \in 1 .. Len(Tail(sent)) : Tail(sent)[i] = sent[i + 1]
    BY <1>1, <1>2
  <2>2. k \in 1 .. Len(published) + (Len(sent) - 1)
    BY <1>1, <1>2, <2>1
  <2>3. Len(Queue) = Len(published) + Len(sent)
    BY <1>1, Joined DEF Queue
  <2>4. CASE k <= Len(published)
    <3>1. (published \o Tail(sent))[k] = Queue[k]
      BY <1>1, <2>1, <2>2, <2>4 DEF Queue
    <3>2. k \in 1 .. Len(Queue)
      BY <2>1, <2>2, <2>3
    <3> QED BY <1>1, <3>1, <3>2
  <2>5. CASE ~ (k <= Len(published))
    <3>1. (published \o Tail(sent))[k] = Tail(sent)[k - Len(published)]
      BY <1>1, <2>1, <2>2, <2>5
    <3>2. Tail(sent)[k - Len(published)] = sent[k - Len(published) + 1]
      BY <2>1, <2>2, <2>5
    <3>3. Queue[k + 1] = sent[k + 1 - Len(published)]
      BY <1>1, <2>1, <2>2, <2>5 DEF Queue
    <3>4. k + 1 \in 1 .. Len(Queue) /\ k + 1 - Len(published) = k - Len(published) + 1
      BY <2>1, <2>2, <2>3
    <3> QED BY <1>1, <3>1, <3>2, <3>3, <3>4
  <2> QED BY <2>4, <2>5
<1> QED BY <1>2

(* What is published is a beginning of the queue.                          *)
LEMMA RenewedPrefix ==
  ASSUME NEW p \in Seq(Root), NEW s \in Seq(Root), Renewed(p \o s)
  PROVE  Renewed(p)
<1>1. Len(p \o s) = Len(p) + Len(s) /\ Len(p) \in Nat /\ Len(s) \in Nat
      /\ \A k \in 1 .. Len(p) : (p \o s)[k] = p[k]
  BY Joined
<1>2. ASSUME NEW j \in 1 .. Len(p), j + ASSOC_ROOT_HISTORY <= Len(p)
      PROVE  \E k \in j + 1 .. j + ASSOC_ROOT_HISTORY : p[j] <= p[k]
  <2>1. j \in 1 .. Len(p \o s) /\ j + ASSOC_ROOT_HISTORY <= Len(p \o s)
    BY <1>1, <1>2, AssocHistoryAssumption
  <2>2. PICK k \in j + 1 .. j + ASSOC_ROOT_HISTORY : (p \o s)[j] <= (p \o s)[k]
    BY <2>1 DEF Renewed
  <2>3. k \in 1 .. Len(p)
    BY <1>1, <1>2, <2>2, AssocHistoryAssumption
  <2> QED BY <1>1, <2>2, <2>3
<1> QED BY <1>2 DEF Renewed

(* A transaction is mined: its set is published, or it reverts when the    *)
(* ASP is another.                                                         *)
LEMMA MineStep == ASSUME ServiceInv, ~ byHand, Mine PROVE ServiceInv'
<1>1. sent # << >> /\ sent' = Tail(sent) /\ Block
      /\ UNCHANGED <<byHand, asp, pendingAsp, deposits, local, failures>>
      /\ (pc' = pc \/ (pc = "waiting" /\ pc' = "idle"))
  BY DEF Mine, setAssociationRoot, registryVars, aspVars
<1>2. ServiceTyped /\ RoleOK /\ failures <= MaxFailures /\ Renewed(published)
      /\ (asp = Key => Renewed(Queue) /\ Active)
  BY DEF ServiceInv
<1>3. published \in Seq(Root) /\ sent \in Seq(Root) /\ deposits \in Nat /\ deposits' \in Nat
      /\ Head(sent) \in Root /\ Tail(sent) \in Seq(Root) /\ asp' \in Account
  BY <1>1, <1>2, ApproverAssumption DEF ServiceTyped
<1>4. asp = Key \/ pendingAsp = NoOne
  BY <1>1, <1>2 DEF RoleOK, Waiting
<1>5. RoleOK'
  BY <1>1, <1>4 DEF RoleOK
<1>6. ASSUME associationRoot' \in Root \cup {Unset}, published' \in Seq(Root),
             \A k \in 1 .. Len(Queue') : Queue'[k] <= deposits
      PROVE  ServiceTyped'
  <2>1. /\ recent' \in Seq(NodeState) /\ Len(recent') \in 1 .. MaxLag + 1
        /\ recent'[Len(recent')].deposits = deposits'
        /\ \A i \in 1 .. Len(recent') : recent'[i].deposits <= deposits'
    BY <1>1, <1>2, <1>3, <1>6, FreshBlock
  <2> QED BY <1>1, <1>2, <1>3, <1>6, <2>1 DEF ServiceTyped
<1>7. CASE asp = Key
  <2>1. published' = Append(published, Head(sent)) /\ associationRoot' = Head(sent)
    BY <1>7 DEF Mine, setAssociationRoot, publish
  <2>2. Queue' = Queue /\ published' \in Seq(Root)
    BY <1>1, <1>3, <2>1, Joined DEF Queue
  <2>3. ServiceTyped'
    BY <1>2, <1>3, <1>6, <2>1, <2>2 DEF ServiceTyped
  <2>4. \A v \in Nat, r \in Nat : v <= deposits /\ Calm(v, r) => Calm(v, r)'
    <3> SUFFICES ASSUME NEW v \in Nat, NEW r \in Nat, v <= deposits, Calm(v, r) PROVE Calm(v, r)'
      OBVIOUS
    <3> QED BY <1>1, <1>2, <1>3, <2>1, CalmBlock
  <2>5. Active'
    BY <1>2, <1>7, <2>2, <2>4, ActiveKept
  <2>6. Renewed(Queue)'
    BY <1>2, <1>7, <2>2 DEF Renewed
  <2>7. Renewed(published)'
    <3>1. Renewed(published' \o sent')
      BY <1>2, <1>7, <2>2 DEF Queue
    <3>2. Renewed(published')
      BY <1>1, <1>3, <2>2, <3>1, RenewedPrefix
    <3> QED BY <3>2 DEF Renewed
  <2> QED BY <1>1, <1>2, <1>5, <2>3, <2>5, <2>6, <2>7 DEF ServiceInv
<1>8. CASE asp # Key
  <2>1. published' = published /\ associationRoot' = associationRoot
    BY <1>8 DEF Mine, setAssociationRoot, registryVars, rootVars
  <2>2. Queue' = published \o Tail(sent)
    BY <1>1, <2>1 DEF Queue
  <2>3. \A k \in 1 .. Len(Queue') : Queue'[k] <= deposits
    BY <1>1, <1>2, <2>2, SentKnown
  <2>4. ServiceTyped'
    BY <1>2, <1>3, <1>6, <2>1, <2>3 DEF ServiceTyped
  <2>5. Renewed(published)'
    BY <1>2, <2>1 DEF Renewed
  <2> QED BY <1>1, <1>2, <1>5, <1>8, <2>4, <2>5 DEF ServiceInv
<1> QED BY <1>7, <1>8

(* Every step keeps the invariant.                                         *)
LEMMA ServiceStep ==
  ASSUME MaxLag + MaxFailures < ASSOC_ROOT_HISTORY, ServiceInv, [ApproverNext]_approverVars
  PROVE  ServiceInv'
<1>1. CASE byHand
  <2>1. byHand' = byHand
    BY <1>1 DEF ApproverNext, Deposit, CatchUp, Rotate, Wait, PublishByHand, tick, StartTick, ReadRoot,
                localRoot, InSync, NotAsp, Send, Fail, Mine, Round, approverVars
  <2> QED BY <1>1, <2>1 DEF ServiceInv
<1>2. CASE ~ byHand /\ UNCHANGED approverVars
  <2>1. UNCHANGED <<byHand, published, sent, associationRoot, asp, pendingAsp, deposits, recent, pc, local,
                    failures>>
    BY <1>2 DEF approverVars, registryVars, rootVars, aspVars, serviceVars
  <2>2. ServiceTyped /\ RoleOK /\ failures <= MaxFailures
    BY <1>2 DEF ServiceInv
  <2>3. Queue' = Queue
    BY <2>1 DEF Queue
  <2>4. ServiceTyped' /\ RoleOK'
    BY <2>1, <2>2, <2>3 DEF ServiceTyped, RoleOK, Waiting
  <2>5. \A v \in Nat, r \in Nat : v <= deposits /\ Calm(v, r) => Calm(v, r)'
    <3> SUFFICES ASSUME NEW v \in Nat, NEW r \in Nat, Calm(v, r) PROVE Calm(v, r)'
      OBVIOUS
    <3>1. \A b \in Nat : (Fresh(v, b) => Fresh(v, b)') /\ (MaySendLess(v, b)' => MaySendLess(v, b))
      BY <2>1 DEF Fresh, MaySendLess
    <3> QED BY <2>1, <3>1, CalmStays
  <2> QED BY <1>2, <2>1, <2>2, <2>4, <2>5, SteadyStep DEF Steady
<1>3. CASE ~ byHand /\ ApproverNext
  <2>1. CASE Deposit \/ Rotate
    BY <1>3, <2>1, ChainStep
  <2>2. CASE CatchUp
    BY <1>3, <2>2, CatchUpStep
  <2>3. CASE tick
    BY <2>3, ReadsStep, SendStep DEF tick
  <2>4. CASE Fail
    BY <2>4, FailStep
  <2>5. CASE Mine
    BY <1>3, <2>5, MineStep
  <2>6. CASE Wait \/ PublishByHand
    BY <1>3, <2>6 DEF Wait, PublishByHand
  <2> QED BY <1>3, <2>1, <2>2, <2>3, <2>4, <2>5, <2>6 DEF ApproverNext
<1> QED BY <1>1, <1>2, <1>3

(* It holds at first.                                                      *)
LEMMA ServiceInit == ApproverInit => ServiceInv
<1> SUFFICES ASSUME ApproverInit, ~ byHand PROVE ServiceInv
  BY DEF ServiceInv
<1>1. published = << >> /\ sent = << >> /\ associationRoot = Unset /\ asp \in Account
      /\ pendingAsp \in Account \cup {NoOne} /\ deposits = 0 /\ failures = 0 /\ pc = "idle" /\ local = Nothing
      /\ recent = <<At(Unset, asp, 0)>>
  BY DEF ApproverInit, Init
<1>2. At(Unset, asp, 0) \in NodeState /\ At(Unset, asp, 0).deposits = 0 /\ At(Unset, asp, 0).asp = asp
  BY <1>1 DEF At, NodeState
<1>3. Queue = << >> /\ Len(Queue) = 0 /\ 1 .. Len(Queue) = {} /\ 1 .. Len(published) = {}
  BY <1>1 DEF Queue
<1> DEFINE x == At(Unset, asp, 0)
<1>4. recent \in Seq(NodeState) /\ Len(recent) = 1 /\ recent[1].deposits = 0 /\ recent[1].asp = asp
  <2> HIDE DEF x
  <2>1. recent = <<x>> /\ x \in NodeState /\ x.deposits = 0 /\ x.asp = asp
    BY <1>1, <1>2 DEF x
  <2> QED BY <2>1
<1>5. ServiceTyped
  <2>1. MaxDeposits \in Nat /\ MaxLag \in Nat
    BY ApproverAssumption
  <2>2. published \in Seq(Root) /\ sent \in Seq(Root)
    BY <1>1
  <2>3. \A i \in 1 .. Len(recent) : recent[i].deposits <= deposits
    BY <1>1, <1>4
  <2>4. Len(recent) \in 1 .. MaxLag + 1 /\ deposits \in 0 .. MaxDeposits
    BY <1>1, <1>4, <2>1
  <2> QED BY <1>1, <1>3, <1>4, <2>2, <2>3, <2>4 DEF ServiceTyped
<1>6. RoleOK
  <2>1. \A i \in 1 .. Len(recent) : i = 1
    BY <1>4
  <2> QED BY <1>1, <1>4, <2>1 DEF RoleOK, Waiting
<1> QED BY <1>1, <1>3, <1>5, <1>6, ApproverAssumption DEF ServiceInv, Renewed, Active

-----------------------------------------------------------------------------
(* Whoever publishes, the approver's steps are steps of the registry: what *)
(* is sent are roots of sets.                                              *)
Seen == [root : Root \cup {Unset}, asp : Account, deposits : Root]

OnlyRoots ==
  /\ associationRoot \in Root \cup {Unset} /\ asp \in Account /\ pendingAsp \in Account \cup {NoOne}
  /\ deposits \in Root /\ recent \in Seq(Seen) /\ local \in Root \cup {Nothing} /\ sent \in Seq(Root)

(* A block brings a state of the chain.                                    *)
LEMMA BlockSeen ==
  ASSUME recent \in Seq(Seen), Block, associationRoot' \in Root \cup {Unset}, asp' \in Account,
         deposits' \in Root
  PROVE  recent' \in Seq(Seen)
<1>1. PICK x \in Seen : x = At(associationRoot', asp', deposits')
  BY DEF Seen, At
<1> DEFINE all == Append(recent, x)
<1>2. all \in Seq(Seen) /\ Tail(all) \in Seq(Seen)
  <2>1. all \in Seq(Seen) /\ Len(all) = Len(recent) + 1 /\ Len(recent) \in Nat
    OBVIOUS
  <2> HIDE DEF all
  <2> QED BY <2>1
<1>3. recent' \in {recent, all, Tail(all)}
  BY <1>1 DEF Block
<1> QED BY <1>2, <1>3

(* Every step of the approver's model is one of the registry's or leaves   *)
(* it alone.                                                               *)
LEMMA ApproverIsRegistry ==
  ASSUME OnlyRoots, [ApproverNext]_approverVars
  PROVE  OnlyRoots' /\ [RegistryNext]_registryVars
<1> USE DEF OnlyRoots
<1>1. CASE UNCHANGED approverVars
  BY <1>1 DEF approverVars, registryVars, rootVars, aspVars, serviceVars
<1>2. CASE Deposit
  <2>1. UNCHANGED registryVars /\ UNCHANGED <<local, sent>> /\ Block /\ deposits' = deposits + 1
        /\ deposits < MaxDeposits
    BY <1>2 DEF Deposit, serviceVars
  <2>2. UNCHANGED <<associationRoot, asp, pendingAsp>>
    BY <2>1 DEF registryVars, rootVars, aspVars
  <2>3. deposits' \in Root
    BY <2>1, ApproverAssumption
  <2>4. recent' \in Seq(Seen)
    BY <2>1, <2>2, <2>3, BlockSeen
  <2> QED BY <2>1, <2>2, <2>3, <2>4
<1>3. CASE CatchUp
  <2>1. UNCHANGED registryVars /\ UNCHANGED <<local, sent, deposits>> /\ recent' = Tail(recent) /\ recent # << >>
    BY <1>3 DEF CatchUp, serviceVars
  <2>2. UNCHANGED <<associationRoot, asp, pendingAsp>>
    BY <2>1 DEF registryVars, rootVars, aspVars
  <2>3. recent' \in Seq(Seen)
    BY <2>1
  <2> QED BY <2>1, <2>2, <2>3
<1>4. CASE Rotate
  <2>1. UNCHANGED <<deposits, local, sent>> /\ Block
        /\ (acceptAsp \/ \E newAsp \in Account : proposeAsp(newAsp))
    BY <1>4 DEF Rotate, serviceVars
  <2>2. associationRoot' = associationRoot /\ asp' \in Account /\ pendingAsp' \in Account \cup {NoOne}
    BY <2>1 DEF acceptAsp, proposeAsp, rootVars
  <2>3. recent' \in Seq(Seen)
    BY <2>1, <2>2, BlockSeen
  <2>4. RegistryNext
    BY <2>1 DEF RegistryNext
  <2> QED BY <2>1, <2>2, <2>3, <2>4
<1>5. CASE Wait
  <2>1. UNCHANGED <<deposits, recent, local, sent>> /\ Tick
    BY <1>5 DEF Wait, serviceVars
  <2>2. UNCHANGED <<associationRoot, asp, pendingAsp>> /\ RegistryNext
    BY <2>1 DEF Tick, rootVars, aspVars, RegistryNext
  <2> QED BY <2>1, <2>2
<1>6. CASE PublishByHand
  <2>1. PICK caller \in Account, newRoot \in Root \cup {Unset} : setAssociationRoot(caller, newRoot)
    BY <1>6 DEF PublishByHand
  <2>2. UNCHANGED <<deposits, local, sent>> /\ Block
    BY <1>6 DEF PublishByHand, serviceVars
  <2>3. associationRoot' = newRoot /\ UNCHANGED <<asp, pendingAsp>> /\ RegistryNext
    BY <2>1 DEF setAssociationRoot, publish, aspVars, RegistryNext
  <2>4. recent' \in Seq(Seen)
    BY <2>2, <2>3, BlockSeen
  <2> QED BY <2>2, <2>3, <2>4
<1>7. CASE tick \/ Fail
  <2>1. UNCHANGED registryVars /\ UNCHANGED <<deposits, recent>>
    BY <1>7 DEF tick, StartTick, ReadRoot, localRoot, InSync, NotAsp, Send, Fail, Round
  <2>2. UNCHANGED <<associationRoot, asp, pendingAsp>>
    BY <2>1 DEF registryVars, rootVars, aspVars
  <2>3. local' \in Root \cup {Nothing}
    <3>1. CASE localRoot
      <4>1. PICK i \in DOMAIN recent : local' = recent[i].deposits
        BY <3>1 DEF localRoot, Scanned
      <4>2. recent[i] \in Seen
        BY <4>1
      <4> QED BY <4>1, <4>2 DEF Seen
    <3>2. CASE local' = local \/ local' = Nothing
      BY <3>2
    <3> QED BY <1>7, <3>1, <3>2 DEF tick, StartTick, ReadRoot, InSync, NotAsp, Send, Fail
  <2>4. sent' \in Seq(Root)
    <3>1. CASE Send
      <4>1. sent' = Append(sent, local) /\ local \in Root
        BY <3>1 DEF Send, BothRead
      <4> QED BY <4>1
    <3>2. CASE sent' = sent
      BY <3>2
    <3> QED BY <1>7, <3>1, <3>2 DEF tick, StartTick, ReadRoot, localRoot, InSync, NotAsp, Fail
  <2> QED BY <2>1, <2>2, <2>3, <2>4
<1>8. CASE Mine
  <2>1. UNCHANGED <<deposits, local>> /\ Block /\ sent # << >> /\ sent' = Tail(sent)
    BY <1>8 DEF Mine
  <2>2. Head(sent) \in Root /\ sent' \in Seq(Root)
    BY <2>1
  <2>3. CASE asp = Key
    <3>1. setAssociationRoot(Key, Head(sent))
      BY <1>8, <2>3 DEF Mine
    <3>2. associationRoot' \in Root \cup {Unset} /\ UNCHANGED <<asp, pendingAsp>>
      BY <2>2, <3>1 DEF setAssociationRoot, publish, aspVars
    <3>3. RegistryNext
      BY <2>2, <3>1, ApproverAssumption DEF RegistryNext
    <3>4. recent' \in Seq(Seen)
      BY <2>1, <3>2, BlockSeen
    <3> QED BY <2>1, <2>2, <3>2, <3>3, <3>4
  <2>4. CASE asp # Key
    <3>1. UNCHANGED registryVars
      BY <1>8, <2>4 DEF Mine, setAssociationRoot
    <3>2. UNCHANGED <<associationRoot, asp, pendingAsp>>
      BY <3>1 DEF registryVars, rootVars, aspVars
    <3>3. recent' \in Seq(Seen)
      BY <2>1, <3>2, BlockSeen
    <3> QED BY <2>1, <2>2, <3>1, <3>2, <3>3
  <2> QED BY <2>3, <2>4
<1> QED BY <1>1, <1>2, <1>3, <1>4, <1>5, <1>6, <1>7, <1>8 DEF ApproverNext

(* The types, and the times announced, at first.                           *)
LEMMA OnlyRootsInit ==
  ASSUME ApproverInit PROVE OnlyRoots /\ RotationTypeOK /\ PendingMatchesAnnouncement
<1>1. sent = << >> /\ associationRoot = Unset /\ asp \in Account /\ local = Nothing
      /\ pendingAsp \in Account \cup {NoOne} /\ deposits = 0 /\ recent = <<At(Unset, asp, 0)>>
      /\ pendingAspTime \in {0, ASP_TIMELOCK} /\ now \in {0, ASP_TIMELOCK}
      /\ (pendingAsp # NoOne => pendingAspTime = ASP_TIMELOCK)
      /\ announcedAt = [a \in Account |-> 0]
  BY DEF ApproverInit, Init
<1>2. 0 \in Root
  BY ApproverAssumption
<1>3. PICK x \in Seen : x = At(Unset, asp, 0)
  BY <1>1, <1>2 DEF At, Seen
<1>4. recent \in Seq(Seen)
  BY <1>1, <1>3
<1> QED BY <1>1, <1>2, <1>4 DEF OnlyRoots, RotationTypeOK, PendingMatchesAnnouncement

-----------------------------------------------------------------------------
(* The theorems, for Offchain, where the other loops leave all this alone. *)
LEMMA OffchainSteps ==
  /\ OffchainInit => ApproverInit
  /\ [OffchainNext]_offchainVars => [ApproverNext]_approverVars
BY DEF OffchainInit, OffchainNext, offchainVars

(* And always.                                                             *)
LEMMA OffchainRegistry ==
  OffchainSpec => [](OnlyRoots /\ RotationTypeOK /\ PendingMatchesAnnouncement)
                    /\ [][RegistryNext]_registryVars
<1>1. OffchainInit => OnlyRoots /\ RotationTypeOK /\ PendingMatchesAnnouncement
  BY OffchainSteps, OnlyRootsInit
<1>2. OnlyRoots /\ RotationTypeOK /\ PendingMatchesAnnouncement /\ [OffchainNext]_offchainVars
        => OnlyRoots' /\ RotationTypeOK' /\ PendingMatchesAnnouncement' /\ [RegistryNext]_registryVars
  BY OffchainSteps, ApproverIsRegistry, RotationStep
<1> QED BY <1>1, <1>2, PTL DEF OffchainSpec

(* Whoever publishes, and whatever rotations are proposed meanwhile, the   *)
(* contract accepts exactly the recent roots (isKnownAssociationRoot).     *)
THEOREM AcceptedWithService == OffchainSpec => []AcceptedRootsAreRecent
<1>1. OffchainInit => Init
  BY DEF OffchainInit, ApproverInit
<1>2. [RegistryNext]_registryVars => [Next]_rootVars
  BY DEF RegistryNext, Next, setAssociationRoot, proposeAsp, acceptAsp, Tick, registryVars
<1>3. OffchainSpec => Spec
  BY <1>1, <1>2, OffchainRegistry, PTL DEF OffchainSpec, Spec
<1> QED BY <1>3, AcceptedCorrect, PTL

(* No account becomes ASP less than ASP_TIMELOCK after its latest proposal,*)
(* with the service at work or without.                                    *)
THEOREM RotationWithService == OffchainSpec => RotationIsAnnounced
<1>1. RotationTypeOK /\ PendingMatchesAnnouncement /\ [RegistryNext]_registryVars
        => [asp' # asp => now - announcedAt[asp'] >= ASP_TIMELOCK]_registryVars
  BY RotationStep
<1> QED BY <1>1, OffchainRegistry, PTL DEF RotationIsAnnounced

(* What was published and what the contract accepts: of the sets that      *)
(* cover an approved deposit the one published last is recent.             *)
LEMMA RenewedIsSpendable ==
  ASSUME ServiceInv, AcceptedRootsAreRecent PROVE ApprovedStaysSpendable
<1> SUFFICES ASSUME ~ byHand, NEW j \in DOMAIN published
             PROVE  \E r \in Root : isKnownAssociationRoot(r) /\ r >= published[j]
  BY DEF ApprovedStaysSpendable
<1>1. published \in Seq(Root) /\ Renewed(published) /\ Len(published) \in Nat /\ j \in 1 .. Len(published)
      /\ ASSOC_ROOT_HISTORY \in Nat \ {0}
  BY AssocHistoryAssumption DEF ServiceInv, ServiceTyped
<1>2. \A k \in 1 .. Len(published) : published[k] \in Root /\ published[k] \in Nat
  BY <1>1, ApproverAssumption
<1> DEFINE S == {k \in 1 .. Len(published) : published[j] <= published[k]}
           m == Max(S)
<1>3. m \in S /\ \A k \in S : k <= m
  <2>1. S \subseteq 1 .. Len(published) /\ S \subseteq Int /\ j \in S
    BY <1>1, <1>2
  <2> HIDE DEF S
  <2>2. IsFiniteSet(S)
    <3>1. IsFiniteSet(1 .. Len(published))
      BY <1>1, FS_Interval
    <3> QED BY <2>1, <3>1, FS_Subset
  <2> QED BY <2>1, <2>2, MaxOfFinite
<1> HIDE DEF m
<1>4. Len(published) - m < ASSOC_ROOT_HISTORY
  <2> SUFFICES ASSUME m + ASSOC_ROOT_HISTORY <= Len(published) PROVE FALSE
    BY <1>1, <1>3
  <2>1. PICK k \in m + 1 .. m + ASSOC_ROOT_HISTORY : published[m] <= published[k]
    BY <1>1, <1>3 DEF Renewed
  <2>2. k \in 1 .. Len(published) /\ m \in 1 .. Len(published) /\ k > m
    BY <1>1, <1>3, <2>1
  <2>3. published[j] <= published[k]
    BY <1>1, <1>2, <1>3, <2>1, <2>2
  <2> QED BY <1>3, <2>2, <2>3
<1>5. published[m] \in Root /\ published[m] # Unset /\ m \in 1 .. Len(published)
  BY <1>2, <1>3, ApproverAssumption
<1>6. isKnownAssociationRoot(published[m])
  BY <1>4, <1>5 DEF AcceptedRootsAreRecent
<1> QED BY <1>1, <1>2, <1>3, <1>5, <1>6

(* A deposit approved once can be spent for good, whatever the nodes' lag, *)
(* the rounds that fail and the ASP's rotation, when the ring of roots is  *)
(* longer than the blocks a node lags and the rounds that fail together.   *)
THEOREM ApprovedStaysCorrect ==
  ASSUME MaxLag + MaxFailures < ASSOC_ROOT_HISTORY
  PROVE  OffchainSpec => []ApprovedStaysSpendable
<1>1. OffchainInit => ServiceInv
  BY OffchainSteps, ServiceInit
<1>2. ServiceInv /\ [OffchainNext]_offchainVars => ServiceInv'
  BY OffchainSteps, ServiceStep
<1>3. ServiceInv /\ AcceptedRootsAreRecent => ApprovedStaysSpendable
  BY RenewedIsSpendable
<1> QED BY <1>1, <1>2, <1>3, AcceptedWithService, PTL DEF OffchainSpec
=============================================================================
