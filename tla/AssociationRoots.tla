------------------------- MODULE AssociationRoots -------------------------
(***************************************************************************)
(* The association roots of the pool contract (src/Sherwood.sol): the root *)
(* the Association-Set Provider (ASP) published last and a ring of recent  *)
(* ones, against any of which a spend may be proved.                       *)
(***************************************************************************)
EXTENDS Integers, Sequences

CONSTANTS
  Root,                 \* association roots that may be published
  Unset,                \* the root 0: nothing approved
  ASSOC_ROOT_HISTORY,   \* slots of the ring of approved roots (64)
  MaxPublished          \* bound: publications in a behaviour

ASSUME AssocHistoryAssumption == ASSOC_ROOT_HISTORY \in Nat \ {0}
ASSUME MaxPublishedAssumption == MaxPublished \in Nat

VARIABLES
  associationRoot,      \* the current root
  associationRoots,     \* the ring
  assocRootIndex,       \* slot the next publication writes
  published             \* auxiliary: every root published, in order

rootVars == <<associationRoot, associationRoots, assocRootIndex, published>>

Slot == 0 .. ASSOC_ROOT_HISTORY - 1

Init ==
  /\ associationRoot = Unset
  /\ associationRoots = [s \in Slot |-> Unset]
  /\ assocRootIndex = 0
  /\ published = << >>

NextSlot_OneShort(s) == (s + 1) % (ASSOC_ROOT_HISTORY - 1)

NextSlot_NoWrap(s) == s + 1

NextSlot(s) == (s + 1) % ASSOC_ROOT_HISTORY

(* setAssociationRoot, once the caller is known to be the ASP.             *)
publish(newRoot) ==
  /\ Len(published) < MaxPublished
  /\ associationRoot' = newRoot
  /\ associationRoots' = [associationRoots EXCEPT ![assocRootIndex] = newRoot]
  /\ assocRootIndex' = NextSlot(assocRootIndex)
  /\ published' = Append(published, newRoot)

Searched_CurrentOnly == {}

Searched == Slot

isKnownAssociationRoot(root) ==
  /\ root # Unset
  /\ root = associationRoot \/ \E s \in Searched : associationRoots[s] = root

(* The ASP may publish any root, 0 included.                               *)
Next == \E newRoot \in Root \cup {Unset} : publish(newRoot)

Spec == Init /\ [][Next]_rootVars

-----------------------------------------------------------------------------
TypeOK ==
  /\ associationRoot \in Root \cup {Unset}
  /\ associationRoots \in [Slot -> Root \cup {Unset}]
  /\ assocRootIndex \in Slot
  /\ published \in Seq(Root \cup {Unset})

(* isKnownAssociationRoot accepts exactly the last ASSOC_ROOT_HISTORY      *)
(* publications: a rotation of the root never invalidates a proof made     *)
(* against a recent one (src/Sherwood.sol:72-73), a root published longer  *)
(* ago is refused, and so is the 0 of a slot never written.                *)
AcceptedRootsAreRecent ==
  \A r \in Root \cup {Unset} :
    isKnownAssociationRoot(r)
      <=> \E k \in 1 .. Len(published) :
            /\ published[k] = r
            /\ r # Unset
            /\ Len(published) - k < ASSOC_ROOT_HISTORY

(* Slot of the publication made a publications ago.                        *)
SlotOfAge(a) ==
  IF a < assocRootIndex THEN assocRootIndex - 1 - a
                        ELSE assocRootIndex - 1 - a + ASSOC_ROOT_HISTORY

(* The ring of association roots is a shift register of the newest ones.   *)
Register == INSTANCE RootRegister
              WITH Size     <- ASSOC_ROOT_HISTORY,
                   register <- [a \in Slot |-> associationRoots[SlotOfAge(a)]]

ImplementsRootRegister == Register!Spec
=============================================================================
