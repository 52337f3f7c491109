---------------------------- MODULE AspRegistry ----------------------------
(***************************************************************************)
(* Who may publish association roots (src/Sherwood.sol): the ASP, and its  *)
(* time-locked replacement by the owner.                                   *)
(***************************************************************************)
EXTENDS AssociationRoots

CONSTANTS
  Account,              \* who may be ASP or call as one
  NoOne,                \* address(0)
  ASP_TIMELOCK,         \* delay of an ASP rotation (2 days)
  MaxTime               \* bound: the clock stops here

ASSUME TimelockAssumption == ASP_TIMELOCK \in Nat
ASSUME NoOneAssumption == NoOne \notin Account
ASSUME MaxTimeAssumption == MaxTime \in Nat

VARIABLES
  asp, pendingAsp, pendingAspTime,
  now,                  \* block.timestamp
  announcedAt           \* auxiliary: when each account was last proposed (event AspProposed)

aspVars  == <<asp, pendingAsp, pendingAspTime, announcedAt>>
registryVars == <<rootVars, aspVars, now>>

RegistryInit ==
  /\ Init
  /\ asp \in Account
  /\ pendingAsp = NoOne
  /\ pendingAspTime = 0
  /\ now = 0
  /\ announcedAt = [a \in Account |-> 0]

setAssociationRoot(caller, newRoot) ==
  /\ caller = asp
  /\ publish(newRoot)
  /\ UNCHANGED <<aspVars, now>>

EffectiveTime_FirstProposal ==
  IF pendingAsp = NoOne THEN now + ASP_TIMELOCK ELSE pendingAspTime

EffectiveTime == now + ASP_TIMELOCK

(* The owner proposes; proposing again replaces the pending ASP and starts *)
(* the clock anew.                                                         *)
proposeAsp(newAsp) ==
  /\ newAsp # NoOne
  /\ pendingAsp' = newAsp
  /\ pendingAspTime' = EffectiveTime
  /\ announcedAt' = [announcedAt EXCEPT ![newAsp] = now]
  /\ UNCHANGED <<rootVars, asp, now>>

acceptAsp ==
  /\ pendingAsp # NoOne
  /\ now >= pendingAspTime
  /\ asp' = pendingAsp
  /\ pendingAsp' = NoOne
  /\ UNCHANGED <<rootVars, pendingAspTime, announcedAt, now>>

(* Time passes between blocks.                                             *)
Tick ==
  /\ now < MaxTime
  /\ now' = now + 1
  /\ UNCHANGED <<rootVars, aspVars>>

RegistryNext ==
  \/ \E caller \in Account, newRoot \in Root \cup {Unset} :
       setAssociationRoot(caller, newRoot)
  \/ \E newAsp \in Account : proposeAsp(newAsp)
  \/ acceptAsp
  \/ Tick

RegistrySpec == RegistryInit /\ [][RegistryNext]_registryVars

-----------------------------------------------------------------------------
RegistryTypeOK ==
  /\ TypeOK
  /\ asp \in Account
  /\ pendingAsp \in Account \cup {NoOne}
  /\ pendingAspTime \in Nat
  /\ now \in Nat
  /\ announcedAt \in [Account -> Nat]

(* Users always have ASP_TIMELOCK to react: an account becomes ASP only if *)
(* its latest proposal is at least that old, whatever was proposed before  *)
(* and however often (src/Sherwood.sol:189-190).                           *)
RotationIsAnnounced ==
  [][asp' # asp => now - announcedAt[asp'] >= ASP_TIMELOCK]_registryVars
=============================================================================
