------------------------------ MODULE AspApprover ------------------------------
(***************************************************************************)
(* The service that approves deposits (asp/src/approver.ts), with the pool *)
(* contract it publishes to. Each round it reads the current association   *)
(* root and scans all deposits, at the same time and from nodes that may   *)
(* lag behind the chain, and publishes the scanned set when the roots      *)
(* differ. The set of the first n deposits has the root n; the contract    *)
(* starts with Unset, which is no set's root.                              *)
(*                                                                         *)
(* A behaviour has either this service publishing or, byHand, an ASP that  *)
(* publishes what it likes (setAssociationRoot of AspRegistry).            *)
(*                                                                         *)
(* Operators Name_Fault are faults that the README lists.                  *)
(***************************************************************************)
EXTENDS AspRegistry, SequencesExt

CONSTANTS
  Key,            \* the account of ASP_PRIVATE_KEY
  Nothing,        \* not read yet
  MaxDeposits, MaxLag,
  MaxFailures,    \* bounds: deposits, blocks a node lags, failed rounds
  MaxByHand       \* bound: publications by hand

ASSUME ApproverAssumption ==
  /\ Key \in Account /\ Root = 0..MaxDeposits /\ Unset \notin Root
  /\ MaxDeposits \in Nat /\ MaxLag \in Nat /\ MaxFailures \in Nat

VARIABLES
  deposits,       \* Deposit events on the chain
  recent,         \* the chain's latest states, which a node may be at
  pc, onchain, local,
  sent,           \* transactions sent and not mined, in order of their nonces
  failures, byHand

serviceVars == <<pc, onchain, local, failures>>
approverVars == <<registryVars, deposits, recent, serviceVars, sent, byHand>>

At(root, a, n) == [root |-> root, asp |-> a, deposits |-> n]

(* The service starts with a rotation of its role announced, or none: the  *)
(* owner may let it take effect at any time. By hand, rotations are        *)
(* proposed and accepted as time passes.                                   *)
ApproverInit ==
  /\ Init /\ byHand \in BOOLEAN /\ asp \in Account
  /\ IF byHand THEN pendingAsp = NoOne /\ pendingAspTime = 0 /\ now = 0
     ELSE pendingAsp \in Account \cup {NoOne} /\ pendingAspTime = ASP_TIMELOCK /\ now = ASP_TIMELOCK
  /\ announcedAt = [a \in Account |-> 0]
  /\ deposits = 0 /\ recent = <<At(associationRoot, asp, deposits)>>
  /\ pc = "idle" /\ onchain = Nothing /\ local = Nothing
  /\ sent = <<>> /\ failures = 0

(* A block: the nodes lag behind it by at most MaxLag. Nobody reads from   *)
(* them when the ASP publishes by hand.                                    *)
Block ==
  LET all == Append(recent, At(associationRoot', asp', deposits'))
  IN recent' = IF byHand THEN recent ELSE IF Len(all) > MaxLag + 1 THEN Tail(all) ELSE all

CatchUp ==
  /\ Len(recent) > 1 /\ recent' = Tail(recent)
  /\ UNCHANGED <<registryVars, deposits, serviceVars, sent, byHand>>

Deposit ==
  /\ ~byHand /\ deposits < MaxDeposits
  /\ deposits' = deposits + 1
  /\ UNCHANGED <<registryVars, serviceVars, sent, byHand>> /\ Block

Rotate ==
  /\ acceptAsp \/ (byHand /\ \E newAsp \in Account : proposeAsp(newAsp))
  /\ UNCHANGED <<deposits, serviceVars, sent, byHand>> /\ Block
Wait ==
  /\ byHand /\ Tick /\ UNCHANGED <<deposits, recent, serviceVars, sent, byHand>>

PublishByHand ==
  /\ byHand /\ Len(published) < MaxByHand
  /\ \E caller \in Account, newRoot \in Root \cup {Unset} : setAssociationRoot(caller, newRoot)
  /\ UNCHANGED <<deposits, serviceVars, sent, byHand>> /\ Block

-----------------------------------------------------------------------------
(* A round of the service.                                                 *)
Round(next) == ~byHand /\ pc' = next /\ UNCHANGED <<registryVars, deposits, recent, byHand>>

StartTick ==
  /\ pc = "idle" /\ Round("reading")
  /\ onchain' = Nothing /\ local' = Nothing /\ UNCHANGED <<sent, failures>>
ReadRoot ==
  /\ pc = "reading" /\ onchain = Nothing /\ Round("reading")
  /\ \E i \in DOMAIN recent : onchain' = recent[i].root
  /\ UNCHANGED <<local, sent, failures>>
(* The sets a scan of n deposits may end with: a window that fails is      *)
(* tried again, halved, and the scan throws when that does not help.       *)
Scanned_WindowSkipped(n) == 0..n
Scanned(n) == {n}
localRoot ==
  /\ pc = "reading" /\ local = Nothing /\ Round("reading")
  /\ \E i \in DOMAIN recent : local' \in Scanned(recent[i].deposits)
  /\ UNCHANGED <<onchain, sent, failures>>

BothRead == pc = "reading" /\ onchain # Nothing /\ local # Nothing
InSync ==
  /\ BothRead /\ onchain = local /\ Round("idle")
  /\ UNCHANGED <<onchain, local, sent, failures>>
NotAsp ==
  /\ BothRead /\ onchain # local /\ (\E i \in DOMAIN recent : recent[i].asp # Key)
  /\ Round("idle") /\ UNCHANGED <<onchain, local, sent, failures>>
Send ==
  /\ BothRead /\ onchain # local /\ (\E i \in DOMAIN recent : recent[i].asp = Key)
  /\ sent' = Append(sent, local)
  /\ Round("waiting") /\ UNCHANGED <<onchain, local, failures>>

(* A read that fails, or a receipt that does not come in time, ends the    *)
(* round; the transaction may still be mined.                              *)
AfterFailure_Gone == "gone"
AfterFailure == "idle"
Fail ==
  /\ pc \in {"reading", "waiting"} /\ failures < MaxFailures
  /\ failures' = failures + 1
  /\ Round(AfterFailure) /\ UNCHANGED <<onchain, local, sent>>

(* The next transaction is mined; it reverts when the role has moved on.   *)
Mine ==
  /\ sent # <<>> /\ sent' = Tail(sent)
  /\ \/ asp = Key /\ setAssociationRoot(Key, Head(sent))
     \/ asp # Key /\ UNCHANGED registryVars
  /\ pc' = IF pc = "waiting" /\ Len(sent) = 1 THEN "idle" ELSE pc
  /\ UNCHANGED <<deposits, onchain, local, failures, byHand>> /\ Block

tick == StartTick \/ ReadRoot \/ localRoot \/ InSync \/ NotAsp \/ Send
ApproverNext ==
  \/ Deposit \/ CatchUp \/ Rotate \/ Wait \/ PublishByHand \/ tick \/ Fail \/ Mine

-----------------------------------------------------------------------------
(* A deposit approved once can be spent for good: some root the contract   *)
(* accepts covers it, even after a round that read the root from one node  *)
(* and the deposits from one lagging behind has published an older set.    *)
ApprovedStaysSpendable ==
  ~byHand =>
    \A k \in DOMAIN published :
      \E r \in Root : isKnownAssociationRoot(r) /\ r >= published[k]

(* Every deposit is approved in the end, whatever rounds fail and nodes    *)
(* lag, as long as the service's account is the ASP.                       *)
EventuallyApproved ==
  \A n \in 1..MaxDeposits :
    (~byHand /\ deposits >= n) ~> (asp # Key \/ associationRoot \in n..MaxDeposits)

(* The comment at the head of approver.ts: its set is complete, so it      *)
(* never publishes an empty root.                                          *)
NeverEmpty == ~byHand => \A k \in DOMAIN published : published[k] # 0
=============================================================================
