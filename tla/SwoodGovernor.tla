---------------------------- MODULE SwoodGovernor ---------------------------
(***************************************************************************)
(* Signaling governance (src/SwoodGovernor.sol): proposals and votes       *)
(* weighted by the stake the voter has in SwoodStaking at that moment.     *)
(* Operators Name_Fault are faults that the README lists.                  *)
(***************************************************************************)
EXTENDS SwoodStaking, SequencesExt

CONSTANTS
  votingPeriod, proposalThreshold,
  MaxProposals                          \* bound

ASSUME GovernorAssumption == {votingPeriod, proposalThreshold, MaxProposals} \subseteq Nat

VARIABLES
  proposals,     \* end, forVotes and againstVotes of each
  voteOf,        \* voteOf[id][u]: none, for or against
  mostStaked     \* auxiliary: the most that u has had staked at a time while id was open

governance == <<proposals, voteOf, mostStaked>>

GovernorInit == Init /\ proposals = << >> /\ voteOf = << >> /\ mostStaked = << >>

propose(u) ==
  /\ Len(proposals) < MaxProposals
  /\ staked[u] >= proposalThreshold
  /\ proposals' = Append(proposals, [end |-> now + votingPeriod, forVotes |-> 0, againstVotes |-> 0])
  /\ voteOf' = Append(voteOf, [v \in User |-> "none"])
  /\ mostStaked' = Append(mostStaked, staked)
  /\ UNCHANGED vars

isActive_Always(id) == TRUE
isActive(id) == now < proposals[id].end

NotVoted_OtherSide(id, u, choice) == voteOf[id][u] # choice
NotVoted(id, u, choice) == voteOf[id][u] = "none"

Counted_Net(proposal, choice, weight) ==
  IF choice = "for" THEN [proposal EXCEPT !.forVotes = @ + weight]
  ELSE [proposal EXCEPT !.forVotes = @ - weight]
Counted(proposal, choice, weight) ==
  IF choice = "for" THEN [proposal EXCEPT !.forVotes = @ + weight]
  ELSE [proposal EXCEPT !.againstVotes = @ + weight]

vote(u, id, choice) ==
  /\ isActive(id) /\ NotVoted(id, u, choice) /\ staked[u] > 0
  /\ voteOf' = [voteOf EXCEPT ![id][u] = choice]
  /\ proposals' = [proposals EXCEPT ![id] = Counted(@, choice, staked[u])]
  /\ UNCHANGED <<vars, mostStaked>>

(* The staking token may change hands.                                     *)
transfer(from, to, amount) ==
  /\ from # to /\ amount <= wallet[from]
  /\ wallet' = [wallet EXCEPT ![from] = @ - amount, ![to] = @ + amount]
  /\ UNCHANGED <<now, staked, totalStaked, stream, accounts, balance, notices, governance>>

(* A step of the staking contract, which knows nothing of votes.           *)
Higher(a, b) == IF a < b THEN b ELSE a
StakingStep ==
  /\ Next /\ UNCHANGED <<proposals, voteOf>>
  /\ mostStaked' = [id \in DOMAIN mostStaked |->
       IF now < proposals[id].end THEN [u \in User |-> Higher(mostStaked[id][u], staked'[u])]
       ELSE mostStaked[id]]

GovernorNext ==
  \/ StakingStep
  \/ \E u \in User : propose(u)
  \/ \E u \in User, id \in DOMAIN proposals, choice \in {"for", "against"} : vote(u, id, choice)
  \/ \E from, to \in User, amount \in Amount : transfer(from, to, amount)

GovernorSpec == GovernorInit /\ [][GovernorNext]_<<vars, governance>>

-----------------------------------------------------------------------------
GovernorTypeOK ==
  /\ proposals \in Seq([end : Nat, forVotes : Nat, againstVotes : Nat])
  /\ voteOf \in Seq([User -> {"none", "for", "against"}])
  /\ mostStaked \in Seq([User -> Nat])
  /\ Len(voteOf) = Len(proposals) /\ Len(mostStaked) = Len(proposals)

(* "One vote per address" (src/SwoodGovernor.sol:55): a tally only moves   *)
(* for someone who has not voted on it.                                    *)
NoSecondVote ==
  [][\A id \in DOMAIN proposals :
       proposals'[id] # proposals[id] =>
         \E u \in User : voteOf[id][u] = "none" /\ voteOf'[id][u] # "none"]_governance

Tally(id) == proposals[id].forVotes + proposals[id].againstVotes

(* "votes weighted by a holder's STAKED $SWOOD" (src/SwoodGovernor.sol:9), *)
(* "One vote per address" (line 55), while a proposal is open: although    *)
(* weights are read as votes come in and stakes come and go in between, a  *)
(* tally is never above what those who voted have each had staked, at one  *)
(* time, while the proposal was open.                                      *)
MostOfVoters(id) == [u \in User |-> IF voteOf[id][u] = "none" THEN 0 ELSE mostStaked[id][u]]
TallyWasStaked == \A id \in DOMAIN proposals : Tally(id) <= SumOver(MostOfVoters(id))

(* Votes are "weighted by a holder's STAKED $SWOOD (skin in the game)"     *)
(* (src/SwoodGovernor.sol:9-10): no tally exceeds the tokens there are.    *)
VotesAreBacked == \A id \in DOMAIN proposals : Tally(id) <= SumOver(Supply)
=============================================================================
