---------------------------- MODULE SwoodStaking ----------------------------
(***************************************************************************)
(* The staking contract (src/SwoodStaking.sol): a reward is streamed over  *)
(* a period to stakers in proportion to their stakes. What a staker earned *)
(* is computed lazily, in integers scaled by SCALE, from a running reward  *)
(* per staked token; every operation of a staker first settles its own     *)
(* account (updateReward). Staking and reward token differ.                *)
(*                                                                         *)
(* Operators Name_Fault are faults that the README lists.                  *)
(***************************************************************************)
EXTENDS Integers, FiniteSetsExt

CONSTANTS
  User,
  Supply,        \* Supply[u]: staking tokens u starts with
  SCALE,         \* 1e18 in the contract
  Amount,        \* stakes and withdrawals
  Reward,        \* amounts the treasury streams
  Duration,      \* durations the treasury sets
  MaxTime, MaxNotices    \* bounds: the clock, calls of notifyRewardAmount

ASSUME StakingAssumption ==
  /\ IsFiniteSet(User) /\ Supply \in [User -> Nat]
  /\ SCALE \in Nat \ {0}
  /\ Amount \subseteq Nat \ {0} /\ Reward \subseteq Nat /\ Duration \subseteq Nat
  /\ MaxTime \in Nat /\ MaxNotices \in Nat

VARIABLES
  now, wallet,                          \* block.timestamp; staking tokens held
  staked, totalStaked,
  rewardRate, rewardsDuration, periodFinish, lastUpdateTime,
  rewardPerTokenStored, userRewardPerTokenPaid, rewards,
  balance,                              \* the contract's staking and reward tokens
  notices                               \* calls of notifyRewardAmount so far

stream == <<rewardRate, rewardsDuration, periodFinish>>
accounts == <<rewardPerTokenStored, lastUpdateTime, userRewardPerTokenPaid, rewards>>
stakes == <<wallet, staked, totalStaked>>
vars == <<now, stakes, stream, accounts, balance, notices>>

Zero == [u \in User |-> 0]

Init ==
  /\ now = 0 /\ wallet = Supply
  /\ staked = Zero /\ totalStaked = 0
  /\ rewardRate = 0 /\ rewardsDuration \in Duration \ {0}
  /\ periodFinish = 0 /\ lastUpdateTime = 0
  /\ rewardPerTokenStored = 0 /\ userRewardPerTokenPaid = Zero /\ rewards = Zero
  /\ balance = [staking |-> 0, reward |-> 0]
  /\ notices = 0

lastTimeRewardApplicable == IF now < periodFinish THEN now ELSE periodFinish

Accrued == (lastTimeRewardApplicable - lastUpdateTime) * rewardRate * SCALE
rewardPerToken ==
  IF totalStaked = 0 THEN rewardPerTokenStored
  ELSE rewardPerTokenStored + Accrued \div totalStaked

earned(u) ==
  (staked[u] * (rewardPerToken - userRewardPerTokenPaid[u])) \div SCALE + rewards[u]

(* The common part of updateReward: the running sum is brought up to now.  *)
(* Subtractions are checked: one below zero reverts.                       *)
Settle ==
  /\ totalStaked # 0 => lastUpdateTime <= lastTimeRewardApplicable
  /\ rewardPerTokenStored' = rewardPerToken
  /\ lastUpdateTime' = lastTimeRewardApplicable

(* updateReward for an account, from which claimed is paid out.            *)
updateReward_Unpaid(u, claimed) ==
  /\ Settle /\ userRewardPerTokenPaid[u] <= rewardPerToken
  /\ rewards' = [rewards EXCEPT ![u] = earned(u) - claimed]
  /\ UNCHANGED userRewardPerTokenPaid
updateReward_SumKept(u, claimed) ==
  /\ userRewardPerTokenPaid[u] <= rewardPerToken
  /\ lastUpdateTime' = lastTimeRewardApplicable /\ UNCHANGED rewardPerTokenStored
  /\ rewards' = [rewards EXCEPT ![u] = earned(u) - claimed]
  /\ userRewardPerTokenPaid' = [userRewardPerTokenPaid EXCEPT ![u] = rewardPerToken]
updateReward(u, claimed) ==
  /\ Settle /\ userRewardPerTokenPaid[u] <= rewardPerToken
  /\ rewards' = [rewards EXCEPT ![u] = earned(u) - claimed]
  /\ userRewardPerTokenPaid' = [userRewardPerTokenPaid EXCEPT ![u] = rewardPerToken]

-----------------------------------------------------------------------------
stake(u, amount) ==
  /\ amount > 0 /\ amount <= wallet[u]
  /\ updateReward(u, 0)
  /\ totalStaked' = totalStaked + amount
  /\ staked' = [staked EXCEPT ![u] = @ + amount]
  /\ wallet' = [wallet EXCEPT ![u] = @ - amount]
  /\ balance' = [balance EXCEPT !.staking = @ + amount]
  /\ UNCHANGED <<now, stream, notices>>

Unstake_TotalKept(u, amount) ==
  /\ amount <= totalStaked
  /\ staked' = [staked EXCEPT ![u] = @ - amount]
  /\ wallet' = [wallet EXCEPT ![u] = @ + amount]
  /\ UNCHANGED totalStaked
Unstake(u, amount) ==
  /\ amount <= totalStaked
  /\ totalStaked' = totalStaked - amount
  /\ staked' = [staked EXCEPT ![u] = @ - amount]
  /\ wallet' = [wallet EXCEPT ![u] = @ + amount]

withdraw(u, amount) ==
  /\ amount > 0 /\ amount <= staked[u]
  /\ updateReward(u, 0)
  /\ Unstake(u, amount)
  /\ balance' = [balance EXCEPT !.staking = @ - amount]
  /\ UNCHANGED <<now, stream, notices>>

(* The transfer reverts when the contract holds less.                      *)
getReward(u) ==
  /\ earned(u) <= balance.reward
  /\ updateReward(u, earned(u))
  /\ balance' = [balance EXCEPT !.reward = @ - earned(u)]
  /\ UNCHANGED <<now, stakes, stream, notices>>

(* withdraw all, then getReward, in one transaction.                       *)
exit(u) ==
  /\ staked[u] > 0
  /\ earned(u) <= balance.reward
  /\ updateReward(u, earned(u))
  /\ Unstake(u, staked[u])
  /\ balance' = [staking |-> balance.staking - staked[u], reward |-> balance.reward - earned(u)]
  /\ UNCHANGED <<now, stream, notices>>

(* What is left of the running stream is added to the new one.             *)
NewRate_WholeStream(reward) == (reward + rewardsDuration * rewardRate) \div rewardsDuration
NewRate(reward) ==
  IF now >= periodFinish THEN reward \div rewardsDuration
  ELSE (reward + (periodFinish - now) * rewardRate) \div rewardsDuration

notifyRewardAmount(reward) ==
  /\ notices < MaxNotices /\ notices' = notices + 1
  /\ totalStaked # 0 => lastUpdateTime <= lastTimeRewardApplicable
  /\ NewRate(reward) * rewardsDuration <= balance.reward + reward
  /\ rewardPerTokenStored' = rewardPerToken
  /\ rewardRate' = NewRate(reward)
  /\ lastUpdateTime' = now
  /\ periodFinish' = now + rewardsDuration
  /\ balance' = [balance EXCEPT !.reward = @ + reward]
  /\ UNCHANGED <<now, stakes, rewardsDuration, userRewardPerTokenPaid, rewards>>

DurationOK_Zero(duration) == now >= periodFinish
DurationOK(duration) == now >= periodFinish /\ duration > 0
setRewardsDuration(duration) ==
  /\ DurationOK(duration)
  /\ rewardsDuration' = duration
  /\ UNCHANGED <<now, stakes, rewardRate, periodFinish, accounts, balance, notices>>

Tick ==
  /\ now < MaxTime /\ now' = now + 1
  /\ UNCHANGED <<stakes, stream, accounts, balance, notices>>

Operation ==
  \/ \E u \in User, amount \in Amount : stake(u, amount) \/ withdraw(u, amount)
  \/ \E u \in User : getReward(u) \/ exit(u)
  \/ \E reward \in Reward : notifyRewardAmount(reward)
  \/ \E duration \in Duration : setRewardsDuration(duration)

Next == Operation \/ Tick

Spec == Init /\ [][Next]_vars

-----------------------------------------------------------------------------
TypeOK ==
  /\ {now, totalStaked, rewardRate, periodFinish, lastUpdateTime, rewardPerTokenStored, notices}
       \subseteq Nat
  /\ rewardsDuration \in Nat \ {0}
  /\ {wallet, staked, userRewardPerTokenPaid, rewards} \subseteq [User -> Nat]
  /\ balance \in [staking : Nat, reward : Nat]

SumOver(f) == SumFunctionOnSet(f, User)

(* Every stake can be withdrawn: the contract holds exactly the stakes.    *)
StakesBacked == SumOver(staked) = totalStaked /\ balance.staking = totalStaked

(* No operation reverts on a subtraction (that would lock every stake,     *)
(* since each operation settles first): the clock of the stream is never   *)
(* ahead, and no one is marked as paid beyond the running sum.             *)
NeverStuck ==
  /\ lastUpdateTime <= lastTimeRewardApplicable
  /\ \A u \in User : userRewardPerTokenPaid[u] <= rewardPerTokenStored

(* The contract can always pay what everyone has earned and what the       *)
(* stream still owes, however stakes, claims and new streams interleave,   *)
(* although notifyRewardAmount compares only the new stream with the       *)
(* balance, which holds unclaimed rewards too.                             *)
Remaining == IF now < periodFinish THEN (periodFinish - now) * rewardRate ELSE 0
Solvent == SumOver([u \in User |-> earned(u)]) + Remaining <= balance.reward

(* Only time makes anyone earn: no operation changes what anyone has       *)
(* earned, except that claiming takes all of one's own.                    *)
EarnedIsLocal ==
  [][now' = now =>
       \A u \in User : \/ earned(u)' = earned(u)
                       \/ earned(u)' = 0 /\ balance'.reward = balance.reward - earned(u)]_vars
=============================================================================
