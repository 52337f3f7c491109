------------------------ MODULE SwoodStaking_proofs -------------------------
(***************************************************************************)
(* Theorems about SwoodStaking: its types, that no operation can get stuck *)
(* on a subtraction, and that operations never change what others earned.  *)
(***************************************************************************)
EXTENDS SwoodGovernor, SumTheorems, TLAPS

(* Quotients of natural numbers are natural numbers.                       *)
LEMMA DivNat == ASSUME NEW a \in Nat, NEW b \in Nat \ {0} PROVE a \div b \in Nat
  BY SMT

(* Nothing divided is nothing.                                             *)
LEMMA DivZero == ASSUME NEW b \in Nat \ {0} PROVE 0 \div b = 0
  BY SMT

(* Products of natural numbers are natural numbers.                        *)
LEMMA MulNat == ASSUME NEW a \in Nat, NEW b \in Nat PROVE a * b \in Nat
  BY SMT

(* Cancelling terms.                                                       *)
LEMMA Zeros == ASSUME NEW a \in Nat PROVE a - a = 0 /\ 0 * a = 0
  BY SMT

IInv == TypeOK /\ NeverStuck /\ balance.staking = totalStaked

-----------------------------------------------------------------------------
(* What the views return.                                                  *)
LEMMA Views ==
  ASSUME IInv
  PROVE  /\ lastTimeRewardApplicable \in Nat
         /\ rewardPerToken \in Nat /\ rewardPerTokenStored <= rewardPerToken
         /\ \A u \in User : earned(u) \in Nat /\ userRewardPerTokenPaid[u] <= rewardPerToken
<1> USE StakingAssumption
<1>1. lastTimeRewardApplicable \in Nat /\ lastTimeRewardApplicable - lastUpdateTime \in Nat
  BY DEF IInv, TypeOK, NeverStuck, lastTimeRewardApplicable
<1>2. (lastTimeRewardApplicable - lastUpdateTime) * rewardRate \in Nat
  <2>1. rewardRate \in Nat
    BY DEF IInv, TypeOK
  <2> QED
    BY <1>1, <2>1, MulNat
<1>3. Accrued \in Nat
  BY <1>2, MulNat DEF Accrued
<1>4. totalStaked \in Nat /\ rewardPerTokenStored \in Nat
  BY DEF IInv, TypeOK
<1>5. rewardPerToken \in Nat /\ rewardPerTokenStored <= rewardPerToken
  <2>1. CASE totalStaked = 0
    BY <1>4, <2>1 DEF rewardPerToken
  <2>2. CASE totalStaked # 0
    <3>1. Accrued \div totalStaked \in Nat
      BY <1>3, <1>4, <2>2, DivNat
    <3> QED
      BY <1>4, <2>2, <3>1 DEF rewardPerToken
  <2> QED
    BY <2>1, <2>2
<1>6. ASSUME NEW u \in User
      PROVE  earned(u) \in Nat /\ userRewardPerTokenPaid[u] <= rewardPerToken
  <2>1. /\ userRewardPerTokenPaid[u] \in Nat /\ staked[u] \in Nat /\ rewards[u] \in Nat
        /\ userRewardPerTokenPaid[u] <= rewardPerTokenStored
    BY DEF IInv, TypeOK, NeverStuck
  <2>2. rewardPerToken - userRewardPerTokenPaid[u] \in Nat
    BY <1>4, <1>5, <2>1
  <2>3. staked[u] * (rewardPerToken - userRewardPerTokenPaid[u]) \in Nat
    BY <2>1, <2>2, MulNat
  <2>4. (staked[u] * (rewardPerToken - userRewardPerTokenPaid[u])) \div SCALE \in Nat
    BY <2>3, DivNat
  <2> QED
    BY <1>4, <1>5, <2>1, <2>4 DEF earned
<1> QED
  BY <1>1, <1>5, <1>6

(* What updateReward leaves, when the stream stands still.                 *)
LEMMA Updated ==
  ASSUME IInv, NEW u \in User, NEW claimed \in {0, earned(u)}, updateReward(u, claimed),
         UNCHANGED <<now, stream>>
  PROVE  /\ rewardPerTokenStored' \in Nat /\ lastUpdateTime' \in Nat
         /\ userRewardPerTokenPaid' \in [User -> Nat] /\ rewards' \in [User -> Nat]
         /\ NeverStuck'
         /\ rewardPerTokenStored' = rewardPerToken
         /\ lastUpdateTime' = lastTimeRewardApplicable'
<1>1. /\ lastTimeRewardApplicable \in Nat /\ rewardPerToken \in Nat
      /\ rewardPerTokenStored <= rewardPerToken
      /\ earned(u) - claimed \in Nat
  BY Views
<1>2. /\ rewardPerTokenStored' = rewardPerToken
      /\ lastUpdateTime' = lastTimeRewardApplicable
      /\ rewards' = [rewards EXCEPT ![u] = earned(u) - claimed]
      /\ userRewardPerTokenPaid' = [userRewardPerTokenPaid EXCEPT ![u] = rewardPerToken]
  BY DEF updateReward, Settle
<1>3. rewardPerTokenStored \in Nat /\ userRewardPerTokenPaid \in [User -> Nat] /\ rewards \in [User -> Nat]
  BY DEF IInv, TypeOK
<1>4. lastTimeRewardApplicable' = lastTimeRewardApplicable
  BY DEF lastTimeRewardApplicable, stream
<1>5. userRewardPerTokenPaid' \in [User -> Nat] /\ rewards' \in [User -> Nat]
  BY <1>1, <1>2, <1>3
<1>6. \A v \in User : userRewardPerTokenPaid[v] <= rewardPerTokenStored
  BY DEF IInv, NeverStuck
<1>7. \A v \in User : userRewardPerTokenPaid'[v] <= rewardPerTokenStored'
  BY <1>1, <1>2, <1>3, <1>6
<1>8. lastUpdateTime' <= lastTimeRewardApplicable'
  BY <1>1, <1>2, <1>4
<1> QED
  BY <1>1, <1>2, <1>4, <1>5, <1>7, <1>8 DEF NeverStuck

-----------------------------------------------------------------------------
(* The invariant holds before the first stake.                             *)
LEMMA Initially == Init => IInv
<1> SUFFICES ASSUME Init PROVE IInv
  OBVIOUS
<1>1. now = 0 /\ periodFinish = 0 /\ lastUpdateTime = 0 /\ rewardRate = 0 /\ totalStaked = 0
  BY DEF Init
<1>2. Zero \in [User -> Nat] /\ \A u \in User : Zero[u] = 0
  BY DEF Zero
<1>3. wallet \in [User -> Nat] /\ rewardsDuration \in Nat \ {0}
  BY StakingAssumption DEF Init
<1>4. TypeOK
  BY <1>1, <1>2, <1>3 DEF Init, TypeOK
<1>5. NeverStuck
  BY <1>1, <1>2 DEF Init, NeverStuck, lastTimeRewardApplicable
<1> QED
  BY <1>1, <1>4, <1>5 DEF Init, IInv

(* One step: each operation settles one account or moves the stream.       *)
LEMMA Step == IInv /\ [Next]_vars => IInv'
<1> SUFFICES ASSUME IInv, [Next]_vars PROVE IInv'
  OBVIOUS
<1> USE StakingAssumption
<1>1. /\ {now, totalStaked, rewardRate, periodFinish, lastUpdateTime, rewardPerTokenStored, notices} \subseteq Nat
      /\ rewardsDuration \in Nat \ {0}
      /\ wallet \in [User -> Nat] /\ staked \in [User -> Nat]
      /\ userRewardPerTokenPaid \in [User -> Nat] /\ rewards \in [User -> Nat]
      /\ balance \in [staking : Nat, reward : Nat] /\ balance.staking = totalStaked
  BY DEF IInv, TypeOK
<1>2. ASSUME NEW u \in User, NEW amount \in Amount, stake(u, amount) PROVE IInv'
  <2>1. updateReward(u, 0) /\ UNCHANGED <<now, stream, notices>>
    BY <1>2 DEF stake
  <2>2. /\ rewardPerTokenStored' \in Nat /\ lastUpdateTime' \in Nat /\ NeverStuck'
        /\ userRewardPerTokenPaid' \in [User -> Nat] /\ rewards' \in [User -> Nat]
    BY <2>1, Updated
  <2>3. amount \in Nat /\ wallet[u] - amount \in Nat
    BY <1>1, <1>2 DEF stake
  <2>4. /\ wallet' \in [User -> Nat] /\ staked' \in [User -> Nat] /\ totalStaked' \in Nat
        /\ balance' \in [staking : Nat, reward : Nat] /\ balance'.staking = totalStaked'
    BY <1>1, <1>2, <2>3 DEF stake
  <2> QED
    BY <1>1, <2>1, <2>2, <2>4 DEF IInv, TypeOK, stream
<1>3. ASSUME NEW u \in User, NEW amount \in Amount, withdraw(u, amount) PROVE IInv'
  <2>1. updateReward(u, 0) /\ UNCHANGED <<now, stream, notices>>
    BY <1>3 DEF withdraw
  <2>2. /\ rewardPerTokenStored' \in Nat /\ lastUpdateTime' \in Nat /\ NeverStuck'
        /\ userRewardPerTokenPaid' \in [User -> Nat] /\ rewards' \in [User -> Nat]
    BY <2>1, Updated
  <2>3. amount \in Nat /\ staked[u] - amount \in Nat /\ totalStaked - amount \in Nat
    BY <1>1, <1>3 DEF withdraw, Unstake
  <2>4. /\ wallet' \in [User -> Nat] /\ staked' \in [User -> Nat] /\ totalStaked' \in Nat
        /\ balance' \in [staking : Nat, reward : Nat] /\ balance'.staking = totalStaked'
    BY <1>1, <1>3, <2>3 DEF withdraw, Unstake
  <2> QED
    BY <1>1, <2>1, <2>2, <2>4 DEF IInv, TypeOK, stream
<1>4. ASSUME NEW u \in User, getReward(u) PROVE IInv'
  <2>1. updateReward(u, earned(u)) /\ UNCHANGED <<now, stakes, stream, notices>>
    BY <1>4 DEF getReward
  <2>2. /\ rewardPerTokenStored' \in Nat /\ lastUpdateTime' \in Nat /\ NeverStuck'
        /\ userRewardPerTokenPaid' \in [User -> Nat] /\ rewards' \in [User -> Nat]
    BY <2>1, Updated
  <2>3. earned(u) \in Nat /\ balance.reward - earned(u) \in Nat
    BY <1>1, <1>4, Views DEF getReward
  <2>4. balance' \in [staking : Nat, reward : Nat] /\ balance'.staking = balance.staking
    BY <1>1, <1>4, <2>3 DEF getReward
  <2> QED
    BY <1>1, <2>1, <2>2, <2>4 DEF IInv, TypeOK, stream, stakes
<1>5. ASSUME NEW u \in User, exit(u) PROVE IInv'
  <2>1. updateReward(u, earned(u)) /\ UNCHANGED <<now, stream, notices>>
    BY <1>5 DEF exit
  <2>2. /\ rewardPerTokenStored' \in Nat /\ lastUpdateTime' \in Nat /\ NeverStuck'
        /\ userRewardPerTokenPaid' \in [User -> Nat] /\ rewards' \in [User -> Nat]
    BY <2>1, Updated
  <2>3. /\ earned(u) \in Nat /\ balance.reward - earned(u) \in Nat
        /\ staked[u] \in Nat /\ totalStaked - staked[u] \in Nat
    BY <1>1, <1>5, Views DEF exit, Unstake
  <2>4. /\ wallet' \in [User -> Nat] /\ staked' \in [User -> Nat] /\ totalStaked' \in Nat
        /\ balance' \in [staking : Nat, reward : Nat] /\ balance'.staking = totalStaked'
    BY <1>1, <1>5, <2>3 DEF exit, Unstake
  <2> QED
    BY <1>1, <2>1, <2>2, <2>4 DEF IInv, TypeOK, stream
<1>6. ASSUME NEW reward \in Reward, notifyRewardAmount(reward) PROVE IInv'
  <2>1. reward \in Nat /\ rewardPerToken \in Nat /\ rewardPerTokenStored <= rewardPerToken
    BY Views
  <2>2. NewRate(reward) \in Nat
    <3>1. CASE now >= periodFinish
      BY <1>1, <2>1, <3>1, DivNat DEF NewRate
    <3>2. CASE ~(now >= periodFinish)
      <4>1. periodFinish - now \in Nat
        BY <1>1, <3>2
      <4>2. (periodFinish - now) * rewardRate \in Nat
        BY <1>1, <4>1, MulNat
      <4>3. (reward + (periodFinish - now) * rewardRate) \div rewardsDuration \in Nat
        BY <1>1, <2>1, <4>2, DivNat
      <4> QED
        BY <3>2, <4>3 DEF NewRate
    <3> QED
      BY <3>1, <3>2
  <2>3. /\ rewardRate' = NewRate(reward) /\ lastUpdateTime' = now /\ now' = now
        /\ periodFinish' = now + rewardsDuration /\ notices' = notices + 1
        /\ rewardPerTokenStored' = rewardPerToken
        /\ UNCHANGED <<stakes, rewardsDuration, userRewardPerTokenPaid, rewards>>
        /\ balance' = [balance EXCEPT !.reward = @ + reward]
    BY <1>6 DEF notifyRewardAmount
  <2>4. balance' \in [staking : Nat, reward : Nat] /\ balance'.staking = balance.staking
    BY <1>1, <2>1, <2>3
  <2>5. \A u \in User : userRewardPerTokenPaid[u] <= rewardPerTokenStored
    BY DEF IInv, NeverStuck
  <2>6. \A u \in User : userRewardPerTokenPaid'[u] <= rewardPerTokenStored'
    BY <1>1, <2>1, <2>3, <2>5
  <2>7. lastUpdateTime' <= lastTimeRewardApplicable'
    BY <1>1, <2>3 DEF lastTimeRewardApplicable
  <2> QED
    BY <1>1, <2>1, <2>2, <2>3, <2>4, <2>6, <2>7 DEF IInv, TypeOK, NeverStuck, stakes
<1>7. ASSUME NEW duration \in Duration, setRewardsDuration(duration) PROVE IInv'
  <2>1. rewardsDuration' \in Nat \ {0}
    BY <1>7 DEF setRewardsDuration, DurationOK
  <2>2. UNCHANGED <<now, stakes, rewardRate, periodFinish, accounts, balance, notices>>
    BY <1>7 DEF setRewardsDuration
  <2> QED
    BY <1>1, <2>1, <2>2 DEF IInv, TypeOK, NeverStuck, lastTimeRewardApplicable, stakes, accounts
<1>8. CASE Tick
  <2>1. now' = now + 1 /\ UNCHANGED <<stakes, stream, accounts, balance, notices>>
    BY <1>8 DEF Tick
  <2>2. lastUpdateTime <= lastTimeRewardApplicable
    BY DEF IInv, NeverStuck
  <2>3. lastUpdateTime' <= lastTimeRewardApplicable'
    BY <1>1, <2>1, <2>2 DEF lastTimeRewardApplicable, stream, accounts
  <2> QED
    BY <1>1, <2>1, <2>3 DEF IInv, TypeOK, NeverStuck, stakes, stream, accounts
<1>9. CASE UNCHANGED vars
  BY <1>9 DEF IInv, TypeOK, NeverStuck, lastTimeRewardApplicable, vars, stakes, stream, accounts
<1> QED
  BY <1>2, <1>3, <1>4, <1>5, <1>6, <1>7, <1>8, <1>9 DEF Next, Operation

(* The invariant holds always.                                             *)
LEMMA Invariance == Spec => []IInv
<1> QED
  BY Initially, Step, PTL DEF Spec

(* The contract's numbers stay natural through every operation: rates,     *)
(* accounts and balances of src/SwoodStaking.sol never go below zero.      *)
THEOREM TypeCorrect == Spec => []TypeOK
<1>1. IInv => TypeOK
  BY DEF IInv
<1> QED
  BY <1>1, Invariance, PTL

(* No operation of src/SwoodStaking.sol ever reverts on a subtraction in   *)
(* updateReward, whatever streams, durations and users there are.          *)
THEOREM NeverStuckCorrect == Spec => []NeverStuck
<1>1. IInv => NeverStuck
  BY DEF IInv
<1> QED
  BY <1>1, Invariance, PTL
-----------------------------------------------------------------------------
(* Just after a settlement nothing has accrued.                            *)
LEMMA NothingAccrued ==
  ASSUME IInv, IInv', lastUpdateTime' = lastTimeRewardApplicable'
  PROVE  rewardPerToken' = rewardPerTokenStored'
<1>1. /\ totalStaked' \in Nat /\ rewardPerTokenStored' \in Nat /\ rewardRate' \in Nat
      /\ lastUpdateTime' \in Nat
  BY DEF IInv, TypeOK
<1>2. Accrued' = 0
  <2>1. lastTimeRewardApplicable' - lastUpdateTime' = 0
    BY <1>1, Zeros
  <2>2. 0 * rewardRate' = 0
    BY <1>1, Zeros
  <2>3. 0 * SCALE = 0
    BY StakingAssumption
  <2> QED
    BY <2>1, <2>2, <2>3 DEF Accrued
<1>3. CASE totalStaked' = 0
  BY <1>3 DEF rewardPerToken
<1>4. CASE totalStaked' # 0
  <2>1. Accrued' \div totalStaked' = 0
    BY <1>1, <1>2, <1>4, DivZero
  <2> QED
    BY <1>1, <1>4, <2>1 DEF rewardPerToken
<1> QED
  BY <1>3, <1>4

(* An account that is settled, and the others at that moment.              *)
LEMMA SettledAccounts ==
  ASSUME IInv, IInv', NEW u \in User, NEW claimed \in {0, earned(u)}, updateReward(u, claimed),
         UNCHANGED <<now, stream>>, \A v \in User \ {u} : staked'[v] = staked[v]
  PROVE  /\ earned(u)' = earned(u) - claimed
         /\ \A v \in User \ {u} : earned(v)' = earned(v)
<1>1. lastUpdateTime' = lastTimeRewardApplicable' /\ rewardPerTokenStored' = rewardPerToken
  BY Updated
<1>2. rewardPerToken' = rewardPerToken
  BY <1>1, NothingAccrued
<1>3. /\ rewards' = [rewards EXCEPT ![u] = earned(u) - claimed]
      /\ userRewardPerTokenPaid' = [userRewardPerTokenPaid EXCEPT ![u] = rewardPerToken]
      /\ rewards \in [User -> Nat] /\ userRewardPerTokenPaid \in [User -> Nat]
  BY DEF updateReward, IInv, TypeOK
<1>4. earned(u)' = earned(u) - claimed
  <2>1. /\ rewards'[u] = earned(u) - claimed /\ userRewardPerTokenPaid'[u] = rewardPerToken
        /\ rewardPerToken \in Nat /\ earned(u) - claimed \in Nat
    BY <1>3, Views
  <2>2. rewardPerToken' - userRewardPerTokenPaid'[u] = 0
    BY <1>2, <2>1
  <2>3. staked'[u] * 0 = 0
    BY DEF IInv, TypeOK
  <2>4. 0 \div SCALE = 0
    BY DivZero, StakingAssumption
  <2> QED
    BY <2>1, <2>2, <2>3, <2>4 DEF earned
<1>5. ASSUME NEW v \in User \ {u} PROVE earned(v)' = earned(v)
  <2>1. rewards'[v] = rewards[v] /\ userRewardPerTokenPaid'[v] = userRewardPerTokenPaid[v]
    BY <1>3
  <2> QED
    BY <1>2, <2>1 DEF earned
<1> QED
  BY <1>4, <1>5

(* What a call, whoever makes it, leaves of what w has earned: all, unless *)
(* it pays w.                                                              *)
LEMMA StepIsLocal ==
  ASSUME IInv, IInv', [Next]_vars, now' = now, NEW w \in User
  PROVE  \/ earned(w)' = earned(w)
         \/ earned(w)' = 0 /\ balance'.reward = balance.reward - earned(w)
<1> DEFINE Local == \/ earned(w)' = earned(w)
                    \/ earned(w)' = 0 /\ balance'.reward = balance.reward - earned(w)
<1> SUFFICES Local
  OBVIOUS
<1>1. \A u \in User : earned(u) \in Nat
  BY Views
<1>2. staked \in [User -> Nat] /\ balance \in [staking : Nat, reward : Nat]
  BY DEF IInv, TypeOK
<1>3. ASSUME NEW u \in User, NEW amount \in Amount, stake(u, amount) \/ withdraw(u, amount)
      PROVE  Local
  <2>1. /\ updateReward(u, 0) /\ UNCHANGED <<now, stream>>
        /\ \A v \in User \ {u} : staked'[v] = staked[v]
    BY <1>2, <1>3 DEF stake, withdraw, Unstake
  <2>2. earned(u)' = earned(u) - 0 /\ \A v \in User \ {u} : earned(v)' = earned(v)
    BY <2>1, SettledAccounts
  <2>3. earned(w)' = earned(w)
    BY <1>1, <2>2
  <2> QED
    BY <2>3
<1>4. ASSUME NEW u \in User, getReward(u) \/ exit(u) PROVE Local
  <2>1. /\ updateReward(u, earned(u)) /\ UNCHANGED <<now, stream>>
        /\ \A v \in User \ {u} : staked'[v] = staked[v]
    BY <1>2, <1>4 DEF getReward, exit, Unstake, stakes
  <2>2. earned(u)' = earned(u) - earned(u) /\ \A v \in User \ {u} : earned(v)' = earned(v)
    BY <2>1, SettledAccounts
  <2>3. balance'.reward = balance.reward - earned(u)
    BY <1>2, <1>4 DEF getReward, exit
  <2>4. earned(u) - earned(u) = 0
    BY <1>1
  <2> QED
    BY <2>2, <2>3, <2>4
<1>5. ASSUME NEW reward \in Reward, notifyRewardAmount(reward) PROVE Local
  <2>1. /\ rewardPerTokenStored' = rewardPerToken /\ lastUpdateTime' = now
        /\ periodFinish' = now + rewardsDuration
        /\ UNCHANGED <<stakes, userRewardPerTokenPaid, rewards>>
    BY <1>5 DEF notifyRewardAmount
  <2>2. lastTimeRewardApplicable' = now
    BY <2>1 DEF IInv, TypeOK, lastTimeRewardApplicable
  <2>3. rewardPerToken' = rewardPerToken
    BY <2>1, <2>2, NothingAccrued
  <2> QED
    BY <2>1, <2>3 DEF earned, stakes
<1>6. ASSUME NEW duration \in Duration, setRewardsDuration(duration) PROVE Local
  <2>1. UNCHANGED <<now, stakes, rewardRate, periodFinish, accounts>>
    BY <1>6 DEF setRewardsDuration
  <2> QED
    BY <2>1 DEF earned, rewardPerToken, Accrued, lastTimeRewardApplicable, stakes, accounts
<1>7. CASE Tick
  <2>1. now \in Nat /\ now' = now + 1
    BY <1>7 DEF Tick, IInv, TypeOK
  <2> QED
    BY <2>1
<1>8. CASE UNCHANGED vars
  BY <1>8 DEF earned, rewardPerToken, Accrued, lastTimeRewardApplicable, vars, stakes, stream, accounts
<1> QED
  BY <1>3, <1>4, <1>5, <1>6, <1>7, <1>8 DEF Next, Operation

(* In src/SwoodStaking.sol only time makes anyone earn: no call changes    *)
(* what anyone has earned, except that a claim takes all of one's own.     *)
THEOREM EarningsAreLocal == Spec => EarnedIsLocal
<1>1. ASSUME IInv, IInv', [Next]_vars
      PROVE  [now' = now =>
                \A u \in User : \/ earned(u)' = earned(u)
                                \/ earned(u)' = 0 /\ balance'.reward = balance.reward - earned(u)]_vars
  BY <1>1, StepIsLocal
<1> QED
  BY <1>1, Invariance, PTL DEF Spec, EarnedIsLocal

-----------------------------------------------------------------------------
(* Solvency. earned rounds down, so the sum of what users earned may jump  *)
(* by more than the stream pays in a moment: Solvent is not inductive. What *)
(* is, counts rewards before rounding: credits in units of 1/SCALE up to   *)
(* the last settlement, and the whole stream after it.                     *)
Credit(u) == staked[u] * (rewardPerTokenStored - userRewardPerTokenPaid[u]) + SCALE * rewards[u]
Credits == [u \in User |-> Credit(u)]
Coming(from) == SCALE * (rewardRate * (periodFinish - from))

Covered ==
  /\ SumOver(staked) = totalStaked
  /\ SumOver(Credits) + Coming(lastUpdateTime) <= SCALE * balance.reward

(* The credits once everybody is settled.                                  *)
Due(u) == staked[u] * (rewardPerToken - userRewardPerTokenPaid[u]) + SCALE * rewards[u]
Dues == [u \in User |-> Due(u)]

(* Rounding down loses nothing but a remainder.                            *)
LEMMA DivBelow == ASSUME NEW a \in Nat, NEW b \in Nat \ {0}
                  PROVE  a \div b \in Nat /\ (a \div b) * b <= a /\ b * (a \div b) <= a
  BY SMT

(* Products distribute over sums.                                          *)
LEMMA MulDist == ASSUME NEW a \in Int, NEW b \in Int, NEW c \in Int
                 PROVE  a * (b + c) = a * b + a * c /\ a * b = b * a /\ a * b \in Int
  BY SMT

(* A stream of rewards is the part that has flowed and the part to come.   *)
LEMMA StreamSplit ==
  ASSUME NEW a \in Nat, NEW b \in Nat, NEW r \in Nat, NEW s \in Nat
  PROVE  a * r * s + s * (r * b) = s * (r * (a + b))
  BY SMT

(* Per token, no more accrues than flows for all tokens.                   *)
LEMMA Growth ==
  ASSUME IInv
  PROVE  /\ rewardPerToken - rewardPerTokenStored \in Nat
         /\ (rewardPerToken - rewardPerTokenStored) * totalStaked <= Accrued
         /\ Accrued \in Nat
<1> USE StakingAssumption
<1>1. /\ rewardPerTokenStored \in Nat /\ totalStaked \in Nat /\ rewardRate \in Nat
      /\ lastTimeRewardApplicable - lastUpdateTime \in Nat
  BY Views DEF IInv, TypeOK, NeverStuck
<1>2. Accrued \in Nat
  <2>1. (lastTimeRewardApplicable - lastUpdateTime) * rewardRate \in Nat
    BY <1>1, MulNat
  <2> QED BY <2>1, MulNat DEF Accrued
<1>3. CASE totalStaked = 0
  <2>1. rewardPerToken - rewardPerTokenStored = 0
    BY <1>1, <1>3 DEF rewardPerToken
  <2>2. 0 * totalStaked = 0
    BY <1>1
  <2> QED BY <1>2, <2>1, <2>2
<1>4. CASE totalStaked # 0
  <2>1. rewardPerToken = rewardPerTokenStored + Accrued \div totalStaked
    BY <1>4 DEF rewardPerToken
  <2>2. Accrued \div totalStaked \in Nat /\ (Accrued \div totalStaked) * totalStaked <= Accrued
    BY <1>1, <1>2, <1>4, DivBelow
  <2>3. rewardPerToken - rewardPerTokenStored = Accrued \div totalStaked
    BY <1>1, <2>1, <2>2
  <2> QED BY <1>2, <2>2, <2>3
<1> QED BY <1>3, <1>4

(* Types of what a user is owed.                                           *)
LEMMA CreditTypes ==
  ASSUME IInv, NEW u \in User
  PROVE  /\ Credits[u] = Credit(u) /\ Dues[u] = Due(u)
         /\ Credit(u) \in Nat /\ Due(u) \in Nat
         /\ staked[u] \in Nat /\ rewards[u] \in Nat /\ userRewardPerTokenPaid[u] \in Nat
<1> USE StakingAssumption
<1>1. /\ staked[u] \in Nat /\ rewards[u] \in Nat /\ userRewardPerTokenPaid[u] \in Nat
      /\ rewardPerTokenStored - userRewardPerTokenPaid[u] \in Nat
  BY DEF IInv, TypeOK, NeverStuck
<1>2. rewardPerToken - userRewardPerTokenPaid[u] \in Nat
  BY <1>1, Views
<1>3. SCALE * rewards[u] \in Nat
  BY <1>1, MulNat
<1>4. staked[u] * (rewardPerTokenStored - userRewardPerTokenPaid[u]) \in Nat
  BY <1>1, MulNat
<1>5. staked[u] * (rewardPerToken - userRewardPerTokenPaid[u]) \in Nat
  BY <1>1, <1>2, MulNat
<1>6. Credits[u] = Credit(u) /\ Dues[u] = Due(u)
  BY DEF Credits, Dues
<1>7. Credit(u) \in Nat
  BY <1>3, <1>4 DEF Credit
<1>8. Due(u) \in Nat
  BY <1>3, <1>5 DEF Due
<1> QED BY <1>1, <1>6, <1>7, <1>8

(* What is owed and what is still to flow are covered by the reward pool.  *)
LEMMA DuesCovered ==
  ASSUME IInv, Covered
  PROVE  /\ SumOver(Dues) \in Nat
         /\ SumOver(Dues) + Coming(lastTimeRewardApplicable) <= SCALE * balance.reward
<1> USE StakingAssumption
<1> DEFINE d == rewardPerToken - rewardPerTokenStored
<1>1. d \in Nat /\ d * totalStaked <= Accrued /\ Accrued \in Nat
  BY Growth
<1>2. ASSUME NEW u \in User PROVE Dues[u] = Credits[u] + d * staked[u]
  <2>1. /\ staked[u] \in Nat /\ userRewardPerTokenPaid[u] \in Nat /\ SCALE * rewards[u] \in Nat
        /\ rewardPerToken \in Nat /\ rewardPerTokenStored \in Nat
    BY CreditTypes, Views, MulNat DEF IInv, TypeOK
  <2>2. rewardPerToken - userRewardPerTokenPaid[u] = (rewardPerTokenStored - userRewardPerTokenPaid[u]) + d
    BY <2>1
  <2> DEFINE e == rewardPerTokenStored - userRewardPerTokenPaid[u]
  <2>3. e \in Int
    BY <2>1
  <2>4. staked[u] * (e + d) = staked[u] * e + d * staked[u] /\ staked[u] * e \in Int /\ d * staked[u] \in Int
    <3> HIDE DEF e, d
    <3> QED BY <1>1, <2>1, <2>3, MulDist
  <2>5. Dues[u] = staked[u] * (e + d) + SCALE * rewards[u] /\ Credits[u] = staked[u] * e + SCALE * rewards[u]
    BY <2>2, CreditTypes DEF Due, Credit
  <2> HIDE DEF e, d
  <2> QED BY <2>1, <2>4, <2>5
<1>3. \A u \in User : Credits[u] \in Int /\ staked[u] \in Int /\ Credits[u] \in Nat /\ Dues[u] \in Nat
  BY CreditTypes
<1> HIDE DEF d
<1>4. SumOver(Dues) = SumOver(Credits) + d * SumOver(staked)
  <2>1. d \in Int
    BY <1>1
  <2>2. \A u \in User : Credits[u] \in Int /\ staked[u] \in Int /\ Dues[u] = Credits[u] + d * staked[u]
    BY <1>2, <1>3
  <2> QED BY <2>1, <2>2, SumLinear DEF SumOver
<1>5. SumOver(Dues) \in Nat /\ SumOver(Credits) \in Nat
  BY <1>3, SumNat DEF SumOver
<1>6. Accrued + Coming(lastTimeRewardApplicable) = Coming(lastUpdateTime)
  <2> DEFINE a == lastTimeRewardApplicable - lastUpdateTime
             b == periodFinish - lastTimeRewardApplicable
  <2>1. /\ periodFinish \in Nat /\ now \in Nat /\ lastUpdateTime \in Nat /\ rewardRate \in Nat
        /\ lastUpdateTime <= lastTimeRewardApplicable
    BY DEF IInv, TypeOK, NeverStuck
  <2>2. a \in Nat /\ b \in Nat /\ a + b = periodFinish - lastUpdateTime
    BY <2>1 DEF lastTimeRewardApplicable
  <2>3. a * rewardRate * SCALE + SCALE * (rewardRate * b) = SCALE * (rewardRate * (a + b))
    <3> HIDE DEF a, b
    <3> QED BY <2>1, <2>2, StreamSplit
  <2> QED BY <2>2, <2>3 DEF Accrued, Coming
<1>7. Coming(lastTimeRewardApplicable) \in Int
  <2>1. /\ periodFinish \in Nat /\ lastTimeRewardApplicable \in Nat /\ rewardRate \in Nat
    BY Views DEF IInv, TypeOK
  <2>2. rewardRate * (periodFinish - lastTimeRewardApplicable) \in Int
    BY <2>1
  <2> QED BY <2>2 DEF Coming
<1>8. d * totalStaked \in Nat
  BY <1>1, MulNat DEF IInv, TypeOK
<1>9. SCALE * balance.reward \in Nat
  BY MulNat DEF IInv, TypeOK
<1> QED BY <1>1, <1>4, <1>5, <1>6, <1>7, <1>8, <1>9 DEF Covered

(* The view rounds down: what is earned is at most what is due.            *)
LEMMA EarnedIsDue ==
  ASSUME IInv, NEW u \in User
  PROVE  earned(u) \in Nat /\ SCALE * earned(u) \in Nat /\ SCALE * earned(u) <= Due(u)
<1> USE StakingAssumption
<1> DEFINE prod == staked[u] * (rewardPerToken - userRewardPerTokenPaid[u])
<1>1. staked[u] \in Nat /\ rewards[u] \in Nat /\ rewardPerToken - userRewardPerTokenPaid[u] \in Nat
  BY CreditTypes, Views
<1>2. prod \in Nat
  BY <1>1, MulNat
<1>3. earned(u) = prod \div SCALE + rewards[u] /\ Due(u) = prod + SCALE * rewards[u]
  BY DEF earned, Due
<1> HIDE DEF prod
<1>4. prod \div SCALE \in Nat /\ SCALE * (prod \div SCALE) <= prod
  BY <1>2, DivBelow
<1>5. SCALE * (prod \div SCALE + rewards[u]) = SCALE * (prod \div SCALE) + SCALE * rewards[u]
  BY <1>1, <1>4, MulDist
<1>6. SCALE * (prod \div SCALE) \in Nat /\ SCALE * rewards[u] \in Nat
  BY <1>1, <1>4, MulNat
<1> QED BY <1>1, <1>2, <1>3, <1>4, <1>5, <1>6

(* The invariant of the accounts implies that all can be paid.             *)
LEMMA CoveredIsSolvent == IInv /\ Covered => Solvent
<1> SUFFICES ASSUME IInv, Covered PROVE Solvent
  OBVIOUS
<1> USE StakingAssumption
<1> DEFINE E == [u \in User |-> earned(u)]
           S == [u \in User |-> SCALE * earned(u)]
           Z == [u \in User |-> 0]
<1>1. \A u \in User : earned(u) \in Nat /\ SCALE * earned(u) \in Nat /\ SCALE * earned(u) <= Due(u)
  BY EarnedIsDue
<1>2. SumOver(S) <= SumOver(Dues)
  <2>1. \A u \in User : S[u] \in Int /\ Dues[u] \in Int /\ S[u] <= Dues[u]
    BY <1>1, CreditTypes
  <2> HIDE DEF S
  <2> QED BY <2>1, SumMonotone DEF SumOver
<1>3. SumOver(S) = SCALE * SumOver(E) /\ SumOver(E) \in Nat
  <2>1. \A u \in User : Z[u] \in Int /\ E[u] \in Nat /\ E[u] \in Int /\ S[u] = Z[u] + SCALE * E[u]
    BY <1>1
  <2>2. SumOver(Z) = 0
    <3>1. \A u \in User : Z[u] \in Int /\ Z[u] = 0 + 0 * Z[u]
      OBVIOUS
    <3>2. SumFunctionOnSet(Z, User) = SumFunctionOnSet(Z, User) + (-1) * SumFunctionOnSet(Z, User)
      <4>1. \A u \in User : Z[u] \in Int /\ Z[u] = Z[u] + (-1) * Z[u]
        OBVIOUS
      <4> HIDE DEF Z
      <4> QED BY <4>1, SumLinear
    <3>3. SumFunctionOnSet(Z, User) \in Int
      <4> HIDE DEF Z
      <4> QED BY <3>1, SumType
    <3> HIDE DEF Z
    <3> QED BY <3>2, <3>3 DEF SumOver
  <2> HIDE DEF S, E, Z
  <2>3. SumOver(E) \in Nat
    BY <2>1, SumNat DEF SumOver
  <2>4. SumOver(S) = SumOver(Z) + SCALE * SumOver(E)
    BY <2>1, SumLinear DEF SumOver
  <2>5. SCALE * SumOver(E) \in Nat
    BY <2>3, MulNat
  <2> QED BY <2>2, <2>3, <2>4, <2>5
<1>4. Coming(lastTimeRewardApplicable) = SCALE * Remaining /\ Remaining \in Nat
  <2>1. now \in Nat /\ periodFinish \in Nat /\ rewardRate \in Nat
    BY DEF IInv, TypeOK
  <2>2. CASE now < periodFinish
    <3>1. lastTimeRewardApplicable = now /\ Remaining = (periodFinish - now) * rewardRate
      BY <2>2 DEF lastTimeRewardApplicable, Remaining
    <3>2. periodFinish - now \in Nat
      BY <2>1, <2>2
    <3>3. (periodFinish - now) * rewardRate = rewardRate * (periodFinish - now) /\ Remaining \in Nat
      BY <2>1, <3>1, <3>2, MulDist, MulNat
    <3> QED BY <3>1, <3>3 DEF Coming
  <2>3. CASE ~(now < periodFinish)
    <3>1. lastTimeRewardApplicable = periodFinish /\ Remaining = 0
      BY <2>3 DEF lastTimeRewardApplicable, Remaining
    <3>2. periodFinish - periodFinish = 0 /\ rewardRate * 0 = 0
      BY <2>1
    <3> QED BY <3>1, <3>2 DEF Coming
  <2> QED BY <2>2, <2>3
<1>5. SumOver(Dues) + Coming(lastTimeRewardApplicable) <= SCALE * balance.reward /\ SumOver(Dues) \in Nat
  BY DuesCovered
<1>6. balance.reward \in Nat
  BY DEF IInv, TypeOK
<1>7. SCALE * (SumOver(E) + Remaining) <= SCALE * balance.reward
  <2>1. SCALE * (SumOver(E) + Remaining) = SCALE * SumOver(E) + SCALE * Remaining
    BY <1>3, <1>4, MulDist
  <2>2. SCALE * SumOver(E) \in Nat /\ SCALE * Remaining \in Nat /\ SCALE * balance.reward \in Nat
    BY <1>3, <1>4, <1>6, MulNat
  <2> HIDE DEF E, S
  <2> QED BY <1>2, <1>3, <1>4, <1>5, <2>1, <2>2
<1>8. ASSUME NEW a \in Nat, NEW b \in Nat, SCALE * a <= SCALE * b PROVE a <= b
  BY <1>8, SMT
<1>9. SumOver(E) + Remaining \in Nat
  BY <1>3, <1>4
<1>10. SumOver(E) + Remaining <= balance.reward
  <2> HIDE DEF E
  <2> QED BY <1>6, <1>7, <1>8, <1>9
<1> QED BY <1>10 DEF Solvent

(* Nothing is owed at first.                                               *)
LEMMA InitCovered == Init => Covered
<1> SUFFICES ASSUME Init PROVE Covered
  OBVIOUS
<1> USE StakingAssumption
<1>1. IInv
  BY Initially
<1>2. \A u \in User : Zero[u] = 0
  BY DEF Zero
<1>3. SumOver(Zero) = 0
  <2>1. \A u \in User : Zero[u] \in Int /\ Zero[u] = Zero[u] + (-1) * Zero[u]
    BY <1>2
  <2>2. SumFunctionOnSet(Zero, User) \in Int
    BY <2>1, SumType
  <2>3. SumFunctionOnSet(Zero, User) = SumFunctionOnSet(Zero, User) + (-1) * SumFunctionOnSet(Zero, User)
    BY <2>1, SumLinear
  <2> QED BY <2>2, <2>3 DEF SumOver
<1>4. /\ staked = Zero /\ totalStaked = 0 /\ rewardRate = 0 /\ rewardPerTokenStored = 0
      /\ userRewardPerTokenPaid = Zero /\ rewards = Zero /\ balance.reward = 0
      /\ periodFinish = 0 /\ lastUpdateTime = 0
  BY DEF Init
<1>5. Credits = Zero
  BY <1>2, <1>4 DEF Credits, Credit, Zero
<1>6. Coming(lastUpdateTime) = 0
  BY <1>4 DEF Coming
<1> QED BY <1>3, <1>4, <1>5, <1>6 DEF Covered

(* A settlement pays out no more than it takes off the credits.            *)
LEMMA SettlementCovered ==
  ASSUME IInv, IInv', Covered, NEW u \in User, NEW claimed \in {0, earned(u)},
         updateReward(u, claimed), UNCHANGED <<now, stream>>,
         \A v \in User \ {u} : staked'[v] = staked[v],
         balance'.reward = balance.reward - claimed
  PROVE  SumOver(Credits)' + Coming(lastUpdateTime)' <= SCALE * balance'.reward
<1> USE StakingAssumption
<1>1. /\ lastUpdateTime' = lastTimeRewardApplicable /\ rewardPerTokenStored' = rewardPerToken
      /\ rewards' = [rewards EXCEPT ![u] = earned(u) - claimed]
      /\ userRewardPerTokenPaid' = [userRewardPerTokenPaid EXCEPT ![u] = rewardPerToken]
  BY DEF updateReward, Settle
<1>2. rewards \in [User -> Nat] /\ userRewardPerTokenPaid \in [User -> Nat] /\ staked' \in [User -> Nat]
  BY DEF IInv, TypeOK
<1>3. earned(u) \in Nat /\ claimed \in Nat /\ claimed <= earned(u) /\ rewardPerToken \in Nat
  BY Views
<1>4. ASSUME NEW v \in User \ {u} PROVE Credits'[v] = Dues[v]
  <2>1. rewards'[v] = rewards[v] /\ userRewardPerTokenPaid'[v] = userRewardPerTokenPaid[v] /\ staked'[v] = staked[v]
    BY <1>1, <1>2
  <2>2. Credit(v)' = Due(v)
    BY <1>1, <2>1 DEF Credit, Due
  <2> QED BY <2>2 DEF Credits, Dues
<1>5. Credits'[u] = SCALE * (earned(u) - claimed)
  <2>1. rewards'[u] = earned(u) - claimed /\ userRewardPerTokenPaid'[u] = rewardPerToken
    BY <1>1, <1>2
  <2>2. rewardPerTokenStored' - userRewardPerTokenPaid'[u] = 0 /\ staked'[u] \in Nat
    BY <1>1, <1>2, <1>3, <2>1
  <2>3. staked'[u] * 0 = 0
    BY <2>2
  <2>4. SCALE * (earned(u) - claimed) \in Nat
    BY <1>3, MulNat
  <2>5. Credit(u)' = SCALE * (earned(u) - claimed)
    BY <2>1, <2>2, <2>3, <2>4 DEF Credit
  <2> QED BY <2>5 DEF Credits
<1>6. \A v \in User : Credits'[v] \in Int /\ Dues[v] \in Int
  <2>1. \A v \in User : Dues[v] \in Int
    BY CreditTypes
  <2>2. Credits'[u] \in Int
    BY <1>3, <1>5, MulNat
  <2> QED BY <1>4, <2>1, <2>2
<1>7. SumOver(Credits)' = SumOver(Dues) - Dues[u] + Credits'[u]
  BY <1>4, <1>6, SumUpdate DEF SumOver
<1>8. SCALE * (earned(u) - claimed) = SCALE * earned(u) - SCALE * claimed
  BY <1>3, SMT
<1>9. SCALE * (balance.reward - claimed) = SCALE * balance.reward - SCALE * claimed
  BY <1>3, SMT DEF IInv, TypeOK
<1>10. Coming(lastUpdateTime)' = Coming(lastTimeRewardApplicable) /\ Coming(lastTimeRewardApplicable) \in Int
  <2>1. rewardRate' = rewardRate /\ periodFinish' = periodFinish
    BY DEF stream
  <2>2. rewardRate \in Nat /\ periodFinish \in Nat /\ lastTimeRewardApplicable \in Nat
    BY Views DEF IInv, TypeOK
  <2>3. rewardRate * (periodFinish - lastTimeRewardApplicable) \in Int
    BY <2>2, MulDist
  <2> QED BY <1>1, <2>1, <2>3, MulDist DEF Coming
<1>11. SumOver(Dues) \in Nat /\ SumOver(Dues) + Coming(lastTimeRewardApplicable) <= SCALE * balance.reward
  BY DuesCovered
<1>12. SCALE * earned(u) <= Dues[u] /\ SCALE * earned(u) \in Nat /\ Dues[u] \in Nat
  BY EarnedIsDue, CreditTypes
<1>13. SCALE * claimed \in Nat /\ SCALE * balance.reward \in Nat
  BY <1>3, MulNat DEF IInv, TypeOK
<1> QED BY <1>5, <1>7, <1>8, <1>9, <1>10, <1>11, <1>12, <1>13

(* A new stream is paid from the reward and the rest of the running one.   *)
LEMMA StreamCovered ==
  ASSUME IInv, IInv', Covered, NEW reward \in Reward, notifyRewardAmount(reward)
  PROVE  SumOver(Credits)' + Coming(lastUpdateTime)' <= SCALE * balance'.reward
<1> USE StakingAssumption
<1>1. /\ rewardPerTokenStored' = rewardPerToken /\ rewardRate' = NewRate(reward)
      /\ lastUpdateTime' = now /\ periodFinish' = now + rewardsDuration
      /\ balance'.reward = balance.reward + reward
      /\ UNCHANGED <<staked, userRewardPerTokenPaid, rewards>>
  BY DEF notifyRewardAmount, IInv, TypeOK, stakes
<1>2. /\ now \in Nat /\ periodFinish \in Nat /\ rewardRate \in Nat /\ rewardsDuration \in Nat \ {0}
      /\ balance.reward \in Nat /\ reward \in Nat /\ rewardRate' \in Nat
  BY DEF IInv, TypeOK
<1>3. SumOver(Credits)' = SumOver(Dues)
  <2>1. \A u \in User : Credit(u)' = Due(u)
    BY <1>1 DEF Credit, Due
  <2>2. Credits' = Dues
    BY <2>1 DEF Credits, Dues
  <2> QED BY <2>2 DEF SumOver
<1>4. Coming(lastUpdateTime)' <= SCALE * reward + Coming(lastTimeRewardApplicable)
  <2> DEFINE left == IF now >= periodFinish THEN 0 ELSE (periodFinish - now) * rewardRate
  <2>1. left \in Nat /\ Coming(lastTimeRewardApplicable) = SCALE * left
    <3>1. CASE now >= periodFinish
      <4>1. lastTimeRewardApplicable = periodFinish
        BY <1>2, <3>1 DEF lastTimeRewardApplicable
      <4>2. periodFinish - periodFinish = 0 /\ rewardRate * 0 = 0
        BY <1>2
      <4> QED BY <3>1, <4>1, <4>2 DEF Coming
    <3>2. CASE ~(now >= periodFinish)
      <4>1. lastTimeRewardApplicable = now /\ periodFinish - now \in Nat
        BY <1>2, <3>2 DEF lastTimeRewardApplicable
      <4>2. (periodFinish - now) * rewardRate = rewardRate * (periodFinish - now)
        BY <1>2, <4>1, MulDist
      <4>3. (periodFinish - now) * rewardRate \in Nat
        BY <1>2, <4>1, MulNat
      <4> QED BY <3>2, <4>1, <4>2, <4>3 DEF Coming
    <3> QED BY <3>1, <3>2
  <2>2. NewRate(reward) = (reward + left) \div rewardsDuration
    BY <1>2 DEF NewRate
  <2> HIDE DEF left
  <2>3. NewRate(reward) * rewardsDuration <= reward + left /\ NewRate(reward) \in Nat
    BY <1>2, <2>1, <2>2, DivBelow
  <2>4. NewRate(reward) * rewardsDuration \in Nat
    BY <1>2, <2>3, MulNat
  <2>5. Coming(lastUpdateTime)' = SCALE * (NewRate(reward) * rewardsDuration)
    <3>1. periodFinish' - lastUpdateTime' = rewardsDuration
      BY <1>1, <1>2
    <3> QED BY <1>1, <3>1 DEF Coming
  <2>6. ASSUME NEW a \in Nat, NEW b \in Nat, a <= b PROVE SCALE * a <= SCALE * b
    BY <2>6, SMT
  <2>7. SCALE * (NewRate(reward) * rewardsDuration) <= SCALE * (reward + left)
    <3>1. reward + left \in Nat
      BY <1>2, <2>1
    <3> QED BY <2>3, <2>4, <2>6, <3>1
  <2>8. SCALE * (reward + left) = SCALE * reward + SCALE * left
    BY <1>2, <2>1, MulDist
  <2> QED BY <2>1, <2>5, <2>7, <2>8
<1>5. SumOver(Dues) \in Nat /\ SumOver(Dues) + Coming(lastTimeRewardApplicable) <= SCALE * balance.reward
  BY DuesCovered
<1>6. Coming(lastTimeRewardApplicable) \in Int /\ Coming(lastUpdateTime)' \in Int
  <2>1. lastTimeRewardApplicable \in Nat
    BY Views
  <2>2. rewardRate * (periodFinish - lastTimeRewardApplicable) \in Int
    BY <1>2, <2>1, MulDist
  <2>3. periodFinish' - lastUpdateTime' \in Int
    BY <1>1, <1>2
  <2>4. rewardRate' * (periodFinish' - lastUpdateTime') \in Int
    BY <1>2, <2>3, MulDist
  <2> QED BY <2>2, <2>4, MulDist DEF Coming
<1>7. SCALE * (balance.reward + reward) = SCALE * balance.reward + SCALE * reward
  BY <1>2, MulDist
<1>8. SCALE * balance.reward \in Nat /\ SCALE * reward \in Nat
  BY <1>2, MulNat
<1> QED BY <1>1, <1>3, <1>4, <1>5, <1>6, <1>7, <1>8

(* Stakes add up to the total: one account moves with it.                  *)
LEMMA StakesAdd ==
  ASSUME IInv, IInv', SumOver(staked) = totalStaked, NEW u \in User,
         \A v \in User \ {u} : staked'[v] = staked[v],
         totalStaked' - totalStaked = staked'[u] - staked[u]
  PROVE  SumOver(staked)' = totalStaked'
<1>1. \A v \in User : staked[v] \in Int /\ staked'[v] \in Int
  BY DEF IInv, TypeOK
<1>2. SumOver(staked)' = SumOver(staked) - staked[u] + staked'[u]
  BY <1>1, SumUpdate, StakingAssumption DEF SumOver
<1>3. totalStaked \in Int /\ totalStaked' \in Int
  BY DEF IInv, TypeOK
<1> QED BY <1>1, <1>2, <1>3

(* Every step keeps the accounts covered.                                  *)
LEMMA StepCovered == IInv /\ IInv' /\ Covered /\ [Next]_vars => Covered'
<1> SUFFICES ASSUME IInv, IInv', Covered, [Next]_vars PROVE Covered'
  OBVIOUS
<1> USE StakingAssumption
<1>1. /\ staked \in [User -> Nat] /\ totalStaked \in Nat /\ balance \in [staking : Nat, reward : Nat]
      /\ SumOver(staked) = totalStaked
  BY DEF IInv, TypeOK, Covered
<1>2. ASSUME NEW u \in User, NEW amount \in Amount, stake(u, amount) PROVE Covered'
  <2>1. /\ updateReward(u, 0) /\ UNCHANGED <<now, stream>> /\ totalStaked' = totalStaked + amount
        /\ staked' = [staked EXCEPT ![u] = @ + amount] /\ balance'.reward = balance.reward
    BY <1>1, <1>2 DEF stake
  <2>2. /\ \A v \in User \ {u} : staked'[v] = staked[v]
        /\ totalStaked' - totalStaked = staked'[u] - staked[u] /\ balance'.reward = balance.reward - 0
    BY <1>1, <2>1
  <2>3. SumOver(staked)' = totalStaked'
    BY <1>1, <2>2, StakesAdd
  <2>4. SumOver(Credits)' + Coming(lastUpdateTime)' <= SCALE * balance'.reward
    BY <2>1, <2>2, SettlementCovered
  <2> QED BY <2>3, <2>4 DEF Covered
<1>3. ASSUME NEW u \in User, NEW amount \in Amount, withdraw(u, amount) PROVE Covered'
  <2>1. /\ updateReward(u, 0) /\ UNCHANGED <<now, stream>> /\ totalStaked' = totalStaked - amount
        /\ staked' = [staked EXCEPT ![u] = @ - amount] /\ balance'.reward = balance.reward
    BY <1>1, <1>3 DEF withdraw, Unstake
  <2>2. /\ \A v \in User \ {u} : staked'[v] = staked[v]
        /\ totalStaked' - totalStaked = staked'[u] - staked[u] /\ balance'.reward = balance.reward - 0
    BY <1>1, <2>1
  <2>3. SumOver(staked)' = totalStaked'
    BY <1>1, <2>2, StakesAdd
  <2>4. SumOver(Credits)' + Coming(lastUpdateTime)' <= SCALE * balance'.reward
    BY <2>1, <2>2, SettlementCovered
  <2> QED BY <2>3, <2>4 DEF Covered
<1>4. ASSUME NEW u \in User, getReward(u) PROVE Covered'
  <2>1. /\ updateReward(u, earned(u)) /\ UNCHANGED <<now, stream>> /\ staked' = staked
        /\ totalStaked' = totalStaked /\ balance'.reward = balance.reward - earned(u)
    BY <1>1, <1>4 DEF getReward, stakes
  <2>2. SumOver(staked)' = totalStaked'
    BY <1>1, <2>1 DEF SumOver
  <2>3. SumOver(Credits)' + Coming(lastUpdateTime)' <= SCALE * balance'.reward
    BY <2>1, SettlementCovered
  <2> QED BY <2>2, <2>3 DEF Covered
<1>5. ASSUME NEW u \in User, exit(u) PROVE Covered'
  <2>1. /\ updateReward(u, earned(u)) /\ UNCHANGED <<now, stream>> /\ totalStaked' = totalStaked - staked[u]
        /\ staked' = [staked EXCEPT ![u] = @ - staked[u]] /\ balance'.reward = balance.reward - earned(u)
    BY <1>1, <1>5 DEF exit, Unstake
  <2>2. /\ \A v \in User \ {u} : staked'[v] = staked[v]
        /\ totalStaked' - totalStaked = staked'[u] - staked[u]
    BY <1>1, <2>1
  <2>3. SumOver(staked)' = totalStaked'
    BY <1>1, <2>2, StakesAdd
  <2>4. SumOver(Credits)' + Coming(lastUpdateTime)' <= SCALE * balance'.reward
    BY <2>1, <2>2, SettlementCovered
  <2> QED BY <2>3, <2>4 DEF Covered
<1>6. ASSUME NEW reward \in Reward, notifyRewardAmount(reward) PROVE Covered'
  <2>1. SumOver(staked)' = totalStaked'
    BY <1>1, <1>6 DEF notifyRewardAmount, stakes, SumOver
  <2> QED BY <1>6, <2>1, StreamCovered DEF Covered
<1>7. ASSUME UNCHANGED <<stakes, rewardRate, periodFinish, accounts, balance>> PROVE Covered'
  BY <1>7 DEF Covered, SumOver, Credits, Credit, Coming, stakes, accounts
<1>8. ASSUME NEW duration \in Duration, setRewardsDuration(duration) PROVE Covered'
  BY <1>7, <1>8 DEF setRewardsDuration
<1>9. CASE Tick
  BY <1>7, <1>9 DEF Tick, stream
<1>10. CASE UNCHANGED vars
  BY <1>7, <1>10 DEF vars, stream
<1> QED BY <1>2, <1>3, <1>4, <1>5, <1>6, <1>8, <1>9, <1>10 DEF Next, Operation

(* The accounts are covered always.                                        *)
LEMMA CoveredInvariance == Spec => [](IInv /\ Covered)
<1> QED
  BY Initially, InitCovered, Step, StepCovered, PTL DEF Spec

(* src/SwoodStaking.sol can always pay everything that has been earned and *)
(* the rest of the running stream, for every schedule of stakes, claims,   *)
(* exits and new streams.                                                  *)
THEOREM SolventCorrect == Spec => []Solvent
<1> QED
  BY CoveredInvariance, CoveredIsSolvent, PTL

-----------------------------------------------------------------------------
(* The governor's steps: votes leave the staking contract alone, and a     *)
(* transfer of the staking token only moves what is not staked.            *)
LEMMA Transferred ==
  ASSUME IInv, Covered, NEW from \in User, NEW to \in User, NEW amount \in Amount, transfer(from, to, amount)
  PROVE  IInv' /\ Covered'
<1>1. wallet \in [User -> Nat] /\ amount \in Nat /\ amount <= wallet[from]
  BY StakingAssumption DEF IInv, TypeOK, transfer
<1>2. /\ wallet' = [wallet EXCEPT ![from] = @ - amount, ![to] = @ + amount] /\ from # to
      /\ UNCHANGED <<now, staked, totalStaked, stream, accounts, balance, notices>>
  BY DEF transfer
<1>3. wallet' \in [User -> Nat]
  <2>1. wallet[from] - amount \in Nat /\ wallet[to] + amount \in Nat
    BY <1>1
  <2> QED BY <1>1, <1>2, <2>1
<1>4. IInv'
  BY <1>2, <1>3 DEF IInv, TypeOK, NeverStuck, lastTimeRewardApplicable, stream, accounts
<1>5. Covered'
  BY <1>2 DEF Covered, SumOver, Credits, Credit, Coming, stream, accounts
<1> QED BY <1>4, <1>5

(* Steps of the governor, which stakers vote in, are steps of the staking  *)
(* contract or leave it alone.                                             *)
LEMMA GovernorStep ==
  IInv /\ Covered /\ [GovernorNext]_<<vars, governance>> => IInv' /\ Covered'
<1> SUFFICES ASSUME IInv, Covered, [GovernorNext]_<<vars, governance>> PROVE IInv' /\ Covered'
  OBVIOUS
<1>1. ASSUME [Next]_vars PROVE IInv' /\ Covered'
  BY <1>1, Step, StepCovered
<1>0. CASE StakingStep
  BY <1>0, <1>1 DEF StakingStep
<1>2. ASSUME NEW u \in User, propose(u) PROVE [Next]_vars
  BY <1>2 DEF propose
<1>3. ASSUME NEW u \in User, NEW id \in DOMAIN proposals, NEW choice \in {"for", "against"}, vote(u, id, choice)
      PROVE  [Next]_vars
  BY <1>3 DEF vote
<1>4. ASSUME NEW from \in User, NEW to \in User, NEW amount \in Amount, transfer(from, to, amount)
      PROVE  IInv' /\ Covered'
  BY <1>4, Transferred
<1>5. CASE UNCHANGED <<vars, governance>>
  BY <1>1, <1>5
<1> QED BY <1>0, <1>1, <1>2, <1>3, <1>4, <1>5 DEF GovernorNext

(* The accounts are covered always, whatever is voted and executed.        *)
LEMMA GovernorInvariance == GovernorSpec => [](IInv /\ Covered)
<1>1. GovernorInit => IInv /\ Covered
  BY Initially, InitCovered DEF GovernorInit
<1> QED
  BY <1>1, GovernorStep, PTL DEF GovernorSpec

(* With the governor and a freely traded token beside it, the staking      *)
(* contract still pays everyone in full and no call of it gets stuck.      *)
THEOREM SolventUnderGovernor == GovernorSpec => [](Solvent /\ NeverStuck)
<1>1. IInv => NeverStuck
  BY DEF IInv
<1> QED
  BY <1>1, GovernorInvariance, CoveredIsSolvent, PTL

(* Types of the governor's state.                                          *)
Proposal == [end : Nat, forVotes : Nat, againstVotes : Nat]
Ballot == [User -> {"none", "for", "against"}]
Peak == [User -> Nat]

(* Tallies are what was staked, and while a proposal is open nobody has    *)
(* more at stake than is noted.                                            *)
VotedFor(id) ==
  /\ Tally(id) <= SumOver(MostOfVoters(id))
  /\ now < proposals[id].end => \A u \in User : staked[u] <= mostStaked[id][u]
VotesInv == GovernorTypeOK /\ \A id \in DOMAIN proposals : VotedFor(id)

(* What the types say of one proposal.                                     *)
LEMMA OfProposal ==
  ASSUME GovernorTypeOK, NEW id \in DOMAIN proposals
  PROVE  /\ id \in 1 .. Len(proposals)
         /\ proposals[id] \in Proposal /\ voteOf[id] \in Ballot /\ mostStaked[id] \in Peak
         /\ Tally(id) \in Nat /\ \A u \in User : MostOfVoters(id)[u] \in Nat
<1>1. /\ proposals \in Seq(Proposal) /\ voteOf \in Seq(Ballot) /\ mostStaked \in Seq(Peak)
      /\ Len(voteOf) = Len(proposals) /\ Len(mostStaked) = Len(proposals)
  BY DEF GovernorTypeOK, Proposal, Ballot, Peak
<1>2. id \in 1 .. Len(proposals) /\ proposals[id] \in Proposal /\ voteOf[id] \in Ballot /\ mostStaked[id] \in Peak
  BY <1>1
<1>3. Tally(id) \in Nat
  BY <1>2 DEF Proposal, Tally
<1>4. \A u \in User : MostOfVoters(id)[u] \in Nat
  BY <1>2 DEF Peak, MostOfVoters
<1> QED BY <1>2, <1>3, <1>4

(* A new proposal has no votes, and the stakes of the moment are noted.    *)
LEMMA ProposeStep ==
  ASSUME VotesInv, IInv, NEW u \in User, propose(u) PROVE VotesInv'
<1> DEFINE p == [end |-> now + votingPeriod, forVotes |-> 0, againstVotes |-> 0]
           none == [v \in User |-> "none"]
<1>1. p \in Proposal /\ p.forVotes = 0 /\ p.againstVotes = 0
  BY StakingAssumption, GovernorAssumption DEF Proposal, IInv, TypeOK
<1>2. none \in Ballot /\ staked \in Peak
  BY DEF Ballot, Peak, IInv, TypeOK
<1>3. /\ proposals' = Append(proposals, p) /\ voteOf' = Append(voteOf, none)
      /\ mostStaked' = Append(mostStaked, staked) /\ UNCHANGED <<now, staked>>
  BY DEF propose, vars, stakes
<1>4. /\ proposals \in Seq(Proposal) /\ voteOf \in Seq(Ballot) /\ mostStaked \in Seq(Peak)
      /\ Len(voteOf) = Len(proposals) /\ Len(mostStaked) = Len(proposals)
  BY DEF VotesInv, GovernorTypeOK, Proposal, Ballot, Peak
<1> HIDE DEF p
<1>5. /\ proposals' \in Seq(Proposal) /\ voteOf' \in Seq(Ballot) /\ mostStaked' \in Seq(Peak)
      /\ Len(voteOf') = Len(proposals') /\ Len(mostStaked') = Len(proposals')
  <2> HIDE DEF none
  <2> QED BY <1>1, <1>2, <1>3, <1>4
<1>6. GovernorTypeOK'
  BY <1>5 DEF GovernorTypeOK, Proposal, Ballot, Peak
<1>7. ASSUME NEW id \in DOMAIN proposals' PROVE VotedFor(id)'
  <2>1. CASE id \in DOMAIN proposals
    <3>1. proposals'[id] = proposals[id] /\ voteOf'[id] = voteOf[id] /\ mostStaked'[id] = mostStaked[id]
      <4> HIDE DEF none
      <4> QED BY <1>3, <1>4, <2>1
    <3>2. VotedFor(id)
      BY <2>1 DEF VotesInv
    <3> QED BY <1>3, <3>1, <3>2 DEF VotedFor, Tally, MostOfVoters, SumOver
  <2>2. CASE id \notin DOMAIN proposals
    <3>1. id = Len(proposals) + 1
      BY <1>3, <1>4, <2>2
    <3>2. proposals'[id] = p /\ voteOf'[id] = none /\ mostStaked'[id] = staked
      <4> HIDE DEF none
      <4> QED BY <1>3, <1>4, <3>1
    <3>3. \A v \in User : MostOfVoters(id)'[v] = 0
      BY <3>2 DEF MostOfVoters
    <3>4. SumOver(MostOfVoters(id))' \in Nat
      BY <3>3, SumNat, StakingAssumption DEF SumOver
    <3>5. Tally(id)' = 0
      BY <1>1, <3>2 DEF Tally
    <3>6. \A v \in User : staked'[v] <= mostStaked'[id][v]
      BY <1>2, <1>3, <3>2 DEF Peak
    <3> QED BY <3>4, <3>5, <3>6 DEF VotedFor
  <2> QED BY <2>1, <2>2
<1> QED BY <1>6, <1>7 DEF VotesInv

(* A vote adds what its voter has at stake, and the voter to the voters.   *)
LEMMA VoteStep ==
  ASSUME VotesInv, IInv, NEW u \in User, NEW id \in DOMAIN proposals, NEW choice \in {"for", "against"}, vote(u, id, choice)
  PROVE  VotesInv'
<1> DEFINE p == proposals[id]
           weight == staked[u]
           q == Counted(p, choice, weight)
           ballot == [voteOf[id] EXCEPT ![u] = choice]
<1>0. /\ p \in Proposal /\ voteOf[id] \in Ballot /\ mostStaked[id] \in Peak /\ id \in 1 .. Len(proposals)
      /\ Tally(id) \in Nat /\ \A v \in User : MostOfVoters(id)[v] \in Nat
  BY OfProposal DEF VotesInv
<1>1. weight \in Nat /\ staked \in [User -> Nat]
  BY DEF IInv, TypeOK
<1>2. /\ now < p.end /\ voteOf[id][u] = "none"
      /\ voteOf' = [voteOf EXCEPT ![id] = ballot] /\ proposals' = [proposals EXCEPT ![id] = q]
      /\ UNCHANGED <<now, staked, mostStaked>>
  BY DEF vote, isActive, NotVoted, vars, stakes
<1>3. q \in Proposal /\ q.end = p.end /\ q.forVotes + q.againstVotes = p.forVotes + p.againstVotes + weight
  <2>1. p \in Proposal /\ weight \in Nat
    BY <1>0, <1>1
  <2> HIDE DEF p, weight
  <2>2. CASE choice = "for"
    <3>1. q = [p EXCEPT !.forVotes = @ + weight]
      BY <2>2 DEF Counted
    <3>2. p.forVotes + weight \in Nat /\ p.againstVotes \in Nat /\ p.forVotes \in Nat
      BY <2>1 DEF Proposal
    <3> QED BY <2>1, <3>1, <3>2 DEF Proposal
  <2>3. CASE choice # "for"
    <3>1. q = [p EXCEPT !.againstVotes = @ + weight]
      BY <2>3 DEF Counted
    <3>2. p.againstVotes + weight \in Nat /\ p.againstVotes \in Nat /\ p.forVotes \in Nat
      BY <2>1 DEF Proposal
    <3> QED BY <2>1, <3>1, <3>2 DEF Proposal
  <2> QED BY <2>2, <2>3
<1>4. ballot \in Ballot /\ ballot[u] # "none" /\ \A v \in User \ {u} : ballot[v] = voteOf[id][v]
  BY <1>0 DEF Ballot
<1>5. /\ proposals \in Seq(Proposal) /\ voteOf \in Seq(Ballot) /\ mostStaked \in Seq(Peak)
      /\ Len(voteOf) = Len(proposals) /\ Len(mostStaked) = Len(proposals)
  BY DEF VotesInv, GovernorTypeOK, Proposal, Ballot, Peak
<1> HIDE DEF q, ballot
<1>6. /\ proposals' \in Seq(Proposal) /\ voteOf' \in Seq(Ballot) /\ mostStaked' \in Seq(Peak)
      /\ Len(voteOf') = Len(proposals') /\ Len(mostStaked') = Len(proposals')
      /\ DOMAIN proposals' = DOMAIN proposals
  BY <1>2, <1>3, <1>4, <1>5
<1>7. GovernorTypeOK'
  BY <1>6 DEF GovernorTypeOK, Proposal, Ballot, Peak
<1>8. ASSUME NEW i \in DOMAIN proposals' PROVE VotedFor(i)'
  <2>0. i \in DOMAIN proposals /\ VotedFor(i)
    BY <1>6 DEF VotesInv
  <2>1. CASE i # id
    <3>1. proposals'[i] = proposals[i] /\ voteOf'[i] = voteOf[i]
      BY <1>2, <1>5, <2>0, <2>1
    <3> QED BY <1>2, <2>0, <3>1 DEF VotedFor, Tally, MostOfVoters, SumOver
  <2>2. CASE i = id
    <3>1. proposals'[i] = q /\ voteOf'[i] = ballot /\ mostStaked'[i] = mostStaked[i]
      BY <1>0, <1>2, <1>5, <2>2
    <3>2. Tally(i)' = Tally(id) + weight
      BY <1>0, <1>3, <2>2, <3>1 DEF Tally
    <3>3. \A v \in User : /\ MostOfVoters(i)'[v] \in Nat /\ MostOfVoters(id)[v] \in Nat
                          /\ v # u => MostOfVoters(i)'[v] = MostOfVoters(id)[v]
      BY <1>0, <1>4, <2>2, <3>1 DEF MostOfVoters, Peak
    <3>4. MostOfVoters(id)[u] = 0 /\ MostOfVoters(i)'[u] = mostStaked[id][u]
      BY <1>2, <1>4, <2>2, <3>1 DEF MostOfVoters
    <3>5. SumOver(MostOfVoters(i))' = SumOver(MostOfVoters(id)) - 0 + mostStaked[id][u]
      <4>1. \A v \in User : MostOfVoters(id)[v] \in Int /\ MostOfVoters(i)'[v] \in Int
        BY <3>3
      <4>2. \A v \in User \ {u} : MostOfVoters(i)'[v] = MostOfVoters(id)[v]
        BY <3>3
      <4>3. ASSUME NEW v, NEW w, \A x \in User : v[x] \in Int /\ w[x] \in Int, \A x \in User \ {u} : w[x] = v[x]
            PROVE  SumFunctionOnSet(w, User) = SumFunctionOnSet(v, User) - v[u] + w[u]
        BY <4>3, SumUpdate, StakingAssumption
      <4>4. SumFunctionOnSet(MostOfVoters(i)', User)
              = SumFunctionOnSet(MostOfVoters(id), User) - MostOfVoters(id)[u] + MostOfVoters(i)'[u]
        BY <4>1, <4>2, <4>3
      <4> QED BY <3>4, <4>4 DEF SumOver
    <3>6. SumOver(MostOfVoters(id)) \in Nat
      BY <3>3, SumNat, StakingAssumption DEF SumOver
    <3>7. weight <= mostStaked[id][u] /\ mostStaked[id][u] \in Nat
      BY <1>0, <1>2, <2>0, <2>2 DEF VotedFor, Peak
    <3>8. Tally(id) <= SumOver(MostOfVoters(id))
      BY <2>0, <2>2 DEF VotedFor
    <3>9. Tally(i)' <= SumOver(MostOfVoters(i))'
      BY <1>0, <1>1, <3>2, <3>5, <3>6, <3>7, <3>8
    <3>10. now' < proposals'[i].end => \A v \in User : staked'[v] <= mostStaked'[i][v]
      BY <1>2, <2>0, <2>2, <3>1 DEF VotedFor
    <3> QED BY <3>9, <3>10 DEF VotedFor
  <2> QED BY <2>1, <2>2
<1> QED BY <1>7, <1>8 DEF VotesInv

(* A step of the staking contract leaves the votes, and is noted in what   *)
(* each has had at stake.                                                  *)
LEMMA StakesNoted ==
  ASSUME VotesInv, IInv, IInv', StakingStep PROVE VotesInv'
<1>0. /\ now \in Nat /\ now' \in Nat /\ now <= now' /\ staked' \in [User -> Nat]
      /\ UNCHANGED <<proposals, voteOf>>
  BY DEF IInv, TypeOK, StakingStep, Next, Tick, Operation, stake, withdraw, getReward, exit,
         notifyRewardAmount, setRewardsDuration
<1>1. mostStaked' = [id \in DOMAIN mostStaked |->
        IF now < proposals[id].end THEN [u \in User |-> Higher(mostStaked[id][u], staked'[u])] ELSE mostStaked[id]]
  BY DEF StakingStep
<1>2. /\ proposals \in Seq(Proposal) /\ voteOf \in Seq(Ballot) /\ mostStaked \in Seq(Peak)
      /\ Len(voteOf) = Len(proposals) /\ Len(mostStaked) = Len(proposals)
  BY DEF VotesInv, GovernorTypeOK, Proposal, Ballot, Peak
<1>3. ASSUME NEW id \in DOMAIN proposals
      PROVE  /\ mostStaked'[id] \in Peak /\ id \in 1 .. Len(proposals)
             /\ \A u \in User : mostStaked[id][u] <= mostStaked'[id][u]
             /\ now < proposals[id].end => \A u \in User : staked'[u] <= mostStaked'[id][u]
  <2>1. mostStaked[id] \in Peak /\ id \in 1 .. Len(proposals)
    BY OfProposal DEF VotesInv
  <2>2. id \in DOMAIN mostStaked
    BY <1>2, <2>1
  <2>3. CASE now < proposals[id].end
    <3>1. mostStaked'[id] = [u \in User |-> Higher(mostStaked[id][u], staked'[u])]
      BY <1>1, <2>2, <2>3
    <3> QED BY <1>0, <2>1, <3>1 DEF Peak, Higher
  <2>4. CASE ~ (now < proposals[id].end)
    <3>1. mostStaked'[id] = mostStaked[id]
      BY <1>1, <2>2, <2>4
    <3> QED BY <2>1, <2>4, <3>1 DEF Peak
  <2> QED BY <2>3, <2>4
<1>4. mostStaked' \in Seq(Peak) /\ Len(mostStaked') = Len(proposals)
  <2>1. mostStaked' \in [1 .. Len(proposals) -> Peak]
    <3>1. DOMAIN mostStaked = 1 .. Len(proposals) /\ DOMAIN proposals = 1 .. Len(proposals)
      BY <1>2
    <3> HIDE DEF Peak
    <3> QED BY <1>1, <1>3, <3>1
  <2>2. Len(proposals) \in Nat
    BY <1>2
  <2> HIDE DEF Peak
  <2> QED BY <2>1, <2>2
<1>5. GovernorTypeOK'
  BY <1>0, <1>2, <1>4 DEF GovernorTypeOK, Proposal, Ballot, Peak
<1>6. ASSUME NEW id \in DOMAIN proposals' PROVE VotedFor(id)'
  <2>1. id \in DOMAIN proposals /\ VotedFor(id)
    BY <1>0 DEF VotesInv
  <2>2. /\ proposals[id] \in Proposal /\ mostStaked[id] \in Peak /\ Tally(id) \in Nat
        /\ \A u \in User : MostOfVoters(id)[u] \in Nat
    BY <2>1, OfProposal DEF VotesInv
  <2>3. \A u \in User : MostOfVoters(id)'[u] \in Nat /\ MostOfVoters(id)[u] <= MostOfVoters(id)'[u]
    BY <1>0, <1>3, <2>1, <2>2 DEF MostOfVoters, Peak
  <2>4. SumOver(MostOfVoters(id)) <= SumOver(MostOfVoters(id))'
    <3>1. \A u \in User : MostOfVoters(id)[u] \in Int /\ MostOfVoters(id)'[u] \in Int
                          /\ MostOfVoters(id)[u] <= MostOfVoters(id)'[u]
      BY <2>2, <2>3
    <3> QED BY <3>1, SumMonotone, StakingAssumption DEF SumOver
  <2>5. SumOver(MostOfVoters(id)) \in Nat /\ SumOver(MostOfVoters(id))' \in Nat
    BY <2>2, <2>3, SumNat, StakingAssumption DEF SumOver
  <2>6. Tally(id)' = Tally(id)
    BY <1>0 DEF Tally
  <2>7. now' < proposals'[id].end => now < proposals[id].end
    BY <1>0, <2>2 DEF Proposal
  <2> QED BY <1>3, <2>1, <2>2, <2>4, <2>5, <2>6, <2>7 DEF VotedFor
<1> QED BY <1>5, <1>6 DEF VotesInv

(* Every step keeps the tallies backed.                                    *)
LEMMA VotesStep ==
  VotesInv /\ IInv /\ IInv' /\ [GovernorNext]_<<vars, governance>> => VotesInv'
<1> SUFFICES ASSUME VotesInv, IInv, IInv', [GovernorNext]_<<vars, governance>> PROVE VotesInv'
  OBVIOUS
<1>1. ASSUME UNCHANGED <<now, staked, governance>> PROVE VotesInv'
  BY <1>1 DEF VotesInv, GovernorTypeOK, VotedFor, Tally, MostOfVoters, SumOver, governance
<1>2. ASSUME NEW from \in User, NEW to \in User, NEW amount \in Amount, transfer(from, to, amount) PROVE VotesInv'
  BY <1>1, <1>2 DEF transfer
<1>3. CASE UNCHANGED <<vars, governance>>
  BY <1>1, <1>3 DEF vars, stakes
<1> QED BY <1>2, <1>3, ProposeStep, VoteStep, StakesNoted DEF GovernorNext

(* src/SwoodGovernor.sol: whatever stakers stake, withdraw and trade while *)
(* proposals are open, a tally is never above what its voters have each    *)
(* had at stake at one time while it was.                                  *)
THEOREM TallyWasStakedCorrect == GovernorSpec => []TallyWasStaked
<1>1. GovernorInit => VotesInv
  BY DEF GovernorInit, VotesInv, GovernorTypeOK
<1>2. VotesInv => TallyWasStaked
  BY DEF VotesInv, VotedFor, TallyWasStaked
<1> QED
  BY <1>1, <1>2, VotesStep, GovernorInvariance, PTL DEF GovernorSpec
=============================================================================
