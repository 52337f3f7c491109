------------------------------- MODULE Points -------------------------------
(***************************************************************************)
(* The points service (points/src/server.ts, points/src/ledger.ts): an     *)
(* indexer attributes each Deposit event to the sender of its transaction, *)
(* and signed referrals settle once the referee has shielded. Indexer and  *)
(* request handlers share one state in memory and interleave at awaits;    *)
(* the state is saved to a file from which a restart loads it.             *)
(*                                                                         *)
(* Operators Name_Fault are faults that the README lists.                  *)
(***************************************************************************)
EXTENDS Integers, SequencesExt

CONSTANTS
  Addr, Shielder, \* those that deposit; the others only refer or are referred
  None,          \* no referrer
  Request,       \* referral requests being handled at a time
  Kind,          \* what emits Deposit: "shield" and "swap"
  Failing,       \* whether an RPC call of the indexer may fail
  DayOf,         \* DayOf[n]: the day of block n
  rules,         \* the points of each thing: see PointsAssumption
  MaxBlocks, MaxEvents, MaxCrashes      \* bounds: the chain, its events, restarts

ASSUME PointsAssumption ==
  /\ IsFiniteSet(Addr) /\ None \notin Addr /\ Shielder \subseteq Addr /\ Kind \subseteq {"shield", "swap"} /\ Failing \in BOOLEAN
  /\ {MaxBlocks, MaxEvents, MaxCrashes} \subseteq Nat
  /\ DayOf \in [1 .. MaxBlocks -> Nat]
  /\ rules \in [{"shield", "day", "weekStreakBonus", "referrer", "referee"} -> Nat]

VARIABLES
  chain,         \* the blocks, each the sequence of its Deposit events
  state, disk,   \* the ledger in memory and in the file
  indexer,       \* the run of index: where it waits, its events, the next one
  request,       \* per request: where it waits and its locals
  crashes

pointsVars == <<chain, state, disk, indexer, request, crashes>>

NoReferrers == [a \in Addr |-> None]
emptyState ==
  [lastBlock |-> 0, known |-> << >>, shields |-> [a \in Addr |-> 0], days |-> [a \in Addr |-> {}],
   referredBy |-> NoReferrers, referrals |-> [a \in Addr |-> {}], pending |-> NoReferrers]
IndexerResting == [at |-> "idle", from |-> 1, events |-> << >>, next |-> 1]
NoRequest == [at |-> "idle", referee |-> None, referrer |-> None, seen |-> FALSE]

PointsInit ==
  /\ chain = << >> /\ state = emptyState /\ disk = emptyState
  /\ indexer = IndexerResting /\ request = [q \in Request |-> NoRequest] /\ crashes = 0

Events == FlattenSeq(chain)

(* A block with at most two deposits, transactions of their senders.       *)
Mine ==
  /\ Len(chain) < MaxBlocks
  /\ \E n \in 0 .. 2 : \E block \in [1 .. n -> [from : Shielder, kind : Kind, block : {Len(chain) + 1}]] :
       Len(Events) + n <= MaxEvents /\ chain' = Append(chain, block)
  /\ UNCHANGED <<state, disk, indexer, request, crashes>>

-----------------------------------------------------------------------------
Save(ledger) == state' = ledger /\ disk' = ledger

(* The scan up to the head.                                                *)
Scan ==
  /\ indexer.at = "idle"
  /\ LET from   == state.lastBlock + 1
         events == FlattenSeq(SubSeq(chain, from, Len(chain)))
     IN  indexer' = [at |-> IF events = << >> THEN "bump" ELSE "count", from |-> from,
                     events |-> events, next |-> 1]
  /\ UNCHANGED <<chain, state, disk, request, crashes>>

ensure(ledger, a) == [ledger EXCEPT !.known = IF a \in Range(@) THEN @ ELSE Append(@, a)]

Refer(ledger, referee, referrer) ==
  [ensure(ledger, referrer) EXCEPT !.referredBy[referee] = referrer, !.referrals[referrer] = @ \cup {referee}]

(* One deposit for its sender; a pending referral settles with the first.  *)
CountedFor(ledger, event) ==
  LET a       == event.from
      counted == [ensure(ledger, a) EXCEPT !.shields[a] = @ + 1, !.days[a] = @ \cup {DayOf[event.block]}]
      ref     == ledger.pending[a]
  IN  IF ref # None /\ ledger.referredBy[a] = None /\ ref # a
      THEN [Refer(counted, a, ref) EXCEPT !.pending[a] = None]
      ELSE counted

Cursor_OneTooFar(lastBlock, events) == Max({lastBlock} \cup { events[i].block + 1 : i \in DOMAIN events })
Cursor_Unmoved(lastBlock, events) == lastBlock
Cursor(lastBlock, events) == Max({lastBlock} \cup { events[i].block : i \in DOMAIN events })

(* The sender and the day of an event are known: it is counted. With the   *)
(* last one the cursor moves and the ledger is saved, in the same go.      *)
Count ==
  /\ indexer.at = "count"
  /\ LET counted == CountedFor(state, indexer.events[indexer.next])
     IN  IF indexer.next < Len(indexer.events)
         THEN /\ state' = counted
              /\ indexer' = [indexer EXCEPT !.next = @ + 1]
              /\ UNCHANGED disk
         ELSE /\ Save([counted EXCEPT !.lastBlock = Cursor(@, indexer.events)])
              /\ indexer' = IndexerResting
  /\ UNCHANGED <<chain, request, crashes>>

(* No events: the cursor moves to the head asked for again, if answered.   *)
Bump ==
  /\ indexer.at = "bump"
  /\ \/ Save([state EXCEPT !.lastBlock = Len(chain)])
     \/ Failing /\ Save(state)
  /\ indexer' = IndexerResting
  /\ UNCHANGED <<chain, request, crashes>>

(* getTransaction or getBlock fails for good. (The bound on what has been  *)
(* counted ends the retries, each of which counts again.)                  *)
IndexFails ==
  /\ Failing /\ indexer.at = "count"
  /\ \A a \in Addr : state.shields[a] < MaxEvents
  /\ indexer' = IndexerResting
  /\ UNCHANGED <<chain, state, disk, request, crashes>>

-----------------------------------------------------------------------------
(* A referral arrives, and its signature is being verified.                *)
handleReferral(q) ==
  /\ request[q].at = "idle"
  /\ \E referee, referrer \in Addr :
       /\ referee # referrer /\ state.referredBy[referee] = None
       /\ request' = [request EXCEPT ![q] =
            [at |-> "verify", referee |-> referee, referrer |-> referrer,
             seen |-> referee \in Range(state.known)]]
  /\ UNCHANGED <<chain, state, disk, indexer, crashes>>

MaySettle_Checked(q) == request[q].seen /\ state.shields[request[q].referee] > 0
MaySettle(q) == /\ request[q].seen /\ state.shields[request[q].referee] > 0
                /\ state.referredBy[request[q].referee] = None

(* It is settled if the referee has shielded, else parked. What the        *)
(* handler knew before it waited decides, if it knew no such address.      *)
Verified(q) ==
  /\ request[q].at = "verify"
  /\ LET referee  == request[q].referee
         referrer == request[q].referrer
     IN  Save(IF MaySettle(q) THEN Refer(state, referee, referrer)
              ELSE [state EXCEPT !.pending[referee] = referrer])
  /\ request' = [request EXCEPT ![q] = NoRequest]
  /\ UNCHANGED <<chain, indexer, crashes>>

BadSignature(q) ==
  /\ request[q].at = "verify"
  /\ request' = [request EXCEPT ![q] = NoRequest]
  /\ UNCHANGED <<chain, state, disk, indexer, crashes>>

Crash ==
  /\ crashes < MaxCrashes /\ crashes' = crashes + 1
  /\ state' = disk
  /\ indexer' = IndexerResting /\ request' = [q \in Request |-> NoRequest]
  /\ UNCHANGED <<chain, disk>>

PointsNext ==
  \/ Mine \/ Scan \/ Count \/ Bump \/ IndexFails \/ Crash
  \/ \E q \in Request : handleReferral(q) \/ Verified(q) \/ BadSignature(q)

PointsSpec == PointsInit /\ [][PointsNext]_pointsVars

-----------------------------------------------------------------------------
(* What a ledger is worth: the formula, and the two places that rank by it.*)
(* Equal entries keep the order in which the ledger came to know them.     *)
currentStreak(days) ==
  IF days = {} THEN 0
  ELSE Max({n \in 1 .. Cardinality(days) : (Max(days) - n + 1) .. Max(days) \subseteq days})

pointsFor(ledger, a) ==
  LET shield   == ledger.shields[a] * rules.shield
      daily    == Cardinality(ledger.days[a]) * rules.day
      bonus    == IF currentStreak(ledger.days[a]) >= 7 THEN rules.weekStreakBonus ELSE 0
      referral == Cardinality(ledger.referrals[a]) * rules.referrer
                  + IF ledger.referredBy[a] # None THEN rules.referee ELSE 0
  IN  [total |-> shield + daily + bonus + referral, referral |-> referral]

Scored(ledger) == SelectSeq(ledger.known, LAMBDA a : pointsFor(ledger, a).total > 0)
Before(ledger, Over(_, _)) ==      \* rows, those that come first by Over in front
  LET rows == Scored(ledger)
      place(i) == Cardinality({j \in DOMAIN rows :
                    Over(rows[j], rows[i]) \/ (~ Over(rows[i], rows[j]) /\ j <= i)})
  IN  [n \in DOMAIN rows |-> rows[CHOOSE i \in DOMAIN rows : place(i) = n]]

leaderboard(ledger) ==
  LET total(a) == pointsFor(ledger, a).total
  IN  Before(ledger, LAMBDA a, b : total(a) > total(b)
                       \/ (total(a) = total(b) /\ ledger.shields[a] > ledger.shields[b]))
rankOf(ledger, addr) ==
  LET all == Before(ledger, LAMBDA a, b : pointsFor(ledger, a).total > pointsFor(ledger, b).total)
  IN  Max({0} \cup {n \in DOMAIN all : all[n] = addr})

-----------------------------------------------------------------------------
(* A referral is known to both sides, in memory and in the file, through   *)
(* overlapping requests, half-done scans, failures and restarts: a referee *)
(* has one referrer, both earn for it exactly once, and only once the      *)
(* referee has shielded (points/src/ledger.ts:12).                         *)
ReferralsAgree ==
  \A ledger \in {state, disk} :
    LET settled == {a \in Addr : ledger.referredBy[a] # None}
        earned  == SumFunctionOnSet([a \in Addr |-> pointsFor(ledger, a).referral], Addr)
    IN  /\ \A a, b \in Addr : b \in ledger.referrals[a] <=> ledger.referredBy[b] = a
        /\ \A a \in settled : ledger.shields[a] > 0
        /\ earned = Cardinality(settled) * (rules.referrer + rules.referee)

(* The rank shown with an address (points/src/server.ts:150) is its place  *)
(* on the leaderboard (points/src/server.ts:141).                          *)
OneRank == \A n \in DOMAIN leaderboard(state) : rankOf(state, leaderboard(state)[n]) = n

(* No event costs an address points.                                       *)
PointsNeverFall ==
  [][crashes' = crashes => \A a \in Addr : pointsFor(state', a).total >= pointsFor(state, a).total]_pointsVars

By(events, a) == Len(SelectSeq(events, LAMBDA e : e.from = a))
Scanned == FlattenSeq(SubSeq(chain, 1, state.lastBlock))
AtRest == indexer.at = "idle"

(* "number of shields (Deposit events) attributed to this address"         *)
(* (points/src/ledger.ts:8): no event counts twice.                        *)
NoneCountedTwice == AtRest => \A a \in Addr : state.shields[a] <= By(Scanned, a)

(* "advance cursor only to the highest block actually observed (avoid      *)
(* overshoot)" (points/src/server.ts:83): no event up to it is missing.    *)
NoneMissed == AtRest => \A a \in Addr : state.shields[a] >= By(Scanned, a)

(* "Private transfers/swaps are intentionally NOT tracked"                 *)
(* (points/src/server.ts:3-4): only shields count.                         *)
SwapsUntracked ==
  AtRest => \A a \in Addr :
    state.shields[a] <= By(SelectSeq(Scanned, LAMBDA e : e.kind = "shield"), a)

(* A pending referral is "awaiting first shield" (points/src/ledger.ts:18).*)
PendingAwaitsShield ==
  AtRest => \A a \in Addr : state.pending[a] # None => state.shields[a] = 0
=============================================================================
