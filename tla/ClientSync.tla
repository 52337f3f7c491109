----------------------------- MODULE ClientSync -----------------------------
(***************************************************************************)
(* How a client follows the pool (client/src/pool.ts, sync): it scans the  *)
(* events of new blocks, appends leaves to its tree, collects its notes,   *)
(* the spent nullifiers and the deposit labels, moves a cursor, and checks *)
(* its root against the contract. Calls of sync overlap at their awaits.   *)
(*                                                                         *)
(* A transaction stands for the pair of leaves and the events it emits; a  *)
(* tree is the sequence of its transactions, known to the contract when it *)
(* is a prefix of the chain's. Operators Name_Fault are faults (README).   *)
(***************************************************************************)
EXTENDS Integers, SequencesExt

CONSTANTS
  Tx,            \* transactions that may be mined, each at most once
  Own,           \* those that leave a note to this account
  Swap,          \* those whose note is a swap's claim: its amount is in SwapExecuted
  Labelled,      \* those that mint a label (shields and swaps): event Deposit
  SpenderOf,     \* SpenderOf[t]: the transactions that spend the note of t
  Call,          \* calls of sync
  Scenario       \* what may happen in one behaviour: records [calls, reorgs, restarts,
                 \* lag, blocks]: the calls of sync that overlap and bounds on the rest

ASSUME BoundsAssumption ==
  /\ Swap \subseteq Labelled /\ Labelled \subseteq Tx /\ Own \subseteq Tx
  /\ \A s \in Scenario : {s.reorgs, s.restarts, s.lag, s.blocks} \subseteq Nat

VARIABLES
  scenario,      \* the one this behaviour is about
  chain,         \* the blocks, each a sequence of transactions
  trail,         \* blocks a node of the RPC may be behind, at most scenario.lag
  reorgs,        \* reorganisations so far
  client,        \* tree, owned, spent, assoc, syncedToBlock and, auxiliary, torn
  cache,         \* the last snapshot
  restarts,      \* restarts so far
  call,          \* per call of sync: where it waits and its locals
  settled        \* auxiliary: the root check passed since the last reorganisation

clientVars == <<scenario, chain, trail, reorgs, client, cache, restarts, call, settled>>

Null == -1                        \* syncedToBlock = null
Fresh == [tree |-> << >>, owned |-> << >>, spent |-> {}, assoc |-> << >>, cursor |-> Null,
          torn |-> FALSE]
Idle == [at |-> "idle", from |-> 0, head |-> 0, rescan |-> FALSE, root |-> << >>]

Leaves(blocks) == FlattenSeq(blocks)

(* The elements of s that are in S, in their order.                        *)
Only(s, S) == FlattenSeq([i \in DOMAIN s |-> IF s[i] \in S THEN <<s[i]>> ELSE << >>])

Mined == Range(Leaves(chain))

(* A spend follows the note it spends.                                     *)
Valid(blocks) ==
  LET txs == Leaves(blocks)
  IN  /\ IsInjective(txs)
      /\ \A t \in Tx : \A s \in SpenderOf[t] :
           \A i \in DOMAIN txs : txs[i] = s => \E j \in 1 .. i - 1 : txs[j] = t

Block == {<< >>} \cup { <<t>> : t \in Tx } \cup (Tx \X Tx)

ClientInit ==
  /\ scenario \in Scenario
  /\ chain = << >> /\ trail = 0 /\ reorgs = 0
  /\ client = Fresh
  /\ cache = Fresh /\ restarts = 0
  /\ call = [c \in Call |-> Idle]
  /\ settled = TRUE

-----------------------------------------------------------------------------
(* The chain. The nodes of the load-balanced RPC follow it, each at its own *)
(* pace, and catch up in the end.                                          *)
Mine ==
  /\ Len(chain) < scenario.blocks
  /\ \E b \in Block : Valid(Append(chain, b)) /\ chain' = Append(chain, b)
  /\ trail' = Min({trail + 1, scenario.lag})
  /\ UNCHANGED <<scenario, reorgs, client, cache, restarts, call, settled>>

(* The newest blocks are replaced by others, at least as many.             *)
Reorg ==
  /\ reorgs < scenario.reorgs
  /\ \E kept \in 0 .. Len(chain) - 1 :
       \E suffix \in [1 .. Len(chain) - kept -> Block] :
         LET blocks == SubSeq(chain, 1, kept) \o suffix
         IN  blocks # chain /\ Valid(blocks) /\ chain' = blocks
  /\ trail' = scenario.lag
  /\ reorgs' = reorgs + 1
  /\ settled' = FALSE
  /\ UNCHANGED <<scenario, client, cache, restarts, call>>

NodesCatchUp ==
  /\ trail > 0
  /\ trail' = trail - 1
  /\ UNCHANGED <<scenario, chain, reorgs, client, cache, restarts, call, settled>>

-----------------------------------------------------------------------------
(* The heights at which a node may answer: each query may meet another.    *)
Height == { h \in 0 .. Len(chain) : Len(chain) - h <= trail }

(* Transactions in the blocks from .. to of a node at height h.            *)
Logs(from, to, h) ==
  LET last == IF h < to THEN h ELSE to
  IN  Leaves(SubSeq(chain, from, last))
BlockOf(t) == CHOOSE b \in DOMAIN chain : t \in Range(chain[b])
IndexOf(t) == LET txs == Leaves(chain) IN (CHOOSE i \in DOMAIN txs : txs[i] = t) - 1

Resume(c, local) == call' = [call EXCEPT ![c] = local]

From_OneTooFar == IF client.cursor = Null THEN 1 ELSE client.cursor + 2
From == IF client.cursor = Null THEN 1 ELSE client.cursor + 1

Begin(c) ==
  /\ c \in scenario.calls /\ call[c].at = "idle"
  /\ Resume(c, [Idle EXCEPT !.at = "head", !.from = From])
  /\ UNCHANGED <<scenario, chain, trail, reorgs, client, cache, restarts, settled>>

(* getBlockNumber answers.                                                 *)
GetHead(c) ==
  /\ call[c].at = "head"
  /\ \E head \in Height :
       Resume(c, IF call[c].from > head THEN Idle
                 ELSE [call[c] EXCEPT !.at = "logs", !.head = head])
  /\ UNCHANGED <<scenario, chain, trail, reorgs, client, cache, restarts, settled>>

(* A query fails for good: the call throws, nothing else changes.          *)
Fail(c) ==
  /\ call[c].at \in {"head", "logs", "guard"}
  /\ Resume(c, Idle)
  /\ UNCHANGED <<scenario, chain, trail, reorgs, client, cache, restarts, settled>>

(* Labels in emission order, each once.                                    *)
Approve(assoc, logs) ==
  FoldSeq(LAMBDA t, seen : IF t \in Labelled /\ ~Contains(seen, t) THEN Append(seen, t) ELSE seen,
          assoc, logs)

(* The cursor moves to the highest block seen in any of the logs.          *)
Cursor_OneTooFar(from, seen) == Max({from - 1} \cup { BlockOf(t) + 1 : t \in seen })
Cursor(from, seen) ==
  LET before == IF client.cursor # Null THEN client.cursor ELSE from - 1
  IN  Max({before} \cup { BlockOf(t) : t \in seen })

(* New leaves: those past the end of the tree, which must follow it. The   *)
(* indices of the leaves of a range of blocks are consecutive.             *)
NewLeaves(commits) ==
  IF commits = << >> THEN << >>
  ELSE SubSeq(commits, Max({1, Len(client.tree) + 1 - IndexOf(commits[1])}), Len(commits))
Gap(new) == new # << >> /\ IndexOf(new[1]) # Len(client.tree)

(* The note of a swap is recovered only with its amount and its label.     *)
Recovered(new, swaps, deposits) ==
  Only(new, Own \ (Swap \ (Range(swaps) \cap Range(deposits))))

Spent(nullifiers) == { t \in Tx : SpenderOf[t] \cap Range(nullifiers) # {} }

(* Auxiliary: the cache holds a scan that is not one view of what follows  *)
(* its tree: its four queries met different heads, it began before another *)
(* call dropped the cache, or its tree is on another history.              *)
Torn(c, commits, swaps, nullifiers, deposits) ==
  \/ client.torn
  \/ {swaps, nullifiers, deposits} # {commits}
  \/ call[c].from > From
  \/ ~IsPrefix(client.tree, Leaves(chain))

(* Everything from the answers to the four queries up to the root check    *)
(* runs in one go. A gap throws after the labels were added, before the    *)
(* rest. (\E x \in {e} names the value of e.)                              *)
Merge(c, commits, swaps, nullifiers, deposits) ==
  LET assoc == Approve(client.assoc, deposits)
      seen  == Range(commits) \cup (Swap \cap Range(swaps))
                 \cup Range(nullifiers) \cup (Labelled \cap Range(deposits))
  IN  \E new \in {NewLeaves(commits)} : \E tree \in {client.tree \o new} :
        /\ IF Gap(new)
           THEN client' = [client EXCEPT !.assoc = assoc] /\ Resume(c, Idle)
           ELSE /\ client' = [ tree   |-> tree,
                               owned  |-> client.owned \o Recovered(new, swaps, deposits),
                               spent  |-> client.spent \cup Spent(nullifiers),
                               assoc  |-> assoc,
                               cursor |-> Cursor(call[c].from, seen),
                               torn   |-> Torn(c, commits, swaps, nullifiers, deposits) ]
                /\ Resume(c, IF call[c].rescan \/ tree = << >> THEN Idle
                             ELSE [call[c] EXCEPT !.at = "guard", !.root = tree])
        /\ settled' = (settled \/ (call[c].rescan /\ ~Gap(new)))

(* All four queries have answered, each from a node of its own.            *)
Answers(c) == { Logs(call[c].from, call[c].head, h) : h \in Height }

Scan(c) ==
  /\ call[c].at = "logs"
  /\ \E commits, swaps, nullifiers, deposits \in Answers(c) :
       Merge(c, commits, swaps, nullifiers, deposits)
  /\ UNCHANGED <<scenario, chain, trail, reorgs, cache, restarts>>

rootIsKnown(root, h) == IsPrefix(root, Leaves(SubSeq(chain, 1, h)))

(* A client that rescans drops everything but its association set.         *)
Reset_NotesKept(state) == [Fresh EXCEPT !.assoc = state.assoc, !.owned = state.owned]
Reset(state) == [Fresh EXCEPT !.assoc = state.assoc]

(* isKnownRoot has answered: the client keeps its tree, or scans again     *)
(* from the start.                                                         *)
Guard(c) ==
  /\ call[c].at = "guard"
  /\ \E h \in Height :
       IF rootIsKnown(call[c].root, h)
       THEN /\ Resume(c, Idle)
            /\ settled' = (settled \/ call[c].root = client.tree)
            /\ UNCHANGED client
       ELSE /\ client' = Reset(client)
            /\ Resume(c, [Idle EXCEPT !.at = "head", !.from = 1, !.rescan = TRUE])
            /\ UNCHANGED settled
  /\ UNCHANGED <<scenario, chain, trail, reorgs, cache, restarts>>

-----------------------------------------------------------------------------
(* snapshot writes a cursor that was never set as the block before the     *)
(* first; load restores it all. (A snapshot no restart will read is left   *)
(* out, to bound the states.)                                              *)
Saved_AtHead(state) == [state EXCEPT !.cursor = Len(chain)]
Saved(state) == [state EXCEPT !.cursor = IF @ = Null THEN 0 ELSE @]

Snapshot ==
  /\ restarts < scenario.restarts
  /\ cache' = Saved(client)
  /\ UNCHANGED <<scenario, chain, trail, reorgs, client, restarts, call, settled>>

Restart ==
  /\ restarts < scenario.restarts
  /\ restarts' = restarts + 1
  /\ client' = cache
  /\ call' = [c \in Call |-> Idle]
  /\ settled' = (reorgs = 0)
  /\ UNCHANGED <<scenario, chain, trail, reorgs, cache>>

ClientNext ==
  \/ Mine \/ Reorg \/ NodesCatchUp \/ Snapshot \/ Restart
  \/ \E c \in Call : Begin(c) \/ GetHead(c) \/ Scan(c) \/ Guard(c) \/ Fail(c)

ClientSpec == ClientInit /\ [][ClientNext]_clientVars

(* A client keeps polling, a query asked again and again is answered in    *)
(* the end, and nodes catch up with a chain that rests.                    *)
FairSpec ==
  /\ ClientSpec /\ WF_clientVars(NodesCatchUp)
  /\ \A c \in Call :
       /\ WF_clientVars(Begin(c))
       /\ SF_clientVars(GetHead(c)) /\ SF_clientVars(Scan(c)) /\ SF_clientVars(Guard(c))

-----------------------------------------------------------------------------
ClientTypeOK ==
  /\ Valid(chain)
  /\ {client, cache} \subseteq
       [tree : Seq(Tx), owned : Seq(Own), spent : SUBSET Tx, assoc : Seq(Labelled),
        cursor : {Null} \cup Nat, torn : BOOLEAN]
  /\ trail \in 0 .. scenario.lag
  /\ \A c \in Call : call[c].at \in {"idle", "head", "logs", "guard"}

(* The account is what the tree says: each note of a leaf is known once,   *)
(* whichever calls of sync overlapped or failed, however far nodes trailed *)
(* and whichever cache the client restarted from; the notes taken for      *)
(* spent are those spent by transactions of the tree; and once the root    *)
(* check has passed after a reorganisation the tree is on the chain. Only  *)
(* a cache with a torn scan in it is let off.                              *)
AccountFollowsTree ==
  ~client.torn =>
    /\ client.owned = Only(client.tree, Own)
    /\ client.spent = Spent(client.tree)
    /\ settled => IsPrefix(client.tree, Leaves(chain))

(* "Cheap, and never misses" (client/src/pool.ts:247-252): the blocks up   *)
(* to the cursor have been scanned, so their leaves are in the tree.       *)
NothingSkipped ==
  reorgs = 0 => Range(Logs(1, client.cursor, Len(chain))) \subseteq Range(client.tree)

(* The cursor never passes a leaf the tree lacks, unless the cache holds a *)
(* torn scan, such as one whose queries met different heads.               *)
SkipsOnlyWhenTorn == client.torn \/ NothingSkipped

(* A client that keeps polling catches up with the chain, though calls of  *)
(* sync overlap and fail, nodes trail and the client restarts, unless it   *)
(* applied a torn scan.                                                    *)
CatchesUp == <>(reorgs > 0 \/ client.torn) \/ <>[](client.tree = Leaves(chain))

(* "Self-heals from chain reorgs" (client/src/pool.ts:138-139): a client   *)
(* the new chain has outgrown does not stay on another history.            *)
SelfHeals == (reorgs > 0) ~> (client.tree = Leaves(chain) \/ client.cursor >= Len(chain))

(* A rescan rebuilds the account from scratch (client/src/pool.ts:260-262):*)
(* the labels approved are then those on the chain.                        *)
RescanRebuilds ==
  settled => Range(client.assoc) \subseteq Mined
=============================================================================
