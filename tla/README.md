# Sherwood, in TLA+

Models, model-checking runs and machine-checked proofs for this repository: the shielded pool and
its circuit, the contracts around it (tree, association roots, staking, governor, AMM, router, swap
contracts), the client that follows and spends from the pool, and the programs and pages that trade,
bridge, relay, approve, watch and pay. Paths are relative to the repository root (`src/Sherwood.sol`
is the contract, `client/src/pool.ts` the client).

To check a run: `tlc -config MCSherwood.cfg Sherwood`. To check the proofs of a module:
`tlapm Sherwood_proofs.tla`.

## 1. Inventory

### The system

A user *shields* tokens into the pool contract and gets a note, a leaf in a Merkle tree. A *spend*
(private transfer, unshield, private swap) proves in zero knowledge that its input notes are in a
recent tree, publishes their nullifiers, inserts two new notes, and proves that the notes' *label*
is in an *association root* published by the ASP (the compliance provider). A label names the
deposit the value came from and travels with it. Around the pool there are an AMM, contracts that
trade over it and over outside venues, and off chain a relayer, an agent, and a web application with
its proxies.

| Part | Code | State | Operations | Modelled by |
|---|---|---|---|---|
| Commitment tree | `src/MerkleTreeWithHistory.sol` | frontier, ring of 100 roots, next index | `_insert` (a pair of leaves), `isKnownRoot` | `MerkleTreeWithHistory` |
| Client Merkle tree, path check | `client/src/tree.ts`, `circuits/merkleTree.circom` | layers | `insert`, `rebuildFrom`, `root`, `path`, `MerkleProof` | `MerkleTree`, `TreeSync` |
| Association roots, ASP rotation | `src/Sherwood.sol:169-205` | current root, ring of 64, ASP, pending ASP and its time | `setAssociationRoot`, `isKnownAssociationRoot`, `proposeAsp`, `acceptAsp` | `AssociationRoots`, `AspRegistry` |
| Shielded pool and join-split circuit | `src/Sherwood.sol`, `circuits/transaction.circom` | notes, nullifiers, allowlist, label nonces, used labels, token balances | `transact` (shield, transfer, unshield, swap), `setAsset` | `Sherwood` |
| Client synchronisation | `client/src/pool.ts` (`sync`, `snapshot`, `load`), `client/src/assoc.ts` | tree, own notes, spent nullifiers, association set, cursor | `sync` and its rescan, snapshot, restart | `ClientSync` |
| Client spends and the desk's flows | `client/src/pool.ts` (`selectInputs` ... `invalidate`), `web/app/src/App.tsx`, `web/app/src/sherwood.ts` | reservations, dirty flag, the wallet, one flow per button pressed | sends, swaps, withdrawals, shields, refresh, the bridge's helpers | `ClientBuilds` |
| Staking | `src/SwoodStaking.sol` | stakes, reward stream, per-user settlement | `stake`, `withdraw`, `getReward`, `exit`, `notifyRewardAmount`, `setRewardsDuration` | `SwoodStaking` |
| Governor | `src/SwoodGovernor.sol` | proposals, votes | `propose`, `vote` | `SwoodGovernor` |
| AMM pair, factory, library | `src/amm/` | reserves, balances, shares, `kLast`, `feeTo` | `createPair`, `mint`, `burn`, `swap`, `skim`, `sync`, `setFeeTo` | `SherwoodV2Library`, `SherwoodV2Pair` |
| AMM router | `src/amm/SherwoodV2Router.sol` | none between calls | adding and removing liquidity, nine swaps | `SherwoodV2Router` |
| Swap contracts | `src/SwapExecutor.sol`, `src/AggRouter.sol`, `src/PublicRouter.sol` | the stocks with a route | `swap`, `swapExactIn`, `setStockRoute` | `SwapContracts`, `Amm` |
| Quotes and trades off chain | `web/app/src/aggregator.ts`, `routing.ts`, `trade.ts`, `PublicSwap.tsx`, `PoolPage.tsx`, `WoodieApp.tsx`, `agent/src/quote.ts`, `sherwood-exec.ts` | the trade under way, approvals | pick a route, quote, set a least amount, approve, simulate, send, wait | `PublicTrades` |
| ASP approver | `asp/src/approver.ts` | a round's two reads | scan deposits, compare roots, publish | `AspApprover` |
| Watchdog | `deploy/vps/watchdog.mjs` | the balance read per round | top up the hot wallets | `Watchdog` |
| Relayer | `relayer/src/server.ts` | rate-limit windows, the hot wallet's nonce | limit, validate, simulate, submit, seed gas | `Relayer` |
| Exits through a throwaway address | `web/app/src/Bridge.tsx`, `XChainPanel.tsx`, `relay.ts` | the key in storage, the form, the flow | bridge out and in, cash out, Recover, sweep | `BridgeOut` |
| Cross-chain swaps | `web/app/src/XChainPanel.tsx`, `xchain.ts`, `zeroex.ts`, `relayer/src/xchain.ts`, `zeroex.ts` | the form, quotes, their cache; the order, its stream and polls | quote, check addresses, place, follow | `PrivateRoute`, `OrderWatch` |
| Agent: provider, client, planner | `agent/src/acp-provider.ts`, `acp-client.ts`, `planner.ts` | jobs acted on, in memory | price, execute, submit; hire and settle; plan a basket | `AcpProvider`, `Hire`, `Basket` |
| Copilot | `agent/src/woodie.ts`, `plan-server.ts`, `web/app/src/Woodie.tsx` | the log of cards, plans in progress | read a message, propose, confirm, sign, advance | `Woodie` |
| Market data | `web/app/src/WoodieApp.tsx`, `geckoterminal.ts`, `dexscreener.ts` | the feed, the sheet, caches | load, look up a pool, chart, trades | `MarketData` |
| Market data proxy | `deploy/vps/gt-proxy.mjs` | cache, paced queue | answer, fetch, retry | `GtProxy` |
| Points service | `points/src/server.ts`, `ledger.ts` | ledger in memory and in a file, block cursor | indexer, referral handler, restart, formula and ranks | `Points` |
| Agent's reports, rpc-proxy | `agent/src/economyos.ts`, `rebalance.ts`, `deploy/vps/rpc-proxy.mjs` | none | - | not modelled |
| Prover, notes, wire formats | `client/src/prover.ts`, `note.ts`, ... | none | cryptography and encodings | not modelled |
| Token, verifiers, scripts, tests, other pages | `src/SwoodToken.sol`, `src/verifiers/`, `script/`, `web/app/` | - | - | not modelled |

### How the parts interact

- *Calls.* `transact` asks the tree (`isKnownRoot`, `_insert`), the association ring, the verifier,
  the ERC20s and, for a swap, `SwapExecutor`, which like AggRouter and PublicRouter calls pairs. The
  AMM's router calls the factory and the pairs. The governor reads stakes from the staking contract.
- *Events.* `NewCommitment`, `NewNullifier`, `Deposit` and `SwapExecuted` are all the client, the
  ASP approver and the points service ever learn. They ask an RPC for them in block ranges, over a
  load balancer whose nodes may stand at different heights, and each keeps a cursor or rescans.
- *Shared state in one process.* Calls of the client's `sync`, its builds and the app's flows
  interleave at every `await`; so do the handlers of the relayer, of the points service and of
  gt-proxy, and the effects of a page.
- *Shared accounts.* Handlers of the relayer share a wallet and its nonces; approver and watchdog
  share the wallet one pays from and the other tops up; trades of strangers move the pairs between
  the steps of a flow.
- *Persistence.* The client writes snapshots, the points service its ledger, the bridge the key of
  a throwaway address, the form its order; each restarts from what it wrote. The agent's provider
  writes nothing.

### What is hard here, and what must be true

| Part | Hard | Must be true |
|---|---|---|
| Tree | a frontier of one node per level instead of the tree; a ring that wraps; a full tree | every stored root is the root of the whole tree as it was; exactly the newest roots are accepted |
| Client tree | two different algorithms (pairs and frontier, single leaves and layers) for one function | same roots, and paths that the circuit accepts, at any distance behind |
| Association roots | wrapping; rotation of the ASP with repeated proposals; an approver whose reads disagree | exactly the newest publications are accepted; a rotation is announced for the whole timelock; what was approved stays spendable, what is deposited is approved in the end |
| Pool | field arithmetic, one note in both inputs, tokens that charge fees, swaps that return anything, delisting | notes are backed token for token; value moves only along labels; spends are screened; approved notes can leave |
| Client sync | overlapping calls, lagging nodes, reorganisations, failures, restarts | the account is what the tree says, nothing is skipped as long as a scan is one view of the chain, and the client catches up |
| Client spends | reservations, a dirty flag over awaits, splitting an amount over notes | no note is selected twice while a build holds it, or after the client was told it is spent; what is reported as sent was sent |
| Staking, governor | rounding, lazily settled accounts, overlapping streams; weights read as votes come in, while stakes change | stakes can always be withdrawn, what is earned can be paid and is no one else's; no tally is above what its voters had staked |
| AMM, router, swap contracts | integer division in both directions, a protocol fee that is owed, donations, taxed tokens, several hops in one call | shares keep their value; a call keeps its word or reverts, and its contract keeps nothing |
| Trades | quotes computed twice (off chain, on chain), sent later | a trade that nothing crossed is mined |
| Relayer | handlers that race for notes and nonces, transactions that revert after their simulation passed, answers that are lost | the limits hold in every window, and an answer is true |
| Exits, cross-chain form | a key that alone opens an address, reloads, refunds; late quotes and checks | funds at an address have their key; what is placed is what was shown |
| Provider, client of jobs | restarts, lists out of date, commands that fail after they were taken | nothing is sent twice; an end reported is the job's end |
| Watchdog, gt-proxy, order watch | one read for many payments; retries at a pace; streams that break | everyone is served in the end; never faster than the pace |
| Copilot, market data, baskets | plans confirmed out of order; caches under two names; rounding | steps in order; a chart of its own token; percentages that add up |
| Points | half-done scans, saves in the middle, requests that waited | each referee has one referrer, both earn once |

`PROJECT.json` lists each hazard at its line, with the properties that cover it or a note on why
none does.

## 2. Modules

`A <- B` is "B extends A".

```
RootRegister  <==refines== MerkleTreeWithHistory <- TreeSync (+ MerkleTree)
RootRegister  <==refines== AssociationRoots <- AspRegistry <- AspApprover \
                                                              Watchdog     <- Offchain
                                                              OrderWatch  /
LabelLedger   <==refines== Sherwood (instance of AssociationRoots)
ClientSync <- MCClientSync        ClientBuilds <- MCClientBuilds
SwoodStaking <- SwoodGovernor <- MCSwoodGovernor
SherwoodV2Library <- SherwoodV2Pair <- SherwoodV2Router <- SwapContracts <- Amm <- PublicTrades <- MCAmm
Relayer, BridgeOut, AcpProvider, GtProxy, Points, PrivateRoute, Woodie, MarketData, Basket, Hire
  <- Services <- MCServices
X <- X_proofs, for TreeSync, Offchain, Sherwood, ClientBuilds, Services
ClientSync <- TreeSync_proofs
SwoodGovernor <- SwoodStaking_proofs        PublicTrades <- Amm_proofs
SumTheorems, which extends the library's theorem modules <- all of these
```

Names are the source's where TLA+ allows it. An operator `Name_Fault` stands next to `Name` and is
what `Name` would be with a plausible bug; section 4 says which property notices which. A step of a
handler or flow is the code between two awaits; what it read before an await it keeps in its local
variables, as the code does.

### Contracts

**MerkleTreeWithHistory.** `insert` is `_insert`: its loop over levels is the recursive function
`PathAbove` (a recursive function, not a RECURSIVE operator, so that the module can be proved
about), one `Climb` per iteration. Poseidon is a free constructor: the hash of two nodes is the pair
of them. `leaves` is auxiliary, the whole history, for `RefRoot`, the definition of a Merkle root
that hashes the full tree. `Scanned` is the order in which `isKnownRoot` visits the slots.

**RootRegister** is the abstract specification of both rings: a shift register of the newest roots.

**MerkleTree, TreeSync.** The client's tree (`insert`, `root`, `path`) and the circuit's
`MerkleProof`; TreeSync runs it next to the contract's tree, any number of leaves behind.

**AssociationRoots, AspRegistry.** `publish` is the body of `setAssociationRoot`; AspRegistry adds
the caller check, the clock and the rotation. `announcedAt` is auxiliary: the time of each
`AspProposed` event.

**Sherwood.** A commitment is the note it commits to, a nullifier the index of the leaf it spends, a
label the pair (sender, nonce) that it hashes, an association root the set of labels under it. A
verifying proof is a choice of inputs and outputs that satisfies the circuit's constraints
(`Provable`), with the balance equation in the field (`_publicAmount`, `Balanced`). `transact` does
what the contract does in its four modes, with the relayer's fee: `Shield` lets the token credit
less than was asked (the contract then reverts), `swapAndReshield` lets the market return anything.
The ring of association roots is an instance of AssociationRoots. The module covers any caller: a
submission repeated, reordered or made by a different relayer is just another enabled or disabled
`transact`.

**LabelLedger** is the abstract specification of the pool: one account per label and asset. Value
enters only in a fresh account, leaves only out of the pool, and never moves between two accounts;
an exchange debits one and opens a fresh one. Notes, nullifiers, roots, proofs: all forgotten. The
refinement mapping sums the unspent notes of each label.

**SwoodStaking, SwoodGovernor.** Every operation, in integers, with the checked subtractions as
guards (a revert is a disabled action) and the settlement each operation begins with
(`updateReward`). The governor extends the staking module with proposals and votes, and with
transfers of the staking token. `mostStaked` is auxiliary: the most each user had staked while a
proposal was open.

**SherwoodV2Library, SherwoodV2Pair, SherwoodV2Router, SwapContracts.** Calls compose inside one
transaction (the router calls a pair, the pair calls a token and perhaps the recipient back), so a
call is an operator from a state to the set of states it can end in, the empty set if it reverts,
and `Then` runs the next call on each. The library has the prices, the deposit ratio and `sqrt`; the
pair its six operations, shares and the protocol's fee; the router adds, removes and swaps, along
paths, with ETH at either end, and for tokens that tax transfers; SwapContracts has the legs of
AggRouter, PublicRouter and SwapExecutor. A v3 or v4 venue pays any of `Outcome`.

**Amm** makes these calls actions: any call, by a user, of a pair directly, of the router or of an
aggregator, and `setFeeTo`, `setStockRoute`. Pairs of another factory with another fee (SWOOD's) are
there too (`PairFee`).

### Client and application

**ClientSync.** A transaction stands for its pair of leaves and its events. `Begin`, `GetHead`,
`Scan` and `Guard` are the stretches of `_sync` between its awaits (start; head; the four log
queries, which `Merge` applies in one go; the root check, which may start a rescan), `Fail` is an exception from a
query. Each query, `getBlockNumber` and the root check included, is answered by a node of its own,
which is up to `trail` blocks behind; nodes catch up with a chain that rests (`NodesCatchUp`).
`Reorg` replaces the newest blocks, `Snapshot` and `Restart` are the cache. `settled` is auxiliary:
the root check has passed since the last reorganisation. So is `torn`: the account or its cache has
in it a scan that is not one view of the chain: its four queries met different heights, or it began before another call
dropped the tree, or its tree was on another history. What then goes wrong is in section 5; the
properties say that nothing does otherwise. A node that still serves an abandoned branch is not
modelled. `Scenario` bounds calls, reorganisations, restarts, lag and blocks together, so that each
combination stays small.

**ClientBuilds.** One asset, wrapped ether. A flow is a button of the desk or a helper that the
bridge calls: a send, swap or withdrawal splits an amount into parts, builds each (`ensureSynced`,
`selectInputs`, reserve, prove), submits, waits for the receipt, invalidates, syncs, and refreshes
at the end, with every way each of these can fail; a shield wraps what is missing, approves the
pool, proves for the deposit nonce it read, and submits. Flows interleave freely: an `invalidate()`
may come while another flow builds or synchronises. Three fields of `client` are auxiliary:
`freed`, the flows whose hold on their notes an invalidate or a failed build took away; `told`, what was
spent when the last invalidate came; `lost`, an invalidate came while a build was synchronising.

**PublicTrades** extends Amm with what the app and the agent do around a call: `quotePublic`,
`quoteRoute` and the agent's copy of it, `resolveRoutes`, and the six flows (`TradeKind`) that quote,
set a least amount, approve, simulate, send and wait, while others trade between the steps. `moved`
is auxiliary: someone else traded since the quote.

**BridgeOut.** A flow and its key have one name. `slot` is the one place in storage where the key of
a running flow is kept, `stored` the order of a cash-out with its key. Nothing in the pages prevents a
second flow (after the page was opened again) from taking the slot, a late quote from being shown, or
Recover and "Hide" from being pressed while funds are on their way, and nothing prevents a refund: all
of it may happen at any time. Two variables are auxiliary: `late`, the quote shown came after the form was
changed; `crossed`, the flows whose key was set aside by such an act of the user. One tab is open;
what a cash-out checks about its address is left out.

**PrivateRoute, OrderWatch.** The first is the form until an order exists: debounced quotes, the
relayer's cache of them (`CacheKey`), the checks of both addresses, and the placing with what was on
the screen when the button was pressed. Requests for quotes overlap; `lateQuotes` is auxiliary, the
quotes shown had been asked for an older form. The second follows the order: socket, streams, polling,
reloads and answers that come late. 0x orders are polled only.

**Woodie, MarketData.** A message is a sequence of parts, a part the set of words in it that the
rules look for. The chat's cards are confirmed, signed, mined or fail in any order that the page
allows. In MarketData the feed and the sheet of a token are two parts: what one leaves to the other
(a price, a pool) is a choice. A sheet may turn to another token while it is open (the address bar
does it), and then keeps its details, pool, chart and trades; `turned` notes it. A chart carries
whether the token's price was known when it was fetched (`known`).

### Services

**AspApprover, Watchdog, Offchain.** `tick` is the beginning of a round with its two reads, at
heights of their own; `published` is auxiliary. AspApprover extends AspRegistry: the contract's
rotation goes on around the service. Offchain composes them with OrderWatch and states the fairness.

**Relayer.** A request is a handler that moves through its awaits; the chain executes by nonce, and a
transaction reverts when its note is spent or for any other reason (slippage, a deadline, a root that
is too old), in which case the note stays; time passes in ages of the requests let through.

**AcpProvider, Hire, Basket.** The provider with a marketplace whose lists are out of date; the
client that hires; the planner. `sent` is auxiliary, the transactions sent for each job.

**GtProxy.** Times are ages, up to the age at which nothing depends on them. `fetched` is auxiliary.

**Points.** The indexer and the referral handler, cut at their awaits, over a ledger in memory and
its last saved copy; events are attributed to the sender of their transaction. `pointsFor`,
`leaderboard` and `rankOf` are functions of a ledger.

**Services** puts those that share no state side by side: a behaviour is about one of them.

## 3. Runs

Distinct states are those of the listed configuration; each run ends within five minutes on two
workers.

| Run | Instance and bounds | States | Shows |
|---|---|---|---|
| `tree` (`MCTreeSync.cfg`) | 3 levels (8 leaves), ring of 3, two leaf values | 13 k | `ImplementsRootRegister`: the ring holds exactly the newest roots. `LaggingRootAccepted`, `PathsVerify`: the client's roots and paths are the contract's and the circuit's, at any distance behind. |
| `pool` (`MCSherwood.cfg`) | 2 assets, both of which can be delisted, 1 sender, 8 leaves, amounts below 3, fees 0 and 1, field of 13, two publications, ring of 1, at most 2 units in the pool | 98 k | `FullyBacked`, `ImplementsLabelLedger`, `ApprovedOnlyShrinks`, `SpendsAreScreened`, `ApprovedCanExit` over shields of one and two units, splits, merges, transfers, whole and partial exits and swaps. |
| `client_sync` (`MCClientSync.cfg`) | 2 or 3 blocks of at most 2 transactions (a shield, a swap, a spend), in six scenarios: 2 overlapping calls with nothing else, with nodes 1 behind, with a reorganisation; 1 call with nodes behind and a restart, a reorganisation and a restart, 2 reorganisations and nodes behind | 387 k | `AccountFollowsTree`, `SkipsOnlyWhenTorn`, and `CatchesUp` under fairness. |
| `client_builds` (`MCClientBuilds.cfg`) | two flows at once: two sends over three notes of one label; a send beside a swap or a helper, a withdrawal beside a refresh, over two labels; a shield beside a swap or a shield | 3.3 M | `HoldsAreApart`, `TakesNoneItWasToldOf`, `SentUnlessReverted`. |
| `staking` (`MCSwoodGovernor.cfg`) | 2 stakers with 2 and 1 tokens, scale 2, 2 streams of 3 or 5 over 2 or 3, clock up to 4, 1 proposal | 723 k | `NeverStuck`, `Solvent`, `EarnedIsLocal`, `TallyWasStaked`. |
| `amm` (`MCAmm.cfg`) | 4 tokens, one taxed, pairs seeded in four ways, reserves up to 30, up to 3 calls with no trade of the app or 1 before and during one | 93 k | `ShareValueKept`, `FeeOnTradingOnly`, `QuotesExecuteBetween`, `CallsSettleBetween`, `SettlesUnlessMoved`. |
| `offchain` (`MCOffchain.cfg`) | approver: 2 deposits, nodes 1 behind, 1 failure, ring of 3, clock up to 5, 4 publications by hand; watchdog: 2 wallets, 11 funds, 2 errors; orders: 2 orders, 2 answers out at a time, 2 mishaps | 363 k | `AcceptedRootsAreRecent`, `RotationIsAnnounced`, `ApprovedStaysSpendable`, `EventuallyApproved`; `ToppedUp`; `PollsShowTheEnd`. |
| `services` (`MCServices.cfg`) | eleven parts, see below | 2.9 M | one or two properties of each part, see below. |
| `trailing_node` (`MCTrailingNode.cfg`) | as `client_sync` | violated | `NothingSkipped`: see findings. |
| `double_select` (`MCDoubleSelect.cfg`) | as `client_builds` | violated | `NoDoubleSelect`: see findings. |
| `bridge_key` (`MCBridgeKey.cfg`) | as `services`, the bridge's part | violated | `NeverStranded`: see findings. |
| `xmr_hop` (`MCXmrHop.cfg`) | as `services`, the form's part, with the Monero switch | violated | `HopAsAsked`: see findings. |

The parts of `services`:

| Part | Bounds | States | Property |
|---|---|---|---|
| relayer | 3 requests of 2 clients for 1 note and 1 fresh address, limits 1 and 2 per window of two steps of the clock | 1.3 M | `RateLimited`, `AnswersTrue` |
| agent | 2 jobs for a swap or a payment, each of which may be read as a question, 2 starts of the process | 620 k | `SentOncePerLife` |
| route | 3 tokens, 4 rails, 2 edits, any number of requests for quotes out | 48 k | `PlacedAsShown` |
| points | 3 addresses, of which 1 deposits, 2 requests, a block with up to 2 events, 1 restart, failures | 241 k | `ReferralsAgree` |
| bridge | 2 flows, 4 forms, any number of changes of the form, visits and reloads | 347 k | `ExitsSafely` |
| chat | 2 replies, 2 tries of a step, messages of up to 3 parts | 146 k | `StepsInOrder` |
| sheet, feed | 1 pool of 2 tokens, 2 changes of pool, timeframe or token, 1 failure, 3 loads | 204 k | `ChartIsItsToken` |
| proxy | 3 urls, 3 callers, gap 2, lifetime 3, 2 retries | 9 k | `Paced` |
| hire | 5 polls, 3 errors | 6 k | `EndsAsTheJob` |
| basket | 3 stocks, 2 budgets, up to 2 holdings | 0.6 k | `BasketAddsUp` |

### Why these bounds

- *Tree:* 8 leaves are three levels, so a left and a right child occur at every height, and four
  insertions wrap a ring of 3. Larger rings and deeper trees repeat these cases; what the ring does
  is also proved for every size.
- *Pool:* 8 leaves are four pairs: a shield of two units, a split of its note, the merge of the parts
  and an exit of one of them; two shields under two labels and their spends; or a shield, a swap of all
  or half of it (two pairs) and a spend of its claim. `FewUnits` (a state constraint) keeps at most two units
  in the pool: they may be one note, two notes of one label, or two labels. The field, 13, is the least that
  satisfies `FieldAssumption` for amounts below 3; 2^248 against the 254-bit field leaves the same margin
  of more than four. A ring of 1 with two publications makes an approval lapse. One sender suffices for
  the accounting since labels of two senders never meet; the proofs hold for any set of senders and
  any amounts. The order of the two slots of a proof is a symmetry broken in `InputPairs` and `OutputPairs`.
- *Client sync:* three transactions are a note that is spent, a note from a swap, which needs two
  further events to be recovered, and the spend. Two calls are the least that overlap; three blocks
  allow one that is scanned, one that is being scanned and one that is not; a lag of one is enough for
  two nodes to differ. Everything at once would be too much, so each scenario has two or three of overlap,
  lag, reorganisation and restart; the safety properties are proved for all at once.
- *Builds:* three notes of one label force a split in which two notes cannot pay for everything; two
  labels force a split for another reason; with two units of ether a shield has to wrap one. What
  two flows share is the client and the wallet, and the pairs of kinds (`overlaps`) are those that
  meet there in different ways.
- *Staking:* two stakers with different stakes, a scale of 2 and rewards that do not divide evenly
  make all three divisions round; two streams overlap. `Slices` (a state constraint) drops states
  that combine streams with trades of the staking token or with proposals: rewards do not read
  either, and votes do not read rewards. It is a bound like the others.
- *AMM:* a fee of a tenth and reserves below 30 make every rounding show at small amounts, and three
  calls are enough to add, trade and take back, with the protocol's fee switched before or after. A flow's trade is
  one task, with at most one call of others before it and one inside it: the pairs have no memory
  but the reserves, and the seedings start them in different places. `MAX_RESERVE` stands for 2^112:
  a call that would exceed it reverts.
- *Offchain:* a ring of 3 is the least with which an older set that was published by mistake can be
  accepted beside the newer one; the clock runs to 5 so that two proposals, each with its timelock of
  2, fit. The funder has enough for a few
  top-ups and then runs out. `MaxPublished` bounds nothing
  here that the other bounds do not.
- *Services:* two of whatever competes, three where a third would notice that two were served. The
  relayer's window is two steps of the clock, so that it slides: of two requests in it one may leave
  before the other. `View` leaves out the variables of parts that rest, and the bridge's form once
  every flow has begun, for nothing reads it then. In the points part one address deposits twice
  and all three refer, which is where a referral can settle in three places.

`CHECK_DEADLOCK FALSE` stands in `tree`, `pool`, `amm`, `offchain`, `services` and the violated runs
built on `services`: a full tree stops every operation, and the bounds on calls, requests and
edits end the others. In the other runs the system can always take a step, and deadlock is checked.

### Fairness

- `ClientSync`, `FairSpec`. `WF(Begin)`: the client keeps calling `sync`; the app does so on load,
  after every action of the user and at every build. `SF(GetHead)`, `SF(Scan)`, `SF(Guard)`: a query
  that is asked again and again is answered in the end; strong, for each failure (`Fail`) disables
  the step until the next call. `WF(NodesCatchUp)`: a node reaches the head of a chain that rests in the
  end. Nothing is assumed about how often a query fails, which node answers,
  or whether blocks are mined. `CatchesUp` says that the tree is in the end the chain's, for good, as
  long as there is no reorganisation and no scan was torn; `SelfHeals` and `NothingSkipped` below show
  that after one no such fairness helps.
- `Offchain`, `OffchainSpec`. `WF(tick)`: the approver's loop is a timer. `WF(Mine)`: a transaction
  sent is mined. `WF(CatchUp)`: a node reaches the head in the end. `WF(StartRound \/ TopUp)`: the
  watchdog's loop is a timer, and a payment is sent. Not assumed: that a round succeeds.
  `OrderWatchFairness`: a tab's interval fires (`Poll`), a fetch is answered or fails (`Answer`), and
  what came back is applied. Not assumed: that a stream is ever opened.

The other modules state no fairness: their loops are about safety, or a user's next click decides.

## 4. Which fault each property notices

Every property of a passing run has a fault put into a definition it depends on; with it TLC finds
the property violated under the run's own configuration.

| Run | Property | Fault |
|---|---|---|
| `pool` | `FullyBacked` | `Sherwood!ExactCredit_Unchecked` |
| `pool` | `ImplementsLabelLedger` | `Sherwood!ClaimLabel_Inherited` |
| `pool` | `ApprovedOnlyShrinks` | `Sherwood!DepositLabelOK_AnyLabel` |
| `pool` | `SpendsAreScreened` | `Sherwood!Screened_DepositsOnly` |
| `pool` | `ApprovedCanExit` | `Sherwood!AssetAllowed_ExitsToo` |
| `client_sync` | `AccountFollowsTree` | `ClientSync!Reset_NotesKept` |
| `client_sync` | `SkipsOnlyWhenTorn` | `ClientSync!Cursor_OneTooFar` |
| `client_sync` | `CatchesUp` | `ClientSync!From_OneTooFar` |
| `tree` | `ImplementsRootRegister` | `MerkleTreeWithHistory!NextSlot_OneShort` |
| `tree` | `LaggingRootAccepted` | `MerkleTreeWithHistory!Scanned_StopsEarly` |
| `tree` | `PathsVerify` | `MerkleTree!Sibling_Right` |
| `client_builds` | `HoldsAreApart` | `ClientBuilds!utxos_SpentOnly` |
| `client_builds` | `TakesNoneItWasToldOf` | `ClientBuilds!invalidate_Unmarked` |
| `client_builds` | `SentUnlessReverted` | `ClientBuilds!Chunk_Whole` |
| `staking` | `NeverStuck` | `SwoodStaking!updateReward_SumKept` |
| `staking` | `Solvent` | `SwoodStaking!NewRate_WholeStream` |
| `staking` | `EarnedIsLocal` | `SwoodStaking!updateReward_Unpaid` |
| `staking` | `TallyWasStaked` | `SwoodGovernor!NotVoted_OtherSide` |
| `amm` | `ShareValueKept` | `SherwoodV2Pair!Liquidity_Larger` |
| `amm` | `FeeOnTradingOnly` | `SherwoodV2Pair!_mintFee_KLastKept` |
| `amm` | `QuotesExecuteBetween` | `SherwoodV2Library!getAmountIn_RoundedDown` |
| `amm` | `CallsSettleBetween` | `SwapContracts!Payout_GrossChecked` |
| `amm` | `SettlesUnlessMoved` | `PublicTrades!v2Quote_ReservesSwapped` |
| `offchain` | `AcceptedRootsAreRecent` | `AssociationRoots!Searched_CurrentOnly` |
| `offchain` | `ApprovedStaysSpendable` | `AspApprover!Scanned_WindowSkipped` |
| `offchain` | `RotationIsAnnounced` | `AspRegistry!EffectiveTime_FirstProposal` |
| `offchain` | `EventuallyApproved` | `AspApprover!AfterFailure_Gone` |
| `offchain` | `ToppedUp` | `Watchdog!amt_AllOrNothing` |
| `offchain` | `PollsShowTheEnd` | `OrderWatch!onerror_NoPoll` |
| `services` | `RateLimited` | `Relayer!prune_TooEarly` |
| `services` | `AnswersTrue` | `Relayer!Status_Assumed` |
| `services` | `ExitsSafely` | `BridgeOut!KeyOnThrow_Removed` |
| `services` | `SentOncePerLife` | `AcpProvider!Marked_Not` |
| `services` | `ReferralsAgree` | `Points!MaySettle_Checked` |
| `services` | `PlacedAsShown` | `PrivateRoute!Requote_Kept` |
| `services` | `StepsInOrder` | `Woodie!Advance_OnError` |
| `services` | `ChartIsItsToken` | `MarketData!ChartKey_Pool` |
| `services` | `BasketAddsUp` | `Basket!normalizePct_RoundedDown` |
| `services` | `EndsAsTheJob` | `Hire!Ends_OnIssued` |
| `services` | `Paced` | `GtProxy!LastOnRetry_Kept` |

Further faults stand in the modules without a row: what they violate is another property of the same
run, or one that only a larger instance reaches.

## 5. Findings

Each is a run whose property states what the repository says of the program, and which TLC finds
violated.

1. `trailing_node`, `client/src/pool.ts:254`. The cursor moves to the highest block in *any* of four logs,
   and the four queries may be answered by nodes at different heights. If the one for `NewCommitment`
   was behind, the cursor passes a block whose commitments were not returned, and the next scan begins
   after it. The comment (lines 247-252): "a block we provably scanned", "cheap, and never misses".
2. `double_select`, `client/src/pool.ts:580`. `invalidate()` clears every reservation, those of a build
   that is still proving included; another build then selects its notes, and one of the two
   transactions fails. AUDIT.md:31: "so concurrent/rapid builds can't double-select".
3. `bridge_key`, `web/app/src/Bridge.tsx:245`. `bridgeOutEphemeral` ignores what `track` answers and
   removes the key also after a refund, a failure or the last poll, when the funds are at the address
   the key opens. The comment (lines 213-214): "so a tab reload can't strand funds at the temporary
   address (cleared on success)".
4. `xmr_hop`, `relayer/src/xchain.ts:149`. The key of the quote cache leaves out `useXmr`: a quote
   fetched without the hop answers a request with it for 60 seconds. The panel (`XChainPanel.tsx:565`):
   "Route the middle hop of private routes through Monero".

### Further counterexamples

Each of these properties is defined in its module with its comment; put into the named
configuration, with the constants given, TLC prints a counterexample. They are not runs, because no
line claims otherwise, because the hazard is bounded by something outside the model, or to keep the
runs few.

| Configuration | Property | What happens |
|---|---|---|
| `MCClientSync.cfg` | `SelfHeals` | after a reorganisation that shifts leaf indices, `commitment gap` is thrown before the root check, on every sync (`pool.ts:138` says "Self-heals from chain reorgs") |
| `MCClientSync.cfg` | `RescanRebuilds` | a rescan keeps labels of deposits that the reorganisation removed |
| `MCClientBuilds.cfg` | `SelectsUnspent` | `ensureSynced` clears `dirty` after its await and loses an `invalidate()` called meanwhile |
| `MCClientBuilds.cfg` | `WithdrawnAsEther` | `withdrawMulti` compares the recipient with `myAddress`, the shielded address as JSON (`App.tsx:286`, 69), so no recipient equals it and nothing is ever unwrapped (`App.tsx:281-282`: "the delivered WETH is unwrapped once at the end"; `unshieldToken` compares with `conn.address`) |
| `MCClientBuilds.cfg` | `SentInFull` | a part that was mined and reverted counts as sent |
| `MCClientBuilds.cfg` | `NothingLockedAtRest` | a refresh whose balance reads fail never reaches `invalidate()` |
| `MCSwoodGovernor.cfg` | `VotesAreBacked` | stake votes, is withdrawn, handed on, staked again and votes again |
| `MCServices.cfg` | `NoneCountedTwice`, `NoneMissed`, `PendingAwaitsShield` | a failed scan is repeated from its start; a scan without events moves the cursor to a head read later; a referral of an address unknown when the request arrived is parked although it has shielded since |
| `MCServices.cfg`, `Kind = {"shield", "swap"}` | `SwapsUntracked` | swaps emit `Deposit` too, and count as shields |
| `MCServices.cfg`, 5 events in 3 blocks of one day, all depositing (found by simulation) | `OneRank` | of two addresses with equal points the leaderboard has the one with more shields first, the rank shown with an address the one known first |
| `MCServices.cfg` | `SentOnce` | the provider forgets with a restart that it has sent |
| `MCServices.cfg` | `NoPaymentWithoutSwap` | a swap's receipt is not waited for before its deliverable is submitted; a job whose history cannot be read when it is funded is answered with an explanation, and paid |
| `MCServices.cfg` | `PricedAsAsked` | a job whose history cannot be read is priced as a question |
| `MCServices.cfg` | `FundsNearEmpty` | two requests for one address both read its balance before either seeds it |
| `MCServices.cfg` | `AlwaysKept` | a second flow, begun after the page was opened again, takes the slot of the first one's key (`Bridge.tsx:215`); Recover is pressed while funds are on their way (`Bridge.tsx:94-113`); an order is hidden before the exchange refunds it; besides what `NeverStranded` (finding 3) shows |
| `MCServices.cfg` | `AlwaysAsAsked` | a quote that arrives late is executed for a form that changed (`Bridge.tsx:141`) |
| `MCServices.cfg` | `AlwaysAsShown` | quotes asked for before a change of the form are shown after it (`XChainPanel.tsx:254-306`) |
| `MCServices.cfg` | `PaidIsShown` | a payment was sent and waiting for its receipt failed: no order stands for it in the form |
| `MCServices.cfg` | `StepsSigned`, `SentOncePerStep`, `PlansAreWhole` | a step the desk ran counts as done without a signature; a step is retried after it was sent; a part of a message without an action is dropped from its plan |
| `MCServices.cfg` | `BuyMeansOurs`, `FeedNeverGoesBack` | the trades' side is looked up without a price and may be the other token's (`geckoterminal.ts:239-245`); a slow load replaces a newer one |
| `MCServices.cfg` | `ChartAlwaysRight` | a sheet that turns to another token keeps the chart of the first; without a price, and after a side lookup that failed, a chart of the other side stands, and is kept |
| `MCServices.cfg` | `ThinIsSmall` | a thin pool is judged by its share before other thin ones are dropped and gets part of theirs (`planner.ts:173`); a template is taken with its stocks assumed liquid when nothing is left |
| `MCServices.cfg`, `MaxHoldings = 3` | `NoneIsEmpty` | holdings that round to 0 % are dropped and the rest is scaled again, after which another can round to 0 % (`planner.ts:177-179`) |
| `MCServices.cfg` | `NoneLeftBehind`, `IssuedIsDone` | `create` failed but was taken; `complete` succeeded but was lost, and is not sent again |
| `MCOffchain.cfg` | `NeverEmpty` | on a pool without an approval the contract's root is unset, the root of the empty set differs from it, and is published (`approver.ts:8-10`) |
| `MCOffchain.cfg`, `FUNDER_RESERVE = 2`, `Funds = 8` | `ReserveKept` | the funder's balance is read once and spent on two wallets |
| `MCOffchain.cfg` | `EveryEndShown` | the relayer's socket reopened after the change, and the stream stays open |
| `MCAmm.cfg` | `DoneWhenReported` | a mined trade that reverted is reported as done |
| `MCAmm.cfg` | `ListedTokensTrade` | the token list's own way to trade SWOOD (`web/app/public/tokenlist.json:1`, kind 3 with fee 0, which `PublicSwap.tsx:100` takes as it is) leaves out the fee of SWOOD's pair; `AggRouter` takes 997 for it, and the pair refuses (`src/AggRouter.sol:165-167` says to "pass 985") |

Some properties hold on the runs' instances and are not among the runs' properties because others
say more: each module's type invariant (`TypeOK`, `PoolTypeOK`, ...), `NextLabelsUnused`,
`RootsAreSnapshots`, `KnownRootsAreRecent`, `StakesBacked`, `NoSecondVote`, `SplitFits`,
`FloorsAddUp`, `ShownEndIsTrue`, `PrivateStaysPrivate`, `PointsNeverFall`, `MinimumReceived` (on the few
sizes of `amm`, where what a trade pays moves little between quote and simulation).

## 6. Proofs

All are for every value of the constants, under the named assumptions of the modules (rings and
scales are positive, the field exceeds four times the largest amount, `NoOne` is not an account,
...). Where a theorem assumes more, it says so in its `ASSUME`, and the text below says why.

| Theorem | Property of a run | Beyond the modules' assumptions |
|---|---|---|
| `AcceptedCorrect`, `AcceptedWithService` | `AcceptedRootsAreRecent` | |
| `RingImplementsRegister` (commitment tree) | `ImplementsRootRegister` | |
| `ClientPathsVerify` | `PathsVerify` | |
| `LaggingAccepted` | `LaggingRootAccepted` | `NoHashIsZero` |
| `AccountAlwaysFollows` | `AccountFollowsTree` | |
| `SkipsOnlyWhenTornCorrect` | `SkipsOnlyWhenTorn` | |
| `RotationCorrect`, `RotationWithService` | `RotationIsAnnounced` | |
| `ApprovedStaysCorrect` | `ApprovedStaysSpendable` | `MaxLag + MaxFailures < ASSOC_ROOT_HISTORY` |
| `BackingCorrect` | `FullyBacked` | |
| `LedgerCorrect` | `ImplementsLabelLedger` | |
| `ApprovalCorrect` | `ApprovedOnlyShrinks` | |
| `ScreeningCorrect` | `SpendsAreScreened` | |
| `NeverStuckCorrect`, `EarningsAreLocal` | `NeverStuck`, `EarnedIsLocal` | |
| `SolventCorrect`, `SolventUnderGovernor` | `Solvent` | |
| `TallyWasStakedCorrect` | `TallyWasStaked` | |
| `ShareValueCorrect` | `ShareValueKept` | |
| `FeeOnTradingCorrect` | `FeeOnTradingOnly` | |
| `QuotesCorrect` | `QuotesExecuteBetween` | |
| `CallsCorrect` | `CallsSettleBetween` | `RolesApart` |
| `SentCorrect` | `SentUnlessReverted` | |
| `HoldsAreApartCorrect`, `TakesNoneItWasToldOfCorrect` | `HoldsAreApart`, `TakesNoneItWasToldOf` | |
| `HireCorrect`, `PacedCorrect`, `ProviderCorrect`, `PlansCorrect` | `EndsAsTheJob`, `Paced`, `SentOncePerLife`, `StepsInOrder` | |
| `AnswersCorrect`, `RateCorrect`, `ReferralsCorrect` | `AnswersTrue`, `RateLimited`, `ReferralsAgree` | |
| `BasketCorrect` | `BasketAddsUp` | |
| `ChartCorrect`, `RouteCorrect`, `ExitsCorrect` | `ChartIsItsToken`, `PlacedAsShown`, `ExitsSafely` | |

`RolesApart` (of Amm, and TLC evaluates it for the instance) says that the contracts that trade for
others are accounts of their own which nobody sent anything in advance, and that a path or trade has two
ends. `NoHashIsZero` is what `isKnownRoot` relies on when it refuses the root 0: no hash is the value of a
slot never written. No theorem assumes an interleaving away. Where the code breaks what one would like to say, the
property itself names the case that is let off (`torn`, `freed`, `lost`, `late`, `crossed`, `turned`), and
section 5 has the counterexample of the property without it. `MaxLag` and
`MaxFailures` bound what the model's nodes and rounds may do; the contract's ring has 64 slots.

**SumTheorems** holds what the others need of data. The library's induction theorems take an
operator as a parameter, which the provers cannot instantiate; `NaturalsBySteps` and
`FiniteBySteps` say the same of a *set* (a set of numbers with 0 and every successor is Nat; a
family with the empty set, closed under adding an element, has every finite set), and follow from
the well-foundedness of `<`. From them: the recursion behind `SumFunctionOnSet` has a solution and
only one (`AddsExists`, `SumAdds`), so that a sum is an element's value and the rest
(`SumRemove`), does not depend on the order, is monotone, linear, and moves by what one value
moves (`SumUpdate`); concatenations are typed, can be cut between two
blocks (`FlattenCut`), and of two beginnings of one sequence one begins the other (`PrefixBoth`); finite sets of numbers have extrema; the ranks of an
ordered finite set are 0, 1, ... (`RanksAreAll`). Its last section is about rings: an array of `n` slots, written
in turn, holds the newest `n` elements of a sequence (`RingStep`), and what is found by looking through
the slots is one of those (`RingFinds`). The association roots are such a ring in the contract
by itself, in the service's composition and in the pool's.

**AssociationRoots: the ring.** The inductive invariant of the association
ring (in Offchain_proofs) is `RingHoldsPublished`: the slot of age `a` holds the publication made `a`
publications ago, or is unset; `RingStep` is its step. The type invariant alone says nothing of contents, and `AcceptedRootsAreRecent` alone is not
inductive, for it does not fix *where* in the ring a root is. From it: `AcceptedCorrect`
(accepted = the newest `ASSOC_ROOT_HISTORY` publications) and `RingImplementsRegister`, a refinement
proof, step by step, of RootRegister.

**The commitment tree and the client's.** `RingCorrect`, `RingImplementsRegister` and
`KnownRootsAreRegistered` say of the commitment tree's ring what is said of the other. What is *in* it
is another matter: `_insert` keeps one node per height and never sees the tree, the client keeps
layers and appends single leaves, and the circuit sees one path. All three are compared with
`RefNode`, the nodes of the whole tree. The contract's invariant is `TreeInv`: where a left node of
height `h` waits for its sibling (bit `h` of `nextIndex` is 1), the frontier holds that node
(`Frontier`), and the ring holds the roots of the trees of all even prefixes (`RootsAreSnapshots`).
An insertion keeps it, since the recursion over heights is the reference's path (`PathIsUpward`, by
induction on the height from `UpwardStart` and `UpwardClimbs`), because a node whose leaves are all
there is the same in every longer tree (`FullLeft`), and one with no leaf is empty (`EmptyRight`).
The client's is `ClientInv`: its layers are the reference's nodes up to its last leaf; `LayersGrow`
is one append. From both: `RootsAreTheTree`, `RootsAgree`, and `ClientPathsVerify`, by induction
along the path. For `KnownRootsRecent` and `LaggingAccepted` different trees must have different
roots: `RootsDiffer` follows the first leaf that only the longer one has up to the root. It uses
`LeafAssumption` (no commitment is the empty leaf) and that hashes do not collide.

**ClientSync.** The theorems are for any chain, any number of transactions in a block, of calls of
`sync` that overlap, of reorganisations and restarts, for queries that fail and nodes that trail by any
number of blocks. A log of some blocks is their concatenation, filtered; a query from block `k` to block
`m` is cut out of the chain's. `NewLeavesAre`: what `Scan` appends are the leaves of the blocks it read
past the end of its tree, wherever the cursor was; so a tree on the chain's history stays on it and then
holds everything up to the last block (`ScannedTree`), even if another call scanned the same blocks
meanwhile. `AccountInv` says of the client and of its cache that, unless a torn scan is in it, notes and
spent notes are those of the tree, and that a settled tree begins the chain's. A scan that is not torn
met one height, read from the cursor's next block at the latest and extends a tree on this chain: each of these is used
once. A reset empties the tree, and with it `torn`. `SkipInv` is `SkipsOnlyWhenTorn` for the cache as well.

**AspRegistry and the approver.** `RotationLeavesRoots`: every behaviour of the registry is one of
AssociationRoots, so the theorems above hold whatever the owner does. `RotationCorrect`: the delay of
a rotation, from `PendingMatchesAnnouncement` (the pending time is the newest proposal's time plus
the timelock). `ApproverIsRegistry` carries both over to the service and all of Offchain.
`ApprovedStaysCorrect` is about the service's own mistake: it reads root and deposits from nodes at
different heights, and can publish a set older than the contract's. The invariant looks at
published and sent sets as one queue. `Renewed`: within a ring's length of each set comes one at
least as large. That is not inductive; `Active` says of each set without such a successor that the
smaller sets sent after it (`r`), the blocks until every node knows its deposits (`b`) and a round
already read (`t`) satisfy `r + t + b <= MaxLag + failures`: a smaller set uses up a round, a round
needs a block or a failure, blocks use up the lag. Hence the hypothesis. `RoleOK` keeps an ASP that
was replaced from publishing again.

**Sherwood.** The inductive invariant is `IInv == PoolTypeOK /\ NextLabelsUnused /\ NoncesFit`.
`NoncesFit` bounds all nonces by half the number of leaves: a label is minted only together with a pair
of leaves, so the nonce of a label is always in range, which the type of labels needs.
`TypeCorrect` (balances never go negative, labels are labels, spent indices exist) and
`LabelsCorrect` (no label is minted twice) follow. `ScreeningCorrect`: every note that is ever spent
is, at that moment, under a label of one of the newest `ASSOC_ROOT_HISTORY` publications; it
combines the circuit's label constraint with `RingFinds`: the pool writes the ring of roots only by
publishing (`RingInv`). `BalanceHasNoWraparound`: an equality in
the field between inputs, public amount and outputs is an equality of integers, from
`FieldAssumption` alone; this is the lemma on which the whole accounting rests.
`BackingCorrect` sums it up: with `IInv`, `FullyBacked` is inductive, for a step appends two notes
and spends up to two, and the laws of sums say by how much the worth of the unspent notes moves
(`OutputWorth`, `SwapWorth`): by what the tokens moved. The same lemmas, label by label, give
`ApprovalCorrect` (with `PublishedMinted`: only minted labels are ever approved, so that a label
minted later is not among them) and `LedgerCorrect`, the refinement of LabelLedger with one lemma
per mode (`ShieldOpens`, `PaymentWithdraws`, `SwapExchanges`).

**SwoodStaking, SwoodGovernor.** `IInv == TypeOK /\ NeverStuck /\ balance.staking = totalStaked`: the
type (naturals) is not inductive without `NeverStuck`, since `earned` subtracts, nor `NeverStuck`
without the type. From it `TypeCorrect`, `NeverStuckCorrect` and `EarningsAreLocal` (no one's
operation changes what another has earned), for any users, streams and durations. `Solvent` rounds
once per user and once per update and is not inductive. `Covered` is its form without rounding: what all
users are owed at the scale of the contract, and what is still to flow, is within the reward pool
times the scale. `Growth` says that per token no more accrues than flows for all, which is where
rounding *down* matters. `SolventUnderGovernor` and `TallyWasStakedCorrect` are about stakers who vote. The invariant of the
latter, `VotesInv`, adds to the tally's bound that nobody has more at stake than is noted while the
proposal is open; a vote then adds to the tally at most what it adds to the voters' sum, for its caster
had not voted.

**ClientBuilds.** `SentCorrect` holds with no hypothesis. `BuildsInv` says of each point of a flow
what its local variables add up to (`Good`): amounts mined, under way and left make the amount asked
for. For the other two `HoldInv` adds, per flow, what it relies on between awaits (`Owns`: a
note it selected is reserved unless its hold was freed, a log it read covers what the client had been told of
unless an invalidate came since), and that two flows whose holds were not freed own different notes
(`Apart`); `Marked` says what a client that is not dirty knows.

**Services.** `OwnSteps` takes the parts apart; each has its invariant. *Hire:* an acceptance is on its
way only after the deliverable was shown. *GtProxy:* `Spaced` and `QueuedOnce`: the pump's wait
covers the rest of the gap, and what is fetched is not queued. *AcpProvider:* a job handled in this
life is in `seen`, lists have no duplicates, and a job not begun has sent nothing in it. *Woodie:*
every step counted as done was run; steps start in order. *MarketData:* requests of a sheet
that is open are for its token unless it turned, and cached rows that were held against their token's
price are that token's. *PrivateRoute:* quotes that were not late match the form and options they were asked for, verdicts hold for
the addresses now in the form. *Relayer:* `SpentAsAsked`, `ReceiptsTrue` relate a handler's place to who spent its note; for the
limits, `NotedIn`: every request in the window has an entry of at most its age in the list that is
pruned, each its own, so that there are no more of them than entries. *Points:* `GoodLedger` (both
sides agree, pending referees have not shielded), for memory and disk, and `Earned`: the sum of
referral points is the number of settled referees times both rewards. *BridgeOut:* a flow
whose key was not set aside is the only one with an address that runs (`InSlot`), and where it is tells where its funds,
its key and its order are (`Addressed`, `NoOrderYet`, `InOrder`). *Basket:*
`PercentagesAddUp`: the remainders of rounding down are a whole number of percents, fewer than there are
weights, so that handing out one each by rank (`RanksBelow`) makes 100; what is sorted, cut and
filtered stays a list of different stocks (`TakenListed`); the dollars follow by summing the errors.

**The AMM.** All of Amm_proofs is about `TradesSpec`: any calls of anybody, among them those the app
sends. The invariant is `PairsGood`: balances of shares add up to the supply, the locked shares are
there as soon as any are, `kLast` is at most the product of the reserves, and a pair holds at least its
reserves. `ShareValueKept` is an action property that needs all of it: without the locked shares a
`burn` could divide by nothing left, without `kLast <= k` the protocol's fee would be of a growth that
was not, and without the cover `burn` and `_update` would lower reserves unnoticed. Three relations say what
becomes of the pairs, each implying the next: `Same` (records untouched, nothing taken), `Quiet` (the
supply stays, no product of reserves falls), `Moves` (what the two properties ask of a step). They compose.
`SwapLeads`, `MintLeads` and `BurnLeads` are the three operations of a pair; their arithmetic is
`FeeKeepsProduct` (the check on balances less fees bounds the product of the balances) and the division's
rounding (`BurnArithmetic` and its counterpart for `mint`). `sqrt` is a recursive function: that it exists (`DescentExists`) and is
the floor of the root (`RootIsFloor`) is shown by induction on the estimate. The router's loops and the lists of transfers are `InTurn`: a step from every state that the one
before can end in. `RunsExist` and `RunsStay` say that such a run exists and stays where its steps stay, and
so whole paths, taxed or not, through every kind of spoke and with whatever the outside venues pay, are `Quiet`.
`QuotesCorrect` needs no invariant but the types: the least input quoted and the greatest output, after
integer division, are exactly what `KHolds` accepts.

`CallsCorrect` needs one thing more than `PairsGood`: `Empty`, that between two calls the router and the
three trading contracts hold nothing. Calls pay from what a contract holds, not from what came in: the router
pays all its WETH when a taxed token is swapped for ether, and all of a taxed token when liquidity in it
is withdrawn for ether; a contract that pulled a taxed token goes on with the amount it asked for, of which less
arrived, and reverts only because it has no other. The trading contracts take differences of
their balances, and would keep what lay there. So the proof shows both at once: a call from a state with
empty contracts settles and leaves them empty. Amounts are followed as legs `<<asset, from, to,
amount>>`: `TransfersPay` says that a list of transfers adds up its legs, `PathPays` that a path
of any length moves nothing of its accounts but the two ends, by induction on the hops, and `Turns` and
`Carries` what a contract holds after each stage of a trade through the hub (`ToWeth`, `FromWeth`, `Payout`), whatever the
venue outside answers. A tax shows in `Received` alone. That nothing is sent to a contract outside its
calls is part of the model (section 8).

**Only model-checked.** `SettlesUnlessMoved`, which bounds what moves between a quote and its
call by the slippage that the app allows: it depends on the sizes of the reserves. Liveness
(`CatchesUp`, `EventuallyApproved`, `ToppedUp`, `PollsShowTheEnd`) and `ENABLED`
(`ApprovedCanExit`) are out of the prover's reach.

## 7. Plan

Done, in this order: the rings and the tree; the pool and its abstract ledger; the client's tree and
its synchronisation; the client's builds; staking and governance; the points service; the first
proofs; the AMM with its router and the swap contracts; the trades over it; the approver, the watchdog
and the order watch; the relayer, the agent, the proxy; the exits, the cross-chain form, the copilot,
the market data; the laws of sums, and with them the accounts of pool and staking; the services, the
client's builds, the approver; the contents of the contract's and the client's trees; the
AMM's share value, its fee and its quotes; the account that `sync` keeps; what a call through the
router or a swap contract pays and receives.

## 8. Not modelled

- **Cryptography** (proofs, Poseidon, encryption of notes, key derivation): a proof that verifies
  satisfies the circuit, hashes do not collide, and only its owner can decrypt or nullify a note.
- **Wire formats and encodings** of the client and relayer, and the relayer's validation of them,
  which is one outcome: it looks at the request alone.
- In the **pool**: `setSwapExecutor` (a swap's result is arbitrary already), which of the recent
  commitment roots a proof names (the newest covers every leaf; the window is the subject of
  MerkleTreeWithHistory), reentrancy (guarded), and tokens that were sent to the contract outside
  `transact`.
- In the **AMM**: price accumulators (nothing in the repository reads them), allowances and permits
  (they only make a call revert), deadlines, `setFeeToSetter`, gifts of tokens to a contract other
  than a pair.
- **uint256 overflow** in the staking contract and the pool (checked arithmetic, amounts below
  2^248), and **gas**, except where an empty wallet stops a service.
- **Programs without state**: `agent/src/economyos.ts` answers a question from what it reads at that
  moment; `agent/src/rebalance.ts` reports, and with `--bridge` sends one bridge's transactions as
  Relay quotes them, waiting for each; `rpc-proxy.mjs` forwards.
- **Pages that send one call per button**: `Stake.tsx` and `Govern.tsx`, whose calls are actions of
  SwoodStaking and SwoodGovernor.
- **What is computed for display only**: lists of venues, portfolios, the catalog of tokens, charts'
  scales, wording. The wallet's switching of chains is part of a step that may throw.
- **Generated verifiers, the token (a standard ERC20), deployment scripts, tests.**
