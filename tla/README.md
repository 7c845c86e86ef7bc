# p2pool: models, model checks and proofs

TLA+ models of p2pool, a decentralised pool for Monero mining. Every node keeps a
*side chain* of shares; a Monero block found by anyone pays all miners whose shares
are in the last `pplns_window` side chain blocks. The nodes only agree on who is
paid if each of them stores, verifies and orders the same blocks in the same way,
in whatever order the blocks arrive. That is the heart of the program
(`src/src/side_chain.cpp`), and it is the part modelled and proved about first.

Line numbers refer to the files under `src/src/`. The table in `PROJECT.json` ("map")
names the lines behind each definition.

## 1. The system

| Component | State | Operations | Threads |
|---|---|---|---|
| SideChain (`side_chain.cpp`) | `m_blocksById`, `m_blocksByHeight`, `m_seenBlocks`, `m_chainTip`, `m_curDifficulty`; per block `m_depth`, `m_verified`, `m_invalid`, `m_wantBroadcast`, `m_broadcasted` | `block_seen`, `add_external_block`, `add_block`, `update_depths`, `verify_loop`, `verify`, `update_chain_tip`, `prune_old_blocks`, `fill_sidechain_data`, `get_outputs_blob`, `split_reward`, `get_missing_blocks` | pool threads add blocks under a write lock; the loop threads read |
| P2PServer (`p2p_server.cpp`) | per client: handshake flags, pending requests, broadcast ring; peer list, missing block requests | `on_read` and its handlers, `send_handshake_solution`, `broadcast`, `download_missing_blocks`, `update_peer_connections` | its own loop thread; handshake PoW and block checks on the pool |
| TCPServer (`tcp_server.inl`) | client slots with `m_resetCounter`, pending connections, bans | connect, accept, read, send, close, ban, shutdown | loop thread; `close` also from pool threads |
| BlockTemplate (`block_template.cpp`) | current template, ring of 4 old ones, `m_templateId` | `update`, `get_hashing_blob(s)`, `submit_sidechain_block`, lookups by id | main loop writes; stratum, miner and pool threads read |
| p2pool core (`p2pool.cpp`) | miner data, mainchain index, `m_updateSeed`, one submit slot | `handle_miner_data`, `handle_chain_main`, `submit_block_async`, `update_block_template`, start-up requests, shutdown | ZMQ thread, main loop, callers of the async functions |
| StratumServer (`stratum_server.cpp`) | per client saved jobs and target, submitted shares | `on_login`, `on_submit`, `on_block`, `on_blobs_ready`, share check and answer | its own loop thread; shares checked on the pool |
| RandomX_Hasher, Miner (`pow_hash.cpp`, `miner.cpp`) | two caches, dataset, seeds; two job buffers | `set_seed`, `set_old_seed`, `calculate`; `on_block`, `run` | pool, miner threads, a start-up thread |
| BlockCache (`block_cache.cpp`) | a memory-mapped ring of blocks | `store`, `load_all`, `flush` | lock holder stores, pool flushes |
| Mempool, ZMQReader, JSONRPCRequest | transactions; sockets | `add`, `swap`; monerod's messages and answers | ZMQ thread, loops |
| PoolBlock, crypto, wallet, keccak | none | parsing, serialising, hashing, key derivation | - |
| console, API, params, log, util, main | settings, files | input and output | - |

How they interact. A peer's block is read on the P2P loop thread, filtered by
`block_seen`, queued to the libuv pool, checked (`add_external_block`) and added under
`m_sidechainLock` (`add_block`). A verified block is broadcast, cached and offered to
`update_chain_tip`; a new tip, or a block that can become an uncle, makes the core
rebuild the block template on the main loop and send it to miners. A share found by
a miner comes back as a block of our own. Monero's new blocks arrive through ZMQ and
also rebuild the template. Missing parents and uncles are asked for from peers.

What is hard: blocks arrive in any order, so verification, depths and the tip have to
be repaired after the fact; pruning deletes blocks inside the call chain that walks
them; two or more pool threads, three loops and the ZMQ thread meet in few
locks; client slots are used again while work for the previous client still runs;
answers come after the question has lost its meaning. `PROJECT.json` lists these as
"hazards", each at its line and with the properties that watch it.

What makes each part correct:

* SideChain: every node ends up with the heaviest valid chain as its tip; nothing
  verifiable stays unverified; no deleted block is used; own blocks pass everyone's
  `verify`; each block is broadcast and added once.
* PPLNS: every block in the window is paid once and in full; cumulative difficulty counts
  no work twice; a fast clock does not move the difficulty (unless it is 2^32 seconds ahead).
* `split_reward`: the whole reward is paid and nobody's share is off by a unit.
* `get_outputs_blob`: parallel helpers neither outlive the call nor block it.
* P2P connections: honest peers never ban each other; stale work never reaches a new
  connection; nodes of different side chains tell each other nothing.
* Block download and broadcast: a node ends up with everything its peers' tips build on,
  also after a crash; pruned and cached blocks never get an honest node banned.
* Block templates: a template pays exactly what its weight allows, and its Merkle branch
  leads to the root other nodes compute; a share is built from the template it was mined
  on or refused.
* Stratum: no two miners do the same work, nobody is banned for another's shares, and
  everyone gets the latest job in the end.
* Core and hasher: the template follows monerod, through lost messages and failing
  requests; the block found last is submitted; a hash is of the seed it was asked for.

## 2. Modules

| Module | Models | Checked by | Proofs |
|---|---|---|---|
| `SideChain` | block store, verification, tip, pruning, template trigger | `MCSideChain` | `SideChainProofs` |
| `OutputsBlob` | `get_outputs_blob`, its helpers, the pool and the lock | `MCOutputsBlob` | `OutputsBlobProofs` |
| `Pplns` | `get_shares`, `get_wallets`, `get_difficulty`, uncles and cumulative difficulty | `MCPplns` | `PplnsProofs` |
| `SplitReward` | `split_reward` | `MCTemplate` | `TemplateContentsProofs` |
| `MerkleTree` | the Merkle tree, the miner transaction's branch in it | `MCTemplate` | `TemplateContentsProofs` |
| `TemplateContents` | `BlockTemplate::update`, with `Mempool`; extends the two above | `MCTemplate` | `TemplateContentsProofs` |
| `P2PConnection` | a connection between two nodes: handshake, requests, slots, bans | `MCP2PConnection` | `P2PConnectionProofs` |
| `BlockSync` | block requests, responses, broadcasts, `BlockCache`, crashes | `MCBlockSync` | `BlockSyncProofs` |
| `RandomXHasher` | seeds, caches, dataset and their locks | `MCP2PoolCore` | `P2PoolCoreProofs` |
| `P2PoolCore` | class `p2pool` with `ZMQReader` and RPC; extends `RandomXHasher` | `MCP2PoolCore` | `P2PoolCoreProofs` |
| `TemplateHistory` | abstract: which template IDs can be asked for | `MCStratumServer` | `StratumServerProofs` |
| `BlockTemplate` | the ring of old templates, implements `TemplateHistory` | `MCStratumServer` | `StratumServerProofs` |
| `StratumServer` | clients, jobs, shares, bans; extends `BlockTemplate` | `MCStratumServer` | `StratumServerProofs` |

In all modules, definitions whose comment starts with "Mutant of" are not part of the
model: each is a plausible bug in the definition it names, used to see that a property
notices it. Every module has a `TypeOK` (or `...TypeOK`): it states what the variables
hold. That of `SideChain` is checked by a run and proved, those of `P2PConnection`,
`P2PoolCore`, `StratumServer`, `Pplns` and `TemplateContents` are proved; the others hold on the instances of their
runs too and are kept for readers and for proofs.

### SideChain

State and steps. A block is a number; what is fixed when it is mined (parent, uncles,
height, difficulties, whether its PoW, payout and mainchain parent are right) is in the
constant `Info`, so a run explores every arrival order of one block tree. The variables
keep the names of the members. `Receive` is `handle_incoming_block_async` with
`block_seen`; `CheckBlock`, `RejectBlock`, `RetryLater` are the outcomes of
`add_external_block` on a pool thread; `AddBlock` takes the write lock, and `pc` then
says where the lock holder is: `PopToUpdate`/`Propagate` are one iteration of
`update_depths`, `VerifyPasses`/`VerifyFails` one of `verify_loop`, and
`FinishVerifyLoop`/`FinishUpdateDepths` call `UpdateChainTip`, which prunes. `verify_loop`
can be entered from inside `update_depths` (`returnTo`). The steps under the lock are
separate so that the pointers on the thread's stack can be compared with what has been
deleted; nobody else changes the store meanwhile. `UpdateBlockTemplate` is the main
loop's callback with `fill_sidechain_data`, `SubmitOwnBlock` a share found by our miners.

Abstractions: the difficulty computed on top of a block is a field of `Info` (only
whether the window below it is complete is computed); the payout check is a field too;
`get_difficulty`'s "too high" error is left out; mainchain lookups are reduced to whether
the parent is known and to heights.

### OutputsBlob

The loop thread in `get_outputs_blob` counts outputs up from 0 while helper jobs take
them from the top; pool threads also run `add_external_block`, whose two locked sections
need the lock that the loop thread holds for reading. The lock does not hold up new
readers for waiting writers, as on the platforms libuv wraps. The pool takes work in
order.

### Pplns

The only variable is the list of blocks mined so far. `Mine` is a miner who takes any
block near the top as the tip, fills in height, uncles and cumulative difficulty as
`fill_sidechain_data` does, and stamps it with a clock that may be wrong. `get_shares`,
`get_wallets` and `get_difficulty` are operators on that tree. The reference definitions
are in the properties: the set of distinct blocks in the window and its total difficulty
(`WindowPaidOnce`), all blocks and uncles below a block (`CumulativeIsWorkDone`). Values
are unbounded where the code has 128 bits; distances of timestamps are truncated to
`TimeModulus` (32 bits), and `CutPart` is 10 in the code.

### TemplateContents, SplitReward, MerkleTree

`update()` holds the template's lock and runs alone; its steps are separate because of
the loops in it: `Update` takes the transactions from the mempool and starts the split of
the largest possible reward, `DryRun` sizes the miner transaction, each `PickTx` is one
round of the picking loop, `EndOfPicking` and `RealRun` build the miner transaction,
`Refine` and `RealRunAgain` are the second try when too many bytes would have to be padded,
`UseOldTemplate` is the way out. `split_reward` is called by these steps and goes through
its own loops (`SplitStep`). Amounts are varints: `VarintBase` values to a byte (128 in
the code), so that a small reward already needs a byte more or less. A transaction is
its fee and weight, and its age in the mempool; which of equally good ones are taken is
open, as it is for `std::nth_element`. `MerkleTree` compares the root from the stored
branch with the root `PoolBlock::get_pow_hash` computes; a hash is the pair it hashes.

Assumed: the miner transaction alone does not exceed the median weight (its minimum in
Monero is 300000 bytes).

### P2PConnection

Two nodes, each with one `P2PClient` for the other, and FIFO channels between them. A
node that closes may lose what the other has not read. The solution of a challenge is a
job on the pool: the worker reads the slot's counter and direction when it runs, the
callback compares the counter again. `Failures` turns on idle time-outs and failing
`uv_queue_work`; `Setups` are the side chains the nodes are configured for and which of
them is `foreign`, i.e. may send messages out of turn. Blocks are only "tip",
"old" or "nothing".

Left out: self-connections and second connections of one IP, SOCKS5, rate limits, the
peer list, bans for blocks that `SideChain` rejects or that are stale broadcasts, and
the ban for peers that do not broadcast.

### BlockSync

One node with its loop thread, its pool, its timer and its cache file, and two peers that
run the same program but handle a message in one step. `OnBlockRequest`,
`OnBlockResponse`, `OnBlockBroadcast` are the message handlers with `deserialize_block`
and its one-entry cache; `AddExternalBlock`, `HashFails` and `SeedMissing` are the outcomes
on a pool thread: the block is added, or forgotten because its hash could not be calculated, or
forgotten because its seed is not known, with a ban for the peer in whose name it was handled
(`PeerLacksSeed` is the same on the other side). `PostHandleIncomingBlock` has the requests that follow, in the name of the
sender and of the fastest peer; `DownloadMissingBlocks` is the timer with its random
choice of a peer for each block; `OnBroadcast` sends a pruned block to whoever broadcast
all its ancestors. `Crash` starts the process again with what is in the file, whose last
entry may be torn. A connection may break (`Drop`). `bans` records who has banned whom so far, and
why; a ban ends after ten minutes, so a connection may follow it. The chain is shorter than the PPLNS
window, so nothing is too old, and connections are past the handshake.

### RandomXHasher and P2PoolCore

`RandomXHasher` has the two caches, the dataset, the locks and the counters of
`set_seed`/`set_old_seed`, cut where they wait; `calculate` is the operator
`CalculateWith`, which says what a thread that asks now would hash with. `P2PoolCore` adds
the main loop, the ZMQ thread, the threads that find blocks and monerod. A mainchain
block is its height; what is known of it (ID, difficulty, timestamp) is a set. A request is
put into `calls` and is with monerod (`rpc`) once the main loop has started it; there it is
answered in any order or fails. `on_stop` discards what is still in `calls`, and so it does
with found blocks on their way (`submitting`). A template is its age for the block found on it
(`age`): `submit_block` gives up when it has left the ring. `silent` says that 300 seconds have
passed without a message from ZMQ; a transaction is modelled as far as it ends the silence.
`uv_async_send` puts a name into `async`, so several calls become one. `StoreMinerData` and the rest of
`handle_miner_data` are separate steps because the ZMQ thread and main may both be in it.
`panic()` ends the process (`alive`).

### BlockTemplate, TemplateHistory, StratumServer

A template is its ID; `update()` and every reader take its lock, so each is one step.
`TemplateHistory` says what is promised: the current template and the last
`OldTemplates` before it can be asked for, no others. `StratumServer` checks
`RefinesHistory == History!Spec`, with `known` mapped to the IDs for which the ring
answers. On top of it, `OnBlock` is main making the blobs, in three steps (count the
clients, draw the nonces, queue), `OnBlobsReady` the loop sending them, `OnLogin` a job
for one client, `OnSubmit` a share that goes to the pool, `CheckShare`, `SubmitShare` and
`AfterShare` its way back. A `Client` is a slot that is used again. Extra nonces are a
random start and an offset; two random starts are taken to be far apart. Shares are
good, low, weak or fake.

## 3. Runs

| Run | Instance | Shows |
|---|---|---|
| `fork` | 10 blocks, forks, uncles, an invalid branch, two own blocks, nearly every order, two workers, PoW checks that fail | `NothingIsForgotten`, `TipIsBest`, `BroadcastDiscipline`, `OwnBlockWouldVerify`, `TemplateFresh`, `NeverAddedTwice` |
| `alternative` | two chains that never meet, the mainchain advancing, `prune_delay` passing at any time, blocks pruned in the middle of `update_depths` | `TypeOK`, `PruningIsSafe`, `DepthIsDistance`, `HeaviestRecentWins` |
| `outputs_spare` | 3 threads, 2 blocks, 2 helpers, 3 outputs | `NoUseAfterReturn`, `CachedWhenTheyMeet`, `HelpersFinish` |
| `outputs_busy` | 2 threads, 2 blocks, 2 helpers | violates `HelpersFinish` (finding) |
| `template` | 4 transactions, 20 combinations of miner data and shares | `RewardIsExact`, `RoundingIsFair`, `PaysTheRewardOfItsWeight`, `PickingPays`, `BranchLeadsToRoot` |
| `pplns` | 6 blocks, window 3, two miners, one with a wrong clock | `PayoutIsRight`, `CumulativeIsWorkDone`, `FastClockIsIgnored` |
| `p2p_connection` | one side chain with and without failures, two side chains, a peer of either that talks out of turn; two connections in a row, fairness | `HonestPeersGetAlong`, `SolutionsAreCurrent`, `StrangersAreKeptOut`, `HandshakeSucceeds`, `StrangersPart` |
| `p2p_stale_tip` | a peer without blocks at first | violates `OldBlocksAreNoTips` (finding) |
| `p2p_strangers` | a peer of another side chain that talks out of turn | violates `NoAnswersAfterInvalidSolution` (finding) |
| `core` | two new blocks across a seed change, or failures, found blocks, new tips and a stop at any moment; 2 pool threads | `HashIsOfItsSeed`, `TemplateFollowsMinerData`, `LastFoundBlockIsSubmitted`, `CatchesUp`, `StopAfterSeedEnds` |
| `stratum` | 2 slots, 2 miners of whom one is honest, rings of 2 | `UniqueWork`, `HonestMinersAreSafe`, `CountedShareReachesChain`, `RefinesHistory`, `EventuallyOnLatest` |
| `block_sync` | 2 peers, 5 blocks with an uncle, rings of 2, seven starting points | `BansAreForMissingSeeds`, `SeenMeansHere`, `BlocksArrive` |

Some properties are conjunctions of named parts, which the modules define one by one:
`NothingIsForgotten` (what can be verified is, the rest is asked for), `PruningIsSafe` (no
dangling pointer, agreeing indexes, a complete window), `HonestPeersGetAlong`,
`StrangersAreKeptOut`, `PickingPays`, `PayoutIsRight`, `HonestMinersAreSafe`.

Bounds.

* `SideChain`: `Window`, `UncleDepth` and `PruneSlack` are 3, 2, 2 (2, 1, 1 in
  `alternative`; the code: 2160, 3, 12): the smallest values for which an uncle can lie
  below the parent of its block and for which the prune distance
  `2 * Window + PruneSlack` is more than the depth at which `verify` stops checking.
  `After` fixes part of the arrival order of the long chains of `alternative`; `fork` has all
  orders, but for the block on top of the invalid one, which comes late, before or after it. `Workers` bounds blocks in flight, `TopHeight` the height
  index, `MaxHeight` the mainchain. `DepthModulus` stands for 2^64.
* `P2PConnection`: two connections in a row are enough for work of the first to meet the
  second, and `MaxSends` 2 for one request to overtake an empty answer.
* `BlockSync`: each of the seven setups of `MCBlockSync` is a situation of its own (a crash
  with an empty or a full cache file, one fault or two (a broken connection, a failed hash, a
  missing seed), a broadcast with an uncle or from two sides, a peer with less or with an orphan,
  a cached block); rings of 2 overflow with the third block.
* `P2PoolCore`: `Epoch` 2 and `Lag` 1 (2048 and 64) put a seed change between the two new
  blocks. `OldTemplates` 1 (4) lets a template leave the ring after two updates. `Budget` says
  what the environment may do in one behaviour; each combination is small, as the requests and
  the two threads multiply.
* `StratumServer`: rings of two templates and two jobs (4 and 4) wrap with the third, and
  two slots are enough for one to be taken over by another miner. Two bad shares are a
  ban.
* `TemplateContents`: medians that the miner transaction nearly fills, so that every
  transaction costs a part of the base reward, and rewards at the varint edges.
* `Pplns`: a window of three, passed by three blocks; forks start at the top or one below;
  two steps of the fast clock pass `TimeModulus` (8 for 2^32), so that differences are truncated.

Deadlock is not checked: every model comes to rest when its bounded environment has no
more blocks, connections or shares to offer.

Fairness. `SideChain`: none, and no liveness: a block that could not be checked comes again only
if somebody sends it, which the code does not promise (section 4; `BlockSync` has what it does
promise).
`OutputsBlob`: the loop and every pool thread make progress when they can; the lock is
given to a waiting writer once there is no reader. `P2PConnection`: loops and pool
threads run on; time-outs and sends are never promised. `BlockSync`: loop, pool and peers
run on; the timer's random choice falls on each peer again and again (strong fairness,
because the timer only looks while something is missing). `P2PoolCore`: threads run on,
monerod answers, the P2P server's timer fires; nobody has to mine, fail or stop. Time enters
in two guards: the 300 seconds of silence pass only when nothing is in progress (`Silence`:
requests time out after 10 or 50 seconds), and a restart is over when `check_zmq` comes again
after a minute (`CheckZMQ`). Transactions may keep the reader from ever being silent;
`CatchesUp` has the premise that they do not.
`StratumServer`: main returns from `on_block`, the loop handles its wake-ups.

What the properties do not say. After `verify` has skipped blocks as too deep, the tip
may wait for the next block, and `update_chain_tip` ignores a block at depth >= the
window; `TipIsBest` and its neighbours state these limits. Two genesis blocks have the
same empty parent and count as one chain in `is_longer_chain`. `NoDanglingPointer` needs
`PruneSlack >= UncleDepth` at least; the default chain has 12, and `check_config` allows block
times up to 120 s, for which the slack is 1. In `alternative` blocks may be
deleted for their age (`Aging`), so `DepthIsDistance` only checks that no depth is too small; the
theorem has both bounds, the upper one for `Aging` off. The only block of ours that
becomes a job in `fork` has no uncles; that the chosen uncles are valid is left to the theorem
(`OwnBlocksVerify`). `NothingIsForgotten` and `BroadcastDiscipline` are checked in `fork`, which
never prunes. `CountedShareReachesChain` is about templates: a second share of the same template is
counted and then dropped by `block_seen` (`block_template.cpp:1118`). `BlocksArrive` promises nothing once a
connection has broken, a hash failed or a seed was missing. `StopAfterSeedEnds` starts when the first seed is set and the request for the old one has been
started. `LastFoundBlockIsSubmitted` is about the last of several blocks: the slot holds one; and
it ends where the block's template has left the ring. `CatchesUp` excepts a start-up whose miner
data did not parse, and says nothing while transactions keep coming.

## 4. Findings

* `outputs_busy`: `get_outputs_blob` waits for helper jobs that cannot start when all
  pool threads wait for the lock it holds (`side_chain.cpp:827`).
* `p2p_stale_tip`: an empty answer to the chain tip request leaves
  `m_chainTipBlockRequest` set, so that the next old block is judged as a stale tip and
  the peer is banned (`p2p_server.cpp:1836`).
* `p2p_strangers`: an invalid handshake solution does not close the connection "immediately"
  (`p2p_server.h:81`) if our own solution is still being computed: `m_handshakeComplete` is
  set, and until the callback of `send_handshake_solution` closes the connection, requests of
  the other side are answered (`p2p_server.cpp:1752`, 1229). Nodes that run this program send
  no requests at that time, so this needs a peer that talks out of turn.

Observed while modelling, without a run of their own:

* `get_difficulty` keeps distances of timestamps in 32 bits (`side_chain.cpp:1156`), and nothing
  limits the timestamp of a block: a clock 2^32 seconds ahead of the oldest one in the window
  wraps, is not cut off and moves the difficulty. `FastClockIsIgnored` says where it ends.
* A block with a wrong height is marked invalid but left unverified, and `verify_loop`
  reports missing parents although nothing is missing (`side_chain.cpp:1351`, 1225).
* An uncle can be left out of the template until the next rebuild. Two blocks on top of each
  other are verified by one `verify_loop`, the lower one at the height of the tip: only the
  upper one is offered to `update_chain_tip`, and if it is lighter than the tip (whose
  uncles count) it is neither a new tip nor a possible uncle, so no rebuild is asked
  for (`side_chain.cpp:1245`, 1646). TLC shows it with seven blocks: three on the first, a tip
  on one of them with the others as uncles, and a fork of length two beside the tip that
  arrives top first. `TemplateFresh` makes an exception for it.
* `split_reward` is not monotone: with weights 2, 1, 4 a reward of 109 gives 31, 15, 63
  and 108 gives 30, 16, 62. The real miner transaction may therefore need a byte more
  than the dry run allowed for; `create_miner_tx` then fails, and `use_old_template`
  assigns to `*this` while `update()` holds the lock that `operator=` takes
  (`block_template.cpp:109`, 211). TLC reaches this in `template` (stage `"locked"`).
* If p2pool is stopped before the first `set_seed` job has started, the job does nothing
  and `set_old_seed` on the main thread waits for it for ever (`pow_hash.cpp:281`).
* `on_stop` deletes the loop's user data with the callbacks queued in it (`p2pool.cpp:491`,
  `uv_util.h:108`), requests that the loop has not started. If the one for the old seed is among
  them, a `set_seed` that has begun spins for ever (`pow_hash.cpp:227`); a found block that is
  queued for submission is lost. (`CallOnLoop` on other threads may also use the data while
  they are deleted; this race is not modelled.)
* A found block is lost when its template leaves the ring of old templates before main gets to
  `submit_block` (`p2pool.cpp:514`): the ID is kept in the slot, the template is not.
* `check_zmq` restarts ZMQ after 300 seconds without a message, and a transaction counts as one
  (`p2p_server.cpp:1096`, `p2pool.cpp:251`): miner data that were missed, or replaced by older
  ones, are not made up for before the next block while transactions keep coming.
* An answer to the first `get_miner_data` that does not parse is skipped and not asked for
  again (`p2pool.cpp:1028`): p2pool waits for ever, as nothing else has been started yet.
* `update_block_template` copies the miner data before it tests `m_updateSeed`: new data in
  between have their seed change consumed with the old seed (`p2pool.cpp:634`), and the
  hasher stays behind until the next miner data.
* `handle_chain_main` relies on the ID of a block that the previous miner data may not
  have stored (`p2pool.cpp:376`).
* A request lost with its connection is not repeated while anything is missing
  (`p2p_server.cpp:1046`), and `m_lookForMissingBlocks` may be cleared while a block with
  missing parents is still on the pool (`p2p_server.cpp:1014`).
* A block whose seed is not known makes `add_external_block` return false, although nothing is
  wrong with it (`side_chain.cpp:518`), and `handle_incoming_block` takes this for bad data and
  bans the peer for ten minutes (`p2p_server.cpp:2102`); for a block from the cache this is a
  peer that has not sent it (`p2p_server.cpp:1056`, 2146). `BansAreForMissingSeeds` says that there
  is no other ban between nodes that run this program.
* More than 100 requests read at once are a ban (`p2p_server.cpp:1302`), and the timer
  sends one for each missing block.

## 5. Proofs

All theorems hold for every value of the constants that satisfies the named assumptions
of the modules: types, finiteness where the code has finite containers, rings that are
not empty. `PROJECT.json` ("theorems") lists them. Most invariants that the runs check are
not inductive; what has to be added is said here.

`SideChainProofs` (`ConstantsAssumption`: any finite block tree, window, uncle depth, number
of workers).

* `TypeCorrect`: `Spec => []TypeOK`. `TypeOK` is not inductive: that `newBlock` and `cur`
  are blocks while the lock is held (`ControlOK`) is needed for the steps that use them.
* `IndexesNeverDisagree` and `NoBlockAddedTwice`: from `StoreInv`, which says that both
  indexes hold the same blocks, that stored blocks and blocks on worker threads are in
  `m_seenBlocks`, and that none of the latter is stored. Pruning removes a block from all
  three (`PruneKeepsStore`).
* `CandidatesAreGood`: `update_chain_tip` is called only with verified and valid blocks,
  so its error message cannot appear; `CandidateInv` carries `highest_block` through
  `verify_loop`.
* `TipStaysGood`, `BlocksGoOutOnce`: if no pointer dangles (`[]NoDanglingPointer`, checked by
  `alternative`), the chain tip is verified and valid, and every block is broadcast at most
  once and only when verified and valid. The premise is there because a deleted and
  re-added block would be a new object. `BroadcastInv` ties the number of broadcasts to
  `m_broadcasted`, to the verdict and to the block being stored, so that a block that is
  deleted and comes again starts from nothing.
* `NothingIsLeftBehind`: `NothingIsForgotten`, for trees whose heights are those that
  `fill_sidechain_data` gives (`HonestHeights`), and for behaviours in which no block arrives
  before `add_block` has stored the block of ours that it builds on (`[]OwnComeFirst`): own
  blocks are added without `verify_loop`, and other nodes know them only from the broadcast
  that follows; later they build on them as on any other block. The
  invariant `ReadyInv`: a block whose parent and uncles are stored, verified and valid is
  verified, on the stack of `verify_loop`, or the new block that `add_block` will still
  verify. The blocks pushed after a block passed (the next `UncleDepth` heights) are exactly
  what keeps it. That an orphan is asked for follows by looking at the lowest one. Without
  `HonestHeights` it is false: a block with a wrong height stays unverified (section 4).
* `DepthsAreDistances`: `DepthIsDistance`, for honest heights, depths that do not wrap around
  (`DepthsFit`) and no dangling pointer. With honest heights `depth + height` of a block is the
  height of the highest block known above it (`Reach`); `DepthInv` says that it has been handed
  down to the parent and uncles of every block that is not on the worklist of
  `update_depths`, and that every depth comes from a block above. Pruning keeps the second
  part because a block whose depth comes from a deleted one is deep enough to be
  deleted with it.
* `OwnBlocksVerify` (`OwnBlockWouldVerify`): a block that our miners find passes `verify`,
  however late it comes. The premises are `HonestHeights`, that own blocks have the members
  that `fill_sidechain_data` and `get_shares` compute (`OwnAreHonest`; the model takes these
  numbers from `Info`), and that nothing is deleted (`[][NothingDeleted]_vars`), which gives
  the absence of dangling pointers by itself (`PointersStay`). The last premise is needed: a
  job does not expire in the model, so after a pruning the window of its parent may be
  gone. All blocks of the three instances satisfy the first two, and `fork` never prunes.
  `OwnInv` says that the tip is valid with a complete window (or `get_difficulty` would have
  failed) and that the parent and the uncles of every job handed out are still fit for it
  (`JobGood`). The work is in the uncles: `get_uncles` and `verify` look for the common ancestor
  with walks down the chain that start at different heights, so `Related` states
  where two walks meet without naming a state. `Ancestor` and `DownTo` are recursive
  functions; that they have their defining equations is proved with `LeastNumber`.
* `MinersAreOnTheTip`: the first half of `TemplateFresh`, without any premise on the blocks: when
  no rebuild is pending, the template is on the chain tip, whichever of `verify_loop`,
  `add_block` and the main chain has moved it.

`PplnsProofs` (`PplnsAssumption`: any tree of blocks that `Mine` can build, any window, uncle
depth, penalty, miners and clocks). The invariant has four parts. `Shape`: parents and uncles
are older, and heights count the blocks down to the first one. `Typed`: members have their
types. `UnclesAreNew`: a block's uncles are in no ancestor's history. `WorkIsCounted`: the
cumulative difficulty is the sum over the block's history.

* `CumulativeWork` (`CumulativeIsWorkDone`): the history of a new block is that of its parent,
  the block and its uncles, and these three are disjoint, because an uncle that is already
  below the tip, or was counted there, is not chosen (`UnclesAreNotBelow`).
* `FastClock` (`FastClockIsIgnored`): the n-th smallest timestamp is the one with fewer than n
  below it and n or more not above it (`IsNth`), which setting the largest one
  forward does not change as long as n is not the last. The code sorts distances from the
  oldest timestamp, truncated to 32 bits; without truncation they have the same order
  (`NthShift`), which is why the property asks for clocks within 2^32 seconds.
* `Payout` (`PayoutIsRight`): no block is in the window twice (`EntriesDistinct`), the shares of
  a round add up to the difficulties of its block and uncles (`RoundSum`, where what an
  uncle loses goes to the block that includes it), the sorted list has every share once
  (`SortedIs`), and the loop that combines neighbours keeps the total and names every wallet
  once (`CombineStep`, `CombineAll`).
* `Types`: the type invariant.

The proof showed that `CutPart` has to be 2 at least (it is 10): with a cut of everything
the two timestamps of the cut would be in the wrong order.

`TemplateContentsProofs` (`TemplateContentsAssumption`: any finite set of transactions, any fees,
weights, sizes, rewards and shares).

* `ExactReward` and `FairRounding`, for any sequence of calls of `split_reward` (`SplitSpec`)
  and any list of weights. `SplitInv` ties the sums the loops have built so far to the
  histories `weightOf` and `givenAt`; the telescoping of `next_value - reward_given` gives
  exactness, and two divisions that differ by one weight give the rounding bound.
  `SplitNeverFails` applies this to the calls of `update()`: as every share has a weight, they
  succeed.
* `PaysItsReward` (`PaysTheRewardOfItsWeight`): the double check has added up all the rewards
  (`CheckedSum`); `miner_tx_weight` is the size with the padding to come (`SizeInv`);
  fees and weight are those of the transactions taken (`PickInv`, `CollectInv`); and what was
  split last is the final reward (`PayInv`).
* `PicksPay`: the part of `PickingPays` that holds before `Refine`. A miner transaction above
  the median would make it false: the first comparison of the loop would be with the full
  base reward, which such a block does not get.
* `BranchIsRight` (`BranchLeadsToRoot`): on every level only the first entry depends on the
  miner transaction, and the branch holds its neighbour (`BranchToRoot`). The first hash always
  moves up alone (`DepthIs`), so the case `i == 0` of the loop over the pairs
  (`block_template.cpp:910`) never happens.
* `TemplateTypes`: the type invariant; the extra nonce stays within its field.

Sums in both modules are over finite sets (`SumFunctionOnSet`). That such a sum grows by the
element added is proved from the smallest set for which it fails (`SumStep`, `SmallestSet`),
and that a recursive function satisfies its equation with the least argument for which it
would not (`LeastNumber`).

`OutputsBlobProofs` (any number of pool threads, blocks, helpers and outputs).
`HelpersNeverOutliveTheCall`: `started` counts the helpers that have finished plus those in the
queue or on a thread, each of them in one place (`HelperInv`), so when the counters are
equal none is left. `EverythingIsCached`: the helpers have taken every output above their
counter, until it is set to -1, and what the loop thread has seen of the counter stays
true until it acts on it (`TakenFromTheEnd`).

`P2PoolCoreProofs` (`CoreAssumption`, `HasherAssumption`). `HashesWithTheRightSeed`: a cache is
always for its seed, and the dataset for the current one unless someone holds its lock for
writing (`HasherInv`). `NoMinerDataIsLost`: the template has, or main is about to give it, the
latest miner data, or a thread in `handle_miner_data` or a wake-up is on the way to
`update_block_template` (`TemplateInv`). `FoundBlocksAreSubmitted`: the same for the submit slot
and the requests on their way, or the block's template has left the ring (`SlotInv`).
`CoreTypes`: the type invariant.

`StratumServerProofs` (`TemplateAssumption`, `StratumAssumption`) begins with the lemmas that
the ring of old templates is the sliding window of the last IDs. `RingIsHistory`
is the refinement `Spec => RefinesHistory`: `update()` maps to a step of `TemplateHistory`, all
other steps stutter. `NobodyWorksTwice`: extra nonces in use are below the next one, those that
`on_block` took for blobs in the queue are in nobody's job yet, and the clients in the list
are distinct (`NonceInv`, `ListInv`). `HonestMinersKeepMining`
and `CountedSharesCount`: what a share on the pool remembers of its client and job
(`ShareInv`, `JobInv`), through the reuse of slots. `StratumTypes`: the type invariant.

`BlockSyncProofs` (`SyncAssumption`: any finite set of blocks whose references point to
smaller numbers, any number of peers, any ring and cache size, any setup).
`OnlyMissingSeedsBan` (`BansAreForMissingSeeds`) and `SeenBlocksAreHere`, from one invariant `IInv`: on every connection the
requests and responses on the way are no more than the requests still counted as
open (`Pair`); what is broadcast or kept in a broadcast ring is a block with all its
ancestors, on the side that sends and on the side that is said to have it (`Complete`, so
a pruned block can always be filled in); the one-entry cache of `deserialize_block` never
keeps a failure of an honest block (`LastIsGood`). The ancestors `Below` are a recursive
function; that it has its defining equation, and what is closed under it, is proved with the
least number for which a claim fails (`LeastNumber`).

`P2PConnectionProofs` (two nodes, any number of connections, messages and setups).
`ConnectionTypes` and `SolutionsAnswerTheirChallenge`, from `HInv`: a job on
the pool that still belongs to the current connection carries its challenge, and the reset
counter tells the others apart (`JobsInv`); every challenge and solution on the way belongs to
the current connection (`ChannelsInv`); before its peer's solution has been checked a node has
sent only its handshake (`SilentInv`); between two side chains two nodes that run this
program get no further (`StrangersInv`). `StrangersStayOut` (`StrangersAreKeptOut`) adds
`KeptOutInv` for peers that say anything at any time: a client of a stranger has no requests
open, and its handshake is never over while it is open and its own solution is out.
`HonestPeersNeverFight` (`HonestPeersGetAlong`) needs `PeaceInv` besides, for two nodes of one
side chain: what a node has read and what is on its way to it is CHALLENGE, SOLUTION,
LISTEN_PORT and then the rest, exactly as far as the sender has got with its own handshake
(`InPlace`, `Written`); answers on the way and unanswered requests are no more than the requests
still counted as open (`Count`, in `Side`); and at most one job computes a solution for
the current connection, and only before it has been sent (`OneJob`). Without `OneJob` a second
SOLUTION could arrive after LISTEN_PORT, and without the flags of both ends (`Flags`) the order
alone does not say who may send next.

What is not proved:

* Liveness (`HelpersFinish`, `HandshakeSucceeds`, `StrangersPart`, `CatchesUp`,
  `StopAfterSeedEnds`, `EventuallyOnLatest`, `BlocksArrive`): the prover handles neither fairness
  nor ENABLED.
* `PruningIsSafe`, i.e. that no pointer dangles and the tip's window is complete: it is not
  true of every tree (it needs `PruneSlack` to be large enough compared with `UncleDepth`, and
  blocks whose uncles fork off nearby), and the proof would have to follow the parts of
  the tree that one `verify_loop` reaches. Its first part is a premise of three theorems.
* `TipIsBest` and `HeaviestRecentWins`: they are not true of every tree. `verify_loop` offers
  `update_chain_tip` only the highest block it has verified; if the window of that one is not
  usable, it is ignored, and a lower block verified by the same loop is not offered. A
  proof would need a premise that rules such trees out.
* The second half of `TemplateFresh`, that the template misses no recent uncle: here too only
  one block of every `verify_loop` counts (section 4), so what is missing depends on the tree.
  It is checked on the blocks of `fork`.
* The rest of `PickingPays`: after `Refine` the weight follows from another split, and as
  `split_reward` is not monotone (section 4) a smaller reward may need a byte more. That the
  template is still worth the base reward depends on the sizes of the instance.
* In `BlockSync`, that stored blocks are in `m_seenBlocks` (part of `TypeOK`), which depends on
  the blocks of a setup being distinct.

## 6. Not modelled

* Byte formats (`pool_block.cpp`, the parser), cryptography, wallet, logging, console, API
  and parameters: pure functions over large values or input and output without a
  protocol.
* `Miner`: two job buffers, written by `on_block` while a worker that read the index
  earlier may still copy from one (`miner.cpp:93`).
* Ephemeral key precalculation: workers that keep block pointers while blocks are pruned
  (`side_chain.cpp:1875`).
* `TCPServer` beyond slots and bans: pending connections (a failure after
  `tcp_server.inl:323` leaves an address in the list), two nodes that connect to each
  other at the same time (`p2p_server.cpp:1186`), send buffers, SOCKS5, shutdown.
* Bad blocks on a connection: a pool worker closes the client of a bad block from its own
  thread (`p2p_server.cpp:2104`), which libuv does not allow for.
* The peer list and its timers; hash rate statistics and automatic difficulty of stratum;
  `RandomX_Hasher_RPC`.

## 7. Plan

1. Proofs: for which trees `TipIsBest` and the uncles' side of `TemplateFresh` hold, as a
   premise on the blocks that one `verify_loop` can verify together.
2. `MinerJobs` and `Precalc`, the two remaining places where pointers or buffers are used
   outside a lock.
3. `TCPServer`: pending connections and simultaneous connects.
4. An abstract side chain (a set of blocks and the heaviest valid tip) that `SideChain`
   implements.
