# A specification of the vindex-coin daemon

This directory specifies the parts of the daemon (a Monero-derived full node)
that decide what is on its chain and in its transaction pool, how it downloads
that chain and how its threads share it, in TLA+, checks them with TLC on small
instances and proves part of them with TLAPS for all instances. Paths below are relative to the repository.

| module | what it is |
|---|---|
| `TxPoolOps` | `tx_memory_pool` as operators from pool state to pool state |
| `TxPool` | those operators as a state machine: any operation, any order, a chain that moves |
| `MCTxPool`, `TxPool.cfg` | its instance for TLC |
| `TxPoolOpsProofs` | what the pool's operations preserve and change, as lemmas on any pool record |
| `TxPoolProofs` | theorems about `TxPool` |
| `Blockchain` | main chain, alternative chains, invalid blocks, reorganisation, batches, template cache, checkpoints at start, composed with `TxPoolOps` |
| `ChainSelection` | the abstract specification of the main chain, which `Blockchain` implements |
| `BlockchainProofs` | theorems about `Blockchain` |
| `MCBlockchain` with `Blockchain`, `StuckFork`, `ClashingReorg` (`.cfg`) | its instances |
| `TxRelay` | when and how txs of the pool are relayed: messages, the Dandelion++ strand, embargoes, the periodic check, over `TxPoolOps` |
| `MCTxRelay`, `TxRelay.cfg` | its instance |
| `TxRelayProofs` | theorems about `TxRelay` |
| `BatchLocks` with `BatchLocks`, `CheckpointDeadlock` (`.cfg`) | the core's three locks and the database's write batch, as threads take them |
| `BatchLocksProofs` | theorems about `BatchLocks` |
| `HardFork` | the version in force, through adds, pops, switches, aborted batches, restarts and upgrades |
| `MCHardFork`, `HardFork.cfg` | its instance |
| `NatFacts` | the least element of a set of naturals, the greatest, the greatest value of a bounded function, counting up, and that a fold over a sequence exists, for the proofs |
| `HardForkProofs` | theorems about `HardFork` |
| `BlockQueue` | the queue of spans to download, as operators |
| `Sync` | connections that download the chain through that queue |
| `MCSync` with `Sync`, `SyncWedged`, `StrandedSpan`, `ForgottenPeer` (`.cfg`) | its instances |
| `SyncProofs` | theorems about `Sync` |

Every module that models code has a `TypeOK`. The runs check it except where it
says least: those of `BatchLocks` and `TxRelay` are proved instead.

`PROJECT.json` lists components, runs, mutants, the lines each definition
stands for, hazards, findings and theorems.

## 1. Inventory

### Transaction pool (`src/cryptonote_core/tx_pool.cpp`)

*State.* In the database: the tx table with its metadata (relay method,
`last_failed_id`, receive and relay times). In memory: `m_spent_key_images`,
the container sorted by fee, `m_txpool_weight`, `m_input_cache`,
`m_timed_out_transactions`, `m_cookie`.

*Operations.* `add_tx`, `take_tx`, `prune`, `remove_stuck_transactions`,
`set_relayed`, `get_relayable_transactions`, `on_blockchain_inc/dec`,
`fill_block_template`, `validate`, `init`.

*Interactions.* `Blockchain` takes txs for a block and gives them back when it
pops or refuses one; `core` adds what peers send and runs the timers; the pool
asks the chain whether the inputs of a tx pass. Both locks
(`m_transactions_lock`, `m_blockchain_lock`) are taken by each operation, so
an operation is one step.

*Hard.* Four copies of the same fact (table, key image index, sorted
container, weight) kept by increments; conflicting txs that are legal when a
block brought them; an order of relay methods reached from messages, timers
and blocks in any order; verdicts on inputs cached over reorganisations;
`prune` in the middle of other operations.

*Correct when* the copies agree, no conflict can stop `init`, cached verdicts
are true, a template can be mined, privacy is never lowered.

### Blockchain (`src/cryptonote_core/blockchain.cpp`)

*State.* In the database: main chain, alternative blocks, spent images. In
memory: `m_invalid_blocks`, the cached block template, `m_batch_success`,
checkpoints, caches for difficulty and weights.

*Operations.* `add_new_block` (main chain or alternative chain),
`switch_to_alternative_blockchain`, `rollback_blockchain_switching`,
`pop_blocks`, `create_block_template`, `prepare_/cleanup_handle_incoming_blocks`,
`check_against_checkpoints`, `init`.

*Hard.* A switch pops the main chain, connects another and may fail after any
block, then has to restore what it popped through the same handlers that just
failed; the txs of all those blocks go through the pool and back; a batch of
blocks is one database transaction, whose abort restores the tables and not
the memory; a crash shows the last commit; memory that dismisses blocks must
not dismiss good ones.

*Correct when* the main chain is valid at every moment, it is chosen by work
except for checkpoints and pops, no valid block becomes unacceptable, no tx is
lost, and the heaviest chain is reached in the end.

### Core (`src/cryptonote_core/cryptonote_core.cpp`)

Entry points for blocks and txs, start-up order (pool, chain, checkpoints,
alternative blocks), timers. Modelled as the actions of `TxPool`, `Blockchain`
and `TxRelay`.

### Locks and batches (`blockchain.cpp`, `cryptonote_core.cpp`, `locked_txn.h`, `db_lmdb.cpp`)

*State.* Three recursive mutexes (`m_incoming_tx_lock`, the pool's and the
chain's), the one write transaction of the database and the thread that has
opened it, `m_checkpoints_updating`.

*Operations.* Every operation of the core that reads or writes; five shapes of
it differ in what they lock and when.

*Hard.* The batch of a sync outlives the chain lock under which it was opened
and is covered by the pool lock alone; the order of locking is a convention in
a comment; checkpoints are enforced from a timer as well as at start.

*Correct when* no threads wait in a circle, nobody writes into another
thread's batch, and every operation ends.

### Relay of txs (`cryptonote_protocol_handler.inl`, `levin_notify.cpp`, `core::on_idle`)

*State.* `last_relayed_time` in the metadata of each tx, which means the end
of an embargo while the tx is private and the last relay afterwards;
`m_next_check`; the lists a message handler has collected; the callbacks
queued on the zone's strand; the epoch (stem or fluff).

*Operations.* `handle_notify_new_transactions`, `on_send_raw_tx`,
`notify::send_txs`, `dandelionpp_notify`, `set_relayed`,
`relay_txpool_transactions` with `get_relayable_transactions`.

*Hard.* A tx is added in one critical section and gets its relay time in
another, of the same thread or of the strand, or never; the periodic check and
new txs both move `m_next_check`; methods change while a request waits.

*Correct when* every tx that is to be relayed has a time or is on its way to
one, no embargo is overrun, nothing expires in private, and the node's own txs
do not start in public.

### Checkpoints (`src/checkpoints/checkpoints.cpp`)

A map from heights to hashes; what it allows on the main chain and as an
alternative block. In `Blockchain`, enforced at every block and at start; in
`BatchLocks`, what enforcing them locks, at start and while the daemon runs.

### Hard forks (`src/cryptonote_basic/hardfork.cpp`)

*State.* The release's table of forks, a window of the votes of the last
blocks, the index of the fork in force; in the database the version at each
height.

*Operations.* `check`, `add`, `on_block_popped`, `reorganize_from_*_height`,
`rescan_from_*_height`, `init`; called by `add_block`, pops, switches and
`Blockchain::init`.

*Hard.* Index and window move by increments with each block, and are computed
anew at other moments from other data; a batch takes the blocks back under
them; a new release starts on an old chain.

*Correct when* the index is always the fork of the next block's height, so
that the chain has the versions of the schedule, and no rollback is refused by
the version check.

### Block queue and sync (`block_queue.cpp`, `cryptonote_protocol_handler.inl`)

*State.* One queue of spans, keyed by first height and shared by all
connections; of each connection its state, the response it expects, the hashes
it knows and needs, its score; `m_sync_lock`; the target height.

*Operations.* `process_payload_sync_data`, `on_callback`,
`handle_response_chain_entry`, `handle_response_get_objects`,
`try_add_next_blocks`, `request_missing_objects`, `should_download_next_span`,
`kick_idle_peers`, `check_standby_peers`, `drop_connections`,
`on_connection_close`.

*Hard.* Handlers of several connections interleave, look at the queue and the
chain in several critical sections, and take the sync lock only if it is free;
answers come late or never; what one connection reserved another one may have
added, replaced or flushed by the time it is asked about it.

*Correct when* the queue holds what it says, no connection is left with
nothing to wait for, and the chain of an honest peer is reached.

### Database (`src/blockchain_db`)

`add_block` writes the txs of a block in order and throws on an image it
already has; `batch_start/stop/abort`. Modelled as far as order, commit and
abort can be seen from the chain. LMDB itself is trusted: a commit is atomic
and survives the process.

### Not modelled yet, in the plan

*Announcements* (new and fluffy blocks, missing txs of a block).
*Dandelion++ peers* (`src/cryptonote_protocol/levin_notify.cpp`): which peers
are the stem, epochs, delays per connection, noise. *Difficulty, pruning
arithmetic*: pure functions. *Peer list* (`src/p2p`): white, grey and anchor
lists, bans.

### Not modelled, not planned

Cryptography (a signature is valid or not: data of an instance),
serialization, RPC queries, devices, command-line tools: computation or I/O
with no state worth the name. Translations (`src/translations/*.ts`): Qt
Linguist XML, tables of texts of the user interface in as many languages; the
repository has no TypeScript, and there is nothing in them that runs. Wallet, RPC payments, miner threads, thread
pool, Levin connections: programs of their own, candidates after the plan.

## 2. Plan

Order: the chain and its pool come first, as everything else exists to feed
them.

1. `TxPoolOps`, `TxPool`, `TxPoolProofs`: done.
2. `ChainSelection`, `Blockchain` on top of `TxPoolOps`: done.
3. `TxRelay`, `TxRelayProofs`: done for the public zone.
4. `BlockQueue`, `Sync`, `SyncProofs`: done, without pruned peers and announcements.
5. `BatchLocks`, `BatchLocksProofs`: done.
6. `HardFork`, `HardForkProofs`: done.
7. `Difficulty`, `Pruning`: functions against reference definitions, with
   their integer widths.
8. `LevinNotify`, `PeerList`.

Theorems worth proving, in this order: the pool's invariants (done); the lock
order and the ownership of batches (done); the hard fork object (done); the
relay's embargoes and requests (done); `TemplateMinable` (done); the safety
properties of `Blockchain`, which need a lemma for each handler (done); that
each step of `Blockchain` maps to a step of `ChainSelection` (done); the
invariants of `Sync`, `QueueRight` first (done).

Modules that are proved about declare no `RECURSIVE` operator: recursion over
blocks is by recursive functions (`Height`, `Branch`, `Ancestors`), iteration
by folds.

## 3. The transaction pool

### State and actions

A pool is a record `p`; the header of `TxPoolOps` names the field of the code
each of its fields stands for. An operator is a whole operation: `AddTx`, for
instance, is `add_tx` with its early refusals, the verdict it caches, the
upgrade of the relay method, the store and the `prune` at its end.

`TxPool` lets every operation happen at any time. The chain is reduced to what
the pool asks of it: for each top block, which txs are on the chain and whose
inputs pass. `AddBlockTx` is `add_tx` with `relay_method::block`, as called
when a block is popped or refused or comes as an alternative block.
`validate`, which takes every tx out and adds it again in database order, is a
loop of steps, so that its effect depends on the order; nothing else runs in
between, as the code keeps its locks, and no crash shows its middle, as it
commits at its end. `Restart` rebuilds memory from the table; every other
operation commits before it returns.

### Properties (run `tx_pool`)

- `IndexesAgree` (`KeyImageIndex` and `IndexesMatchTable`): index, container and
  weight equal what would be computed from the table.
- `OneUnkeptTxPerKeyImage`: whatever conflicts the pool holds, `init` would
  load them. `Restart` has it as a guard; the invariant says the guard never
  bites.
- `VerdictsFresh`: no cached verdict is out of date.
- `TimedOutStayOut`: a tx that expired is not accepted from peers again.
- `TemplateMinable`: no conflict and no failing tx in a filled template.
- `RelayOnlyUpgrades`: the relay method of a stored tx never goes down, also
  when `validate` takes it out and adds it back.

### Bounds

Three txs: `a` and `b` share an image, `b` and `c` another, so that a conflict
chain of length two exists; weights 2, 1, 1 against a limit of 2, so that the
pool must prune with any two that include `a` and with all three; two top
blocks, on one of which `a` is mined; two rule sets, one of which refuses `c`;
ages up to 2 with life times 0 and 1, so that txs from blocks and from peers
expire at different times. Peers send stem and fluff (`IncomingRelays`); the
relay methods `local` and `forward` reach the pool through `set_relayed`
(`local`) or not at all in this instance; `TxRelay` has them. The proofs have none of these
bounds.

### Proofs (`TxPoolProofs`)

The invariant proved is

    TypeOK /\ Inv(pool),   Inv(p) == Sound(p) /\ Truthful(p) /\ Parked(p)

`Sound` says that the record has its type, the three indexes are exact and the
table can be loaded; `Truthful` that cached verdicts are true of the top block;
`Parked` that a timed-out tx is out or came with a block. The parts need each
other: the weight stays in `Nat` only because it is exact (the subtraction in
`reduce_txpool_weight` saturates otherwise), the table stays loadable only
because the key image index is exact (`insert_key_images` looks at the index,
not at the table). The lemmas of `TxPoolOpsProofs`, which `TxRelayProofs` uses
too, show for each operator that it preserves `Sound` on any pool record
(`RemoveSound`, `StoreSound`, `AddTxSound`, ...) and what it changes
(`AddTxEffect`, `AddTxTimes`, `SetRelayedSound`, ...); the theorem has one step
per action.

Assumptions, all named in `TxPoolOps` and `TxPool`: weights are naturals and
add up over disjoint sets, fee ranks are distinct naturals, every tx has a set
of key images, `NoTop` is not a block, and the chain's functions have their
types. Sets may be infinite.

| theorem | property |
|---|---|
| `TypeCorrect` | `TypeOK` |
| `IndexesExact` | `IndexesAgree` |
| `AlwaysLoadable` | `OneUnkeptTxPerKeyImage` |
| `NoStaleVerdict` | `VerdictsFresh` |
| `NoReturnAfterTimeout` | `TimedOutStayOut` |
| `PrivacyMonotone` | `RelayOnlyUpgrades` |
| `TemplatesMinable` | `TemplateMinable` |

`TemplateTxs` is chosen as the one set that agrees with the greedy loop. That
it exists, for every set of txs and every fee order, is `TemplateRight`: the
choice is made for the txs ranked below `n`, and a least `n` for which it
cannot be made (`NatFacts`) leads to a contradiction, as `n - 1` is extended by
at most one tx.

## 4. The blockchain

### State and actions

A block is an id; its parent, difficulty, txs and whether its header or
reward is wrong are data of the instance. The variable `st` is the state the
handlers work on, memory and open write transaction together; `saved` is what
the database has committed. Handlers call each other, so they are operators on
`st` (`HandleBlockToMainChain`, `StoreAlternative`, `Switch`, `Rollback`, ...)
and actions apply the outermost one:

| action | code |
|---|---|
| `SingleBlock(b, supplement)` | `core::handle_single_incoming_block`; `supplement` are the txs that came with the block, any subset of its txs |
| `BeginBatch`, `BatchBlock(b)`, `EndBatch` | `prepare_handle_incoming_blocks`, `handle_incoming_block`, `cleanup_handle_incoming_blocks` as the sync handler calls them |
| `IncomingTx(t, relay)` | `core::add_new_tx` |
| `PopBlocks(n)` | `pop_blocks` |
| `CreateBlockTemplate` | `create_block_template` when the cache does not serve |
| `FlushInvalidBlocks` | `flush_invalid_blocks` |
| `Restart(points)` | the process dies or stops at any moment, also within a batch, and `core::init` runs with the checkpoints `points` |

An `add_block` that throws in the middle leaves `halfTxs` and `halfImages`,
the rows it has written, until the batch is aborted: handlers that run before
the abort see them, as the code does.

### Abstract specification

`ChainSelection` has the tip of the main chain, the checkpoints and the number
of pops, and nothing else. `Adopt(b)` moves the tip to a valid block with more
work, or to one whose chain goes through another checkpoint whatever its work,
and never leaves a checkpoint the chain goes through; `Pop` and
`ChangeCheckpoints` move it back to an ancestor. The property `Selects` is its
behaviour with `tip` mapped to the last block committed: a failed switch, a
rollback, an aborted batch and a crash are stutters or one adoption, never a
step back.

### Runs

| run | question | result |
|---|---|---|
| `blockchain` | Is the chain valid, the pool consistent with chain and table, no tx lost, a checkpoint that comes and goes with restarts respected, the selection as specified, no valid block refused and the heaviest chain reached, through races, failed switches, batches, pops and crashes? | yes; but for a fork that begins on the top block |
| `stuck_fork` | Does a fork the daemon knows go on growing, wherever the main chain has gone? | violated |
| `clashing_reorg` | Are only invalid blocks listed as invalid when a switch meets a block that spends an image twice? | violated |

`MainChainValid` is stated against `ValidBlocks`, a definition of the
consensus rules on the tree of blocks alone, without chain, pool or handlers.
`TxsKept` compares committed states, so it covers crashes; it is asked where
the pool is not full and nothing expires, and of blocks that can be popped and
given back. `ValidBlocksAccepted` asks of every valid block that has not been
seen, in every state outside a batch, what would become of it if it came now
with all its txs: it is added if it is next to the top, and stored if its
branch leaves the main chain below the top and the pool has none of its txs in
private (first weakness below). The branch that leaves the chain *at* its top is
`stuck_fork`.

*`stuck_fork`.* With the chain `g a1` and the fork `b1`, the operator pops `a1`.
Now `b1` is a child of the top, and known: it is not handled again. `b2` comes:
`build_alt_chain` finds the branch `b1`, whose first block has the height of the
main chain, and asserts that it is lower (`blockchain.cpp:1881`: "make sure alt
chain doesn't somehow start past the end of the main chain").
`handle_alternative_block` returns false, `b2` is not stored, and neither is
any block after it, whatever work they have. `KnownForksGrow` is the promise of
the comment above that function, "If its parent block is part of a known forked
chain, then we need to see if that chain is long enough to become the main
chain" (1911). A rollback to a checkpoint leads there too, if alternative
blocks are kept over the restart (`--keep-alt-blocks`). It goes away when any
block is added on top, from another branch or by the miner, and at a restart
without `--keep-alt-blocks`. `ConvergesToHeaviest` excepts a daemon that has
such a fork on its top for ever (`ForkOnTop`), and nothing else.

*`clashing_reorg`.* `check_tx_inputs` looks at the chain, not at the other
txs of the block; a block that spends an image twice gets as far as
`add_block`, which throws. When it ends a heavier branch, the rollback
connects the original blocks while the rows of the half-written one are still
there; a tx whose image is among them fails, and its block, valid and after
the abort on the main chain again, is in `m_invalid_blocks`.

### Known weaknesses

These are in the model and reached by no run, as the instances or the
properties avoid them; each was met with TLC on one that does not.

- *Private txs and acceptance.* A tx received in stem, whose inputs another
  block spends, comes with an alternative block. Its inputs fail on the main
  chain, so `add_tx` takes the branch for kept-by-block txs, whose
  `add_txpool_tx` throws on the row that is already there (`tx_pool.cpp:260`),
  and the valid block is refused as failed. (`ValidBlocksAccepted`, without
  `InPublic(b)`, and with it `ConvergesToHeaviest`, which asks that the pool has
  no such tx again and again.)
- *The pool after an aborted batch.* The tables go back; the txs that the
  supplement and the popped blocks have put into the pool since the batch began
  stay in `m_spent_key_images`, the sorted container and `m_txpool_weight`
  without a row. (`Blockchain.cfg` has no block that aborts a batch; with
  the clashing tree, `PoolAgrees` fails.) The reverse happens too: a row that the
  abort brings back has lost its key images, so that a second spender is let
  into the pool, and the next start fails on the table. (`StartSucceeds`, with
  the clashing tree and txs from peers.)
- *A checkpoint at height 1.* `rollback_blockchain_switching(empty, pt.first
  - 2)` wraps; the height is above the chain's and the rollback returns at
  once. (`CheckpointsRespected`, with a checkpoint at height 1.)
- *Two checkpoints that fail.* `check_against_checkpoints` compares with the
  height it read before its loop; after one rollback the next point is asked of
  a chain that no longer has it, and the exception ends the start.
  (`StartSucceeds`, with two.)

### Bounds

All three runs have one tree of nine blocks (`MCBlockchain`): two branches
`a1 a2 a3` and `b1 b2 b3` of equal work at height 2, of which `b3` is the
heaviest valid block, and two heavier ends that are invalid: `x3` on `b2`
spends again what `b2` has spent, `a4` on `a3` takes a wrong reward. `t1` in
`a2` and `t2` in `b2` spend one image; `t2` also needs an output of `b1`, so
that it fails on the other branch. Ties, switches in both directions, switches
that fail at their last block after popping and connecting two, orphans and
blocks on rejected branches all occur, and, as two txs come in stem or fluff or
with blocks, so do conflicts between pool and branch. `blockchain` has no
checkpoint or one at `b3`, which appears and disappears over restarts with
alternative blocks kept, one operator pop of any depth and any number of
restarts; `stuck_fork` the same without a checkpoint; `clashing_reorg` has
`t2, t1` in `x3` instead, and neither pops nor txs from peers, which it does not
need. The pool limit is not reached (the pool's own run has that). This small
depth is enough for the code's case distinctions: first block of a branch,
middle, last; rollback to the fork point; branch below the top and at the top;
checkpoint at and above the height.

`CHECK_DEADLOCK FALSE`: in an instance with finitely many blocks and pops the
system may really have nothing left to do.

### Fairness

`FairSpec` assumes that a block of a valid chain with the most work (`Announced`)
whose handling would change something
infinitely often is handled infinitely often (strong fairness of
`SingleBlock(b, TxsOf(b))`, whose enabling condition is spelled out as
`CanArrive(b)`), and that an open batch ends (weak fairness of `EndBatch`). The
first is the network: peers announce their chain again with every new block
and at every handshake, and a block that was refused for a missing parent or
lost by a crash is asked for again. Weak fairness would not do: batches, pops
and restarts disable a block again and again. The second is the code: the sync
handler leaves its loop over the batch in every case through
`cleanup_handle_incoming_blocks`. Other blocks come
or do not. Nothing is assumed of the operator except, in the property itself,
that restarts come to an end, as a daemon that is killed for ever need not get
anywhere, and that the daemon ends without checkpoints, which may forbid the
heaviest chain; pops are bounded by `MaxPops`.

### Proofs

What the handlers are given and what they leave is `Good(s)`:

- the record has its type, its chain is a path from the genesis block of blocks
  that keep the rules, and the genesis block is not an alternative block;
- if no block spends an image twice within itself (`NoClashes`): `Settled`, no
  batch has failed, no half-written block is there, no valid block is listed as
  invalid, the pool is `Sound` (the invariant of `TxPoolProofs`) and has no tx
  of the chain, and a failure noted for a tx is right for the block it is noted
  with; and `Fresh`, the cached verdicts and the cached template are about the
  chain as it is.

`Settled` holds within the handlers as well, between two txs of a block that is
taken apart; `Fresh` does not, which is why they are separate. Each handler has a
lemma: from a good state it makes a good state, and loses no tx (`Keeps`: if the
pool has room for all txs). `AddNewBlockEffect` adds that the chain only goes
`Forward`: to a chain that respects the checkpoints if it did before, and that
has more work or another checkpoint. This is where the rollback matters: after a
switch that fails, the blocks it disconnected are connected again, each of them
valid, with its txs in the pool to where the pops have returned them
(`RestoredForward`). So a failed switch ends on the chain it began with; without
`Keeps` the rollback could stop half way for want of a tx, and without
`Settled` for a tx it finds twice.

The invariant is

    Inv == TypeOK /\ Good(st) /\ GoodSaved(saved) /\ no block in two places,
           in memory or in the database /\ the txs in the database are in
           memory /\ outside a batch both have the same chain

The part about `saved` is needed as an aborted batch and a start go on from the
database and not from memory. `NextStep` says of every step that it preserves
`Inv`, loses no tx of the database and is one of four: `Moves` (forward),
`Pops`, a start, or no step. The checkpoints (`Guarded`) and the selection
(`Ahead`: memory is at or ahead of the database; a start that failed fails again
with the same checkpoints) are invariants on top of it, and need only these
four cases. That a start fails again is `FailsRight`: what
`check_against_checkpoints` does is a function of chain and points, as the
rollbacks it asks for connect nothing.

Iterations are folds. For each, a lemma (`ConnectSteps`, `PopToSteps`, ...)
says that the states it goes through exist, as a function on `0 .. n`; facts
about them are then proved by counting up (`CountUp`). Recursion over the tree of
blocks (`Ancestors`, `CumulativeDifficulty`, `Branch`) exists and is unique by
`TreeRecursion` and `TreeInduction`, over the height of a block.

Assumptions, named in `Blockchain`: the data have their types
(`BlocksAssumption`); every tx has an input (`InputsAssumption`: the semantic
check refuses others, `cryptonote_core.cpp:834`); every block descends from
the genesis block (`TreeAssumption`: a block holds its parent's hash). The tree,
the txs and the sets of checkpoints may be infinite. Hypotheses of single
theorems, which the instance of `blockchain` fulfils but for the fourth:

- `NoClashes`: no block spends an image twice within itself. No honest miner
  makes one; with one, the run `clashing_reorg` and the second weakness above
  show that the properties fail.
- `Roomy`: all txs fit into the pool. `prune` drops txs otherwise.
- `AllProper`: no two checkpoints of a set have the same height
  (`checkpoints::m_points` is a map by height), and none has height 1 (third
  weakness above).
- `OnePointSet`: the checkpoints do not change (fourth weakness above).

| theorem | property | hypotheses |
|---|---|---|
| `TypeCorrect` | `TypeOK` | |
| `ChainAlwaysValid` | `MainChainValid` | |
| `InvalidStayInvalid` | `InvalidBlocksAreInvalid` | `NoClashes` |
| `OneHome` | `OneHomePerBlock` | `NoClashes` |
| `PoolApartFromChain` | `PoolChainDisjoint` | `NoClashes` |
| `PoolStaysRight` | `PoolAgrees` | `NoClashes` |
| `TemplateStaysMinable` | `CachedTemplateMinable` | `NoClashes` |
| `NoTxLost` | `TxsKept` | `NoClashes`, `Roomy` |
| `NextValidBlockAdded` | `NextBlockAdded`, defined beside it | `NoClashes` |
| `CheckpointsAlwaysRespected` | `CheckpointsRespected` | `AllProper` |
| `StartAlwaysSucceeds` | `StartSucceeds` | `NoClashes`, `OnePointSet` |
| `ChainWellChosen` | `Selects` | `NoClashes`, `Roomy`, `AllProper` |
| `ValidStayAccepted` | `ValidBlocksAccepted` | `NoClashes` |

`NextBlockAdded` is what `ValidBlocksAccepted` says of blocks on top of the
main chain, asked with checkpoints and in the middle of a batch as well; the
inputs of these txs pass. Those of an alternative block's txs may fail on the
main chain, and `add_tx` then writes a row that must not be there. It is not,
unless the pool has the tx in private, as `add_tx` has returned before for one
that it has in public; `SupplementTaken` goes through the supplement with this
argument for each tx, and needs of `add_tx`, `prune` included, that it makes no
other tx private (`AddTxEffect`). That the branch passes the last checks of
`build_alt_chain`, the one at line 1881 among them, is `RootedBelow`: the
first block of the branch is one above its parent, which is below the top.
`ConvergesToHeaviest` is left to TLC.

## 5. The relay of txs

### State and actions

`TxRelay` has the pool of `TxPoolOps` and what that leaves out: `due` is
`last_relayed_time` (`Never` is its maximum, which `add_tx` writes), `check` is
`m_next_check`, both relative to now.

| action | code |
|---|---|
| `Receive(s, txs, relay)`, `AddNext(s)`, `RelayMessage(s)` | a message of a peer or an RPC call: one critical section per tx, then the relay of what was collected |
| `SendStem`, `Fluff` | `dandelionpp_notify` on the strand; a stem that cannot be sent to is fluffed in a second critical section of the same callback |
| `CheckRelayable`, `RelayOverdue` | `get_relayable_transactions`, and what `relay_txpool_transactions` does with its result after the locks are given up |
| `RemoveStuck`, `Restart` | expiry; end of the process and `init` |
| `Tick` | a unit of time passes |

Between any two of these the others can run: a tx listed as stem may have been
fluffed by a peer when `RelayOverdue` gets to it. The epoch is a free choice at
each callback, as is whether the stem can be sent to, and the length of each
embargo and delay.

`Tick` is the assumption about scheduling: on_idle runs often enough for a
check that is due not to wait for a unit of time (the network server has it
as an idle handler of one second, `net_node.inl:1043`, and times are in
seconds), and handlers and callbacks take less than a unit.

### Runs

| run | question | result |
|---|---|---|
| `tx_relay` | `RelayScheduled`, `EmbargoHonoured`, `NoPrivateExpiry`, `LocalGoesThroughStem` with messages of one tx and a restart | hold |

Three weaknesses of the code are in the model, avoided by the instance or
stated as exceptions:

- In a message `<<u, t>>`, where `t` timed out here a while ago, `u` is added,
  `t` is refused without `m_no_drop_offense`, and the handler returns before it
  relays anything (`:959`). `u` is a stem tx with `last_relayed_time` at its
  maximum: no check ever finds it due. (The run has messages of one tx.)
- A process that ends between `add_tx` and `set_relayed` leaves the same state
  on disk. `RelayScheduled` is therefore about the first process, and
  `NoPrivateExpiry` excepts a tx without a time after a restart. A wallet
  sends its tx again; a stem tx is lost here, and only the embargoes of the
  nodes before this one on the stem bring it to the network.
- `get_relayable_transactions` gives each private tx it lists a new time,
  under a `LockedTXN` that is not committed and rolls back. When another tx
  brings the next check forward before the strand has run, a tx is listed
  twice and sent along the stem twice.

`NoPrivateExpiry` also excepts a tx whose wallet keeps sending it: each request
starts the embargo anew, until the last one ends in the second half of the
tx's life, in which the check relays nothing.

### Bounds

Two txs without conflict, a peer and a wallet; embargoes of 0 or 1 units,
checks every 2, life time 2, the least in which an embargo ends while the tx
is young, as `TimesAssumption` asks. Messages come in while the strand is empty (`MaxQueue`), but two handlers and
the check can each queue a callback from there on. Two txs are enough for one
to move `m_next_check` while the other waits. With life time 2 no public tx is
young enough to be relayed again, which no property is about. The two txs are
symmetric: they differ in `FeeRank` only, which `prune` looks at in a full
pool, and this one is never full.

Not modelled: sending over i2p and tor (txs from there come in as `forward`),
the `relay_tx` RPC, txs sent with `do_not_relay`, `pop_blocks` and
reorganisations, which write txs with method `block` and are in `Blockchain`.

### Proofs (`TxRelayProofs`)

Everything the run checks is proved, for any txs, conflicts, sources, embargoes,
delays, periods, life times and number of restarts. Three inductive invariants
are used, each checked with TLC before it was proved:

- `TimeInv`, for `TypeOK` and `EmbargoHonoured`. Its heart is `Covered(t)`: a
  private tx with time left has a check that comes in time, or has been listed
  by that check, or is in a callback on the strand; or its embargo ends in the
  second half of its life. Listed and queued have to be there: between
  `CheckRelayable` and `set_relayed` nothing but the list and the strand holds
  the embargo. `Tick` is where time could overrun it, and it needs both empty.
- `ScheduleInv`, for `RelayScheduled` and `NoPrivateExpiry`: a tx without a
  time is new, and waits in a handler or on the strand. Its age is what the
  expiry needs. Hypothesis: `MessageSize = 1`. With messages of two txs both
  properties fail (first weakness above).
- `AheadInv`, for `LocalGoesThroughStem`: what a handler, the check or the
  strand holds is in the pool or has timed out, and is local only if it came
  from a wallet. Hypothesis: `Weight[Txs] <= MaxWeight`, all txs fit in the
  pool. In a full pool the property fails: a peer's message fluffs a tx, `prune` drops
  it before the handler gets to the relay, its wallet sends it again as local,
  and then the handler marks it as fluffed. (It has been public by then; TLC
  finds the behaviour with a `MaxWeight` of 1.)

Time is a matter of `Sooner`, whose minimum exists by `LeastNat`; the rest is
one lemma per action and invariant, over lemmas on what `set_relayed` and
`add_tx` do to the pool and the times together (`RelayedEffect`, `AddedEffect`).

| theorem | property | hypothesis |
|---|---|---|
| `TypeCorrect` | `TypeOK` | |
| `EmbargoKept` | `EmbargoHonoured` | |
| `NoneForgotten` | `RelayScheduled` | `MessageSize = 1` |
| `MadePublic` | `NoPrivateExpiry` | `MessageSize = 1` |
| `StemFirst` | `LocalGoesThroughStem` | `Weight[Txs] <= MaxWeight` |

## 6. Locks and batches

### State and actions

`BatchLocks` has, of each thread, the place it is at, its operation and how
many times it holds each lock; and the thread whose batch is active. What an
operation does to chain and pool is in the other modules, which take it as one
step; this one shows what entitles them to.

| operation | code | locks |
|---|---|---|
| `blocks` | `prepare_handle_incoming_blocks`, `add_new_block`, `cleanup_...` | incoming, pool, chain; then pool kept and chain given up between blocks, both taken again for each |
| `tx` | `handle_incoming_tx`, `on_transactions_relayed` | incoming, pool, chain; the chain lock once for the inputs and again for the `LockedTXN` |
| `write` | the pool's other writers, `pop_blocks` | pool, chain |
| `read` | queries | chain |
| `checkpoints` | `update_checkpoints` with `check_against_checkpoints` | chain; pool under it when a point fails |

`StartBatch` is `batch_start`, which returns FALSE if a batch is active,
whoever's; `mine` is the `stop_batch` that callers keep of it. At first only
`Main` runs, in `core::init`. A point that fails while another thread's batch
is active makes the pop throw, out of `update_checkpoints`, whose flag stays
set: `FailCheck`.

### Runs

| run | question | result |
|---|---|---|
| `batch_locks` | Who waits for whom, and who writes into whose batch, when points fail at start only? Does every operation end? | `NoCircularWait`, `BatchUnderLock`, `BatchIsOwn`, `PrepareNeverWaits`, `OperationsEnd` hold |
| `checkpoint_deadlock` | The same when they fail later | `NoCircularWait` violated |

*`checkpoint_deadlock`.* `update_checkpoints` runs at the arrival of a block
(`cryptonote_protocol_handler.inl:770`), with new points from the file every
ten minutes, from DNS every hour. A point that fails pops blocks under the
chain lock, and the return of their txs takes the pool lock, against the order
that `blockchain.cpp:4900-4906` states. Any operation between its two locks
deadlocks with it.

*Bounds.* Three threads, so that a circle of two can be watched and disturbed
by a third; batches of one or two blocks, the first and the last being the
cases of the loop. Deadlock is checked by TLC as well.

*Fairness.* Strong fairness of `Continue(t)` for each thread: one that is not
waiting goes on, and a mutex that is free again and again does not pass over
the same waiter for ever. Neither pthreads nor boost promises the latter; in
practice the holders do I/O between two acquisitions. No safety property
depends on it.

### Proofs (`BatchLocksProofs`)

The invariant is `BatchInv`: types; `Placed`, each place belongs to the
operations that reach it; `Counted`, how often a thread holds a lock is a
function of operation and place; `MutualExclusion`; `BatchPlaced`, the thread
with the batch is between its start and its end; `MineRight`, who will stop the
batch knows whether it is his. `Counted` is what makes the rest inductive: the
releases take away what was taken only because the depth at each place is
known. `NoDeadlock` needs `StartInv` besides (only `Main` runs before the end
of `init`) and the assumption `"running" \notin Failing`, without which it is
false. Its proof goes up the order: in a set that waits in a circle no one
waits for the chain lock, as its holder does not wait, so no one for the pool
lock, so no one for the first. Threads may be any set, also infinite.

| theorem | property |
|---|---|
| `BatchAlwaysUnderLock` | `BatchUnderLock` |
| `NoForeignBatch` | `BatchIsOwn` |
| `BatchAtOnce` | `PrepareNeverWaits`: the loop that gives both locks up and sleeps is never entered |
| `NoDeadlock` | `NoCircularWait` |

`OperationsEnd` is liveness and stays with TLC.

## 7. Hard forks

### State and actions

`HardFork` has the object (`versions`, `index`), the chain as the object sees
it (a version and a vote of each block), the stored versions and the last
commit. `AddBlock` and `PopBlock` are the chain's; a switch is a sequence of
steps (`BeginSwitch`, `PopForSwitch`, `AddForSwitch`, `FailSwitch`,
`ReorganizeForRollback`, `RestoreBlock`, `EndSwitch`) because the object is
asked in the middle of it. `Commit` and `AbortBatch` end batches; `Restart(T)`
is a crash or stop at any moment and the start of a release with table `T`,
with the pops of `Blockchain::init` of blocks below the new version.

Three history variables say where a property is asked: `aborted` (the object
is ahead of the tables until a pop, a switch or a restart sets its index anew),
`tainted` (a block was added in that state), `exact` (the window was computed
anew, and blocks were only added since).

### Properties (run `hard_fork`, all hold)

- `VersionByHeight`: the index is that of the fork scheduled for the next
  height, computed from the table alone.
- `BlocksInForce`: every block of the chain has the version scheduled for its
  height, also after an upgrade.
- `OriginalsFit`: a rollback is not refused by the version check, which would
  end in the PANIC of `blockchain.cpp:1132`.
- `WindowExact`: after a start or a switch the window is the votes of the last
  blocks.

*Where a comment disagrees.* `src/src/hardforks/hardforks.cpp:48-51` says of the
time of a fork that setting it "to a past timestamp will trigger immediate
activation on the next block and may break nodes that haven't upgraded". The
code does not do that. `add_fork` orders the table by time (`hardfork.cpp:85`)
and `get_state` compares the time of the last fork with the clock to report
that a release is old (`326-344`); `get_voted_fork_index`, `add`, the rescan and
`Blockchain::init` look at heights and votes only. So a fork whose height has
not come is not activated by a past time, and one whose height has come is in
force even if its time lies in the future, which is the case the comment means
to prevent. `VersionByHeight` and `BlocksInForce` say "scheduled" in the sense
of the code, by height; the time is not in the model because nothing that the
model has depends on it, and the comment should be corrected before someone
relies on a future time to delay a fork. It is not among the violation runs:
there is no behaviour to search for, only a field that nothing reads.

*Bounds.* Window of two, three versions, chains of up to four blocks: a vote
slides out, a fork is crossed in both directions, a switch pops and restores
two blocks around it. `Tables` holds the fork tables of two releases, of which
the newer adds version 3 at height 2: upgrade and downgrade. As in
`hardforks.cpp`, no fork asks for votes (`TablesAssumption`); with a threshold
above 0 the pops of the code do not restore the votes that have slid out in the
same way, and the properties would need other terms. `CHECK_DEADLOCK FALSE`: at
`MaxHeight` the instance may have nothing to do.

### Proofs (`HardForkProofs`)

All five properties are proved for any tables, window size and height. The
inductive invariant is

    TypeOK, Jump(heights, index), VersionByHeight, WindowExact,
    StoredRight of chain and stored, and of saved,
    ~tainted => InForce of chain and of saved.chain,  SwitchRight

`StoredRight` says that the version stored at a height is that of its block:
the rescan reads the former and the votes come from the latter. `Jump`: the
index is never between two forks of one height, where `VersionByHeight` alone
could put it and the rescan never would. `InForce` is needed of the committed
chain as well, since an aborted batch goes back to it; and `SwitchRight` says
of the blocks a switch has popped that they were in force where they were, and
that a switch never runs between an aborted batch and the next adjustment of
the index. `OriginalsFit` is a consequence.

`Restart` under another table holds because of `ReleasesAssumption`: a release
only adds forks, at greater heights than those it knew. Without it a start
could leave a chain in place whose blocks have the wrong version.

The rescan of `Reorganized` is a recursive function over the chain. The
library's induction theorems cannot be instantiated here (they take an
operator), so `NatFacts` derives from the well-foundedness of `Nat` that a set
of naturals has a least element, and the inductions (`RescanExists`,
`RescanRight`) are arguments about a least counterexample.

| theorem | property |
|---|---|
| `TypeCorrect` | `TypeOK` |
| `VersionScheduled` | `VersionByHeight` |
| `ChainInForce` | `BlocksInForce` |
| `RollbackFits` | `OriginalsFit` |
| `WindowOfChain` | `WindowExact` |

## 8. Sync

### State and actions

`BlockQueue` is `block_queue` as operators on a record of spans by first
height, requested hashes and downloaded hashes. In `Sync` each connection has
its context, the requests its peer owes it an answer to, and whether it is
open, closing or closed.

| action | code |
|---|---|
| `SyncData` | `process_payload_sync_data`, at the handshake and every minute |
| `Callback` | `on_callback`: an idle peer is kicked, a chain is asked for, or spans are added |
| `BeginEntry`, `FinishEntry` | `handle_response_chain_entry`; two steps, as it looks hashes up without the chain's lock |
| `ReceiveObjects` | `handle_response_get_objects` up to the try at the sync lock in `try_add_next_blocks` (`:1348`) |
| `SkipOld`, `FindOrphan`, `AddSpan`, `FinishSpan`, `FailSpan` | the loop of `try_add_next_blocks` under the sync lock |
| `LeaveLoop` | there is no next span (`:1378`), or its parent has been requested (`:1464`) |
| `Decide` | `should_download_next_span` (`:1631`), still under the lock |
| `Release` | the end of the lock's scope (`:1644`) |
| `BackToDownload` | `skip:` and `request_missing_objects` (`:1646`), without the lock: after `Release`, or after a try at the lock that failed |
| `KickIdle`, `CheckStandby`, `SpanLate` | timers |
| `Disconnect`, `Close`, `Reconnect` | the peer goes; `on_connection_close`; it is connected to again |

These four are separate because other handlers run between them: one can fill a
span when the holder of the lock has seen that there is none, and find the lock
taken. The context's `step` says where a handler is past the loop. Two moments
are left within a step. Between `add_blocks` (`:1280`) and the try at the lock
others could only see the span sooner. And `request_missing_objects` holds the
lock itself for as long as it takes to look at the next span (`:2103`,
`:2331`): in the code a try of another handler can fail in that moment too,
and that handler then goes back to download as it does after a try that fails
while spans are added. The model has failing tries of the second kind only; what
they lead to, `stranded_span` included, is the same.

Every handler that asks for more ends in `Request`, which is
`request_missing_objects` as one operator with its branches (`Resume`,
`AskObjects`, `AskNext`, `AskReserved`, `AskChain`, `NoneNeeded`). Speed is a
free choice: whether the next span's connection is slow (only a peer that is
not prompt is), whether additions have gone idle for long enough to drop an
outgoing connection.

### Runs

| run | question | result |
|---|---|---|
| `sync` | Is the queue right, is no connection forgotten, is the chain of the honest peer reached, whatever the other peer does? | `QueueRight`, `ChainLinked`, `NobodyForgotten` hold; `Synced` holds, which excepts the ends of the next two |
| `forgotten_peer` | Does a connection go back to download also after a block has failed in its hands? | violated |
| `sync_wedged` | Is a thread unblocked when all stand by? | violated |
| `stranded_span` | Is a span that can be added added, when nothing is left to download? | violated |

*`forgotten_peer`.* Connection `a` adds a span that `b` has downloaded; its
block fails. The handler drops `b` and returns (`:1560`) without asking for
anything: `a` stays in `state_synchronizing`, expects nothing, has no request
that could time out (`kick_idle_peers`), and a timed sync returns early for it
(`:464`). It is of no use until its peer closes it.

*`sync_wedged`.* `b` has reserved the span after the top, was kicked for
idleness once and does not answer; the hashes above were reserved by a
connection that has gone, so there is a gap; the spans behind the gap have
filled the queue. `a` finds an orphan and goes to `skip` (`:1450`), past the
forced download of the next span; in `request_missing_objects` the next height
counts as covered (`:2052`), so that neither `should_download_next_span` nor
`proceed` lets it on, and the last resort (`:2101`) wants the next span to be
filled or blocks to have been added before. `check_standby_peers` wakes the
connections into the same again and again.

*`stranded_span`.* All peers are prompt and honest, and have three blocks. `a`
holds the sync lock and still needs block 2; it adds block 1 and then block 2,
which `b` has brought meanwhile, and sees no next span (`:1378`). Now `b` brings
block 3. Its try at the lock fails (`:1348`), it has nothing left to ask for,
its second try fails too (`:2331`), and it goes to `state_normal`. `a` releases
the lock and calls `request_missing_objects`: what it needs is in the queue or
on the chain, its peer has no more than that, so it goes to normal as well, at
`:2043`, before it comes to the code that is to add spans in this case ("In this
case, if we can add blocks instead, do so", `:2328`). Nobody is left to add
block 3. A minute later the sync data (`process_payload_sync_data`) find that
the peers' top block is not on the chain; both connections ask for hashes, all
of which are in the queue, and end at `:2043` again, as long as the peers
announce nothing new. With the next block there is something to download, and
what was stranded is added with it; so this is a node that stays behind by a
span for a while, and not for good, on a network that grows.

`Synced` says that there is no third way to fail: while no block fails, the
chain of an honest prompt peer is reached, or the queue is wedged from some
time on (`Wedged`: as many filled spans as there may be, and none that can be
added), or a span is stranded from some time on (`Stranded`: it can be added,
nobody has the lock, and no peer has more than the queue). Both are stated of
the queue and the chain, not of how it came to that, so that a handler which
forgets to add a span, or to ask for one when there is room, does not pass as
either: the mutant `Release_Rests`, in which the holder of the lock is done when
it has released it, violates `Synced`.

*Known weaknesses, outside of the instances.* When peers are on different
branches, a block can be marked as downloaded that nobody has downloaded. Say
`a` and `b` part after block 1, and each reserves its next block, 2 and 10. The
queue is a set ordered by first height, so that `blocks.insert` drops the second
reservation (`block_queue.cpp:67`), which `reserve_span` does not notice: the
connection asks for its block. When it comes, `add_blocks` (`:46-61`) removes
the span of that height, which is the other connection's, puts the block in its
place and takes over the *hashes* of the removed span: block 10 is in
`have_blocks` although what has been downloaded is block 2. As long as that
span is in the queue, `skip_unneeded_hashes` leaves block 10 out of what is
needed ("take out blocks we already have",
`cryptonote_protocol_handler.inl:1967`). The mark goes with the span, so that
the damage heals. (On chains `<<0, 1, 2>>` and `<<0, 1, 10>>` TLC finds, in a
trace of 13 states, a marked block that is in no span's `blocks`.) `QueueRight` says how
much is right all the same, and is proved with branches too: heights and
numbers of blocks, and that no mark outlives its span.

Prompt and honest
peers may be dropped: `Nothing we can request from this peer` (`:2035`), when
others have added everything meanwhile; `We can download nothing from this
peer` (`:2319`), when another peer's disconnect has flushed what its hashes
follow; and `Block is on the main chain, but we did not expect a known block`
(`:2606`), when its entry is overtaken. `Synced` holds as they are connected
to again.

### Bounds

`sync`, `forgotten_peer`: two peers, one of them prompt; two blocks on top of
the genesis block, and for the other peer a third which is invalid. Spans of one
block and entries of three hashes make their limits bite: the entry of the other
peer does not reach its tip, a reservation leaves a gap. In `sync` the limit is
two filled spans, so that a full queue and one with room both occur with spans
in it; in `forgotten_peer` and `sync_wedged` it is one. `sync_wedged` has three
valid blocks that both peers know and entries of four hashes, as the gap needs
them; `stranded_span` the same with entries of three and two prompt peers. An
entry has to have more hashes than the queue can hold blocks, as in the code
(10000 and the span limit): with entries of two, one whose hashes are all in the
queue drops the connection (`:2037`), which then is the answer to everything.
`CHECK_DEADLOCK FALSE`: when everything is synced and the other peer is gone,
there is nothing left to do.

### Fairness

`Fairness` says that what is due to a connection for ever happens: a handler
that has begun goes on, a callback that was asked for runs, timers fire, a
handshake is completed, a connection that is closing closes; and, of prompt
peers only, requests are answered and lost connections made again. `Due` says
when there is such a step, in place of `ENABLED`; a connection with two due
steps may take either. These are the daemon's own threads, its idle handlers
(`on_idle` of the protocol handler) and the network of a peer that is assumed
to be alive; nothing is assumed of other peers, except that they do not come
back for ever, as `b` could reserve the next span each time. That is the first
part of `Patience`. The second is that from some time on sync data, which come
once a minute, do not overtake a callback that is due, which a thread runs at
once: one that did so for ever would put a connection on standby back to where
it asks for hashes, and nobody would ever add a span. `SpanLate` is
weakly fair (`WF_vars`).

### Proofs (`SyncProofs`)

The four invariants of the run `sync` are proved for any finite set of peers,
any chains and any limits. The inductive invariant is

    Inv == TypesRight /\ ChainRight /\ AllGood /\ AllLive(queue)
           /\ \A p \in Peers : Local(p)

- `ChainRight`: the chain is the beginning of the chain of some peer, has no
  invalid block, and only invalid blocks are listed as invalid.
- `AllGood`: of each connection, what it needs, has asked for and has reserved
  are stretches of its peer's chain at the heights they are said to be at; a
  reservation it holds is below what it still needs and is covered by a request
  that its peer owes an answer to; and the queue is `QueueGood`, which is
  `QueueRight` with each span a stretch of *some* peer's chain.
- `AllLive`: only a connection that is not closed has spans without blocks, as
  a span of a connection that is gone would never be filled or flushed.
- `Local(p)`: in which phase a handler is, at which `step` past the loop, what its
  context may be there, and that the connection is not forgotten while no block
  has failed; a handler that returns without a request has seen one fail.

Parts need each other across components. A span that `add_blocks` fills may
have taken over the hashes of another connection's reservation, so that
`QueueRight` needs to know of *every* span that its hashes are a stretch of a
chain at its own height, and that a block has one height
(`BlocksAssumption`). That what a connection receives fits the height it is
stored at needs `AllGood` of the request, which was made in an earlier step,
with spans reserved, flushed and replaced by others since. `ChainLinked` needs
that the first block of a span follows the chain, which `FindOrphan` has
checked in another step than `AddSpan`, and that what `Fresh` leaves of a
span is its end. `NobodyForgotten` is about every way in which `Request` can
return, so `RequestMissingGood` shows of each branch of
`request_missing_objects` that it asks, sets itself to standby or normal, or
drops the connection.

Operators have their lemmas: what `Insert`, `Erase`, `AddBlocks`, `Reserve` do
to the queue (`InsertIs`, `EraseIs`, `AddBlocksGood`, `ReserveGood`), what
`request_missing_objects` does to a handler (`RequestMissingGood`, `Moves`:
good before, good after, and nothing new reserved that was not asked for), what
an entry leaves in the context (`EntryGood`), and how far a span lets the
chain grow (`Grows`, `GivenBlocks`). `InvNext` has one lemma per action.

Assumptions, named in `Sync`: `PeersAssumption` (a finite set of peers that
have the same genesis block, limits above zero, entries of more than one hash)
and `BlocksAssumption` (a block has one height and one parent; what follows
an invalid block is invalid; of two different blocks at a height one is
invalid: `Sync` adds to one main chain, and leaves reorganisations to
`Blockchain`).

| theorem | property |
|---|---|
| `TypeCorrect` | `TypeOK` |
| `QueueStaysRight` | `QueueRight` |
| `ChainStaysLinked` | `ChainLinked` |
| `NobodyIsForgotten` | `NobodyForgotten` |

`Synced` is a liveness property and stays with TLC.

## 9. Abstractions and what is left out

Of the pool: `double_spend_seen` and the lists of added and removed txs (they
inform RPC clients and decide nothing); the cache of parsed txs; pruned txs;
the fee of a tx (`NonStandard` and the total order `FeeRank`; the code's order
is by fee and then receive time, which a return to the pool can change); the
coinbase term in `fill_block_template`, which skips a tx that would lower the
reward; `m_mine_stem_txes`, taken at its default, false; database exceptions
other than the duplicate row.

Of the chain: `Blockchain` has one hard fork version after the first block
(`HardFork` has the changes, without pool and txs); block weight limits and timestamps are part of `BadHeader` and `BadReward`;
the fast path over precomputed hashes is off; ring signatures are verified
anew each time (the verification id in the pool's metadata is a cache of a
pure function); the supplement of an alternative block is gone through in
block order (the code's order is that of an unordered map; it stops at the
first refusal in both); a clash of images within a block is met at the first
image of a tx; the block template is asked for one miner address. Pool expiry,
`set_relayed` and the limit of the pool are in `TxPool` (with its times in
`TxRelay`) and not in the composition.

Of the process: a crash is the end of the process, after which the database is
at its last commit. Loss of committed data with `--db-sync-mode fast` is not
modelled.

Liveness is out of the prover's reach and stays with TLC: `ConvergesToHeaviest`,
`OperationsEnd` and `Synced`. So do the properties of the runs that expect a
violation.
