----------------------------- MODULE Blockchain -----------------------------
(***************************************************************************)
(* Blockchain and its transaction pool, src/src/cryptonote_core/           *)
(* blockchain.cpp: blocks reach the main chain, the alternative chains or  *)
(* the list of invalid blocks; heavier alternative chains take over; txs   *)
(* move between pool and chain; writes are committed in batches.           *)
(*                                                                         *)
(* A block is an id.  What only depends on a block and its ancestors (its  *)
(* height, its cumulative difficulty, whether its header is acceptable) is *)
(* data of the instance; what depends on the daemon's state is computed.   *)
(* Handlers are operators from state to state, because they call each      *)
(* other; the actions at the end of the module apply them.  The state of a *)
(* handler is a record s:                                                  *)
(*   chain    the main chain, from the genesis block to the top            *)
(*   alt      blocks of the alternative chains table                       *)
(*   pool     the transaction pool, see TxPoolOps                          *)
(*   invalid  m_invalid_blocks                                             *)
(*   halfTxs, halfImages  what an add_block that threw left in the batch   *)
(*   batchOk  m_batch_success                                              *)
(*   btc      the cached block template: m_btc, m_btc_valid                *)
(* chain, alt, the half-written block and the pool's first three fields    *)
(* are in the database, the rest in memory only.                           *)
(***************************************************************************)
EXTENDS TxPoolOps, SequencesExt

CONSTANTS
  Blocks, Genesis,
  Parent,         \* [Blocks \ {Genesis} -> Blocks], prev_id
  Difficulty,     \* [Blocks -> Nat], the difficulty target of the block
  BlockTxs,       \* [Blocks -> Seq(Txs)], tx_hashes
  BadHeader,      \* blocks whose version, timestamp, proof of work or
                  \* miner tx shape is wrong
  BadReward,      \* blocks whose miner tx takes a wrong amount
  Needs,          \* [Txs -> SUBSET Blocks], the blocks that hold the
                  \* outputs a tx refers to
  CheckpointSets, \* the sets of blocks that can be the checkpoints
  KeepAltBlocks,  \* --keep-alt-blocks
  Relays,         \* methods handle_incoming_tx is called with
  MaxPops         \* model bound: operator pops

ASSUME BlocksAssumption ==
  /\ Genesis \in Blocks /\ Tops = Blocks
  /\ Parent \in [Blocks \ {Genesis} -> Blocks]
  /\ Difficulty \in [Blocks -> Nat \ {0}]
  /\ BlockTxs \in [Blocks -> Seq(Txs)]
  /\ BadHeader \cup BadReward \subseteq Blocks \ {Genesis}
  /\ Needs \in [Txs -> SUBSET Blocks]
  /\ CheckpointSets \subseteq SUBSET (Blocks \ {Genesis})
  /\ KeepAltBlocks \in BOOLEAN /\ MaxPops \in Nat
  /\ Relays \subseteq RelayMethods \ {"block"}

\* check_tx_semantic refuses a tx without inputs.
ASSUME InputsAssumption == \A t \in Txs : KeyImagesOf[t] # {}

VARIABLES
  st,           \* the state of the handlers
  saved,        \* what is committed to the database
  batch,        \* "none", "open", or "over" when a block of it failed
  checkpoints,  \* m_checkpoints
  up,           \* the daemon runs
  pops          \* operator pops so far

vars == <<st, saved, batch, checkpoints, up, pops>>

-----------------------------------------------------------------------------
(* The tree of blocks *)

Height[b \in Blocks] == IF b = Genesis THEN 0 ELSE Height[Parent[b]] + 1

\* A block holds the hash of its parent: every block descends from the genesis
\* block.
ASSUME TreeAssumption ==
  /\ Height \in [Blocks -> Nat] /\ Height[Genesis] = 0
  /\ \A b \in Blocks \ {Genesis} : Height[b] = Height[Parent[b]] + 1

CumulativeDifficulty[b \in Blocks] ==
  IF b = Genesis THEN Difficulty[b]
  ELSE CumulativeDifficulty[Parent[b]] + Difficulty[b]

TxsOf(b) == ToSet(BlockTxs[b])
ImagesOf(S) == UNION {KeyImagesOf[t] : t \in S}

-----------------------------------------------------------------------------
(* Queries *)

Top(s)      == Last(s.chain)
OnChain(s)  == ToSet(s.chain)
TxExists(s) == UNION {TxsOf(b) : b \in OnChain(s)} \cup s.halfTxs
Spent(s)    == ImagesOf(UNION {TxsOf(b) : b \in OnChain(s)}) \cup s.halfImages

\* check_tx_inputs: the outputs are there, the images are not spent
InputsPass_OutputsOnly(s) == {t \in Txs : Needs[t] \subseteq OnChain(s)}
InputsPass(s) ==
  LET spent == Spent(s) IN
  {t \in Txs : Needs[t] \subseteq OnChain(s) /\ KeyImagesOf[t] \cap spent = {}}

HaveBlock(s, b) == b \in OnChain(s) \cup s.alt \cup s.invalid

\* checkpoints::check_block
CheckpointAllows(b) ==
  \A c \in checkpoints : Height[c] = Height[b] => c = b

\* checkpoints::is_alternative_block_allowed: above the last checkpoint that
\* is not above the chain's height
AlternativeAllowed(s, b) ==
  \A c \in checkpoints : Height[c] <= Len(s.chain) => Height[c] < Height[b]

\* The states of the handlers, and what is committed of them.
States ==
  [chain : Seq(Blocks), alt : SUBSET Blocks, pool : PoolStates,
   invalid : SUBSET Blocks, halfTxs : SUBSET Txs, halfImages : SUBSET KeyImages,
   batchOk : BOOLEAN,
   btc : [valid : BOOLEAN, prev : Blocks, txs : SUBSET Txs]]

SavedStates ==
  [chain : Seq(Blocks), alt : SUBSET Blocks,
   db : [Txs -> RelayMethods \cup {Absent}], failed : [Txs -> Tops \cup {NoTop}],
   age : [Txs -> 0..MaxAge]]

NoTemplate == [valid |-> FALSE, prev |-> Genesis, txs |-> {}]

-----------------------------------------------------------------------------
(* Txs go back to the pool *)

AddToPool_AsFluff(s, t) ==
  [s EXCEPT !.pool = AddTx(s.pool, t, "fluff", InputsPass(s), Txs)]
AddToPool(s, t) ==
  [s EXCEPT !.pool = AddTx(s.pool, t, "block", InputsPass(s), Txs)]

ReturnTxs(s, txs) == FoldLeft(AddToPool, s, txs)

\* pop_block_from_blockchain, b being the top block
PopBlock(s, b) ==
  LET popped == [s EXCEPT !.chain = Front(s.chain)]
      returned == ReturnTxs(popped, Reverse(BlockTxs[b]))
  IN [returned EXCEPT !.pool = OnBlockchainChange(returned.pool),
                      !.btc = NoTemplate]

\* What is above the first n blocks is popped, from the top down.
PopTo(s, n) == FoldLeft(PopBlock, s, Reverse(SubSeq(s.chain, n + 1, Len(s.chain))))

-----------------------------------------------------------------------------
(* handle_block_to_main_chain *)

\* Takes the txs of b out of the pool, or out of the supplement, up to the
\* first that is a problem; taken are those that were in the pool, extra is
\* what is left of the supplement.
TakeNext(acc, t) ==
  LET found == acc.s.pool.db[t] # Absent IN
  IF acc.problem # "none" THEN acc
  ELSE IF t \in TxExists(acc.s) THEN [acc EXCEPT !.problem = "exists"]
  ELSE IF ~found /\ t \notin acc.extra THEN [acc EXCEPT !.problem = "missing"]
  ELSE [s |-> [acc.s EXCEPT !.pool = TakeTx(acc.s.pool, t)],
        taken |-> IF found THEN Append(acc.taken, t) ELSE acc.taken,
        extra |-> IF found THEN acc.extra ELSE acc.extra \ {t},
        problem |-> IF t \in InputsPass(acc.s) THEN "none" ELSE "inputs"]

TakeBlockTxs(s, b, supplement) ==
  FoldLeft(TakeNext,
           [s |-> s, taken |-> <<>>, extra |-> supplement, problem |-> "none"],
           BlockTxs[b])

\* add_block_as_invalid: only inputs that do not pass condemn a block.
Condemn_Always(s, b, problem) == [s EXCEPT !.invalid = @ \cup {b}]
Condemn(s, b, problem) ==
  IF problem = "inputs" THEN [s EXCEPT !.invalid = @ \cup {b}] ELSE s

\* What the database holds of b when add_block meets an image it has, which
\* is taken to be the first one of its tx.  The images on the chain were
\* looked at with the inputs: only one within the block can be met.
WriteNext(acc, t) ==
  IF acc.clash THEN acc
  ELSE IF KeyImagesOf[t] \cap acc.images # {} THEN [acc EXCEPT !.clash = TRUE]
  ELSE [acc EXCEPT !.txs = @ \cup {t}, !.images = @ \cup KeyImagesOf[t]]

WrittenBeforeClash(b) ==
  FoldLeft(WriteNext, [txs |-> {}, images |-> {}, clash |-> FALSE], BlockTxs[b])

Connect(s, b) ==
  [s EXCEPT !.chain = Append(s.chain, b),
            !.pool = OnBlockchainChange(s.pool),
            !.btc = NoTemplate]

HandleBlockToMainChain(s, b, supplement) ==
  IF b = Genesis \/ b \in BadHeader \/ Parent[b] # Top(s) \/ ~CheckpointAllows(b)
  THEN [s |-> s, result |-> "failed"]
  ELSE LET r == TakeBlockTxs(s, b, supplement)
           w == WrittenBeforeClash(b)
       IN
       IF r.problem # "none" \/ b \in BadReward
       THEN [s |-> ReturnTxs(Condemn(r.s, b, r.problem), r.taken), result |-> "failed"]
       ELSE IF w.clash
       THEN [s |-> ReturnTxs([r.s EXCEPT !.batchOk = FALSE,
                                         !.halfTxs = @ \cup w.txs,
                                         !.halfImages = @ \cup w.images], r.taken),
             result |-> "failed"]
       ELSE [s |-> Connect(r.s, b), result |-> "added"]

\* Adds blocks one after the other while it works.
ConnectNext(acc, b) ==
  IF acc.result = "added" THEN HandleBlockToMainChain(acc.s, b, {}) ELSE acc

ConnectAll(s, bs) == FoldLeft(ConnectNext, [s |-> s, result |-> "added"], bs)

\* rollback_blockchain_switching, n >= 1; the caller ignores its result
Rollback(s, original, n) ==
  IF n > Len(s.chain) THEN s ELSE ConnectAll(PopTo(s, n), original).s

-----------------------------------------------------------------------------
(* handle_alternative_block and switch_to_alternative_blockchain *)

\* build_alt_chain: the alternative blocks that lead to b, the first one
\* next to the main chain
Branch(s, b) ==
  LET path[x \in Blocks] == IF x \in s.alt THEN Append(path[Parent[x]], x) ELSE <<>>
  IN path[b]

\* Mutant: a branch that leaves the main chain just below its top is refused.
BranchRooted_OffByOne(s, b) ==
  LET branch == Branch(s, b) IN
  IF branch = <<>> THEN b \in OnChain(s)
  ELSE /\ Len(s.chain) > Height[Head(branch)] + 1
       /\ Parent[Head(branch)] \in OnChain(s)

\* The last checks of build_alt_chain.  A branch that leaves the main chain at
\* its top, which is there after a pop only, does not pass: it would "start past
\* the end of the main chain".
BranchRooted(s, b) ==
  LET branch == Branch(s, b) IN
  IF branch = <<>> THEN b \in OnChain(s)
  ELSE /\ Len(s.chain) > Height[Head(branch)]
       /\ Parent[Head(branch)] \in OnChain(s)

\* The supplement goes to the pool, up to the first tx that is refused.
AddNext(acc, t, supplement) ==
  IF \/ ~acc.good \/ t \notin supplement
     \/ HaveTx(acc.s.pool, t) \/ t \in TxExists(acc.s)
  THEN acc
  ELSE [s |-> AddToPool(acc.s, t),
        good |-> AddTxAccepted(acc.s.pool, t, "block", InputsPass(acc.s), Txs)]

AddSupplement(s, b, supplement) ==
  FoldLeft(LAMBDA acc, t : AddNext(acc, t, supplement), [s |-> s, good |-> TRUE],
           BlockTxs[b])

\* handle_alternative_block up to the comparison of difficulties
StoreAlternative(s, b, supplement) ==
  IF b = Genesis \/ b \in BadHeader \/ ~AlternativeAllowed(s, b)
  THEN [s |-> s, result |-> "failed"]
  ELSE IF Parent[b] \notin OnChain(s) \cup s.alt THEN [s |-> s, result |-> "orphan"]
  ELSE IF ~BranchRooted(s, Parent[b]) THEN [s |-> s, result |-> "ignored"]
  ELSE IF ~CheckpointAllows(b) THEN [s |-> s, result |-> "failed"]
  ELSE LET r == AddSupplement(s, b, supplement) IN
       IF ~r.good THEN [s |-> r.s, result |-> "failed"]
       ELSE IF b \in s.alt THEN [s |-> r.s, result |-> "ignored"]
       ELSE [s |-> [r.s EXCEPT !.alt = @ \cup {b}], result |-> "stored"]

\* remove_alt_block
ForgetAlt_LastOnly(s, branch) == [s EXCEPT !.alt = @ \ {Last(branch)}]
ForgetAlt(s, branch) == [s EXCEPT !.alt = @ \ ToSet(branch)]

Keep(s, b) == StoreAlternative(s, b, {}).s

\* switch_to_alternative_blockchain.  The disconnected blocks are handled as
\* alternative blocks; none is heavier than the chain that replaced them, so
\* the switch at the end of handle_alternative_block is out of reach.
Switch(s, branch, discard) ==
  LET n == Height[Head(branch)]
      disconnected == SubSeq(s.chain, n + 1, Len(s.chain))
      r == ConnectAll(PopTo(s, n), branch)
      rejected == SelectSeq(branch, LAMBDA x : x \notin OnChain(r.s))
  IN IF r.result # "added"
     THEN [s |-> ForgetAlt(Rollback(r.s, disconnected, n), rejected),
           result |-> "failed"]
     ELSE LET kept == IF discard THEN r.s ELSE FoldLeft(Keep, r.s, disconnected)
          IN [s |-> ForgetAlt(kept, branch), result |-> "added"]

Heavier_OrEqual(s, b) == CumulativeDifficulty[Top(s)] <= CumulativeDifficulty[b]
Heavier(s, b) == CumulativeDifficulty[Top(s)] < CumulativeDifficulty[b]

HandleAlternativeBlock(s, b, supplement) ==
  LET r == StoreAlternative(s, b, supplement)
      branch == Branch(r.s, b)
  IN IF r.result # "stored" THEN r
     ELSE IF b \in checkpoints THEN Switch(r.s, branch, TRUE)
     ELSE IF Heavier(s, b) THEN Switch(r.s, branch, FALSE)
     ELSE r

AddNewBlock(s, b, supplement) ==
  IF HaveBlock(s, b) THEN [s |-> s, result |-> "exists"]
  ELSE IF Parent[b] = Top(s) THEN HandleBlockToMainChain(s, b, supplement)
  ELSE HandleAlternativeBlock(s, b, supplement)

-----------------------------------------------------------------------------
(* Batches *)

Committed(s) ==
  [chain |-> s.chain, alt |-> s.alt,
   db |-> s.pool.db, failed |-> s.pool.failed, age |-> s.pool.age]

\* prepare_handle_incoming_blocks, prepare_handle_incoming_block_no_preprocess
OpenBatch(s) == [s EXCEPT !.batchOk = TRUE]

\* cleanup_handle_incoming_blocks: batch_stop, or batch_abort, which takes
\* the tables back to where they were and leaves memory as it is
CloseBatch(s) ==
  IF s.batchOk THEN s
  ELSE [s EXCEPT !.chain = saved.chain, !.alt = saved.alt,
                 !.pool.db = saved.db, !.pool.failed = saved.failed,
                 !.pool.age = saved.age, !.halfTxs = {}, !.halfImages = {}]

-----------------------------------------------------------------------------
(* Start: core::init *)

Loaded(d) ==
  [chain |-> d.chain, alt |-> d.alt, pool |-> InitPool(d.db, d.failed, d.age),
   invalid |-> {}, halfTxs |-> {}, halfImages |-> {}, batchOk |-> TRUE,
   btc |-> NoTemplate]

RollbackHeight_KeepsBlock(h) == h + 1
RollbackHeight(h) == h - 2

\* check_against_checkpoints, enforcing: height by height, over the points
\* below the height the chain had when it began.  It throws when it asks for
\* a block it has popped and when it is to pop the genesis block; for height
\* 1 the height to roll back to wraps and nothing is done.
CheckNext(acc, h, points) ==
  LET here == {c \in points : Height[c] = h} IN
  IF acc.thrown \/ here = {} THEN acc
  ELSE IF h >= Len(acc.s.chain) THEN [acc EXCEPT !.thrown = TRUE]
  ELSE IF acc.s.chain[h + 1] \in here \/ h = 1 THEN acc
  ELSE IF h = 2 THEN [acc EXCEPT !.thrown = TRUE]
  ELSE [acc EXCEPT !.s = Rollback(acc.s, <<>>, RollbackHeight(h))]

CheckAgainstCheckpoints(s, points) ==
  FoldLeft(LAMBDA acc, h : CheckNext(acc, h, points), [s |-> s, thrown |-> FALSE],
           [h \in 1..(Len(s.chain) - 1) |-> h])

StartState(points) ==
  LET r == CheckAgainstCheckpoints(Loaded(saved), points) IN
  [s |-> IF KeepAltBlocks THEN r.s ELSE [r.s EXCEPT !.alt = {}],
   up |-> InitSucceeds(saved.db) /\ ~r.thrown]

-----------------------------------------------------------------------------
(* Actions.  The handlers hold the pool's and the chain's locks from         *)
(* beginning to end.  A single block is a batch of its own; during a sync    *)
(* the locks are held over a batch of blocks, of which a crash can see the   *)
(* middle.                                                                   *)

\* A handler that runs to its end commits what it wrote.
Commit(s) ==
  /\ st' = s
  /\ saved' = Committed(s)

Idle == up /\ batch = "none"

\* core::handle_single_incoming_block, core::handle_block_found.  The txs of
\* the supplement came with the block.
AfterBlock(b, supplement) == CloseBatch(AddNewBlock(OpenBatch(st), b, supplement).s)

SingleBlock(b, supplement) ==
  /\ Idle
  /\ Commit(AfterBlock(b, supplement))
  /\ UNCHANGED <<batch, checkpoints, up, pops>>

\* core::prepare_handle_incoming_blocks
BeginBatch ==
  /\ Idle
  /\ batch' = "open"
  /\ st' = OpenBatch(st)
  /\ UNCHANGED <<saved, checkpoints, up, pops>>

\* core::handle_incoming_block for the next block of a batch, with all its
\* txs.  The sync handler gives the batch up when the block fails or has no
\* parent.
BatchBlock(b) ==
  LET r == AddNewBlock(st, b, TxsOf(b)) IN
  /\ up /\ batch = "open"
  /\ st' = r.s
  /\ batch' = IF r.result \in {"failed", "orphan"} THEN "over" ELSE "open"
  /\ UNCHANGED <<saved, checkpoints, up, pops>>

\* core::cleanup_handle_incoming_blocks
EndBatch ==
  /\ up /\ batch # "none"
  /\ batch' = "none"
  /\ Commit(CloseBatch(st))
  /\ UNCHANGED <<checkpoints, up, pops>>

\* core::add_new_tx
IncomingTx(t, relay) ==
  /\ Idle
  /\ ~HaveTx(st.pool, t)
  /\ t \notin TxExists(st)
  /\ Commit([st EXCEPT !.pool = AddTx(st.pool, t, relay, InputsPass(st), Txs)])
  /\ UNCHANGED <<batch, checkpoints, up, pops>>

\* pop_blocks, asked for by the operator
PopBlocks(n) ==
  /\ Idle
  /\ pops < MaxPops
  /\ pops' = pops + 1
  /\ Commit(PopTo(st, IF n < Len(st.chain) THEN Len(st.chain) - n ELSE 1))
  /\ UNCHANGED <<batch, checkpoints, up>>

\* create_block_template for the top block, when the cached one is not used
TemplateCached(s) == s.btc.valid /\ ~s.pool.moved /\ s.btc.prev = Top(s)

CreateBlockTemplate ==
  LET ok == InputsPass(st)
      filled == FillBlockTemplate(st.pool, ok, Top(st))
  IN
  /\ Idle
  /\ ~TemplateCached(st)
  /\ Commit([st EXCEPT !.pool = [filled EXCEPT !.moved = FALSE],
                        !.btc = [valid |-> TRUE, prev |-> Top(st),
                                 txs |-> TemplateTxs(st.pool, ok, Top(st))]])
  /\ UNCHANGED <<batch, checkpoints, up, pops>>

\* flush_invalid_blocks
FlushInvalidBlocks ==
  /\ Idle
  /\ st' = [st EXCEPT !.invalid = {}]
  /\ UNCHANGED <<saved, batch, checkpoints, up, pops>>

\* The process ends at any moment and is started again, maybe with other
\* checkpoints.  A start that fails leaves the database alone.
Restart(points) ==
  LET r == StartState(points) IN
  /\ checkpoints' = points
  /\ batch' = "none"
  /\ up' = r.up
  /\ IF r.up THEN Commit(r.s) ELSE st' = Loaded(saved) /\ UNCHANGED saved
  /\ UNCHANGED pops

Init ==
  /\ st = Loaded([chain |-> <<Genesis>>, alt |-> {}, db |-> EmptyPool.db,
                  failed |-> EmptyPool.failed, age |-> EmptyPool.age])
  /\ saved = Committed(st)
  /\ batch = "none"
  /\ checkpoints \in CheckpointSets
  /\ up = TRUE
  /\ pops = 0

Next ==
  \/ \E b \in Blocks : \E supplement \in SUBSET TxsOf(b) : SingleBlock(b, supplement)
  \/ BeginBatch
  \/ \E b \in Blocks : BatchBlock(b)
  \/ EndBatch
  \/ \E t \in Txs, relay \in Relays : IncomingTx(t, relay)
  \/ \E n \in 1..Len(st.chain) : PopBlocks(n)
  \/ CreateBlockTemplate
  \/ FlushInvalidBlocks
  \/ \E points \in CheckpointSets : Restart(points)

Spec == Init /\ [][Next]_vars

-----------------------------------------------------------------------------
(* The rules of consensus, on the tree of blocks alone *)

Ancestors[b \in Blocks] ==
  IF b = Genesis THEN {} ELSE Ancestors[Parent[b]] \cup {Parent[b]}

TxsBefore(b) == UNION {TxsOf(x) : x \in Ancestors[b]}

\* The header and the reward are right, every tx finds its outputs in the
\* ancestors, and none comes twice or spends an image twice.
KeepsRules(b) ==
  LET txs == BlockTxs[b] IN
  /\ b \notin BadHeader \cup BadReward
  /\ IsInjective(txs)
  /\ \A i \in DOMAIN txs :
       /\ txs[i] \notin TxsBefore(b)
       /\ Needs[txs[i]] \subseteq Ancestors[b]
       /\ KeyImagesOf[txs[i]] \cap ImagesOf(TxsBefore(b)) = {}
       /\ \A j \in DOMAIN txs \ {i} :
            KeyImagesOf[txs[i]] \cap KeyImagesOf[txs[j]] = {}

ValidBlocks ==
  {b \in Blocks : \A x \in Ancestors[b] \cup {b} : x = Genesis \/ KeepsRules(x)}

-----------------------------------------------------------------------------
(* Properties *)

\* The values the state of Blockchain can take.
TypeOK ==
  /\ st \in States
  /\ saved \in SavedStates
  /\ batch \in {"none", "open", "over"}
  /\ checkpoints \in CheckpointSets
  /\ up \in BOOLEAN
  /\ pops \in 0..MaxPops

\* The main chain keeps the rules of consensus from the genesis block to the
\* top, at every moment: across reorganisations that stop half way, rollbacks
\* that connect blocks again, pops, batches cut short and restarts, no image
\* is spent twice, no tx is there twice, no tx comes before its outputs.
MainChainValid ==
  /\ Head(st.chain) = Genesis
  /\ \A i \in 2..Len(st.chain) : Parent[st.chain[i]] = st.chain[i - 1]
  /\ OnChain(st) \subseteq ValidBlocks

\* m_invalid_blocks holds only blocks that can never be valid: what is put
\* there is dismissed until the daemon restarts, so a good block put there
\* by a reorganisation that went wrong would cut the daemon off.
InvalidBlocksAreInvalid == st.invalid \cap ValidBlocks = {}

\* A block is in one place: switch_to_alternative_blockchain takes what it
\* connects out of the alternative chains and puts what it disconnects in,
\* whether it gets through or rolls back.
OneHomePerBlock ==
  st.alt \cap OnChain(st) = {} /\ st.invalid \cap OnChain(st) = {}

\* A tx is in the pool or on the chain, not in both: a pool that offered a
\* mined tx again would build blocks nobody accepts.
PoolChainDisjoint == Stored(st.pool) \cap TxExists(st) = {}

\* Outside a batch, whatever blocks came and went, the pool's indexes and
\* weight agree with its table.
PoolIndexesAgree ==
  batch = "none" =>
    /\ \A k \in KeyImages :
         st.pool.ki[k] = {t \in Stored(st.pool) : k \in KeyImagesOf[t]}
    /\ st.pool.sorted = Stored(st.pool)
    /\ st.pool.weight = Weight[Stored(st.pool)]

\* The verdicts the pool keeps on inputs are what check_tx_inputs would say
\* of the chain as it is now, after any reorganisation, failed or not.
PoolVerdictsFresh ==
  batch = "none" =>
    \A t \in Txs :
      /\ st.pool.cache[t] = "good" => t \in InputsPass(st)
      /\ st.pool.cache[t] = "bad" => t \notin InputsPass(st)
      /\ st.pool.failed[t] = Top(st) => t \notin InputsPass(st)

\* The composition keeps both promises of the pool: the callers of take_tx,
\* add_tx and on_blockchain_inc or _dec leave no copy behind, through
\* switches, rollbacks, pops, batches and restarts.
PoolAgrees == PoolIndexesAgree /\ PoolVerdictsFresh

\* A miner is never handed a template that cannot become a block: as long as
\* create_block_template would reuse the cached one, its txs are in the pool
\* and pass on the top block.
CachedTemplateMinable ==
  Idle /\ TemplateCached(st) =>
    /\ st.btc.txs \subseteq Stored(st.pool) \cap InputsPass(st)
    /\ \A t, u \in st.btc.txs : t # u => KeyImagesOf[t] \cap KeyImagesOf[u] = {}

\* A tx the daemon has, in its pool or on its chain, is not lost when blocks
\* are connected, disconnected, refused or rolled back, nor by a crash: it is
\* still in one or the other.  (The pool is not full and nothing expires.)
CommittedTxs == {t \in Txs : saved.db[t] # Absent} \cup
                UNION {TxsOf(b) : b \in ToSet(saved.chain)}

TxsKept == [][CommittedTxs \subseteq CommittedTxs']_vars

\* A daemon that runs has no block on its main chain that contradicts a
\* checkpoint.
CheckpointsRespected ==
  up => \A b \in OnChain(st) : CheckpointAllows(b)

\* The daemon can always be started again from what it has committed.
StartSucceeds == up

\* A valid block that has not been seen is taken in when it comes with all its
\* txs, whatever the pool holds: on top of the main chain it is added, and where
\* its branch leaves the main chain below the top it is stored, as the inputs of
\* a tx may fail on the main chain and pass on the block's own branch.  (While
\* there are no checkpoints and none of its txs is in the pool in private.)
Unseen == {b \in ValidBlocks : ~HaveBlock(st, b)}
InPublic(b) == \A t \in TxsOf(b) \cap Stored(st.pool) : HaveTx(st.pool, t)
Root(b) == Parent[Head(Append(Branch(st, Parent[b]), b))]
Stores(b) == StoreAlternative(st, b, TxsOf(b)).result = "stored"

ValidBlocksAccepted ==
  Idle /\ checkpoints = {} =>
    \A b \in Unseen :
      /\ Parent[b] = Top(st)
           => HandleBlockToMainChain(st, b, TxsOf(b)).result = "added"
      /\ InPublic(b) /\ Root(b) \in OnChain(st) \ {Top(st)} => Stores(b)

\* The same of every fork the daemon knows, as handle_alternative_block has it:
\* "If its parent block is part of a known forked chain, then we need to see if
\* that chain is long enough to become the main chain and re-org accordingly".
KnownForksGrow ==
  Idle /\ checkpoints = {} =>
    \A b \in Unseen :
      InPublic(b) /\ Parent[b] \in st.alt /\ Root(b) \in OnChain(st) => Stores(b)

\* The main chain is chosen as ChainSelection says.
Selection == INSTANCE ChainSelection WITH
  tip <- Last(saved.chain),
  Work <- CumulativeDifficulty,
  Valid <- ValidBlocks

Selects == Selection!SelectionSpec

\* Peers have a valid chain with the most work, and announce its blocks again
\* and again: if one can be handled, with effect, again and again, then it is.
\* This is SF_vars(SingleBlock(b, TxsOf(b))), of which CanArrive(b) is the
\* enabling condition.  Other blocks come or do not.  The handler of a batch gets
\* to its end.
HasMostWork(b) ==
  \A x \in ValidBlocks : CumulativeDifficulty[x] <= CumulativeDifficulty[b]
Announced == UNION {Ancestors[b] \cup {b} : b \in {x \in ValidBlocks : HasMostWork(x)}}
CanArrive(b) == Idle /\ AfterBlock(b, TxsOf(b)) # st

FairSpec ==
  /\ Spec
  /\ \A b \in Announced : []<>CanArrive(b) => []<><<SingleBlock(b, TxsOf(b))>>_vars
  /\ WF_vars(EndBatch)

\* Whatever the order in which the blocks come in, and come again, the daemon
\* ends on a valid chain with the most work, unless it is stopped for ever and
\* again, has checkpoints, or keeps txs of those blocks in private.  Orphans that
\* were refused, switches that failed and blocks listed as invalid are not in the
\* way, nor are pops if the operator stops popping; but a fork that begins on the
\* top block is, see KnownForksGrow, until another block is added to the chain.
Restarts == \E points \in CheckpointSets : Restart(points)
NoneInPrivate == \A b \in Announced : InPublic(b)
ForkOnTop == \E b \in st.alt : Parent[b] = Top(st)

ConvergesToHeaviest ==
  <>[][~Restarts]_vars /\ []<>NoneInPrivate =>
    <>[](checkpoints = {} => HasMostWork(Last(saved.chain))) \/ <>[]ForkOnTop
=============================================================================
