------------------------------- MODULE TxPool -------------------------------
(***************************************************************************)
(* tx_memory_pool as a state machine: its public operations, called in any *)
(* order, over a chain that other code moves from top to top.  What the    *)
(* pool asks of the chain is only which txs are on it and whose inputs     *)
(* pass on it.                                                             *)
(*                                                                         *)
(* validate() takes every tx out and adds it again, one after the other in *)
(* database order, without releasing its locks.  It is a sequence of steps *)
(* here: while pending is not empty no other operation runs.               *)
(***************************************************************************)
EXTENDS TxPoolOps

CONSTANTS
  ChainTxs,       \* [Tops -> SUBSET Txs], the txs on the chain of that top
  OkOn,           \* [Tops -> SUBSET Txs], the txs whose inputs pass on it
  RuleSets,       \* the sets of txs that pass ver_non_input_consensus, one
                  \* for each hard fork version
  IncomingRelays  \* methods handle_incoming_tx is called with

ASSUME ChainAssumption ==
  /\ ChainTxs \in [Tops -> SUBSET Txs]
  /\ OkOn \in [Tops -> SUBSET Txs]
  /\ RuleSets \subseteq SUBSET Txs
  /\ IncomingRelays \subseteq RelayMethods \ {"block"}

VARIABLES
  pool,      \* the pool state, see TxPoolOps
  top,       \* top block of the main chain
  conform,   \* txs that satisfy the version in force
  pending,   \* txs validate() has still to take out and add again
  template   \* txs of the block template just filled, {} after other steps

vars == <<pool, top, conform, pending, template>>

Ok == OkOn[top]

Init ==
  /\ pool = EmptyPool
  /\ top \in Tops
  /\ conform \in RuleSets
  /\ pending = {}
  /\ template = {}

\* An operation of the pool that leaves the chain and the version alone.
PoolStep(p) ==
  /\ pending = {}
  /\ pool' = p
  /\ template' = {}
  /\ UNCHANGED <<top, conform, pending>>

-----------------------------------------------------------------------------

\* core::add_new_tx, then add_tx
IncomingTx(t, relay) ==
  /\ ~HaveTx(pool, t)
  /\ t \notin ChainTxs[top]
  /\ PoolStep(AddTx(pool, t, relay, Ok, conform))

\* add_tx for a tx of a popped block, of a block that failed, or of an
\* alternative block
AddBlockTx(t) ==
  /\ ~HaveTx(pool, t)
  /\ t \notin ChainTxs[top]
  /\ PoolStep(AddTx(pool, t, "block", Ok, Txs))

\* take_tx for a block, or flush_txes_from_pool
TakeOne(t) ==
  /\ pool.db[t] # Absent
  /\ PoolStep(TakeTx(pool, t))

\* on_transactions_relayed
Relayed(S, method) == PoolStep(SetRelayed(pool, S, method))

\* on_idle, every 30 seconds
RemoveStuck ==
  /\ StuckTxs(pool) # {}
  /\ PoolStep(RemoveStuckTransactions(pool))

\* Time passes for the txs in the pool.
Tick ==
  /\ \E t \in Stored(pool) : pool.age[t] < MaxAge
  /\ PoolStep([pool EXCEPT !.age = [t \in Txs |->
        IF t \in Stored(pool) /\ pool.age[t] < MaxAge THEN pool.age[t] + 1
        ELSE pool.age[t]]])

\* The chain gets another top block and tells the pool.
ChainChange(newTop) ==
  /\ pending = {}
  /\ newTop # top
  /\ top' = newTop
  /\ pool' = OnBlockchainChange(pool)
  /\ template' = {}
  /\ UNCHANGED <<conform, pending>>

FillTemplate ==
  /\ pending = {}
  /\ template' = TemplateTxs(pool, Ok, top)
  /\ pool' = FillBlockTemplate(pool, Ok, top)
  /\ UNCHANGED <<top, conform, pending>>

\* validate(version): the txs to go through are listed first
StartValidate(rules) ==
  /\ pending = {}
  /\ rules # conform
  /\ conform' = rules
  /\ pending' = Stored(pool)
  /\ template' = {}
  /\ UNCHANGED <<pool, top>>

\* One round of its loop.  A tx that is back is given its old metadata.  One
\* that prune removed in an earlier round cannot be taken and stays out.
Revalidated(t) ==
  LET q == AddTx(TakeTx(pool, t), t, pool.db[t], Ok, conform) IN
  IF q.db[t] = Absent THEN q
  ELSE [q EXCEPT !.failed = [q.failed EXCEPT ![t] = pool.failed[t]],
                 !.age    = [q.age EXCEPT ![t] = pool.age[t]]]

RevalidateOne(t) ==
  /\ t \in pending
  /\ pool' = IF pool.db[t] = Absent THEN pool ELSE Revalidated(t)
  /\ pending' = pending \ {t}
  /\ template' = {}
  /\ UNCHANGED <<top, conform>>

\* The process ends, at any moment, and starts again from the database.
\* Every operation commits before it returns, and validate() commits at its
\* end: to stop it half way is to stop before it.
Restart ==
  /\ pending = {}
  /\ InitSucceeds(pool.db)
  /\ PoolStep(InitPool(pool.db, pool.failed, pool.age))

Next ==
  \/ \E t \in Txs, relay \in IncomingRelays : IncomingTx(t, relay)
  \/ \E t \in Txs : AddBlockTx(t)
  \/ \E t \in Txs : TakeOne(t)
  \/ \E S \in SUBSET Txs, method \in {"local", "stem", "fluff"} : Relayed(S, method)
  \/ RemoveStuck
  \/ Tick
  \/ \E newTop \in Tops : ChainChange(newTop)
  \/ FillTemplate
  \/ \E rules \in RuleSets : StartValidate(rules)
  \/ \E t \in pending : RevalidateOne(t)
  \/ Restart

Spec == Init /\ [][Next]_vars

-----------------------------------------------------------------------------
(* Properties *)

\* The values the state of tx_memory_pool can take: its containers hold no
\* leftovers and m_txpool_weight, a size_t, never wraps below zero.
TypeOK ==
  /\ pool \in PoolStates
  /\ top \in Tops
  /\ conform \in SUBSET Txs
  /\ pending \in SUBSET Txs

\* m_spent_key_images is "container for spent key images from the
\* transactions in the pool": after any sequence of adds, upgrades, prunes,
\* expiries, revalidations and restarts an image is mapped to exactly the
\* stored txs that spend it.
KeyImageIndex ==
  \A k \in KeyImages : pool.ki[k] = {t \in Stored(pool) : k \in KeyImagesOf[t]}

\* The sorted container and m_txpool_weight, kept beside the table and never
\* recomputed from it while the daemon runs, agree with it: no tx is
\* invisible to the block template or to prune, no weight is counted twice
\* by a relay upgrade, and reduce_txpool_weight never underflows.
IndexesMatchTable ==
  /\ pool.sorted = Stored(pool)
  /\ pool.weight = Weight[Stored(pool)]

\* All four copies of what is in the pool agree (KeyImageIndex and
\* IndexesMatchTable together), whatever adds, relays, expires or prunes.
IndexesAgree == KeyImageIndex /\ IndexesMatchTable

\* Two txs that spend the same image can both be in the pool only if a block
\* brought all of them but one.  init() depends on it: a daemon stopped at
\* any moment, in the middle of any conflict, can load its pool again.
OneUnkeptTxPerKeyImage == InitSucceeds(pool.db)

\* While it stays in the pool a tx never loses privacy status it had gained:
\* stem and fluff messages, embargoes, blocks and revalidation may come in
\* any order, the relay method only moves up.
RelayOnlyUpgrades ==
  [][\A t \in Txs : pool.db[t] # Absent /\ pool'.db[t] # Absent =>
       RelayRank(pool'.db[t]) >= RelayRank(pool.db[t])]_vars

\* The verdicts kept across calls, m_input_cache and last_failed_id, never
\* differ from what check_tx_inputs would say now.
VerdictsFresh ==
  \A t \in Txs :
    /\ pool.cache[t] = "good" => t \in Ok
    /\ pool.cache[t] = "bad" => t \notin Ok
    /\ pool.failed[t] = top => t \notin Ok

\* A tx the pool gave up on does not come back from a peer that still has
\* it, whatever conflicts, forks and revalidations happen in between, until
\* a block brings it or the daemon restarts.
TimedOutStayOut ==
  \A t \in pool.timedOut : pool.db[t] \in {Absent, "block"}

\* A filled template can be mined: its txs are in the pool, their inputs
\* pass on the top block, and no two of them spend the same image.
TemplateMinable ==
  /\ template \subseteq Stored(pool) \cap Ok
  /\ \A t, u \in template : t # u => KeyImagesOf[t] \cap KeyImagesOf[u] = {}
=============================================================================
