------------------------------ MODULE TxPoolOps ------------------------------
(***************************************************************************)
(* The transaction pool, src/src/cryptonote_core/tx_pool.cpp, as functions *)
(* on the pool's state.  Every public operation of tx_memory_pool runs     *)
(* under m_transactions_lock and the blockchain lock, so one application   *)
(* of an operator below is one critical section.  TxPool.tla turns the     *)
(* operators into a state machine; Blockchain.tla composes them with the   *)
(* chain, whose handlers make many pool calls in one critical section.     *)
(*                                                                         *)
(* A pool state is a record p:                                             *)
(*   db       txpool_meta table: the relay method of each stored tx, or    *)
(*            Absent                                                       *)
(*   failed   meta.last_failed_id, the top block its inputs failed on      *)
(*   age      now - meta.receive_time, in the units of LifeTime            *)
(*   ki       m_spent_key_images                                           *)
(*   sorted   m_txs_by_fee_and_receive_time                                *)
(*   weight   m_txpool_weight                                              *)
(*   cache    m_input_cache: the cached verdict on a tx's inputs           *)
(*   timedOut m_timed_out_transactions                                     *)
(*   moved    m_cookie has changed since a block template was cached       *)
(* The first three are in the database, the others in memory only.         *)
(***************************************************************************)
EXTENDS Integers, FiniteSets

CONSTANTS
  Txs,            \* transaction ids
  KeyImages,      \* key images
  KeyImagesOf,    \* [Txs -> SUBSET KeyImages], the images a tx's inputs spend
  Weight,         \* [SUBSET Txs -> Nat], the total weight of a set of txs
  FeeRank,        \* [Txs -> Nat], position in the by-fee order, best first
  MaxWeight,      \* m_txpool_max_weight
  BlockLimit,     \* max_total_weight of a block template
  NonStandard,    \* txs refused unless they come from a block: fee too low,
                  \* tx_extra too big, or a non-zero unlock time
  Tops,           \* ids of the blocks that can be the top of the chain
  NoTop,          \* null_hash
  LifeTime,       \* CRYPTONOTE_MEMPOOL_TX_LIVETIME
  AltLifeTime,    \* CRYPTONOTE_MEMPOOL_TX_FROM_ALT_BLOCK_LIVETIME
  MaxAge          \* model bound: ages are not told apart beyond it

ASSUME KeyImagesAssumption == KeyImagesOf \in [Txs -> SUBSET KeyImages]

\* Weights add up over disjoint sets.
ASSUME WeightAssumption ==
  /\ Weight \in [SUBSET Txs -> Nat]
  /\ Weight[{}] = 0
  /\ \A S, T \in SUBSET Txs :
       S \cap T = {} => Weight[S \cup T] = Weight[S] + Weight[T]

ASSUME LimitsAssumption ==
  /\ MaxWeight \in Nat /\ BlockLimit \in Nat
  /\ LifeTime \in Nat /\ AltLifeTime \in Nat /\ MaxAge \in Nat

ASSUME FeeRankAssumption ==
  /\ FeeRank \in [Txs -> Nat]
  /\ \A t, u \in Txs : FeeRank[t] = FeeRank[u] => t = u

ASSUME TopsAssumption == NoTop \notin Tops
ASSUME NonStandardAssumption == NonStandard \subseteq Txs

-----------------------------------------------------------------------------
(* relay_method and its order; txpool_tx_meta_t *)

RelayMethods == {"none", "local", "forward", "stem", "fluff", "block"}
Absent == "absent"

RelayRank(r) ==
  CASE r = "none" -> 0 [] r = "local" -> 1 [] r = "forward" -> 2
    [] r = "stem" -> 3 [] r = "fluff" -> 4 [] r = "block" -> 5

Legacy(r)      == r \in {"none", "fluff", "block"}
Broadcasted(r) == r \in {"fluff", "block"}

\* upgrade_relay_method: the method only ever moves up the order.
\* (Upgrade_Overwrites and the operators named like it, Definition_Bug, are
\* mutants: no module uses them.  Put in the place of the definition that
\* follows, each breaks a property of the model.)
Upgrade_Overwrites(r, new) == new
Upgrade(r, new) == IF RelayRank(r) < RelayRank(new) THEN new ELSE r

PoolStates ==
  [db       : [Txs -> RelayMethods \cup {Absent}],
   failed   : [Txs -> Tops \cup {NoTop}],
   age      : [Txs -> 0..MaxAge],
   ki       : [KeyImages -> SUBSET Txs],
   sorted   : SUBSET Txs,
   weight   : Nat,
   cache    : [Txs -> {"unknown", "good", "bad"}],
   timedOut : SUBSET Txs,
   moved    : BOOLEAN]

-----------------------------------------------------------------------------
(* Queries *)

Stored(p)     == {t \in Txs : p.db[t] # Absent}
HaveTx(p, t)  == Legacy(p.db[t])
KeptByBlock(p, t) == p.db[t] = "block"

\* have_tx_keyimges_as_spent: another tx has one of the images, or this one
\* has and is public already.
HaveKeyImagesAsSpent(p, t) ==
  \E k \in KeyImagesOf[t] :
    /\ p.ki[k] # {}
    /\ p.ki[k] # {t} \/ Legacy(p.db[t])

\* check_tx_inputs behind m_input_cache; ok is the set of txs whose inputs
\* pass on the current chain.
Verdict(p, t, ok) ==
  IF p.cache[t] # "unknown" THEN p.cache[t]
  ELSE IF t \in ok THEN "good" ELSE "bad"

\* insert_key_images succeeds: several txs share an image only if the new
\* one is kept by a block, and a tx that is in already is in privately.
CanInsertKeyImages_NeverShared(p, t, relay) ==
  \A k \in KeyImagesOf[t] : p.ki[k] \subseteq {t} /\ ~(t \in p.ki[k] /\ HaveTx(p, t))
CanInsertKeyImages(p, t, relay) ==
  \A k \in KeyImagesOf[t] :
    /\ relay # "block" => p.ki[k] \subseteq {t}
    /\ ~(t \in p.ki[k] /\ Legacy(p.db[t]))

-----------------------------------------------------------------------------
(* Building blocks *)

Moved(p) == [p EXCEPT !.moved = TRUE]

InsertKeyImages(p, t) ==
  [k \in KeyImages |-> IF k \in KeyImagesOf[t] THEN p.ki[k] \cup {t} ELSE p.ki[k]]

RemoveKeyImages_SoleSpender(p, S) ==
  [k \in KeyImages |-> IF p.ki[k] \subseteq S THEN {} ELSE p.ki[k]]
RemoveKeyImages(p, S) == [k \in KeyImages |-> p.ki[k] \ S]

\* reduce_txpool_weight: an underflow is logged and saturates at zero.
ReduceWeight_Inverted(w, by) == IF w > by THEN 0 ELSE w - by
ReduceWeight(w, by) == IF by > w THEN 0 ELSE w - by

\* What take_tx, prune and remove_stuck_transactions do to the txs they
\* remove: the tables, the weight, the key images and the transient lists.
Discard(p, S) ==
  [p EXCEPT !.db     = [t \in Txs |-> IF t \in S THEN Absent ELSE p.db[t]],
            !.failed = [t \in Txs |-> IF t \in S THEN NoTop ELSE p.failed[t]],
            !.age    = [t \in Txs |-> IF t \in S THEN 0 ELSE p.age[t]],
            !.ki     = RemoveKeyImages(p, S),
            !.sorted = p.sorted \ S,
            !.weight = ReduceWeight(p.weight, Weight[S \cap Stored(p)]),
            !.moved  = TRUE]

\* prune: from the cheapest tx up, sparing the best one and those kept by a
\* block, until the pool is not above its limit.
Prunable(p) ==
  {t \in p.sorted : /\ \E u \in p.sorted : FeeRank[u] < FeeRank[t]
                    /\ p.db[t] \notin {Absent, "block"}}

PrunedTxs(p) ==
  {t \in Prunable(p) :
     p.weight > MaxWeight + Weight[{u \in Prunable(p) : FeeRank[u] > FeeRank[t]}]}

Prune(p) == IF PrunedTxs(p) = {} THEN p ELSE Discard(p, PrunedTxs(p))

-----------------------------------------------------------------------------
(* add_tx *)

\* The method a tx is stored under: a stem tx that comes round in stem
\* again closed a Dandelion++ loop and is fluffed.
StoredRelay(p, t, relay) ==
  IF p.db[t] = Absent THEN relay
  ELSE Upgrade(p.db[t], IF relay = "stem" /\ p.db[t] = "stem" THEN "fluff" ELSE relay)

\* Refused before the inputs are looked at.  conform: the txs that pass
\* ver_non_input_consensus for the version in force.
RefusedEarly_ForgetsTimedOut(p, t, relay, conform) ==
  \/ t \notin conform
  \/ relay # "block" /\ (t \in NonStandard \/ HaveKeyImagesAsSpent(p, t))
RefusedEarly(p, t, relay, conform) ==
  \/ t \notin conform
  \/ /\ relay # "block"
     /\ \/ t \in p.timedOut
        \/ t \in NonStandard
        \/ HaveKeyImagesAsSpent(p, t)

InputsGood(p, t, relay, ok) ==
  IF relay = "block" THEN t \in ok ELSE Verdict(p, t, ok) = "good"

CacheVerdict(p, t, relay, ok) ==
  IF relay = "block" THEN p
  ELSE [p EXCEPT !.cache = [p.cache EXCEPT ![t] = Verdict(p, t, ok)]]

\* Writes the tx under method relay and adds its weight if it is new.
Store_CountsTwice(p, t, relay) ==
  [p EXCEPT !.db     = [p.db EXCEPT ![t] = relay],
            !.failed = [p.failed EXCEPT ![t] = NoTop],
            !.age    = [p.age EXCEPT ![t] = 0],
            !.ki     = InsertKeyImages(p, t),
            !.sorted = p.sorted \cup {t},
            !.weight = p.weight + Weight[{t}],
            !.moved  = TRUE]
Store(p, t, relay) ==
  [p EXCEPT !.db     = [p.db EXCEPT ![t] = relay],
            !.failed = [p.failed EXCEPT ![t] = NoTop],
            !.age    = [p.age EXCEPT ![t] = 0],
            !.ki     = InsertKeyImages(p, t),
            !.sorted = p.sorted \cup {t},
            !.weight = IF p.db[t] = Absent THEN p.weight + Weight[{t}] ELSE p.weight,
            !.moved  = TRUE]

\* add_tx returns true.  With bad inputs only a block's tx goes in, and only
\* if the table does not hold it yet: add_txpool_tx throws on a duplicate.
AddTxAccepted(p, t, relay, ok, conform) ==
  /\ ~RefusedEarly(p, t, relay, conform)
  /\ IF InputsGood(p, t, relay, ok)
     THEN \/ p.db[t] # Absent /\ StoredRelay(p, t, relay) = p.db[t]
          \/ CanInsertKeyImages(p, t, StoredRelay(p, t, relay))
     ELSE relay = "block" /\ p.db[t] = Absent /\ CanInsertKeyImages(p, t, relay)

AddTx(p, t, relay, ok, conform) ==
  IF RefusedEarly(p, t, relay, conform) THEN p
  ELSE LET q == CacheVerdict(p, t, relay, ok) IN
       IF ~AddTxAccepted(p, t, relay, ok, conform) THEN q
       ELSE IF p.db[t] # Absent /\ StoredRelay(p, t, relay) = p.db[t]
            THEN Prune(Moved(q))
            ELSE Prune(Store(q, t, StoredRelay(p, t, relay)))

-----------------------------------------------------------------------------
(* The other operations *)

TakeTx_PublicOnly(p, t) == IF ~HaveTx(p, t) THEN p ELSE Discard(p, {t})
TakeTx(p, t) == IF p.db[t] = Absent THEN p ELSE Discard(p, {t})

\* on_blockchain_inc, on_blockchain_dec
OnBlockchainChange_KeepsCache(p) == p
OnBlockchainChange(p) == [p EXCEPT !.cache = [t \in Txs |-> "unknown"]]

StuckTxs(p) ==
  {t \in Stored(p) : p.age[t] > IF KeptByBlock(p, t) THEN AltLifeTime ELSE LifeTime}

RemoveStuckTransactions(p) ==
  IF StuckTxs(p) = {} THEN p
  ELSE [Discard(p, StuckTxs(p)) EXCEPT !.timedOut = p.timedOut \cup StuckTxs(p)]

\* set_relayed upgrades the txs that are still in the pool; one that just
\* became public is added to the transient lists again.
SetRelayed_Overwrites(p, S, method) ==
  [p EXCEPT !.db = [t \in Txs |-> IF t \in S /\ p.db[t] # Absent
                                  THEN method ELSE p.db[t]]]
SetRelayed(p, S, method) ==
  [p EXCEPT !.db = [t \in Txs |-> IF t \in S /\ p.db[t] # Absent
                                  THEN Upgrade(p.db[t], method) ELSE p.db[t]],
            !.sorted = p.sorted \cup
              {t \in S : p.db[t] # Absent /\ ~Broadcasted(p.db[t])
                         /\ Broadcasted(Upgrade(p.db[t], method))}]

\* init: the in-memory state is rebuilt from the table, first the txs not
\* kept by a block; a clash of key images among those makes init fail.
InitSucceeds_OnePass(db) ==
  \A t, u \in {v \in Txs : db[v] # Absent} :
    t # u => KeyImagesOf[t] \cap KeyImagesOf[u] = {}
InitSucceeds(db) ==
  \A t, u \in {v \in Txs : db[v] \notin {Absent, "block"}} :
    t # u => KeyImagesOf[t] \cap KeyImagesOf[u] = {}

InitPool(db, failed, age) ==
  LET stored == {t \in Txs : db[t] # Absent} IN
  [db |-> db, failed |-> failed, age |-> age,
   ki |-> [k \in KeyImages |-> {t \in stored : k \in KeyImagesOf[t]}],
   sorted |-> stored, weight |-> Weight[stored],
   cache |-> [t \in Txs |-> "unknown"], timedOut |-> {}, moved |-> TRUE]

EmptyPool ==
  InitPool([t \in Txs |-> Absent], [t \in Txs |-> NoTop], [t \in Txs |-> 0])

-----------------------------------------------------------------------------
(* fill_block_template and is_transaction_ready_to_go *)

Ready(p, t, ok, top) == p.failed[t] # top /\ Verdict(p, t, ok) = "good"

\* The txs looked at by the greedy fill that are public and still fit after
\* the better ones that were chosen.
Fits(chosen, t) ==
  Weight[{u \in chosen : FeeRank[u] < FeeRank[t]} \cup {t}] <= BlockLimit

NoClash_Never(chosen, t) == TRUE
NoClash(chosen, t) ==
  \A u \in chosen : FeeRank[u] < FeeRank[t] => KeyImagesOf[u] \cap KeyImagesOf[t] = {}

TemplateCandidates(p) == {t \in p.sorted : Legacy(p.db[t])}

\* The one greedy choice: a candidate is in iff it fits, is ready and
\* clashes with no better tx that is in.
TemplateTxs(p, ok, top) ==
  CHOOSE C \in SUBSET TemplateCandidates(p) :
    \A t \in TemplateCandidates(p) :
      t \in C <=> Fits(C, t) /\ Ready(p, t, ok, top) /\ NoClash(C, t)

\* What filling a template leaves behind: cached verdicts, and the top
\* block noted on the txs that failed on it.
FillBlockTemplate(p, ok, top) ==
  LET checked == {t \in TemplateCandidates(p) :
                    Fits(TemplateTxs(p, ok, top), t) /\ p.failed[t] # top}
  IN [p EXCEPT
        !.cache  = [t \in Txs |-> IF t \in checked THEN Verdict(p, t, ok) ELSE p.cache[t]],
        !.failed = [t \in Txs |-> IF t \in checked /\ Verdict(p, t, ok) = "bad"
                                  THEN top ELSE p.failed[t]]]
=============================================================================
