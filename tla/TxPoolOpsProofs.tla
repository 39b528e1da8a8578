--------------------------- MODULE TxPoolOpsProofs ---------------------------
(***************************************************************************)
(* What the operations of the transaction pool do to its record, for any   *)
(* txs, key images, weights and fee order: the lemmas that the proofs of   *)
(* TxPool and TxRelay rest on.                                             *)
(***************************************************************************)
EXTENDS TxPoolOps, NatFacts, TLAPS

\* What every operation of the pool preserves about its record.
Exact(p) ==
  /\ \A k \in KeyImages : p.ki[k] = {t \in Stored(p) : k \in KeyImagesOf[t]}
  /\ p.sorted = Stored(p)
  /\ p.weight = Weight[Stored(p)]

Sound(p) == p \in PoolStates /\ Exact(p) /\ InitSucceeds(p.db)

-----------------------------------------------------------------------------
(* Lemmas on the operations *)

\* Adding the weights of a set and of the rest of a larger set.
LEMMA WeightSplit ==
  ASSUME NEW A \in SUBSET Txs, NEW S \in SUBSET Txs
  PROVE  /\ Weight[A] \in Nat
         /\ Weight[S \cap A] \in Nat
         /\ Weight[A] = Weight[S \cap A] + Weight[A \ S]
<1>1. /\ S \cap A \in SUBSET Txs /\ A \ S \in SUBSET Txs
      /\ (S \cap A) \cap (A \ S) = {}
      /\ (S \cap A) \cup (A \ S) = A
  OBVIOUS
<1>2. Weight[(S \cap A) \cup (A \ S)] = Weight[S \cap A] + Weight[A \ S]
  BY <1>1, WeightAssumption
<1> QED
  BY <1>1, <1>2, WeightAssumption

\* Removing txs keeps the indexes exact: reduce_txpool_weight does not reach
\* its underflow branch.
LEMMA RemoveSound ==
  ASSUME NEW p, Sound(p), NEW S \in SUBSET Txs
  PROVE  Sound(Discard(p, S))
<1> DEFINE q == Discard(p, S)
<1>1. Stored(p) \in SUBSET Txs
  BY DEF Stored
<1>2. Stored(q) = Stored(p) \ S
  BY DEF Sound, PoolStates, Discard, Stored, Absent
<1>3. q.weight = Weight[Stored(q)]
  <2>1. /\ Weight[Stored(p)] \in Nat
        /\ Weight[S \cap Stored(p)] \in Nat
        /\ Weight[Stored(p) \ S] \in Nat
        /\ Weight[Stored(p)] = Weight[S \cap Stored(p)] + Weight[Stored(p) \ S]
    BY <1>1, WeightSplit, WeightAssumption
  <2>2. q.weight = ReduceWeight(Weight[Stored(p)], Weight[S \cap Stored(p)])
    BY DEF Discard, Sound, Exact, PoolStates
  <2> HIDE DEF q
  <2> QED
    BY <2>1, <2>2, <1>2 DEF ReduceWeight
<1>4. q \in PoolStates
  <2>1. q.weight \in Nat
    BY <1>1, <1>2, <1>3, WeightAssumption
  <2>2. p \in PoolStates /\ 0 \in 0..MaxAge
    BY LimitsAssumption DEF Sound
  <2>3. /\ q.db \in [Txs -> RelayMethods \cup {Absent}]
        /\ q.failed \in [Txs -> Tops \cup {NoTop}]
        /\ q.age \in [Txs -> 0..MaxAge]
        /\ q.ki \in [KeyImages -> SUBSET Txs]
    BY <2>2 DEF PoolStates, Discard, RemoveKeyImages
  <2> QED
    BY <2>1, <2>2, <2>3 DEF PoolStates, Discard
<1>5. \A k \in KeyImages : q.ki[k] = {t \in Stored(q) : k \in KeyImagesOf[t]}
  BY <1>2 DEF Sound, Exact, PoolStates, Discard, RemoveKeyImages, Stored
<1>6. q.sorted = Stored(q)
  BY <1>2 DEF Sound, Exact, PoolStates, Discard
<1>7. InitSucceeds(q.db)
  BY DEF Sound, PoolStates, Discard, InitSucceeds, Absent
<1> QED
  BY <1>3, <1>4, <1>5, <1>6, <1>7 DEF Sound, Exact

LEMMA PruneSound ==
  ASSUME NEW p, Sound(p)
  PROVE  Sound(Prune(p))
<1>1. PrunedTxs(p) \in SUBSET Txs
  BY DEF PrunedTxs, Prunable, Sound, PoolStates
<1> QED
  BY <1>1, RemoveSound DEF Prune

LEMMA StoreType ==
  ASSUME NEW p \in PoolStates, NEW t \in Txs, NEW relay \in RelayMethods
  PROVE  Store(p, t, relay) \in PoolStates
<1> DEFINE db     == [p.db EXCEPT ![t] = relay]
           failed == [p.failed EXCEPT ![t] = NoTop]
           age    == [p.age EXCEPT ![t] = 0]
           ki     == InsertKeyImages(p, t)
           sorted == p.sorted \cup {t}
           weight == IF p.db[t] = Absent THEN p.weight + Weight[{t}] ELSE p.weight
<1>1. Store(p, t, relay) =
        [p EXCEPT !.db = db, !.failed = failed, !.age = age, !.ki = ki,
                  !.sorted = sorted, !.weight = weight, !.moved = TRUE]
  BY DEF Store
<1>2. db \in [Txs -> RelayMethods \cup {Absent}] /\ failed \in [Txs -> Tops \cup {NoTop}]
  BY DEF PoolStates
<1>3. age \in [Txs -> 0 .. MaxAge] /\ sorted \in SUBSET Txs
  BY LimitsAssumption DEF PoolStates
<1>4. ki \in [KeyImages -> SUBSET Txs]
  BY DEF InsertKeyImages, PoolStates
<1>5. weight \in Nat
  <2>1. Weight[{t}] \in Nat /\ p.weight \in Nat
    BY WeightAssumption DEF PoolStates
  <2> QED
    BY <2>1
<1> HIDE DEF db, failed, age, ki, sorted, weight
<1> QED
  BY <1>1, <1>2, <1>3, <1>4, <1>5 DEF PoolStates

\* Storing a tx under a method: it is kept by a block, or no other tx of the
\* pool spends one of its images.
LEMMA StoreSound ==
  ASSUME NEW p, Sound(p), NEW t \in Txs, NEW relay \in RelayMethods,
         \/ relay = "block"
         \/ \A k \in KeyImagesOf[t] : p.ki[k] \subseteq {t}
  PROVE  Sound(Store(p, t, relay))
<1> DEFINE q == Store(p, t, relay)
<1>1. Stored(p) \in SUBSET Txs /\ relay # Absent
  BY DEF Stored, RelayMethods, Absent
<1>2. Stored(q) = Stored(p) \cup {t}
  BY <1>1 DEF Sound, PoolStates, Store, Stored
<1>3. q.weight = Weight[Stored(q)] /\ q.weight \in Nat
  <2>1. CASE p.db[t] = Absent
    <3>1. {t} \in SUBSET Txs /\ Stored(p) \cap {t} = {}
      BY <2>1 DEF Stored
    <3>2. Weight[Stored(p) \cup {t}] = Weight[Stored(p)] + Weight[{t}]
      BY <1>1, <3>1, WeightAssumption
    <3>3. q.weight = Weight[Stored(p)] + Weight[{t}]
      BY <2>1 DEF Store, Sound, Exact, PoolStates
    <3>4. Weight[Stored(p)] \in Nat /\ Weight[{t}] \in Nat
      BY <1>1, <3>1, WeightAssumption
    <3> HIDE DEF q
    <3> QED
      BY <1>2, <3>2, <3>3, <3>4
  <2>2. CASE p.db[t] # Absent
    <3>1. Stored(p) \cup {t} = Stored(p)
      BY <2>2 DEF Stored
    <3> QED
      BY <1>1, <1>2, <2>2, <3>1, WeightAssumption
      DEF Store, Sound, Exact, PoolStates
  <2> QED
    BY <2>1, <2>2
<1>4. q \in PoolStates
  BY StoreType DEF Sound
<1>5. \A k \in KeyImages : q.ki[k] = {u \in Stored(q) : k \in KeyImagesOf[u]}
  BY <1>2 DEF Sound, Exact, PoolStates, Store, InsertKeyImages, Stored
<1>6. q.sorted = Stored(q)
  BY <1>2 DEF Sound, Exact, PoolStates, Store
<1>7. InitSucceeds(q.db)
  <2> SUFFICES ASSUME NEW u \in Txs, NEW v \in Txs, u # v,
                      q.db[u] \notin {Absent, "block"},
                      q.db[v] \notin {Absent, "block"}
               PROVE  KeyImagesOf[u] \cap KeyImagesOf[v] = {}
    BY DEF InitSucceeds
  <2>1. \A w \in Txs \ {t} : q.db[w] = p.db[w]
    BY DEF Store, Sound, PoolStates
  <2>2. q.db[t] = relay
    BY DEF Store, Sound, PoolStates
  <2>3. CASE u # t /\ v # t
    BY <2>1, <2>3 DEF Sound, InitSucceeds
  <2>4. CASE u = t
    <3>1. relay # "block" /\ v # t /\ v \in Stored(p)
      BY <2>1, <2>2, <2>4 DEF Stored
    <3>2. \A k \in KeyImagesOf[t] : v \notin p.ki[k]
      BY <3>1
    <3> QED
      BY <3>1, <3>2, <2>4, KeyImagesAssumption DEF Sound, Exact
  <2>5. CASE v = t
    <3>1. relay # "block" /\ u # t /\ u \in Stored(p)
      BY <2>1, <2>2, <2>5 DEF Stored
    <3>2. \A k \in KeyImagesOf[t] : u \notin p.ki[k]
      BY <3>1
    <3> QED
      BY <3>1, <3>2, <2>5, KeyImagesAssumption DEF Sound, Exact
  <2> QED
    BY <2>3, <2>4, <2>5
<1> QED
  BY <1>3, <1>4, <1>5, <1>6, <1>7 DEF Sound, Exact

\* A change of fields that are in no index.
LEMMA SameTableSound ==
  ASSUME NEW p, Sound(p), NEW q \in PoolStates,
         q.db = p.db, q.ki = p.ki, q.sorted = p.sorted, q.weight = p.weight
  PROVE  Sound(q)
BY DEF Sound, Exact, Stored, InitSucceeds

LEMMA CacheVerdictSound ==
  ASSUME NEW p, Sound(p), NEW t \in Txs, NEW relay, NEW ok
  PROVE  /\ Sound(CacheVerdict(p, t, relay, ok))
         /\ Sound(Moved(CacheVerdict(p, t, relay, ok)))
<1> DEFINE q == CacheVerdict(p, t, relay, ok)
<1>1. Verdict(p, t, ok) \in {"unknown", "good", "bad"}
  BY DEF Verdict, Sound, PoolStates
<1>2. q \in PoolStates /\ Moved(q) \in PoolStates
  BY <1>1 DEF CacheVerdict, Moved, Sound, PoolStates
<1>3. /\ q.db = p.db /\ q.ki = p.ki /\ q.sorted = p.sorted /\ q.weight = p.weight
      /\ Moved(q).db = p.db /\ Moved(q).ki = p.ki
      /\ Moved(q).sorted = p.sorted /\ Moved(q).weight = p.weight
  BY DEF CacheVerdict, Moved, Sound, PoolStates
<1> QED
  BY <1>2, <1>3, SameTableSound

LEMMA StoredRelayType ==
  ASSUME NEW p \in PoolStates, NEW t \in Txs, NEW relay \in RelayMethods
  PROVE  /\ StoredRelay(p, t, relay) \in RelayMethods
         /\ relay = "block" => StoredRelay(p, t, relay) = "block"
BY DEF StoredRelay, Upgrade, RelayRank, PoolStates, RelayMethods, Absent

LEMMA AddTxSound ==
  ASSUME NEW p, Sound(p), NEW t \in Txs, NEW relay \in RelayMethods,
         NEW ok, NEW rules
  PROVE  Sound(AddTx(p, t, relay, ok, rules))
<1> DEFINE q == CacheVerdict(p, t, relay, ok)
           r == StoredRelay(p, t, relay)
<1>1. Sound(q) /\ Sound(Moved(q)) /\ p \in PoolStates
  BY CacheVerdictSound DEF Sound
<1>2. r \in RelayMethods /\ (relay = "block" => r = "block")
  BY <1>1, StoredRelayType
<1>3. ASSUME ~RefusedEarly(p, t, relay, rules)
      PROVE  Sound(Store(q, t, r))
  <2>1. q.ki = p.ki
    BY DEF CacheVerdict, Sound, PoolStates
  <2>2. relay # "block" => \A k \in KeyImagesOf[t] : p.ki[k] \subseteq {t}
    BY <1>3 DEF RefusedEarly, HaveKeyImagesAsSpent
  <2> HIDE DEF q, r
  <2> QED
    BY <1>1, <1>2, <2>1, <2>2, StoreSound
<1> QED
  BY <1>1, <1>3, PruneSound DEF AddTx

LEMMA TakeTxSound ==
  ASSUME NEW p, Sound(p), NEW t \in Txs
  PROVE  Sound(TakeTx(p, t))
BY RemoveSound DEF TakeTx

-----------------------------------------------------------------------------
(* The order of relay methods *)

Upward(p, q) ==
  \A t \in Txs : p.db[t] # Absent /\ q.db[t] # Absent =>
    RelayRank(q.db[t]) >= RelayRank(p.db[t])

LEMMA UpgradeUpward ==
  ASSUME NEW r \in RelayMethods, NEW new \in RelayMethods
  PROVE  /\ Upgrade(r, new) \in RelayMethods
         /\ RelayRank(Upgrade(r, new)) >= RelayRank(r)
         /\ RelayRank(r) >= RelayRank(r)
         /\ (Upgrade(r, new) = "block" <=> r = "block" \/ new = "block")
BY DEF Upgrade, RelayRank, RelayMethods

LEMMA ShrinkUpward ==
  ASSUME NEW p \in PoolStates, NEW q,
         \A t \in Txs : q.db[t] \in {Absent, p.db[t]}
  PROVE  Upward(p, q)
<1> SUFFICES ASSUME NEW t \in Txs, p.db[t] # Absent, q.db[t] # Absent
             PROVE  RelayRank(q.db[t]) >= RelayRank(p.db[t])
  BY DEF Upward
<1>1. q.db[t] = p.db[t] /\ p.db[t] \in RelayMethods
  BY DEF PoolStates
<1>2. RelayRank(p.db[t]) >= RelayRank(p.db[t])
  BY <1>1, UpgradeUpward
<1> QED
  BY <1>1, <1>2

-----------------------------------------------------------------------------
(* What an operation leaves of the table and of the cached verdicts *)

\* Removal clears what it removes and touches nothing else.
LEMMA RemoveEffect ==
  ASSUME NEW p \in PoolStates, NEW S \in SUBSET Txs
  PROVE  /\ Discard(p, S).timedOut = p.timedOut
         /\ Discard(p, S).cache = p.cache
         /\ \A t \in Txs :
              /\ t \in S => Discard(p, S).db[t] = Absent
              /\ t \notin S => /\ Discard(p, S).db[t] = p.db[t]
                              /\ Discard(p, S).age[t] = p.age[t]
              /\ Discard(p, S).failed[t] \in {NoTop, p.failed[t]}
BY DEF Discard, PoolStates

LEMMA PruneEffect ==
  ASSUME NEW p \in PoolStates
  PROVE  /\ Prune(p).timedOut = p.timedOut
         /\ Prune(p).cache = p.cache
         /\ \A t \in Txs :
              /\ \/ Prune(p).db[t] = Absent
                 \/ Prune(p).db[t] = p.db[t] /\ Prune(p).age[t] = p.age[t]
              /\ Prune(p).failed[t] \in {NoTop, p.failed[t]}
<1>1. PrunedTxs(p) \in SUBSET Txs
  BY DEF PrunedTxs, Prunable, PoolStates
<1> QED
  BY <1>1, RemoveEffect DEF Prune

\* A tx that is refused changes nothing; one that is not changes its own
\* entry, and prune may drop others.
LEMMA AddTxEffect ==
  ASSUME NEW p, Sound(p), NEW t \in Txs, NEW relay \in RelayMethods,
         NEW ok, NEW rules
  PROVE  LET q == AddTx(p, t, relay, ok, rules) IN
         /\ RefusedEarly(p, t, relay, rules) => q = p
         /\ q.timedOut = p.timedOut
         /\ q.db[t] \in {Absent, p.db[t], StoredRelay(p, t, relay)}
         /\ \A u \in Txs \ {t} : q.db[u] \in {Absent, p.db[u]}
         /\ \A u \in Txs :
              /\ q.cache[u] \in {p.cache[u], Verdict(p, u, ok)}
              /\ q.failed[u] \in {NoTop, p.failed[u]}
<1> DEFINE q == AddTx(p, t, relay, ok, rules)
           c == CacheVerdict(p, t, relay, ok)
           r == StoredRelay(p, t, relay)
<1>1. Sound(c) /\ Sound(Moved(c)) /\ p \in PoolStates /\ r \in RelayMethods
  BY CacheVerdictSound, StoredRelayType DEF Sound
<1>2. /\ c.timedOut = p.timedOut /\ c.db = p.db /\ c.failed = p.failed /\ c.ki = p.ki
      /\ \A u \in Txs : c.cache[u] \in {p.cache[u], Verdict(p, u, ok)}
  BY DEF CacheVerdict, Sound, PoolStates
<1>3. CASE RefusedEarly(p, t, relay, rules)
  BY <1>3 DEF AddTx
<1>4. CASE /\ ~RefusedEarly(p, t, relay, rules)
           /\ ~AddTxAccepted(p, t, relay, ok, rules)
  <2>1. q = c
    BY <1>4 DEF AddTx
  <2> QED
    BY <1>2, <1>4, <2>1
<1>5. CASE /\ ~RefusedEarly(p, t, relay, rules)
           /\ AddTxAccepted(p, t, relay, ok, rules)
           /\ p.db[t] # Absent /\ r = p.db[t]
  <2>1. q = Prune(Moved(c))
    BY <1>5 DEF AddTx
  <2>2. /\ Moved(c).timedOut = c.timedOut /\ Moved(c).db = c.db
        /\ Moved(c).failed = c.failed /\ Moved(c).cache = c.cache
    BY <1>1 DEF Moved, Sound, PoolStates
  <2>3. Moved(c) \in PoolStates
    BY <1>1 DEF Sound
  <2> QED
    BY <1>2, <1>5, <2>1, <2>2, <2>3, PruneEffect
<1>6. CASE /\ ~RefusedEarly(p, t, relay, rules)
           /\ AddTxAccepted(p, t, relay, ok, rules)
           /\ ~(p.db[t] # Absent /\ r = p.db[t])
  <2> DEFINE s == Store(c, t, r)
  <2>1. q = Prune(s)
    BY <1>6 DEF AddTx
  <2>2. /\ s.timedOut = c.timedOut /\ s.cache = c.cache
        /\ s.db = [c.db EXCEPT ![t] = r]
        /\ s.failed = [c.failed EXCEPT ![t] = NoTop]
    BY <1>1 DEF Store, Sound, PoolStates
  <2>3. c.db \in [Txs -> RelayMethods \cup {Absent}] /\ c.failed \in [Txs -> Tops \cup {NoTop}]
    BY <1>1 DEF Sound, PoolStates
  <2>4. s \in PoolStates
    <3>1. relay = "block" \/ \A k \in KeyImagesOf[t] : p.ki[k] \subseteq {t}
      BY <1>6 DEF RefusedEarly, HaveKeyImagesAsSpent
    <3>2. relay = "block" => r = "block"
      BY <1>1, StoredRelayType
    <3> HIDE DEF c, r
    <3> QED
      BY <1>1, <1>2, <3>1, <3>2, StoreSound DEF Sound
  <2> QED
    BY <1>2, <1>6, <2>1, <2>2, <2>3, <2>4, PruneEffect
<1> QED
  BY <1>3, <1>4, <1>5, <1>6

\* Only a tx that add_tx writes gets a new age, and prune may drop any.
LEMMA AddTxTimes ==
  ASSUME NEW p, Sound(p), NEW t \in Txs, NEW relay \in RelayMethods,
         NEW ok, NEW rules, NEW q, q = AddTx(p, t, relay, ok, rules)
  PROVE  /\ ~AddTxAccepted(p, t, relay, ok, rules) => q.db = p.db /\ q.age = p.age
         /\ AddTxAccepted(p, t, relay, ok, rules) =>
              \/ q.db[t] = Absent
              \/ /\ q.db[t] = StoredRelay(p, t, relay)
                 /\ IF p.db[t] # Absent /\ StoredRelay(p, t, relay) = p.db[t]
                    THEN q.age[t] = p.age[t] ELSE q.age[t] = 0
         /\ \A u \in Txs \ {t} : \/ q.db[u] = Absent
                                 \/ q.db[u] = p.db[u] /\ q.age[u] = p.age[u]
<1> DEFINE c == CacheVerdict(p, t, relay, ok)
           r == StoredRelay(p, t, relay)
           s == Store(c, t, r)
<1>1. Sound(c) /\ Sound(Moved(c)) /\ p \in PoolStates /\ r \in RelayMethods
  BY CacheVerdictSound, StoredRelayType DEF Sound
<1>2. c.db = p.db /\ c.age = p.age /\ c.ki = p.ki
  BY DEF CacheVerdict, Sound, PoolStates
<1>3. CASE ~AddTxAccepted(p, t, relay, ok, rules)
  <2>1. q = p \/ q = c
    BY <1>3 DEF AddTx
  <2> HIDE DEF c
  <2> QED
    BY <1>2, <1>3, <2>1
<1>4. CASE AddTxAccepted(p, t, relay, ok, rules) /\ p.db[t] # Absent /\ r = p.db[t]
  <2>1. q = Prune(Moved(c))
    BY <1>4 DEF AddTx, AddTxAccepted
  <2>2. Moved(c).db = c.db /\ Moved(c).age = c.age /\ Moved(c) \in PoolStates
    BY <1>1 DEF Moved, Sound, PoolStates
  <2> HIDE DEF c
  <2> QED
    BY <1>2, <1>4, <2>1, <2>2, PruneEffect
<1>5. CASE AddTxAccepted(p, t, relay, ok, rules) /\ ~(p.db[t] # Absent /\ r = p.db[t])
  <2>1. q = Prune(s)
    BY <1>5 DEF AddTx, AddTxAccepted
  <2>2. s.db = [c.db EXCEPT ![t] = r] /\ s.age = [c.age EXCEPT ![t] = 0]
    BY <1>1 DEF Store, Sound, PoolStates
  <2>3. c.db \in [Txs -> RelayMethods \cup {Absent}] /\ c.age \in [Txs -> 0..MaxAge]
    BY <1>1 DEF Sound, PoolStates
  <2>4. s \in PoolStates
    <3>1. relay = "block" \/ \A k \in KeyImagesOf[t] : p.ki[k] \subseteq {t}
      BY <1>5 DEF AddTxAccepted, RefusedEarly, HaveKeyImagesAsSpent
    <3>2. relay = "block" => r = "block"
      BY <1>1, StoredRelayType
    <3> HIDE DEF c, r
    <3> QED
      BY <1>1, <1>2, <3>1, <3>2, StoreSound DEF Sound
  <2> HIDE DEF c, s
  <2> QED
    BY <1>2, <1>5, <2>1, <2>2, <2>3, <2>4, PruneEffect
<1> QED
  BY <1>3, <1>4, <1>5

\* A pool that never fills up never prunes.
LEMMA NoPrune ==
  ASSUME NEW p, Sound(p), Weight[Txs] <= MaxWeight
  PROVE  Prune(p) = p
<1>1. Stored(p) \in SUBSET Txs /\ Txs \in SUBSET Txs /\ Stored(p) \cap Txs = Stored(p)
  BY DEF Stored
<1>2. /\ Weight[Txs] \in Nat /\ Weight[Stored(p)] \in Nat /\ MaxWeight \in Nat
      /\ Weight[Txs \ Stored(p)] \in Nat
      /\ Weight[Txs] = Weight[Stored(p)] + Weight[Txs \ Stored(p)]
  BY <1>1, WeightSplit, WeightAssumption, LimitsAssumption
<1>3. p.weight = Weight[Stored(p)]
  BY DEF Sound, Exact
<1>4. ASSUME NEW t \in Prunable(p)
      PROVE  ~(p.weight > MaxWeight + Weight[{u \in Prunable(p) : FeeRank[u] > FeeRank[t]}])
  <2>1. {u \in Prunable(p) : FeeRank[u] > FeeRank[t]} \in SUBSET Txs
    BY DEF Prunable, Sound, PoolStates
  <2>2. Weight[{u \in Prunable(p) : FeeRank[u] > FeeRank[t]}] \in Nat
    BY <2>1, WeightAssumption
  <2> QED
    BY <1>2, <1>3, <2>2
<1> QED
  BY <1>4 DEF Prune, PrunedTxs

LEMMA AddTxUnpruned ==
  ASSUME NEW p, Sound(p), NEW t \in Txs, NEW relay \in RelayMethods,
         NEW ok, NEW rules, Weight[Txs] <= MaxWeight,
         NEW q, q = AddTx(p, t, relay, ok, rules)
  PROVE  /\ \A u \in Txs : p.db[u] # Absent => q.db[u] # Absent
         /\ AddTxAccepted(p, t, relay, ok, rules) => q.db[t] = StoredRelay(p, t, relay)
<1> DEFINE c == CacheVerdict(p, t, relay, ok)
           r == StoredRelay(p, t, relay)
           s == Store(c, t, r)
<1>1. Sound(c) /\ Sound(Moved(c)) /\ p \in PoolStates /\ r \in RelayMethods
  BY CacheVerdictSound, StoredRelayType DEF Sound
<1>2. c.db = p.db /\ c.ki = p.ki /\ p.db \in [Txs -> RelayMethods \cup {Absent}]
  BY DEF CacheVerdict, Sound, PoolStates
<1>3. CASE ~AddTxAccepted(p, t, relay, ok, rules)
  <2>1. q.db = p.db
    BY <1>3, AddTxTimes
  <2> QED
    BY <1>3, <2>1
<1>4. CASE AddTxAccepted(p, t, relay, ok, rules) /\ p.db[t] # Absent /\ r = p.db[t]
  <2>1. q = Moved(c)
    BY <1>1, <1>4, NoPrune DEF AddTx, AddTxAccepted
  <2>2. Moved(c).db = c.db
    BY <1>1 DEF Moved, Sound, PoolStates
  <2> HIDE DEF c
  <2> QED
    BY <1>2, <1>4, <2>1, <2>2
<1>5. CASE AddTxAccepted(p, t, relay, ok, rules) /\ ~(p.db[t] # Absent /\ r = p.db[t])
  <2>1. s.db = [c.db EXCEPT ![t] = r]
    BY <1>1 DEF Store, Sound, PoolStates
  <2>2. Sound(s)
    <3>1. relay = "block" \/ \A k \in KeyImagesOf[t] : p.ki[k] \subseteq {t}
      BY <1>5 DEF AddTxAccepted, RefusedEarly, HaveKeyImagesAsSpent
    <3>2. relay = "block" => r = "block"
      BY <1>1, StoredRelayType
    <3> HIDE DEF c, r
    <3> QED
      BY <1>1, <1>2, <3>1, <3>2, StoreSound
  <2>3. q = s
    BY <1>5, <2>2, NoPrune DEF AddTx, AddTxAccepted
  <2>4. r # Absent
    BY <1>1 DEF RelayMethods, Absent
  <2> HIDE DEF c, s
  <2> QED
    BY <1>2, <2>1, <2>3, <2>4
<1> QED
  BY <1>3, <1>4, <1>5

LEMMA RemoveStuckSound ==
  ASSUME NEW p, Sound(p), NEW q, q = RemoveStuckTransactions(p)
  PROVE  /\ Sound(q)
         /\ q.timedOut = p.timedOut \cup StuckTxs(p)
         /\ \A t \in Txs : /\ t \in StuckTxs(p) => q.db[t] = Absent
                           /\ t \notin StuckTxs(p) => /\ q.db[t] = p.db[t]
                                                    /\ q.age[t] = p.age[t]
         /\ q.cache = p.cache
         /\ \A t \in Txs : q.failed[t] \in {NoTop, p.failed[t]}
<1> DEFINE S == StuckTxs(p)
           d == Discard(p, S)
<1>1. S \in SUBSET Txs /\ p \in PoolStates /\ p.timedOut \in SUBSET Txs
  BY DEF StuckTxs, Stored, Sound, PoolStates
<1>2. CASE S = {}
  <2>1. q = p
    BY <1>2 DEF RemoveStuckTransactions
  <2> QED
    BY <1>2, <2>1
<1>3. CASE S # {}
  <2>1. q = [d EXCEPT !.timedOut = p.timedOut \cup S]
    BY <1>3 DEF RemoveStuckTransactions
  <2>2. /\ Sound(d) /\ d \in PoolStates /\ d.cache = p.cache
        /\ \A t \in Txs : /\ t \in S => d.db[t] = Absent
                          /\ t \notin S => d.db[t] = p.db[t] /\ d.age[t] = p.age[t]
                          /\ d.failed[t] \in {NoTop, p.failed[t]}
    BY <1>1, RemoveSound, RemoveEffect DEF Sound
  <2> HIDE DEF d, S
  <2>3. /\ q \in PoolStates /\ q.db = d.db /\ q.ki = d.ki /\ q.sorted = d.sorted
        /\ q.weight = d.weight /\ q.cache = d.cache /\ q.failed = d.failed
        /\ q.age = d.age /\ q.timedOut = p.timedOut \cup S
    BY <1>1, <2>1, <2>2 DEF PoolStates
  <2>4. Sound(q)
    BY <2>2, <2>3, SameTableSound
  <2> QED
    BY <1>1, <2>2, <2>3, <2>4 DEF S
<1> QED
  BY <1>2, <1>3

-----------------------------------------------------------------------------
(* The operations that do not add or take a tx *)

LEMMA InitPoolSound ==
  ASSUME NEW p \in PoolStates, InitSucceeds(p.db)
  PROVE  LET q == InitPool(p.db, p.failed, p.age) IN
         /\ Sound(q)
         /\ q.db = p.db /\ q.failed = p.failed /\ q.age = p.age
         /\ q.timedOut = {}
         /\ \A t \in Txs : q.cache[t] = "unknown"
<1> DEFINE q == InitPool(p.db, p.failed, p.age)
<1>1. Stored(p) \in SUBSET Txs /\ Stored(q) = Stored(p)
  BY DEF Stored, InitPool
<1>2. /\ q.db = p.db /\ q.failed = p.failed /\ q.age = p.age /\ q.sorted = Stored(p)
      /\ q.weight = Weight[Stored(p)] /\ q.timedOut = {}
      /\ q.ki = [k \in KeyImages |-> {t \in Stored(p) : k \in KeyImagesOf[t]}]
      /\ \A t \in Txs : q.cache[t] = "unknown"
  BY DEF InitPool, Stored
<1>3. q \in PoolStates
  <2>1. Weight[Stored(p)] \in Nat
    BY <1>1, WeightAssumption
  <2> QED
    BY <2>1 DEF InitPool, PoolStates, Stored
<1>4. Sound(q)
  BY <1>1, <1>2, <1>3 DEF Sound, Exact
<1> QED
  BY <1>2, <1>4

LEMMA EmptyPoolSound ==
  /\ Sound(EmptyPool)
  /\ EmptyPool.timedOut = {}
  /\ \A t \in Txs : /\ EmptyPool.db[t] = Absent /\ EmptyPool.cache[t] = "unknown"
                    /\ EmptyPool.failed[t] = NoTop /\ EmptyPool.age[t] = 0
<1> DEFINE E == [db |-> [t \in Txs |-> Absent], failed |-> [t \in Txs |-> NoTop],
                 age |-> [t \in Txs |-> 0], ki |-> [k \in KeyImages |-> {}],
                 sorted |-> {}, weight |-> 0, cache |-> [t \in Txs |-> "unknown"],
                 timedOut |-> {}, moved |-> TRUE]
<1>1. E \in PoolStates /\ InitSucceeds(E.db)
  BY LimitsAssumption DEF PoolStates, InitSucceeds
<1>2. EmptyPool = InitPool(E.db, E.failed, E.age)
  BY DEF EmptyPool
<1>3. \A t \in Txs : E.db[t] = Absent /\ E.failed[t] = NoTop /\ E.age[t] = 0
  OBVIOUS
<1> HIDE DEF E
<1> QED
  BY <1>1, <1>2, <1>3, InitPoolSound

LEMMA SetRelayedSound ==
  ASSUME NEW p, Sound(p), NEW S \in SUBSET Txs,
         NEW method \in {"local", "stem", "fluff"},
         NEW q, q = SetRelayed(p, S, method)
  PROVE  /\ Sound(q)
         /\ Upward(p, q)
         /\ q.cache = p.cache /\ q.failed = p.failed /\ q.age = p.age
         /\ q.timedOut = p.timedOut
         /\ \A t \in Txs :
              /\ p.db[t] = Absent => q.db[t] = Absent
              /\ p.db[t] # Absent => q.db[t] # Absent
              /\ t \notin S => q.db[t] = p.db[t]
              /\ p.db[t] # Absent /\ t \in S => q.db[t] = Upgrade(p.db[t], method)
              /\ q.db[t] = "block" <=> p.db[t] = "block"
<1>1. p \in PoolStates /\ method \in RelayMethods /\ method # "block"
  BY DEF Sound, RelayMethods
<1>2. /\ q = [p EXCEPT !.db = q.db, !.sorted = q.sorted]
      /\ q.sorted = p.sorted \cup
           {t \in S : p.db[t] # Absent /\ ~Broadcasted(p.db[t])
                      /\ Broadcasted(Upgrade(p.db[t], method))}
      /\ q.ki = p.ki /\ q.weight = p.weight /\ q.cache = p.cache
      /\ q.failed = p.failed /\ q.timedOut = p.timedOut /\ q.age = p.age
  BY <1>1 DEF SetRelayed, PoolStates
<1>3. \A t \in Txs :
        /\ p.db[t] = Absent => q.db[t] = Absent
        /\ p.db[t] # Absent =>
             /\ q.db[t] \in {p.db[t], Upgrade(p.db[t], method)}
             /\ q.db[t] \in RelayMethods /\ q.db[t] # Absent
             /\ t \notin S => q.db[t] = p.db[t]
             /\ t \in S => q.db[t] = Upgrade(p.db[t], method)
             /\ q.db[t] = "block" <=> p.db[t] = "block"
             /\ RelayRank(q.db[t]) >= RelayRank(p.db[t])
  <2> TAKE t \in Txs
  <2>1. p.db[t] # Absent => p.db[t] \in RelayMethods
    BY <1>1 DEF PoolStates
  <2>2. q.db[t] = IF t \in S /\ p.db[t] # Absent
                  THEN Upgrade(p.db[t], method) ELSE p.db[t]
    BY <1>1 DEF SetRelayed, PoolStates
  <2>3. \A r \in RelayMethods : r # Absent
    BY DEF RelayMethods, Absent
  <2> QED
    BY <1>1, <2>1, <2>2, <2>3, UpgradeUpward
<1>4. Stored(q) = Stored(p)
  BY <1>3 DEF Stored
<1>5. q \in PoolStates
  <2>1. q.db \in [Txs -> RelayMethods \cup {Absent}]
    <3>1. q.db = [t \in Txs |-> q.db[t]]
      BY <1>1 DEF SetRelayed, PoolStates
    <3> QED
      BY <1>3, <3>1
  <2>2. q.sorted \in SUBSET Txs
    BY <1>1, <1>2 DEF PoolStates
  <2> QED
    BY <1>1, <1>2, <2>1, <2>2 DEF PoolStates
<1>6. Sound(q)
  <2>1. q.sorted = Stored(q)
    BY <1>2, <1>4 DEF Sound, Exact, Stored
  <2>2. InitSucceeds(q.db)
    BY <1>3 DEF InitSucceeds, Sound
  <2> QED
    BY <1>2, <1>4, <1>5, <2>1, <2>2 DEF Sound, Exact
<1>7. Upward(p, q)
  BY <1>3 DEF Upward
<1>8. \A t \in Txs : /\ t \notin S => q.db[t] = p.db[t]
                     /\ q.db[t] = "block" <=> p.db[t] = "block"
  BY <1>3 DEF Absent
<1> QED
  BY <1>2, <1>3, <1>6, <1>7, <1>8

-----------------------------------------------------------------------------
(* The greedy choice of a template *)

Chosen(p, ok, top, C, t) == Fits(C, t) /\ Ready(p, t, ok, top) /\ NoClash(C, t)

\* Whether a tx is chosen depends on the better ones that are in.
LEMMA ChosenByBetter ==
  ASSUME NEW p, NEW ok, NEW top, NEW C \in SUBSET Txs, NEW E \in SUBSET Txs, NEW t \in Txs,
         \A u \in Txs : FeeRank[u] < FeeRank[t] => (u \in C <=> u \in E)
  PROVE  Chosen(p, ok, top, C, t) <=> Chosen(p, ok, top, E, t)
<1>1. {u \in C : FeeRank[u] < FeeRank[t]} = {u \in E : FeeRank[u] < FeeRank[t]}
  OBVIOUS
<1>2. Fits(C, t) <=> Fits(E, t)
  BY <1>1 DEF Fits
<1>3. NoClash(C, t) <=> NoClash(E, t)
  BY DEF NoClash
<1> QED
  BY <1>2, <1>3 DEF Chosen

\* The choice exists for any set of txs: it is made for the txs before the
\* n-th, for all n, and agrees with itself.
LEMMA TemplateRight ==
  ASSUME NEW p \in PoolStates, NEW ok, NEW top
  PROVE  /\ TemplateTxs(p, ok, top) \in SUBSET TemplateCandidates(p)
         /\ \A t \in TemplateCandidates(p) :
              t \in TemplateTxs(p, ok, top) <=> Chosen(p, ok, top, TemplateTxs(p, ok, top), t)
<1> DEFINE D == TemplateCandidates(p)
           Right(C, t) == Chosen(p, ok, top, C, t)
           Solves(n, C) == /\ C \in SUBSET D
                           /\ \A t \in C : FeeRank[t] < n
                           /\ \A t \in D : FeeRank[t] < n => (t \in C <=> Right(C, t))
<1>1. D \in SUBSET Txs /\ FeeRank \in [Txs -> Nat]
  BY FeeRankAssumption DEF TemplateCandidates, PoolStates
<1> HIDE DEF D
<1>2. ASSUME NEW C \in SUBSET D, NEW E \in SUBSET D, NEW t \in D,
             \A u \in D : FeeRank[u] < FeeRank[t] => (u \in C <=> u \in E)
      PROVE  Right(C, t) <=> Right(E, t)
  BY <1>1, <1>2, ChosenByBetter
<1> HIDE DEF Right
<1>3. \A n \in Nat : \E C : Solves(n, C)
  <2> DEFINE S == {n \in Nat : ~\E C : Solves(n, C)}
  <2> SUFFICES ASSUME S # {} PROVE FALSE
    OBVIOUS
  <2>1. PICK n \in S : \A m \in S : n <= m
    <3>1. S \in SUBSET Nat
      OBVIOUS
    <3> HIDE DEF S
    <3> QED
      BY <3>1, LeastNat
  <2>2. CASE n = 0
    <3>1. \A t \in D : ~(FeeRank[t] < 0)
      BY <1>1
    <3>2. Solves(0, {})
      BY <3>1
    <3> QED
      BY <2>1, <2>2, <3>2
  <2>3. CASE n # 0
    <3>1. n - 1 \in Nat /\ n \in Nat /\ n - 1 < n
      BY <2>1, <2>3
    <3>2. \E C : Solves(n - 1, C)
      BY <2>1, <3>1
    <3> HIDE DEF Solves
    <3>3. PICK C : Solves(n - 1, C)
      BY <3>2
    <3> USE DEF Solves
    <3> DEFINE E == C \cup {t \in D : FeeRank[t] = n - 1 /\ Right(C, t)}
    <3>4. E \in SUBSET D /\ C \in SUBSET D
      BY <3>3
    <3>5. \A t \in E : FeeRank[t] < n
      BY <1>1, <3>1, <3>3, <3>4
    <3>6. ASSUME NEW t \in D, FeeRank[t] < n
          PROVE  t \in E <=> Right(E, t)
      <4>1. FeeRank[t] \in Nat
        BY <1>1
      <4>2. \A u \in D : FeeRank[u] < FeeRank[t] => (u \in C <=> u \in E)
        BY <1>1, <3>1, <3>6, <4>1
      <4>3. Right(C, t) <=> Right(E, t)
        <5> HIDE DEF E
        <5> QED
          BY <1>2, <3>4, <4>2
      <4>4. CASE FeeRank[t] = n - 1
        <5>1. t \notin C
          BY <1>1, <3>1, <3>3, <4>4
        <5> QED
          BY <4>3, <4>4, <5>1
      <4>5. CASE FeeRank[t] < n - 1
        BY <3>1, <3>3, <4>1, <4>3, <4>5
      <4> QED
        BY <3>1, <3>6, <4>1, <4>4, <4>5
    <3>7. Solves(n, E)
      <4> HIDE DEF E
      <4> QED
        BY <3>4, <3>5, <3>6
    <3> HIDE DEF Solves, E
    <3>8. \E B : Solves(n, B)
      BY <3>7
    <3> QED
      BY <2>1, <3>8
  <2> QED
    BY <2>2, <2>3
<1>4. ASSUME NEW n \in Nat, NEW m \in Nat, NEW C, NEW E, Solves(n, C), Solves(m, E),
             NEW t \in D, FeeRank[t] < n, FeeRank[t] < m
      PROVE  t \in C <=> t \in E
  <2> DEFINE S == {FeeRank[u] : u \in {v \in D : /\ FeeRank[v] < n /\ FeeRank[v] < m
                                              /\ ~(v \in C <=> v \in E)}}
  <2> SUFFICES ASSUME S # {} PROVE FALSE
    BY <1>4
  <2>1. PICK r \in S : \A q \in S : r <= q
    <3>1. S \in SUBSET Nat
      BY <1>1
    <3> HIDE DEF S
    <3> QED
      BY <3>1, LeastNat
  <2>2. PICK u \in D : /\ FeeRank[u] = r /\ FeeRank[u] < n /\ FeeRank[u] < m
                       /\ ~(u \in C <=> u \in E)
    BY <2>1
  <2>3. \A v \in D : FeeRank[v] < FeeRank[u] => (v \in C <=> v \in E)
    <3> SUFFICES ASSUME NEW v \in D, FeeRank[v] < FeeRank[u], ~(v \in C <=> v \in E)
                 PROVE  FALSE
      OBVIOUS
    <3>1. FeeRank[v] \in Nat /\ FeeRank[u] \in Nat
      BY <1>1
    <3>2. FeeRank[v] \in S
      BY <2>2, <3>1
    <3> QED
      BY <2>1, <2>2, <3>1, <3>2
  <2>4. Right(C, u) <=> Right(E, u)
    BY <1>2, <1>4, <2>2, <2>3
  <2> QED
    BY <1>4, <2>2, <2>4
<1> DEFINE First(n) == CHOOSE C : Solves(n, C)
           All == {t \in D : t \in First(FeeRank[t] + 1)}
<1>5. \A n \in Nat : Solves(n, First(n))
  <2> HIDE DEF Solves
  <2> QED
    BY <1>3
<1> HIDE DEF First
<1>6. ASSUME NEW t \in D
      PROVE  t \in All <=> Right(All, t)
  <2> DEFINE n == FeeRank[t] + 1
             C == First(n)
  <2>1. FeeRank[t] \in Nat /\ n \in Nat /\ FeeRank[t] < n
    BY <1>1
  <2>2. Solves(n, C)
    BY <1>5, <2>1
  <2>3. ASSUME NEW u \in D, FeeRank[u] < FeeRank[t]
        PROVE  u \in All <=> u \in C
    <3>1. /\ FeeRank[u] \in Nat /\ FeeRank[u] + 1 \in Nat /\ FeeRank[u] < FeeRank[u] + 1
          /\ FeeRank[u] < n
      BY <1>1, <2>1, <2>3
    <3>2. Solves(FeeRank[u] + 1, First(FeeRank[u] + 1))
      BY <1>5, <3>1
    <3> HIDE DEF Solves, n
    <3>3. u \in First(FeeRank[u] + 1) <=> u \in C
      BY <1>4, <2>1, <2>2, <3>1, <3>2
    <3> QED
      BY <3>3
  <2>4. Right(All, t) <=> Right(C, t)
    <3>1. All \in SUBSET D /\ C \in SUBSET D
      BY <2>2
    <3> HIDE DEF All, C
    <3> QED
      BY <1>2, <2>3, <3>1
  <2>5. t \in C <=> Right(C, t)
    BY <2>1, <2>2
  <2> QED
    BY <2>4, <2>5
<1>7. \E C \in SUBSET D : \A t \in D : t \in C <=> Right(C, t)
  <2>1. All \in SUBSET D
    OBVIOUS
  <2> HIDE DEF All
  <2> QED
    BY <1>6, <2>1
<1>8. TemplateTxs(p, ok, top) = CHOOSE C \in SUBSET D : \A t \in D : t \in C <=> Right(C, t)
  BY DEF TemplateTxs, Chosen, D, Right
<1>9. /\ TemplateTxs(p, ok, top) \in SUBSET D
      /\ \A t \in D : t \in TemplateTxs(p, ok, top) <=> Right(TemplateTxs(p, ok, top), t)
  BY <1>7, <1>8
<1> QED
  BY <1>9 DEF D, Right

\* No two txs of a template spend the same image, and all are ready.
LEMMA TemplateApart ==
  ASSUME NEW p \in PoolStates, NEW ok, NEW top
  PROVE  /\ \A t \in TemplateTxs(p, ok, top) :
              t \in Txs /\ t \in p.sorted /\ Ready(p, t, ok, top)
         /\ \A t, u \in TemplateTxs(p, ok, top) :
              t # u => KeyImagesOf[t] \cap KeyImagesOf[u] = {}
<1> DEFINE C == TemplateTxs(p, ok, top)
<1>1. C \in SUBSET TemplateCandidates(p) /\ \A t \in C : Chosen(p, ok, top, C, t)
  BY TemplateRight
<1> HIDE DEF C
<1>2. \A t \in C : t \in Txs /\ t \in p.sorted
  BY <1>1 DEF TemplateCandidates, PoolStates
<1>3. ASSUME NEW t \in C, NEW u \in C, t # u
      PROVE  KeyImagesOf[t] \cap KeyImagesOf[u] = {}
  <2>1. FeeRank[t] \in Nat /\ FeeRank[u] \in Nat /\ FeeRank[t] # FeeRank[u]
    BY <1>2, <1>3, FeeRankAssumption
  <2>2. NoClash(C, t) /\ NoClash(C, u)
    BY <1>1 DEF Chosen
  <2> QED
    BY <2>1, <2>2 DEF NoClash
<1>4. \A t \in C : Ready(p, t, ok, top)
  BY <1>1 DEF Chosen
<1> QED
  BY <1>2, <1>3, <1>4 DEF C

-----------------------------------------------------------------------------
(* The types alone, of a pool whose indexes may disagree with its table, as   *)
(* they do after a batch of the chain was aborted.                            *)

LEMMA DiscardType ==
  ASSUME NEW p \in PoolStates, NEW S \in SUBSET Txs
  PROVE  Discard(p, S) \in PoolStates
<1>1. S \cap Stored(p) \in SUBSET Txs
  OBVIOUS
<1>2. Weight[S \cap Stored(p)] \in Nat /\ p.weight \in Nat
  BY <1>1, WeightAssumption DEF PoolStates
<1>3. ReduceWeight(p.weight, Weight[S \cap Stored(p)]) \in Nat
  BY <1>2 DEF ReduceWeight
<1>4. RemoveKeyImages(p, S) \in [KeyImages -> SUBSET Txs] /\ 0 \in 0 .. MaxAge
  BY LimitsAssumption DEF RemoveKeyImages, PoolStates
<1> QED
  BY <1>3, <1>4 DEF Discard, PoolStates

LEMMA PruneType ==
  ASSUME NEW p \in PoolStates
  PROVE  Prune(p) \in PoolStates
<1>1. PrunedTxs(p) \in SUBSET Txs
  BY DEF PrunedTxs, Prunable, PoolStates
<1> QED
  BY <1>1, DiscardType DEF Prune

LEMMA AddTxType ==
  ASSUME NEW p \in PoolStates, NEW t \in Txs, NEW relay \in RelayMethods,
         NEW ok, NEW rules
  PROVE  AddTx(p, t, relay, ok, rules) \in PoolStates
<1> DEFINE q == CacheVerdict(p, t, relay, ok)
           r == StoredRelay(p, t, relay)
<1>1. Verdict(p, t, ok) \in {"unknown", "good", "bad"}
  BY DEF Verdict, PoolStates
<1>2. q \in PoolStates /\ Moved(q) \in PoolStates
  BY <1>1 DEF CacheVerdict, Moved, PoolStates
<1>3. r \in RelayMethods
  BY StoredRelayType
<1> HIDE DEF q, r
<1>4. Store(q, t, r) \in PoolStates
  BY <1>2, <1>3, StoreType
<1> QED
  BY <1>2, <1>4, PruneType DEF AddTx, q, r

LEMMA TakeTxType ==
  ASSUME NEW p \in PoolStates, NEW t \in Txs
  PROVE  TakeTx(p, t) \in PoolStates
BY DiscardType DEF TakeTx

LEMMA ChangeType ==
  ASSUME NEW p \in PoolStates
  PROVE  OnBlockchainChange(p) \in PoolStates
BY DEF OnBlockchainChange, PoolStates

LEMMA InitPoolType ==
  ASSUME NEW db \in [Txs -> RelayMethods \cup {Absent}],
         NEW failed \in [Txs -> Tops \cup {NoTop}], NEW age \in [Txs -> 0 .. MaxAge]
  PROVE  InitPool(db, failed, age) \in PoolStates
<1> DEFINE S == {t \in Txs : db[t] # Absent}
<1>1. S \in SUBSET Txs
  OBVIOUS
<1> HIDE DEF S
<1>2. Weight[S] \in Nat
  BY <1>1, WeightAssumption
<1> QED
  BY <1>1, <1>2 DEF InitPool, PoolStates, S

LEMMA FillType ==
  ASSUME NEW p \in PoolStates, NEW ok, NEW top \in Tops
  PROVE  /\ FillBlockTemplate(p, ok, top) \in PoolStates
         /\ TemplateTxs(p, ok, top) \in SUBSET Txs
<1>1. TemplateTxs(p, ok, top) \in SUBSET Txs
  BY TemplateApart
<1>2. \A t \in Txs : Verdict(p, t, ok) \in {"unknown", "good", "bad"}
  BY DEF Verdict, PoolStates
<1> HIDE DEF TemplateTxs
<1>3. FillBlockTemplate(p, ok, top) \in PoolStates
  <2> DEFINE checked == {t \in TemplateCandidates(p) :
                           Fits(TemplateTxs(p, ok, top), t) /\ p.failed[t] # top}
             cache == [t \in Txs |-> IF t \in checked THEN Verdict(p, t, ok) ELSE p.cache[t]]
             failed == [t \in Txs |-> IF t \in checked /\ Verdict(p, t, ok) = "bad"
                                      THEN top ELSE p.failed[t]]
  <2>1. FillBlockTemplate(p, ok, top) = [p EXCEPT !.cache = cache, !.failed = failed]
    BY DEF FillBlockTemplate
  <2> HIDE DEF checked
  <2>2. cache \in [Txs -> {"unknown", "good", "bad"}] /\ failed \in [Txs -> Tops \cup {NoTop}]
    BY <1>2 DEF PoolStates
  <2> HIDE DEF cache, failed
  <2> QED
    BY <2>1, <2>2 DEF PoolStates
<1> QED
  BY <1>1, <1>3

-----------------------------------------------------------------------------
(* What the callers of the pool's operations count on *)

LEMMA PruneMoved ==
  ASSUME NEW p \in PoolStates, p.moved
  PROVE  Prune(p).moved
BY DEF Prune, Discard, PoolStates

\* A cached template is given up when add_tx changes the table.
LEMMA AddTxMoved ==
  ASSUME NEW p, Sound(p), NEW t \in Txs, NEW relay \in RelayMethods,
         NEW ok, NEW rules, NEW q, q = AddTx(p, t, relay, ok, rules), ~q.moved
  PROVE  ~p.moved /\ q.db = p.db
<1> DEFINE c == CacheVerdict(p, t, relay, ok)
           r == StoredRelay(p, t, relay)
<1>1. Sound(c) /\ Sound(Moved(c)) /\ p \in PoolStates /\ r \in RelayMethods
  BY CacheVerdictSound, StoredRelayType DEF Sound
<1>2. c.db = p.db /\ c.moved = p.moved /\ c \in PoolStates /\ Moved(c) \in PoolStates
  BY <1>1 DEF CacheVerdict, Sound, PoolStates
<1>3. \/ q = p \/ q = c
      \/ q = Prune(Moved(c)) \/ q = Prune(Store(c, t, r))
  BY DEF AddTx
<1> HIDE DEF c, r
<1>4. Store(c, t, r) \in PoolStates
  BY <1>1, <1>2, StoreType
<1>5. Moved(c).moved /\ Store(c, t, r).moved
  BY <1>2 DEF Moved, Store, PoolStates
<1>6. Prune(Moved(c)).moved /\ Prune(Store(c, t, r)).moved
  BY <1>2, <1>4, <1>5, PruneMoved
<1> QED
  BY <1>2, <1>3, <1>6

\* A tx that comes from a block is in the pool afterwards, if there is room.
LEMMA BlockTxStored ==
  ASSUME NEW p, Sound(p), NEW t \in Txs, NEW ok, Weight[Txs] <= MaxWeight,
         NEW q, q = AddTx(p, t, "block", ok, Txs)
  PROVE  q.db[t] # Absent
<1>1. "block" \in RelayMethods /\ "block" # Absent
  BY DEF RelayMethods, Absent
<1>2. p.db[t] # Absent => q.db[t] # Absent
  BY <1>1, AddTxUnpruned
<1>3. CASE p.db[t] = Absent
  <2>1. \A k \in KeyImagesOf[t] : t \notin p.ki[k]
    BY <1>3, KeyImagesAssumption DEF Sound, Exact, Stored
  <2>2. CanInsertKeyImages(p, t, "block") /\ StoredRelay(p, t, "block") = "block"
    BY <1>3, <2>1 DEF CanInsertKeyImages, StoredRelay
  <2>3. AddTxAccepted(p, t, "block", ok, Txs)
    BY <1>3, <2>2 DEF AddTxAccepted, RefusedEarly
  <2>4. q.db[t] = StoredRelay(p, t, "block")
    BY <1>1, <2>3, AddTxUnpruned
  <2> QED
    BY <1>1, <2>2, <2>4
<1> QED
  BY <1>2, <1>3

LEMMA TakeTxEffect ==
  ASSUME NEW p \in PoolStates, NEW t \in Txs, NEW q, q = TakeTx(p, t)
  PROVE  /\ q.cache = p.cache
         /\ \A u \in Txs : /\ q.failed[u] \in {NoTop, p.failed[u]}
                            /\ q.db[u] \in {Absent, p.db[u]}
         /\ Stored(q) = Stored(p) \ {t}
         /\ q.moved \/ q = p
<1>1. CASE p.db[t] = Absent
  BY <1>1 DEF TakeTx, Stored
<1>2. CASE p.db[t] # Absent
  <2>1. q = Discard(p, {t}) /\ {t} \in SUBSET Txs
    BY <1>2 DEF TakeTx
  <2>2. /\ q.cache = p.cache
        /\ \A u \in Txs : /\ u = t => q.db[u] = Absent
                          /\ u # t => q.db[u] = p.db[u]
                          /\ q.failed[u] \in {NoTop, p.failed[u]}
    BY <2>1, RemoveEffect
  <2>3. q.moved
    BY <2>1 DEF Discard, PoolStates
  <2> QED
    BY <2>2, <2>3 DEF Stored
<1> QED
  BY <1>1, <1>2

\* Filling a template notes verdicts and touches no index.
LEMMA FillEffect ==
  ASSUME NEW p, Sound(p), NEW ok, NEW top \in Tops,
         NEW q, q = FillBlockTemplate(p, ok, top)
  PROVE  /\ q \in PoolStates /\ Sound(q) /\ q.db = p.db /\ q.moved = p.moved
         /\ \A t \in Txs :
              /\ q.cache[t] \in {p.cache[t], Verdict(p, t, ok)}
              /\ \/ q.failed[t] = p.failed[t]
                 \/ q.failed[t] = top /\ Verdict(p, t, ok) = "bad"
<1> DEFINE checked == {t \in TemplateCandidates(p) :
                         Fits(TemplateTxs(p, ok, top), t) /\ p.failed[t] # top}
           cache == [t \in Txs |-> IF t \in checked THEN Verdict(p, t, ok) ELSE p.cache[t]]
           failed == [t \in Txs |-> IF t \in checked /\ Verdict(p, t, ok) = "bad"
                                    THEN top ELSE p.failed[t]]
<1>1. p \in PoolStates
  BY DEF Sound
<1>2. q \in PoolStates
  BY <1>1, FillType
<1>3. q = [p EXCEPT !.cache = cache, !.failed = failed]
  BY DEF FillBlockTemplate
<1> HIDE DEF checked
<1>4. \A t \in Txs : /\ cache[t] \in {p.cache[t], Verdict(p, t, ok)}
                     /\ \/ failed[t] = p.failed[t]
                        \/ failed[t] = top /\ Verdict(p, t, ok) = "bad"
  OBVIOUS
<1> HIDE DEF cache, failed
<1>5. /\ q.db = p.db /\ q.ki = p.ki /\ q.sorted = p.sorted /\ q.weight = p.weight
      /\ q.moved = p.moved /\ q.cache = cache /\ q.failed = failed
  BY <1>1, <1>3 DEF PoolStates
<1>6. Sound(q)
  BY <1>2, <1>5, SameTableSound
<1> QED
  BY <1>2, <1>4, <1>5, <1>6
=============================================================================
