---------------------------- MODULE TxPoolProofs ----------------------------
(***************************************************************************)
(* Proofs about TxPool, for any txs, key images, weights, fee order, chain *)
(* and rule sets.                                                          *)
(***************************************************************************)
EXTENDS TxPool, TxPoolOpsProofs

-----------------------------------------------------------------------------
(* The inductive invariant *)

\* VerdictsFresh is not inductive: a top can come back after a reorg, so the
\* failure noted on a tx has to be true of the top it names, whichever top
\* is current.
Truthful(p) ==
  /\ \A t \in Txs : /\ p.cache[t] = "good" => t \in Ok
                    /\ p.cache[t] = "bad" => t \notin Ok
  /\ \A t \in Txs, x \in Tops : p.failed[t] = x => t \notin OkOn[x]

Parked(p) == \A t \in p.timedOut : p.db[t] \in {Absent, "block"}

Inv(p) == Sound(p) /\ Truthful(p) /\ Parked(p)

IInv ==
  /\ TypeOK
  /\ Inv(pool)

LEMMA RemoveKeeps ==
  ASSUME NEW p, Inv(p), NEW S \in SUBSET Txs
  PROVE  Inv(Discard(p, S)) /\ Upward(p, Discard(p, S))
<1>1. p \in PoolStates /\ Sound(Discard(p, S))
  BY RemoveSound DEF Inv, Sound
<1>2. Truthful(Discard(p, S))
  BY <1>1, RemoveEffect, TopsAssumption DEF Inv, Truthful
<1>3. Parked(Discard(p, S))
  BY <1>1, RemoveEffect DEF Inv, Parked, PoolStates
<1>4. Upward(p, Discard(p, S))
  <2>1. \A t \in Txs : Discard(p, S).db[t] \in {Absent, p.db[t]}
    BY <1>1, RemoveEffect
  <2> QED
    BY <1>1, <2>1, ShrinkUpward
<1> QED
  BY <1>1, <1>2, <1>3, <1>4 DEF Inv

LEMMA AddTxKeeps ==
  ASSUME NEW p, Inv(p), NEW t \in Txs, NEW relay \in RelayMethods, NEW rules
  PROVE  /\ Inv(AddTx(p, t, relay, Ok, rules))
         /\ Upward(p, AddTx(p, t, relay, Ok, rules))
<1> DEFINE q == AddTx(p, t, relay, Ok, rules)
<1>1. /\ Sound(p) /\ p \in PoolStates /\ Sound(q) /\ q \in PoolStates
      /\ StoredRelay(p, t, relay) \in RelayMethods
      /\ relay = "block" => StoredRelay(p, t, relay) = "block"
  BY AddTxSound, StoredRelayType DEF Inv, Sound
<1>2. /\ RefusedEarly(p, t, relay, rules) => q = p
      /\ q.timedOut = p.timedOut
      /\ q.db[t] \in {Absent, p.db[t], StoredRelay(p, t, relay)}
      /\ \A u \in Txs \ {t} : q.db[u] \in {Absent, p.db[u]}
      /\ \A u \in Txs : /\ q.cache[u] \in {p.cache[u], Verdict(p, u, Ok)}
                        /\ q.failed[u] \in {NoTop, p.failed[u]}
  BY <1>1, AddTxEffect
<1>3. Truthful(q)
  <2>1. \A u \in Txs : /\ Verdict(p, u, Ok) = "good" => u \in Ok
                       /\ Verdict(p, u, Ok) = "bad" => u \notin Ok
    BY DEF Inv, Truthful, Verdict
  <2> HIDE DEF q
  <2> QED
    BY <1>2, <2>1, TopsAssumption DEF Inv, Truthful
<1>4. Parked(q)
  <2>1. CASE t \in p.timedOut /\ relay # "block"
    BY <2>1, <1>2 DEF RefusedEarly, Inv
  <2>2. CASE t \notin p.timedOut \/ relay = "block"
    <3> HIDE DEF q
    <3> QED
      BY <2>2, <1>1, <1>2 DEF Inv, Parked, PoolStates
  <2> QED
    BY <2>1, <2>2
<1>5. Upward(p, q)
  <2> SUFFICES ASSUME NEW u \in Txs, p.db[u] # Absent, q.db[u] # Absent
               PROVE  RelayRank(q.db[u]) >= RelayRank(p.db[u])
    BY DEF Upward
  <2>1. p.db[u] \in RelayMethods
    BY <1>1 DEF PoolStates
  <2>2. CASE q.db[u] = p.db[u]
    BY <2>1, <2>2, UpgradeUpward
  <2>3. CASE q.db[u] # p.db[u]
    <3>1. u = t /\ q.db[u] = StoredRelay(p, t, relay)
      BY <1>2, <2>3
    <3>2. PICK new \in RelayMethods :
            StoredRelay(p, t, relay) = Upgrade(p.db[t], new)
      BY <3>1 DEF StoredRelay, RelayMethods
    <3> QED
      BY <2>1, <3>1, <3>2, UpgradeUpward
  <2> QED
    BY <2>2, <2>3
<1> QED
  BY <1>1, <1>3, <1>4, <1>5 DEF Inv

LEMMA TakeTxKeeps ==
  ASSUME NEW p, Inv(p), NEW t \in Txs
  PROVE  Inv(TakeTx(p, t)) /\ Upward(p, TakeTx(p, t))
<1>1. Upward(p, p)
  BY ShrinkUpward DEF Inv, Sound
<1>2. {t} \in SUBSET Txs
  OBVIOUS
<1> QED
  BY <1>1, <1>2, RemoveKeeps DEF TakeTx

-----------------------------------------------------------------------------
(* The operations that do not add or take a tx *)

LEMMA RestartKeeps ==
  ASSUME NEW p, Inv(p)
  PROVE  /\ Inv(InitPool(p.db, p.failed, p.age))
         /\ Upward(p, InitPool(p.db, p.failed, p.age))
<1> DEFINE q == InitPool(p.db, p.failed, p.age)
<1>1. p \in PoolStates /\ InitSucceeds(p.db)
  BY DEF Inv, Sound
<1>2. /\ Sound(q)
      /\ q.db = p.db /\ q.failed = p.failed /\ q.timedOut = {}
      /\ \A t \in Txs : q.cache[t] = "unknown"
  BY <1>1, InitPoolSound
<1> HIDE DEF q
<1>3. Truthful(q) /\ Parked(q)
  BY <1>2 DEF Inv, Truthful, Parked
<1>4. Upward(p, q)
  BY <1>1, <1>2, ShrinkUpward
<1>5. Inv(q) /\ Upward(p, q)
  BY <1>2, <1>3, <1>4 DEF Inv
<1> QED
  BY <1>5 DEF q

LEMMA SetRelayedKeeps ==
  ASSUME NEW p, Inv(p), NEW S \in SUBSET Txs,
         NEW method \in {"local", "stem", "fluff"},
         NEW q, q = SetRelayed(p, S, method)
  PROVE  Inv(q) /\ Upward(p, q)
<1>1. p \in PoolStates
  BY DEF Inv, Sound
<1>2. /\ Sound(q) /\ Upward(p, q)
      /\ q.cache = p.cache /\ q.failed = p.failed /\ q.timedOut = p.timedOut
      /\ \A t \in Txs : /\ p.db[t] = Absent => q.db[t] = Absent
                        /\ q.db[t] = "block" <=> p.db[t] = "block"
  BY SetRelayedSound DEF Inv
<1>3. Truthful(q)
  BY <1>2 DEF Inv, Truthful
<1>4. Parked(q)
  BY <1>1, <1>2 DEF Inv, Parked, PoolStates
<1> QED
  BY <1>2, <1>3, <1>4 DEF Inv

-----------------------------------------------------------------------------
(* Every step preserves the invariant and moves relay methods up only *)

LEMMA InitIInv == Init => IInv
<1> SUFFICES ASSUME Init PROVE IInv
  OBVIOUS
<1>1. pool = EmptyPool
  BY DEF Init
<1>2. Truthful(pool) /\ Parked(pool)
  BY <1>1, EmptyPoolSound, TopsAssumption DEF Truthful, Parked
<1>3. Inv(pool)
  BY <1>1, <1>2, EmptyPoolSound DEF Inv
<1> QED
  BY <1>3, ChainAssumption DEF IInv, TypeOK, Init, Inv, Sound

\* A step of the pool under an unchanged chain and version.
LEMMA PoolStepKeeps ==
  ASSUME IInv, NEW p, Inv(p) /\ Upward(pool, p), PoolStep(p)
  PROVE  IInv' /\ Upward(pool, pool')
<1>1. pool' = p /\ top' = top /\ conform' = conform /\ pending' = pending
  BY DEF PoolStep
<1>2. Inv(pool)'
  BY <1>1 DEF Inv, Truthful, Parked, Ok
<1> QED
  BY <1>1, <1>2 DEF IInv, TypeOK, Inv, Sound

\* Changing what no index depends on: ages, verdicts, recorded failures.
LEMMA SideKeeps ==
  ASSUME NEW p, Inv(p), NEW q \in PoolStates,
         q.db = p.db, q.ki = p.ki, q.sorted = p.sorted, q.weight = p.weight,
         q.timedOut = p.timedOut, Truthful(q)
  PROVE  Inv(q) /\ Upward(p, q)
<1>1. Sound(q)
  BY SameTableSound DEF Inv
<1>2. Parked(q)
  BY DEF Parked, Inv
<1>3. Upward(p, q)
  BY ShrinkUpward DEF Inv, Sound
<1> QED
  BY <1>1, <1>2, <1>3 DEF Inv

LEMMA AddSteps ==
  ASSUME IInv, NEW t \in Txs,
         (\E relay \in IncomingRelays : IncomingTx(t, relay)) \/ AddBlockTx(t)
  PROVE  IInv' /\ Upward(pool, pool')
<1>1. Inv(pool)
  BY DEF IInv
<1>2. CASE \E relay \in IncomingRelays : IncomingTx(t, relay)
  <2>1. PICK relay \in IncomingRelays : IncomingTx(t, relay)
    BY <1>2
  <2>2. relay \in RelayMethods
    BY ChainAssumption
  <2> QED
    BY <1>1, <2>1, <2>2, AddTxKeeps, PoolStepKeeps DEF IncomingTx
<1>3. CASE AddBlockTx(t)
  <2>1. "block" \in RelayMethods
    BY DEF RelayMethods
  <2> QED
    BY <1>1, <1>3, <2>1, AddTxKeeps, PoolStepKeeps DEF AddBlockTx
<1> QED
  BY <1>2, <1>3

LEMMA TakeStep ==
  ASSUME IInv, NEW t \in Txs, TakeOne(t)
  PROVE  IInv' /\ Upward(pool, pool')
BY TakeTxKeeps, PoolStepKeeps DEF TakeOne, IInv

LEMMA RelayedStep ==
  ASSUME IInv, NEW S \in SUBSET Txs, NEW method \in {"local", "stem", "fluff"},
         Relayed(S, method)
  PROVE  IInv' /\ Upward(pool, pool')
BY SetRelayedKeeps, PoolStepKeeps DEF Relayed, IInv

LEMMA RemoveStuckStep ==
  ASSUME IInv, RemoveStuck
  PROVE  IInv' /\ Upward(pool, pool')
<1> DEFINE S == StuckTxs(pool)
           q == Discard(pool, S)
           r == [q EXCEPT !.timedOut = pool.timedOut \cup S]
<1>1. S \in SUBSET Txs /\ Inv(pool) /\ pool \in PoolStates
  BY DEF StuckTxs, Stored, IInv, Inv, Sound
<1>2. Inv(q) /\ Upward(pool, q) /\ q \in PoolStates
  BY <1>1, RemoveKeeps DEF Inv, Sound
<1>3. /\ q.timedOut = pool.timedOut
      /\ \A t \in Txs : /\ t \in S => q.db[t] = Absent
                        /\ t \notin S => q.db[t] = pool.db[t]
  BY <1>1, RemoveEffect
<1>4. pool.timedOut \in SUBSET Txs
  BY <1>1 DEF PoolStates
<1> HIDE DEF S, q
<1>5. /\ r \in PoolStates /\ r.db = q.db /\ r.ki = q.ki /\ r.sorted = q.sorted
      /\ r.weight = q.weight /\ r.cache = q.cache /\ r.failed = q.failed
      /\ r.timedOut = pool.timedOut \cup S
  BY <1>1, <1>2, <1>4 DEF PoolStates
<1>6. Sound(r)
  BY <1>2, <1>5, SameTableSound DEF Inv
<1>7. Truthful(r)
  BY <1>2, <1>5 DEF Inv, Truthful
<1>8. Parked(r)
  BY <1>1, <1>3, <1>4, <1>5 DEF Inv, Parked
<1>9. Upward(pool, r)
  BY <1>2, <1>5 DEF Upward
<1>10. PoolStep(r)
  BY DEF RemoveStuck, RemoveStuckTransactions, S, q
<1> QED
  BY <1>6, <1>7, <1>8, <1>9, <1>10, PoolStepKeeps DEF Inv

LEMMA TickStep ==
  ASSUME IInv, Tick
  PROVE  IInv' /\ Upward(pool, pool')
<1> DEFINE q == [pool EXCEPT !.age = [t \in Txs |->
                   IF t \in Stored(pool) /\ pool.age[t] < MaxAge
                   THEN pool.age[t] + 1 ELSE pool.age[t]]]
<1>1. Inv(pool) /\ pool \in PoolStates
  BY DEF IInv, Inv, Sound
<1>2. \A t \in Txs : pool.age[t] < MaxAge => pool.age[t] + 1 \in 0..MaxAge
  BY <1>1, LimitsAssumption DEF PoolStates
<1>3. /\ q \in PoolStates /\ q.db = pool.db /\ q.ki = pool.ki
      /\ q.sorted = pool.sorted /\ q.weight = pool.weight
      /\ q.timedOut = pool.timedOut /\ q.cache = pool.cache /\ q.failed = pool.failed
  BY <1>1, <1>2 DEF PoolStates
<1>4. PoolStep(q)
  BY DEF Tick
<1> HIDE DEF q
<1>5. Truthful(q)
  BY <1>1, <1>3 DEF Inv, Truthful
<1>6. Inv(q) /\ Upward(pool, q)
  BY <1>1, <1>3, <1>5, SideKeeps
<1> QED
  BY <1>4, <1>6, PoolStepKeeps

LEMMA RestartStep ==
  ASSUME IInv, Restart
  PROVE  IInv' /\ Upward(pool, pool')
BY RestartKeeps, PoolStepKeeps DEF Restart, IInv

\* The one step that moves the top: cached verdicts go, recorded failures
\* stay and are true of the tops they name.
LEMMA ChainChangeStep ==
  ASSUME IInv, NEW newTop \in Tops, ChainChange(newTop)
  PROVE  IInv' /\ Upward(pool, pool')
<1>1. Inv(pool) /\ pool \in PoolStates
  BY DEF IInv, Inv, Sound
<1>2. /\ pool' \in PoolStates /\ pool'.db = pool.db /\ pool'.ki = pool.ki
      /\ pool'.sorted = pool.sorted /\ pool'.weight = pool.weight
      /\ pool'.timedOut = pool.timedOut /\ pool'.failed = pool.failed
      /\ \A t \in Txs : pool'.cache[t] = "unknown"
  BY <1>1 DEF ChainChange, OnBlockchainChange, PoolStates
<1>3. Truthful(pool)'
  BY <1>1, <1>2 DEF Inv, Truthful
<1>4. Sound(pool')
  BY <1>1, <1>2, SameTableSound DEF Inv
<1>5. Parked(pool') /\ Upward(pool, pool')
  BY <1>1, <1>2, ShrinkUpward DEF Inv, Parked
<1> QED
  BY <1>1, <1>3, <1>4, <1>5 DEF IInv, TypeOK, Inv, Sound, ChainChange

LEMMA FillTemplateStep ==
  ASSUME IInv, FillTemplate
  PROVE  IInv' /\ Upward(pool, pool')
<1>1. Inv(pool) /\ pool \in PoolStates /\ top \in Tops
  BY DEF IInv, Inv, Sound, TypeOK
<1>2. \A t \in Txs : /\ Verdict(pool, t, Ok) \in {"unknown", "good", "bad"}
                     /\ Verdict(pool, t, Ok) = "good" => t \in Ok
                     /\ Verdict(pool, t, Ok) = "bad" => t \notin Ok
  BY <1>1 DEF Inv, Truthful, Verdict, PoolStates
<1>3. PICK checked :
        pool' = [pool EXCEPT
          !.cache  = [t \in Txs |-> IF t \in checked THEN Verdict(pool, t, Ok)
                                    ELSE pool.cache[t]],
          !.failed = [t \in Txs |-> IF t \in checked /\ Verdict(pool, t, Ok) = "bad"
                                    THEN top ELSE pool.failed[t]]]
  BY DEF FillTemplate, FillBlockTemplate
<1>4. /\ pool'.db = pool.db /\ pool'.ki = pool.ki /\ pool'.sorted = pool.sorted
      /\ pool'.weight = pool.weight /\ pool'.timedOut = pool.timedOut
      /\ \A t \in Txs :
           /\ pool'.cache[t] \in {pool.cache[t], Verdict(pool, t, Ok)}
           /\ pool'.failed[t] # pool.failed[t] =>
                pool'.failed[t] = top /\ Verdict(pool, t, Ok) = "bad"
  BY <1>1, <1>3 DEF PoolStates
<1>5. pool' \in PoolStates
  BY <1>1, <1>2, <1>3 DEF PoolStates
<1>6. Truthful(pool')
  BY <1>1, <1>2, <1>4 DEF Inv, Truthful, Ok
<1>7. Inv(pool') /\ Upward(pool, pool')
  BY <1>1, <1>4, <1>5, <1>6, SideKeeps
<1>8. top' = top /\ conform' = conform /\ pending' = pending
  BY DEF FillTemplate
<1> QED
  BY <1>5, <1>7, <1>8 DEF IInv, TypeOK, Inv, Truthful, Ok

LEMMA StartValidateStep ==
  ASSUME IInv, NEW rules \in RuleSets, StartValidate(rules)
  PROVE  IInv' /\ Upward(pool, pool')
<1>1. pool' = pool /\ top' = top /\ conform' \in SUBSET Txs /\ pending' \in SUBSET Txs
  BY ChainAssumption DEF StartValidate, Stored
<1>2. Upward(pool, pool)
  BY ShrinkUpward DEF IInv, Inv, Sound
<1> QED
  BY <1>1, <1>2 DEF IInv, TypeOK, Inv, Truthful, Ok

\* validate takes a tx out and adds it again under the method it had.
LEMMA RevalidateStep ==
  ASSUME IInv, NEW t \in pending, RevalidateOne(t)
  PROVE  IInv' /\ Upward(pool, pool')
<1>1. Inv(pool) /\ pool \in PoolStates /\ t \in Txs
  BY DEF IInv, Inv, Sound, TypeOK
<1>2. Upward(pool, pool)
  BY <1>1, ShrinkUpward
<1>3. top' = top /\ conform' = conform /\ pending' \in SUBSET Txs
  BY DEF RevalidateOne, IInv, TypeOK
<1>4. Inv(pool') /\ Upward(pool, pool')
  <2>1. CASE pool.db[t] = Absent
    BY <1>1, <1>2, <2>1 DEF RevalidateOne
  <2>2. CASE pool.db[t] # Absent
    <3> DEFINE o == TakeTx(pool, t)
               q == AddTx(o, t, pool.db[t], Ok, conform)
               r == [q EXCEPT !.failed = [q.failed EXCEPT ![t] = pool.failed[t]],
                              !.age    = [q.age EXCEPT ![t] = pool.age[t]]]
    <3>1. pool.db[t] \in RelayMethods
      BY <1>1, <2>2 DEF PoolStates
    <3>2. Inv(o) /\ Inv(q) /\ q \in PoolStates
      BY <1>1, <3>1, TakeTxKeeps, AddTxKeeps DEF Inv, Sound
    <3>3. pool' = IF q.db[t] = Absent THEN q ELSE r
      BY <2>2 DEF RevalidateOne, Revalidated
    <3>4. o.db[t] = Absent /\ \A u \in Txs \ {t} : o.db[u] = pool.db[u]
      BY <1>1, <2>2, RemoveEffect DEF TakeTx
    <3>5. /\ q.db[t] \in {Absent, pool.db[t]}
          /\ \A u \in Txs \ {t} : q.db[u] \in {Absent, pool.db[u]}
      <4>1. StoredRelay(o, t, pool.db[t]) = pool.db[t]
        BY <3>4 DEF StoredRelay
      <4> QED
        BY <1>1, <3>1, <3>2, <3>4, <4>1, AddTxEffect DEF Inv
    <3> HIDE DEF q
    <3>6. /\ r \in PoolStates /\ r.db = q.db /\ r.ki = q.ki /\ r.sorted = q.sorted
          /\ r.weight = q.weight /\ r.timedOut = q.timedOut /\ r.cache = q.cache
          /\ \A u \in Txs : r.failed[u] \in {pool.failed[u], q.failed[u]}
      BY <1>1, <3>2 DEF PoolStates
    <3>7. Truthful(r)
      <4> HIDE DEF r
      <4> QED
        BY <1>1, <3>2, <3>6 DEF Inv, Truthful
    <3>8. Inv(r)
      BY <3>2, <3>6, <3>7, SideKeeps
    <3>9. \A u \in Txs : pool'.db[u] \in {Absent, pool.db[u]}
      BY <3>3, <3>5, <3>6
    <3> QED
      BY <1>1, <3>2, <3>3, <3>8, <3>9, ShrinkUpward
  <2> QED
    BY <2>1, <2>2
<1> QED
  BY <1>3, <1>4 DEF IInv, TypeOK, Inv, Sound, Truthful, Ok

LEMMA StutterStep ==
  ASSUME IInv, UNCHANGED vars
  PROVE  IInv' /\ Upward(pool, pool')
<1>1. Upward(pool, pool)
  BY ShrinkUpward DEF IInv, Inv, Sound
<1> QED
  BY <1>1 DEF vars, IInv, TypeOK, Inv, Sound, Truthful, Ok

LEMMA NextKeeps ==
  ASSUME IInv, [Next]_vars
  PROVE  IInv' /\ Upward(pool, pool')
<1>1. CASE \E t \in Txs, relay \in IncomingRelays : IncomingTx(t, relay)
  BY <1>1, AddSteps
<1>2. CASE \E t \in Txs : AddBlockTx(t)
  BY <1>2, AddSteps
<1>3. CASE \E t \in Txs : TakeOne(t)
  BY <1>3, TakeStep
<1>4. CASE \E S \in SUBSET Txs, method \in {"local", "stem", "fluff"} :
             Relayed(S, method)
  BY <1>4, RelayedStep
<1>5. CASE RemoveStuck
  BY <1>5, RemoveStuckStep
<1>6. CASE Tick
  BY <1>6, TickStep
<1>7. CASE \E newTop \in Tops : ChainChange(newTop)
  BY <1>7, ChainChangeStep
<1>8. CASE FillTemplate
  BY <1>8, FillTemplateStep
<1>9. CASE \E rules \in RuleSets : StartValidate(rules)
  BY <1>9, StartValidateStep
<1>10. CASE \E t \in pending : RevalidateOne(t)
  BY <1>10, RevalidateStep
<1>11. CASE Restart
  BY <1>11, RestartStep
<1>12. CASE UNCHANGED vars
  BY <1>12, StutterStep
<1> QED
  BY <1>1, <1>2, <1>3, <1>4, <1>5, <1>6, <1>7, <1>8, <1>9, <1>10, <1>11, <1>12
  DEF Next

LEMMA InvariantHolds == Spec => []IInv
<1>1. IInv /\ [Next]_vars => IInv'
  BY NextKeeps
<1> QED
  BY InitIInv, <1>1, PTL DEF Spec

-----------------------------------------------------------------------------
(* The theorems *)

\* Every reachable state of the pool is well typed; m_txpool_weight never
\* goes below zero.
THEOREM TypeCorrect == Spec => []TypeOK
<1>1. IInv => TypeOK
  BY DEF IInv
<1> QED
  BY <1>1, InvariantHolds, PTL

\* m_spent_key_images, the sorted container and m_txpool_weight are exact
\* indexes of the txpool table after any sequence of operations.
THEOREM IndexesExact == Spec => []IndexesAgree
<1>1. IInv => IndexesAgree
  BY DEF IInv, Inv, Sound, Exact, IndexesAgree, KeyImageIndex,
     IndexesMatchTable
<1> QED
  BY <1>1, InvariantHolds, PTL

\* At any moment the table can be loaded by a daemon that starts: init never
\* meets a key image collision.
THEOREM AlwaysLoadable == Spec => []OneUnkeptTxPerKeyImage
<1>1. IInv => OneUnkeptTxPerKeyImage
  BY DEF IInv, Inv, Sound, OneUnkeptTxPerKeyImage
<1> QED
  BY <1>1, InvariantHolds, PTL

\* No cached verdict on a tx's inputs outlives the chain it was given on.
THEOREM NoStaleVerdict == Spec => []VerdictsFresh
<1>1. IInv => VerdictsFresh
  BY DEF IInv, Inv, Truthful, VerdictsFresh, TypeOK, Ok
<1> QED
  BY <1>1, InvariantHolds, PTL

\* A tx that timed out is back only if a block brought it.
THEOREM NoReturnAfterTimeout == Spec => []TimedOutStayOut
<1>1. IInv => TimedOutStayOut
  BY DEF IInv, Inv, Parked, TimedOutStayOut
<1> QED
  BY <1>1, InvariantHolds, PTL

\* The relay method of a tx in the pool only moves up the order of
\* relay_method.
THEOREM PrivacyMonotone == Spec => RelayOnlyUpgrades
<1>1. IInv /\ [Next]_vars =>
        [\A t \in Txs : pool.db[t] # Absent /\ pool'.db[t] # Absent =>
           RelayRank(pool'.db[t]) >= RelayRank(pool.db[t])]_vars
  BY NextKeeps DEF Upward
<1> QED
  BY <1>1, InvariantHolds, PTL DEF Spec, RelayOnlyUpgrades

\* The template that FillTemplate leaves: it is gone with the next step.
LEMMA TemplateStep ==
  ASSUME IInv, TemplateMinable, [Next]_vars
  PROVE  TemplateMinable'
<1>1. CASE FillTemplate
  <2>1. /\ template' = TemplateTxs(pool, Ok, top) /\ top' = top
        /\ pool' = FillBlockTemplate(pool, Ok, top)
    BY <1>1 DEF FillTemplate
  <2>2. pool \in PoolStates /\ Sound(pool) /\ Truthful(pool)
    BY DEF IInv, Inv, Sound
  <2>3. pool'.db = pool.db
    BY <2>1, <2>2 DEF FillBlockTemplate, PoolStates
  <2>4. /\ \A t \in template' : t \in Txs /\ t \in pool.sorted /\ Ready(pool, t, Ok, top)
        /\ \A t, u \in template' : t # u => KeyImagesOf[t] \cap KeyImagesOf[u] = {}
    BY <2>1, <2>2, TemplateApart
  <2>5. \A t \in template' : t \in Stored(pool)' /\ t \in Ok'
    <3> TAKE t \in template'
    <3>1. t \in Txs /\ t \in Stored(pool) /\ Verdict(pool, t, Ok) = "good"
      BY <2>2, <2>4 DEF Ready, Sound, Exact
    <3>2. t \in Ok
      BY <2>2, <3>1 DEF Verdict, Truthful
    <3> QED
      BY <2>1, <2>3, <3>1, <3>2 DEF Stored, Ok
  <2> QED
    BY <2>4, <2>5 DEF TemplateMinable
<1>2. CASE template' = {}
  BY <1>2 DEF TemplateMinable
<1>3. CASE UNCHANGED vars
  BY <1>3 DEF vars, TemplateMinable, Ok
<1>4. Next => FillTemplate \/ template' = {}
  BY DEF Next, PoolStep, IncomingTx, AddBlockTx, TakeOne, Relayed, RemoveStuck, Tick,
     ChainChange, StartValidate, RevalidateOne, Restart
<1> QED
  BY <1>1, <1>2, <1>3, <1>4

\* Any filled template can be mined: the greedy choice of fill_block_template
\* exists for every set of txs, and neither a stale verdict nor a clash of
\* images gets a tx into it.
THEOREM TemplatesMinable == Spec => []TemplateMinable
<1>1. Init => TemplateMinable
  BY DEF Init, TemplateMinable
<1>2. IInv /\ TemplateMinable /\ [Next]_vars => TemplateMinable'
  BY TemplateStep
<1> QED
  BY <1>1, <1>2, InvariantHolds, PTL DEF Spec
=============================================================================
