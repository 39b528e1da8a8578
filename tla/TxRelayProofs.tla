---------------------------- MODULE TxRelayProofs ----------------------------
(***************************************************************************)
(* Proofs about TxRelay, for any txs, sources, embargoes and periods.      *)
(***************************************************************************)
EXTENDS TxRelay, TxPoolOpsProofs, NatFacts, SequenceTheorems

Kinds == {"local", "forward", "stem", "fluff"}

Jobs == [txs : SUBSET Txs, method : {"local", "stem", "fluff"}]

\* Listed by the periodic check while it was private.
Listed(t) == \E method \in {"stem", "forward"} : <<t, method>> \in idle

\* What keeps an embargo from being overrun: the next check comes in time, or
\* the check has been and the tx is on its way to set_relayed.  The last case
\* is a tx whose embargo ended in the second half of its life.
Covered(t) ==
  \/ due[t] >= 0 /\ (check <= due[t] \/ Listed(t) \/ Queued(t))
  \/ due[t] + pool.age[t] > LifeTime \div 2

TimeRight(t) ==
  due[t] # Never =>
    /\ due[t] <= MaxEmbargo + MaxForward
    /\ due[t] + pool.age[t] >= 0
    /\ pool.db[t] \notin {Absent, "local"}
    /\ Private(t) => Covered(t)

MessagesRight ==
  /\ messages \in [Sources -> TypeOfMessages]
  /\ \A s \in Sources : messages[s].todo # <<>> =>
       /\ messages[s].relay \in Kinds
       /\ s # Rpc => messages[s].relay # "local"

TypeInv ==
  /\ Sound(pool)
  /\ due \in [Txs -> Int \cup {Never}]
  /\ check \in 0..CheckEvery
  /\ MessagesRight
  /\ idle \subseteq Txs \X RelayMethods
  /\ strand \in Seq(Jobs)
  /\ restarts \in 0..MaxRestarts
  /\ \A t \in Txs : pool.db[t] \in Kinds \cup {Absent}

TimeInv == TypeInv /\ \A t \in Txs : TimeRight(t)

-----------------------------------------------------------------------------
(* Lemmas on the operators *)

LEMMA SoonerLeast ==
  ASSUME NEW c \in Nat, NEW times, \A d \in times : d # Never => d \in Nat
  PROVE  /\ Sooner(c, times) \in Nat
         /\ Sooner(c, times) <= c
         /\ \A d \in times : d # Never => Sooner(c, times) <= d
<1> DEFINE T == {c} \cup (times \ {Never})
<1>1. T \in SUBSET Nat /\ T # {} /\ c \in T
  OBVIOUS
<1> HIDE DEF T
<1>2. \E n \in T : \A m \in T : n <= m
  BY <1>1, LeastNat
<1>3. Min(T) \in T /\ \A m \in T : Min(T) <= m
  BY <1>2 DEF Min
<1>4. Sooner(c, times) = Min(T)
  BY DEF Sooner, T
<1>5. Min(T) \in Nat
  BY <1>1, <1>3
<1>6. \A d \in times : d # Never => d \in T
  BY DEF T
<1> QED
  BY <1>1, <1>3, <1>4, <1>5, <1>6

LEMMA NeverNoTime == Never \notin Int
BY TimesAssumption

\* Txs waiting on a strand, by its jobs.
LEMMA QueuedInJobs ==
  ASSUME NEW t
  PROVE  Queued(t) <=> \E j \in Range(strand) : t \in j.txs
BY DEF Queued, Range

LEMMA DispatchJobs ==
  ASSUME NEW S \in SUBSET Txs, NEW method \in {"local", "stem", "fluff"}
  PROVE  /\ Dispatch(S, method) \in Seq(Jobs)
         /\ S # {} => Range(Dispatch(S, method)) = {[txs |-> S, method |-> method]}
         /\ S = {} => Range(Dispatch(S, method)) = {}
<1>1. [txs |-> S, method |-> method] \in Jobs
  BY DEF Jobs
<1>2. CASE S = {}
  BY <1>2, EmptySeq DEF Dispatch, Range
<1>3. CASE S # {}
  BY <1>1, <1>3 DEF Dispatch, Range
<1> QED
  BY <1>2, <1>3

LEMMA HeadAndTail ==
  ASSUME NEW q \in Seq(Jobs), q # <<>>
  PROVE  /\ Head(q) \in Jobs /\ Tail(q) \in Seq(Jobs)
         /\ Range(q) = {Head(q)} \cup Range(Tail(q))
<1>1. /\ Head(q) \in Jobs /\ Tail(q) \in Seq(Jobs)
      /\ Len(Tail(q)) = Len(q) - 1
      /\ \A i \in 1 .. Len(Tail(q)) : Tail(q)[i] = q[i + 1]
  BY HeadTailProperties
<1>2. /\ Len(q) \in Nat \ {0}
      /\ Range(q) = {q[i] : i \in 1 .. Len(q)}
      /\ Range(Tail(q)) = {Tail(q)[i] : i \in 1 .. Len(Tail(q))}
      /\ Head(q) = q[1]
  <2>1. Len(q) \in Nat \ {0}
    BY EmptySeq
  <2>2. Head(q) = q[1]
    BY DEF Head
  <2> QED
    BY <1>1, <2>1, <2>2, RangeEquality
<1>3. ASSUME NEW j \in Range(q)
      PROVE  j \in {Head(q)} \cup Range(Tail(q))
  <2>1. PICK i \in 1 .. Len(q) : j = q[i]
    BY <1>2
  <2>2. CASE i = 1
    BY <1>2, <2>1, <2>2
  <2>3. CASE i # 1
    <3>1. i - 1 \in 1 .. Len(Tail(q)) /\ (i - 1) + 1 = i
      BY <1>1, <1>2, <2>3
    <3>2. Tail(q)[i - 1] = q[i]
      BY <1>1, <3>1
    <3> QED
      BY <1>2, <2>1, <3>1, <3>2
  <2> QED
    BY <2>2, <2>3
<1>4. ASSUME NEW j \in Range(Tail(q))
      PROVE  j \in Range(q)
  <2>1. PICK i \in 1 .. Len(Tail(q)) : j = Tail(q)[i]
    BY <1>2
  <2>2. i + 1 \in 1 .. Len(q) /\ j = q[i + 1]
    BY <1>1, <1>2, <2>1
  <2> QED
    BY <1>2, <2>2
<1>5. Head(q) \in Range(q)
  BY <1>2
<1> QED
  BY <1>1, <1>3, <1>4, <1>5

\* The methods a tx can get from each relay method it arrives under.
LEMMA RelayOfKinds ==
  ASSUME NEW old \in Kinds \cup {Absent}, NEW new \in Kinds
  PROVE  /\ new \in RelayMethods /\ old \in RelayMethods \cup {Absent}
         /\ old # Absent => Upgrade(old, new) \in Kinds
         /\ new # "local" => Upgrade(old, new) # "local"
         /\ new = "fluff" /\ old # Absent => Upgrade(old, new) = "fluff"
         /\ new = "stem" /\ old # Absent => Upgrade(old, new) \in {"stem", "fluff"}
         /\ new = "stem" /\ old = "local" => Upgrade(old, new) = "stem"
         /\ old \in {"stem", "forward", "fluff"} => Upgrade(old, new) # "local"
BY DEF Kinds, RelayMethods, Upgrade, RelayRank, Absent

-----------------------------------------------------------------------------
(* set_relayed *)

LEMMA RelayedEffect ==
  ASSUME TypeInv, NEW S \in SUBSET Txs, NEW method \in {"stem", "fluff"},
         Relayed(S, method)
  PROVE  /\ Sound(pool')
         /\ pool'.timedOut = pool.timedOut /\ pool'.age = pool.age
         /\ due' \in [Txs -> Int \cup {Never}]
         /\ check' \in 0..CheckEvery /\ check' <= check
         /\ \A t \in Txs : t \notin S \/ pool.db[t] = Absent =>
              pool'.db[t] = pool.db[t] /\ due'[t] = due[t]
         /\ \A t \in S : pool.db[t] # Absent =>
              /\ pool'.db[t] \in {"stem", "fluff"}
              /\ method = "fluff" => pool'.db[t] = "fluff"
              /\ method = "stem" /\ pool.db[t] = "local" => pool'.db[t] = "stem"
              /\ due'[t] \in 0..MaxEmbargo
              /\ pool'.db[t] = "stem" => check' <= due'[t]
<1> DEFINE p == SetRelayed(pool, S, method)
           embargoed == {t \in S : p.db[t] = "stem"}
<1>1. /\ pool' = p
      /\ \E e \in Embargoes(embargoed) :
           /\ due' = [t \in Txs |-> IF t \notin S \/ p.db[t] = Absent THEN due[t]
                                    ELSE IF t \in embargoed THEN e[t] ELSE 0]
           /\ check' = NextCheck(check, Range(e))
  BY DEF Relayed
<1>2. PICK e \in Embargoes(embargoed) :
           /\ due' = [t \in Txs |-> IF t \notin S \/ p.db[t] = Absent THEN due[t]
                                    ELSE IF t \in embargoed THEN e[t] ELSE 0]
           /\ check' = NextCheck(check, Range(e))
  BY <1>1
<1>3. Sound(pool) /\ method \in {"local", "stem", "fluff"} /\ p = SetRelayed(pool, S, method)
  BY DEF TypeInv
<1> HIDE DEF p
<1>4. /\ Sound(p) /\ p.age = pool.age /\ p.timedOut = pool.timedOut
      /\ \A t \in Txs :
           /\ pool.db[t] = Absent => p.db[t] = Absent
           /\ pool.db[t] # Absent => p.db[t] # Absent
           /\ t \notin S => p.db[t] = pool.db[t]
           /\ pool.db[t] # Absent /\ t \in S => p.db[t] = Upgrade(pool.db[t], method)
  BY <1>3, SetRelayedSound
<1>5. /\ MaxEmbargo \in Nat /\ CheckEvery \in Nat /\ check \in 0..CheckEvery
      /\ due \in [Txs -> Int \cup {Never}]
      /\ e \in [embargoed -> 0..MaxEmbargo]
  BY TimesAssumption DEF TypeInv, Embargoes
<1>6. /\ check' \in Nat /\ check' <= check
      /\ \A t \in embargoed : check' <= e[t]
  <2>1. \A d \in Range(e) : d \in Nat
    BY <1>5 DEF Range
  <2>2. \A t \in embargoed : e[t] \in Range(e) /\ e[t] # Never
    BY <1>5, NeverNoTime DEF Range
  <2>3. check' = Sooner(check, Range(e)) /\ check \in Nat
    BY <1>2, <1>5 DEF NextCheck
  <2> HIDE DEF embargoed
  <2> QED
    BY <2>1, <2>2, <2>3, SoonerLeast
<1>7. \A t \in S : pool.db[t] # Absent =>
        /\ p.db[t] \in {"stem", "fluff"}
        /\ method = "fluff" => p.db[t] = "fluff"
        /\ method = "stem" /\ pool.db[t] = "local" => p.db[t] = "stem"
  <2> TAKE t \in S
  <2>1. pool.db[t] \in Kinds \cup {Absent} /\ method \in Kinds
    BY DEF TypeInv, Kinds
  <2> QED
    BY <1>4, <2>1, RelayOfKinds
<1>8. \A t \in S : pool.db[t] # Absent =>
        /\ due'[t] \in 0..MaxEmbargo
        /\ p.db[t] = "stem" => t \in embargoed /\ due'[t] = e[t]
  BY <1>2, <1>4, <1>5
<1>9. \A t \in Txs : t \notin S \/ pool.db[t] = Absent =>
        p.db[t] = pool.db[t] /\ due'[t] = due[t]
  BY <1>2, <1>4
<1>10. due' \in [Txs -> Int \cup {Never}]
  <2>1. \A t \in Txs : due'[t] \in Int \cup {Never}
    BY <1>5, <1>8, <1>9
  <2> QED
    BY <1>2, <2>1
<1>11. check' \in 0..CheckEvery
  BY <1>5, <1>6
<1>12. pool' = p
  BY <1>1 DEF p
<1> QED
  BY <1>4, <1>6, <1>7, <1>8, <1>9, <1>10, <1>11, <1>12

\* A step that gives some txs their times and loses none that the check has
\* listed or that waits on the strand.
LEMMA RelayedKeepsTime ==
  ASSUME TimeInv, NEW S \in SUBSET Txs, NEW method \in {"stem", "fluff"},
         Relayed(S, method), MessagesRight', restarts' = restarts,
         idle' \subseteq Txs \X RelayMethods, strand' \in Seq(Jobs),
         \A t \in Txs \ S : Listed(t) \/ Queued(t) => (Listed(t) \/ Queued(t))'
  PROVE  TimeInv'
<1>1. /\ Sound(pool')
      /\ pool'.timedOut = pool.timedOut /\ pool'.age = pool.age
      /\ due' \in [Txs -> Int \cup {Never}]
      /\ check' \in 0..CheckEvery /\ check' <= check
      /\ \A t \in Txs : t \notin S \/ pool.db[t] = Absent =>
           pool'.db[t] = pool.db[t] /\ due'[t] = due[t]
      /\ \A t \in S : pool.db[t] # Absent =>
           /\ pool'.db[t] \in {"stem", "fluff"}
           /\ due'[t] \in 0..MaxEmbargo
           /\ pool'.db[t] = "stem" => check' <= due'[t]
  BY RelayedEffect DEF TimeInv
<1>2. /\ TypeInv
      /\ \A t \in Txs : pool.age[t] \in Nat
      /\ check \in Nat /\ check' \in Nat
      /\ MaxEmbargo \in Nat /\ MaxForward \in Nat /\ LifeTime \in Nat
      /\ due \in [Txs -> Int \cup {Never}]
  BY <1>1, TimesAssumption, LimitsAssumption DEF TimeInv, TypeInv, Sound, PoolStates
<1>3. TypeInv'
  <2>1. \A t \in Txs : pool'.db[t] \in Kinds \cup {Absent}
    BY <1>1, <1>2 DEF TypeInv, Kinds
  <2> QED
    BY <1>1, <1>2, <2>1 DEF TypeInv
<1>4. ASSUME NEW t \in Txs, due'[t] # Never
      PROVE  /\ due'[t] <= MaxEmbargo + MaxForward
             /\ due'[t] + pool'.age[t] >= 0
             /\ pool'.db[t] \notin {Absent, "local"}
             /\ Private(t)' => Covered(t)'
  <2>1. CASE t \notin S \/ pool.db[t] = Absent
    <3>1. pool'.db[t] = pool.db[t] /\ due'[t] = due[t] /\ due[t] \in Int
      BY <1>1, <1>2, <1>4, <2>1
    <3>2. TimeRight(t)
      BY DEF TimeInv
    <3>3. t \notin S
      BY <1>4, <2>1, <3>1, <3>2 DEF TimeRight
    <3>4. Private(t)' => Covered(t)'
      BY <1>1, <1>2, <1>4, <3>1, <3>2, <3>3 DEF TimeRight, Covered, Private
    <3> QED
      BY <1>1, <1>4, <3>1, <3>2, <3>4 DEF TimeRight
  <2>2. CASE t \in S /\ pool.db[t] # Absent
    <3>1. /\ pool'.db[t] \in {"stem", "fluff"} /\ due'[t] \in 0..MaxEmbargo
          /\ pool'.db[t] = "stem" => check' <= due'[t]
      BY <1>1, <2>2
    <3>2. Private(t)' => Covered(t)'
      BY <1>2, <3>1 DEF Private, Covered
    <3> QED
      BY <1>1, <1>2, <3>1, <3>2 DEF Absent
  <2> QED
    BY <2>1, <2>2
<1> QED
  BY <1>3, <1>4 DEF TimeInv, TimeRight

-----------------------------------------------------------------------------
(* add_tx, and the messages *)

\* A tx that is accepted is written, with a new age and time, or left alone;
\* any tx may be pruned.
LEMMA AddedEffect ==
  ASSUME TypeInv, NEW t \in Txs, NEW relay \in Kinds, NEW delay \in 0..MaxForward,
         AddTxAccepted(pool, t, relay, Good, Txs), Added(t, relay, delay)
  PROVE  /\ Sound(pool') /\ pool'.timedOut = pool.timedOut
         /\ due' \in [Txs -> Int \cup {Never}]
         /\ check' \in 0..CheckEvery /\ check' <= check
         /\ \A u \in Txs : pool'.db[u] = Absent => due'[u] = Never
         /\ \A u \in Txs \ {t} : pool'.db[u] # Absent =>
              /\ pool'.db[u] = pool.db[u] /\ pool'.age[u] = pool.age[u]
              /\ due'[u] = due[u]
         /\ pool'.db[t] # Absent =>
              /\ pool'.db[t] = StoredRelay(pool, t, relay)
              /\ ~Written(t, relay) => /\ pool'.db[t] = pool.db[t]
                                       /\ pool'.age[t] = pool.age[t]
                                       /\ due'[t] = due[t]
              /\ Written(t, relay) =>
                   /\ pool'.age[t] = 0
                   /\ relay # "forward" => due'[t] = Never
                   /\ relay = "forward" => due'[t] = delay /\ check' <= delay
<1>1. /\ pool' = AddTx(pool, t, relay, Good, Txs)
      /\ due' = [u \in Txs |-> IF pool'.db[u] = Absent THEN Never
                               ELSE IF u # t \/ ~Written(t, relay) THEN due[u]
                               ELSE IF relay = "forward" THEN delay ELSE Never]
      /\ check' = IF Written(t, relay) /\ relay = "forward"
                  THEN Sooner(check, {delay}) ELSE check
  BY DEF Added
<1>2. Sound(pool) /\ relay \in RelayMethods
  BY DEF TypeInv, Kinds, RelayMethods
<1>3. /\ pool'.db[t] # Absent =>
           /\ pool'.db[t] = StoredRelay(pool, t, relay)
           /\ IF pool.db[t] # Absent /\ StoredRelay(pool, t, relay) = pool.db[t]
              THEN pool'.age[t] = pool.age[t] ELSE pool'.age[t] = 0
      /\ \A u \in Txs \ {t} : \/ pool'.db[u] = Absent
                              \/ pool'.db[u] = pool.db[u] /\ pool'.age[u] = pool.age[u]
  BY <1>1, <1>2, AddTxTimes
<1>4. Sound(pool') /\ pool'.timedOut = pool.timedOut
  BY <1>1, <1>2, AddTxSound, AddTxEffect
<1>5. Written(t, relay) <=> ~(pool.db[t] # Absent /\ StoredRelay(pool, t, relay) = pool.db[t])
  BY DEF Written, StoredRelay, Effective
<1>6. /\ check' \in Nat /\ check' <= check
      /\ Written(t, relay) /\ relay = "forward" => check' <= delay
  <2>1. check \in Nat /\ delay \in Nat /\ delay # Never
    BY TimesAssumption, NeverNoTime DEF TypeInv
  <2>2. /\ Sooner(check, {delay}) \in Nat
        /\ Sooner(check, {delay}) <= check /\ Sooner(check, {delay}) <= delay
    BY <2>1, SoonerLeast
  <2> QED
    BY <1>1, <2>1, <2>2
<1>7. check' \in 0..CheckEvery
  BY <1>6, TimesAssumption DEF TypeInv
<1>8. due' \in [Txs -> Int \cup {Never}]
  BY <1>1, TimesAssumption DEF TypeInv
<1>9. \A u \in Txs : pool'.db[u] = Absent => due'[u] = Never
  BY <1>1
<1>10. \A u \in Txs \ {t} : pool'.db[u] # Absent => due'[u] = due[u]
  BY <1>1
<1>11. pool'.db[t] # Absent =>
         /\ ~Written(t, relay) => due'[t] = due[t]
         /\ Written(t, relay) => due'[t] = IF relay = "forward" THEN delay ELSE Never
  BY <1>1
<1> QED
  BY <1>3, <1>4, <1>5, <1>6, <1>7, <1>8, <1>9, <1>10, <1>11

LEMMA StoredRelayKinds ==
  ASSUME TypeInv, NEW t \in Txs, NEW relay \in Kinds
  PROVE  /\ StoredRelay(pool, t, relay) \in Kinds
         /\ relay # "local" => StoredRelay(pool, t, relay) # "local"
         /\ Effective(t, relay) = "fluff" => StoredRelay(pool, t, relay) = "fluff"
         /\ Effective(t, relay) = "stem" => StoredRelay(pool, t, relay) \in {"stem", "fluff"}
         /\ Effective(t, relay) \in Kinds
<1>1. pool.db[t] \in Kinds \cup {Absent}
  BY DEF TypeInv
<1>2. Effective(t, relay) \in Kinds
  BY DEF Effective, Kinds
<1>3. StoredRelay(pool, t, relay) =
        IF pool.db[t] = Absent THEN relay ELSE Upgrade(pool.db[t], Effective(t, relay))
  BY DEF StoredRelay, Effective
<1>4. /\ pool.db[t] = Absent => Effective(t, relay) = relay
      /\ relay # "local" => Effective(t, relay) # "local"
  BY DEF Effective, Absent
<1> QED
  BY <1>1, <1>2, <1>3, <1>4, RelayOfKinds

\* One message changes.
LEMMA MessageChange ==
  ASSUME MessagesRight, NEW s \in Sources, NEW m \in TypeOfMessages,
         messages' = [messages EXCEPT ![s] = m],
         m.todo # <<>> => /\ m.relay \in Kinds
                          /\ s # Rpc => m.relay # "local"
  PROVE  MessagesRight'
BY DEF MessagesRight

LEMMA AfterAddRight ==
  ASSUME MessagesRight, NEW s \in Sources, messages[s].todo # <<>>, NEW relay
  PROVE  LET m == messages[s] IN
         /\ Head(m.todo) \in Txs /\ m.relay \in Kinds
         /\ s # Rpc => m.relay # "local"
         /\ AfterAdd(m, Head(m.todo), relay) \in TypeOfMessages
         /\ AfterAdd(m, Head(m.todo), relay).relay = m.relay
         /\ Idle \in TypeOfMessages /\ Idle.todo = <<>>
<1> DEFINE m == messages[s]
<1>1. m \in TypeOfMessages /\ m.todo \in Seq(Txs) /\ m.todo # <<>>
  BY DEF MessagesRight, TypeOfMessages
<1>2. m.relay \in Kinds /\ (s # Rpc => m.relay # "local")
  BY DEF MessagesRight
<1> HIDE DEF m
<1>3. Head(m.todo) \in Txs /\ Tail(m.todo) \in Seq(Txs)
  BY <1>1, HeadTailProperties
<1>4. /\ AfterAdd(m, Head(m.todo), relay) \in TypeOfMessages
      /\ AfterAdd(m, Head(m.todo), relay).relay = m.relay
  BY <1>1, <1>3 DEF AfterAdd, TypeOfMessages
<1>5. Idle \in TypeOfMessages /\ Idle.todo = <<>>
  BY EmptySeq DEF Idle, TypeOfMessages, RelayMethods
<1>6. /\ Head(m.todo) \in Txs /\ m.relay \in Kinds
      /\ s # Rpc => m.relay # "local"
      /\ AfterAdd(m, Head(m.todo), relay) \in TypeOfMessages
      /\ AfterAdd(m, Head(m.todo), relay).relay = m.relay
      /\ Idle \in TypeOfMessages /\ Idle.todo = <<>>
  BY <1>2, <1>3, <1>4, <1>5
<1> QED
  BY <1>6 DEF m

\* The cases of a tx of a message.
LEMMA AddNextCases ==
  ASSUME TypeInv, NEW s \in Sources, AddNext(s)
  PROVE  LET m == messages[s]
             t == Head(m.todo)
         IN
         /\ t \in Txs /\ m.relay \in Kinds /\ m.todo # <<>>
         /\ s # Rpc => m.relay # "local"
         /\ MessagesRight'
         /\ idle' = idle /\ strand' = strand /\ restarts' = restarts
         /\ \/ /\ AddTxAccepted(pool, t, m.relay, Good, Txs)
               /\ \E delay \in 0..MaxForward : Added(t, m.relay, delay)
               /\ messages' = [messages EXCEPT ![s] = AfterAdd(m, t, Effective(t, m.relay))]
            \/ /\ Sound(pool') /\ pool'.db = pool.db /\ pool'.age = pool.age
               /\ pool'.timedOut = pool.timedOut
               /\ due' = due /\ check' = check
               /\ messages' \in {[messages EXCEPT ![s] = AfterAdd(m, t, "none")],
                                 [messages EXCEPT ![s] = Idle]}
<1> DEFINE m == messages[s]
           t == Head(m.todo)
<1>1. MessagesRight /\ m.todo # <<>> /\ Sound(pool)
  BY DEF AddNext, TypeInv
<1>2. /\ t \in Txs /\ m.relay \in Kinds
      /\ s # Rpc => m.relay # "local"
      /\ Idle \in TypeOfMessages /\ Idle.todo = <<>>
  BY <1>1, AfterAddRight
<1>3. \A relay : /\ AfterAdd(m, t, relay) \in TypeOfMessages
                 /\ AfterAdd(m, t, relay).relay = m.relay
  BY <1>1, AfterAddRight
<1>4. idle' = idle /\ strand' = strand /\ restarts' = restarts
  BY DEF AddNext
<1>5. CASE HaveTx(pool, t)
  <2>1. messages' = [messages EXCEPT ![s] = AfterAdd(m, t, "none")]
    BY <1>5 DEF AddNext
  <2>2. pool' = pool /\ due' = due /\ check' = check
    BY <1>5 DEF AddNext
  <2> HIDE DEF m, t
  <2>3. MessagesRight'
    BY <1>1, <1>2, <1>3, <2>1, MessageChange
  <2> QED
    BY <1>1, <1>2, <1>4, <2>1, <2>2, <2>3 DEF m, t
<1>6. CASE ~HaveTx(pool, t) /\ AddTxAccepted(pool, t, m.relay, Good, Txs)
  <2>1. /\ messages' = [messages EXCEPT ![s] = AfterAdd(m, t, Effective(t, m.relay))]
        /\ \E delay \in 0..MaxForward : Added(t, m.relay, delay)
    BY <1>6 DEF AddNext
  <2> HIDE DEF m, t
  <2>2. MessagesRight'
    BY <1>1, <1>2, <1>3, <2>1, MessageChange
  <2> QED
    BY <1>1, <1>2, <1>4, <1>6, <2>1, <2>2 DEF m, t
<1>7. CASE ~HaveTx(pool, t) /\ ~AddTxAccepted(pool, t, m.relay, Good, Txs)
  <2>1. /\ pool' = AddTx(pool, t, m.relay, Good, Txs)
        /\ messages' = [messages EXCEPT ![s] = IF s # Rpc /\ NoDropOffense(t)
                                               THEN AfterAdd(m, t, "none") ELSE Idle]
        /\ due' = due /\ check' = check
    BY <1>7 DEF AddNext
  <2> HIDE DEF m, t
  <2>2. m.relay \in RelayMethods
    BY <1>2 DEF Kinds, RelayMethods
  <2>3. /\ Sound(pool') /\ pool'.db = pool.db /\ pool'.age = pool.age
        /\ pool'.timedOut = pool.timedOut
    BY <1>1, <1>2, <1>7, <2>1, <2>2, AddTxSound, AddTxTimes, AddTxEffect
  <2>4. messages' \in {[messages EXCEPT ![s] = AfterAdd(m, t, "none")],
                       [messages EXCEPT ![s] = Idle]}
    BY <2>1
  <2>5. MessagesRight'
    BY <1>1, <1>2, <1>3, <2>4, MessageChange
  <2> QED
    BY <1>1, <1>2, <1>4, <2>1, <2>3, <2>4, <2>5 DEF m, t
<1> QED
  BY <1>5, <1>6, <1>7

-----------------------------------------------------------------------------
(* Every step preserves TimeInv *)

\* Adding changes the pool and the times and nothing on the strand.
LEMMA AddNextTime ==
  ASSUME TimeInv, NEW s \in Sources, AddNext(s)
  PROVE  TimeInv'
<1> DEFINE m == messages[s]
           t == Head(m.todo)
<1>1. /\ TypeInv
      /\ \A u \in Txs : pool.age[u] \in Nat
      /\ check \in Nat
      /\ MaxEmbargo \in Nat /\ MaxForward \in Nat /\ LifeTime \in Nat
      /\ due \in [Txs -> Int \cup {Never}]
  BY TimesAssumption, LimitsAssumption DEF TimeInv, TypeInv, Sound, PoolStates
<1>2. /\ t \in Txs /\ m.relay \in Kinds
      /\ MessagesRight'
      /\ idle' = idle /\ strand' = strand /\ restarts' = restarts
      /\ \/ /\ AddTxAccepted(pool, t, m.relay, Good, Txs)
            /\ \E delay \in 0..MaxForward : Added(t, m.relay, delay)
         \/ /\ Sound(pool') /\ pool'.db = pool.db /\ pool'.age = pool.age
            /\ due' = due /\ check' = check
  BY <1>1, AddNextCases
<1> HIDE DEF m, t
<1>3. CASE /\ Sound(pool') /\ pool'.db = pool.db /\ pool'.age = pool.age
           /\ due' = due /\ check' = check
  <2>1. TypeInv'
    BY <1>1, <1>2, <1>3 DEF TypeInv
  <2>2. \A u \in Txs : TimeRight(u) => TimeRight(u)'
    BY <1>2, <1>3 DEF TimeRight, Private, Covered, Listed, Queued
  <2> QED
    BY <2>1, <2>2 DEF TimeInv
<1>4. CASE /\ AddTxAccepted(pool, t, m.relay, Good, Txs)
           /\ \E delay \in 0..MaxForward : Added(t, m.relay, delay)
  <2>1. PICK delay \in 0..MaxForward : Added(t, m.relay, delay)
    BY <1>4
  <2>2. /\ Sound(pool') /\ pool'.timedOut = pool.timedOut
        /\ due' \in [Txs -> Int \cup {Never}]
        /\ check' \in 0..CheckEvery /\ check' <= check
        /\ \A u \in Txs : pool'.db[u] = Absent => due'[u] = Never
        /\ \A u \in Txs \ {t} : pool'.db[u] # Absent =>
             /\ pool'.db[u] = pool.db[u] /\ pool'.age[u] = pool.age[u]
             /\ due'[u] = due[u]
        /\ pool'.db[t] # Absent =>
             /\ pool'.db[t] = StoredRelay(pool, t, m.relay)
             /\ ~Written(t, m.relay) => /\ pool'.db[t] = pool.db[t]
                                        /\ pool'.age[t] = pool.age[t]
                                        /\ due'[t] = due[t]
             /\ Written(t, m.relay) =>
                  /\ pool'.age[t] = 0
                  /\ m.relay # "forward" => due'[t] = Never
                  /\ m.relay = "forward" => due'[t] = delay /\ check' <= delay
    BY <1>1, <1>2, <1>4, <2>1, AddedEffect
  <2>3. /\ StoredRelay(pool, t, m.relay) \in Kinds
        /\ m.relay # "local" => StoredRelay(pool, t, m.relay) # "local"
    BY <1>1, <1>2, StoredRelayKinds
  <2>4. TypeInv'
    <3>1. \A u \in Txs : pool'.db[u] \in Kinds \cup {Absent}
      BY <1>1, <2>2, <2>3 DEF TypeInv
    <3> QED
      BY <1>1, <1>2, <2>2, <3>1 DEF TypeInv
  <2>5. check' \in Nat
    BY <2>2
  <2>6. ASSUME NEW u \in Txs, due'[u] # Never
        PROVE  /\ due'[u] <= MaxEmbargo + MaxForward
               /\ due'[u] + pool'.age[u] >= 0
               /\ pool'.db[u] \notin {Absent, "local"}
               /\ Private(u)' => Covered(u)'
    <3>1. pool'.db[u] # Absent
      BY <2>2, <2>6
    <3>2. CASE u # t \/ ~Written(t, m.relay)
      <4>1. /\ pool'.db[u] = pool.db[u] /\ pool'.age[u] = pool.age[u]
            /\ due'[u] = due[u] /\ due[u] \in Int
        BY <1>1, <2>2, <2>6, <3>1, <3>2
      <4>2. TimeRight(u)
        BY DEF TimeInv
      <4>3. Private(u)' => Covered(u)'
        BY <1>1, <1>2, <2>2, <2>5, <2>6, <4>1, <4>2
        DEF TimeRight, Private, Covered, Listed, Queued
      <4> QED
        BY <2>6, <4>1, <4>2, <4>3 DEF TimeRight
    <3>3. CASE u = t /\ Written(t, m.relay)
      <4>1. /\ due'[u] = delay /\ pool'.age[u] = 0 /\ check' <= delay
            /\ m.relay = "forward" /\ pool'.db[u] = StoredRelay(pool, t, m.relay)
        BY <2>2, <2>6, <3>1, <3>3
      <4>2. Covered(u)'
        BY <1>1, <2>5, <4>1 DEF Covered
      <4> QED
        BY <1>1, <2>3, <3>1, <4>1, <4>2
    <3> QED
      BY <3>2, <3>3
  <2> QED
    BY <2>4, <2>6 DEF TimeInv, TimeRight
<1> QED
  BY <1>2, <1>3, <1>4

LEMMA ReceiveTime ==
  ASSUME TimeInv, NEW s \in Sources, NEW n \in 1..MessageSize, NEW txs \in [1..n -> Txs],
         NEW relay \in PeerRelays \cup {"local"}, Receive(s, txs, relay)
  PROVE  TimeInv'
<1>1. relay \in Kinds /\ relay \in RelayMethods /\ (s # Rpc => relay # "local")
  BY SourcesAssumption DEF Receive, Kinds, RelayMethods
<1>2. txs \in Seq(Txs)
  <2>1. n \in Nat
    BY SourcesAssumption
  <2> QED
    BY <2>1, SeqDef
<1>3. /\ messages' = [messages EXCEPT ![s] = [Idle EXCEPT !.todo = txs, !.relay = relay]]
      /\ UNCHANGED <<pool, due, check, idle, strand, restarts>>
  BY DEF Receive
<1>4. /\ [Idle EXCEPT !.todo = txs, !.relay = relay] \in TypeOfMessages
      /\ [Idle EXCEPT !.todo = txs, !.relay = relay].relay = relay
  BY <1>1, <1>2 DEF Idle, TypeOfMessages
<1>5. MessagesRight'
  BY <1>1, <1>3, <1>4, MessageChange DEF TimeInv, TypeInv
<1>6. TypeInv'
  BY <1>3, <1>5 DEF TimeInv, TypeInv
<1>7. \A t \in Txs : TimeRight(t) => TimeRight(t)'
  BY <1>3 DEF TimeRight, Private, Covered, Listed, Queued
<1> QED
  BY <1>6, <1>7 DEF TimeInv

LEMMA RelayMessageTime ==
  ASSUME TimeInv, NEW s \in Sources, RelayMessage(s)
  PROVE  TimeInv'
<1> DEFINE m == messages[s]
           d == Dispatch(m.stem, IF s = Rpc THEN "local" ELSE "stem")
<1>1. /\ messages' = [messages EXCEPT ![s] = Idle]
      /\ strand' = strand \o d
      /\ Relayed(m.fluff, "fluff")
      /\ idle' = idle /\ restarts' = restarts
  BY DEF RelayMessage
<1>2. m.stem \in SUBSET Txs /\ m.fluff \in SUBSET Txs /\ MessagesRight /\ strand \in Seq(Jobs)
  BY DEF TimeInv, TypeInv, MessagesRight, TypeOfMessages
<1>3. MessagesRight'
  <2>1. Idle \in TypeOfMessages /\ Idle.todo = <<>>
    BY EmptySeq DEF Idle, TypeOfMessages, RelayMethods
  <2> QED
    BY <1>1, <1>2, <2>1, MessageChange
<1>4. d \in Seq(Jobs)
  BY <1>2, DispatchJobs
<1> HIDE DEF d, m
<1>5. strand' \in Seq(Jobs) /\ Range(strand') = Range(strand) \cup Range(d)
  BY <1>1, <1>2, <1>4, ConcatProperties, RangeConcatenation
<1>6. \A t \in Txs : Listed(t) \/ Queued(t) => (Listed(t) \/ Queued(t))'
  BY <1>1, <1>5 DEF Listed, Queued, Range
<1>7. idle' \subseteq Txs \X RelayMethods
  BY <1>1 DEF TimeInv, TypeInv
<1> QED
  BY <1>1, <1>2, <1>3, <1>5, <1>6, <1>7, RelayedKeepsTime

\* The first callback of the strand runs; its txs get their times.
LEMMA StrandTime ==
  ASSUME TimeInv, NEW method \in {"stem", "fluff"}, strand # <<>>,
         Relayed(Head(strand).txs, method), NEW more \in Seq(Jobs),
         strand' = more \o Tail(strand), UNCHANGED <<messages, idle, restarts>>
  PROVE  TimeInv'
<1>1. strand \in Seq(Jobs) /\ MessagesRight /\ idle \subseteq Txs \X RelayMethods
  BY DEF TimeInv, TypeInv
<1>2. /\ Head(strand) \in Jobs /\ Tail(strand) \in Seq(Jobs)
      /\ Range(strand) = {Head(strand)} \cup Range(Tail(strand))
  BY <1>1, HeadAndTail
<1>3. strand' \in Seq(Jobs) /\ Range(strand') = Range(more) \cup Range(Tail(strand))
  <2>1. more \o Tail(strand) \in Seq(Jobs)
    BY <1>2, ConcatProperties
  <2>2. Range(more \o Tail(strand)) = Range(more) \cup Range(Tail(strand))
    <3>1. \A q \in Seq(Jobs) : Range(more \o q) = Range(more) \cup Range(q)
      BY RangeConcatenation, Zenon
    <3> QED
      BY <1>2, <3>1
  <2> QED
    BY <2>1, <2>2
<1>4. Head(strand).txs \in SUBSET Txs
  BY <1>2 DEF Jobs
<1>5. \A t \in Txs \ Head(strand).txs : Queued(t) => Queued(t)'
  <2> SUFFICES ASSUME NEW t \in Txs \ Head(strand).txs, Queued(t)
               PROVE  Queued(t)'
    OBVIOUS
  <2>1. PICK j \in Range(strand) : t \in j.txs
    BY QueuedInJobs
  <2>2. j \in Range(strand')
    BY <1>2, <1>3, <2>1
  <2> QED
    BY <2>1, <2>2 DEF Queued, Range
<1>6. \A t \in Txs : Listed(t) => Listed(t)'
  BY DEF Listed
<1>7. MessagesRight'
  BY <1>1 DEF MessagesRight
<1> QED
  BY <1>1, <1>3, <1>4, <1>5, <1>6, <1>7, RelayedKeepsTime

LEMMA SendStemTime ==
  ASSUME TimeInv, NEW fluffing \in BOOLEAN, NEW sent \in BOOLEAN, SendStem(fluffing, sent)
  PROVE  TimeInv'
<1> DEFINE more == IF sent THEN <<>> ELSE Dispatch(Head(strand).txs, "fluff")
<1>1. strand \in Seq(Jobs) /\ strand # <<>>
  BY DEF SendStem, TimeInv, TypeInv
<1>2. Head(strand).txs \in SUBSET Txs
  BY <1>1, HeadAndTail DEF Jobs
<1>3. more \in Seq(Jobs)
  BY <1>2, DispatchJobs, EmptySeq
<1>4. /\ Relayed(Head(strand).txs, "stem")
      /\ strand' = more \o Tail(strand)
      /\ UNCHANGED <<messages, idle, restarts>>
  BY DEF SendStem
<1> HIDE DEF more
<1> QED
  BY <1>1, <1>3, <1>4, StrandTime

LEMMA FluffTime ==
  ASSUME TimeInv, NEW fluffing \in BOOLEAN, Fluff(fluffing)
  PROVE  TimeInv'
<1>1. /\ strand \in Seq(Jobs) /\ strand # <<>> /\ strand' = Tail(strand)
      /\ Relayed(Head(strand).txs, "fluff")
      /\ UNCHANGED <<messages, idle, restarts>>
  BY DEF Fluff, TimeInv, TypeInv
<1>2. <<>> \in Seq(Jobs) /\ <<>> \o Tail(strand) = Tail(strand)
  BY <1>1, HeadAndTail, EmptySeq, ConcatEmptySeq
<1> QED
  BY <1>1, <1>2, StrandTime

LEMMA CheckTime ==
  ASSUME TimeInv, CheckRelayable
  PROVE  TimeInv'
<1> DEFINE relayable == {t \in Stored(pool) : pool.db[t] # "none"}
           waiting   == {t \in relayable : Private(t) /\ ~Overdue(t)}
<1>1. /\ check = 0
      /\ idle' = {<<t, pool.db[t]>> : t \in {u \in relayable : Overdue(u) /\ Young(u)}}
      /\ check' = Sooner(CheckEvery, {due[t] : t \in waiting})
      /\ UNCHANGED <<pool, due, messages, strand, restarts>>
  BY DEF CheckRelayable
<1>2. /\ TypeInv
      /\ \A t \in Txs : pool.age[t] \in Nat /\ pool.db[t] \in RelayMethods \cup {Absent}
      /\ MaxEmbargo \in Nat /\ MaxForward \in Nat /\ LifeTime \in Nat /\ CheckEvery \in Nat
      /\ due \in [Txs -> Int \cup {Never}]
  BY TimesAssumption, LimitsAssumption DEF TimeInv, TypeInv, Sound, PoolStates
<1>3. \A t \in waiting : t \in Txs /\ (due[t] # Never => due[t] \in Nat)
  BY <1>2 DEF Overdue, Stored
<1>4. /\ check' \in Nat /\ check' <= CheckEvery
      /\ \A t \in waiting : due[t] # Never => check' <= due[t]
  <2>1. \A d \in {due[t] : t \in waiting} : d # Never => d \in Nat
    BY <1>3
  <2> HIDE DEF waiting
  <2>2. \A t \in waiting : due[t] \in {due[u] : u \in waiting}
    OBVIOUS
  <2> QED
    BY <1>1, <1>2, <2>1, <2>2, SoonerLeast
<1>5. idle' \subseteq Txs \X RelayMethods
  BY <1>1, <1>2 DEF Stored
<1>6. MessagesRight'
  BY <1>1 DEF TimeInv, TypeInv, MessagesRight
<1>7. TypeInv'
  <2>1. check' \in 0..CheckEvery
    BY <1>2, <1>4
  <2> QED
    BY <1>1, <1>2, <1>5, <1>6, <2>1 DEF TypeInv
<1>8. ASSUME NEW t \in Txs, TimeRight(t), due[t] # Never, Private(t)
      PROVE  Covered(t)'
  <2>1. t \in relayable /\ ~KeptByBlock(pool, t)
    BY <1>8 DEF Private, Stored, Absent, KeptByBlock
  <2>2. Covered(t) /\ due[t] \in Int /\ pool.age[t] \in Nat
    BY <1>2, <1>8 DEF TimeRight
  <2>3. CASE due[t] + pool.age[t] > LifeTime \div 2
    BY <1>1, <2>3 DEF Covered
  <2>4. CASE due[t] >= 0 /\ ~Overdue(t)
    BY <1>1, <1>4, <1>8, <2>1, <2>4 DEF Covered
  <2>5. CASE due[t] >= 0 /\ Overdue(t) /\ Young(t)
    <3>1. <<t, pool.db[t]>> \in idle' /\ pool.db[t] \in {"stem", "forward"}
      BY <1>1, <1>8, <2>1, <2>5 DEF Private
    <3> QED
      BY <1>1, <2>5, <3>1 DEF Covered, Listed
  <2>6. CASE due[t] >= 0 /\ ~Young(t)
    <3>1. pool.age[t] > LifeTime \div 2
      BY <1>2, <2>1, <2>6 DEF Young
    <3>2. LifeTime \div 2 \in Int
      BY <1>2
    <3>3. due[t] + pool.age[t] > LifeTime \div 2
      BY <2>2, <2>6, <3>1, <3>2
    <3> QED
      BY <1>1, <3>3 DEF Covered
  <2> QED
    BY <2>2, <2>3, <2>4, <2>5, <2>6 DEF Covered
<1>9. \A t \in Txs : TimeRight(t) => TimeRight(t)'
  BY <1>1, <1>8 DEF TimeRight, Private
<1> QED
  BY <1>7, <1>9 DEF TimeInv

LEMMA RelayOverdueTime ==
  ASSUME TimeInv, RelayOverdue
  PROVE  TimeInv'
<1> DEFINE To(methods) == {t \in Txs : \E method \in methods : <<t, method>> \in idle}
           a == Dispatch(To({"local"}), "local")
           b == Dispatch(To({"forward"}), "stem")
<1>1. /\ Relayed(To(ToEverybody), "fluff")
      /\ strand' = strand \o a \o b
      /\ idle' = {}
      /\ UNCHANGED <<messages, restarts>>
  BY DEF RelayOverdue
<1>2. strand \in Seq(Jobs) /\ MessagesRight
  BY DEF TimeInv, TypeInv
<1>3. a \in Seq(Jobs) /\ b \in Seq(Jobs)
  BY DispatchJobs
<1>4. \A t \in To({"forward"}) : \E j \in Range(b) : t \in j.txs
  <2> TAKE t \in To({"forward"})
  <2>1. Range(b) = {[txs |-> To({"forward"}), method |-> "stem"]}
    BY DispatchJobs
  <2> QED
    BY <2>1
<1> HIDE DEF a, b
<1>5. strand' \in Seq(Jobs) /\ Range(strand') = Range(strand) \cup Range(a) \cup Range(b)
  <2>1. strand \o a \in Seq(Jobs) /\ (strand \o a) \o b \in Seq(Jobs)
    BY <1>2, <1>3, ConcatProperties
  <2>2. Range(strand \o a) = Range(strand) \cup Range(a)
    BY <1>2, <1>3, RangeConcatenation
  <2>3. Range((strand \o a) \o b) = Range(strand \o a) \cup Range(b)
    BY <1>3, <2>1, RangeConcatenation
  <2> QED
    BY <1>1, <2>1, <2>2, <2>3
<1>6. \A t \in Txs : Queued(t) => Queued(t)'
  <2> SUFFICES ASSUME NEW t \in Txs, Queued(t)
               PROVE  Queued(t)'
    OBVIOUS
  <2>1. \E j \in Range(strand') : t \in j.txs
    BY <1>5, QueuedInJobs
  <2> QED
    BY <2>1 DEF Queued, Range
<1>7. ASSUME NEW t \in Txs \ To(ToEverybody), Listed(t)
      PROVE  Queued(t)'
  <2>1. t \in To({"forward"})
    BY <1>7 DEF Listed, ToEverybody
  <2>2. \E j \in Range(strand') : t \in j.txs
    BY <1>4, <1>5, <2>1
  <2> QED
    BY <2>2 DEF Queued, Range
<1>8. MessagesRight'
  BY <1>1, <1>2 DEF MessagesRight
<1>9. To(ToEverybody) \in SUBSET Txs /\ idle' \subseteq Txs \X RelayMethods
  BY <1>1
<1> HIDE DEF To
<1> QED
  BY <1>1, <1>5, <1>6, <1>7, <1>8, <1>9, RelayedKeepsTime

LEMMA RemoveStuckTime ==
  ASSUME TimeInv, RemoveStuck
  PROVE  TimeInv'
<1>1. /\ pool' = RemoveStuckTransactions(pool)
      /\ due' = [t \in Txs |-> IF t \in StuckTxs(pool) THEN Never ELSE due[t]]
      /\ UNCHANGED <<check, messages, idle, strand, restarts>>
  BY DEF RemoveStuck
<1>2. TypeInv /\ due \in [Txs -> Int \cup {Never}] /\ Sound(pool)
  BY DEF TimeInv, TypeInv
<1>3. /\ Sound(pool')
      /\ \A t \in Txs :
           /\ t \in StuckTxs(pool) => pool'.db[t] = Absent
           /\ t \notin StuckTxs(pool) => pool'.db[t] = pool.db[t] /\ pool'.age[t] = pool.age[t]
  BY <1>1, <1>2, RemoveStuckSound
<1>4. TypeInv'
  <2>1. due' \in [Txs -> Int \cup {Never}]
    BY <1>1, <1>2
  <2>2. \A t \in Txs : pool'.db[t] \in Kinds \cup {Absent}
    BY <1>2, <1>3 DEF TypeInv
  <2>3. MessagesRight'
    BY <1>1, <1>2 DEF TypeInv, MessagesRight
  <2> QED
    BY <1>1, <1>2, <1>3, <2>1, <2>2, <2>3 DEF TypeInv
<1>5. ASSUME NEW t \in Txs, TimeRight(t)
      PROVE  TimeRight(t)'
  <2>1. CASE t \in StuckTxs(pool)
    BY <1>1, <2>1 DEF TimeRight
  <2>2. CASE t \notin StuckTxs(pool)
    <3>1. pool'.db[t] = pool.db[t] /\ pool'.age[t] = pool.age[t] /\ due'[t] = due[t]
      BY <1>1, <1>3, <2>2
    <3> QED
      BY <1>1, <1>5, <3>1 DEF TimeRight, Private, Covered, Listed, Queued
  <2> QED
    BY <2>1, <2>2
<1> QED
  BY <1>4, <1>5 DEF TimeInv

\* A unit of time passes: no tx is listed or waits, so that the next check is
\* what keeps the embargoes.
LEMMA TickTime ==
  ASSUME TimeInv, Tick
  PROVE  TimeInv'
<1>1. /\ check > 0 /\ idle = {} /\ StuckTxs(pool) = {} /\ strand = <<>>
      /\ pool' = [pool EXCEPT !.age =
                   [t \in Txs |-> IF t \in Stored(pool) THEN pool.age[t] + 1 ELSE pool.age[t]]]
      /\ due' = [t \in Txs |-> IF due[t] = Never THEN Never ELSE due[t] - 1]
      /\ check' = check - 1
      /\ UNCHANGED <<messages, idle, strand, restarts>>
  BY DEF Tick
<1>2. /\ TypeInv /\ due \in [Txs -> Int \cup {Never}] /\ Sound(pool) /\ pool \in PoolStates
      /\ pool.age \in [Txs -> 0..MaxAge]
      /\ check \in 0..CheckEvery /\ CheckEvery \in Nat
      /\ MaxEmbargo \in Nat /\ MaxForward \in Nat /\ LifeTime \in Nat /\ AltLifeTime \in Nat
      /\ LifeTime < MaxAge /\ AltLifeTime < MaxAge /\ MaxAge \in Nat
  BY TimesAssumption, LimitsAssumption DEF TimeInv, TypeInv, Sound, PoolStates
<1>3. \A t \in Stored(pool) : t \in Txs /\ pool.age[t] + 1 \in 0..MaxAge
  <2> TAKE t \in Stored(pool)
  <2>1. t \in Txs /\ pool.age[t] \in 0..MaxAge
    BY <1>2 DEF Stored
  <2>2. pool.age[t] <= LifeTime \/ pool.age[t] <= AltLifeTime
    BY <1>1, <1>2, <2>1 DEF StuckTxs
  <2> QED
    BY <1>2, <2>1, <2>2
<1>4. /\ pool'.age \in [Txs -> 0..MaxAge]
      /\ \A t \in Txs : t \in Stored(pool) => pool'.age[t] = pool.age[t] + 1
      /\ pool'.db = pool.db /\ pool'.ki = pool.ki /\ pool'.sorted = pool.sorted
      /\ pool'.weight = pool.weight /\ pool' \in PoolStates
  BY <1>1, <1>2, <1>3 DEF PoolStates
<1>5. Sound(pool')
  BY <1>2, <1>4, SameTableSound
<1>6. TypeInv'
  <2>1. due' \in [Txs -> Int \cup {Never}]
    BY <1>1, <1>2
  <2>2. check' \in 0..CheckEvery
    BY <1>1, <1>2
  <2>3. MessagesRight'
    BY <1>1, <1>2 DEF TypeInv, MessagesRight
  <2> QED
    BY <1>1, <1>2, <1>4, <1>5, <2>1, <2>2, <2>3 DEF TypeInv
<1>7. ASSUME NEW t \in Txs, due'[t] # Never, TimeRight(t)
      PROVE  /\ due'[t] <= MaxEmbargo + MaxForward
             /\ due'[t] + pool'.age[t] >= 0
             /\ pool'.db[t] \notin {Absent, "local"}
             /\ Private(t)' => Covered(t)'
  <2>1. due[t] # Never /\ due'[t] = due[t] - 1 /\ due[t] \in Int
    BY <1>1, <1>2, <1>7
  <2>2. t \in Stored(pool)
    BY <1>7, <2>1 DEF TimeRight, Stored
  <2>3. pool'.age[t] = pool.age[t] + 1 /\ pool.age[t] \in Nat /\ pool'.db[t] = pool.db[t]
    BY <1>2, <1>4, <2>2
  <2>4. ~Listed(t) /\ ~Queued(t)
    BY <1>1 DEF Listed, Queued
  <2>5. Private(t)' => Covered(t)'
    <3> SUFFICES ASSUME Private(t) PROVE Covered(t)'
      BY <2>3 DEF Private
    <3>1. \/ due[t] >= 0 /\ check <= due[t]
          \/ due[t] + pool.age[t] > LifeTime \div 2
      BY <1>7, <2>1, <2>4 DEF TimeRight, Covered
    <3>2. CASE due[t] >= 0 /\ check <= due[t]
      <4>1. due'[t] >= 0 /\ check' <= due'[t]
        BY <1>1, <1>2, <2>1, <3>2
      <4> QED
        BY <4>1 DEF Covered
    <3>3. CASE due[t] + pool.age[t] > LifeTime \div 2
      <4>1. due'[t] + pool'.age[t] = due[t] + pool.age[t]
        BY <2>1, <2>3
      <4> QED
        BY <3>3, <4>1 DEF Covered
    <3> QED
      BY <3>1, <3>2, <3>3
  <2> QED
    BY <1>2, <1>7, <2>1, <2>3, <2>5 DEF TimeRight
<1> QED
  BY <1>6, <1>7 DEF TimeInv, TimeRight

\* After a restart the first check is due at once.
LEMMA RestartTime ==
  ASSUME TimeInv, Restart
  PROVE  TimeInv'
<1>1. /\ restarts < MaxRestarts /\ InitSucceeds(pool.db)
      /\ pool' = InitPool(pool.db, pool.failed, pool.age)
      /\ check' = 0 /\ messages' = [s \in Sources |-> Idle] /\ idle' = {}
      /\ strand' = <<>> /\ restarts' = restarts + 1 /\ due' = due
  BY DEF Restart
<1>2. /\ TypeInv /\ due \in [Txs -> Int \cup {Never}] /\ pool \in PoolStates
      /\ CheckEvery \in Nat /\ MaxRestarts \in Nat
  BY TimesAssumption, SourcesAssumption DEF TimeInv, TypeInv, Sound
<1>3. Sound(pool') /\ pool'.db = pool.db /\ pool'.age = pool.age
  BY <1>1, <1>2, InitPoolSound
<1>4. TypeInv'
  <2>1. MessagesRight'
    BY <1>1, EmptySeq DEF MessagesRight, Idle, TypeOfMessages, RelayMethods
  <2>2. strand' \in Seq(Jobs)
    BY <1>1, EmptySeq
  <2>3. check' \in 0..CheckEvery /\ restarts' \in 0..MaxRestarts
    BY <1>1, <1>2 DEF TypeInv
  <2> QED
    BY <1>1, <1>2, <1>3, <2>1, <2>2, <2>3 DEF TypeInv
<1>5. \A t \in Txs : TimeRight(t) => TimeRight(t)'
  BY <1>1, <1>2, <1>3 DEF TimeRight, Private, Covered
<1> QED
  BY <1>4, <1>5 DEF TimeInv

LEMMA InitTime == Init => TimeInv
<1> SUFFICES ASSUME Init PROVE TimeInv
  OBVIOUS
<1>1. /\ pool = EmptyPool /\ due = [t \in Txs |-> Never] /\ check = 0
      /\ messages = [s \in Sources |-> Idle] /\ idle = {} /\ strand = <<>> /\ restarts = 0
  BY DEF Init
<1>2. Sound(pool) /\ \A t \in Txs : pool.db[t] = Absent
  BY <1>1, EmptyPoolSound
<1>3. MessagesRight
  BY <1>1, EmptySeq DEF MessagesRight, Idle, TypeOfMessages, RelayMethods
<1>4. strand \in Seq(Jobs) /\ check \in 0..CheckEvery /\ restarts \in 0..MaxRestarts
  BY <1>1, EmptySeq, TimesAssumption, SourcesAssumption
<1>5. \A t \in Txs : TimeRight(t)
  BY <1>1 DEF TimeRight
<1> QED
  BY <1>1, <1>2, <1>3, <1>4, <1>5 DEF TimeInv, TypeInv

LEMMA NextTime == TimeInv /\ [Next]_vars => TimeInv'
<1> SUFFICES ASSUME TimeInv, [Next]_vars PROVE TimeInv'
  OBVIOUS
<1>1. CASE \E s \in Sources, n \in 1..MessageSize, relay \in PeerRelays \cup {"local"} :
             \E txs \in [1..n -> Txs] : Receive(s, txs, relay)
  BY <1>1, ReceiveTime
<1>2. CASE \E s \in Sources : AddNext(s)
  BY <1>2, AddNextTime
<1>3. CASE \E s \in Sources : RelayMessage(s)
  BY <1>3, RelayMessageTime
<1>4. CASE \E fluffing, sent \in BOOLEAN : SendStem(fluffing, sent)
  BY <1>4, SendStemTime
<1>5. CASE \E fluffing \in BOOLEAN : Fluff(fluffing)
  BY <1>5, FluffTime
<1>6. CASE CheckRelayable
  BY <1>6, CheckTime
<1>7. CASE RelayOverdue
  BY <1>7, RelayOverdueTime
<1>8. CASE RemoveStuck
  BY <1>8, RemoveStuckTime
<1>9. CASE Tick
  BY <1>9, TickTime
<1>10. CASE Restart
  BY <1>10, RestartTime
<1>11. CASE UNCHANGED vars
  BY <1>11 DEF vars, TimeInv, TypeInv, MessagesRight, TimeRight, Private, Covered,
     Listed, Queued
<1> QED
  BY <1>1, <1>2, <1>3, <1>4, <1>5, <1>6, <1>7, <1>8, <1>9, <1>10, <1>11 DEF Next

LEMMA TimeInvariant == Spec => []TimeInv
BY InitTime, NextTime, PTL DEF Spec

-----------------------------------------------------------------------------
(* Txs that wait for their time *)

Waiting(t) == Queued(t) \/ \E s \in Sources : t \in messages[s].stem \cup messages[s].fluff

\* With messages of one tx, a message that is dropped has no tx in its lists.
Short ==
  \A s \in Sources : messages[s].todo # <<>> =>
    /\ Len(messages[s].todo) = 1
    /\ messages[s].stem = {} /\ messages[s].fluff = {}

\* A tx without a time is new and on its way to set_relayed.
Scheduled ==
  restarts = 0 => \A t \in Txs : pool.db[t] # Absent /\ due[t] = Never =>
                    pool.age[t] = 0 /\ Waiting(t)

ScheduleInv == TimeInv /\ Short /\ Scheduled

LEMMA RelayedKeepsSchedule ==
  ASSUME TypeInv, Scheduled, NEW S \in SUBSET Txs, NEW method \in {"stem", "fluff"},
         Relayed(S, method), restarts' = restarts,
         \A t \in Txs \ S : Waiting(t) => Waiting(t)'
  PROVE  Scheduled'
<1>1. /\ pool'.age = pool.age
      /\ \A t \in Txs : t \notin S \/ pool.db[t] = Absent =>
           pool'.db[t] = pool.db[t] /\ due'[t] = due[t]
      /\ \A t \in S : pool.db[t] # Absent => due'[t] \in 0..MaxEmbargo
  BY RelayedEffect
<1>2. \A t \in S : pool.db[t] # Absent => due'[t] # Never
  BY <1>1, NeverNoTime, TimesAssumption
<1> QED
  BY <1>1, <1>2 DEF Scheduled

\* Nobody's lists change but those of one source.
LEMMA WaitingElsewhere ==
  ASSUME MessagesRight, NEW s \in Sources, NEW m, messages' = [messages EXCEPT ![s] = m],
         \A j \in Range(strand) : j \in Range(strand'), NEW t,
         t \in messages[s].stem \cup messages[s].fluff => t \in m.stem \cup m.fluff \/ Queued(t)'
  PROVE  Waiting(t) => Waiting(t)'
<1>1. messages \in [Sources -> TypeOfMessages]
  BY DEF MessagesRight
<1>2. Queued(t) => Queued(t)'
  <2>1. Queued(t) => \E j \in Range(strand') : t \in j.txs
    BY QueuedInJobs
  <2> QED
    BY <2>1 DEF Queued, Range
<1> QED
  BY <1>1, <1>2 DEF Waiting

LEMMA AddNextSchedule ==
  ASSUME ScheduleInv, NEW s \in Sources, AddNext(s)
  PROVE  Short' /\ Scheduled'
<1> DEFINE m == messages[s]
           t == Head(m.todo)
<1>1. TypeInv /\ MessagesRight /\ messages \in [Sources -> TypeOfMessages]
  BY DEF ScheduleInv, TimeInv, TypeInv, MessagesRight
<1>2. /\ t \in Txs /\ m.relay \in Kinds /\ m.todo # <<>>
      /\ idle' = idle /\ strand' = strand /\ restarts' = restarts
      /\ \/ /\ AddTxAccepted(pool, t, m.relay, Good, Txs)
            /\ \E delay \in 0..MaxForward : Added(t, m.relay, delay)
            /\ messages' = [messages EXCEPT ![s] = AfterAdd(m, t, Effective(t, m.relay))]
         \/ /\ pool'.db = pool.db /\ pool'.age = pool.age /\ due' = due
            /\ messages' \in {[messages EXCEPT ![s] = AfterAdd(m, t, "none")],
                              [messages EXCEPT ![s] = Idle]}
  BY <1>1, AddNextCases
<1>3. /\ m \in TypeOfMessages /\ m.stem = {} /\ m.fluff = {} /\ Len(m.todo) = 1
      /\ m.todo \in Seq(Txs)
  BY <1>1, <1>2 DEF ScheduleInv, Short, TypeOfMessages
<1> HIDE DEF m
<1>4. Tail(m.todo) = <<>>
  <2>1. Tail(m.todo) \in Seq(Txs) /\ Len(Tail(m.todo)) = 0
    BY <1>2, <1>3, HeadTailProperties
  <2> QED
    BY <2>1, EmptySeq
<1>5. \A relay : /\ AfterAdd(m, t, relay).todo = <<>>
                 /\ relay \in {"stem", "local"} => t \in AfterAdd(m, t, relay).stem
                 /\ relay = "fluff" => t \in AfterAdd(m, t, relay).fluff
  BY <1>3, <1>4 DEF AfterAdd, TypeOfMessages
<1> HIDE DEF t
<1>6. PICK after \in {AfterAdd(m, t, Effective(t, m.relay)), AfterAdd(m, t, "none"), Idle} :
        messages' = [messages EXCEPT ![s] = after]
  BY <1>2
<1>7. after.todo = <<>>
  BY <1>5, <1>6 DEF Idle
<1>8. Short'
  BY <1>1, <1>6, <1>7 DEF ScheduleInv, Short
<1>9. \A u : Waiting(u) => Waiting(u)'
  <2>1. \A j \in Range(strand) : j \in Range(strand')
    BY <1>2
  <2>2. messages[s].stem = {} /\ messages[s].fluff = {}
    BY <1>3 DEF m
  <2> QED
    BY <1>1, <1>6, <2>1, <2>2, WaitingElsewhere
<1>10. CASE pool'.db = pool.db /\ pool'.age = pool.age /\ due' = due
  BY <1>2, <1>8, <1>9, <1>10 DEF ScheduleInv, Scheduled
<1>11. CASE /\ AddTxAccepted(pool, t, m.relay, Good, Txs)
            /\ \E delay \in 0..MaxForward : Added(t, m.relay, delay)
            /\ messages' = [messages EXCEPT ![s] = AfterAdd(m, t, Effective(t, m.relay))]
  <2>1. PICK delay \in 0..MaxForward : Added(t, m.relay, delay)
    BY <1>11
  <2>2. /\ \A u \in Txs \ {t} : pool'.db[u] # Absent =>
             /\ pool'.db[u] = pool.db[u] /\ pool'.age[u] = pool.age[u]
             /\ due'[u] = due[u]
        /\ pool'.db[t] # Absent =>
             /\ pool'.db[t] = StoredRelay(pool, t, m.relay)
             /\ ~Written(t, m.relay) => /\ pool'.db[t] = pool.db[t]
                                        /\ pool'.age[t] = pool.age[t]
                                        /\ due'[t] = due[t]
             /\ Written(t, m.relay) =>
                  /\ pool'.age[t] = 0
                  /\ m.relay = "forward" => due'[t] = delay
    BY <1>1, <1>2, <1>11, <2>1, AddedEffect
  <2>3. delay # Never
    BY NeverNoTime, TimesAssumption
  <2>4. ASSUME NEW u, u = t, m.relay # "forward"
        PROVE  Waiting(u)'
    <3>1. Effective(t, m.relay) \in {"local", "stem", "fluff"}
      BY <1>2, <2>4 DEF Effective, Kinds
    <3>2. messages'[s] = AfterAdd(m, t, Effective(t, m.relay))
      BY <1>1, <1>11
    <3>3. u \in messages'[s].stem \cup messages'[s].fluff
      BY <1>5, <2>4, <3>1, <3>2
    <3> QED
      BY <3>3 DEF Waiting
  <2>5. ASSUME restarts' = 0, NEW u \in Txs, pool'.db[u] # Absent, due'[u] = Never
        PROVE  pool'.age[u] = 0 /\ Waiting(u)'
    <3>1. CASE u = t /\ Written(t, m.relay)
      <4>1. pool'.db[t] # Absent /\ due'[t] = Never
        BY <2>5, <3>1
      <4>2. pool'.age[t] = 0 /\ m.relay # "forward"
        BY <2>2, <2>3, <3>1, <4>1
      <4> QED
        BY <2>4, <3>1, <4>2
    <3>2. CASE u # t \/ ~Written(t, m.relay)
      <4>1. pool'.db[u] = pool.db[u] /\ pool'.age[u] = pool.age[u] /\ due'[u] = due[u]
        BY <2>2, <2>5, <3>2
      <4> QED
        BY <1>2, <1>9, <2>5, <4>1 DEF ScheduleInv, Scheduled
    <3> QED
      BY <3>1, <3>2
  <2> QED
    BY <1>8, <2>5 DEF Scheduled
<1> QED
  BY <1>2, <1>10, <1>11

LEMMA RelayMessageSchedule ==
  ASSUME ScheduleInv, NEW s \in Sources, RelayMessage(s)
  PROVE  Short' /\ Scheduled'
<1> DEFINE m == messages[s]
           d == Dispatch(m.stem, IF s = Rpc THEN "local" ELSE "stem")
<1>1. /\ TypeInv /\ MessagesRight /\ messages \in [Sources -> TypeOfMessages]
      /\ strand \in Seq(Jobs)
  BY DEF ScheduleInv, TimeInv, TypeInv, MessagesRight
<1>2. /\ messages' = [messages EXCEPT ![s] = Idle]
      /\ strand' = strand \o d
      /\ Relayed(m.fluff, "fluff")
      /\ restarts' = restarts
  BY DEF RelayMessage
<1>3. m.stem \in SUBSET Txs /\ m.fluff \in SUBSET Txs
  BY <1>1 DEF TypeOfMessages
<1>4. d \in Seq(Jobs) /\ \A t \in m.stem : \E j \in Range(d) : t \in j.txs
  <2>1. /\ d \in Seq(Jobs)
        /\ m.stem # {} => \E method : Range(d) = {[txs |-> m.stem, method |-> method]}
    BY <1>3, DispatchJobs
  <2> SUFFICES ASSUME NEW t \in m.stem
               PROVE  \E j \in Range(d) : t \in j.txs
    BY <2>1
  <2>2. PICK method : Range(d) = {[txs |-> m.stem, method |-> method]}
    BY <2>1
  <2>3. [txs |-> m.stem, method |-> method].txs = m.stem
    OBVIOUS
  <2> HIDE DEF d, m
  <2> QED
    BY <2>2, <2>3
<1> HIDE DEF d
<1>5. Range(strand') = Range(strand) \cup Range(d)
  BY <1>1, <1>2, <1>4, RangeConcatenation
<1>6. \A t \in m.stem : Queued(t)'
  <2> TAKE t \in m.stem
  <2>1. \E j \in Range(strand') : t \in j.txs
    BY <1>4, <1>5
  <2> QED
    BY <2>1 DEF Queued, Range
<1>7. \A t \in Txs \ m.fluff : Waiting(t) => Waiting(t)'
  BY <1>1, <1>2, <1>5, <1>6, WaitingElsewhere
<1>8. Short'
  BY <1>1, <1>2 DEF ScheduleInv, Short, Idle
<1> HIDE DEF m
<1>9. Scheduled'
  BY <1>1, <1>2, <1>3, <1>7, RelayedKeepsSchedule DEF ScheduleInv
<1> QED
  BY <1>8, <1>9

LEMMA StrandSchedule ==
  ASSUME ScheduleInv, NEW method \in {"stem", "fluff"}, strand # <<>>,
         Relayed(Head(strand).txs, method), NEW more \in Seq(Jobs),
         strand' = more \o Tail(strand), UNCHANGED <<messages, idle, restarts>>
  PROVE  Short' /\ Scheduled'
<1>1. strand \in Seq(Jobs) /\ TypeInv
  BY DEF ScheduleInv, TimeInv, TypeInv
<1>2. /\ Head(strand) \in Jobs /\ Tail(strand) \in Seq(Jobs)
      /\ Range(strand) = {Head(strand)} \cup Range(Tail(strand))
  BY <1>1, HeadAndTail
<1>3. Range(strand') = Range(more) \cup Range(Tail(strand))
  <2>1. \A q \in Seq(Jobs) : Range(more \o q) = Range(more) \cup Range(q)
    BY RangeConcatenation, Zenon
  <2> QED
    BY <1>2, <2>1
<1>4. Head(strand).txs \in SUBSET Txs
  BY <1>2 DEF Jobs
<1>5. \A t \in Txs \ Head(strand).txs : Waiting(t) => Waiting(t)'
  <2> SUFFICES ASSUME NEW t \in Txs \ Head(strand).txs, Queued(t)
               PROVE  Queued(t)'
    BY DEF Waiting
  <2>1. PICK j \in Range(strand) : t \in j.txs
    BY QueuedInJobs
  <2>2. j \in Range(strand')
    BY <1>2, <1>3, <2>1
  <2> QED
    BY <2>1, <2>2 DEF Queued, Range
<1>6. Short'
  BY DEF ScheduleInv, Short
<1>7. Scheduled'
  BY <1>1, <1>4, <1>5, RelayedKeepsSchedule DEF ScheduleInv
<1> QED
  BY <1>6, <1>7

LEMMA RelayOverdueSchedule ==
  ASSUME ScheduleInv, RelayOverdue
  PROVE  Short' /\ Scheduled'
<1> DEFINE To(methods) == {t \in Txs : \E method \in methods : <<t, method>> \in idle}
           a == Dispatch(To({"local"}), "local")
           b == Dispatch(To({"forward"}), "stem")
<1>1. /\ Relayed(To(ToEverybody), "fluff")
      /\ strand' = strand \o a \o b
      /\ UNCHANGED <<messages, restarts>>
  BY DEF RelayOverdue
<1>2. strand \in Seq(Jobs) /\ TypeInv
  BY DEF ScheduleInv, TimeInv, TypeInv
<1>3. a \in Seq(Jobs) /\ b \in Seq(Jobs)
  BY DispatchJobs
<1>4. To(ToEverybody) \in SUBSET Txs
  OBVIOUS
<1> HIDE DEF a, b, To
<1>5. Range(strand') = Range(strand) \cup Range(a) \cup Range(b)
  <2>1. strand \o a \in Seq(Jobs)
    BY <1>2, <1>3, ConcatProperties
  <2>2. Range(strand \o a) = Range(strand) \cup Range(a)
    BY <1>2, <1>3, RangeConcatenation
  <2>3. Range((strand \o a) \o b) = Range(strand \o a) \cup Range(b)
    BY <1>3, <2>1, RangeConcatenation
  <2> QED
    BY <1>1, <2>2, <2>3
<1>6. \A t \in Txs : Waiting(t) => Waiting(t)'
  <2> SUFFICES ASSUME NEW t \in Txs, Queued(t)
               PROVE  Queued(t)'
    BY <1>1 DEF Waiting
  <2>1. \E j \in Range(strand') : t \in j.txs
    BY <1>5, QueuedInJobs
  <2> QED
    BY <2>1 DEF Queued, Range
<1>7. Short'
  BY <1>1 DEF ScheduleInv, Short
<1>8. Scheduled'
  BY <1>1, <1>2, <1>4, <1>6, RelayedKeepsSchedule DEF ScheduleInv
<1> QED
  BY <1>7, <1>8

LEMMA NextSchedule ==
  ASSUME MessageSize = 1, ScheduleInv, [Next]_vars
  PROVE  Short' /\ Scheduled'
<1>0. /\ TypeInv /\ strand \in Seq(Jobs) /\ Sound(pool) /\ pool \in PoolStates
      /\ messages \in [Sources -> TypeOfMessages] /\ restarts \in Nat
  BY SourcesAssumption DEF ScheduleInv, TimeInv, TypeInv, MessagesRight, Sound
<1>1. ASSUME NEW s \in Sources, NEW n \in 1..MessageSize, NEW relay \in PeerRelays \cup {"local"},
             NEW txs \in [1..n -> Txs], Receive(s, txs, relay)
      PROVE  Short' /\ Scheduled'
  <2> DEFINE m == [Idle EXCEPT !.todo = txs, !.relay = relay]
  <2>1. /\ messages[s] = Idle /\ messages' = [messages EXCEPT ![s] = m]
        /\ UNCHANGED <<pool, due, strand, restarts>>
    BY <1>1 DEF Receive
  <2>2. m.stem = {} /\ m.fluff = {} /\ m.todo = txs
    BY DEF Idle
  <2>3. Len(txs) = 1
    <3>1. n = 1 /\ txs \in Seq(Txs) /\ DOMAIN txs = 1..1
      <4>1. n = 1
        BY <1>1
      <4>2. txs \in [1..1 -> Txs]
        BY <1>1, <4>1
      <4>3. txs \in Seq(Txs)
        BY <4>2, SeqDef, 1 \in Nat
      <4> QED
        BY <4>1, <4>2, <4>3
    <3>2. Len(txs) \in Nat /\ DOMAIN txs = 1 .. Len(txs)
      BY <3>1, LenProperties
    <3> QED
      BY <3>1, <3>2
  <2> HIDE DEF m
  <2>4. Short'
    BY <1>0, <2>1, <2>2, <2>3 DEF ScheduleInv, Short
  <2>5. \A t \in Txs : Waiting(t) => Waiting(t)'
    BY <1>0, <2>1, <2>2 DEF Waiting, Queued, Idle
  <2> QED
    BY <2>1, <2>4, <2>5 DEF ScheduleInv, Scheduled
<1>2. CASE \E s \in Sources : AddNext(s)
  BY <1>2, AddNextSchedule
<1>3. CASE \E s \in Sources : RelayMessage(s)
  BY <1>3, RelayMessageSchedule
<1>4. ASSUME NEW fluffing \in BOOLEAN, NEW sent \in BOOLEAN, SendStem(fluffing, sent)
      PROVE  Short' /\ Scheduled'
  <2> DEFINE more == IF sent THEN <<>> ELSE Dispatch(Head(strand).txs, "fluff")
  <2>1. /\ Relayed(Head(strand).txs, "stem") /\ strand # <<>>
        /\ strand' = more \o Tail(strand)
        /\ UNCHANGED <<messages, idle, restarts>>
    BY <1>4 DEF SendStem
  <2>2. Head(strand).txs \in SUBSET Txs
    BY <1>0, <2>1, HeadAndTail DEF Jobs
  <2>3. more \in Seq(Jobs)
    BY <2>2, DispatchJobs, EmptySeq
  <2> HIDE DEF more
  <2> QED
    BY <2>1, <2>3, StrandSchedule
<1>5. ASSUME NEW fluffing \in BOOLEAN, Fluff(fluffing)
      PROVE  Short' /\ Scheduled'
  <2>1. /\ strand # <<>> /\ strand' = Tail(strand)
        /\ Relayed(Head(strand).txs, "fluff")
        /\ UNCHANGED <<messages, idle, restarts>>
    BY <1>5 DEF Fluff
  <2>2. <<>> \in Seq(Jobs) /\ <<>> \o Tail(strand) = Tail(strand)
    BY <1>0, <2>1, HeadAndTail, EmptySeq, ConcatEmptySeq
  <2> QED
    BY <2>1, <2>2, StrandSchedule
<1>6. CASE CheckRelayable
  BY <1>6 DEF CheckRelayable, ScheduleInv, Short, Scheduled, Waiting, Queued
<1>7. CASE RelayOverdue
  BY <1>7, RelayOverdueSchedule
<1>8. CASE RemoveStuck
  <2>1. /\ pool' = RemoveStuckTransactions(pool)
        /\ due' = [t \in Txs |-> IF t \in StuckTxs(pool) THEN Never ELSE due[t]]
        /\ UNCHANGED <<check, messages, idle, strand, restarts>>
    BY <1>8 DEF RemoveStuck
  <2>2. \A t \in Txs :
          /\ t \in StuckTxs(pool) => pool'.db[t] = Absent
          /\ t \notin StuckTxs(pool) => pool'.db[t] = pool.db[t] /\ pool'.age[t] = pool.age[t]
    BY <1>0, <2>1, RemoveStuckSound
  <2> QED
    BY <2>1, <2>2 DEF ScheduleInv, Short, Scheduled, Waiting, Queued
<1>9. CASE Tick
  <2>1. /\ strand = <<>> /\ \A s \in Sources : messages[s] = Idle
        /\ pool' = [pool EXCEPT !.age =
                     [t \in Txs |-> IF t \in Stored(pool) THEN pool.age[t] + 1 ELSE pool.age[t]]]
        /\ due' = [t \in Txs |-> IF due[t] = Never THEN Never ELSE due[t] - 1]
        /\ UNCHANGED <<messages, idle, strand, restarts>>
    BY <1>9 DEF Tick
  <2>2. \A t : ~Waiting(t)
    BY <2>1 DEF Waiting, Queued, Idle
  <2>3. \A t \in Txs : due'[t] = Never => due[t] = Never
    <3>1. \A t \in Txs : due[t] # Never => due[t] - 1 \in Int
      BY DEF ScheduleInv, TimeInv, TypeInv
    <3> QED
      BY <2>1, <3>1, NeverNoTime
  <2>4. pool'.db = pool.db
    BY <1>0, <2>1 DEF PoolStates
  <2> QED
    BY <2>1, <2>2, <2>3, <2>4 DEF ScheduleInv, Short, Scheduled
<1>10. CASE Restart
  <2>1. messages' = [s \in Sources |-> Idle] /\ restarts' = restarts + 1
    BY <1>10 DEF Restart
  <2>2. restarts' # 0
    BY <1>0, <2>1
  <2> QED
    BY <2>1, <2>2 DEF Short, Scheduled, Idle
<1>11. CASE UNCHANGED vars
  BY <1>11 DEF vars, ScheduleInv, Short, Scheduled, Waiting, Queued
<1> QED
  BY <1>1, <1>2, <1>3, <1>4, <1>5, <1>6, <1>7, <1>8, <1>9, <1>10, <1>11 DEF Next

LEMMA ScheduleInvariant ==
  ASSUME MessageSize = 1
  PROVE  Spec => []ScheduleInv
<1>1. Init => ScheduleInv
  <2> SUFFICES ASSUME Init PROVE ScheduleInv
    OBVIOUS
  <2>1. \A t \in Txs : pool.db[t] = Absent
    BY EmptyPoolSound DEF Init
  <2>2. Short /\ Scheduled
    BY <2>1 DEF Init, Short, Scheduled, Idle
  <2> QED
    BY <2>2, InitTime DEF ScheduleInv
<1>2. ScheduleInv /\ [Next]_vars => ScheduleInv'
  BY NextTime, NextSchedule DEF ScheduleInv
<1> QED
  BY <1>1, <1>2, PTL DEF Spec

-----------------------------------------------------------------------------
(* The relay methods along the way *)

\* A tx on its way to set_relayed is in the pool, or it timed out and add_tx
\* refuses it; unless it came from a wallet, it is not local there.
Gone(t) == pool.db[t] = Absent /\ t \in pool.timedOut
Kept(t) == Gone(t) \/ pool.db[t] # Absent
Past(t) == Gone(t) \/ pool.db[t] \notin {Absent, "local"}

MessagesAhead ==
  \A s \in Sources :
    /\ \A t \in messages[s].fluff : Past(t)
    /\ \A t \in messages[s].stem : Kept(t) /\ (s # Rpc => Past(t))

StrandAhead ==
  \A j \in Range(strand), t \in Txs : t \in j.txs => Kept(t) /\ (j.method # "local" => Past(t))

IdleAhead ==
  \A t \in Txs : \A method : <<t, method>> \in idle => method # "local" /\ Past(t)

AheadInv == TimeInv /\ MessagesAhead /\ StrandAhead /\ IdleAhead

\* What is true of a tx on its way stays true.
Steady == \A t \in Txs : (Kept(t) => Kept(t)') /\ (Past(t) => Past(t)')

LEMMA RelayedSteady ==
  ASSUME TypeInv, NEW S \in SUBSET Txs, NEW method \in {"stem", "fluff"},
         Relayed(S, method)
  PROVE  /\ Steady
         /\ \A t \in S : Kept(t) => Past(t)'
<1>1. /\ pool'.timedOut = pool.timedOut
      /\ \A t \in Txs : t \notin S \/ pool.db[t] = Absent => pool'.db[t] = pool.db[t]
      /\ \A t \in S : pool.db[t] # Absent => pool'.db[t] \in {"stem", "fluff"}
  BY RelayedEffect
<1>2. \A t \in S : pool.db[t] # Absent => pool'.db[t] \notin {Absent, "local"}
  BY <1>1 DEF Absent
<1> QED
  BY <1>1, <1>2 DEF Steady, Kept, Past, Gone

LEMMA SameTableSteady ==
  ASSUME pool'.db = pool.db, pool'.timedOut = pool.timedOut
  PROVE  Steady
BY DEF Steady, Kept, Past, Gone

\* A tx that is accepted has not timed out.
LEMMA AddedSteady ==
  ASSUME Weight[Txs] <= MaxWeight, TypeInv, NEW t \in Txs, NEW relay \in Kinds,
         AddTxAccepted(pool, t, relay, Good, Txs),
         \E delay \in 0..MaxForward : Added(t, relay, delay)
  PROVE  /\ Steady
         /\ pool'.db[t] = StoredRelay(pool, t, relay)
         /\ \A u \in Txs \ {t} : pool'.db[u] = pool.db[u]
<1>1. Sound(pool) /\ relay \in RelayMethods /\ relay # "block"
  BY DEF TypeInv, Kinds, RelayMethods
<1>2. pool' = AddTx(pool, t, relay, Good, Txs)
  BY DEF Added
<1>3. /\ \A u \in Txs : pool.db[u] # Absent => pool'.db[u] # Absent
      /\ pool'.db[t] = StoredRelay(pool, t, relay)
  BY <1>1, <1>2, AddTxUnpruned
<1>4. \A u \in Txs \ {t} : pool'.db[u] = pool.db[u]
  <2>1. \A u \in Txs \ {t} : pool'.db[u] = Absent \/ pool'.db[u] = pool.db[u]
    BY <1>1, <1>2, AddTxTimes
  <2> QED
    BY <1>3, <2>1
<1>5. pool'.timedOut = pool.timedOut
  <2>1. PICK delay \in 0..MaxForward : Added(t, relay, delay)
    OBVIOUS
  <2> QED
    BY <2>1, AddedEffect
<1>6. t \notin pool.timedOut
  BY <1>1 DEF AddTxAccepted, RefusedEarly
<1>7. /\ StoredRelay(pool, t, relay) # Absent
      /\ pool.db[t] \notin {Absent, "local"} => StoredRelay(pool, t, relay) # "local"
  <2>1. StoredRelay(pool, t, relay) \in Kinds /\ Effective(t, relay) \in Kinds
    BY StoredRelayKinds
  <2>2. StoredRelay(pool, t, relay) =
          IF pool.db[t] = Absent THEN relay ELSE Upgrade(pool.db[t], Effective(t, relay))
    BY DEF StoredRelay, Effective
  <2>3. pool.db[t] \in {"stem", "forward", "fluff", "local", Absent}
    BY DEF TypeInv, Kinds
  <2> QED
    BY <2>1, <2>2, <2>3, RelayOfKinds DEF Kinds, Absent
<1>8. ASSUME NEW u \in Txs
      PROVE  (Kept(u) => Kept(u)') /\ (Past(u) => Past(u)')
  <2>1. CASE u = t
    BY <1>3, <1>6, <1>7, <2>1 DEF Kept, Past, Gone
  <2>2. CASE u # t
    BY <1>4, <1>5, <2>2 DEF Kept, Past, Gone
  <2> QED
    BY <2>1, <2>2
<1> QED
  BY <1>3, <1>4, <1>8 DEF Steady

\* Changing the lists of one source.
LEMMA MessagesStayAhead ==
  ASSUME MessagesRight, MessagesAhead, Steady, NEW s \in Sources, NEW m,
         messages' = [messages EXCEPT ![s] = m],
         \A t \in Txs : /\ t \in m.fluff => Past(t)'
                        /\ t \in m.stem => Kept(t)' /\ (s # Rpc => Past(t)'),
         m.fluff \subseteq Txs, m.stem \subseteq Txs
  PROVE  MessagesAhead'
<1>1. /\ messages \in [Sources -> TypeOfMessages]
      /\ \A x \in Sources : messages[x].fluff \subseteq Txs /\ messages[x].stem \subseteq Txs
  BY DEF MessagesRight, TypeOfMessages
<1>2. ASSUME NEW x \in Sources
      PROVE  /\ \A t \in messages'[x].fluff : Past(t)'
             /\ \A t \in messages'[x].stem : Kept(t)' /\ (x # Rpc => Past(t)')
  <2>1. CASE x = s
    BY <1>1, <2>1
  <2>2. CASE x # s
    BY <1>1, <2>2 DEF MessagesAhead, Steady
  <2> QED
    BY <2>1, <2>2
<1> QED
  BY <1>2 DEF MessagesAhead

LEMMA SameMessagesAhead ==
  ASSUME MessagesRight, MessagesAhead, Steady, messages' = messages
  PROVE  MessagesAhead'
<1>1. \A x \in Sources : messages[x].fluff \subseteq Txs /\ messages[x].stem \subseteq Txs
  BY DEF MessagesRight, TypeOfMessages
<1> QED
  BY <1>1 DEF MessagesAhead, Steady

\* The jobs on the strand are old ones, or right when they are put there.
LEMMA StrandStaysAhead ==
  ASSUME StrandAhead, Steady,
         \A j \in Range(strand') : \/ j \in Range(strand)
                                   \/ \A t \in Txs : t \in j.txs =>
                                        Kept(t)' /\ (j.method # "local" => Past(t)')
  PROVE  StrandAhead'
<1> SUFFICES ASSUME NEW j \in Range(strand'), NEW t \in Txs, t \in j.txs
             PROVE  Kept(t)' /\ (j.method # "local" => Past(t)')
  BY DEF StrandAhead
<1> QED
  BY DEF StrandAhead, Steady

LEMMA SameIdleAhead ==
  ASSUME IdleAhead, Steady, idle' \subseteq idle
  PROVE  IdleAhead'
BY DEF IdleAhead, Steady

\* What a step has to do, and how the method of a tx may change in it.
FluffedByMessage(t) ==
  pool.db[t] = "local" /\ pool'.db[t] = "fluff" =>
    \E s \in Sources : /\ messages[s].relay = "fluff" /\ messages[s].todo # <<>>
                       /\ Head(messages[s].todo) = t

StepAhead ==
  /\ MessagesAhead' /\ StrandAhead' /\ IdleAhead'
  /\ \A t \in Txs : FluffedByMessage(t)

\* set_relayed takes no local tx to the public.
LEMMA RelayedNotFluffed ==
  ASSUME TypeInv, NEW S \in SUBSET Txs, NEW method \in {"stem", "fluff"},
         Relayed(S, method), method = "stem" \/ \A t \in S : Past(t)
  PROVE  \A t \in Txs : FluffedByMessage(t)
<1> SUFFICES ASSUME NEW t \in Txs, pool.db[t] = "local", pool'.db[t] = "fluff"
             PROVE  FALSE
  BY DEF FluffedByMessage
<1>1. /\ t \notin S \/ pool.db[t] = Absent => pool'.db[t] = pool.db[t]
      /\ t \in S /\ pool.db[t] # Absent /\ method = "stem" /\ pool.db[t] = "local" =>
           pool'.db[t] = "stem"
  BY RelayedEffect
<1> QED
  BY <1>1 DEF Past, Gone, Absent

LEMMA AddNextAhead ==
  ASSUME Weight[Txs] <= MaxWeight, AheadInv, NEW s \in Sources, AddNext(s)
  PROVE  StepAhead
<1> DEFINE m == messages[s]
           t == Head(m.todo)
<1>1. /\ TypeInv /\ MessagesRight /\ messages \in [Sources -> TypeOfMessages]
      /\ MessagesAhead /\ StrandAhead /\ IdleAhead
  BY DEF AheadInv, TimeInv, TypeInv, MessagesRight
<1>2. /\ t \in Txs /\ m.relay \in Kinds /\ m.todo # <<>>
      /\ s # Rpc => m.relay # "local"
      /\ idle' = idle /\ strand' = strand
      /\ \/ /\ AddTxAccepted(pool, t, m.relay, Good, Txs)
            /\ \E delay \in 0..MaxForward : Added(t, m.relay, delay)
            /\ messages' = [messages EXCEPT ![s] = AfterAdd(m, t, Effective(t, m.relay))]
         \/ /\ pool'.db = pool.db /\ pool'.timedOut = pool.timedOut
            /\ messages' \in {[messages EXCEPT ![s] = AfterAdd(m, t, "none")],
                              [messages EXCEPT ![s] = Idle]}
  BY <1>1, AddNextCases
<1>3. /\ m \in TypeOfMessages /\ m.stem \subseteq Txs /\ m.fluff \subseteq Txs
      /\ \A u \in m.fluff : Past(u)
      /\ \A u \in m.stem : Kept(u) /\ (s # Rpc => Past(u))
  BY <1>1 DEF MessagesAhead, TypeOfMessages
<1>4. \A u, relay :
        /\ AfterAdd(m, u, relay).stem =
             IF relay \in {"stem", "local"} THEN m.stem \cup {u} ELSE m.stem
        /\ AfterAdd(m, u, relay).fluff =
             IF relay = "fluff" THEN m.fluff \cup {u} ELSE m.fluff
  BY <1>3 DEF AfterAdd, TypeOfMessages
<1>5. PICK tx \in Txs : tx = t
  BY <1>2
<1>6. PICK mm \in TypeOfMessages : mm = m
  BY <1>3
<1> HIDE DEF m, t
<1>7. CASE /\ AddTxAccepted(pool, t, m.relay, Good, Txs)
           /\ \E delay \in 0..MaxForward : Added(t, m.relay, delay)
           /\ messages' = [messages EXCEPT ![s] = AfterAdd(m, t, Effective(t, m.relay))]
  <2>1. PICK kind \in Kinds : kind = Effective(t, m.relay)
    BY <1>1, <1>2, StoredRelayKinds
  <2>2. PICK after :
          /\ after = AfterAdd(m, t, kind)
          /\ after.stem = IF kind \in {"stem", "local"} THEN m.stem \cup {t} ELSE m.stem
          /\ after.fluff = IF kind = "fluff" THEN m.fluff \cup {t} ELSE m.fluff
    BY <1>4
  <2>3. /\ Steady /\ pool'.db[tx] = StoredRelay(pool, tx, mm.relay)
        /\ \A u \in Txs \ {tx} : pool'.db[u] = pool.db[u]
    BY <1>1, <1>2, <1>5, <1>6, <1>7, AddedSteady
  <2>4. /\ StoredRelay(pool, tx, mm.relay) \in Kinds
        /\ kind = "fluff" => StoredRelay(pool, tx, mm.relay) = "fluff"
        /\ kind = "stem" => StoredRelay(pool, tx, mm.relay) \in {"stem", "fluff"}
        /\ s # Rpc => kind # "local"
    <3>1. /\ StoredRelay(pool, t, m.relay) \in Kinds
          /\ Effective(t, m.relay) = "fluff" => StoredRelay(pool, t, m.relay) = "fluff"
          /\ Effective(t, m.relay) = "stem" => StoredRelay(pool, t, m.relay) \in {"stem", "fluff"}
      BY <1>1, <1>2, StoredRelayKinds
    <3>2. s # Rpc => Effective(t, m.relay) # "local"
      BY <1>2 DEF Effective
    <3> QED
      BY <1>5, <1>6, <2>1, <3>1, <3>2
  <2>5. /\ Kept(tx)'
        /\ kind \in {"stem", "fluff"} => Past(tx)'
    BY <2>3, <2>4 DEF Kept, Past, Kinds, Absent
  <2>6. ASSUME NEW u \in Txs
        PROVE  /\ u \in after.fluff => Past(u)'
               /\ u \in after.stem => Kept(u)' /\ (s # Rpc => Past(u)')
    <3>1. u = tx \/ ((u \in after.fluff => u \in m.fluff) /\ (u \in after.stem => u \in m.stem))
      BY <1>5, <2>2
    <3>2. CASE (u \in after.fluff => u \in m.fluff) /\ (u \in after.stem => u \in m.stem)
      BY <1>3, <2>3, <3>2 DEF Steady
    <3>3. CASE u = tx
      <4>1. u \in after.fluff => u \in m.fluff \/ kind = "fluff"
        BY <2>2
      <4>2. u \in after.stem => u \in m.stem \/ kind \in {"stem", "local"}
        BY <2>2
      <4> QED
        BY <1>3, <2>3, <2>4, <2>5, <3>3, <4>1, <4>2 DEF Steady
    <3> QED
      BY <3>1, <3>2, <3>3
  <2>7. after.fluff \subseteq Txs /\ after.stem \subseteq Txs
    BY <1>2, <1>3, <2>2
  <2>8. MessagesAhead'
    BY <1>1, <1>7, <2>1, <2>2, <2>3, <2>6, <2>7, MessagesStayAhead
  <2>9. ASSUME NEW u \in Txs, pool.db[u] = "local", pool'.db[u] = "fluff"
        PROVE  u = t /\ m.relay = "fluff"
    <3>1. u = tx
      BY <2>3, <2>9
    <3>2. StoredRelay(pool, tx, mm.relay) = Upgrade("local", mm.relay)
      BY <2>9, <3>1 DEF StoredRelay, Absent
    <3>3. Upgrade("local", mm.relay) = "fluff" => mm.relay = "fluff"
      BY DEF Upgrade
    <3> QED
      BY <1>5, <1>6, <2>3, <2>9, <3>1, <3>2, <3>3
  <2>10. StrandAhead' /\ IdleAhead'
    BY <1>1, <1>2, <2>3, StrandStaysAhead, SameIdleAhead
  <2> QED
    BY <1>2, <2>8, <2>9, <2>10 DEF StepAhead, FluffedByMessage, m, t
<1>8. CASE /\ pool'.db = pool.db /\ pool'.timedOut = pool.timedOut
           /\ messages' \in {[messages EXCEPT ![s] = AfterAdd(m, t, "none")],
                             [messages EXCEPT ![s] = Idle]}
  <2>1. Steady
    BY <1>8, SameTableSteady
  <2>2. PICK after \in {AfterAdd(m, t, "none"), Idle} :
          messages' = [messages EXCEPT ![s] = after]
    BY <1>8
  <2>3. after.fluff \subseteq m.fluff /\ after.stem \subseteq m.stem
    <3>1. CASE after = AfterAdd(m, t, "none")
      <4>1. AfterAdd(m, t, "none").stem = m.stem /\ AfterAdd(m, t, "none").fluff = m.fluff
        BY <1>4
      <4> QED
        BY <3>1, <4>1
    <3>2. CASE after = Idle
      BY <3>2 DEF Idle
    <3> QED
      BY <2>2, <3>1, <3>2
  <2>4. \A u \in Txs : /\ u \in after.fluff => Past(u)'
                       /\ u \in after.stem => Kept(u)' /\ (s # Rpc => Past(u)')
    BY <1>3, <2>1, <2>3 DEF Steady
  <2>5. MessagesAhead'
    BY <1>1, <1>3, <2>1, <2>2, <2>3, <2>4, MessagesStayAhead
  <2>6. StrandAhead' /\ IdleAhead'
    BY <1>1, <1>2, <2>1, StrandStaysAhead, SameIdleAhead
  <2> QED
    BY <1>8, <2>5, <2>6 DEF StepAhead, FluffedByMessage
<1> QED
  BY <1>2, <1>7, <1>8

LEMMA RelayMessageAhead ==
  ASSUME AheadInv, NEW s \in Sources, RelayMessage(s)
  PROVE  StepAhead
<1> DEFINE m == messages[s]
           kind == IF s = Rpc THEN "local" ELSE "stem"
           d == Dispatch(m.stem, kind)
<1>1. /\ TypeInv /\ MessagesRight /\ messages \in [Sources -> TypeOfMessages]
      /\ strand \in Seq(Jobs) /\ MessagesAhead /\ StrandAhead /\ IdleAhead
  BY DEF AheadInv, TimeInv, TypeInv, MessagesRight
<1>2. /\ messages' = [messages EXCEPT ![s] = Idle]
      /\ strand' = strand \o d /\ idle' = idle
      /\ Relayed(m.fluff, "fluff")
  BY DEF RelayMessage
<1>3. /\ m.stem \in SUBSET Txs /\ m.fluff \in SUBSET Txs
      /\ \A u \in m.fluff : Past(u)
      /\ \A u \in m.stem : Kept(u) /\ (s # Rpc => Past(u))
  BY <1>1 DEF TypeOfMessages, MessagesAhead
<1>4. /\ d \in Seq(Jobs)
      /\ \A j \in Range(d) : j = [txs |-> m.stem, method |-> kind]
  BY <1>3, DispatchJobs
<1> HIDE DEF d
<1>5. Range(strand') = Range(strand) \cup Range(d)
  BY <1>1, <1>2, <1>4, RangeConcatenation
<1>6. Steady /\ \A t \in Txs : FluffedByMessage(t)
  BY <1>1, <1>2, <1>3, RelayedSteady, RelayedNotFluffed
<1>7. MessagesAhead'
  <2>1. Idle.fluff = {} /\ Idle.stem = {}
    BY DEF Idle
  <2> QED
    BY <1>1, <1>2, <1>6, <2>1, MessagesStayAhead
<1>8. StrandAhead'
  <2>1. ASSUME NEW j \in Range(d), NEW t \in Txs, t \in j.txs
        PROVE  Kept(t)' /\ (j.method # "local" => Past(t)')
    <3>1. j.txs = m.stem /\ j.method = kind
      BY <1>4
    <3>2. Kept(t) /\ (j.method # "local" => Past(t))
      BY <1>3, <2>1, <3>1
    <3> QED
      BY <1>6, <3>2 DEF Steady
  <2> QED
    BY <1>1, <1>5, <1>6, <2>1, StrandStaysAhead
<1>9. IdleAhead'
  BY <1>1, <1>2, <1>6, SameIdleAhead
<1> QED
  BY <1>6, <1>7, <1>8, <1>9 DEF StepAhead

\* The callback at the head of the strand runs.
LEMMA StrandAheadStep ==
  ASSUME AheadInv, NEW method \in {"stem", "fluff"}, strand # <<>>,
         Relayed(Head(strand).txs, method), NEW more \in Seq(Jobs),
         \A j \in Range(more) : j.txs = Head(strand).txs,
         strand' = more \o Tail(strand), UNCHANGED <<messages, idle>>,
         method = "stem" \/ Head(strand).method # "local"
  PROVE  StepAhead
<1>1. /\ TypeInv /\ MessagesRight /\ strand \in Seq(Jobs)
      /\ MessagesAhead /\ StrandAhead /\ IdleAhead
  BY DEF AheadInv, TimeInv, TypeInv
<1>2. /\ Head(strand) \in Jobs /\ Tail(strand) \in Seq(Jobs)
      /\ Range(strand) = {Head(strand)} \cup Range(Tail(strand))
  BY <1>1, HeadAndTail
<1>3. Range(strand') = Range(more) \cup Range(Tail(strand))
  <2>1. \A q \in Seq(Jobs) : Range(more \o q) = Range(more) \cup Range(q)
    BY RangeConcatenation, Zenon
  <2> QED
    BY <1>2, <2>1
<1>4. /\ Head(strand).txs \in SUBSET Txs
      /\ \A t \in Head(strand).txs : Kept(t) /\ (Head(strand).method # "local" => Past(t))
  BY <1>1, <1>2 DEF Jobs, StrandAhead
<1>5. Steady /\ \A t \in Head(strand).txs : Kept(t) => Past(t)'
  BY <1>1, <1>4, RelayedSteady
<1>6. \A t \in Txs : FluffedByMessage(t)
  <2>1. method = "stem" \/ \A t \in Head(strand).txs : Past(t)
    BY <1>4
  <2> QED
    BY <1>1, <1>4, <2>1, RelayedNotFluffed
<1>7. StrandAhead'
  <2>1. ASSUME NEW j \in Range(strand'), j \notin Range(strand), NEW t \in Txs, t \in j.txs
        PROVE  Kept(t)' /\ (j.method # "local" => Past(t)')
    <3>1. t \in Head(strand).txs
      BY <1>2, <1>3, <2>1
    <3> QED
      BY <1>4, <1>5, <3>1 DEF Steady
  <2> QED
    BY <1>1, <1>5, <2>1, StrandStaysAhead
<1>8. MessagesAhead' /\ IdleAhead'
  BY <1>1, <1>5, SameMessagesAhead, SameIdleAhead
<1> QED
  BY <1>6, <1>7, <1>8 DEF StepAhead

\* No local tx has a time, so none is listed as overdue.
LEMMA CheckAhead ==
  ASSUME AheadInv, CheckRelayable
  PROVE  StepAhead
<1>1. /\ TypeInv /\ MessagesRight /\ MessagesAhead /\ StrandAhead
      /\ \A t \in Txs : TimeRight(t)
  BY DEF AheadInv, TimeInv, TypeInv
<1>2. /\ pool' = pool /\ messages' = messages /\ strand' = strand
      /\ idle' = {<<t, pool.db[t]>> : t \in {u \in Txs : pool.db[u] # Absent
                                                     /\ pool.db[u] # "none"
                                                     /\ Overdue(u) /\ Young(u)}}
  BY DEF CheckRelayable, Stored
<1>3. Steady
  BY <1>2, SameTableSteady
<1>4. \A t \in Txs : Overdue(t) => pool.db[t] \notin {Absent, "local"}
  BY <1>1 DEF Overdue, TimeRight
<1>5. IdleAhead'
  <2> SUFFICES ASSUME NEW t \in Txs, NEW method, <<t, method>> \in idle'
               PROVE  method # "local" /\ Past(t)'
    BY DEF IdleAhead
  <2>1. PICK u \in Txs : Overdue(u) /\ <<t, method>> = <<u, pool.db[u]>>
    BY <1>2
  <2>2. method = pool.db[t] /\ pool.db[t] \notin {Absent, "local"}
    BY <1>4, <2>1
  <2> QED
    BY <1>2, <2>2 DEF Past
<1>6. MessagesAhead' /\ StrandAhead'
  BY <1>1, <1>2, <1>3, SameMessagesAhead, StrandStaysAhead
<1>7. \A t \in Txs : FluffedByMessage(t)
  BY <1>2 DEF FluffedByMessage
<1> QED
  BY <1>5, <1>6, <1>7 DEF StepAhead

LEMMA RelayOverdueAhead ==
  ASSUME AheadInv, RelayOverdue
  PROVE  StepAhead
<1> DEFINE To(methods) == {t \in Txs : \E method \in methods : <<t, method>> \in idle}
           a == Dispatch(To({"local"}), "local")
           b == Dispatch(To({"forward"}), "stem")
<1>1. /\ TypeInv /\ MessagesRight /\ strand \in Seq(Jobs)
      /\ MessagesAhead /\ StrandAhead /\ IdleAhead
  BY DEF AheadInv, TimeInv, TypeInv
<1>2. /\ Relayed(To(ToEverybody), "fluff")
      /\ strand' = strand \o a \o b
      /\ idle' = {} /\ messages' = messages
  BY DEF RelayOverdue
<1>3. /\ To({"local"}) = {}
      /\ \A t \in To({"forward"}) \cup To(ToEverybody) : Past(t)
  BY <1>1 DEF IdleAhead
<1>4. /\ a \in Seq(Jobs) /\ Range(a) = {}
      /\ b \in Seq(Jobs) /\ \A j \in Range(b) : j.txs = To({"forward"})
  <2>1. /\ a \in Seq(Jobs) /\ b \in Seq(Jobs)
        /\ To({"local"}) = {} => Range(a) = {}
        /\ To({"forward"}) = {} => Range(b) = {}
        /\ To({"forward"}) # {} => Range(b) = {[txs |-> To({"forward"}), method |-> "stem"]}
    BY DispatchJobs
  <2> HIDE DEF a, b, To
  <2> QED
    BY <1>3, <2>1
<1>5. To(ToEverybody) \in SUBSET Txs
  OBVIOUS
<1> HIDE DEF a, b, To
<1>6. Range(strand') = Range(strand) \cup Range(a) \cup Range(b)
  <2>0. a \in Seq(Jobs) /\ b \in Seq(Jobs)
    BY <1>4
  <2>1. strand \o a \in Seq(Jobs)
    BY <1>1, <2>0, ConcatProperties
  <2>2. Range(strand \o a) = Range(strand) \cup Range(a)
    BY <1>1, <2>0, RangeConcatenation
  <2>3. Range((strand \o a) \o b) = Range(strand \o a) \cup Range(b)
    BY <2>0, <2>1, RangeConcatenation
  <2> QED
    BY <1>2, <2>2, <2>3
<1>7. Steady /\ \A t \in Txs : FluffedByMessage(t)
  BY <1>1, <1>2, <1>3, <1>5, RelayedSteady, RelayedNotFluffed
<1>8. StrandAhead'
  <2>1. ASSUME NEW j \in Range(strand'), j \notin Range(strand), NEW t \in Txs, t \in j.txs
        PROVE  Kept(t)' /\ Past(t)'
    <3>1. Past(t)
      BY <1>3, <1>4, <1>6, <2>1
    <3>2. Kept(t)
      BY <3>1 DEF Past, Kept
    <3> QED
      BY <1>7, <3>1, <3>2 DEF Steady
  <2> QED
    BY <1>1, <1>7, <2>1, StrandStaysAhead
<1>9. MessagesAhead' /\ IdleAhead'
  <2>1. idle' \subseteq idle
    BY <1>2
  <2> QED
    BY <1>1, <1>2, <1>7, <2>1, SameMessagesAhead, SameIdleAhead
<1> QED
  BY <1>7, <1>8, <1>9 DEF StepAhead

LEMMA EveryStepAhead ==
  ASSUME Weight[Txs] <= MaxWeight, AheadInv, [Next]_vars
  PROVE  StepAhead
<1>0. /\ TypeInv /\ MessagesRight /\ strand \in Seq(Jobs) /\ Sound(pool) /\ pool \in PoolStates
      /\ MessagesAhead /\ StrandAhead /\ IdleAhead
      /\ messages \in [Sources -> TypeOfMessages]
  BY DEF AheadInv, TimeInv, TypeInv, MessagesRight, Sound
<1>12. ASSUME Steady, \A t \in Txs : pool'.db[t] \in {pool.db[t], Absent},
             messages' = messages, strand' = strand, idle' = idle
      PROVE  StepAhead
  <2>1. MessagesAhead' /\ StrandAhead' /\ IdleAhead'
    BY <1>0, <1>12, SameMessagesAhead, StrandStaysAhead, SameIdleAhead
  <2>2. \A t \in Txs : FluffedByMessage(t)
    BY <1>12 DEF FluffedByMessage, Absent
  <2> QED
    BY <2>1, <2>2 DEF StepAhead
<1>1. ASSUME NEW s \in Sources, NEW n \in 1..MessageSize, NEW relay \in PeerRelays \cup {"local"},
             NEW txs \in [1..n -> Txs], Receive(s, txs, relay)
      PROVE  StepAhead
  <2> DEFINE m == [Idle EXCEPT !.todo = txs, !.relay = relay]
  <2>1. /\ messages' = [messages EXCEPT ![s] = m]
        /\ UNCHANGED <<pool, idle, strand>>
    BY <1>1 DEF Receive
  <2>2. m.stem = {} /\ m.fluff = {}
    BY DEF Idle
  <2> HIDE DEF m
  <2>3. Steady
    BY <2>1, SameTableSteady
  <2>4. MessagesAhead'
    BY <1>0, <2>1, <2>2, <2>3, MessagesStayAhead
  <2>5. StrandAhead' /\ IdleAhead'
    BY <1>0, <2>1, <2>3, StrandStaysAhead, SameIdleAhead
  <2>6. \A t \in Txs : FluffedByMessage(t)
    BY <2>1 DEF FluffedByMessage
  <2> QED
    BY <2>4, <2>5, <2>6 DEF StepAhead
<1>2. CASE \E s \in Sources : AddNext(s)
  BY <1>2, AddNextAhead
<1>3. CASE \E s \in Sources : RelayMessage(s)
  BY <1>3, RelayMessageAhead
<1>4. ASSUME NEW fluffing \in BOOLEAN, NEW sent \in BOOLEAN, SendStem(fluffing, sent)
      PROVE  StepAhead
  <2> DEFINE more == IF sent THEN <<>> ELSE Dispatch(Head(strand).txs, "fluff")
  <2>1. /\ Relayed(Head(strand).txs, "stem") /\ strand # <<>>
        /\ strand' = more \o Tail(strand)
        /\ UNCHANGED <<messages, idle>>
    BY <1>4 DEF SendStem
  <2>2. Head(strand).txs \in SUBSET Txs
    BY <1>0, <2>1, HeadAndTail DEF Jobs
  <2>3. more \in Seq(Jobs) /\ \A j \in Range(more) : j.txs = Head(strand).txs
    <3>1. CASE sent
      BY <3>1, EmptySeq DEF Range
    <3>2. CASE ~sent
      BY <2>2, <3>2, DispatchJobs
    <3> QED
      BY <3>1, <3>2
  <2> HIDE DEF more
  <2> QED
    BY <2>1, <2>3, StrandAheadStep
<1>5. ASSUME NEW fluffing \in BOOLEAN, Fluff(fluffing)
      PROVE  StepAhead
  <2>1. /\ strand # <<>> /\ strand' = Tail(strand)
        /\ Relayed(Head(strand).txs, "fluff")
        /\ UNCHANGED <<messages, idle>>
        /\ Head(strand).method # "local"
    BY <1>5 DEF Fluff, GoesToStem
  <2>2. PICK more : more = <<>>
    OBVIOUS
  <2>3. /\ more \in Seq(Jobs) /\ more \o Tail(strand) = Tail(strand)
        /\ \A j \in Range(more) : j.txs = Head(strand).txs
    BY <1>0, <2>1, <2>2, HeadAndTail, EmptySeq, ConcatEmptySeq DEF Range
  <2> QED
    BY <2>1, <2>3, StrandAheadStep
<1>6. CASE CheckRelayable
  BY <1>6, CheckAhead
<1>7. CASE RelayOverdue
  BY <1>7, RelayOverdueAhead
<1>8. CASE RemoveStuck
  <2>1. /\ pool' = RemoveStuckTransactions(pool)
        /\ UNCHANGED <<messages, idle, strand>>
    BY <1>8 DEF RemoveStuck
  <2>2. /\ pool'.timedOut = pool.timedOut \cup StuckTxs(pool)
        /\ \A t \in Txs :
             /\ t \in StuckTxs(pool) => pool'.db[t] = Absent
             /\ t \notin StuckTxs(pool) => pool'.db[t] = pool.db[t]
    BY <1>0, <2>1, RemoveStuckSound
  <2>3. Steady
    BY <2>2 DEF Steady, Kept, Past, Gone
  <2> QED
    BY <1>12, <2>1, <2>2, <2>3
<1>9. CASE Tick
  <2>1. /\ pool' = [pool EXCEPT !.age =
                     [t \in Txs |-> IF t \in Stored(pool) THEN pool.age[t] + 1 ELSE pool.age[t]]]
        /\ UNCHANGED <<messages, idle, strand>>
    BY <1>9 DEF Tick
  <2>2. pool'.db = pool.db /\ pool'.timedOut = pool.timedOut
    BY <1>0, <2>1 DEF PoolStates
  <2> QED
    BY <1>12, <2>1, <2>2, SameTableSteady
<1>10. CASE Restart
  <2>1. /\ messages' = [s \in Sources |-> Idle] /\ strand' = <<>> /\ idle' = {}
        /\ InitSucceeds(pool.db) /\ pool' = InitPool(pool.db, pool.failed, pool.age)
    BY <1>10 DEF Restart
  <2>2. pool'.db = pool.db
    BY <1>0, <2>1, InitPoolSound
  <2>3. MessagesAhead' /\ StrandAhead' /\ IdleAhead'
    BY <2>1 DEF MessagesAhead, StrandAhead, IdleAhead, Idle, Range
  <2> QED
    BY <2>2, <2>3 DEF StepAhead, FluffedByMessage
<1>11. CASE UNCHANGED vars
  BY <1>12, <1>11, SameTableSteady DEF vars
<1> QED
  BY <1>1, <1>2, <1>3, <1>4, <1>5, <1>6, <1>7, <1>8, <1>9, <1>10, <1>11 DEF Next

LEMMA NextAhead ==
  ASSUME Weight[Txs] <= MaxWeight, AheadInv, [Next]_vars
  PROVE  AheadInv' /\ \A t \in Txs : FluffedByMessage(t)
<1>1. StepAhead
  BY EveryStepAhead
<1>2. TimeInv'
  BY NextTime DEF AheadInv
<1> QED
  BY <1>1, <1>2 DEF AheadInv, StepAhead

LEMMA InitAhead == Init => AheadInv
<1> SUFFICES ASSUME Init PROVE AheadInv
  OBVIOUS
<1>1. TimeInv
  BY InitTime
<1>2. messages = [s \in Sources |-> Idle] /\ strand = <<>> /\ idle = {}
  BY DEF Init
<1> QED
  BY <1>1, <1>2 DEF AheadInv, MessagesAhead, StrandAhead, IdleAhead, Idle, Range

-----------------------------------------------------------------------------
(* Theorems *)

\* The state of the relay keeps its type; the times of the txs stay within
\* the ages of the txs and the longest embargo and delay.
THEOREM TypeCorrect == Spec => []TypeOK
<1>1. TimeInv => TypeOK
  <2> SUFFICES ASSUME TimeInv PROVE TypeOK
    OBVIOUS
  <2>1. /\ TypeInv /\ pool \in PoolStates /\ messages \in [Sources -> TypeOfMessages]
        /\ due \in [Txs -> Int \cup {Never}] /\ strand \in Seq(Jobs)
    BY DEF TimeInv, TypeInv, Sound, MessagesRight
  <2>2. /\ MaxEmbargo \in Nat /\ MaxForward \in Nat /\ MaxAge \in Nat
        /\ \A t \in Txs : pool.age[t] \in 0..MaxAge
    BY <2>1, TimesAssumption, LimitsAssumption DEF PoolStates
  <2>3. ASSUME NEW t \in Txs
        PROVE  due[t] \in (-MaxAge..(MaxEmbargo + MaxForward)) \cup {Never}
    <3>1. CASE due[t] = Never
      BY <3>1
    <3>2. CASE due[t] # Never
      <4>1. /\ due[t] \in Int /\ pool.age[t] \in 0..MaxAge
            /\ due[t] <= MaxEmbargo + MaxForward /\ due[t] + pool.age[t] >= 0
        BY <2>1, <2>2, <3>2 DEF TimeInv, TimeRight
      <4> QED
        BY <2>2, <4>1
    <3> QED
      BY <3>1, <3>2
  <2>4. \A i \in DOMAIN strand : strand[i] \in Jobs
    BY <2>1, ElementOfSeq, LenProperties
  <2> QED
    BY <2>1, <2>3, <2>4 DEF TypeInv, TypeOK, Jobs
<1> QED
  BY <1>1, TimeInvariant, PTL

\* No embargo is overrun: what CheckRelayable, set_relayed and add_tx do to
\* m_next_check together never lets the next check come after the end of the
\* embargo or delay of a private tx that is young enough to be relayed.
THEOREM EmbargoKept == Spec => []EmbargoHonoured
<1>1. TimeInv => EmbargoHonoured
  <2> SUFFICES ASSUME TimeInv, NEW t \in Txs, Private(t), due[t] # Never, Young(t)
               PROVE  due[t] >= 0
    BY DEF EmbargoHonoured, Stored
  <2>1. /\ due[t] \in Int /\ pool.age[t] \in Nat /\ LifeTime \in Nat
        /\ Covered(t)
    BY LimitsAssumption DEF TimeInv, TimeRight, TypeInv, Sound, PoolStates
  <2>2. pool.age[t] <= LifeTime \div 2
    BY DEF Young, Private, KeptByBlock
  <2> QED
    BY <2>1, <2>2 DEF Covered
<1> QED
  BY <1>1, TimeInvariant, PTL

\* With messages of one tx, what add_tx leaves without a time is on its way
\* to set_relayed until the process ends: no handler, callback or check on
\* the way loses it.
THEOREM NoneForgotten ==
  ASSUME MessageSize = 1
  PROVE  Spec => []RelayScheduled
<1>1. ScheduleInv => RelayScheduled
  BY DEF ScheduleInv, Scheduled, RelayScheduled, Waiting, Stored
<1> QED
  BY <1>1, ScheduleInvariant, PTL

\* With messages of one tx, remove_stuck_transactions takes no tx out of the
\* pool in private but the two kinds the property lets pass.
THEOREM MadePublic ==
  ASSUME MessageSize = 1
  PROVE  Spec => NoPrivateExpiry
<1>1. ASSUME ScheduleInv, [Next]_vars, NEW t \in pool'.timedOut \ pool.timedOut
      PROVE  \/ Broadcasted(pool.db[t])
             \/ due[t] = Never /\ restarts > 0
             \/ due[t] # Never /\ due[t] + pool.age[t] > LifeTime \div 2
  <2>0. TypeInv /\ Sound(pool) /\ strand \in Seq(Jobs) /\ MessagesRight /\ TimeInv
    BY <1>1 DEF ScheduleInv, TimeInv, TypeInv
  <2>1. RemoveStuck
    <3>1. ASSUME NEW S \in SUBSET Txs, NEW method \in {"stem", "fluff"}, Relayed(S, method)
          PROVE  FALSE
      BY <1>1, <2>0, <3>1, RelayedEffect
    <3>2. ASSUME NEW s \in Sources, AddNext(s)
          PROVE  FALSE
      <4> DEFINE m == messages[s]
                 tx == Head(m.todo)
      <4>1. /\ tx \in Txs /\ m.relay \in Kinds
            /\ \/ /\ AddTxAccepted(pool, tx, m.relay, Good, Txs)
                  /\ \E delay \in 0..MaxForward : Added(tx, m.relay, delay)
               \/ pool'.timedOut = pool.timedOut
        BY <2>0, <3>2, AddNextCases
      <4> HIDE DEF m, tx
      <4>2. pool'.timedOut = pool.timedOut
        BY <2>0, <4>1, AddedEffect
      <4> QED
        BY <1>1, <4>2
    <3>3. ASSUME NEW s \in Sources, RelayMessage(s)
          PROVE  FALSE
      <4>1. Relayed(messages[s].fluff, "fluff") /\ messages[s].fluff \in SUBSET Txs
        BY <2>0, <3>3 DEF RelayMessage, MessagesRight, TypeOfMessages
      <4> QED
        BY <3>1, <4>1
    <3>4. ASSUME strand # <<>>, NEW method \in {"stem", "fluff"}, Relayed(Head(strand).txs, method)
          PROVE  FALSE
      <4>1. Head(strand).txs \in SUBSET Txs
        BY <2>0, <3>4, HeadAndTail DEF Jobs
      <4> QED
        BY <3>1, <3>4, <4>1
    <3>5. CASE RelayOverdue
      <4>1. \E S \in SUBSET Txs : Relayed(S, "fluff")
        BY <3>5 DEF RelayOverdue
      <4> QED
        BY <3>1, <4>1
    <3>6. pool' # pool
      BY <1>1
    <3>7. ~Tick
      BY <1>1, <2>0 DEF Tick, Sound, PoolStates
    <3>8. ~Restart
      <4>1. ASSUME Restart PROVE pool'.timedOut = {}
        BY <2>0, <4>1, InitPoolSound DEF Restart, Sound
      <4> QED
        BY <1>1, <4>1
    <3>9. ~(\E fluffing, sent \in BOOLEAN : SendStem(fluffing, sent))
      BY <3>4 DEF SendStem
    <3>10. ~(\E fluffing \in BOOLEAN : Fluff(fluffing))
      BY <3>4 DEF Fluff
    <3>11. ~CheckRelayable /\ ~(UNCHANGED vars)
      BY <3>6 DEF CheckRelayable, vars
    <3>12. ASSUME NEW s \in Sources, NEW txs, NEW relay
           PROVE  ~Receive(s, txs, relay)
      BY <3>6 DEF Receive
    <3> QED
      BY <1>1, <3>2, <3>3, <3>5, <3>7, <3>8, <3>9, <3>10, <3>11, <3>12 DEF Next
  <2>2. t \in StuckTxs(pool)
    BY <1>1, <2>0, <2>1, RemoveStuckSound DEF RemoveStuck
  <2>3. /\ t \in Txs /\ pool.db[t] \in Kinds /\ pool.age[t] > LifeTime
        /\ pool.age[t] \in Nat /\ LifeTime \in Nat
    BY <2>0, <2>2, LimitsAssumption DEF StuckTxs, Stored, TypeInv, KeptByBlock, Kinds, Sound, PoolStates
  <2>4. CASE due[t] = Never
    <3>1. restarts # 0
      BY <1>1, <2>3, <2>4 DEF ScheduleInv, Scheduled, Kinds, Absent
    <3> QED
      BY <2>0, <2>4, <3>1, SourcesAssumption DEF TypeInv
  <2>5. CASE due[t] # Never
    <3>1. /\ due[t] \in Int /\ pool.db[t] \notin {Absent, "local"}
          /\ Private(t) => Covered(t)
      BY <2>0, <2>3, <2>5 DEF TimeInv, TimeRight, TypeInv
    <3>2. CASE Private(t)
      BY <2>3, <2>5, <3>1, <3>2 DEF Covered
    <3>3. CASE ~Private(t)
      BY <2>3, <3>1, <3>3 DEF Private, Kinds, Broadcasted
    <3> QED
      BY <3>2, <3>3
  <2> QED
    BY <2>4, <2>5
<1>2. ScheduleInv /\ [Next]_vars =>
        [\A t \in pool'.timedOut \ pool.timedOut :
           \/ Broadcasted(pool.db[t])
           \/ due[t] = Never /\ restarts > 0
           \/ due[t] # Never /\ due[t] + pool.age[t] > LifeTime \div 2]_vars
  BY <1>1
<1> QED
  BY <1>2, ScheduleInvariant, PTL DEF Spec, NoPrivateExpiry

\* In a pool that all txs fit in, a local tx is made public by a message of a
\* peer that fluffs it, and by nothing else: in particular no callback of the
\* strand and no overdue relay fluffs it before it has been along a stem.
THEOREM StemFirst ==
  ASSUME Weight[Txs] <= MaxWeight
  PROVE  Spec => LocalGoesThroughStem
<1>1. Init => AheadInv
  BY InitAhead
<1>2. AheadInv /\ [Next]_vars => AheadInv'
  BY NextAhead
<1>3. AheadInv /\ [Next]_vars =>
        [\A t \in Txs : pool.db[t] = "local" /\ pool'.db[t] = "fluff" =>
           \E s \in Sources : /\ messages[s].relay = "fluff" /\ messages[s].todo # <<>>
                              /\ Head(messages[s].todo) = t]_vars
  BY NextAhead DEF FluffedByMessage
<1> QED
  BY <1>1, <1>2, <1>3, PTL DEF Spec, LocalGoesThroughStem
=============================================================================
