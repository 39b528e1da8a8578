------------------------------ MODULE TxRelay ------------------------------
(***************************************************************************)
(* How the daemon relays the txs of its pool: messages from peers and      *)
(* calls from wallets put txs in and ask for their relay, the zone's       *)
(* strand (src/src/cryptonote_protocol/levin_notify.cpp) sends them along  *)
(* a Dandelion++ stem or to everybody, and a periodic check relays what is *)
(* overdue.  The pool itself is TxPoolOps; added here is what it knows of  *)
(* time: last_relayed_time and m_next_check.                               *)
(*                                                                         *)
(* Only the public network zone sends.  Times are relative to now, as ages *)
(* are in TxPoolOps; Tick lets one unit pass once all that is due has been *)
(* done.                                                                   *)
(***************************************************************************)
EXTENDS TxPoolOps, Sequences, FiniteSetsExt, Functions

CONSTANTS
  Good,           \* txs whose inputs pass
  Sources,        \* connections of peers and RPC clients
  Rpc,            \* the source among them that is an RPC client
  PeerRelays,     \* relay methods peers' messages amount to: "stem" and
                  \* "fluff" on the public zone, "forward" over i2p and tor
  MessageSize,    \* model bound: txs in a message
  MaxEmbargo,     \* model bound: longest embargo of a stem tx
  MaxForward,     \* model bound: longest delay of a forwarded tx
  CheckEvery,     \* max_relayable_check
  MinRelay,       \* MIN_RELAY_TIME
  MaxRelay,       \* MAX_RELAY_TIME
  MaxQueue,       \* model bound: no messages come in while the strand is so long
  MaxRestarts,    \* model bound: restarts of the daemon
  Never           \* last_relayed_time at its maximum

ASSUME SourcesAssumption ==
  /\ Good \subseteq Txs
  /\ PeerRelays \subseteq {"stem", "fluff", "forward"}
  /\ MessageSize \in Nat \ {0} /\ MaxRestarts \in Nat /\ MaxQueue \in Nat

\* A tx that is sent along a stem comes out of its embargo while it is young
\* enough to be relayed; seconds against days.
ASSUME TimesAssumption ==
  /\ MaxEmbargo \in Nat /\ MaxForward \in Nat
  /\ CheckEvery \in Nat \ {0} /\ MinRelay \in Nat \ {0} /\ MaxRelay \in Nat
  /\ MaxForward + MaxEmbargo <= LifeTime \div 2
  /\ LifeTime < MaxAge /\ AltLifeTime < MaxAge
  /\ Never \notin Int

VARIABLES
  pool,      \* the pool state, see TxPoolOps
  due,       \* last_relayed_time - now, or Never
  check,     \* m_next_check - now, 0 if it is past
  messages,  \* what a source's handler has still to do, see Idle
  idle,      \* the txs the periodic check is about to relay, each with the
             \* method it had when it was listed
  strand,    \* queue of dandelionpp_notify callbacks
  restarts   \* restarts so far

vars == <<pool, due, check, messages, idle, strand, restarts>>

\* todo: txs to add; stem, fluff: txs to relay when all are added
Idle == [todo |-> <<>>, relay |-> "none", stem |-> {}, fluff |-> {}]

TypeOfMessages ==
  [todo : Seq(Txs), relay : RelayMethods,
   stem : SUBSET Txs, fluff : SUBSET Txs]

Init ==
  /\ pool = EmptyPool
  /\ due = [t \in Txs |-> Never]
  /\ check = 0
  /\ messages = [s \in Sources |-> Idle]
  /\ idle = {}
  /\ strand = <<>>
  /\ restarts = 0

-----------------------------------------------------------------------------
(* set_relayed and add_tx, with their times *)

Sooner(c, times) == Min({c} \cup (times \ {Never}))

NextCheck_Unchanged(c, times) == c
NextCheck(c, times) == Sooner(c, times)

Embargoes(S) == [S -> 0..MaxEmbargo]

\* set_relayed: the embargo of a stem tx starts, or the tx was relayed now.
\* m_next_check comes forward with the embargoes.
Relayed(S, method) ==
  LET p         == SetRelayed(pool, S, method)
      embargoed == {t \in S : p.db[t] = "stem"}
  IN
  /\ pool' = p
  /\ \E embargo \in Embargoes(embargoed) :
       /\ due' = [t \in Txs |-> IF t \notin S \/ p.db[t] = Absent THEN due[t]
                               ELSE IF t \in embargoed THEN embargo[t] ELSE 0]
       /\ check' = NextCheck(check, Range(embargo))

\* What add_tx takes the method for: a stem tx seen in stem again is fluffed.
Effective(t, relay) ==
  IF relay = "stem" /\ pool.db[t] = "stem" THEN "fluff" ELSE relay

\* add_tx writes the tx with last_relayed_time at its maximum, left for
\* set_relayed to adjust; or, to be forwarded, with the time to do so.
Written(t, relay) ==
  pool.db[t] = Absent \/ Upgrade(pool.db[t], Effective(t, relay)) # pool.db[t]

Added(t, relay, delay) ==
  /\ pool' = AddTx(pool, t, relay, Good, Txs)
  /\ due' = [u \in Txs |-> IF pool'.db[u] = Absent THEN Never
                           ELSE IF u # t \/ ~Written(t, relay) THEN due[u]
                           ELSE IF relay = "forward" THEN delay ELSE Never]
  /\ check' = IF Written(t, relay) /\ relay = "forward"
              THEN Sooner(check, {delay}) ELSE check

-----------------------------------------------------------------------------
(* Messages of txs: handle_notify_new_transactions, on_send_raw_tx *)

Receive(s, txs, relay) ==
  /\ messages[s] = Idle
  /\ Len(strand) < MaxQueue
  /\ IF s = Rpc THEN relay = "local" /\ Len(txs) = 1 ELSE relay \in PeerRelays
  /\ messages' = [messages EXCEPT ![s] = [Idle EXCEPT !.todo = txs, !.relay = relay]]
  /\ UNCHANGED <<pool, due, check, idle, strand, restarts>>

\* tvc.m_relay tells the list a tx goes to.
AfterAdd_AsSent(m, t, relay) ==
  [m EXCEPT !.todo  = Tail(m.todo),
            !.stem  = IF relay \in {"stem", "local"} THEN m.stem \cup {t} ELSE m.stem,
            !.fluff = IF m.relay = "fluff" THEN m.fluff \cup {t} ELSE m.fluff]
AfterAdd(m, t, relay) ==
  [m EXCEPT !.todo  = Tail(m.todo),
            !.stem  = IF relay \in {"stem", "local"} THEN m.stem \cup {t} ELSE m.stem,
            !.fluff = IF relay = "fluff" THEN m.fluff \cup {t} ELSE m.fluff]

\* tvc.m_no_drop_offense
NoDropOffense(t) ==
  t \notin pool.timedOut /\ (t \in NonStandard \/ HaveKeyImagesAsSpent(pool, t))

\* handle_incoming_tx for the next tx of a message.  A tx that is refused as
\* an offense ends the message: the connection is dropped.
AddNext(s) ==
  LET m == messages[s]
      t == Head(m.todo)
  IN
  /\ m.todo # <<>>
  /\ IF HaveTx(pool, t)
     THEN /\ messages' = [messages EXCEPT ![s] = AfterAdd(m, t, "none")]
          /\ UNCHANGED <<pool, due, check>>
     ELSE IF AddTxAccepted(pool, t, m.relay, Good, Txs)
     THEN /\ \E delay \in 0..MaxForward : Added(t, m.relay, delay)
          /\ messages' = [messages EXCEPT ![s] = AfterAdd(m, t, Effective(t, m.relay))]
     ELSE /\ pool' = AddTx(pool, t, m.relay, Good, Txs)
          /\ messages' = [messages EXCEPT ![s] = IF s # Rpc /\ NoDropOffense(t)
                                                 THEN AfterAdd(m, t, "none") ELSE Idle]
          /\ UNCHANGED <<due, check>>
  /\ UNCHANGED <<idle, strand, restarts>>

\* The relay at the end of a message.  Stem and local requests wait on the
\* strand; fluffed txs are marked at once.
Dispatch(S, method) == IF S = {} THEN <<>> ELSE <<[txs |-> S, method |-> method]>>

RelayMessage(s) ==
  LET m == messages[s] IN
  /\ m # Idle /\ m.todo = <<>>
  /\ messages' = [messages EXCEPT ![s] = Idle]
  /\ strand' = strand \o Dispatch(m.stem, IF s = Rpc THEN "local" ELSE "stem")
  /\ Relayed(m.fluff, "fluff")
  /\ UNCHANGED <<idle, restarts>>

-----------------------------------------------------------------------------
(* dandelionpp_notify on the zone's strand *)

GoesToStem_NotInFluffEpoch(job, fluffing) == job.method # "fluff" /\ ~fluffing
GoesToStem(job, fluffing) ==
  job.method # "fluff" /\ (~fluffing \/ job.method = "local")

\* The stem phase: the txs are marked, then sent to the next node of the
\* stem; without one they are fluffed.  fluffing: the epoch in force.
SendStem(fluffing, sent) ==
  /\ strand # <<>> /\ GoesToStem(Head(strand), fluffing)
  /\ Relayed(Head(strand).txs, "stem")
  /\ strand' = (IF sent THEN <<>> ELSE Dispatch(Head(strand).txs, "fluff")) \o Tail(strand)
  /\ UNCHANGED <<messages, idle, restarts>>

Fluff(fluffing) ==
  /\ strand # <<>> /\ ~GoesToStem(Head(strand), fluffing)
  /\ Relayed(Head(strand).txs, "fluff")
  /\ strand' = Tail(strand)
  /\ UNCHANGED <<messages, idle, restarts>>

-----------------------------------------------------------------------------
(* relay_txpool_transactions, from on_idle *)

Private(t) == pool.db[t] \in {"stem", "forward"}

\* get_relay_delay, of the difference of its arguments
RelayDelay(d) == Min({MaxRelay, ((d + MinRelay) \div MinRelay) * MinRelay})

\* A public tx with last_relayed_time at its maximum is never overdue: the
\* subtractions wrap around.
Overdue(t) ==
  /\ due[t] # Never
  /\ IF Private(t) THEN due[t] <= 0 ELSE -due[t] > RelayDelay(due[t] + pool.age[t])

Young(t) == pool.age[t] <= (IF KeptByBlock(pool, t) THEN AltLifeTime ELSE LifeTime) \div 2

\* get_relayable_transactions.  The times it writes for private txs are in a
\* LockedTXN that is not committed: they are as they were.
CheckRelayable ==
  LET relayable == {t \in Stored(pool) : pool.db[t] # "none"}
      waiting   == {t \in relayable : Private(t) /\ ~Overdue(t)}
  IN
  /\ check = 0 /\ idle = {}
  /\ idle' = {<<t, pool.db[t]>> : t \in {u \in relayable : Overdue(u) /\ Young(u)}}
  /\ check' = Sooner(CheckEvery, {due[t] : t \in waiting})
  /\ UNCHANGED <<pool, due, messages, strand, restarts>>

\* By the method a tx had when it was listed: these go to everybody.
ToEverybody_Public == {"fluff", "block"}
ToEverybody == {"stem", "fluff", "block"}

RelayOverdue ==
  LET Listed(methods) == {t \in Txs : \E method \in methods : <<t, method>> \in idle} IN
  /\ idle # {}
  /\ Relayed(Listed(ToEverybody), "fluff")
  /\ strand' = strand \o Dispatch(Listed({"local"}), "local")
                      \o Dispatch(Listed({"forward"}), "stem")
  /\ idle' = {}
  /\ UNCHANGED <<messages, restarts>>

-----------------------------------------------------------------------------
(* The rest of the world *)

\* remove_stuck_transactions, from on_idle
RemoveStuck ==
  /\ StuckTxs(pool) # {}
  /\ pool' = RemoveStuckTransactions(pool)
  /\ due' = [t \in Txs |-> IF t \in StuckTxs(pool) THEN Never ELSE due[t]]
  /\ UNCHANGED <<check, messages, idle, strand, restarts>>

\* A unit of time passes.  Handlers, periodic checks and the callbacks on the
\* strand take less than that.
Tick ==
  /\ check > 0 /\ idle = {} /\ StuckTxs(pool) = {}
  /\ \A s \in Sources : messages[s] = Idle
  /\ strand = <<>>
  /\ pool' = [pool EXCEPT !.age =
                [t \in Txs |-> IF t \in Stored(pool) THEN pool.age[t] + 1 ELSE pool.age[t]]]
  /\ due' = [t \in Txs |-> IF due[t] = Never THEN Never ELSE due[t] - 1]
  /\ check' = check - 1
  /\ UNCHANGED <<messages, idle, strand, restarts>>

\* The process ends and starts again.
Restart ==
  /\ restarts < MaxRestarts
  /\ InitSucceeds(pool.db)
  /\ pool' = InitPool(pool.db, pool.failed, pool.age)
  /\ check' = 0
  /\ messages' = [s \in Sources |-> Idle]
  /\ idle' = {}
  /\ strand' = <<>>
  /\ restarts' = restarts + 1
  /\ UNCHANGED due

Next ==
  \/ \E s \in Sources, n \in 1..MessageSize, relay \in PeerRelays \cup {"local"} :
       \E txs \in [1..n -> Txs] : IsInjective(txs) /\ Receive(s, txs, relay)
  \/ \E s \in Sources : AddNext(s) \/ RelayMessage(s)
  \/ \E fluffing, sent \in BOOLEAN : SendStem(fluffing, sent)
  \/ \E fluffing \in BOOLEAN : Fluff(fluffing)
  \/ CheckRelayable
  \/ RelayOverdue
  \/ RemoveStuck
  \/ Tick
  \/ Restart

Spec == Init /\ [][Next]_vars

-----------------------------------------------------------------------------
(* Properties *)

\* The values the state of the relay can take.
TypeOK ==
  /\ pool \in PoolStates
  /\ due \in [Txs -> (-MaxAge..(MaxEmbargo + MaxForward)) \cup {Never}]
  /\ check \in 0..CheckEvery
  /\ messages \in [Sources -> TypeOfMessages]
  /\ idle \subseteq Txs \X RelayMethods
  /\ \A i \in DOMAIN strand : strand[i] \in [txs : SUBSET Txs, method : {"local", "stem", "fluff"}]
  /\ restarts \in 0..MaxRestarts

Queued(t) == \E i \in DOMAIN strand : t \in strand[i].txs

\* add_tx leaves last_relayed_time at its maximum, as "the `set_relayed`
\* function will adjust the time accordingly later": a tx that is to be
\* relayed and has not got its time yet is still on its way to set_relayed,
\* with the handler of its message or on the strand.  Nothing else would ever
\* relay it, and it is lost with the process: a request does not survive a
\* restart, as the guard here concedes.
RelayScheduled ==
  restarts = 0 =>
    \A t \in Stored(pool) :
      pool.db[t] \in {"local", "forward", "stem", "fluff"} /\ due[t] = Never =>
        Queued(t) \/ \E s \in Sources : t \in messages[s].stem \cup messages[s].fluff

\* An embargo is not overrun: m_next_check is never later than the first
\* embargo or delay that ends, whatever stem, fluff and forwarded txs come in
\* meanwhile, and over restarts.
EmbargoHonoured ==
  \A t \in Stored(pool) : Private(t) /\ due[t] # Never /\ Young(t) => due[t] >= 0

\* No tx of a peer or a wallet grows old in the pool in private: before it
\* times out it has been made public.  Two exceptions: a tx whose request was
\* lost with a process, and one whose wallet sends it again and again, as each
\* time its embargo starts anew, until the last one ends in the second half
\* of the tx's life.
NoPrivateExpiry ==
  [][\A t \in pool'.timedOut \ pool.timedOut :
       \/ Broadcasted(pool.db[t])
       \/ due[t] = Never /\ restarts > 0
       \/ due[t] # Never /\ due[t] + pool.age[t] > LifeTime \div 2]_vars

\* The node's own txs do not start in public, not even in a fluff epoch: a
\* local tx becomes public because peers fluff it, or along a stem.
LocalGoesThroughStem ==
  [][\A t \in Txs : pool.db[t] = "local" /\ pool'.db[t] = "fluff" =>
       \E s \in Sources : /\ messages[s].relay = "fluff" /\ messages[s].todo # <<>>
                          /\ Head(messages[s].todo) = t]_vars
=============================================================================
