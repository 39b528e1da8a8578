------------------------------ MODULE BatchLocks ------------------------------
(***************************************************************************)
(* The three locks of the daemon's core and the write batch of its         *)
(* database: who holds what, while threads of the network, of the RPC      *)
(* server, of the miner and of the timers run the operations of the core.  *)
(*                                                                         *)
(*   incoming   core::m_incoming_tx_lock                                   *)
(*   pool       tx_memory_pool::m_transactions_lock                        *)
(*   chain      Blockchain::m_blockchain_lock                              *)
(*                                                                         *)
(* All three are recursive.  What the operations do to the chain and to    *)
(* the pool is the subject of the other modules, which take each operation *)
(* as one step; this one shows what entitles them to.                      *)
(***************************************************************************)
EXTENDS Naturals, FiniteSets

CONSTANTS Threads,    \* threads that call the core
          Main,       \* the thread that runs core::init
          NoThread,   \* nobody
          MaxBlocks,  \* most blocks that one batch adds
          Failing     \* when a checkpoint may contradict the main chain:
                      \* a subset of {"start", "running"}

ASSUME ThreadsAssumption == Main \in Threads /\ NoThread \notin Threads
ASSUME BlocksAssumption == MaxBlocks \in Nat \ {0}

Locks == {"incoming", "pool", "chain"}

(***************************************************************************)
(* blocks       blocks of a peer or of the miner, added in one batch       *)
(* tx           a tx of a peer or of a wallet, added to the pool           *)
(* write        any other operation of the pool that writes, and           *)
(*              pop_blocks                                                 *)
(* read         a query that takes the chain lock alone                    *)
(* checkpoints  update_checkpoints, on a timer or at the end of init       *)
(***************************************************************************)
Operations == {"blocks", "tx", "write", "read", "checkpoints"}

Waiting == {"wantIncoming", "wantPool", "wantChain", "wantChainBack",
            "wantPoolBack", "wantChainToEnd", "wantPoolInside"}
Places == Waiting \cup {"idle", "preparing", "checkingInputs", "opening",
                        "writing", "adding", "ending", "leaving", "reading",
                        "starting", "checking", "returning", "checked"}

VARIABLES
  pc,        \* where each thread is
  op,        \* the operation it runs, or ran last
  left,      \* blocks it still adds in its batch
  held,      \* how many times each thread has taken each lock
  batch,     \* the thread whose batch is active (m_batch_active, m_writer)
  mine,      \* stop_batch of the thread: it has started the active batch
  updating,  \* m_checkpoints_updating
  running    \* core::init is over, the other threads run

vars == <<pc, op, left, held, batch, mine, updating, running>>

TypeOK ==
  /\ pc \in [Threads -> Places]
  /\ op \in [Threads -> Operations]
  /\ left \in [Threads -> 0 .. MaxBlocks]
  /\ held \in [Threads -> [Locks -> Nat]]
  /\ batch \in Threads \cup {NoThread}
  /\ mine \in [Threads -> BOOLEAN]
  /\ updating \in BOOLEAN
  /\ running \in BOOLEAN

Init ==
  /\ pc = [t \in Threads |-> IF t = Main THEN "wantChain" ELSE "idle"]
  /\ op = [t \in Threads |-> "checkpoints"]
  /\ left = [t \in Threads |-> 0]
  /\ held = [t \in Threads |-> [l \in Locks |-> 0]]
  /\ batch = NoThread
  /\ mine = [t \in Threads |-> FALSE]
  /\ updating = TRUE
  /\ running = FALSE

-----------------------------------------------------------------------------
(* Locks and batches *)

Free(t, l) == \A u \in Threads \ {t} : held[u][l] = 0

Take(t, l) == /\ Free(t, l)
              /\ held' = [held EXCEPT ![t][l] = @ + 1]

Release(t, ls) ==
  held' = [held EXCEPT ![t] =
             [l \in Locks |-> IF l \in ls THEN held[t][l] - 1 ELSE held[t][l]]]

\* batch_start, which returns false when a batch is active, whoever's it is
StartBatch(t) ==
  /\ mine' = [mine EXCEPT ![t] = batch = NoThread]
  /\ batch' = IF batch = NoThread THEN t ELSE batch

\* Mutant: the batch stays open.
StopIfMine_Never(t) == UNCHANGED batch
\* if (stop_batch) batch_stop(), or the end of a LockedTXN
StopIfMine(t) == batch' = IF mine[t] THEN NoThread ELSE batch

Goto(t, place) == pc' = [pc EXCEPT ![t] = place]

-----------------------------------------------------------------------------
(* The way in: the locks an operation takes, one after the other *)

\* Mutant: writers of the pool take the chain lock only.
First_ChainOnly(o) == IF o \in {"blocks", "tx"} THEN "wantIncoming" ELSE "wantChain"
First(o) == CASE o \in {"blocks", "tx"} -> "wantIncoming"
              [] o = "write" -> "wantPool"
              [] o \in {"read", "checkpoints"} -> "wantChain"

\* A second update_checkpoints returns at once.
Begin(t, o) ==
  /\ running /\ pc[t] = "idle"
  /\ o = "checkpoints" => ~updating
  /\ updating' = (updating \/ o = "checkpoints")
  /\ op' = [op EXCEPT ![t] = o]
  /\ Goto(t, First(o))
  /\ UNCHANGED <<left, held, batch, mine, running>>

TakeIncoming(t) ==
  /\ pc[t] = "wantIncoming"
  /\ Take(t, "incoming")
  /\ Goto(t, "wantPool")
  /\ UNCHANGED <<op, left, batch, mine, updating, running>>

TakePool(t) ==
  /\ pc[t] = "wantPool"
  /\ Take(t, "pool")
  /\ Goto(t, "wantChain")
  /\ UNCHANGED <<op, left, batch, mine, updating, running>>

Inside(o) == CASE o = "blocks" -> "preparing"
               [] o = "tx" -> "checkingInputs"
               [] o = "write" -> "opening"
               [] o = "read" -> "reading"
               [] o = "checkpoints" -> "starting"

TakeChain(t) ==
  /\ pc[t] = "wantChain"
  /\ Take(t, "chain")
  /\ Goto(t, Inside(op[t]))
  /\ UNCHANGED <<op, left, batch, mine, updating, running>>

-----------------------------------------------------------------------------
(* Blocks: prepare, add, cleanup *)

\* Mutants: the pool lock is given up in place of the chain's, or with it.
PrepareBatch_ReleasesPool(t) ==
  /\ pc[t] = "preparing"
  /\ StartBatch(t)
  /\ Release(t, {"pool"})
  /\ Goto(t, "wantPoolBack")
  /\ \E n \in 1 .. MaxBlocks : left' = [left EXCEPT ![t] = n]
  /\ UNCHANGED <<op, updating, running>>
PrepareBatch_ReleasesBoth(t) ==
  /\ pc[t] = "preparing"
  /\ StartBatch(t)
  /\ Release(t, {"chain", "pool"})
  /\ Goto(t, "wantPoolBack")
  /\ \E n \in 1 .. MaxBlocks : left' = [left EXCEPT ![t] = n]
  /\ UNCHANGED <<op, updating, running>>
\* With a batch of somebody else both locks are given up for a while; with
\* one's own only the chain lock is.
PrepareBatch(t) ==
  /\ pc[t] = "preparing"
  /\ StartBatch(t)
  /\ IF batch = NoThread
     THEN Release(t, {"chain"}) /\ Goto(t, "wantPoolBack")
     ELSE Release(t, {"chain", "pool"}) /\ Goto(t, "wantPool")
  /\ \E n \in 1 .. MaxBlocks : left' = [left EXCEPT ![t] = n]
  /\ UNCHANGED <<op, updating, running>>

\* add_new_block takes both locks, one of them a second time.
RetakePool(t) ==
  /\ pc[t] = "wantPoolBack"
  /\ Take(t, "pool")
  /\ Goto(t, "wantChainBack")
  /\ UNCHANGED <<op, left, batch, mine, updating, running>>

RetakeChain(t) ==
  /\ pc[t] = "wantChainBack"
  /\ Take(t, "chain")
  /\ Goto(t, IF op[t] = "blocks" THEN "adding" ELSE "opening")
  /\ UNCHANGED <<op, left, batch, mine, updating, running>>

\* The pool's own LockedTXNs inside find the batch active and start none.
AddBlock(t) ==
  /\ pc[t] = "adding"
  /\ Release(t, {"chain", "pool"})
  /\ left' = [left EXCEPT ![t] = @ - 1]
  /\ Goto(t, IF left[t] > 1 THEN "wantPoolBack" ELSE "wantChainToEnd")
  /\ UNCHANGED <<op, batch, mine, updating, running>>

TakeChainToEnd(t) ==
  /\ pc[t] = "wantChainToEnd"
  /\ Take(t, "chain")
  /\ Goto(t, "ending")
  /\ UNCHANGED <<op, left, batch, mine, updating, running>>

\* batch_stop and batch_abort throw for another thread's batch; cleanup
\* catches it.
EndBatch(t) ==
  /\ pc[t] = "ending"
  /\ batch' = IF batch = t THEN NoThread ELSE batch
  /\ Release(t, {"chain"})
  /\ Goto(t, "leaving")
  /\ UNCHANGED <<op, left, mine, updating, running>>

-----------------------------------------------------------------------------
(* Operations of the pool, and pop_blocks *)

\* check_tx_inputs takes the chain lock on its own.
CheckInputs(t) ==
  /\ pc[t] = "checkingInputs"
  /\ Release(t, {"chain"})
  /\ Goto(t, "wantChainBack")
  /\ UNCHANGED <<op, left, batch, mine, updating, running>>

OpenTxn(t) ==
  /\ pc[t] = "opening"
  /\ StartBatch(t)
  /\ Goto(t, "writing")
  /\ UNCHANGED <<op, left, held, updating, running>>

\* Writes, and the end of the LockedTXN and of the region that holds it.
Write(t) ==
  /\ pc[t] = "writing"
  /\ StopIfMine(t)
  /\ Release(t, {"chain"})
  /\ Goto(t, "leaving")
  /\ UNCHANGED <<op, left, mine, updating, running>>

Leave(t) ==
  /\ pc[t] = "leaving"
  /\ Release(t, IF op[t] = "write" THEN {"pool"} ELSE {"pool", "incoming"})
  /\ Goto(t, "idle")
  /\ UNCHANGED <<op, left, batch, mine, updating, running>>

Read(t) ==
  /\ pc[t] = "reading"
  /\ Release(t, {"chain"})
  /\ Goto(t, "idle")
  /\ UNCHANGED <<op, left, batch, mine, updating, running>>

-----------------------------------------------------------------------------
(* Checkpoints *)

StartChecks(t) ==
  /\ pc[t] = "starting"
  /\ StartBatch(t)
  /\ Goto(t, "checking")
  /\ UNCHANGED <<op, left, held, updating, running>>

\* Every point agrees with the main chain, or the chain has been cut.
EndChecks(t) ==
  /\ pc[t] \in {"checking", "checked"}
  /\ StopIfMine(t)
  /\ Release(t, {"chain"})
  /\ Goto(t, "idle")
  /\ updating' = FALSE
  /\ running' = TRUE
  /\ UNCHANGED <<op, left, mine>>

\* A point contradicts the main chain.  Popping a block writes, which throws
\* in another thread's batch: out of update_checkpoints, whose flag stays
\* set.  Otherwise the popped block's txs go back to the pool.
FailCheck(t) ==
  /\ pc[t] = "checking"
  /\ (IF running THEN "running" ELSE "start") \in Failing
  /\ IF mine[t]
     THEN Goto(t, "wantPoolInside") /\ UNCHANGED held
     ELSE Goto(t, "idle") /\ Release(t, {"chain"})
  /\ UNCHANGED <<op, left, batch, mine, updating, running>>

TakePoolInside(t) ==
  /\ pc[t] = "wantPoolInside"
  /\ Take(t, "pool")
  /\ Goto(t, "returning")
  /\ UNCHANGED <<op, left, batch, mine, updating, running>>

ReturnTxs(t) ==
  /\ pc[t] = "returning"
  /\ Release(t, {"pool"})
  /\ Goto(t, "checked")
  /\ UNCHANGED <<op, left, batch, mine, updating, running>>

-----------------------------------------------------------------------------
Continue(t) ==
  \/ TakeIncoming(t) \/ TakePool(t) \/ TakeChain(t)
  \/ PrepareBatch(t) \/ RetakePool(t) \/ RetakeChain(t) \/ AddBlock(t)
  \/ TakeChainToEnd(t) \/ EndBatch(t)
  \/ CheckInputs(t) \/ OpenTxn(t) \/ Write(t) \/ Leave(t) \/ Read(t)
  \/ StartChecks(t) \/ EndChecks(t) \/ FailCheck(t) \/ TakePoolInside(t)
  \/ ReturnTxs(t)

Next == \E t \in Threads : Continue(t) \/ \E o \in Operations : Begin(t, o)

Spec == Init /\ [][Next]_vars

(***************************************************************************)
(* A thread that is not waiting goes on, and one that waits for a lock     *)
(* which is free again and again gets it in the end: the mutexes promise   *)
(* no order, but they do not pass over a waiter for ever.                  *)
(***************************************************************************)
FairSpec == Spec /\ \A t \in Threads : SF_vars(Continue(t))

-----------------------------------------------------------------------------
(* Properties *)

\* The lock a waiting thread wants.
Wanted == [p \in Waiting |->
             CASE p = "wantIncoming" -> "incoming"
               [] p \in {"wantPool", "wantPoolBack", "wantPoolInside"} -> "pool"
               [] OTHER -> "chain"]

WaitsFor(t, u) ==
  /\ pc[t] \in Waiting
  /\ u # t
  /\ held[u][Wanted[pc[t]]] > 0

\* No two threads hold the same lock.
MutualExclusion ==
  \A l \in Locks, t, u \in Threads :
    held[t][l] > 0 /\ held[u][l] > 0 => t = u

\* No set of threads waits for locks that are all held within the set: the
\* order of locking of blockchain.cpp:4900 is enough, with the locks that
\* are taken again and those given up in between.
NoCircularWait ==
  ~\E S \in SUBSET Threads :
      S # {} /\ \A t \in S : \E u \in S : WaitsFor(t, u)

\* While a batch is active its thread holds the pool's lock or the chain's:
\* nobody finds both free and the database half written
\* (blockchain.cpp:4909-4914).
BatchUnderLock ==
  batch # NoThread => held[batch]["pool"] > 0 \/ held[batch]["chain"] > 0

\* Where a thread is about to write, a batch that is already active is its
\* own (locked_txn.h:37-39): its writes do not fail, and they are not
\* committed or aborted with another operation's.
BatchIsOwn ==
  \A t \in Threads :
    pc[t] \in {"opening", "writing", "adding", "ending", "wantPoolInside",
               "returning", "checked"}
      => batch \in {NoThread, t}

\* prepare_handle_incoming_blocks always gets its batch at once: its loop
\* that gives the locks up and sleeps with m_incoming_tx_lock held is never
\* entered.
PrepareNeverWaits ==
  \A t \in Threads : pc[t] = "preparing" => batch = NoThread

\* Every operation comes to its end.
OperationsEnd == \A t \in Threads : pc[t] # "idle" ~> pc[t] = "idle"
=============================================================================
