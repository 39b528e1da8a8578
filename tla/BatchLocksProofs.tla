--------------------------- MODULE BatchLocksProofs ---------------------------
(***************************************************************************)
(* Proofs about BatchLocks, for every set of threads and every size of a   *)
(* batch.  What a thread holds is a function of the operation it runs and  *)
(* the place it is at (Counted); with the mutexes' exclusion this says     *)
(* whose batch may be active where, and who may wait for whom.             *)
(***************************************************************************)
EXTENDS BatchLocks, TLAPS

\* Places that only some operations reach.
PlaceOf(o, p) ==
  /\ p = "wantIncoming" => o \in {"blocks", "tx"}
  /\ p \in {"wantPool", "leaving"} => o \in {"blocks", "tx", "write"}
  /\ p \in {"preparing", "wantPoolBack", "adding", "wantChainToEnd", "ending"}
       => o = "blocks"
  /\ p = "wantChainBack" => o \in {"blocks", "tx"}
  /\ p = "checkingInputs" => o = "tx"
  /\ p \in {"opening", "writing"} => o \in {"tx", "write"}
  /\ p = "reading" => o = "read"
  /\ p \in {"starting", "checking", "wantPoolInside", "returning", "checked"}
       => o = "checkpoints"

IncomingDepth(o, p) ==
  IF o \in {"blocks", "tx"} /\ p \notin {"idle", "wantIncoming"} THEN 1 ELSE 0

PoolDepth(o, p) ==
  IF p = "adding" \/ (p = "wantChainBack" /\ o = "blocks") THEN 2
  ELSE IF \/ p \in {"preparing", "checkingInputs", "opening", "writing",
                    "ending", "leaving", "wantPoolBack", "wantChainToEnd",
                    "returning", "wantChainBack"}
          \/ p = "wantChain" /\ o \in {"blocks", "tx", "write"}
       THEN 1 ELSE 0

ChainDepth(o, p) ==
  IF p \in {"preparing", "checkingInputs", "opening", "writing", "adding",
            "ending", "reading", "starting", "checking", "wantPoolInside",
            "returning", "checked"}
  THEN 1 ELSE 0

Placed == \A t \in Threads : PlaceOf(op[t], pc[t])

Depth(o, p, l) == IF l = "incoming" THEN IncomingDepth(o, p)
                  ELSE IF l = "pool" THEN PoolDepth(o, p)
                  ELSE ChainDepth(o, p)

Counted ==
  \A t \in Threads, l \in Locks : held[t][l] = Depth(op[t], pc[t], l)

\* Places between a batch's start and its end.
InBatch(o, p) ==
  \/ p \in {"wantPoolBack", "adding", "wantChainToEnd", "ending", "writing",
            "checking", "wantPoolInside", "returning", "checked"}
  \/ p = "wantChainBack" /\ o = "blocks"

BatchPlaced == batch # NoThread => InBatch(op[batch], pc[batch])

\* A thread that will stop the batch if it has started it knows whether it
\* has.
MineRight ==
  \A t \in Threads :
    /\ pc[t] \in {"writing", "checking", "wantPoolInside", "returning",
                  "checked"}
         => (mine[t] <=> batch = t)
    /\ pc[t] \in {"wantPoolInside", "returning", "checked"} => mine[t]

\* A thread that adds a block has one to add.
BlocksLeft ==
  \A t \in Threads :
    /\ pc[t] \in {"wantPoolBack", "adding"} => left[t] > 0
    /\ pc[t] = "wantChainBack" /\ op[t] = "blocks" => left[t] > 0

PlaceTypes == /\ pc \in [Threads -> Places]
              /\ op \in [Threads -> Operations]
              /\ held \in [Threads -> [Locks -> Nat]]

LockInv == PlaceTypes /\ Placed /\ Counted /\ MutualExclusion
BatchInv == TypeOK /\ LockInv /\ BatchPlaced /\ MineRight /\ BlocksLeft

-----------------------------------------------------------------------------
(* Steps that take or release locks *)

\* What a step of t does to the places, when it leaves the operations alone.
Moves(t, p) == UNCHANGED op /\ Goto(t, p)

LEMMA TakePreserves ==
  ASSUME LockInv, NEW t \in Threads, NEW l \in Locks, NEW p \in Places,
         Moves(t, p), Take(t, l),
         PlaceOf(op[t], p),
         \A m \in Locks :
           Depth(op[t], p, m) =
             IF m = l THEN Depth(op[t], pc[t], m) + 1 ELSE Depth(op[t], pc[t], m)
  PROVE  LockInv'
<1> USE DEF LockInv
<1>1. /\ \A u \in Threads : pc'[u] = IF u = t THEN p ELSE pc[u]
      /\ op' = op
  BY DEF Moves, Goto, PlaceTypes
<1>2. \A u \in Threads, m \in Locks :
        held'[u][m] = IF u = t /\ m = l THEN held[u][m] + 1 ELSE held[u][m]
  BY DEF Take, PlaceTypes
<1>3. Placed'
  BY <1>1 DEF Placed
<1>4. Counted'
  <2> SUFFICES ASSUME NEW u \in Threads, NEW m \in Locks
               PROVE  held'[u][m] = Depth(op'[u], pc'[u], m)
    BY DEF Counted
  <2>1. held[u][m] = Depth(op[u], pc[u], m)
    BY DEF Counted
  <2> QED
    BY <1>1, <1>2, <2>1
<1>5. MutualExclusion'
  BY <1>2 DEF MutualExclusion, Take, Free, PlaceTypes
<1>6. PlaceTypes'
  BY DEF Moves, Goto, Take, PlaceTypes
<1> QED
  BY <1>3, <1>4, <1>5, <1>6

LEMMA ReleasePreserves ==
  ASSUME LockInv, NEW t \in Threads, NEW ls \in SUBSET Locks,
         NEW p \in Places, Moves(t, p), Release(t, ls),
         PlaceOf(op[t], p),
         \A m \in Locks :
           Depth(op[t], p, m) =
             IF m \in ls THEN Depth(op[t], pc[t], m) - 1 ELSE Depth(op[t], pc[t], m)
  PROVE  LockInv'
<1> USE DEF LockInv
<1>1. /\ \A u \in Threads : pc'[u] = IF u = t THEN p ELSE pc[u]
      /\ op' = op
  BY DEF Moves, Goto, PlaceTypes
<1>2. \A u \in Threads, m \in Locks :
        held'[u][m] = IF u = t /\ m \in ls THEN held[u][m] - 1 ELSE held[u][m]
  BY DEF Release, PlaceTypes
<1>3. Placed'
  BY <1>1 DEF Placed
<1>4. Counted'
  <2> SUFFICES ASSUME NEW u \in Threads, NEW m \in Locks
               PROVE  held'[u][m] = Depth(op'[u], pc'[u], m)
    BY DEF Counted
  <2>1. held[u][m] = Depth(op[u], pc[u], m)
    BY DEF Counted
  <2> QED
    BY <1>1, <1>2, <2>1
<1>5. MutualExclusion'
  <2>1. \A u \in Threads, m \in Locks : held'[u][m] > 0 => held[u][m] > 0
    <3> TAKE u \in Threads, m \in Locks
    <3>1. held[u][m] \in Nat
      BY DEF PlaceTypes
    <3> QED
      BY <1>2, <3>1
  <2> QED
    BY <2>1 DEF MutualExclusion
<1>6. PlaceTypes'
  <2>1. \A m \in Locks : held'[t][m] \in Nat
    BY <1>2, <1>4 DEF Counted, Depth, IncomingDepth, PoolDepth, ChainDepth
  <2>2. held' \in [Threads -> [Locks -> Nat]]
    BY <2>1, <1>2 DEF Release, PlaceTypes
  <2> QED
    BY <2>2 DEF Moves, Goto, PlaceTypes
<1> QED
  BY <1>3, <1>4, <1>5, <1>6
-----------------------------------------------------------------------------
LEMMA InitLocks == Init => BatchInv
<1> SUFFICES ASSUME Init PROVE BatchInv
  OBVIOUS
<1>1. TypeOK
  <2>1. /\ pc \in [Threads -> Places]
        /\ op \in [Threads -> Operations]
    BY DEF Init, Places, Waiting, Operations
  <2>2. /\ left \in [Threads -> 0 .. MaxBlocks]
        /\ held \in [Threads -> [Locks -> Nat]]
    BY BlocksAssumption DEF Init
  <2>3. /\ batch \in Threads \cup {NoThread}
        /\ mine \in [Threads -> BOOLEAN]
        /\ updating \in BOOLEAN /\ running \in BOOLEAN
    BY DEF Init
  <2> QED
    BY <2>1, <2>2, <2>3 DEF TypeOK
<1>2. Placed
  BY DEF Init, Placed, PlaceOf
<1>3. Counted
  BY DEF Init, Counted, Depth, IncomingDepth, PoolDepth, ChainDepth, Locks
<1>4. MutualExclusion /\ BatchPlaced /\ MineRight /\ BlocksLeft
  BY DEF Init, MutualExclusion, BatchPlaced, MineRight, BlocksLeft
<1>5. QED
  BY <1>1, <1>2, <1>3, <1>4 DEF BatchInv, LockInv, PlaceTypes, TypeOK

LEMMA StayPreserves ==
  ASSUME LockInv, NEW t \in Threads, NEW p \in Places, Moves(t, p), held' = held,
         PlaceOf(op[t], p),
         \A m \in Locks : Depth(op[t], p, m) = Depth(op[t], pc[t], m)
  PROVE  LockInv'
<1> USE DEF LockInv
<1>1. /\ \A u \in Threads : pc'[u] = IF u = t THEN p ELSE pc[u]
      /\ op' = op
  BY DEF Moves, Goto, PlaceTypes
<1>2. Placed'
  BY <1>1 DEF Placed
<1>3. Counted'
  <2> SUFFICES ASSUME NEW u \in Threads, NEW m \in Locks
               PROVE  held'[u][m] = Depth(op'[u], pc'[u], m)
    BY DEF Counted
  <2>1. held[u][m] = Depth(op[u], pc[u], m)
    BY DEF Counted
  <2> QED
    BY <1>1, <2>1
<1>4. MutualExclusion' /\ PlaceTypes'
  BY DEF Moves, Goto, PlaceTypes, MutualExclusion
<1> QED
  BY <1>2, <1>3, <1>4

-----------------------------------------------------------------------------
(* The locks, step by step *)

LEMMA LockStep ==
  ASSUME BatchInv, [Next]_vars
  PROVE  LockInv'
<1> USE DEF BatchInv
<1>0. CASE UNCHANGED vars
  BY <1>0 DEF vars, LockInv, PlaceTypes, Placed, Counted, MutualExclusion
<1>1. ASSUME NEW t \in Threads, NEW o \in Operations, Begin(t, o)
      PROVE  LockInv'
  <2>1. /\ First(o) \in Places /\ PlaceOf(o, First(o))
        /\ \A m \in Locks : Depth(o, First(o), m) = 0
    BY DEF First, Operations, Places, Waiting, PlaceOf, Depth, IncomingDepth,
           PoolDepth, ChainDepth, Locks
  <2>2. \A m \in Locks : held[t][m] = 0
    BY <1>1 DEF Begin, LockInv, Counted, Depth, IncomingDepth, PoolDepth,
                ChainDepth, Locks
  <2>3. PlaceTypes' /\ MutualExclusion'
    BY <1>1, <2>1 DEF Begin, Goto, LockInv, PlaceTypes, MutualExclusion
  <2>4. \A u \in Threads : /\ pc'[u] = IF u = t THEN First(o) ELSE pc[u]
                           /\ op'[u] = IF u = t THEN o ELSE op[u]
    BY <1>1 DEF Begin, Goto, LockInv, PlaceTypes
  <2>5. Placed'
    BY <2>1, <2>4 DEF LockInv, Placed
  <2>6. Counted'
    <3> SUFFICES ASSUME NEW u \in Threads, NEW m \in Locks
                 PROVE  held'[u][m] = Depth(op'[u], pc'[u], m)
      BY DEF Counted
    <3>1. held[u][m] = Depth(op[u], pc[u], m) /\ held' = held
      BY <1>1 DEF Begin, LockInv, Counted
    <3> QED
      BY <2>1, <2>2, <2>4, <3>1
  <2> QED
    BY <2>3, <2>5, <2>6 DEF LockInv
<1>2. ASSUME NEW t \in Threads, Continue(t)
      PROVE  LockInv'
  <2>1. CASE TakeIncoming(t)
    <3> DEFINE p == "wantPool"
    <3>1. p \in Places /\ Moves(t, p) /\ Take(t, "incoming") /\ "incoming" \in Locks
      BY <2>1 DEF TakeIncoming, Moves, Places, Waiting, Locks, LockInv, PlaceTypes, Operations
    <3>2. /\ PlaceOf(op[t], p)
          /\ \A m \in Locks :
               Depth(op[t], p, m) =
                 IF m = "incoming" THEN Depth(op[t], pc[t], m) + 1
                 ELSE Depth(op[t], pc[t], m)
      BY <2>1 DEF TakeIncoming, LockInv, PlaceTypes, Operations, Placed, PlaceOf, Depth, IncomingDepth, PoolDepth, ChainDepth, Locks
    <3> HIDE DEF p
    <3> QED
      BY <3>1, <3>2, TakePreserves
  <2>2. CASE TakePool(t)
    <3> DEFINE p == "wantChain"
    <3>1. p \in Places /\ Moves(t, p) /\ Take(t, "pool") /\ "pool" \in Locks
      BY <2>2 DEF TakePool, Moves, Places, Waiting, Locks, LockInv, PlaceTypes, Operations
    <3>2. /\ PlaceOf(op[t], p)
          /\ \A m \in Locks :
               Depth(op[t], p, m) =
                 IF m = "pool" THEN Depth(op[t], pc[t], m) + 1
                 ELSE Depth(op[t], pc[t], m)
      BY <2>2 DEF TakePool, LockInv, PlaceTypes, Operations, Placed, PlaceOf, Depth, IncomingDepth, PoolDepth, ChainDepth, Locks
    <3> HIDE DEF p
    <3> QED
      BY <3>1, <3>2, TakePreserves
  <2>3. CASE TakeChain(t)
    <3> DEFINE p == Inside(op[t])
    <3>1. p \in Places /\ Moves(t, p) /\ Take(t, "chain") /\ "chain" \in Locks
      BY <2>3 DEF TakeChain, Moves, Places, Waiting, Locks, LockInv, PlaceTypes, Operations, Inside
    <3>2. /\ PlaceOf(op[t], p)
          /\ \A m \in Locks :
               Depth(op[t], p, m) =
                 IF m = "chain" THEN Depth(op[t], pc[t], m) + 1
                 ELSE Depth(op[t], pc[t], m)
      BY <2>3 DEF TakeChain, LockInv, PlaceTypes, Operations, Placed, PlaceOf, Depth, IncomingDepth, PoolDepth, ChainDepth, Locks, Inside
    <3> HIDE DEF p
    <3> QED
      BY <3>1, <3>2, TakePreserves
  <2>4. CASE RetakePool(t)
    <3> DEFINE p == "wantChainBack"
    <3>1. p \in Places /\ Moves(t, p) /\ Take(t, "pool") /\ "pool" \in Locks
      BY <2>4 DEF RetakePool, Moves, Places, Waiting, Locks, LockInv, PlaceTypes, Operations
    <3>2. /\ PlaceOf(op[t], p)
          /\ \A m \in Locks :
               Depth(op[t], p, m) =
                 IF m = "pool" THEN Depth(op[t], pc[t], m) + 1
                 ELSE Depth(op[t], pc[t], m)
      BY <2>4 DEF RetakePool, LockInv, PlaceTypes, Operations, Placed, PlaceOf, Depth, IncomingDepth, PoolDepth, ChainDepth, Locks
    <3> HIDE DEF p
    <3> QED
      BY <3>1, <3>2, TakePreserves
  <2>5. CASE RetakeChain(t)
    <3> DEFINE p == IF op[t] = "blocks" THEN "adding" ELSE "opening"
    <3>1. p \in Places /\ Moves(t, p) /\ Take(t, "chain") /\ "chain" \in Locks
      BY <2>5 DEF RetakeChain, Moves, Places, Waiting, Locks, LockInv, PlaceTypes, Operations
    <3>2. /\ PlaceOf(op[t], p)
          /\ \A m \in Locks :
               Depth(op[t], p, m) =
                 IF m = "chain" THEN Depth(op[t], pc[t], m) + 1
                 ELSE Depth(op[t], pc[t], m)
      BY <2>5 DEF RetakeChain, LockInv, PlaceTypes, Operations, Placed, PlaceOf, Depth, IncomingDepth, PoolDepth, ChainDepth, Locks
    <3> HIDE DEF p
    <3> QED
      BY <3>1, <3>2, TakePreserves
  <2>6. CASE TakeChainToEnd(t)
    <3> DEFINE p == "ending"
    <3>1. p \in Places /\ Moves(t, p) /\ Take(t, "chain") /\ "chain" \in Locks
      BY <2>6 DEF TakeChainToEnd, Moves, Places, Waiting, Locks, LockInv, PlaceTypes, Operations
    <3>2. /\ PlaceOf(op[t], p)
          /\ \A m \in Locks :
               Depth(op[t], p, m) =
                 IF m = "chain" THEN Depth(op[t], pc[t], m) + 1
                 ELSE Depth(op[t], pc[t], m)
      BY <2>6 DEF TakeChainToEnd, LockInv, PlaceTypes, Operations, Placed, PlaceOf, Depth, IncomingDepth, PoolDepth, ChainDepth, Locks
    <3> HIDE DEF p
    <3> QED
      BY <3>1, <3>2, TakePreserves
  <2>7. CASE TakePoolInside(t)
    <3> DEFINE p == "returning"
    <3>1. p \in Places /\ Moves(t, p) /\ Take(t, "pool") /\ "pool" \in Locks
      BY <2>7 DEF TakePoolInside, Moves, Places, Waiting, Locks, LockInv, PlaceTypes, Operations
    <3>2. /\ PlaceOf(op[t], p)
          /\ \A m \in Locks :
               Depth(op[t], p, m) =
                 IF m = "pool" THEN Depth(op[t], pc[t], m) + 1
                 ELSE Depth(op[t], pc[t], m)
      BY <2>7 DEF TakePoolInside, LockInv, PlaceTypes, Operations, Placed, PlaceOf, Depth, IncomingDepth, PoolDepth, ChainDepth, Locks
    <3> HIDE DEF p
    <3> QED
      BY <3>1, <3>2, TakePreserves
  <2>8. CASE AddBlock(t)
    <3> DEFINE p == IF left[t] > 1 THEN "wantPoolBack" ELSE "wantChainToEnd"
               ls == {"chain", "pool"}
    <3>1. p \in Places /\ Moves(t, p) /\ Release(t, ls) /\ ls \in SUBSET Locks
      BY <2>8 DEF AddBlock, Moves, Places, Waiting, Locks
    <3>2. /\ PlaceOf(op[t], p)
          /\ \A m \in Locks :
               Depth(op[t], p, m) =
                 IF m \in ls THEN Depth(op[t], pc[t], m) - 1
                 ELSE Depth(op[t], pc[t], m)
      BY <2>8 DEF AddBlock, LockInv, PlaceTypes, Operations, Placed, PlaceOf, Depth, IncomingDepth, PoolDepth, ChainDepth, Locks
    <3> HIDE DEF p, ls
    <3> QED
      BY <3>1, <3>2, ReleasePreserves
  <2>9. CASE EndBatch(t)
    <3> DEFINE p == "leaving"
               ls == {"chain"}
    <3>1. p \in Places /\ Moves(t, p) /\ Release(t, ls) /\ ls \in SUBSET Locks
      BY <2>9 DEF EndBatch, Moves, Places, Waiting, Locks
    <3>2. /\ PlaceOf(op[t], p)
          /\ \A m \in Locks :
               Depth(op[t], p, m) =
                 IF m \in ls THEN Depth(op[t], pc[t], m) - 1
                 ELSE Depth(op[t], pc[t], m)
      BY <2>9 DEF EndBatch, LockInv, PlaceTypes, Operations, Placed, PlaceOf, Depth, IncomingDepth, PoolDepth, ChainDepth, Locks
    <3> HIDE DEF p, ls
    <3> QED
      BY <3>1, <3>2, ReleasePreserves
  <2>10. CASE CheckInputs(t)
    <3> DEFINE p == "wantChainBack"
               ls == {"chain"}
    <3>1. p \in Places /\ Moves(t, p) /\ Release(t, ls) /\ ls \in SUBSET Locks
      BY <2>10 DEF CheckInputs, Moves, Places, Waiting, Locks
    <3>2. /\ PlaceOf(op[t], p)
          /\ \A m \in Locks :
               Depth(op[t], p, m) =
                 IF m \in ls THEN Depth(op[t], pc[t], m) - 1
                 ELSE Depth(op[t], pc[t], m)
      BY <2>10 DEF CheckInputs, LockInv, PlaceTypes, Operations, Placed, PlaceOf, Depth, IncomingDepth, PoolDepth, ChainDepth, Locks
    <3> HIDE DEF p, ls
    <3> QED
      BY <3>1, <3>2, ReleasePreserves
  <2>11. CASE Write(t)
    <3> DEFINE p == "leaving"
               ls == {"chain"}
    <3>1. p \in Places /\ Moves(t, p) /\ Release(t, ls) /\ ls \in SUBSET Locks
      BY <2>11 DEF Write, Moves, Places, Waiting, Locks
    <3>2. /\ PlaceOf(op[t], p)
          /\ \A m \in Locks :
               Depth(op[t], p, m) =
                 IF m \in ls THEN Depth(op[t], pc[t], m) - 1
                 ELSE Depth(op[t], pc[t], m)
      BY <2>11 DEF Write, LockInv, PlaceTypes, Operations, Placed, PlaceOf, Depth, IncomingDepth, PoolDepth, ChainDepth, Locks
    <3> HIDE DEF p, ls
    <3> QED
      BY <3>1, <3>2, ReleasePreserves
  <2>12. CASE Leave(t)
    <3> DEFINE p == "idle"
               ls == IF op[t] = "write" THEN {"pool"} ELSE {"pool", "incoming"}
    <3>1. p \in Places /\ Moves(t, p) /\ Release(t, ls) /\ ls \in SUBSET Locks
      BY <2>12 DEF Leave, Moves, Places, Waiting, Locks
    <3>2. /\ PlaceOf(op[t], p)
          /\ \A m \in Locks :
               Depth(op[t], p, m) =
                 IF m \in ls THEN Depth(op[t], pc[t], m) - 1
                 ELSE Depth(op[t], pc[t], m)
      BY <2>12 DEF Leave, LockInv, PlaceTypes, Operations, Placed, PlaceOf, Depth, IncomingDepth, PoolDepth, ChainDepth, Locks
    <3> HIDE DEF p, ls
    <3> QED
      BY <3>1, <3>2, ReleasePreserves
  <2>13. CASE Read(t)
    <3> DEFINE p == "idle"
               ls == {"chain"}
    <3>1. p \in Places /\ Moves(t, p) /\ Release(t, ls) /\ ls \in SUBSET Locks
      BY <2>13 DEF Read, Moves, Places, Waiting, Locks
    <3>2. /\ PlaceOf(op[t], p)
          /\ \A m \in Locks :
               Depth(op[t], p, m) =
                 IF m \in ls THEN Depth(op[t], pc[t], m) - 1
                 ELSE Depth(op[t], pc[t], m)
      BY <2>13 DEF Read, LockInv, PlaceTypes, Operations, Placed, PlaceOf, Depth, IncomingDepth, PoolDepth, ChainDepth, Locks
    <3> HIDE DEF p, ls
    <3> QED
      BY <3>1, <3>2, ReleasePreserves
  <2>14. CASE EndChecks(t)
    <3> DEFINE p == "idle"
               ls == {"chain"}
    <3>1. p \in Places /\ Moves(t, p) /\ Release(t, ls) /\ ls \in SUBSET Locks
      BY <2>14 DEF EndChecks, Moves, Places, Waiting, Locks
    <3>2. /\ PlaceOf(op[t], p)
          /\ \A m \in Locks :
               Depth(op[t], p, m) =
                 IF m \in ls THEN Depth(op[t], pc[t], m) - 1
                 ELSE Depth(op[t], pc[t], m)
      BY <2>14 DEF EndChecks, LockInv, PlaceTypes, Operations, Placed, PlaceOf, Depth, IncomingDepth, PoolDepth, ChainDepth, Locks
    <3> HIDE DEF p, ls
    <3> QED
      BY <3>1, <3>2, ReleasePreserves
  <2>15. CASE ReturnTxs(t)
    <3> DEFINE p == "checked"
               ls == {"pool"}
    <3>1. p \in Places /\ Moves(t, p) /\ Release(t, ls) /\ ls \in SUBSET Locks
      BY <2>15 DEF ReturnTxs, Moves, Places, Waiting, Locks
    <3>2. /\ PlaceOf(op[t], p)
          /\ \A m \in Locks :
               Depth(op[t], p, m) =
                 IF m \in ls THEN Depth(op[t], pc[t], m) - 1
                 ELSE Depth(op[t], pc[t], m)
      BY <2>15 DEF ReturnTxs, LockInv, PlaceTypes, Operations, Placed, PlaceOf, Depth, IncomingDepth, PoolDepth, ChainDepth, Locks
    <3> HIDE DEF p, ls
    <3> QED
      BY <3>1, <3>2, ReleasePreserves
  <2>16. CASE PrepareBatch(t)
    <3> DEFINE p == IF batch = NoThread THEN "wantPoolBack" ELSE "wantPool"
               ls == IF batch = NoThread THEN {"chain"} ELSE {"chain", "pool"}
    <3>1. p \in Places /\ Moves(t, p) /\ Release(t, ls) /\ ls \in SUBSET Locks
      BY <2>16 DEF PrepareBatch, Moves, Places, Waiting, Locks
    <3>2. /\ PlaceOf(op[t], p)
          /\ \A m \in Locks :
               Depth(op[t], p, m) =
                 IF m \in ls THEN Depth(op[t], pc[t], m) - 1
                 ELSE Depth(op[t], pc[t], m)
      BY <2>16 DEF PrepareBatch, LockInv, PlaceTypes, Operations, Placed, PlaceOf, Depth, IncomingDepth, PoolDepth, ChainDepth, Locks
    <3> HIDE DEF p, ls
    <3> QED
      BY <3>1, <3>2, ReleasePreserves
  <2>17. CASE OpenTxn(t)
    <3>1. "writing" \in Places /\ Moves(t, "writing") /\ held' = held
      BY <2>17 DEF OpenTxn, Moves, Places
    <3>2. /\ PlaceOf(op[t], "writing")
          /\ \A m \in Locks : Depth(op[t], "writing", m) = Depth(op[t], pc[t], m)
      BY <2>17 DEF OpenTxn, LockInv, PlaceTypes, Operations, Placed, PlaceOf, Depth, IncomingDepth, PoolDepth, ChainDepth, Locks
    <3> QED
      BY <3>1, <3>2, StayPreserves
  <2>18. CASE StartChecks(t)
    <3>1. "checking" \in Places /\ Moves(t, "checking") /\ held' = held
      BY <2>18 DEF StartChecks, Moves, Places
    <3>2. /\ PlaceOf(op[t], "checking")
          /\ \A m \in Locks : Depth(op[t], "checking", m) = Depth(op[t], pc[t], m)
      BY <2>18 DEF StartChecks, LockInv, PlaceTypes, Operations, Placed, PlaceOf, Depth, IncomingDepth, PoolDepth, ChainDepth, Locks
    <3> QED
      BY <3>1, <3>2, StayPreserves
  <2>19. CASE FailCheck(t)
    <3>1. CASE mine[t]
      <4>1. /\ "wantPoolInside" \in Places
            /\ Moves(t, "wantPoolInside") /\ held' = held
        BY <2>19, <3>1 DEF FailCheck, Moves, Places, Waiting
      <4>2. /\ PlaceOf(op[t], "wantPoolInside")
            /\ \A m \in Locks :
                 Depth(op[t], "wantPoolInside", m) = Depth(op[t], pc[t], m)
        BY <2>19 DEF FailCheck, LockInv, Placed, PlaceOf, Depth, IncomingDepth, PoolDepth, ChainDepth, Locks
      <4> QED
        BY <4>1, <4>2, StayPreserves
    <3>2. CASE ~mine[t]
      <4>1. /\ "idle" \in Places /\ Moves(t, "idle")
            /\ Release(t, {"chain"}) /\ {"chain"} \in SUBSET Locks
        BY <2>19, <3>2 DEF FailCheck, Moves, Places, Locks
      <4>2. /\ PlaceOf(op[t], "idle")
            /\ \A m \in Locks :
                 Depth(op[t], "idle", m) =
                   IF m \in {"chain"} THEN Depth(op[t], pc[t], m) - 1
                   ELSE Depth(op[t], pc[t], m)
        BY <2>19 DEF FailCheck, LockInv, Placed, PlaceOf, Depth, IncomingDepth, PoolDepth, ChainDepth, Locks
      <4> QED
        BY <4>1, <4>2, ReleasePreserves
    <3> QED
      BY <3>1, <3>2
  <2> QED
    BY <1>2, <2>1, <2>2, <2>3, <2>4, <2>5, <2>6, <2>7, <2>8, <2>9, <2>10,
       <2>11, <2>12, <2>13, <2>14, <2>15, <2>16, <2>17, <2>18, <2>19
       DEF Continue
<1> QED
  BY <1>0, <1>1, <1>2 DEF Next

-----------------------------------------------------------------------------
(* The batch, step by step *)

LEMMA TypeStep ==
  ASSUME BatchInv, [Next]_vars
  PROVE  TypeOK'
<1>1. PlaceTypes'
  BY LockStep DEF LockInv
<1>2. CASE UNCHANGED vars
  BY <1>2 DEF vars, TypeOK, BatchInv
<1>3. ASSUME NEW t \in Threads, NEW o \in Operations, Begin(t, o)
      PROVE  TypeOK'
  BY <1>1, <1>3 DEF Begin, BatchInv, TypeOK, PlaceTypes
<1>4. ASSUME NEW t \in Threads, Continue(t)
      PROVE  TypeOK'
  <2>1. CASE \/ TakeIncoming(t)
             \/ TakePool(t)
             \/ TakeChain(t)
             \/ RetakePool(t)
             \/ RetakeChain(t)
             \/ TakeChainToEnd(t)
             \/ CheckInputs(t)
             \/ Leave(t)
             \/ Read(t)
             \/ FailCheck(t)
             \/ TakePoolInside(t)
             \/ ReturnTxs(t)
    BY <1>1, <2>1 DEF TakeIncoming, TakePool, TakeChain, RetakePool, RetakeChain, TakeChainToEnd, CheckInputs, Leave, Read, FailCheck, TakePoolInside, ReturnTxs,
           BatchInv, TypeOK, PlaceTypes
  <2>2. CASE PrepareBatch(t)
    <3>1. left' \in [Threads -> 0 .. MaxBlocks]
      BY <2>2, BlocksAssumption DEF PrepareBatch, BatchInv, TypeOK
    <3> QED
      BY <1>1, <2>2, <3>1 DEF PrepareBatch, StartBatch, BatchInv, TypeOK, PlaceTypes
  <2>3. CASE AddBlock(t)
    <3>1. left[t] \in 0 .. MaxBlocks /\ left[t] > 0
      BY <2>3 DEF AddBlock, BatchInv, TypeOK, BlocksLeft
    <3>2. left[t] - 1 \in 0 .. MaxBlocks
      BY <3>1, BlocksAssumption
    <3> QED
      BY <1>1, <2>3, <3>2 DEF AddBlock, BatchInv, TypeOK, PlaceTypes
  <2>4. CASE EndBatch(t)
    BY <1>1, <2>4 DEF EndBatch, StartBatch, StopIfMine, BatchInv, TypeOK, PlaceTypes
  <2>5. CASE OpenTxn(t)
    BY <1>1, <2>5 DEF OpenTxn, StartBatch, StopIfMine, BatchInv, TypeOK, PlaceTypes
  <2>6. CASE Write(t)
    BY <1>1, <2>6 DEF Write, StartBatch, StopIfMine, BatchInv, TypeOK, PlaceTypes
  <2>7. CASE StartChecks(t)
    BY <1>1, <2>7 DEF StartChecks, StartBatch, StopIfMine, BatchInv, TypeOK, PlaceTypes
  <2>8. CASE EndChecks(t)
    BY <1>1, <2>8 DEF EndChecks, StartBatch, StopIfMine, BatchInv, TypeOK, PlaceTypes
  <2> QED
    BY <1>4, <2>1, <2>2, <2>3, <2>4, <2>5, <2>6, <2>7, <2>8 DEF Continue
<1> QED
  BY <1>2, <1>3, <1>4 DEF Next

LEMMA BatchStep ==
  ASSUME BatchInv, [Next]_vars
  PROVE  BatchPlaced' /\ MineRight' /\ BlocksLeft'
<1> USE ThreadsAssumption DEF BatchInv, LockInv, PlaceTypes
<1>1. CASE UNCHANGED vars
  BY <1>1 DEF vars, BatchPlaced, MineRight, BlocksLeft
<1>2. ASSUME NEW t \in Threads, NEW o \in Operations, Begin(t, o)
      PROVE  BatchPlaced' /\ MineRight' /\ BlocksLeft'
  <2>1. First(o) \in {"wantIncoming", "wantPool", "wantChain"}
    BY DEF First, Operations
  <2>2. batch # t
    BY <1>2 DEF Begin, BatchPlaced, InBatch
  <2> QED
    BY <1>2, <2>1, <2>2 DEF Begin, Goto, TypeOK, BatchPlaced, MineRight, BlocksLeft, InBatch
<1>3. ASSUME NEW t \in Threads, Continue(t)
      PROVE  BatchPlaced' /\ MineRight' /\ BlocksLeft'
  <2>0. PlaceOf(op[t], pc[t])
    BY DEF Placed
  <2>1. CASE TakeIncoming(t)
    BY <2>0, <2>1 DEF TakeIncoming, Goto, TypeOK, PlaceOf, BatchPlaced, MineRight,
       BlocksLeft, InBatch
  <2>2. CASE TakePool(t)
    BY <2>0, <2>2 DEF TakePool, Goto, TypeOK, PlaceOf, BatchPlaced, MineRight,
       BlocksLeft, InBatch
  <2>3. CASE TakeChain(t)
    BY <2>0, <2>3 DEF TakeChain, Goto, Inside, Operations, TypeOK, PlaceOf, BatchPlaced, MineRight,
       BlocksLeft, InBatch
  <2>4. CASE PrepareBatch(t)
    BY <2>0, <2>4 DEF PrepareBatch, Goto, StartBatch, TypeOK, PlaceOf, BatchPlaced, MineRight,
       BlocksLeft, InBatch
  <2>5. CASE RetakePool(t)
    BY <2>0, <2>5 DEF RetakePool, Goto, TypeOK, PlaceOf, BatchPlaced, MineRight,
       BlocksLeft, InBatch
  <2>6. CASE RetakeChain(t)
    BY <2>0, <2>6 DEF RetakeChain, Goto, TypeOK, PlaceOf, BatchPlaced, MineRight,
       BlocksLeft, InBatch
  <2>7. CASE AddBlock(t)
    BY <2>0, <2>7 DEF AddBlock, Goto, TypeOK, PlaceOf, BatchPlaced, MineRight,
       BlocksLeft, InBatch
  <2>8. CASE TakeChainToEnd(t)
    BY <2>0, <2>8 DEF TakeChainToEnd, Goto, TypeOK, PlaceOf, BatchPlaced, MineRight,
       BlocksLeft, InBatch
  <2>9. CASE EndBatch(t)
    BY <2>0, <2>9 DEF EndBatch, Goto, TypeOK, PlaceOf, BatchPlaced, MineRight,
       BlocksLeft, InBatch
  <2>10. CASE CheckInputs(t)
    BY <2>0, <2>10 DEF CheckInputs, Goto, TypeOK, PlaceOf, BatchPlaced, MineRight,
       BlocksLeft, InBatch
  <2>11. CASE OpenTxn(t)
    BY <2>0, <2>11 DEF OpenTxn, Goto, StartBatch, TypeOK, PlaceOf, BatchPlaced, MineRight,
       BlocksLeft, InBatch
  <2>12. CASE Write(t)
    BY <2>0, <2>12 DEF Write, Goto, StopIfMine, TypeOK, PlaceOf, BatchPlaced, MineRight,
       BlocksLeft, InBatch
  <2>13. CASE Leave(t)
    BY <2>0, <2>13 DEF Leave, Goto, TypeOK, PlaceOf, BatchPlaced, MineRight,
       BlocksLeft, InBatch
  <2>14. CASE Read(t)
    BY <2>0, <2>14 DEF Read, Goto, TypeOK, PlaceOf, BatchPlaced, MineRight,
       BlocksLeft, InBatch
  <2>15. CASE StartChecks(t)
    BY <2>0, <2>15 DEF StartChecks, Goto, StartBatch, TypeOK, PlaceOf, BatchPlaced, MineRight,
       BlocksLeft, InBatch
  <2>16. CASE EndChecks(t)
    BY <2>0, <2>16 DEF EndChecks, Goto, StopIfMine, TypeOK, PlaceOf, BatchPlaced, MineRight,
       BlocksLeft, InBatch
  <2>17. CASE FailCheck(t)
    BY <2>0, <2>17 DEF FailCheck, Goto, TypeOK, PlaceOf, BatchPlaced, MineRight,
       BlocksLeft, InBatch
  <2>18. CASE TakePoolInside(t)
    BY <2>0, <2>18 DEF TakePoolInside, Goto, TypeOK, PlaceOf, BatchPlaced, MineRight,
       BlocksLeft, InBatch
  <2>19. CASE ReturnTxs(t)
    BY <2>0, <2>19 DEF ReturnTxs, Goto, TypeOK, PlaceOf, BatchPlaced, MineRight,
       BlocksLeft, InBatch
  <2> QED
    BY <1>3, <2>1, <2>2, <2>3, <2>4, <2>5, <2>6, <2>7, <2>8, <2>9, <2>10,
       <2>11, <2>12, <2>13, <2>14, <2>15, <2>16, <2>17, <2>18, <2>19
       DEF Continue
<1> QED
  BY <1>1, <1>2, <1>3 DEF Next

LEMMA AlwaysBatchInv == Spec => []BatchInv
<1>1. BatchInv /\ [Next]_vars => BatchInv'
  BY LockStep, TypeStep, BatchStep DEF BatchInv
<1> QED
  BY InitLocks, <1>1, PTL DEF Spec

-----------------------------------------------------------------------------
(* Whose batch is active where *)

LEMMA DepthFacts ==
  ASSUME LockInv, NEW t \in Threads
  PROVE  /\ held[t]["pool"] = PoolDepth(op[t], pc[t])
         /\ held[t]["chain"] = ChainDepth(op[t], pc[t])
         /\ held[t]["incoming"] = IncomingDepth(op[t], pc[t])
         /\ PlaceOf(op[t], pc[t])
         /\ op[t] \in Operations
BY DEF LockInv, Counted, Depth, Locks, Placed, PlaceTypes

LEMMA BatchHolder ==
  ASSUME BatchInv, batch # NoThread
  PROVE  /\ batch \in Threads
         /\ InBatch(op[batch], pc[batch])
         /\ held[batch]["pool"] > 0 \/ held[batch]["chain"] > 0
<1>1. batch \in Threads /\ InBatch(op[batch], pc[batch])
  BY DEF BatchInv, TypeOK, BatchPlaced
<1>2. LockInv
  BY DEF BatchInv
<1> QED
  BY <1>1, <1>2, DepthFacts DEF InBatch, PoolDepth, ChainDepth

\* A batch that is active is that of a thread which holds the pool's lock or
\* the chain's.
THEOREM BatchAlwaysUnderLock == Spec => []BatchUnderLock
<1>1. BatchInv => BatchUnderLock
  BY BatchHolder DEF BatchUnderLock
<1> QED
  BY AlwaysBatchInv, <1>1, PTL

\* A thread that holds both locks finds no batch but its own.
LEMMA BothLocks ==
  ASSUME BatchInv, NEW t \in Threads, held[t]["pool"] > 0, held[t]["chain"] > 0
  PROVE  batch \in {NoThread, t}
<1> SUFFICES ASSUME batch # NoThread PROVE batch = t
  OBVIOUS
<1>1. MutualExclusion /\ "pool" \in Locks /\ "chain" \in Locks
  BY DEF BatchInv, LockInv, Locks
<1> QED
  BY <1>1, BatchHolder DEF MutualExclusion

\* Nobody writes into another thread's batch.
THEOREM NoForeignBatch == Spec => []BatchIsOwn
<1>1. BatchInv => BatchIsOwn
  <2> SUFFICES ASSUME BatchInv, NEW t \in Threads,
                      pc[t] \in {"opening", "writing", "adding", "ending",
                                 "wantPoolInside", "returning", "checked"}
               PROVE  batch \in {NoThread, t}
    BY DEF BatchIsOwn
  <2>1. CASE pc[t] \in {"opening", "writing", "adding", "ending"}
    <3>1. held[t]["pool"] > 0 /\ held[t]["chain"] > 0
      BY <2>1, DepthFacts DEF BatchInv, PoolDepth, ChainDepth
    <3> QED
      BY <3>1, BothLocks
  <2>2. CASE pc[t] \in {"wantPoolInside", "returning", "checked"}
    BY <2>2 DEF BatchInv, MineRight
  <2> QED
    BY <2>1, <2>2
<1> QED
  BY AlwaysBatchInv, <1>1, PTL

\* The loop that waits for somebody else's batch is dead code.
THEOREM BatchAtOnce == Spec => []PrepareNeverWaits
<1>1. BatchInv => PrepareNeverWaits
  <2> SUFFICES ASSUME BatchInv, NEW t \in Threads, pc[t] = "preparing"
               PROVE  batch = NoThread
    BY DEF PrepareNeverWaits
  <2>1. held[t]["pool"] > 0 /\ held[t]["chain"] > 0
    BY DepthFacts DEF BatchInv, PoolDepth, ChainDepth
  <2>2. batch # t
    BY BatchHolder, ThreadsAssumption DEF InBatch
  <2> QED
    BY <2>1, <2>2, BothLocks
<1> QED
  BY AlwaysBatchInv, <1>1, PTL

-----------------------------------------------------------------------------
(* Deadlock *)

\* The rollback that takes the pool's lock last only happens while the other
\* threads do not run yet.
StartInv ==
  /\ ~running => \A t \in Threads \ {Main} : pc[t] = "idle"
  /\ running => \A t \in Threads :
                  pc[t] \notin {"wantPoolInside", "returning", "checked"}

LEMMA StartStep ==
  ASSUME "running" \notin Failing, BatchInv, StartInv, [Next]_vars
  PROVE  StartInv'
<1> USE DEF BatchInv, TypeOK
<1>1. CASE UNCHANGED vars
  BY <1>1 DEF vars, StartInv
<1>2. ASSUME NEW t \in Threads, NEW o \in Operations, Begin(t, o)
      PROVE  StartInv'
  <2>1. First(o) \in {"wantIncoming", "wantPool", "wantChain"}
    BY DEF First, Operations
  <2> QED
    BY <1>2, <2>1 DEF Begin, Goto, StartInv
<1>3. ASSUME NEW t \in Threads, Continue(t)
      PROVE  StartInv'
  <2>1. ~running => t = Main
    <3>1. pc[t] # "idle"
      BY <1>3 DEF Continue, TakeIncoming, TakePool, TakeChain, PrepareBatch, RetakePool, RetakeChain, AddBlock, TakeChainToEnd, EndBatch, CheckInputs, OpenTxn, Write, Leave, Read, StartChecks, EndChecks, FailCheck, TakePoolInside, ReturnTxs
    <3> QED
      BY <3>1 DEF StartInv
  <2>2. CASE TakeIncoming(t)
    BY <2>1, <2>2 DEF TakeIncoming, Goto, StartInv
  <2>3. CASE TakePool(t)
    BY <2>1, <2>3 DEF TakePool, Goto, StartInv
  <2>4. CASE TakeChain(t)
    BY <2>1, <2>4 DEF TakeChain, Goto, StartInv, Inside, Operations
  <2>5. CASE PrepareBatch(t)
    BY <2>1, <2>5 DEF PrepareBatch, Goto, StartInv
  <2>6. CASE RetakePool(t)
    BY <2>1, <2>6 DEF RetakePool, Goto, StartInv
  <2>7. CASE RetakeChain(t)
    BY <2>1, <2>7 DEF RetakeChain, Goto, StartInv
  <2>8. CASE AddBlock(t)
    BY <2>1, <2>8 DEF AddBlock, Goto, StartInv
  <2>9. CASE TakeChainToEnd(t)
    BY <2>1, <2>9 DEF TakeChainToEnd, Goto, StartInv
  <2>10. CASE EndBatch(t)
    BY <2>1, <2>10 DEF EndBatch, Goto, StartInv
  <2>11. CASE CheckInputs(t)
    BY <2>1, <2>11 DEF CheckInputs, Goto, StartInv
  <2>12. CASE OpenTxn(t)
    BY <2>1, <2>12 DEF OpenTxn, Goto, StartInv
  <2>13. CASE Write(t)
    BY <2>1, <2>13 DEF Write, Goto, StartInv
  <2>14. CASE Leave(t)
    BY <2>1, <2>14 DEF Leave, Goto, StartInv
  <2>15. CASE Read(t)
    BY <2>1, <2>15 DEF Read, Goto, StartInv
  <2>16. CASE StartChecks(t)
    BY <2>1, <2>16 DEF StartChecks, Goto, StartInv
  <2>17. CASE EndChecks(t)
    BY <2>1, <2>17 DEF EndChecks, Goto, StartInv
  <2>18. CASE FailCheck(t)
    BY <2>1, <2>18 DEF FailCheck, Goto, StartInv
  <2>19. CASE TakePoolInside(t)
    BY <2>1, <2>19 DEF TakePoolInside, Goto, StartInv
  <2>20. CASE ReturnTxs(t)
    BY <2>1, <2>20 DEF ReturnTxs, Goto, StartInv
  <2> QED
    BY <1>3, <2>2, <2>3, <2>4, <2>5, <2>6, <2>7, <2>8, <2>9, <2>10,
       <2>11, <2>12, <2>13, <2>14, <2>15, <2>16, <2>17, <2>18, <2>19,
       <2>20
       DEF Continue
<1> QED
  BY <1>1, <1>2, <1>3 DEF Next

LEMMA NoCycle ==
  ASSUME BatchInv, StartInv
  PROVE  NoCircularWait
<1> SUFFICES ASSUME NEW S \in SUBSET Threads, S # {},
                    \A t \in S : \E u \in S : WaitsFor(t, u)
             PROVE  FALSE
  BY DEF NoCircularWait
<1>1. \A t \in S : pc[t] \in Waiting
  BY DEF WaitsFor
<1>2. running
  <2> SUFFICES ASSUME ~running PROVE FALSE
    BY DEF BatchInv, TypeOK
  <2>1. S \subseteq {Main}
    BY <1>1 DEF StartInv, Waiting
  <2> QED
    BY <2>1 DEF WaitsFor
<1>3. /\ \A t \in S : pc[t] # "wantPoolInside" /\ held[t]["chain"] = 0
      /\ LockInv /\ MutualExclusion
  BY <1>1, <1>2, DepthFacts DEF StartInv, BatchInv, LockInv, ChainDepth, Waiting
<1>4. \A t \in S : pc[t] \in {"wantIncoming", "wantPool", "wantPoolBack"}
  <2> SUFFICES ASSUME NEW t \in S,
                      pc[t] \in {"wantChain", "wantChainBack", "wantChainToEnd"}
               PROVE  FALSE
    BY <1>1, <1>3 DEF Waiting
  <2>1. pc[t] \in Waiting /\ Wanted[pc[t]] = "chain"
    BY DEF Wanted, Waiting
  <2> QED
    BY <2>1, <1>3 DEF WaitsFor
<1>5. \A t \in S : pc[t] \in {"wantIncoming", "wantPool"}
  <2> SUFFICES ASSUME NEW t \in S, pc[t] = "wantPoolBack" PROVE FALSE
    BY <1>4
  <2>1. held[t]["pool"] > 0
    BY <1>3, DepthFacts DEF PoolDepth
  <2>2. Wanted[pc[t]] = "pool"
    BY DEF Wanted, Waiting
  <2> QED
    BY <2>1, <2>2, <1>3 DEF WaitsFor, MutualExclusion, Locks
<1>6. \A t \in S : held[t]["pool"] = 0
  BY <1>3, <1>5, DepthFacts DEF PoolDepth
<1>7. \A t \in S : pc[t] = "wantIncoming"
  <2> SUFFICES ASSUME NEW t \in S, pc[t] = "wantPool" PROVE FALSE
    BY <1>5
  <2>1. Wanted[pc[t]] = "pool"
    BY DEF Wanted, Waiting
  <2> QED
    BY <2>1, <1>6 DEF WaitsFor
<1>8. \A t \in S : held[t]["incoming"] = 0 /\ Wanted[pc[t]] = "incoming"
  BY <1>3, <1>7, DepthFacts DEF IncomingDepth, Wanted, Waiting
<1> QED
  BY <1>8 DEF WaitsFor

\* If checkpoints contradict the chain only at start, no threads ever wait
\* for each other in a circle.
THEOREM NoDeadlock ==
  ASSUME "running" \notin Failing
  PROVE  Spec => []NoCircularWait
<1>1. Init => StartInv
  BY DEF Init, StartInv
<1>2. BatchInv /\ StartInv /\ [Next]_vars => StartInv'
  BY StartStep
<1>3. BatchInv /\ StartInv => NoCircularWait
  BY NoCycle
<1> QED
  BY AlwaysBatchInv, <1>1, <1>2, <1>3, PTL DEF Spec
=============================================================================
