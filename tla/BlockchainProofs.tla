-------------------------- MODULE BlockchainProofs --------------------------
(***************************************************************************)
(* Theorems about Blockchain.                                              *)
(*                                                                         *)
(* The handlers call each other and iterate by folds: a lemma for each     *)
(* handler says what it does to a state (..Effect) or that it keeps what   *)
(* holds of the states it is given (..Good).  A fold is taken apart into   *)
(* the states it goes through, its trace (..Steps).                        *)
(***************************************************************************)
EXTENDS Blockchain, TxPoolOpsProofs, NatFacts, SequenceTheorems, TLAPS

-----------------------------------------------------------------------------
(* Folds *)

\* ReturnTxs, tx by tx.
ReturnTrace(trace, D, base, seq) ==
  /\ trace \in [0 .. Len(seq) -> D]
  /\ trace[0] = base
  /\ trace[Len(seq)] = FoldLeft(AddToPool, base, seq)
  /\ \A i \in 1 .. Len(seq) : trace[i] = AddToPool(trace[i - 1], seq[i])

LEMMA ReturnSteps ==
  ASSUME NEW D, NEW T, NEW base \in D, NEW seq \in Seq(T),
         \A x \in D, t \in T : AddToPool(x, t) \in D
  PROVE  \E trace : ReturnTrace(trace, D, base, seq)
<1> DEFINE n == Len(seq)
           Rec(f) == [S \in SUBSET (1 .. n) |->
                        IF S = {} THEN base
                        ELSE AddToPool(f[S \ {Max(S)}], seq[Max(S)])]
           h == CHOOSE f : f = Rec(f)
           g == [z \in D \X (1 .. n) |-> AddToPool(z[1], seq[z[2]])]
<1>1. n \in Nat /\ DOMAIN seq = 1 .. n /\ \A i \in 1 .. n : seq[i] \in T
  OBVIOUS
<1>2. FoldLeft(AddToPool, base, seq) = h[1 .. n]
  BY <1>1 DEF FoldLeft, MapThenFoldSet
<1> HIDE DEF n
<1>3. g \in [D \X (1 .. n) -> D]
  BY <1>1
<1>4. \E f : f = Rec(f)
  <2>1. PICK f : FoldSolution(f, D, n, base, g)
    <3> HIDE DEF g
    <3> QED
      BY <1>1, <1>3, FoldExists
  <2>2. f = Rec(f)
    BY <2>1 DEF FoldSolution
  <2> QED
    BY <2>2
<1>5. h = Rec(h)
  BY <1>4
<1> HIDE DEF h
<1>6. FoldSteps(h, D, n, base, g)
  BY <1>1, <1>5, MaxOfInterval DEF FoldSteps
<1> HIDE DEF g
<1>7. PICK trace : IsTrace(trace, D, n, base, g, h[1 .. n])
  BY <1>1, <1>3, <1>6, FoldTrace
<1>8. /\ trace \in [0 .. n -> D] /\ trace[0] = base
      /\ trace[n] = FoldLeft(AddToPool, base, seq)
      /\ \A i \in 1 .. n : /\ trace[i] = g[<<trace[i - 1], i>>]
                           /\ <<trace[i - 1], i>> \in D \X (1 .. n)
  BY <1>1, <1>2, <1>7 DEF IsTrace
<1>9. \A i \in 1 .. n : trace[i] = AddToPool(trace[i - 1], seq[i])
  BY <1>8 DEF g
<1> QED
  BY <1>8, <1>9 DEF n, ReturnTrace

\* PopTo, block by block.
PopTrace(trace, D, base, seq) ==
  /\ trace \in [0 .. Len(seq) -> D]
  /\ trace[0] = base
  /\ trace[Len(seq)] = FoldLeft(PopBlock, base, seq)
  /\ \A i \in 1 .. Len(seq) : trace[i] = PopBlock(trace[i - 1], seq[i])

LEMMA PopSteps ==
  ASSUME NEW D, NEW T, NEW base \in D, NEW seq \in Seq(T),
         \A x \in D, t \in T : PopBlock(x, t) \in D
  PROVE  \E trace : PopTrace(trace, D, base, seq)
<1> DEFINE n == Len(seq)
           Rec(f) == [S \in SUBSET (1 .. n) |->
                        IF S = {} THEN base
                        ELSE PopBlock(f[S \ {Max(S)}], seq[Max(S)])]
           h == CHOOSE f : f = Rec(f)
           g == [z \in D \X (1 .. n) |-> PopBlock(z[1], seq[z[2]])]
<1>1. n \in Nat /\ DOMAIN seq = 1 .. n /\ \A i \in 1 .. n : seq[i] \in T
  OBVIOUS
<1>2. FoldLeft(PopBlock, base, seq) = h[1 .. n]
  BY <1>1 DEF FoldLeft, MapThenFoldSet
<1> HIDE DEF n
<1>3. g \in [D \X (1 .. n) -> D]
  BY <1>1
<1>4. \E f : f = Rec(f)
  <2>1. PICK f : FoldSolution(f, D, n, base, g)
    <3> HIDE DEF g
    <3> QED
      BY <1>1, <1>3, FoldExists
  <2>2. f = Rec(f)
    BY <2>1 DEF FoldSolution
  <2> QED
    BY <2>2
<1>5. h = Rec(h)
  BY <1>4
<1> HIDE DEF h
<1>6. FoldSteps(h, D, n, base, g)
  BY <1>1, <1>5, MaxOfInterval DEF FoldSteps
<1> HIDE DEF g
<1>7. PICK trace : IsTrace(trace, D, n, base, g, h[1 .. n])
  BY <1>1, <1>3, <1>6, FoldTrace
<1>8. /\ trace \in [0 .. n -> D] /\ trace[0] = base
      /\ trace[n] = FoldLeft(PopBlock, base, seq)
      /\ \A i \in 1 .. n : /\ trace[i] = g[<<trace[i - 1], i>>]
                           /\ <<trace[i - 1], i>> \in D \X (1 .. n)
  BY <1>1, <1>2, <1>7 DEF IsTrace
<1>9. \A i \in 1 .. n : trace[i] = PopBlock(trace[i - 1], seq[i])
  BY <1>8 DEF g
<1> QED
  BY <1>8, <1>9 DEF n, PopTrace

\* TakeBlockTxs, tx by tx.
TakeTrace(trace, D, base, seq) ==
  /\ trace \in [0 .. Len(seq) -> D]
  /\ trace[0] = base
  /\ trace[Len(seq)] = FoldLeft(TakeNext, base, seq)
  /\ \A i \in 1 .. Len(seq) : trace[i] = TakeNext(trace[i - 1], seq[i])

LEMMA TakeSteps ==
  ASSUME NEW D, NEW T, NEW base \in D, NEW seq \in Seq(T),
         \A x \in D, t \in T : TakeNext(x, t) \in D
  PROVE  \E trace : TakeTrace(trace, D, base, seq)
<1> DEFINE n == Len(seq)
           Rec(f) == [S \in SUBSET (1 .. n) |->
                        IF S = {} THEN base
                        ELSE TakeNext(f[S \ {Max(S)}], seq[Max(S)])]
           h == CHOOSE f : f = Rec(f)
           g == [z \in D \X (1 .. n) |-> TakeNext(z[1], seq[z[2]])]
<1>1. n \in Nat /\ DOMAIN seq = 1 .. n /\ \A i \in 1 .. n : seq[i] \in T
  OBVIOUS
<1>2. FoldLeft(TakeNext, base, seq) = h[1 .. n]
  BY <1>1 DEF FoldLeft, MapThenFoldSet
<1> HIDE DEF n
<1>3. g \in [D \X (1 .. n) -> D]
  BY <1>1
<1>4. \E f : f = Rec(f)
  <2>1. PICK f : FoldSolution(f, D, n, base, g)
    <3> HIDE DEF g
    <3> QED
      BY <1>1, <1>3, FoldExists
  <2>2. f = Rec(f)
    BY <2>1 DEF FoldSolution
  <2> QED
    BY <2>2
<1>5. h = Rec(h)
  BY <1>4
<1> HIDE DEF h
<1>6. FoldSteps(h, D, n, base, g)
  BY <1>1, <1>5, MaxOfInterval DEF FoldSteps
<1> HIDE DEF g
<1>7. PICK trace : IsTrace(trace, D, n, base, g, h[1 .. n])
  BY <1>1, <1>3, <1>6, FoldTrace
<1>8. /\ trace \in [0 .. n -> D] /\ trace[0] = base
      /\ trace[n] = FoldLeft(TakeNext, base, seq)
      /\ \A i \in 1 .. n : /\ trace[i] = g[<<trace[i - 1], i>>]
                           /\ <<trace[i - 1], i>> \in D \X (1 .. n)
  BY <1>1, <1>2, <1>7 DEF IsTrace
<1>9. \A i \in 1 .. n : trace[i] = TakeNext(trace[i - 1], seq[i])
  BY <1>8 DEF g
<1> QED
  BY <1>8, <1>9 DEF n, TakeTrace

\* WrittenBeforeClash, tx by tx.
WriteTrace(trace, D, base, seq) ==
  /\ trace \in [0 .. Len(seq) -> D]
  /\ trace[0] = base
  /\ trace[Len(seq)] = FoldLeft(WriteNext, base, seq)
  /\ \A i \in 1 .. Len(seq) : trace[i] = WriteNext(trace[i - 1], seq[i])

LEMMA WriteSteps ==
  ASSUME NEW D, NEW T, NEW base \in D, NEW seq \in Seq(T),
         \A x \in D, t \in T : WriteNext(x, t) \in D
  PROVE  \E trace : WriteTrace(trace, D, base, seq)
<1> DEFINE n == Len(seq)
           Rec(f) == [S \in SUBSET (1 .. n) |->
                        IF S = {} THEN base
                        ELSE WriteNext(f[S \ {Max(S)}], seq[Max(S)])]
           h == CHOOSE f : f = Rec(f)
           g == [z \in D \X (1 .. n) |-> WriteNext(z[1], seq[z[2]])]
<1>1. n \in Nat /\ DOMAIN seq = 1 .. n /\ \A i \in 1 .. n : seq[i] \in T
  OBVIOUS
<1>2. FoldLeft(WriteNext, base, seq) = h[1 .. n]
  BY <1>1 DEF FoldLeft, MapThenFoldSet
<1> HIDE DEF n
<1>3. g \in [D \X (1 .. n) -> D]
  BY <1>1
<1>4. \E f : f = Rec(f)
  <2>1. PICK f : FoldSolution(f, D, n, base, g)
    <3> HIDE DEF g
    <3> QED
      BY <1>1, <1>3, FoldExists
  <2>2. f = Rec(f)
    BY <2>1 DEF FoldSolution
  <2> QED
    BY <2>2
<1>5. h = Rec(h)
  BY <1>4
<1> HIDE DEF h
<1>6. FoldSteps(h, D, n, base, g)
  BY <1>1, <1>5, MaxOfInterval DEF FoldSteps
<1> HIDE DEF g
<1>7. PICK trace : IsTrace(trace, D, n, base, g, h[1 .. n])
  BY <1>1, <1>3, <1>6, FoldTrace
<1>8. /\ trace \in [0 .. n -> D] /\ trace[0] = base
      /\ trace[n] = FoldLeft(WriteNext, base, seq)
      /\ \A i \in 1 .. n : /\ trace[i] = g[<<trace[i - 1], i>>]
                           /\ <<trace[i - 1], i>> \in D \X (1 .. n)
  BY <1>1, <1>2, <1>7 DEF IsTrace
<1>9. \A i \in 1 .. n : trace[i] = WriteNext(trace[i - 1], seq[i])
  BY <1>8 DEF g
<1> QED
  BY <1>8, <1>9 DEF n, WriteTrace

\* ConnectAll, block by block.
ConnectTrace(trace, D, base, seq) ==
  /\ trace \in [0 .. Len(seq) -> D]
  /\ trace[0] = base
  /\ trace[Len(seq)] = FoldLeft(ConnectNext, base, seq)
  /\ \A i \in 1 .. Len(seq) : trace[i] = ConnectNext(trace[i - 1], seq[i])

LEMMA ConnectSteps ==
  ASSUME NEW D, NEW T, NEW base \in D, NEW seq \in Seq(T),
         \A x \in D, t \in T : ConnectNext(x, t) \in D
  PROVE  \E trace : ConnectTrace(trace, D, base, seq)
<1> DEFINE n == Len(seq)
           Rec(f) == [S \in SUBSET (1 .. n) |->
                        IF S = {} THEN base
                        ELSE ConnectNext(f[S \ {Max(S)}], seq[Max(S)])]
           h == CHOOSE f : f = Rec(f)
           g == [z \in D \X (1 .. n) |-> ConnectNext(z[1], seq[z[2]])]
<1>1. n \in Nat /\ DOMAIN seq = 1 .. n /\ \A i \in 1 .. n : seq[i] \in T
  OBVIOUS
<1>2. FoldLeft(ConnectNext, base, seq) = h[1 .. n]
  BY <1>1 DEF FoldLeft, MapThenFoldSet
<1> HIDE DEF n
<1>3. g \in [D \X (1 .. n) -> D]
  BY <1>1
<1>4. \E f : f = Rec(f)
  <2>1. PICK f : FoldSolution(f, D, n, base, g)
    <3> HIDE DEF g
    <3> QED
      BY <1>1, <1>3, FoldExists
  <2>2. f = Rec(f)
    BY <2>1 DEF FoldSolution
  <2> QED
    BY <2>2
<1>5. h = Rec(h)
  BY <1>4
<1> HIDE DEF h
<1>6. FoldSteps(h, D, n, base, g)
  BY <1>1, <1>5, MaxOfInterval DEF FoldSteps
<1> HIDE DEF g
<1>7. PICK trace : IsTrace(trace, D, n, base, g, h[1 .. n])
  BY <1>1, <1>3, <1>6, FoldTrace
<1>8. /\ trace \in [0 .. n -> D] /\ trace[0] = base
      /\ trace[n] = FoldLeft(ConnectNext, base, seq)
      /\ \A i \in 1 .. n : /\ trace[i] = g[<<trace[i - 1], i>>]
                           /\ <<trace[i - 1], i>> \in D \X (1 .. n)
  BY <1>1, <1>2, <1>7 DEF IsTrace
<1>9. \A i \in 1 .. n : trace[i] = ConnectNext(trace[i - 1], seq[i])
  BY <1>8 DEF g
<1> QED
  BY <1>8, <1>9 DEF n, ConnectTrace

\* AddSupplement, tx by tx.
AddTrace(trace, D, s, b, supplement) ==
  /\ trace \in [0 .. Len(BlockTxs[b]) -> D]
  /\ trace[0] = [s |-> s, good |-> TRUE]
  /\ trace[Len(BlockTxs[b])] = AddSupplement(s, b, supplement)
  /\ \A i \in 1 .. Len(BlockTxs[b]) : trace[i] = AddNext(trace[i - 1], BlockTxs[b][i], supplement)

LEMMA AddSteps ==
  ASSUME NEW D, NEW T, NEW s, NEW b, NEW supplement,
         [s |-> s, good |-> TRUE] \in D, BlockTxs[b] \in Seq(T),
         \A x \in D, t \in T : AddNext(x, t, supplement) \in D
  PROVE  \E trace : AddTrace(trace, D, s, b, supplement)
<1> DEFINE n == Len(BlockTxs[b])
           Rec(f) == [S \in SUBSET (1 .. n) |->
                        IF S = {} THEN [s |-> s, good |-> TRUE]
                        ELSE AddNext(f[S \ {Max(S)}], BlockTxs[b][Max(S)], supplement)]
           h == CHOOSE f : f = Rec(f)
           g == [z \in D \X (1 .. n) |-> AddNext(z[1], BlockTxs[b][z[2]], supplement)]
<1>1. n \in Nat /\ DOMAIN BlockTxs[b] = 1 .. n /\ \A i \in 1 .. n : BlockTxs[b][i] \in T
  OBVIOUS
<1>2. AddSupplement(s, b, supplement) = h[1 .. n]
  BY <1>1 DEF AddSupplement, FoldLeft, MapThenFoldSet
<1> HIDE DEF n
<1>3. g \in [D \X (1 .. n) -> D]
  BY <1>1
<1>4. \E f : f = Rec(f)
  <2>1. PICK f : FoldSolution(f, D, n, [s |-> s, good |-> TRUE], g)
    <3> HIDE DEF g
    <3> QED
      BY <1>1, <1>3, FoldExists
  <2>2. f = Rec(f)
    BY <2>1 DEF FoldSolution
  <2> QED
    BY <2>2
<1>5. h = Rec(h)
  BY <1>4
<1> HIDE DEF h
<1>6. FoldSteps(h, D, n, [s |-> s, good |-> TRUE], g)
  BY <1>1, <1>5, MaxOfInterval DEF FoldSteps
<1> HIDE DEF g
<1>7. PICK trace : IsTrace(trace, D, n, [s |-> s, good |-> TRUE], g, h[1 .. n])
  BY <1>1, <1>3, <1>6, FoldTrace
<1>8. /\ trace \in [0 .. n -> D] /\ trace[0] = [s |-> s, good |-> TRUE]
      /\ trace[n] = AddSupplement(s, b, supplement)
      /\ \A i \in 1 .. n : /\ trace[i] = g[<<trace[i - 1], i>>]
                           /\ <<trace[i - 1], i>> \in D \X (1 .. n)
  BY <1>1, <1>2, <1>7 DEF IsTrace
<1>9. \A i \in 1 .. n : trace[i] = AddNext(trace[i - 1], BlockTxs[b][i], supplement)
  BY <1>8 DEF g
<1> QED
  BY <1>8, <1>9 DEF n, AddTrace

\* Blocks that were disconnected, one by one.
KeepTrace(trace, D, base, seq) ==
  /\ trace \in [0 .. Len(seq) -> D]
  /\ trace[0] = base
  /\ trace[Len(seq)] = FoldLeft(Keep, base, seq)
  /\ \A i \in 1 .. Len(seq) : trace[i] = Keep(trace[i - 1], seq[i])

LEMMA KeepSteps ==
  ASSUME NEW D, NEW T, NEW base \in D, NEW seq \in Seq(T),
         \A x \in D, t \in T : Keep(x, t) \in D
  PROVE  \E trace : KeepTrace(trace, D, base, seq)
<1> DEFINE n == Len(seq)
           Rec(f) == [S \in SUBSET (1 .. n) |->
                        IF S = {} THEN base
                        ELSE Keep(f[S \ {Max(S)}], seq[Max(S)])]
           h == CHOOSE f : f = Rec(f)
           g == [z \in D \X (1 .. n) |-> Keep(z[1], seq[z[2]])]
<1>1. n \in Nat /\ DOMAIN seq = 1 .. n /\ \A i \in 1 .. n : seq[i] \in T
  OBVIOUS
<1>2. FoldLeft(Keep, base, seq) = h[1 .. n]
  BY <1>1 DEF FoldLeft, MapThenFoldSet
<1> HIDE DEF n
<1>3. g \in [D \X (1 .. n) -> D]
  BY <1>1
<1>4. \E f : f = Rec(f)
  <2>1. PICK f : FoldSolution(f, D, n, base, g)
    <3> HIDE DEF g
    <3> QED
      BY <1>1, <1>3, FoldExists
  <2>2. f = Rec(f)
    BY <2>1 DEF FoldSolution
  <2> QED
    BY <2>2
<1>5. h = Rec(h)
  BY <1>4
<1> HIDE DEF h
<1>6. FoldSteps(h, D, n, base, g)
  BY <1>1, <1>5, MaxOfInterval DEF FoldSteps
<1> HIDE DEF g
<1>7. PICK trace : IsTrace(trace, D, n, base, g, h[1 .. n])
  BY <1>1, <1>3, <1>6, FoldTrace
<1>8. /\ trace \in [0 .. n -> D] /\ trace[0] = base
      /\ trace[n] = FoldLeft(Keep, base, seq)
      /\ \A i \in 1 .. n : /\ trace[i] = g[<<trace[i - 1], i>>]
                           /\ <<trace[i - 1], i>> \in D \X (1 .. n)
  BY <1>1, <1>2, <1>7 DEF IsTrace
<1>9. \A i \in 1 .. n : trace[i] = Keep(trace[i - 1], seq[i])
  BY <1>8 DEF g
<1> QED
  BY <1>8, <1>9 DEF n, KeepTrace

\* CheckAgainstCheckpoints, height by height.
CheckTrace(trace, D, s, points, n) ==
  /\ trace \in [0 .. n -> D]
  /\ trace[0] = [s |-> s, thrown |-> FALSE]
  /\ trace[n] = CheckAgainstCheckpoints(s, points)
  /\ \A i \in 1 .. n : trace[i] = CheckNext(trace[i - 1], i, points)

LEMMA CheckSteps ==
  ASSUME NEW D, NEW s, NEW points, NEW n \in Nat, Len(s.chain) = n + 1,
         [s |-> s, thrown |-> FALSE] \in D,
         \A x \in D, h \in 1 .. n : CheckNext(x, h, points) \in D
  PROVE  \E trace : CheckTrace(trace, D, s, points, n)
<1> DEFINE base == [s |-> s, thrown |-> FALSE]
           seq == [h \in 1 .. (Len(s.chain) - 1) |-> h]
           Rec(f) == [S \in SUBSET (1 .. n) |->
                        IF S = {} THEN base
                        ELSE CheckNext(f[S \ {Max(S)}], seq[Max(S)], points)]
           h == CHOOSE f : f = Rec(f)
           g == [z \in D \X (1 .. n) |-> CheckNext(z[1], z[2], points)]
<1>1. DOMAIN seq = 1 .. n /\ \A i \in 1 .. n : seq[i] = i
  OBVIOUS
<1>2. CheckAgainstCheckpoints(s, points) = h[1 .. n]
  <2>1. CheckAgainstCheckpoints(s, points) =
          FoldLeft(LAMBDA acc, i : CheckNext(acc, i, points), base, seq)
    BY DEF CheckAgainstCheckpoints
  <2> HIDE DEF seq
  <2> QED
    BY <1>1, <2>1 DEF FoldLeft, MapThenFoldSet
<1> HIDE DEF seq
<1>3. g \in [D \X (1 .. n) -> D]
  OBVIOUS
<1>4. \E f : f = Rec(f)
  <2>1. PICK f : FoldSolution(f, D, n, base, g)
    <3> HIDE DEF g
    <3> QED
      BY <1>3, FoldExists
  <2>2. \A S \in SUBSET (1 .. n) :
          S # {} => <<f[S \ {Max(S)}], Max(S)>> \in D \X (1 .. n) /\ seq[Max(S)] = Max(S)
    BY <1>1, <2>1 DEF FoldSolution
  <2>3. f = Rec(f)
    BY <2>1, <2>2 DEF FoldSolution
  <2> QED
    BY <2>3
<1>5. h = Rec(h)
  BY <1>4
<1> HIDE DEF h
<1>6. FoldSteps(h, D, n, base, g)
  <2>1. \A S \in SUBSET (1 .. n) : S # {} => Max(S) \in 1 .. n
    BY MaxOfInterval
  <2> HIDE DEF Max
  <2> QED
    BY <1>1, <1>5, <2>1 DEF FoldSteps
<1> HIDE DEF g
<1>7. PICK trace : IsTrace(trace, D, n, base, g, h[1 .. n])
  BY <1>3, <1>6, FoldTrace
<1>8. /\ trace \in [0 .. n -> D] /\ trace[0] = base
      /\ trace[n] = CheckAgainstCheckpoints(s, points)
      /\ \A i \in 1 .. n : /\ trace[i] = g[<<trace[i - 1], i>>]
                           /\ <<trace[i - 1], i>> \in D \X (1 .. n)
  BY <1>2, <1>7 DEF IsTrace
<1>9. \A i \in 1 .. n : trace[i] = CheckNext(trace[i - 1], i, points)
  BY <1>8 DEF g
<1> QED
  BY <1>8, <1>9 DEF CheckTrace


-----------------------------------------------------------------------------
(* The tree of blocks *)

\* Recursion from parent to child, down to the blocks of stop, defines a
\* function.
TreeFunction(f, B, V, base, stop, g) ==
  /\ f \in [B -> V]
  /\ \A b \in B : f[b] = IF b \in stop THEN base ELSE g[<<f[Parent[b]], b>>]

Below(m) == {b \in Blocks : Height[b] < m}

LEMMA ParentBelow ==
  ASSUME NEW b \in Blocks, b # Genesis
  PROVE  /\ Parent[b] \in Blocks
         /\ Height[b] \in Nat /\ Height[Parent[b]] \in Nat
         /\ Height[b] = Height[Parent[b]] + 1
BY BlocksAssumption, TreeAssumption

LEMMA TreeRecursionUnique ==
  ASSUME NEW V, NEW base, NEW stop, Genesis \in stop, NEW g,
         NEW m \in Nat, NEW k \in Nat, m <= k, NEW f, NEW e,
         TreeFunction(f, Below(m), V, base, stop, g),
         TreeFunction(e, Below(k), V, base, stop, g)
  PROVE  \A b \in Below(m) : f[b] = e[b]
<1> DEFINE Apart == {b \in Below(m) : f[b] # e[b]}
           S == {Height[b] : b \in Apart}
<1> SUFFICES ASSUME Apart # {} PROVE FALSE
  OBVIOUS
<1>1. S \in SUBSET Nat /\ S # {}
  BY TreeAssumption DEF Below
<1>2. PICK h \in S : \A i \in S : h <= i
  <2> HIDE DEF S
  <2> QED
    BY <1>1, LeastNat
<1>3. PICK b \in Apart : Height[b] = h
  OBVIOUS
<1>4. b \in Below(m) /\ b \in Below(k) /\ b \in Blocks /\ f[b] # e[b]
  BY TreeAssumption DEF Below
<1>5. b \notin stop
  BY <1>4 DEF TreeFunction
<1>6. Parent[b] \in Below(m) /\ Height[Parent[b]] < h
  <2>1. Parent[b] \in Blocks /\ Height[b] \in Nat /\ Height[Parent[b]] \in Nat
        /\ Height[b] = Height[Parent[b]] + 1
    BY <1>4, <1>5, ParentBelow
  <2> QED
    BY <1>3, <1>4, <2>1 DEF Below
<1>7. Parent[b] \notin Apart
  <2>1. Height[Parent[b]] \in Nat /\ h \in Nat
    BY <1>1, <1>6, TreeAssumption DEF Below
  <2> QED
    BY <1>2, <1>6, <2>1
<1>8. f[Parent[b]] = e[Parent[b]]
  BY <1>6, <1>7
<1> QED
  BY <1>4, <1>5, <1>8 DEF TreeFunction

LEMMA TreeRecursionBelow ==
  ASSUME NEW V, NEW base \in V, NEW stop, Genesis \in stop, NEW g \in [V \X Blocks -> V],
         NEW n \in Nat
  PROVE  \E f : TreeFunction(f, Below(n), V, base, stop, g)
<1> DEFINE Ok(m) == \E f : TreeFunction(f, Below(m), V, base, stop, g)
           G == {m \in 0 .. n : Ok(m)}
<1>1. Ok(0)
  <2>1. Below(0) = {}
    BY TreeAssumption DEF Below
  <2>2. TreeFunction([b \in {} |-> base], Below(0), V, base, stop, g)
    BY <2>1 DEF TreeFunction
  <2> QED
    BY <2>2
<1>2. ASSUME NEW m \in 1 .. n, Ok(m - 1)
      PROVE  Ok(m)
  <2>1. PICK f : TreeFunction(f, Below(m - 1), V, base, stop, g)
    BY <1>2
  <2> DEFINE e == [b \in Below(m) |->
                     IF b \in Below(m - 1) THEN f[b]
                     ELSE IF b \in stop THEN base ELSE g[<<f[Parent[b]], b>>]]
  <2>2. ASSUME NEW b \in Below(m), b \notin stop
        PROVE  Parent[b] \in Below(m - 1) /\ Parent[b] \in Below(m) /\ b \in Blocks
    <3>1. /\ b \in Blocks /\ Parent[b] \in Blocks /\ Height[b] \in Nat
          /\ Height[Parent[b]] \in Nat /\ Height[b] = Height[Parent[b]] + 1
      BY <2>2, ParentBelow DEF Below
    <3> QED
      BY <3>1 DEF Below
  <2>3. \A b \in Below(m) : e[b] \in V
    BY <2>1, <2>2 DEF TreeFunction
  <2>4. ASSUME NEW b \in Below(m)
        PROVE  e[b] = IF b \in stop THEN base ELSE g[<<e[Parent[b]], b>>]
    BY <2>1, <2>2 DEF TreeFunction
  <2>5. e \in [Below(m) -> V]
    BY <2>3
  <2> HIDE DEF e
  <2>6. TreeFunction(e, Below(m), V, base, stop, g)
    BY <2>4, <2>5 DEF TreeFunction
  <2> QED
    BY <2>6
<1> HIDE DEF Ok
<1>3. 0 \in G /\ \A i \in 1 .. n : i - 1 \in G => i \in G
  BY <1>1, <1>2
<1>4. n \in 0 .. n
  OBVIOUS
<1>5. n \in G
  <2> HIDE DEF G
  <2> QED
    BY <1>3, <1>4, CountUp
<1> QED
  BY <1>5 DEF Ok

LEMMA TreeRecursion ==
  ASSUME NEW V, NEW base \in V, NEW stop, Genesis \in stop, NEW g \in [V \X Blocks -> V]
  PROVE  \E f : TreeFunction(f, Blocks, V, base, stop, g)
<1> DEFINE Is(f, m) == TreeFunction(f, Below(m), V, base, stop, g)
           At(m) == CHOOSE f : Is(f, m)
           F == [b \in Blocks |-> At(Height[b] + 1)[b]]
<1>1. \A m \in Nat : Is(At(m), m)
  <2>1. \A m \in Nat : \E f : Is(f, m)
    BY TreeRecursionBelow
  <2> HIDE DEF Is
  <2> QED
    BY <2>1
<1> HIDE DEF At
<1>2. ASSUME NEW b \in Blocks
      PROVE  Height[b] \in Nat /\ Height[b] + 1 \in Nat /\ b \in Below(Height[b] + 1)
  <2>1. Height[b] \in Nat
    BY TreeAssumption
  <2> QED
    BY <2>1 DEF Below
<1>3. \A b \in Blocks : F[b] \in V
  BY <1>1, <1>2 DEF TreeFunction
<1>4. ASSUME NEW b \in Blocks, b \notin stop
      PROVE  F[b] = g[<<F[Parent[b]], b>>]
  <2>1. /\ Parent[b] \in Blocks /\ Height[b] \in Nat /\ Height[Parent[b]] \in Nat
        /\ Height[b] = Height[Parent[b]] + 1
    BY <1>4, ParentBelow
  <2> DEFINE m == Height[Parent[b]] + 1
             k == Height[b] + 1
  <2>2. m \in Nat /\ k \in Nat /\ m <= k /\ Is(At(m), m) /\ Is(At(k), k)
    BY <1>1, <2>1
  <2>3. Parent[b] \in Below(m)
    BY <1>2, <2>1
  <2>4. At(m)[Parent[b]] = At(k)[Parent[b]]
    <3> HIDE DEF m, k
    <3> QED
      BY <2>2, <2>3, TreeRecursionUnique
  <2>5. At(k)[b] = g[<<At(k)[Parent[b]], b>>]
    BY <1>2, <1>4, <2>2 DEF TreeFunction
  <2> QED
    BY <2>1, <2>4, <2>5
<1>5. ASSUME NEW b \in Blocks, b \in stop
      PROVE  F[b] = base
  BY <1>1, <1>2, <1>5 DEF TreeFunction
<1>6. F \in [Blocks -> V]
  BY <1>3
<1> HIDE DEF F
<1>7. TreeFunction(F, Blocks, V, base, stop, g)
  BY <1>4, <1>5, <1>6 DEF TreeFunction
<1> QED
  BY <1>7

\* What passes from parent to child holds of every block.
LEMMA TreeInduction ==
  ASSUME NEW S, \A b \in Blocks : (b = Genesis \/ Parent[b] \in S) => b \in S
  PROVE  \A b \in Blocks : b \in S
<1> DEFINE T == {Height[b] : b \in Blocks \ S}
<1> SUFFICES ASSUME Blocks \ S # {} PROVE FALSE
  OBVIOUS
<1>1. T \in SUBSET Nat /\ T # {}
  BY TreeAssumption
<1>2. PICK h \in T : \A i \in T : h <= i
  <2> HIDE DEF T
  <2> QED
    BY <1>1, LeastNat
<1>3. PICK b \in Blocks \ S : Height[b] = h
  OBVIOUS
<1>4. b # Genesis /\ Parent[b] \notin S
  OBVIOUS
<1>5. /\ Parent[b] \in Blocks /\ Height[b] \in Nat /\ Height[Parent[b]] \in Nat
      /\ Height[b] = Height[Parent[b]] + 1
  BY <1>4, ParentBelow
<1>6. Parent[b] \in Blocks \ S
  BY <1>4, <1>5
<1>7. Height[Parent[b]] \in T
  BY <1>6
<1>8. h <= Height[Parent[b]]
  <2> HIDE DEF T
  <2> QED
    BY <1>2, <1>7
<1> QED
  BY <1>3, <1>5, <1>8

LEMMA AncestorsRight ==
  ASSUME NEW b \in Blocks
  PROVE  /\ Ancestors[b] \in SUBSET Blocks
         /\ Ancestors[b] = IF b = Genesis THEN {} ELSE Ancestors[Parent[b]] \cup {Parent[b]}
<1> DEFINE Rec(f) == [x \in Blocks |->
                        IF x = Genesis THEN {} ELSE f[Parent[x]] \cup {Parent[x]}]
           g == [z \in (SUBSET Blocks) \X Blocks |->
                   IF z[2] = Genesis THEN {} ELSE z[1] \cup {Parent[z[2]]}]
<1>1. \A x \in Blocks : x # Genesis => Parent[x] \in Blocks
  BY ParentBelow
<1>2. g \in [(SUBSET Blocks) \X Blocks -> SUBSET Blocks]
  BY <1>1
<1>3. \E f : f = Rec(f)
  <2>1. PICK f : TreeFunction(f, Blocks, SUBSET Blocks, {}, {Genesis}, g)
    <3>1. {} \in SUBSET Blocks /\ Genesis \in {Genesis}
      OBVIOUS
    <3> HIDE DEF g
    <3> QED
      BY <1>2, <3>1, TreeRecursion
  <2>2. f = Rec(f)
    BY <1>1, <2>1 DEF TreeFunction
  <2> QED
    BY <2>2
<1>4. Ancestors = Rec(Ancestors)
  BY <1>3 DEF Ancestors
<1>5. \A x \in Blocks : Ancestors[x] =
        IF x = Genesis THEN {} ELSE Ancestors[Parent[x]] \cup {Parent[x]}
  BY <1>4
<1> DEFINE S == {x \in Blocks : Ancestors[x] \in SUBSET Blocks}
<1>6. ASSUME NEW x \in Blocks, x = Genesis \/ Parent[x] \in S
      PROVE  x \in S
  <2>1. CASE x = Genesis
    BY <1>5, <2>1
  <2>2. CASE x # Genesis
    <3>1. Ancestors[Parent[x]] \in SUBSET Blocks /\ Parent[x] \in Blocks
      BY <1>1, <1>6, <2>2
    <3>2. Ancestors[x] = Ancestors[Parent[x]] \cup {Parent[x]}
      BY <1>5, <2>2
    <3> QED
      BY <3>1, <3>2
  <2> QED
    BY <2>1, <2>2
<1>7. \A x \in Blocks : x \in S
  <2> HIDE DEF S
  <2> QED
    BY <1>6, TreeInduction
<1> QED
  BY <1>5, <1>7

\* build_alt_chain returns a list of alternative blocks.
LEMMA BranchRight ==
  ASSUME NEW s, s.alt \in SUBSET (Blocks \ {Genesis}), NEW b \in Blocks
  PROVE  /\ Branch(s, b) \in Seq(s.alt)
         /\ Branch(s, b) = IF b \in s.alt THEN Append(Branch(s, Parent[b]), b) ELSE <<>>
<1> DEFINE V == Seq(s.alt)
           Rec(f) == [x \in Blocks |-> IF x \in s.alt THEN Append(f[Parent[x]], x) ELSE <<>>]
           path == CHOOSE f : f = Rec(f)
           g == [z \in V \X Blocks |-> IF z[2] \in s.alt THEN Append(z[1], z[2]) ELSE <<>>]
<1>1. \A x \in s.alt : x \in Blocks /\ x # Genesis /\ Parent[x] \in Blocks
  BY ParentBelow
<1>2. <<>> \in V /\ \A v \in V, x \in s.alt : Append(v, x) \in V
  BY EmptySeq, AppendProperties
<1> HIDE DEF V
<1>3. g \in [V \X Blocks -> V]
  BY <1>2
<1>4. \E f : f = Rec(f)
  <2>1. PICK f : TreeFunction(f, Blocks, V, <<>>, Blocks \ s.alt, g)
    <3>1. Genesis \in Blocks \ s.alt
      BY BlocksAssumption
    <3> HIDE DEF g
    <3> QED
      BY <1>2, <1>3, <3>1, TreeRecursion
  <2>2. ASSUME NEW x \in Blocks
        PROVE  f[x] = IF x \in s.alt THEN Append(f[Parent[x]], x) ELSE <<>>
    <3>1. x \in s.alt => <<f[Parent[x]], x>> \in V \X Blocks
      BY <1>1, <2>1 DEF TreeFunction
    <3> QED
      BY <2>1, <3>1 DEF TreeFunction
  <2>3. f = Rec(f)
    BY <2>1, <2>2 DEF TreeFunction
  <2> QED
    BY <2>3
<1>5. path = Rec(path)
  BY <1>4
<1> HIDE DEF path
<1>6. \A x \in Blocks : path[x] = IF x \in s.alt THEN Append(path[Parent[x]], x) ELSE <<>>
  BY <1>5
<1> DEFINE S == {x \in Blocks : path[x] \in V}
<1>7. \A x \in Blocks : (x = Genesis \/ Parent[x] \in S) => x \in S
  BY <1>1, <1>2, <1>6
<1>8. \A x \in Blocks : x \in S
  <2> HIDE DEF S
  <2> QED
    BY <1>7, TreeInduction
<1>9. \A x : Branch(s, x) = path[x]
  BY DEF Branch, path
<1> QED
  BY <1>1, <1>6, <1>8, <1>9 DEF V

-----------------------------------------------------------------------------
(* Chains *)

\* A path from the genesis block.
ChainRight(c) ==
  /\ c \in Seq(Blocks) /\ Len(c) >= 1 /\ c[1] = Genesis
  /\ \A i \in 2 .. Len(c) : c[i] # Genesis /\ Parent[c[i]] = c[i - 1]

LEMMA ChainHeights ==
  ASSUME NEW c, ChainRight(c)
  PROVE  \A i \in 1 .. Len(c) : /\ Height[c[i]] = i - 1
                                /\ Ancestors[c[i]] = {c[j] : j \in 1 .. (i - 1)}
<1> DEFINE n == Len(c) - 1
           Holds(i) == /\ Height[c[i]] = i - 1
                       /\ Ancestors[c[i]] = {c[j] : j \in 1 .. (i - 1)}
           G == {i \in 0 .. n : Holds(i + 1)}
<1>1. n \in Nat /\ Len(c) = n + 1 /\ \A i \in 1 .. n + 1 : c[i] \in Blocks
  BY DEF ChainRight
<1>2. Holds(1)
  <2>1. c[1] = Genesis /\ Genesis \in Blocks
    BY BlocksAssumption DEF ChainRight
  <2>2. Ancestors[Genesis] = {}
    BY <2>1, AncestorsRight
  <2> QED
    BY <2>1, <2>2, TreeAssumption
<1>3. ASSUME NEW i \in 1 .. n, Holds(i)
      PROVE  Holds(i + 1)
  <2>1. c[i + 1] \in Blocks /\ c[i + 1] # Genesis /\ Parent[c[i + 1]] = c[i]
    BY <1>1 DEF ChainRight
  <2>2. Height[c[i + 1]] = Height[c[i]] + 1
    BY <2>1, ParentBelow
  <2>3. Ancestors[c[i + 1]] = Ancestors[c[i]] \cup {c[i]}
    BY <2>1, AncestorsRight
  <2>4. {c[j] : j \in 1 .. i} = {c[j] : j \in 1 .. (i - 1)} \cup {c[i]}
    BY <1>1
  <2>5. Height[c[i + 1]] = (i + 1) - 1
    BY <1>3, <2>2
  <2>6. Ancestors[c[i + 1]] = {c[j] : j \in 1 .. ((i + 1) - 1)}
    <3>1. (i + 1) - 1 = i
      OBVIOUS
    <3> QED
      BY <1>3, <2>3, <2>4, <3>1
  <2> QED
    BY <2>5, <2>6
<1> HIDE DEF Holds
<1>4. 0 \in G
  BY <1>1, <1>2
<1>5. ASSUME NEW i \in 1 .. n, i - 1 \in G
      PROVE  i \in G
  <2>1. Holds((i - 1) + 1) /\ (i - 1) + 1 = i /\ i \in 0 .. n
    BY <1>5
  <2> QED
    BY <1>3, <2>1
<1>6. \A i \in 0 .. n : i \in G
  <2> HIDE DEF G, n
  <2> QED
    BY <1>1, <1>4, <1>5, CountUp
<1>7. ASSUME NEW i \in 1 .. Len(c)
      PROVE  Holds(i)
  <2>1. i - 1 \in 0 .. n /\ (i - 1) + 1 = i
    BY <1>1
  <2> QED
    BY <1>6, <2>1
<1> QED
  BY <1>7 DEF Holds


\* The chain is its last block and what that descends from.
LEMMA ChainOfAncestors ==
  ASSUME NEW c, ChainRight(c)
  PROVE  /\ Last(c) \in Blocks /\ Last(c) = c[Len(c)]
         /\ ToSet(c) = Ancestors[Last(c)] \cup {Last(c)}
<1> DEFINE n == Len(c)
<1>1. c \in Seq(Blocks) /\ n \in Nat /\ n >= 1 /\ Last(c) = c[n] /\ c[n] \in Blocks
  BY DEF ChainRight, Last
<1>2. ToSet(c) = {c[i] : i \in 1 .. n}
  BY <1>1 DEF ToSet
<1>3. Ancestors[c[n]] = {c[i] : i \in 1 .. (n - 1)}
  <2>1. n \in 1 .. Len(c)
    BY <1>1
  <2> HIDE DEF n
  <2>2. \A i \in 1 .. Len(c) : /\ Height[c[i]] = i - 1
                               /\ Ancestors[c[i]] = {c[j] : j \in 1 .. (i - 1)}
    BY ChainHeights
  <2> QED
    BY <2>1, <2>2
<1>4. 1 .. n = (1 .. (n - 1)) \cup {n}
  BY <1>1
<1> QED
  BY <1>1, <1>2, <1>3, <1>4

-----------------------------------------------------------------------------
(* What holds between the handlers *)

ValidChain(c) == ChainRight(c) /\ \A i \in 1 .. Len(c) : c[i] \in ValidBlocks

\* No block that reaches the daemon spends an image twice.  One that does is
\* the way to an aborted batch, which leaves the pool's memory behind.
NoClashes ==
  \A b \in Blocks : \A i, j \in DOMAIN BlockTxs[b] :
    i # j => KeyImagesOf[BlockTxs[b][i]] \cap KeyImagesOf[BlockTxs[b][j]] = {}

\* All txs together do not fill the pool: prune has nothing to do.
Roomy == Weight[Txs] <= MaxWeight

\* The txs that pass when b is the top block.
PassOn(b) ==
  {t \in Txs : /\ Needs[t] \subseteq Ancestors[b] \cup {b}
               /\ KeyImagesOf[t] \cap ImagesOf(TxsBefore(b) \cup TxsOf(b)) = {}}

\* A tx failed on the block noted for it.
Judged(failed) == \A t \in Txs, b \in Blocks : failed[t] = b => t \notin PassOn(b)

\* What holds at every step of a handler, while no block clashes.
Settled(s) ==
  /\ s.batchOk /\ s.halfTxs = {} /\ s.halfImages = {}
  /\ s.invalid \cap ValidBlocks = {}
  /\ Sound(s.pool)
  /\ Stored(s.pool) \cap TxExists(s) = {}
  /\ Judged(s.pool.failed)

\* What holds again once on_blockchain_inc or _dec was called: cached verdicts
\* and the cached template are about the chain as it is.
VerdictsRight(s) ==
  \A t \in Txs : /\ s.pool.cache[t] = "good" => t \in InputsPass(s)
                 /\ s.pool.cache[t] = "bad" => t \notin InputsPass(s)

TemplateApt(s) ==
  s.btc.valid =>
    /\ s.btc.txs \subseteq InputsPass(s)
    /\ \A t, u \in s.btc.txs : t # u => KeyImagesOf[t] \cap KeyImagesOf[u] = {}
    /\ ~s.pool.moved => s.btc.txs \subseteq Stored(s.pool)

Fresh(s) == VerdictsRight(s) /\ TemplateApt(s)

\* What the handlers are given and what they leave.
Good(s) ==
  /\ s \in States /\ ValidChain(s.chain) /\ s.alt \in SUBSET (Blocks \ {Genesis})
  /\ NoClashes => Settled(s) /\ Fresh(s)

\* The txs the daemon has, and that none of them is lost.
HasTxs(s) == Stored(s.pool) \cup TxExists(s)

Keeps(s, x) == NoClashes /\ Roomy => HasTxs(s) \subseteq HasTxs(x)

LEMMA TopPass ==
  ASSUME NEW s, ChainRight(s.chain), s.halfTxs = {}, s.halfImages = {}
  PROVE  /\ InputsPass(s) = PassOn(Top(s)) /\ Top(s) \in Blocks
         /\ TxExists(s) = TxsBefore(Top(s)) \cup TxsOf(Top(s))
         /\ OnChain(s) = Ancestors[Top(s)] \cup {Top(s)}
<1>1. Top(s) \in Blocks /\ OnChain(s) = Ancestors[Top(s)] \cup {Top(s)}
  BY ChainOfAncestors DEF Top, OnChain
<1>2. UNION {TxsOf(x) : x \in OnChain(s)} = TxsBefore(Top(s)) \cup TxsOf(Top(s))
  BY <1>1 DEF TxsBefore
<1>3. TxExists(s) = TxsBefore(Top(s)) \cup TxsOf(Top(s))
      /\ Spent(s) = ImagesOf(TxsBefore(Top(s)) \cup TxsOf(Top(s)))
  BY <1>2 DEF TxExists, Spent
<1>4. InputsPass(s) = PassOn(Top(s))
  BY <1>1, <1>3 DEF InputsPass, PassOn
<1> QED
  BY <1>1, <1>3, <1>4

LEMMA SameChain ==
  ASSUME NEW s, NEW x, x.chain = s.chain, x.halfTxs = s.halfTxs, x.halfImages = s.halfImages
  PROVE  /\ TxExists(x) = TxExists(s) /\ InputsPass(x) = InputsPass(s)
         /\ OnChain(x) = OnChain(s) /\ Top(x) = Top(s)
BY DEF TxExists, InputsPass, Spent, OnChain, Top

-----------------------------------------------------------------------------
(* The pool changes *)

\* x is s with another pool.
PoolOnly(s, x) ==
  /\ x \in States
  /\ x.chain = s.chain /\ x.alt = s.alt /\ x.invalid = s.invalid
  /\ x.halfTxs = s.halfTxs /\ x.halfImages = s.halfImages
  /\ x.batchOk = s.batchOk /\ x.btc = s.btc

\* ... that is as right as the one before.
PoolKept(s, x) ==
  /\ PoolOnly(s, x)
  /\ Settled(s) => Settled(x) /\ (Fresh(s) => Fresh(x))

\* What add_tx and take_tx do to the pool's record, ok being the txs that pass
\* and mined those on the chain.
PoolStep(p, q, ok, mined) ==
  Sound(p) =>
    /\ Sound(q)
    /\ Stored(q) \cap mined \subseteq Stored(p)
    /\ \A u \in Txs : /\ q.cache[u] \in {p.cache[u], Verdict(p, u, ok)}
                      /\ q.failed[u] \in {NoTop, p.failed[u]}
    /\ ~q.moved => ~p.moved /\ q.db = p.db

LEMMA PoolKeptTrans ==
  ASSUME NEW s, NEW x, NEW y, PoolKept(s, x), PoolKept(x, y)
  PROVE  PoolKept(s, y)
BY DEF PoolKept, PoolOnly

LEMMA PoolStepKept ==
  ASSUME NEW s \in States, NEW q \in PoolStates,
         PoolStep(s.pool, q, InputsPass(s), TxExists(s)),
         NEW x, x = [s EXCEPT !.pool = q]
  PROVE  PoolKept(s, x)
<1>1. x.pool = q /\ PoolOnly(s, x)
  BY DEF PoolOnly, States
<1>2. TxExists(x) = TxExists(s) /\ InputsPass(x) = InputsPass(s)
  BY <1>1, SameChain DEF PoolOnly
<1>3. ASSUME Settled(s)
      PROVE  Settled(x) /\ (Fresh(s) => Fresh(x))
  <2>1. /\ Sound(s.pool) /\ Sound(q) /\ Stored(q) \cap TxExists(s) \subseteq Stored(s.pool)
        /\ \A u \in Txs : /\ q.cache[u] \in {s.pool.cache[u], Verdict(s.pool, u, InputsPass(s))}
                          /\ q.failed[u] \in {NoTop, s.pool.failed[u]}
        /\ ~q.moved => ~s.pool.moved /\ q.db = s.pool.db
    BY <1>3 DEF Settled, PoolStep
  <2>2. Judged(q.failed)
    <3>1. Judged(s.pool.failed) /\ NoTop \notin Blocks
      BY <1>3, TopsAssumption, BlocksAssumption DEF Settled
    <3>2. \A u \in Txs : q.failed[u] \in {NoTop, s.pool.failed[u]}
      BY <2>1
    <3> QED
      BY <3>1, <3>2 DEF Judged
  <2>3. Settled(x)
    BY <1>1, <1>2, <1>3, <2>1, <2>2 DEF Settled, PoolOnly
  <2>4. ASSUME VerdictsRight(s)
        PROVE  VerdictsRight(x)
    BY <1>1, <1>2, <2>1, <2>4 DEF VerdictsRight, Verdict
  <2>5. ASSUME TemplateApt(s)
        PROVE  TemplateApt(x)
    <3>1. ~q.moved => Stored(q) = Stored(s.pool)
      BY <2>1 DEF Stored
    <3> QED
      BY <1>1, <1>2, <2>1, <2>5, <3>1 DEF TemplateApt, PoolOnly
  <2> QED
    BY <2>3, <2>4, <2>5 DEF Fresh
<1> QED
  BY <1>1, <1>3 DEF PoolKept

LEMMA AddTxKept ==
  ASSUME NEW s \in States, NEW t \in Txs, t \notin TxExists(s),
         NEW relay \in RelayMethods,
         NEW x, x = [s EXCEPT !.pool = AddTx(s.pool, t, relay, InputsPass(s), Txs)]
  PROVE  PoolKept(s, x)
<1> DEFINE p == s.pool
           ok == InputsPass(s)
           q == AddTx(p, t, relay, ok, Txs)
<1>1. p \in PoolStates /\ q \in PoolStates
  BY AddTxType DEF States
<1>2. PoolStep(p, q, ok, TxExists(s))
  <2> SUFFICES ASSUME Sound(p)
               PROVE  /\ Sound(q)
                      /\ Stored(q) \cap TxExists(s) \subseteq Stored(p)
                      /\ \A u \in Txs : /\ q.cache[u] \in {p.cache[u], Verdict(p, u, ok)}
                                        /\ q.failed[u] \in {NoTop, p.failed[u]}
                      /\ ~q.moved => ~p.moved /\ q.db = p.db
    BY DEF PoolStep
  <2> HIDE DEF p, ok
  <2>1. Sound(q) /\ (~q.moved => ~p.moved /\ q.db = p.db)
    BY AddTxSound, AddTxMoved
  <2>2. /\ \A u \in Txs \ {t} : q.db[u] \in {Absent, p.db[u]}
        /\ \A u \in Txs : /\ q.cache[u] \in {p.cache[u], Verdict(p, u, ok)}
                          /\ q.failed[u] \in {NoTop, p.failed[u]}
        /\ q.db[t] \in {Absent, p.db[t], StoredRelay(p, t, relay)}
    BY AddTxEffect
  <2> HIDE DEF q
  <2> QED
    BY <2>1, <2>2 DEF Stored
<1> HIDE DEF q
<1> QED
  BY <1>1, <1>2, PoolStepKept DEF q

LEMMA TakeTxKept ==
  ASSUME NEW s \in States, NEW t \in Txs, NEW x, x = [s EXCEPT !.pool = TakeTx(s.pool, t)]
  PROVE  PoolKept(s, x)
<1> DEFINE p == s.pool
           q == TakeTx(p, t)
<1>1. p \in PoolStates /\ q \in PoolStates
  BY TakeTxType DEF States
<1>2. PoolStep(p, q, InputsPass(s), TxExists(s))
  <2>1. Sound(p) => Sound(q)
    BY TakeTxSound
  <2>2. /\ q.cache = p.cache
        /\ \A u \in Txs : /\ q.failed[u] \in {NoTop, p.failed[u]}
                           /\ q.db[u] \in {Absent, p.db[u]}
        /\ Stored(q) = Stored(p) \ {t}
        /\ q.moved \/ q = p
    BY <1>1, TakeTxEffect
  <2> HIDE DEF q, p
  <2> QED
    BY <2>1, <2>2 DEF PoolStep
<1> HIDE DEF q
<1> QED
  BY <1>1, <1>2, PoolStepKept DEF q

-----------------------------------------------------------------------------
(* Txs go back to the pool *)

LEMMA AddToPoolEffect ==
  ASSUME NEW s \in States, NEW t \in Txs
  PROVE  PoolOnly(s, AddToPool(s, t))
<1> DEFINE q == AddTx(s.pool, t, "block", InputsPass(s), Txs)
<1>1. s.pool \in PoolStates /\ "block" \in RelayMethods
  BY DEF States, RelayMethods
<1>2. q \in PoolStates
  BY <1>1, AddTxType
<1>3. AddToPool(s, t) = [s EXCEPT !.pool = q]
  BY DEF AddToPool
<1> HIDE DEF q
<1> QED
  BY <1>2, <1>3 DEF PoolOnly, States

LEMMA ReturnTxsEffect ==
  ASSUME NEW s \in States, NEW txs \in Seq(Txs)
  PROVE  PoolOnly(s, ReturnTxs(s, txs))
<1> DEFINE D == {x \in States : PoolOnly(s, x)}
<1>1. s \in D
  BY DEF PoolOnly
<1>2. ASSUME NEW x \in D, NEW t \in Txs
      PROVE  AddToPool(x, t) \in D
  <2>1. PoolOnly(x, AddToPool(x, t))
    BY AddToPoolEffect
  <2> QED
    BY <2>1 DEF PoolOnly
<1> HIDE DEF D
<1>3. PICK trace : ReturnTrace(trace, D, s, txs)
  BY <1>1, <1>2, ReturnSteps
<1>4. ReturnTxs(s, txs) \in D
  BY <1>3 DEF ReturnTxs, ReturnTrace
<1> QED
  BY <1>4 DEF D

LEMMA AddToPoolKept ==
  ASSUME NEW s \in States, Settled(s), NEW t \in Txs, t \notin TxExists(s),
         NEW x, x = AddToPool(s, t)
  PROVE  /\ PoolKept(s, x)
         /\ Roomy => Stored(s.pool) \cup {t} \subseteq Stored(x.pool)
<1> DEFINE q == AddTx(s.pool, t, "block", InputsPass(s), Txs)
<1>1. "block" \in RelayMethods /\ Legacy("block") /\ Sound(s.pool) /\ q \in PoolStates
  BY AddTxType DEF RelayMethods, Legacy, Settled, Sound
<1>2. x = [s EXCEPT !.pool = q]
  BY DEF AddToPool
<1>3. PoolKept(s, x)
  BY <1>1, <1>2, AddTxKept
<1>4. Roomy => /\ q.db[t] # Absent
               /\ \A u \in Txs : s.pool.db[u] # Absent => q.db[u] # Absent
  BY <1>1, BlockTxStored, AddTxUnpruned DEF Roomy
<1>5. x.pool = q
  BY <1>2 DEF States
<1> HIDE DEF q
<1> QED
  BY <1>3, <1>4, <1>5 DEF Stored

LEMMA ReturnTxsKept ==
  ASSUME NEW s \in States, Settled(s), NEW txs \in Seq(Txs \ TxExists(s)),
         NEW x, x = ReturnTxs(s, txs)
  PROVE  /\ PoolKept(s, x)
         /\ Roomy => Stored(s.pool) \cup ToSet(txs) \subseteq Stored(x.pool)
<1> DEFINE D == {y \in States : PoolKept(s, y)}
           T == Txs \ TxExists(s)
           n == Len(txs)
<1>1. s \in D
  BY DEF PoolKept, PoolOnly
<1>2. ASSUME NEW y \in D, NEW t \in T
      PROVE  /\ AddToPool(y, t) \in D
             /\ Roomy => Stored(y.pool) \cup {t} \subseteq Stored(AddToPool(y, t).pool)
  <2>1. y \in States /\ PoolKept(s, y) /\ Settled(y) /\ TxExists(y) = TxExists(s)
    BY SameChain DEF PoolKept, PoolOnly
  <2>2. /\ PoolKept(y, AddToPool(y, t))
        /\ Roomy => Stored(y.pool) \cup {t} \subseteq Stored(AddToPool(y, t).pool)
    BY <2>1, AddToPoolKept
  <2>3. PoolKept(s, AddToPool(y, t)) /\ AddToPool(y, t) \in States
    BY <2>1, <2>2, PoolKeptTrans DEF PoolKept, PoolOnly
  <2> QED
    BY <2>2, <2>3
<1> HIDE DEF D
<1>3. PICK trace : ReturnTrace(trace, D, s, txs)
  <2>1. \A y \in D, t \in T : AddToPool(y, t) \in D
    BY <1>2
  <2> HIDE DEF T
  <2>2. txs \in Seq(T)
    BY DEF T
  <2> QED
    BY <1>1, <2>1, <2>2, ReturnSteps
<1>4. /\ n \in Nat /\ \A i \in 1 .. n : txs[i] \in T
      /\ ToSet(txs) = {txs[i] : i \in 1 .. n}
  BY DEF ToSet
<1>5. /\ trace[0] = s /\ trace[n] = x
      /\ \A i \in 0 .. n : trace[i] \in D
      /\ \A i \in 1 .. n : trace[i] = AddToPool(trace[i - 1], txs[i])
  BY <1>3, <1>4 DEF ReturnTrace, ReturnTxs
<1> DEFINE In(i) == /\ Stored(s.pool) \subseteq Stored(trace[i].pool)
                    /\ \A j \in 1 .. i : txs[j] \in Stored(trace[i].pool)
           G == {i \in 0 .. n : Roomy => In(i)}
<1> HIDE DEF n
<1>6. 0 \in G
  BY <1>4, <1>5
<1>7. ASSUME NEW i \in 1 .. n, i - 1 \in G
      PROVE  i \in G
  <2>1. /\ i - 1 \in 0 .. n /\ i \in 0 .. n
        /\ 1 .. i = (1 .. (i - 1)) \cup {i}
    BY <1>4
  <2>2. trace[i - 1] \in D /\ txs[i] \in T /\ trace[i] = AddToPool(trace[i - 1], txs[i])
    BY <1>4, <1>5, <2>1
  <2>3. Roomy => Stored(trace[i - 1].pool) \cup {txs[i]} \subseteq Stored(trace[i].pool)
    BY <1>2, <2>2
  <2> QED
    BY <1>7, <2>1, <2>3
<1>8. \A i \in 0 .. n : i \in G
  <2> HIDE DEF G
  <2> QED
    BY <1>4, <1>6, <1>7, CountUp
<1>9. n \in 0 .. n
  BY <1>4
<1>10. x \in D /\ (Roomy => In(n))
  BY <1>5, <1>8, <1>9
<1> QED
  BY <1>4, <1>5, <1>10 DEF D

\* on_blockchain_inc or _dec, and the cached template is given up.
LEMMA Refreshed ==
  ASSUME NEW s \in States, Settled(s),
         NEW x, x = [s EXCEPT !.pool = OnBlockchainChange(s.pool), !.btc = NoTemplate]
  PROVE  Settled(x) /\ Fresh(x) /\ Stored(x.pool) = Stored(s.pool)
<1> DEFINE q == OnBlockchainChange(s.pool)
<1>1. Sound(s.pool) /\ s.pool \in PoolStates /\ q \in PoolStates
  BY ChangeType DEF Settled, Sound
<1>2. /\ q.db = s.pool.db /\ q.ki = s.pool.ki /\ q.sorted = s.pool.sorted
      /\ q.weight = s.pool.weight /\ q.failed = s.pool.failed
      /\ \A t \in Txs : q.cache[t] = "unknown"
  BY <1>1 DEF OnBlockchainChange, PoolStates
<1>3. Sound(q) /\ Stored(q) = Stored(s.pool)
  BY <1>1, <1>2, SameTableSound DEF Stored
<1> HIDE DEF q
<1>4. /\ x.pool = q /\ x.btc = NoTemplate /\ x.chain = s.chain
      /\ x.halfTxs = s.halfTxs /\ x.halfImages = s.halfImages /\ x.batchOk = s.batchOk
      /\ x.invalid = s.invalid
  BY DEF States, q
<1>5. TxExists(x) = TxExists(s)
  BY <1>4, SameChain
<1>6. Settled(x)
  BY <1>2, <1>3, <1>4, <1>5 DEF Settled
<1>7. Fresh(x)
  BY <1>2, <1>4 DEF Fresh, VerdictsRight, TemplateApt, NoTemplate
<1> QED
  BY <1>3, <1>4, <1>6, <1>7

LEMMA ReverseType ==
  ASSUME NEW S, NEW q \in Seq(S)
  PROVE  /\ Reverse(q) \in Seq(S) /\ Len(Reverse(q)) = Len(q)
         /\ \A i \in 1 .. Len(q) : Reverse(q)[i] = q[(Len(q) - i) + 1]
BY DEF Reverse

-----------------------------------------------------------------------------
(* Blocks are popped *)

LEMMA PopBlockEffect ==
  ASSUME NEW s \in States, NEW b \in Blocks, NEW x, x = PopBlock(s, b)
  PROVE  /\ x \in States
         /\ x.chain = SubSeq(s.chain, 1, Len(s.chain) - 1)
         /\ x.alt = s.alt /\ x.invalid = s.invalid
         /\ x.halfTxs = s.halfTxs /\ x.halfImages = s.halfImages
         /\ x.batchOk = s.batchOk
<1> DEFINE popped == [s EXCEPT !.chain = Front(s.chain)]
           returned == ReturnTxs(popped, Reverse(BlockTxs[b]))
<1>1. s.chain \in Seq(Blocks)
  BY DEF States
<1>2. Front(s.chain) \in Seq(Blocks) /\ Front(s.chain) = SubSeq(s.chain, 1, Len(s.chain) - 1)
  <2>1. CASE Len(s.chain) = 0
    BY <1>1, <2>1 DEF Front
  <2>2. CASE Len(s.chain) # 0
    BY <1>1, <2>2, SubSeqProperties DEF Front
  <2> QED
    BY <2>1, <2>2
<1>3. popped \in States
  BY <1>2 DEF States
<1>4. Reverse(BlockTxs[b]) \in Seq(Txs)
  <2>1. BlockTxs[b] \in Seq(Txs)
    BY BlocksAssumption
  <2> QED
    BY <2>1, ReverseType
<1>5. PoolOnly(popped, returned)
  BY <1>3, <1>4, ReturnTxsEffect
<1> HIDE DEF returned
<1>6. OnBlockchainChange(returned.pool) \in PoolStates
  BY <1>5, ChangeType DEF PoolOnly, States
<1>7. NoTemplate \in [valid : BOOLEAN, prev : Blocks, txs : SUBSET Txs]
  BY BlocksAssumption DEF NoTemplate
<1>8. x = [returned EXCEPT !.pool = OnBlockchainChange(returned.pool), !.btc = NoTemplate]
  BY DEF PopBlock, returned
<1>9. returned \in States /\ returned.chain = Front(s.chain)
      /\ returned.alt = s.alt /\ returned.invalid = s.invalid
      /\ returned.halfTxs = s.halfTxs /\ returned.halfImages = s.halfImages
      /\ returned.batchOk = s.batchOk
  BY <1>3, <1>5 DEF PoolOnly, States
<1> QED
  BY <1>2, <1>6, <1>7, <1>8, <1>9 DEF States

LEMMA ValidPrefix ==
  ASSUME NEW c, ValidChain(c), NEW n \in 1 .. Len(c)
  PROVE  ValidChain(SubSeq(c, 1, n))
<1>1. c \in Seq(Blocks) /\ Len(c) \in Nat
  BY DEF ValidChain, ChainRight
<1> DEFINE d == SubSeq(c, 1, n)
<1>2. d \in Seq(Blocks) /\ Len(d) = n /\ \A i \in 1 .. n : d[i] = c[i]
  BY <1>1
<1> HIDE DEF d
<1>3. d[1] = Genesis /\ \A i \in 1 .. n : d[i] \in ValidBlocks
  BY <1>1, <1>2 DEF ValidChain, ChainRight
<1>4. \A i \in 2 .. n : d[i] # Genesis /\ Parent[d[i]] = d[i - 1]
  <2>1. \A i \in 2 .. n : c[i] # Genesis /\ Parent[c[i]] = c[i - 1]
    BY <1>1 DEF ValidChain, ChainRight
  <2>2. \A i \in 2 .. n : d[i] = c[i] /\ d[i - 1] = c[i - 1]
    BY <1>2
  <2> QED
    BY <2>1, <2>2
<1>5. Len(d) >= 1 /\ d[1] = Genesis /\ \A i \in 2 .. Len(d) : d[i] # Genesis /\ Parent[d[i]] = d[i - 1]
  BY <1>1, <1>2, <1>3, <1>4
<1>6. ChainRight(d)
  BY <1>2, <1>5 DEF ChainRight
<1>7. \A i \in 1 .. Len(d) : d[i] \in ValidBlocks
  BY <1>2, <1>3
<1>8. ValidChain(d)
  BY <1>6, <1>7 DEF ValidChain
<1> QED
  BY <1>8 DEF d

\* What is popped goes back to the pool.
LEMMA PopBlockSettled ==
  ASSUME NEW s \in States, ValidChain(s.chain), Len(s.chain) >= 2, Settled(s),
         NEW b, b = s.chain[Len(s.chain)], NEW x, x = PopBlock(s, b)
  PROVE  /\ x \in States /\ Settled(x) /\ Fresh(x)
         /\ Roomy => HasTxs(s) \subseteq HasTxs(x)
<1> DEFINE c == s.chain
           n == Len(c) - 1
           popped == [s EXCEPT !.chain = Front(c)]
           txs == Reverse(BlockTxs[b])
           returned == ReturnTxs(popped, txs)
<1>1. /\ c \in Seq(Blocks) /\ n \in Nat /\ n >= 1 /\ Len(c) = n + 1 /\ ChainRight(c)
      /\ n \in 1 .. Len(c) /\ n + 1 \in 1 .. Len(c) /\ n + 1 \in 2 .. Len(c)
  BY DEF ValidChain, ChainRight
<1>2. b \in Blocks /\ b # Genesis /\ b \in ValidBlocks /\ Parent[b] = c[n]
  <2>1. b = c[n + 1] /\ (n + 1) - 1 = n
    BY <1>1
  <2> QED
    BY <1>1, <2>1 DEF ValidChain, ChainRight
<1>3. popped \in States /\ popped.chain = SubSeq(c, 1, n) /\ ValidChain(popped.chain)
  <2>1. Front(c) = SubSeq(c, 1, n)
    BY <1>1, SubSeqProperties DEF Front
  <2>2. ValidChain(SubSeq(c, 1, n))
    BY <1>1, ValidPrefix
  <2>3. popped \in States /\ popped.chain = Front(c)
    BY <2>1, <2>2 DEF States, ValidChain, ChainRight
  <2> QED
    BY <2>1, <2>2, <2>3
<1>4. /\ popped.pool = s.pool /\ popped.halfTxs = s.halfTxs
      /\ popped.halfImages = s.halfImages /\ popped.batchOk = s.batchOk
      /\ popped.invalid = s.invalid
  BY DEF States
<1>5. Last(popped.chain) = c[n]
  <2>1. Len(SubSeq(c, 1, n)) = n /\ SubSeq(c, 1, n)[n] = c[n]
    BY <1>1
  <2> QED
    BY <1>3, <2>1 DEF Last
<1> HIDE DEF popped
<1>6. TxExists(popped) = TxsBefore(b) /\ TxExists(s) = TxsBefore(b) \cup TxsOf(b)
  <2>1. Ancestors[b] = Ancestors[c[n]] \cup {c[n]}
    BY <1>2, AncestorsRight
  <2>2. TxsBefore(b) = TxsBefore(c[n]) \cup TxsOf(c[n])
    BY <2>1 DEF TxsBefore
  <2>3. ChainRight(popped.chain) /\ Top(popped) = c[n] /\ Top(s) = b
    BY <1>1, <1>3, <1>5 DEF ValidChain, Top, Last
  <2>4. s.halfTxs = {} /\ s.halfImages = {}
    BY DEF Settled
  <2>5. TxExists(popped) = TxsBefore(c[n]) \cup TxsOf(c[n])
    BY <1>4, <2>3, <2>4, TopPass
  <2>6. TxExists(s) = TxsBefore(b) \cup TxsOf(b)
    BY <1>1, <2>3, <2>4, TopPass
  <2> QED
    BY <2>2, <2>5, <2>6
<1>7. Settled(popped)
  BY <1>4, <1>6 DEF Settled
<1>8. txs \in Seq(Txs \ TxExists(popped)) /\ ToSet(txs) = TxsOf(b)
  <2> DEFINE seq == BlockTxs[b]
  <2>1. KeepsRules(b) /\ seq \in Seq(Txs)
    BY <1>2, BlocksAssumption DEF ValidBlocks
  <2>2. \A i \in DOMAIN seq : seq[i] \notin TxsBefore(b)
    BY <2>1 DEF KeepsRules
  <2> HIDE DEF seq
  <2> DEFINE T == Txs \ TxExists(popped)
  <2>3. seq \in Seq(T)
    BY <1>6, <2>1, <2>2
  <2> HIDE DEF T
  <2>4. /\ txs \in Seq(T) /\ Len(txs) = Len(seq)
        /\ \A i \in 1 .. Len(seq) : txs[i] = seq[(Len(seq) - i) + 1]
    BY <2>3, ReverseType DEF seq
  <2> HIDE DEF txs
  <2>5. ASSUME NEW i \in 1 .. Len(seq)
        PROVE  (Len(seq) - i) + 1 \in 1 .. Len(seq)
               /\ (Len(seq) - ((Len(seq) - i) + 1)) + 1 = i
    BY <2>3
  <2>6. ToSet(txs) = ToSet(seq)
    <3>1. DOMAIN txs = 1 .. Len(seq)
      BY <2>4
    <3>2. DOMAIN seq = 1 .. Len(seq)
      BY <2>3
    <3>3. \A i \in 1 .. Len(seq) : \E j \in 1 .. Len(seq) : txs[i] = seq[j]
      BY <2>4, <2>5
    <3>4. \A j \in 1 .. Len(seq) : \E i \in 1 .. Len(seq) : txs[i] = seq[j]
      BY <2>4, <2>5
    <3>5. ToSet(txs) = {txs[i] : i \in 1 .. Len(seq)}
      BY <3>1 DEF ToSet
    <3>6. ToSet(seq) = {seq[i] : i \in 1 .. Len(seq)}
      BY <3>2 DEF ToSet
    <3> QED
      BY <3>3, <3>4, <3>5, <3>6
  <2> QED
    BY <2>4, <2>6 DEF T, TxsOf, seq
<1> HIDE DEF txs
<1>9. /\ PoolKept(popped, returned)
      /\ Roomy => Stored(popped.pool) \cup ToSet(txs) \subseteq Stored(returned.pool)
  BY <1>3, <1>7, <1>8, ReturnTxsKept
<1> HIDE DEF returned
<1>10. /\ returned \in States /\ Settled(returned) /\ TxExists(returned) = TxExists(popped)
       /\ returned.chain = popped.chain /\ returned.halfTxs = popped.halfTxs
       /\ returned.halfImages = popped.halfImages
  BY <1>7, <1>9, SameChain DEF PoolKept, PoolOnly
<1>11. x = [returned EXCEPT !.pool = OnBlockchainChange(returned.pool), !.btc = NoTemplate]
  BY DEF PopBlock, returned, popped, txs
<1>12. Settled(x) /\ Fresh(x) /\ Stored(x.pool) = Stored(returned.pool)
  BY <1>10, <1>11, Refreshed
<1>13. TxExists(x) = TxExists(returned)
  <2>1. x.chain = returned.chain /\ x.halfTxs = returned.halfTxs
        /\ x.halfImages = returned.halfImages
    BY <1>10, <1>11 DEF States
  <2> QED
    BY <2>1, SameChain
<1>14. x \in States
  BY <1>2, PopBlockEffect
<1> QED
  BY <1>4, <1>6, <1>8, <1>9, <1>10, <1>12, <1>13, <1>14 DEF HasTxs

\* The blocks PopTo pops, from the top down, and the chain before each pop.
PopToTrace(trace, s, n) ==
  LET k == Len(s.chain) - n IN
  /\ trace \in [0 .. k -> States]
  /\ trace[0] = s /\ trace[k] = PopTo(s, n)
  /\ \A i \in 0 .. k :
       /\ trace[i].chain = SubSeq(s.chain, 1, Len(s.chain) - i)
       /\ trace[i].alt = s.alt /\ trace[i].invalid = s.invalid
       /\ trace[i].halfTxs = s.halfTxs /\ trace[i].halfImages = s.halfImages
       /\ trace[i].batchOk = s.batchOk
  /\ \A i \in 1 .. k : trace[i] = PopBlock(trace[i - 1], s.chain[(Len(s.chain) - i) + 1])

LEMMA PopToSteps ==
  ASSUME NEW s \in States, NEW n \in Nat, n <= Len(s.chain)
  PROVE  \E trace : PopToTrace(trace, s, n)
<1> DEFINE c == s.chain
           k == Len(c) - n
           bs == Reverse(SubSeq(c, n + 1, Len(c)))
           D == {x \in States : /\ x.alt = s.alt /\ x.invalid = s.invalid
                                /\ x.halfTxs = s.halfTxs /\ x.halfImages = s.halfImages
                                /\ x.batchOk = s.batchOk}
<1>1. c \in Seq(Blocks) /\ Len(c) \in Nat /\ k \in Nat /\ Len(c) = n + k
  BY DEF States
<1>2. /\ bs \in Seq(Blocks) /\ Len(bs) = k
      /\ \A i \in 1 .. k : bs[i] = c[(Len(c) - i) + 1]
  <2> DEFINE q == SubSeq(c, n + 1, Len(c))
  <2>1. q \in Seq(Blocks) /\ Len(q) = k /\ \A i \in 1 .. k : q[i] = c[n + i]
    <3>1. CASE k = 0
      BY <1>1, <3>1
    <3>2. CASE k # 0
      BY <1>1, <3>2
    <3> QED
      BY <3>1, <3>2
  <2> HIDE DEF q
  <2>2. /\ bs = Reverse(q) /\ bs \in Seq(Blocks) /\ Len(bs) = Len(q)
        /\ \A i \in 1 .. Len(q) : bs[i] = q[(Len(q) - i) + 1]
    BY <2>1, ReverseType DEF q
  <2> HIDE DEF bs
  <2>3. ASSUME NEW i \in 1 .. k
        PROVE  bs[i] = c[(Len(c) - i) + 1]
    <3>1. (k - i) + 1 \in 1 .. k /\ n + ((k - i) + 1) = (Len(c) - i) + 1
      BY <1>1
    <3> QED
      BY <2>1, <2>2, <3>1
  <2> QED
    BY <2>1, <2>2, <2>3
<1>3. s \in D
  OBVIOUS
<1>4. \A x \in D, b \in Blocks : PopBlock(x, b) \in D
  <2> SUFFICES ASSUME NEW x \in D, NEW b \in Blocks
               PROVE  PopBlock(x, b) \in D
    OBVIOUS
  <2> DEFINE y == PopBlock(x, b)
  <2>1. /\ y \in States /\ y.alt = x.alt /\ y.invalid = x.invalid
        /\ y.halfTxs = x.halfTxs /\ y.halfImages = x.halfImages /\ y.batchOk = x.batchOk
    BY PopBlockEffect
  <2> HIDE DEF y
  <2>2. y \in D
    BY <2>1
  <2> QED
    BY <2>2 DEF y
<1> HIDE DEF D, bs
<1>5. PICK trace : PopTrace(trace, D, s, bs)
  BY <1>2, <1>3, <1>4, PopSteps
<1>6. /\ trace \in [0 .. k -> D] /\ trace[0] = s /\ trace[k] = PopTo(s, n)
      /\ \A i \in 1 .. k : trace[i] = PopBlock(trace[i - 1], c[(Len(c) - i) + 1])
  <2>1. /\ trace \in [0 .. Len(bs) -> D] /\ trace[0] = s
        /\ trace[Len(bs)] = FoldLeft(PopBlock, s, bs)
        /\ \A i \in 1 .. Len(bs) : trace[i] = PopBlock(trace[i - 1], bs[i])
    BY <1>5 DEF PopTrace
  <2>2. PopTo(s, n) = FoldLeft(PopBlock, s, bs)
    BY DEF PopTo, bs
  <2>3. Len(bs) = k /\ \A i \in 1 .. k : bs[i] = c[(Len(c) - i) + 1]
    BY <1>2
  <2> HIDE DEF c, k
  <2>4. \A i \in 1 .. k : trace[i] = PopBlock(trace[i - 1], c[(Len(c) - i) + 1])
    BY <2>1, <2>3
  <2> QED
    BY <2>1, <2>2, <2>3, <2>4
<1> DEFINE G == {i \in 0 .. k : trace[i].chain = SubSeq(c, 1, Len(c) - i)}
<1>7. 0 \in G
  BY <1>1, <1>6
<1>8. ASSUME NEW i \in 1 .. k, i - 1 \in G
      PROVE  i \in G
  <2> DEFINE x == trace[i - 1]
             b == c[(Len(c) - i) + 1]
             m == Len(c) - (i - 1)
  <2>1. i \in 0 .. k /\ i - 1 \in 0 .. k /\ m \in 1 .. Len(c) /\ m - 1 = Len(c) - i
    BY <1>1
  <2>2. x \in States
    BY <1>6, <2>1 DEF D
  <2>3. b \in Blocks
    BY <1>1, <2>1
  <2>4. x.chain = SubSeq(c, 1, m)
    BY <1>8
  <2>5. trace[i] = PopBlock(x, b)
    BY <1>6
  <2> HIDE DEF x, b, m
  <2>6. trace[i].chain = SubSeq(x.chain, 1, Len(x.chain) - 1)
    BY <2>2, <2>3, <2>5, PopBlockEffect
  <2>7. SubSeq(SubSeq(c, 1, m), 1, Len(SubSeq(c, 1, m)) - 1) = SubSeq(c, 1, m - 1)
    BY <1>1, <2>1
  <2> QED
    BY <2>1, <2>4, <2>6, <2>7
<1>9. \A i \in 0 .. k : i \in G
  <2> HIDE DEF G, k
  <2> QED
    BY <1>1, <1>7, <1>8, CountUp
<1>10. \A i \in 0 .. k : /\ trace[i] \in States /\ trace[i].alt = s.alt
                         /\ trace[i].invalid = s.invalid /\ trace[i].halfTxs = s.halfTxs
                         /\ trace[i].halfImages = s.halfImages
                         /\ trace[i].batchOk = s.batchOk
  BY <1>6 DEF D
<1>11. trace \in [0 .. k -> States]
  BY <1>6, <1>10
<1>12. PopToTrace(trace, s, n)
  BY <1>6, <1>9, <1>10, <1>11 DEF PopToTrace
<1> QED
  BY <1>12

LEMMA PopToEffect ==
  ASSUME NEW s \in States, NEW n \in Nat, NEW x, x = PopTo(s, n)
  PROVE  /\ x \in States
         /\ x.chain = IF n < Len(s.chain) THEN SubSeq(s.chain, 1, n) ELSE s.chain
         /\ x.alt = s.alt /\ x.invalid = s.invalid
         /\ x.halfTxs = s.halfTxs /\ x.halfImages = s.halfImages
         /\ x.batchOk = s.batchOk
         /\ n >= Len(s.chain) => x = s
<1>1. s.chain \in Seq(Blocks) /\ Len(s.chain) \in Nat
  BY DEF States
<1>2. CASE n < Len(s.chain)
  <2>1. PICK trace : PopToTrace(trace, s, n)
    BY <1>1, <1>2, PopToSteps
  <2> DEFINE k == Len(s.chain) - n
  <2>2. k \in 0 .. k /\ Len(s.chain) - k = n /\ trace[k] = x /\ trace[k] \in States
    <3>1. k \in 0 .. k /\ Len(s.chain) - k = n
      BY <1>1, <1>2
    <3>2. trace[k] = PopTo(s, n) /\ trace \in [0 .. k -> States]
      BY <2>1 DEF PopToTrace
    <3> HIDE DEF k
    <3> QED
      BY <3>1, <3>2
  <2>3. /\ x.chain = SubSeq(s.chain, 1, Len(s.chain) - k)
        /\ x.alt = s.alt /\ x.invalid = s.invalid
        /\ x.halfTxs = s.halfTxs /\ x.halfImages = s.halfImages
        /\ x.batchOk = s.batchOk
    BY <2>1, <2>2 DEF PopToTrace
  <2> QED
    BY <1>1, <1>2, <2>2, <2>3
<1>3. CASE n >= Len(s.chain)
  <2> DEFINE E == {}
             bs == Reverse(SubSeq(s.chain, n + 1, Len(s.chain)))
  <2>1. Len(SubSeq(s.chain, n + 1, Len(s.chain))) = 0
        /\ SubSeq(s.chain, n + 1, Len(s.chain)) \in Seq(E)
    BY <1>1, <1>3
  <2>2. bs \in Seq(E) /\ Len(bs) = 0
    BY <2>1, ReverseType
  <2> HIDE DEF bs
  <2>3. PICK trace : PopTrace(trace, {s}, s, bs)
    <3>1. s \in {s} /\ \A y \in {s}, b \in E : PopBlock(y, b) \in {s}
      OBVIOUS
    <3> HIDE DEF E
    <3> QED
      BY <2>2, <3>1, PopSteps
  <2>4. x = s
    BY <2>2, <2>3 DEF PopTrace, PopTo, bs
  <2> QED
    BY <1>1, <1>3, <2>4
<1> QED
  BY <1>1, <1>2, <1>3

LEMMA PopToChain ==
  \A s \in States, n \in Nat :
    PopTo(s, n).chain = IF n < Len(s.chain) THEN SubSeq(s.chain, 1, n) ELSE s.chain
<1>1. TAKE s \in States, n \in Nat
<1> DEFINE x == PopTo(s, n)
<1>2. x = PopTo(s, n)
  OBVIOUS
<1> HIDE DEF x
<1>3. x.chain = IF n < Len(s.chain) THEN SubSeq(s.chain, 1, n) ELSE s.chain
  BY <1>2, PopToEffect, Zenon
<1> QED
  BY <1>2, <1>3

LEMMA PopToGood ==
  ASSUME NEW s, Good(s), NEW n \in Nat, n >= 1, NEW x, x = PopTo(s, n)
  PROVE  Good(x) /\ x.alt = s.alt /\ Keeps(s, x)
<1> DEFINE c == s.chain
           k == Len(c) - n
<1>1. s \in States /\ Len(c) \in Nat /\ Len(c) >= 1 /\ ValidChain(c)
      /\ (NoClashes => Settled(s) /\ Fresh(s))
  BY DEF Good, ValidChain, ChainRight
<1>2. /\ x \in States /\ x.alt = s.alt
      /\ x.chain = IF n < Len(c) THEN SubSeq(c, 1, n) ELSE c
      /\ n >= Len(c) => x = s
  <2>1. s \in States
    BY <1>1
  <2>2. /\ x \in States /\ x.alt = s.alt
        /\ x.chain = IF n < Len(s.chain) THEN SubSeq(s.chain, 1, n) ELSE s.chain
        /\ n >= Len(s.chain) => x = s
    BY <2>1, PopToEffect, Zenon
  <2> QED
    BY <2>2, Zenon
<1>3. CASE n < Len(c)
  <2>1. ValidChain(SubSeq(c, 1, n)) /\ k \in Nat /\ Len(c) = n + k
    BY <1>1, <1>3, ValidPrefix
  <2>2. PICK trace : PopToTrace(trace, s, n)
    BY <1>1, <1>3, PopToSteps
  <2>3. /\ trace[0] = s /\ trace[k] = x
        /\ \A i \in 0 .. k : trace[i] \in States /\ trace[i].chain = SubSeq(c, 1, Len(c) - i)
        /\ \A i \in 1 .. k : trace[i] = PopBlock(trace[i - 1], c[(Len(c) - i) + 1])
    BY <2>2 DEF PopToTrace
  <2> DEFINE Holds(y) == /\ Settled(y) /\ Fresh(y)
                         /\ Roomy => HasTxs(s) \subseteq HasTxs(y)
             G == {i \in 0 .. k : NoClashes => Holds(trace[i])}
  <2> HIDE DEF k
  <2>4. 0 \in G
    BY <1>1, <2>1, <2>3
  <2>5. ASSUME NEW i \in 1 .. k, i - 1 \in G
        PROVE  i \in G
    <3> DEFINE y == trace[i - 1]
               m == (Len(c) - i) + 1
    <3>1. /\ i \in 0 .. k /\ i - 1 \in 0 .. k /\ m \in 1 .. Len(c) /\ m >= 2
          /\ Len(c) - (i - 1) = m
      BY <1>1, <2>1
    <3>2. y \in States /\ y.chain = SubSeq(c, 1, m)
      BY <2>3, <3>1
    <3>3. trace[i] = PopBlock(y, c[m])
      BY <2>3
    <3>4. NoClashes => Holds(y)
      BY <2>5
    <3> HIDE DEF y, m
    <3>5. Len(y.chain) = m /\ y.chain[m] = c[m] /\ ValidChain(y.chain)
      <4>1. Len(SubSeq(c, 1, m)) = m /\ SubSeq(c, 1, m)[m] = c[m]
        BY <1>1, <3>1 DEF ValidChain, ChainRight
      <4>2. ValidChain(SubSeq(c, 1, m))
        BY <1>1, <3>1, ValidPrefix
      <4> QED
        BY <3>2, <4>1, <4>2
    <3>6. ASSUME NoClashes
          PROVE  Holds(trace[i])
      <4>1. /\ Settled(trace[i]) /\ Fresh(trace[i])
            /\ Roomy => HasTxs(y) \subseteq HasTxs(trace[i])
        BY <3>1, <3>2, <3>3, <3>4, <3>5, <3>6, PopBlockSettled
      <4> QED
        BY <3>4, <3>6, <4>1
    <3> QED
      BY <3>1, <3>6
  <2>6. \A i \in 0 .. k : i \in G
    <3> HIDE DEF G
    <3> QED
      BY <2>1, <2>4, <2>5, CountUp
  <2>7. NoClashes => Holds(x)
    BY <2>1, <2>3, <2>6
  <2> QED
    BY <1>1, <1>2, <1>3, <2>1, <2>7 DEF Good, Keeps
<1>4. CASE ~(n < Len(c))
  BY <1>1, <1>2, <1>4 DEF Keeps
<1> QED
  BY <1>3, <1>4

-----------------------------------------------------------------------------
(* Blocks are connected *)

\* The txs taken were in the pool and are in the block, none is on the chain.
TakeStates(s, b) ==
  [s : {x \in States : PoolKept(s, x)}, taken : Seq(TxsOf(b) \ TxExists(s)),
   extra : SUBSET Txs, problem : {"none", "exists", "missing", "inputs"}]

\* Where tx t of the block is found, or was.
Held(acc) == Stored(acc.s.pool) \cup acc.extra

\* What becomes of tx t of the block.
TakeStep(s, acc, t, r) ==
  /\ r.problem = "none" =>
       /\ acc.problem = "none" /\ t \notin TxExists(s) /\ t \in InputsPass(s)
       /\ Stored(r.s.pool) = Stored(acc.s.pool) \ {t}
  /\ r.problem = "inputs" => acc.problem = "inputs" \/ t \notin InputsPass(s)
  /\ Stored(acc.s.pool) \cup ToSet(acc.taken) \subseteq Stored(r.s.pool) \cup ToSet(r.taken)
  /\ /\ acc.problem = "none" /\ t \notin TxExists(s) /\ t \in InputsPass(s)
     /\ t \in Held(acc)
     => r.problem = "none" /\ Held(acc) \subseteq Held(r) \cup {t}

LEMMA TakeNextEffect ==
  ASSUME NEW s \in States, NEW b \in Blocks, NEW acc \in TakeStates(s, b),
         NEW t \in TxsOf(b), NEW r, r = TakeNext(acc, t)
  PROVE  r \in TakeStates(s, b) /\ TakeStep(s, acc, t, r)
<1> DEFINE T == TxsOf(b) \ TxExists(s)
           p == TakeTx(acc.s.pool, t)
           y == [acc.s EXCEPT !.pool = p]
           found == acc.s.pool.db[t] # Absent
           next == [s |-> y,
                    taken |-> IF found THEN Append(acc.taken, t) ELSE acc.taken,
                    extra |-> IF found THEN acc.extra ELSE acc.extra \ {t},
                    problem |-> IF t \in InputsPass(acc.s) THEN "none" ELSE "inputs"]
<1>1. /\ acc.s \in States /\ PoolKept(s, acc.s) /\ acc.taken \in Seq(T)
      /\ acc.extra \in SUBSET Txs
      /\ acc.problem \in {"none", "exists", "missing", "inputs"}
  BY DEF TakeStates
<1>2. TxExists(acc.s) = TxExists(s) /\ InputsPass(acc.s) = InputsPass(s)
  BY <1>1, SameChain DEF PoolKept, PoolOnly
<1>3. t \in Txs
  BY BlocksAssumption DEF TxsOf, ToSet
<1>4. /\ y \in States /\ PoolKept(s, y) /\ y.pool = p
      /\ Stored(p) = Stored(acc.s.pool) \ {t}
  <2>1. PoolKept(acc.s, y) /\ acc.s.pool \in PoolStates
    BY <1>1, <1>3, TakeTxKept DEF States
  <2>2. Stored(p) = Stored(acc.s.pool) \ {t}
    BY <1>3, <2>1, TakeTxEffect
  <2>3. y.pool = p
    BY <1>1 DEF States
  <2> HIDE DEF y
  <2> QED
    BY <1>1, <2>1, <2>2, <2>3, PoolKeptTrans DEF PoolKept, PoolOnly
<1> HIDE DEF p
<1>5. found <=> t \in Stored(acc.s.pool)
  BY <1>3 DEF Stored
<1>6. \/ r = acc /\ acc.problem # "none"
      \/ r = [acc EXCEPT !.problem = "exists"] /\ t \in TxExists(s)
      \/ r = [acc EXCEPT !.problem = "missing"] /\ t \notin Held(acc)
      \/ acc.problem = "none" /\ t \notin TxExists(s) /\ t \in Held(acc) /\ r = next
  BY <1>2, <1>5 DEF TakeNext, Held, p
<1> HIDE DEF y, found
<1>7. CASE r = next /\ t \notin TxExists(s) /\ acc.problem = "none" /\ t \in Held(acc)
  <2>1. /\ Append(acc.taken, t) \in Seq(T)
        /\ ToSet(Append(acc.taken, t)) = ToSet(acc.taken) \cup {t}
    <3> DEFINE d == Append(acc.taken, t)
               m == Len(acc.taken)
    <3>1. m \in Nat /\ t \in T /\ acc.taken \in Seq(T)
      BY <1>1, <1>7
    <3> HIDE DEF T
    <3>2. d \in Seq(T) /\ Len(d) = m + 1 /\ d[m + 1] = t /\ \A i \in 1 .. m : d[i] = acc.taken[i]
      BY <3>1, AppendProperties
    <3> HIDE DEF d
    <3>3. ToSet(d) = {d[i] : i \in 1 .. m + 1}
      BY <3>2 DEF ToSet
    <3>4. ToSet(acc.taken) = {acc.taken[i] : i \in 1 .. m}
      BY <3>1 DEF ToSet
    <3>5. 1 .. m + 1 = (1 .. m) \cup {m + 1}
      BY <3>1
    <3> HIDE DEF m
    <3>6. ToSet(d) = ToSet(acc.taken) \cup {t}
      BY <3>2, <3>3, <3>4, <3>5
    <3> QED
      BY <3>2, <3>6 DEF d
  <2> DEFINE taken == IF found THEN Append(acc.taken, t) ELSE acc.taken
             extra == IF found THEN acc.extra ELSE acc.extra \ {t}
             problem == IF t \in InputsPass(acc.s) THEN "none" ELSE "inputs"
  <2>2. r.s = y /\ r.taken = taken /\ r.extra = extra /\ r.problem = problem
        /\ r = [s |-> y, taken |-> taken, extra |-> extra, problem |-> problem]
    BY <1>7
  <2>3. /\ taken \in Seq(T) /\ extra \in SUBSET Txs
        /\ problem \in {"none", "exists", "missing", "inputs"}
        /\ problem = "none" <=> t \in InputsPass(s)
        /\ problem = "inputs" => t \notin InputsPass(s)
        /\ found => ToSet(taken) = ToSet(acc.taken) \cup {t}
        /\ ~found => ToSet(taken) = ToSet(acc.taken)
        /\ acc.extra \subseteq extra \cup {t}
    BY <1>1, <1>2, <2>1
  <2> HIDE DEF T, taken, extra, problem
  <2>4. r \in TakeStates(s, b)
    BY <1>4, <2>2, <2>3 DEF TakeStates, T
  <2>5. Stored(r.s.pool) = Stored(acc.s.pool) \ {t}
    BY <1>4, <2>2
  <2> QED
    BY <1>5, <1>7, <2>2, <2>3, <2>4, <2>5 DEF Held, TakeStep
<1>8. CASE r = acc /\ acc.problem # "none"
  BY <1>8 DEF TakeStep
<1>9. CASE r = [acc EXCEPT !.problem = "exists"] /\ t \in TxExists(s)
  <2>1. r \in TakeStates(s, b) /\ r.s = acc.s /\ r.taken = acc.taken /\ r.problem = "exists"
    BY <1>9 DEF TakeStates
  <2> QED
    BY <1>9, <2>1 DEF TakeStep
<1>10. CASE r = [acc EXCEPT !.problem = "missing"] /\ t \notin Held(acc)
  <2>1. r \in TakeStates(s, b) /\ r.s = acc.s /\ r.taken = acc.taken /\ r.problem = "missing"
    BY <1>10 DEF TakeStates
  <2> QED
    BY <1>10, <2>1 DEF TakeStep
<1> QED
  BY <1>6, <1>7, <1>8, <1>9, <1>10

LEMMA TakeBlockTxsEffect ==
  ASSUME NEW s \in States, NEW b \in Blocks, NEW supplement \in SUBSET Txs,
         NEW r, r = TakeBlockTxs(s, b, supplement)
  PROVE  /\ r \in TakeStates(s, b)
         /\ r.problem = "none" =>
              \A t \in TxsOf(b) : /\ t \notin TxExists(s) /\ t \in InputsPass(s)
                                  /\ t \notin Stored(r.s.pool)
         /\ r.problem = "inputs" => \E t \in TxsOf(b) : t \notin InputsPass(s)
         /\ Stored(s.pool) \subseteq Stored(r.s.pool) \cup ToSet(r.taken)
         /\ /\ IsInjective(BlockTxs[b])
            /\ \A t \in TxsOf(b) : /\ t \notin TxExists(s) /\ t \in InputsPass(s)
                                   /\ t \in Stored(s.pool) \cup supplement
            => r.problem = "none"
<1> DEFINE D == TakeStates(s, b)
           T == TxsOf(b)
           base == [s |-> s, taken |-> <<>>, extra |-> supplement, problem |-> "none"]
           seq == BlockTxs[b]
           n == Len(seq)
<1>1. /\ seq \in Seq(T) /\ n \in Nat /\ \A i \in 1 .. n : seq[i] \in T
      /\ T = {seq[i] : i \in 1 .. n} /\ DOMAIN seq = 1 .. n
  <2>1. seq \in Seq(Txs)
    BY BlocksAssumption
  <2>2. T = {seq[i] : i \in 1 .. n}
    BY <2>1 DEF TxsOf, ToSet
  <2> QED
    BY <2>1, <2>2
<1>2. base \in D
  <2>1. <<>> \in Seq(T \ TxExists(s))
    BY EmptySeq
  <2> QED
    BY <2>1 DEF TakeStates, PoolKept, PoolOnly
<1>3. \A x \in D, t \in T : TakeNext(x, t) \in D
  BY TakeNextEffect
<1>4. PICK trace : TakeTrace(trace, D, base, seq)
  <2> HIDE DEF base, seq, D, T
  <2> QED
    BY <1>1, <1>2, <1>3, TakeSteps
<1>5. /\ \A i \in 0 .. n : trace[i] \in D
      /\ trace[0] = base /\ trace[n] = r
      /\ \A i \in 1 .. n : trace[i] = TakeNext(trace[i - 1], seq[i])
  BY <1>1, <1>4 DEF TakeTrace, TakeBlockTxs
<1> DEFINE Taken(i) ==
             \A j \in 1 .. i : /\ seq[j] \notin TxExists(s) /\ seq[j] \in InputsPass(s)
                               /\ seq[j] \notin Stored(trace[i].s.pool)
           Failed(i) == \E j \in 1 .. i : seq[j] \notin InputsPass(s)
           Whole == /\ IsInjective(seq)
                    /\ \A t \in T : /\ t \notin TxExists(s) /\ t \in InputsPass(s)
                                    /\ t \in Stored(s.pool) \cup supplement
           Left(i) == /\ trace[i].problem = "none"
                      /\ \A j \in (i + 1) .. n : seq[j] \in Held(trace[i])
           Holds(i) ==
             /\ trace[i].problem = "none" => Taken(i)
             /\ trace[i].problem = "inputs" => Failed(i)
             /\ Stored(s.pool) \subseteq Stored(trace[i].s.pool) \cup ToSet(trace[i].taken)
             /\ Whole => Left(i)
           G == {i \in 0 .. n : Holds(i)}
<1>6. 0 \in G
  <2>1. trace[0].problem = "none" /\ trace[0].s = s /\ trace[0].extra = supplement
    BY <1>5
  <2>2. 0 \in 0 .. n /\ 1 .. 0 = {} /\ (0 + 1) .. n = 1 .. n
    BY <1>1
  <2>3. Held(trace[0]) = Stored(s.pool) \cup supplement
    BY <2>1 DEF Held
  <2> HIDE DEF T, base, seq, n
  <2>4. Whole => Left(0)
    BY <1>1, <2>1, <2>2, <2>3
  <2>5. Taken(0)
    BY <2>2
  <2> HIDE DEF Taken, Whole, Left
  <2> QED
    BY <2>1, <2>2, <2>4, <2>5
<1>7. ASSUME NEW i \in 1 .. n, i - 1 \in G
      PROVE  i \in G
  <2> DEFINE x == trace[i - 1]
             y == trace[i]
             t == seq[i]
  <2>1. /\ i - 1 \in 0 .. n /\ i \in 0 .. n /\ (i - 1) + 1 = i /\ t \in T
        /\ 1 .. i = (1 .. (i - 1)) \cup {i}
        /\ i .. n = {i} \cup ((i + 1) .. n)
    <3> HIDE DEF T, n, seq
    <3> QED
      BY <1>1
  <2>2. x \in TakeStates(s, b) /\ y = TakeNext(x, t) /\ t \in TxsOf(b)
    BY <1>5, <2>1
  <2>3. Holds(i - 1)
    BY <1>7
  <2> HIDE DEF x, y, t, T, n, seq
  <2>4. TakeStep(s, x, t, y)
    BY <2>2, TakeNextEffect
  <2>5. y.problem = "none" => Taken(i)
    BY <2>1, <2>3, <2>4 DEF x, y, t, TakeStep
  <2>6. y.problem = "inputs" => Failed(i)
    BY <2>1, <2>3, <2>4 DEF x, y, t, TakeStep
  <2>7. Stored(s.pool) \subseteq Stored(y.s.pool) \cup ToSet(y.taken)
    BY <2>3, <2>4 DEF x, TakeStep
  <2>8. ASSUME Whole
        PROVE  Left(i)
    <3>1. x.problem = "none" /\ \A j \in i .. n : seq[j] \in Held(x)
      BY <2>1, <2>3, <2>8 DEF x
    <3>2. t \notin TxExists(s) /\ t \in InputsPass(s)
      BY <2>1, <2>8
    <3>3. t \in Held(x)
      BY <2>1, <3>1 DEF t
    <3>4. y.problem = "none" /\ Held(x) \subseteq Held(y) \cup {t}
      BY <2>4, <3>1, <3>2, <3>3 DEF TakeStep
    <3>5. ASSUME NEW j \in (i + 1) .. n
          PROVE  seq[j] \in Held(y)
      <4>1. j \in i .. n /\ j # i /\ j \in DOMAIN seq /\ i \in DOMAIN seq
        BY <1>1, <2>1
      <4>2. seq[j] # t
        BY <2>8, <4>1 DEF IsInjective, t
      <4> QED
        BY <3>1, <3>4, <4>1, <4>2
    <3> QED
      BY <3>4, <3>5 DEF y
  <2> QED
    BY <2>1, <2>5, <2>6, <2>7, <2>8 DEF y
<1> HIDE DEF Holds
<1>8. \A i \in 0 .. n : i \in G
  <2> HIDE DEF G, n
  <2> QED
    BY <1>1, <1>6, <1>7, CountUp
<1>9. n \in 0 .. n
  BY <1>1
<1>10. r \in D /\ Holds(n)
  BY <1>5, <1>8, <1>9
<1> QED
  BY <1>1, <1>5, <1>10 DEF Holds

\* When add_block meets no image twice, the txs of the block share none.
LEMMA WrittenBeforeClashEffect ==
  ASSUME NEW b \in Blocks, NEW w, w = WrittenBeforeClash(b)
  PROVE  /\ w \in [txs : SUBSET Txs, images : SUBSET KeyImages, clash : BOOLEAN]
         /\ ~w.clash =>
              \A i, j \in DOMAIN BlockTxs[b] :
                i # j => KeyImagesOf[BlockTxs[b][i]] \cap KeyImagesOf[BlockTxs[b][j]] = {}
<1> DEFINE D == [txs : SUBSET Txs, images : SUBSET KeyImages, clash : BOOLEAN]
           base == [txs |-> {}, images |-> {}, clash |-> FALSE]
           seq == BlockTxs[b]
           im(i) == KeyImagesOf[seq[i]]
<1>1. /\ seq \in Seq(Txs) /\ Len(seq) \in Nat
      /\ \A i \in 1 .. Len(seq) : seq[i] \in Txs /\ im(i) \in SUBSET KeyImages
  BY BlocksAssumption, KeyImagesAssumption
<1>2. base \in D
  OBVIOUS
<1>3. \A x \in D, t \in Txs : WriteNext(x, t) \in D
  BY KeyImagesAssumption DEF WriteNext
<1>4. PICK trace : WriteTrace(trace, D, base, seq)
  <2> HIDE DEF D, base, seq
  <2> QED
    BY <1>1, <1>2, <1>3, WriteSteps
<1>5. /\ \A i \in 0 .. Len(seq) : trace[i] \in D
      /\ trace[Len(seq)] = w
      /\ \A i \in 1 .. Len(seq) : trace[i] = WriteNext(trace[i - 1], seq[i])
  BY <1>4 DEF WriteTrace, WrittenBeforeClash
<1> DEFINE Apart(i) ==
             /\ \A j \in 1 .. i : im(j) \subseteq trace[i].images
             /\ \A j, k \in 1 .. i : j # k => im(j) \cap im(k) = {}
           G == {i \in 0 .. Len(seq) : ~trace[i].clash => Apart(i)}
<1> HIDE DEF seq
<1>6. 0 \in G
  BY <1>1
<1>7. ASSUME NEW i \in 1 .. Len(seq), i - 1 \in G
      PROVE  i \in G
  <2>1. /\ i - 1 \in 0 .. Len(seq) /\ i \in 0 .. Len(seq)
        /\ 1 .. i = (1 .. (i - 1)) \cup {i}
    BY <1>1
  <2> DEFINE x == trace[i - 1]
             y == trace[i]
  <2>2. x \in D /\ y = WriteNext(x, seq[i])
    BY <1>5, <2>1
  <2> HIDE DEF x, y
  <2>3. ~y.clash => /\ ~x.clash /\ im(i) \cap x.images = {}
                    /\ y.images = x.images \cup im(i)
    BY <2>2 DEF WriteNext
  <2>4. SUFFICES ASSUME ~y.clash PROVE Apart(i)
    BY <2>1 DEF y
  <2>5. Apart(i - 1)
    BY <1>7, <2>3, <2>4 DEF x
  <2>6. \A j \in 1 .. i : im(j) \subseteq y.images
    <3>1. \A j \in 1 .. (i - 1) : im(j) \subseteq x.images
      BY <2>5 DEF x
    <3> HIDE DEF im
    <3> QED
      BY <2>1, <2>3, <2>4, <3>1
  <2>7. \A j, k \in 1 .. i : j # k => im(j) \cap im(k) = {}
    <3>1. \A j \in 1 .. (i - 1) : im(j) \subseteq x.images
      BY <2>5 DEF x
    <3>2. \A j, k \in 1 .. (i - 1) : j # k => im(j) \cap im(k) = {}
      BY <2>5
    <3>3. im(i) \cap x.images = {}
      BY <2>3, <2>4
    <3> HIDE DEF im
    <3> QED
      BY <2>1, <3>1, <3>2, <3>3
  <2> QED
    BY <2>6, <2>7 DEF y
<1>8. \A i \in 0 .. Len(seq) : i \in G
  <2> HIDE DEF G
  <2> QED
    BY <1>1, <1>6, <1>7, CountUp
<1>9. Len(seq) \in 0 .. Len(seq)
  BY <1>1
<1>10. w \in D /\ (~w.clash => Apart(Len(seq)))
  BY <1>5, <1>8, <1>9
<1>11. DOMAIN BlockTxs[b] = 1 .. Len(seq)
  BY <1>1 DEF seq
<1> QED
  BY <1>10, <1>11 DEF seq

LEMMA NeverClashes ==
  ASSUME NoClashes, NEW b \in Blocks, NEW w, w = WrittenBeforeClash(b)
  PROVE  ~w.clash
<1> DEFINE D == [txs : SUBSET Txs, images : SUBSET KeyImages, clash : BOOLEAN]
           base == [txs |-> {}, images |-> {}, clash |-> FALSE]
           seq == BlockTxs[b]
           im(i) == KeyImagesOf[seq[i]]
           n == Len(seq)
<1>1. /\ seq \in Seq(Txs) /\ n \in Nat /\ DOMAIN seq = 1 .. n
      /\ \A i \in 1 .. n : seq[i] \in Txs /\ im(i) \in SUBSET KeyImages
  BY BlocksAssumption, KeyImagesAssumption
<1>2. \A i, j \in 1 .. n : i # j => im(i) \cap im(j) = {}
  BY <1>1 DEF NoClashes
<1>3. base \in D
  OBVIOUS
<1>4. \A x \in D, t \in Txs : WriteNext(x, t) \in D
  BY KeyImagesAssumption DEF WriteNext
<1>5. PICK trace : WriteTrace(trace, D, base, seq)
  <2> HIDE DEF D, base, seq
  <2> QED
    BY <1>1, <1>3, <1>4, WriteSteps
<1>6. /\ \A i \in 0 .. n : trace[i] \in D
      /\ trace[0] = base /\ trace[n] = w
      /\ \A i \in 1 .. n : trace[i] = WriteNext(trace[i - 1], seq[i])
  BY <1>1, <1>5 DEF WriteTrace, WrittenBeforeClash
<1> DEFINE Holds(i) == /\ ~trace[i].clash
                       /\ \A k \in trace[i].images : \E j \in 1 .. i : k \in im(j)
           G == {i \in 0 .. n : Holds(i)}
<1> HIDE DEF seq
<1>7. 0 \in G
  BY <1>1, <1>6
<1>8. ASSUME NEW i \in 1 .. n, i - 1 \in G
      PROVE  i \in G
  <2> DEFINE x == trace[i - 1]
             y == trace[i]
  <2>1. /\ i - 1 \in 0 .. n /\ i \in 0 .. n /\ i \notin 1 .. (i - 1)
        /\ 1 .. i = (1 .. (i - 1)) \cup {i} /\ 1 .. i \subseteq 1 .. n
    BY <1>1
  <2>2. x \in D /\ y = WriteNext(x, seq[i])
    BY <1>6, <2>1
  <2>3. ~x.clash /\ \A k \in x.images : \E j \in 1 .. (i - 1) : k \in im(j)
    BY <1>8
  <2> HIDE DEF x, y
  <2>4. im(i) \cap x.images = {}
    <3> SUFFICES ASSUME NEW k \in im(i), k \in x.images
                 PROVE  FALSE
      OBVIOUS
    <3>1. PICK j \in 1 .. (i - 1) : k \in im(j)
      BY <2>3
    <3>2. j \in 1 .. n /\ j # i
      BY <2>1
    <3> HIDE DEF im
    <3> QED
      BY <1>2, <3>1, <3>2
  <2>5. ~y.clash /\ y.images = x.images \cup im(i)
    BY <2>2, <2>3, <2>4 DEF WriteNext
  <2> HIDE DEF im
  <2>6. \A k \in y.images : \E j \in 1 .. i : k \in im(j)
    BY <2>1, <2>3, <2>5
  <2> QED
    BY <2>1, <2>5, <2>6 DEF y
<1>9. \A i \in 0 .. n : i \in G
  <2> HIDE DEF G, n
  <2> QED
    BY <1>1, <1>7, <1>8, CountUp
<1>10. n \in 0 .. n
  BY <1>1
<1> QED
  BY <1>6, <1>9, <1>10

\* On top of a valid chain, a block whose txs pass keeps the rules.
LEMMA BlockKeepsRules ==
  ASSUME NEW s \in States, ValidChain(s.chain), NEW b \in Blocks,
         b # Genesis, b \notin BadHeader, b \notin BadReward, Parent[b] = Top(s),
         \A t \in TxsOf(b) : t \notin TxExists(s) /\ t \in InputsPass(s),
         \A i, j \in DOMAIN BlockTxs[b] :
           i # j => KeyImagesOf[BlockTxs[b][i]] \cap KeyImagesOf[BlockTxs[b][j]] = {}
  PROVE  ValidChain(Append(s.chain, b))
<1> DEFINE c == s.chain
           n == Len(c)
           seq == BlockTxs[b]
<1>1. c \in Seq(Blocks) /\ n \in Nat /\ n >= 1 /\ ChainRight(c) /\ Top(s) = c[n]
      /\ \A i \in 1 .. n : c[i] \in ValidBlocks /\ c[i] \in Blocks
  BY DEF ValidChain, ChainRight, Top, Last
<1>2. OnChain(s) = {c[i] : i \in 1 .. n}
  BY <1>1 DEF OnChain, ToSet
<1>3. Ancestors[b] = OnChain(s)
  <2>1. ToSet(c) = Ancestors[Last(c)] \cup {Last(c)} /\ Last(c) = Top(s)
    BY <1>1, ChainOfAncestors DEF Top
  <2>2. Ancestors[b] = Ancestors[Top(s)] \cup {Top(s)}
    BY AncestorsRight
  <2> QED
    BY <2>1, <2>2 DEF OnChain
<1>4. TxsBefore(b) \subseteq TxExists(s) /\ ImagesOf(TxsBefore(b)) \subseteq Spent(s)
  BY <1>3 DEF TxsBefore, TxExists, ImagesOf, Spent
<1>5. seq \in Seq(Txs) /\ \A i \in DOMAIN seq : seq[i] \in TxsOf(b) /\ seq[i] \in Txs
  BY BlocksAssumption DEF TxsOf, ToSet
<1>6. IsInjective(seq)
  BY <1>5, InputsAssumption DEF IsInjective
<1>7. ASSUME NEW i \in DOMAIN seq
      PROVE  /\ seq[i] \notin TxsBefore(b)
             /\ Needs[seq[i]] \subseteq Ancestors[b]
             /\ KeyImagesOf[seq[i]] \cap ImagesOf(TxsBefore(b)) = {}
  BY <1>3, <1>4, <1>5 DEF InputsPass
<1>8. KeepsRules(b)
  BY <1>6, <1>7 DEF KeepsRules
<1>9. \A x \in OnChain(s) : x = Genesis \/ KeepsRules(x)
  BY <1>1, <1>2 DEF ValidBlocks
<1>10. b \in ValidBlocks
  BY <1>3, <1>8, <1>9 DEF ValidBlocks
<1> DEFINE d == Append(c, b)
<1>11. /\ d \in Seq(Blocks) /\ Len(d) = n + 1 /\ d[n + 1] = b
       /\ \A i \in 1 .. n : d[i] = c[i]
  BY <1>1, AppendProperties
<1> HIDE DEF d
<1>12. \A i \in 2 .. n + 1 : d[i] # Genesis /\ Parent[d[i]] = d[i - 1]
  <2>1. \A i \in 2 .. n : c[i] # Genesis /\ Parent[c[i]] = c[i - 1]
    BY <1>1 DEF ChainRight
  <2>2. d[n + 1] # Genesis /\ Parent[d[n + 1]] = d[(n + 1) - 1]
    BY <1>1, <1>11
  <2>3. \A i \in 2 .. n : d[i] = c[i] /\ d[i - 1] = c[i - 1]
    BY <1>1, <1>11
  <2> SUFFICES ASSUME NEW i \in 2 .. n + 1
               PROVE  d[i] # Genesis /\ Parent[d[i]] = d[i - 1]
    OBVIOUS
  <2>4. i \in 2 .. n \/ i = n + 1
    BY <1>1
  <2> QED
    BY <2>1, <2>2, <2>3, <2>4
<1>13. d[1] = Genesis
  BY <1>1, <1>11 DEF ChainRight
<1>14. ValidChain(d)
  BY <1>1, <1>10, <1>11, <1>12, <1>13 DEF ValidChain, ChainRight
<1> QED
  BY <1>14 DEF d

\* On top of its parent, the txs of a valid block are new and pass.
LEMMA ValidBlockPasses ==
  ASSUME NEW s, ValidChain(s.chain), s.halfTxs = {}, s.halfImages = {},
         NEW b \in ValidBlocks, b # Genesis, Parent[b] = Top(s)
  PROVE  /\ KeepsRules(b)
         /\ \A t \in TxsOf(b) : t \notin TxExists(s) /\ t \in InputsPass(s)
<1>1. b \in Blocks /\ KeepsRules(b)
  BY DEF ValidBlocks
<1>2. /\ InputsPass(s) = PassOn(Top(s)) /\ OnChain(s) = Ancestors[Top(s)] \cup {Top(s)}
      /\ TxExists(s) = TxsBefore(Top(s)) \cup TxsOf(Top(s))
  BY TopPass DEF ValidChain
<1>3. Ancestors[b] = Ancestors[Top(s)] \cup {Top(s)}
  BY <1>1, AncestorsRight
<1>4. TxsBefore(b) = TxsBefore(Top(s)) \cup TxsOf(Top(s))
  BY <1>3 DEF TxsBefore
<1>5. ASSUME NEW t \in TxsOf(b)
      PROVE  /\ t \in Txs /\ t \notin TxsBefore(b) /\ Needs[t] \subseteq Ancestors[b]
             /\ KeyImagesOf[t] \cap ImagesOf(TxsBefore(b)) = {}
  <2>1. PICK i \in DOMAIN BlockTxs[b] : t = BlockTxs[b][i]
    BY DEF TxsOf, ToSet
  <2>2. t \in Txs
    BY <1>1, <2>1, BlocksAssumption
  <2> QED
    BY <1>1, <2>1, <2>2 DEF KeepsRules
<1> QED
  BY <1>1, <1>2, <1>3, <1>4, <1>5 DEF PassOn

\* The block fails: what was taken goes back.
LEMMA GiveBack ==
  ASSUME NEW s, Good(s), NEW b \in Blocks, NEW r \in TakeStates(s, b),
         Stored(s.pool) \subseteq Stored(r.s.pool) \cup ToSet(r.taken),
         r.problem = "inputs" => \E t \in TxsOf(b) : t \notin InputsPass(s),
         b # Genesis, Parent[b] = Top(s),
         NEW x, x = ReturnTxs(Condemn(r.s, b, r.problem), r.taken)
  PROVE  Good(x) /\ x.chain = s.chain /\ x.alt = s.alt /\ Keeps(s, x)
<1> DEFINE y == Condemn(r.s, b, r.problem)
<1>1. /\ s \in States /\ ValidChain(s.chain) /\ (NoClashes => Settled(s) /\ Fresh(s))
      /\ r.s \in States /\ PoolKept(s, r.s) /\ r.taken \in Seq(TxsOf(b) \ TxExists(s))
  BY DEF Good, TakeStates
<1>2. /\ y \in States /\ PoolOnly(r.s, [y EXCEPT !.invalid = r.s.invalid])
      /\ y.pool = r.s.pool /\ y.chain = s.chain /\ y.alt = s.alt
      /\ y.halfTxs = s.halfTxs /\ y.halfImages = s.halfImages
      /\ y.batchOk = s.batchOk /\ y.btc = s.btc
      /\ y.invalid = IF r.problem = "inputs" THEN s.invalid \cup {b} ELSE s.invalid
  BY <1>1 DEF Condemn, States, PoolKept, PoolOnly
<1>3. TxExists(y) = TxExists(s) /\ InputsPass(y) = InputsPass(s)
  BY <1>2, SameChain
<1> HIDE DEF y
<1>4. r.taken \in Seq(Txs \ TxExists(y)) /\ r.taken \in Seq(Txs)
  <2>1. TxsOf(b) \subseteq Txs
    BY BlocksAssumption DEF TxsOf, ToSet
  <2> QED
    BY <1>1, <1>3, <2>1
<1>5. PoolOnly(y, x)
  BY <1>2, <1>4, ReturnTxsEffect DEF y
<1>6. ASSUME NoClashes
      PROVE  Settled(y) /\ Fresh(y)
  <2>1. Settled(r.s) /\ Fresh(r.s)
    BY <1>1, <1>6 DEF PoolKept
  <2>2. TxExists(r.s) = TxExists(s) /\ InputsPass(r.s) = InputsPass(s)
    BY <1>1, SameChain DEF PoolKept, PoolOnly
  <2>3. y.invalid \cap ValidBlocks = {}
    <3>1. s.halfTxs = {} /\ s.halfImages = {} /\ s.invalid \cap ValidBlocks = {}
      BY <1>1, <1>6 DEF Settled
    <3>2. r.problem = "inputs" => b \notin ValidBlocks
      BY <1>1, <3>1, ValidBlockPasses
    <3> QED
      BY <1>2, <3>1, <3>2
  <2>4. Settled(y)
    BY <1>1, <1>2, <1>3, <2>1, <2>2, <2>3 DEF Settled, PoolKept, PoolOnly
  <2>5. Fresh(y)
    BY <1>1, <1>2, <1>3, <2>1, <2>2 DEF Fresh, VerdictsRight, TemplateApt, PoolKept, PoolOnly
  <2> QED
    BY <2>4, <2>5
<1>7. NoClashes => /\ PoolKept(y, x)
                   /\ Roomy => Stored(y.pool) \cup ToSet(r.taken) \subseteq Stored(x.pool)
  <2>1. x = ReturnTxs(y, r.taken)
    BY DEF y
  <2> SUFFICES ASSUME NoClashes
               PROVE  /\ PoolKept(y, x)
                      /\ Roomy => Stored(y.pool) \cup ToSet(r.taken) \subseteq Stored(x.pool)
    OBVIOUS
  <2>2. Settled(y)
    BY <1>6
  <2> QED
    BY <1>2, <1>4, <2>1, <2>2, ReturnTxsKept
<1>8. NoClashes => Settled(x) /\ Fresh(x)
  BY <1>6, <1>7 DEF PoolKept
<1>9. Keeps(s, x)
  <2>1. TxExists(x) = TxExists(y)
    BY <1>5, SameChain DEF PoolOnly
  <2> QED
    BY <1>2, <1>3, <1>7, <2>1 DEF Keeps, HasTxs
<1> QED
  BY <1>1, <1>2, <1>5, <1>8, <1>9 DEF Good, PoolOnly

LEMMA ConnectGood ==
  ASSUME NEW s, Good(s), NEW b \in Blocks, NEW r \in TakeStates(s, b),
         Stored(s.pool) \subseteq Stored(r.s.pool) \cup ToSet(r.taken),
         \A t \in TxsOf(b) : t \notin Stored(r.s.pool),
         ValidChain(Append(s.chain, b)),
         NEW x, x = Connect(r.s, b)
  PROVE  Good(x) /\ x.chain = Append(s.chain, b) /\ x.alt = s.alt /\ Keeps(s, x)
<1> DEFINE q == OnBlockchainChange(r.s.pool)
           d == Append(s.chain, b)
           y == [r.s EXCEPT !.chain = d]
<1>1. /\ s \in States /\ ValidChain(s.chain) /\ (NoClashes => Settled(s) /\ Fresh(s))
      /\ s.alt \in SUBSET (Blocks \ {Genesis})
      /\ r.s \in States /\ PoolKept(s, r.s) /\ r.taken \in Seq(TxsOf(b) \ TxExists(s))
  BY DEF Good, TakeStates
<1>2. /\ d \in Seq(Blocks) /\ ToSet(d) = ToSet(s.chain) \cup {b}
  <2> DEFINE n == Len(s.chain)
  <2>1. s.chain \in Seq(Blocks) /\ n \in Nat
    BY <1>1 DEF States
  <2>2. /\ d \in Seq(Blocks) /\ Len(d) = n + 1 /\ d[n + 1] = b
        /\ \A i \in 1 .. n : d[i] = s.chain[i]
    BY <2>1, AppendProperties
  <2> HIDE DEF d
  <2>3. ToSet(d) = {d[i] : i \in 1 .. n + 1}
    BY <2>2 DEF ToSet
  <2>4. ToSet(s.chain) = {s.chain[i] : i \in 1 .. n}
    BY <2>1 DEF ToSet
  <2>5. 1 .. n + 1 = (1 .. n) \cup {n + 1}
    BY <2>1
  <2> HIDE DEF n
  <2>6. ToSet(d) = ToSet(s.chain) \cup {b}
    BY <2>2, <2>3, <2>4, <2>5
  <2> QED
    BY <2>2, <2>6
<1> HIDE DEF d
<1>3. /\ y \in States /\ y.chain = d /\ y.pool = r.s.pool /\ y.alt = s.alt
      /\ y.invalid = s.invalid /\ y.halfTxs = s.halfTxs /\ y.halfImages = s.halfImages
      /\ y.batchOk = s.batchOk
  BY <1>1, <1>2 DEF States, PoolKept, PoolOnly
<1>4. x = [y EXCEPT !.pool = OnBlockchainChange(y.pool), !.btc = NoTemplate]
  <2>1. r.s.chain = s.chain
    BY <1>1 DEF PoolKept, PoolOnly
  <2> QED
    BY <1>1, <1>3, <2>1 DEF Connect, d, States
<1>5. TxExists(y) = TxExists(s) \cup TxsOf(b)
  BY <1>2, <1>3 DEF TxExists, OnChain
<1> HIDE DEF y
<1>6. /\ x \in States /\ x.chain = d /\ x.alt = s.alt
      /\ x.halfTxs = y.halfTxs /\ x.halfImages = y.halfImages
  <2>1. OnBlockchainChange(y.pool) \in PoolStates
    BY <1>3, ChangeType DEF States
  <2>2. NoTemplate \in [valid : BOOLEAN, prev : Blocks, txs : SUBSET Txs]
    BY BlocksAssumption DEF NoTemplate
  <2> QED
    BY <1>3, <1>4, <2>1, <2>2 DEF States
<1>7. ASSUME NoClashes
      PROVE  Settled(y)
  <2>1. Settled(r.s) /\ Settled(s)
    BY <1>1, <1>7 DEF PoolKept
  <2>2. TxExists(r.s) = TxExists(s)
    BY <1>1, SameChain DEF PoolKept, PoolOnly
  <2> QED
    BY <1>3, <1>5, <2>1, <2>2 DEF Settled
<1>8. NoClashes => Settled(x) /\ Fresh(x) /\ Stored(x.pool) = Stored(y.pool)
  BY <1>3, <1>4, <1>7, Refreshed
<1>9. Keeps(s, x)
  <2>1. TxExists(x) = TxExists(y)
    BY <1>3, <1>6, SameChain
  <2>2. ToSet(r.taken) \subseteq TxsOf(b)
    BY <1>1 DEF ToSet
  <2> QED
    BY <1>3, <1>5, <1>8, <2>1, <2>2 DEF Keeps, HasTxs
<1> QED
  BY <1>1, <1>6, <1>8, <1>9 DEF Good, d

\* A block may leave half of itself behind only if it clashes.
LEMMA HalfGood ==
  ASSUME NEW s, Good(s), ~NoClashes, NEW b \in Blocks, NEW r \in TakeStates(s, b),
         NEW w \in [txs : SUBSET Txs, images : SUBSET KeyImages, clash : BOOLEAN],
         NEW x, x = ReturnTxs([r.s EXCEPT !.batchOk = FALSE, !.halfTxs = @ \cup w.txs,
                                          !.halfImages = @ \cup w.images], r.taken)
  PROVE  Good(x) /\ x.chain = s.chain /\ x.alt = s.alt /\ Keeps(s, x)
<1> DEFINE i == r.s.halfTxs \cup w.txs
           j == r.s.halfImages \cup w.images
           half == [r.s EXCEPT !.batchOk = FALSE, !.halfTxs = i, !.halfImages = j]
<1>1. /\ s \in States /\ ValidChain(s.chain) /\ s.alt \in SUBSET (Blocks \ {Genesis})
      /\ r.s \in States /\ r.s.chain = s.chain /\ r.s.alt = s.alt
  BY DEF Good, TakeStates, PoolKept, PoolOnly
<1>2. i \in SUBSET Txs /\ j \in SUBSET KeyImages
  BY <1>1 DEF States
<1>3. x = ReturnTxs(half, r.taken)
  <2>1. half = [r.s EXCEPT !.batchOk = FALSE, !.halfTxs = @ \cup w.txs,
                           !.halfImages = @ \cup w.images]
    BY <1>1 DEF States
  <2> QED
    BY <2>1
<1> HIDE DEF i, j
<1>4. half \in States /\ half.chain = s.chain /\ half.alt = s.alt
  BY <1>1, <1>2 DEF States
<1> HIDE DEF half
<1>5. r.taken \in Seq(Txs)
  <2>1. TxsOf(b) \subseteq Txs
    BY BlocksAssumption DEF TxsOf, ToSet
  <2>2. r.taken \in Seq(TxsOf(b) \ TxExists(s))
    BY DEF TakeStates
  <2> QED
    BY <2>1, <2>2
<1>6. PoolOnly(half, x)
  BY <1>3, <1>4, <1>5, ReturnTxsEffect
<1> QED
  BY <1>1, <1>4, <1>6 DEF Good, PoolOnly, Keeps

LEMMA HandleBlockToMainChainEffect ==
  ASSUME NEW s, Good(s), NEW b \in Blocks, NEW supplement \in SUBSET Txs,
         NEW r, r = HandleBlockToMainChain(s, b, supplement)
  PROVE  /\ Good(r.s) /\ r.s.alt = s.alt /\ Keeps(s, r.s)
         /\ \/ r.result = "failed" /\ r.s.chain = s.chain
            \/ /\ r.result = "added" /\ r.s.chain = Append(s.chain, b)
               /\ CheckpointAllows(b) /\ Parent[b] = Top(s) /\ b # Genesis
<1>1. CASE b = Genesis \/ b \in BadHeader \/ Parent[b] # Top(s) \/ ~CheckpointAllows(b)
  <2>1. r = [s |-> s, result |-> "failed"]
    BY <1>1 DEF HandleBlockToMainChain
  <2> QED
    BY <2>1 DEF Keeps
<1>2. CASE ~(b = Genesis \/ b \in BadHeader \/ Parent[b] # Top(s) \/ ~CheckpointAllows(b))
  <2> DEFINE p == TakeBlockTxs(s, b, supplement)
             w == WrittenBeforeClash(b)
             failed == ReturnTxs(Condemn(p.s, b, p.problem), p.taken)
             half == ReturnTxs([p.s EXCEPT !.batchOk = FALSE, !.halfTxs = @ \cup w.txs,
                                           !.halfImages = @ \cup w.images], p.taken)
             added == Connect(p.s, b)
  <2>1. r = IF p.problem # "none" \/ b \in BadReward
            THEN [s |-> failed, result |-> "failed"]
            ELSE IF w.clash
            THEN [s |-> half, result |-> "failed"]
            ELSE [s |-> added, result |-> "added"]
    BY <1>2 DEF HandleBlockToMainChain
  <2>2. s \in States /\ ValidChain(s.chain)
    BY DEF Good
  <2>3. /\ p \in TakeStates(s, b)
        /\ p.problem = "none" =>
             \A t \in TxsOf(b) : /\ t \notin TxExists(s) /\ t \in InputsPass(s)
                                 /\ t \notin Stored(p.s.pool)
        /\ p.problem = "inputs" => \E t \in TxsOf(b) : t \notin InputsPass(s)
        /\ Stored(s.pool) \subseteq Stored(p.s.pool) \cup ToSet(p.taken)
    BY <2>2, TakeBlockTxsEffect
  <2>4. /\ w \in [txs : SUBSET Txs, images : SUBSET KeyImages, clash : BOOLEAN]
        /\ ~w.clash =>
             \A i, j \in DOMAIN BlockTxs[b] :
               i # j => KeyImagesOf[BlockTxs[b][i]] \cap KeyImagesOf[BlockTxs[b][j]] = {}
        /\ w.clash => ~NoClashes
    BY WrittenBeforeClashEffect, NeverClashes
  <2> HIDE DEF p, w
  <2>5. Good(failed) /\ failed.chain = s.chain /\ failed.alt = s.alt /\ Keeps(s, failed)
    BY <1>2, <2>3, GiveBack
  <2>6. w.clash => Good(half) /\ half.chain = s.chain /\ half.alt = s.alt /\ Keeps(s, half)
    BY <2>3, <2>4, HalfGood
  <2> HIDE DEF failed, half, added
  <2>7. CASE p.problem # "none" \/ b \in BadReward
    <3>1. r = [s |-> failed, result |-> "failed"]
      BY <2>1, <2>7
    <3> QED
      BY <2>5, <3>1
  <2>8. CASE p.problem = "none" /\ b \notin BadReward /\ w.clash
    <3>1. r = [s |-> half, result |-> "failed"]
      BY <2>1, <2>8
    <3> QED
      BY <2>6, <2>8, <3>1
  <2>9. CASE p.problem = "none" /\ b \notin BadReward /\ ~w.clash
    <3>1. r = [s |-> added, result |-> "added"]
      BY <2>1, <2>9
    <3>2. ValidChain(Append(s.chain, b))
      BY <1>2, <2>2, <2>3, <2>4, <2>9, BlockKeepsRules
    <3>3. Good(added) /\ added.chain = Append(s.chain, b) /\ added.alt = s.alt
          /\ Keeps(s, added)
      BY <2>3, <2>9, <3>2, ConnectGood DEF added
    <3>4. r.s = added /\ r.result = "added"
      BY <3>1
    <3> QED
      BY <1>2, <3>3, <3>4
  <2> QED
    BY <2>4, <2>7, <2>8, <2>9
<1> QED
  BY <1>1, <1>2

\* A valid block is added, if its txs are at hand and no checkpoint forbids it.
LEMMA ValidBlockAdded ==
  ASSUME NoClashes, NEW s, Good(s), NEW b \in ValidBlocks, b # Genesis, Parent[b] = Top(s),
         CheckpointAllows(b), NEW supplement \in SUBSET Txs,
         TxsOf(b) \subseteq Stored(s.pool) \cup supplement
  PROVE  HandleBlockToMainChain(s, b, supplement).result = "added"
<1> DEFINE p == TakeBlockTxs(s, b, supplement)
           w == WrittenBeforeClash(b)
<1>1. b \in Blocks /\ s \in States /\ ValidChain(s.chain) /\ s.halfTxs = {} /\ s.halfImages = {}
  BY DEF Good, Settled, ValidBlocks
<1>2. KeepsRules(b) /\ \A t \in TxsOf(b) : t \notin TxExists(s) /\ t \in InputsPass(s)
  BY <1>1, ValidBlockPasses
<1>3. b \notin BadHeader /\ b \notin BadReward /\ IsInjective(BlockTxs[b])
  BY <1>2 DEF KeepsRules
<1>4. p.problem = "none"
  BY <1>1, <1>2, <1>3, TakeBlockTxsEffect
<1>5. ~w.clash
  BY <1>1, NeverClashes
<1> HIDE DEF p, w
<1> QED
  BY <1>3, <1>4, <1>5 DEF HandleBlockToMainChain, p, w

-----------------------------------------------------------------------------
(* Reorganisations *)

LEMMA KeepsTrans ==
  ASSUME NEW s, NEW x, NEW y, Keeps(s, x), Keeps(x, y)
  PROVE  Keeps(s, y)
BY DEF Keeps

\* d is c and the first m of bs, which the checkpoints allow.
Extended(c, d, bs, m) ==
  /\ d = c \o SubSeq(bs, 1, m)
  /\ \A i \in 1 .. m : CheckpointAllows(bs[i])

LEMMA ExtendedNext ==
  ASSUME NEW c \in Seq(Blocks), NEW bs \in Seq(Blocks), NEW d, NEW i \in 1 .. Len(bs),
         Extended(c, d, bs, i - 1), CheckpointAllows(bs[i])
  PROVE  Extended(c, Append(d, bs[i]), bs, i)
<1> DEFINE q == SubSeq(bs, 1, i - 1)
           b == bs[i]
<1>1. q \in Seq(Blocks) /\ b \in Blocks
  <2>1. \A j \in 1 .. i - 1 : bs[j] \in Blocks
    OBVIOUS
  <2> QED
    BY <2>1, SubSeqProperties
<1>2. SubSeq(bs, 1, i) = q \o <<b>>
  BY SubSeqRecursiveSecond
<1> HIDE DEF q, b
<1> DEFINE e == <<b>>
<1>3. e \in Seq(Blocks) /\ c \o q \in Seq(Blocks)
  BY <1>1, ConcatProperties
<1>4. Append(c \o q, b) = (c \o q) \o e
  BY <1>1, <1>3
<1>5. (c \o q) \o e = c \o (q \o e)
  <2> HIDE DEF e
  <2> QED
    BY <1>1, <1>3
<1>6. \A j \in 1 .. i : CheckpointAllows(bs[j])
  <2>1. \A j \in 1 .. i : j \in 1 .. (i - 1) \/ j = i
    OBVIOUS
  <2> QED
    BY <2>1 DEF Extended
<1> QED
  BY <1>2, <1>4, <1>5, <1>6 DEF Extended, q, b

\* The first so many of bs are connected, all of them when it succeeds.
ConnectedSome(s, bs, i, r) ==
  \E m \in 0 .. i : /\ Extended(s.chain, r.s.chain, bs, m)
                    /\ r.result = "added" => m = i

ConnectStates(s) ==
  {x \in [s : States, result : {"added", "failed"}] :
     Good(x.s) /\ x.s.alt = s.alt /\ Keeps(s, x.s)}

LEMMA ConnectNextEffect ==
  ASSUME NEW s, NEW x \in ConnectStates(s), NEW b \in Blocks, NEW y, y = ConnectNext(x, b)
  PROVE  /\ y \in ConnectStates(s)
         /\ \/ y.result = "failed" /\ y.s.chain = x.s.chain
            \/ /\ x.result = "added" /\ y.s.chain = Append(x.s.chain, b)
               /\ CheckpointAllows(b)
<1> DEFINE r == HandleBlockToMainChain(x.s, b, {})
<1>1. /\ x \in [s : States, result : {"added", "failed"}]
      /\ Good(x.s) /\ x.s.alt = s.alt /\ Keeps(s, x.s) /\ {} \in SUBSET Txs
  BY DEF ConnectStates
<1>2. /\ Good(r.s) /\ r.s.alt = x.s.alt /\ Keeps(x.s, r.s)
      /\ \/ r.result = "failed" /\ r.s.chain = x.s.chain
         \/ r.result = "added" /\ r.s.chain = Append(x.s.chain, b) /\ CheckpointAllows(b)
  BY <1>1, HandleBlockToMainChainEffect
<1>3. \E u, v : r = [s |-> u, result |-> v]
  BY DEF HandleBlockToMainChain
<1>4. y = IF x.result = "added" THEN r ELSE x
  BY DEF ConnectNext
<1> HIDE DEF r
<1>5. Keeps(s, r.s)
  BY <1>1, <1>2, KeepsTrans
<1>6. r \in ConnectStates(s)
  BY <1>1, <1>2, <1>3, <1>5 DEF Good, ConnectStates
<1> QED
  BY <1>1, <1>2, <1>4, <1>6

LEMMA ConnectAllTrace ==
  ASSUME NEW s, Good(s), NEW bs \in Seq(Blocks)
  PROVE  \E trace :
           /\ trace[0] = [s |-> s, result |-> "added"]
           /\ trace[Len(bs)] = ConnectAll(s, bs)
           /\ \A i \in 0 .. Len(bs) : trace[i] \in ConnectStates(s)
           /\ \A i \in 1 .. Len(bs) : trace[i] = ConnectNext(trace[i - 1], bs[i])
<1> DEFINE base == [s |-> s, result |-> "added"]
           D == ConnectStates(s)
<1>1. base \in D
  BY DEF Good, Keeps, ConnectStates
<1>2. \A x \in D, b \in Blocks : ConnectNext(x, b) \in D
  BY ConnectNextEffect
<1>3. ConnectAll(s, bs) = FoldLeft(ConnectNext, base, bs)
  BY DEF ConnectAll
<1> HIDE DEF D
<1>4. PICK trace : ConnectTrace(trace, D, base, bs)
  <2> HIDE DEF base
  <2> QED
    BY <1>1, <1>2, ConnectSteps
<1> QED
  BY <1>3, <1>4 DEF ConnectTrace, D

LEMMA ConnectAllEffect ==
  ASSUME NEW s, Good(s), NEW bs \in Seq(Blocks), NEW r, r = ConnectAll(s, bs)
  PROVE  /\ Good(r.s) /\ r.s.alt = s.alt /\ Keeps(s, r.s)
         /\ r.result \in {"added", "failed"}
         /\ ConnectedSome(s, bs, Len(bs), r)
<1> DEFINE n == Len(bs)
<1>1. n \in Nat /\ (\A i \in 1 .. n : bs[i] \in Blocks) /\ s.chain \in Seq(Blocks)
  BY DEF Good, States
<1>2. Extended(s.chain, s.chain, bs, 0)
  BY <1>1 DEF Extended
<1>3. PICK trace :
        /\ trace[0] = [s |-> s, result |-> "added"] /\ trace[n] = r
        /\ \A i \in 0 .. n : trace[i] \in ConnectStates(s)
        /\ \A i \in 1 .. n : trace[i] = ConnectNext(trace[i - 1], bs[i])
  BY ConnectAllTrace
<1> DEFINE G == {i \in 0 .. n : ConnectedSome(s, bs, i, trace[i])}
<1>4. 0 \in G
  BY <1>1, <1>2, <1>3 DEF ConnectedSome
<1>5. ASSUME NEW i \in 1 .. n, i - 1 \in G
      PROVE  i \in G
  <2> DEFINE x == trace[i - 1]
             y == trace[i]
  <2>1. i - 1 \in 0 .. n /\ i \in 0 .. n /\ bs[i] \in Blocks
    BY <1>1
  <2>2. x \in ConnectStates(s) /\ y = ConnectNext(x, bs[i]) /\ ConnectedSome(s, bs, i - 1, x)
    BY <1>3, <1>5, <2>1
  <2> HIDE DEF x, y
  <2>3. \/ y.result = "failed" /\ y.s.chain = x.s.chain
        \/ /\ x.result = "added" /\ y.s.chain = Append(x.s.chain, bs[i])
           /\ CheckpointAllows(bs[i])
    BY <2>1, <2>2, ConnectNextEffect
  <2>4. PICK m \in 0 .. (i - 1) : /\ Extended(s.chain, x.s.chain, bs, m)
                                  /\ x.result = "added" => m = i - 1
    BY <2>2 DEF ConnectedSome
  <2>5. CASE y.result = "failed" /\ y.s.chain = x.s.chain
    <3>1. m \in 0 .. i
      BY <1>1
    <3>2. ConnectedSome(s, bs, i, y)
      BY <2>4, <2>5, <3>1 DEF ConnectedSome
    <3> QED
      BY <2>1, <3>2 DEF y
  <2>6. CASE /\ x.result = "added" /\ y.s.chain = Append(x.s.chain, bs[i])
             /\ CheckpointAllows(bs[i])
    <3>1. Extended(s.chain, x.s.chain, bs, i - 1)
      BY <2>4, <2>6
    <3>2. Extended(s.chain, y.s.chain, bs, i)
      BY <1>1, <2>6, <3>1, ExtendedNext
    <3>3. i \in 0 .. i
      BY <1>1
    <3>4. ConnectedSome(s, bs, i, y)
      BY <3>2, <3>3 DEF ConnectedSome
    <3> QED
      BY <2>1, <3>4 DEF y
  <2> QED
    BY <2>3, <2>5, <2>6
<1>6. \A i \in 0 .. n : i \in G
  <2> HIDE DEF G, n
  <2> QED
    BY <1>1, <1>4, <1>5, CountUp
<1>7. r \in ConnectStates(s) /\ ConnectedSome(s, bs, n, r)
  BY <1>1, <1>3, <1>6
<1> QED
  BY <1>7 DEF ConnectStates

\* Valid blocks whose txs the daemon has are connected, while the pool has room.
LEMMA ConnectAllAdds ==
  ASSUME NoClashes, Roomy, NEW s, Good(s), NEW bs \in Seq(Blocks),
         ValidChain(s.chain \o bs),
         \A i \in 1 .. Len(bs) : CheckpointAllows(bs[i]) /\ TxsOf(bs[i]) \subseteq HasTxs(s)
  PROVE  ConnectAll(s, bs).result = "added"
<1> DEFINE n == Len(bs)
           k == Len(s.chain)
           d == s.chain \o bs
<1>1. /\ n \in Nat /\ k \in Nat /\ k >= 1 /\ s.chain \in Seq(Blocks)
      /\ d \in Seq(Blocks) /\ Len(d) = k + n
      /\ \A i \in 1 .. n : d[k + i] = bs[i]
      /\ \A i \in 1 .. k : d[i] = s.chain[i]
  <2>1. s.chain \in Seq(Blocks) /\ Len(s.chain) >= 1
    BY DEF Good, ValidChain, ChainRight
  <2> QED
    BY <2>1
<1>2. ValidChain(d)
  OBVIOUS
<1> HIDE DEF d
<1>3. PICK trace :
        /\ trace[0] = [s |-> s, result |-> "added"] /\ trace[n] = ConnectAll(s, bs)
        /\ \A i \in 0 .. n : trace[i] \in ConnectStates(s)
        /\ \A i \in 1 .. n : trace[i] = ConnectNext(trace[i - 1], bs[i])
  BY ConnectAllTrace
<1> DEFINE Holds(i) == /\ trace[i].result = "added"
                       /\ trace[i].s.chain = SubSeq(d, 1, k + i)
           G == {i \in 0 .. n : Holds(i)}
<1>4. 0 \in G
  <2>1. SubSeq(d, 1, k) = s.chain
    <3>1. SubSeq(d, 1, k) \in Seq(Blocks) /\ Len(SubSeq(d, 1, k)) = k
          /\ \A i \in 1 .. k : SubSeq(d, 1, k)[i] = d[i]
      BY <1>1
    <3> QED
      BY <1>1, <3>1, SeqEqual
  <2> QED
    BY <1>1, <1>3, <2>1
<1>5. ASSUME NEW i \in 1 .. n, i - 1 \in G
      PROVE  i \in G
  <2> DEFINE x == trace[i - 1]
             y == trace[i]
             b == bs[i]
             m == k + (i - 1)
             r == HandleBlockToMainChain(x.s, b, {})
  <2>1. /\ i - 1 \in 0 .. n /\ i \in 0 .. n /\ b \in Blocks /\ b = d[m + 1]
        /\ m \in 1 .. Len(d) /\ m + 1 \in 2 .. Len(d) /\ m + 1 = k + i
    BY <1>1
  <2>2. /\ x \in ConnectStates(s) /\ y = ConnectNext(x, b)
        /\ x.result = "added" /\ x.s.chain = SubSeq(d, 1, m)
    BY <1>3, <1>5, <2>1
  <2> HIDE DEF x, y, b, m
  <2>3. y = r /\ Good(x.s) /\ Keeps(s, x.s)
    BY <2>2 DEF ConnectNext, ConnectStates
  <2>4. b \in ValidBlocks /\ b # Genesis /\ Parent[b] = Top(x.s)
    <3>1. /\ d[m + 1] \in ValidBlocks /\ d[m + 1] # Genesis
          /\ Parent[d[m + 1]] = d[(m + 1) - 1]
      <4>1. /\ \A j \in 1 .. Len(d) : d[j] \in ValidBlocks
            /\ \A j \in 2 .. Len(d) : d[j] # Genesis /\ Parent[d[j]] = d[j - 1]
        BY <1>2 DEF ValidChain, ChainRight
      <4>2. m + 1 \in 1 .. Len(d) /\ m + 1 \in 2 .. Len(d)
        BY <1>1, <2>1
      <4> HIDE DEF k, n
      <4> QED
        BY <4>1, <4>2
    <3>2. Last(SubSeq(d, 1, m)) = d[m] /\ (m + 1) - 1 = m
      BY <1>1, <2>1 DEF Last
    <3> QED
      BY <2>1, <2>2, <3>1, <3>2 DEF Top
  <2>5. TxsOf(b) \subseteq Stored(x.s.pool)
    <3>1. ValidChain(x.s.chain) /\ x.s.halfTxs = {} /\ x.s.halfImages = {}
      BY <2>3 DEF Good, Settled
    <3>2. \A t \in TxsOf(b) : t \notin TxExists(x.s)
      BY <2>4, <3>1, ValidBlockPasses
    <3>3. TxsOf(b) \subseteq HasTxs(x.s)
      BY <2>3 DEF Keeps, b
    <3> QED
      BY <3>2, <3>3 DEF HasTxs
  <2>6. r.result = "added"
    <3>1. CheckpointAllows(b) /\ {} \in SUBSET Txs /\ TxsOf(b) \subseteq Stored(x.s.pool) \cup {}
      BY <2>5 DEF b
    <3> QED
      BY <2>3, <2>4, <3>1, ValidBlockAdded
  <2>7. y.s.chain = Append(x.s.chain, b)
    <3> HIDE DEF r
    <3>1. y.result # "failed"
      BY <2>3, <2>6
    <3>2. \/ y.result = "failed" /\ y.s.chain = x.s.chain
          \/ /\ x.result = "added" /\ y.s.chain = Append(x.s.chain, b)
             /\ CheckpointAllows(b)
      <4> HIDE DEF k, n
      <4>1. b \in Blocks /\ x \in ConnectStates(s) /\ y = ConnectNext(x, b)
        BY <2>1, <2>2
      <4> QED
        BY <4>1, ConnectNextEffect
    <3> QED
      BY <3>1, <3>2
  <2>8. Append(SubSeq(d, 1, m), d[m + 1]) = SubSeq(d, 1, m + 1)
    BY <1>1, <2>1
  <2>9. Holds(i)
    BY <2>1, <2>2, <2>3, <2>6, <2>7, <2>8 DEF y
  <2> QED
    BY <2>1, <2>9
<1>6. \A i \in 0 .. n : i \in G
  <2> HIDE DEF G, n
  <2> QED
    BY <1>1, <1>4, <1>5, CountUp
<1> QED
  BY <1>1, <1>3, <1>6

\* d is c and the first of bs.
ExtendedSome(c, d, bs) == \E m \in 0 .. Len(bs) : Extended(c, d, bs, m)

LEMMA RollbackEffect ==
  ASSUME NEW s, Good(s), NEW original \in Seq(Blocks), NEW n \in Nat, n >= 1,
         NEW x, x = Rollback(s, original, n)
  PROVE  /\ Good(x) /\ x.alt = s.alt /\ Keeps(s, x)
         /\ n > Len(s.chain) => x = s
         /\ n <= Len(s.chain) => ExtendedSome(SubSeq(s.chain, 1, n), x.chain, original)
<1> DEFINE y == PopTo(s, n)
           r == ConnectAll(y, original)
<1>1. s.chain \in Seq(Blocks) /\ Len(s.chain) \in Nat /\ s \in States
  BY DEF Good, States
<1>2. CASE n > Len(s.chain)
  <2>1. x = s
    BY <1>2 DEF Rollback
  <2> QED
    BY <1>1, <1>2, <2>1 DEF Keeps
<1>3. CASE n <= Len(s.chain)
  <2>1. Good(y) /\ y.alt = s.alt /\ Keeps(s, y)
    BY PopToGood
  <2>2. y.chain = SubSeq(s.chain, 1, n)
    <3>1. y.chain = IF n < Len(s.chain) THEN SubSeq(s.chain, 1, n) ELSE s.chain
      BY <1>1, PopToEffect
    <3>2. SubSeq(s.chain, 1, Len(s.chain)) = s.chain
      BY <1>1, SubSeqFull
    <3> QED
      BY <1>1, <1>3, <3>1, <3>2
  <2> HIDE DEF y
  <2>3. /\ Good(r.s) /\ r.s.alt = y.alt /\ Keeps(y, r.s)
        /\ ConnectedSome(y, original, Len(original), r)
    BY <2>1, ConnectAllEffect
  <2>4. x = r.s
    BY <1>1, <1>3 DEF Rollback, y
  <2> HIDE DEF r
  <2>5. Keeps(s, x)
    BY <2>1, <2>3, <2>4, KeepsTrans
  <2>6. ExtendedSome(SubSeq(s.chain, 1, n), x.chain, original)
    BY <2>2, <2>3, <2>4 DEF ConnectedSome, ExtendedSome
  <2> QED
    BY <1>1, <1>3, <2>1, <2>3, <2>4, <2>5, <2>6
<1> QED
  BY <1>1, <1>2, <1>3

LEMMA RollbackGood ==
  ASSUME NEW s, Good(s), NEW original \in Seq(Blocks), NEW n \in Nat, n >= 1,
         NEW x, x = Rollback(s, original, n)
  PROVE  Good(x) /\ x.alt = s.alt /\ Keeps(s, x)
BY RollbackEffect

\* The pool takes in the txs that come with a block.
Grown(s, y) == Settled(s) /\ Roomy => Stored(s.pool) \subseteq Stored(y.pool)

SupplementStates(s) ==
  [s : {y \in States : PoolKept(s, y) /\ Grown(s, y)}, good : BOOLEAN]

LEMMA AddNextEffect ==
  ASSUME NEW s \in States, NEW x \in SupplementStates(s), NEW t \in Txs, NEW supplement
  PROVE  AddNext(x, t, supplement) \in SupplementStates(s)
<1> DEFINE y == AddToPool(x.s, t)
           g == AddTxAccepted(x.s.pool, t, "block", InputsPass(x.s), Txs)
<1>1. x.s \in States /\ PoolKept(s, x.s) /\ Grown(s, x.s)
  BY DEF SupplementStates
<1>2. g \in BOOLEAN
  BY DEF AddTxAccepted
<1>3. \/ AddNext(x, t, supplement) = x
      \/ t \notin TxExists(x.s) /\ AddNext(x, t, supplement) = [s |-> y, good |-> g]
  BY DEF AddNext
<1>4. ASSUME t \notin TxExists(x.s)
      PROVE  y \in States /\ PoolKept(s, y) /\ Grown(s, y)
  <2>1. PoolOnly(x.s, y)
    BY <1>1, AddToPoolEffect
  <2>2. Settled(x.s) => /\ PoolKept(x.s, y)
                        /\ Roomy => Stored(x.s.pool) \subseteq Stored(y.pool)
    BY <1>1, <1>4, AddToPoolKept
  <2> HIDE DEF y
  <2>3. PoolKept(x.s, y)
    BY <2>1, <2>2 DEF PoolKept
  <2>4. PoolKept(s, y)
    BY <1>1, <2>3, PoolKeptTrans
  <2>5. Grown(s, y)
    BY <1>1, <2>2 DEF Grown, PoolKept
  <2> QED
    BY <2>1, <2>4, <2>5 DEF PoolOnly
<1> HIDE DEF y, g
<1> QED
  BY <1>2, <1>3, <1>4 DEF SupplementStates

LEMMA AddSupplementEffect ==
  ASSUME NEW s \in States, NEW b \in Blocks, NEW supplement,
         NEW r, r = AddSupplement(s, b, supplement)
  PROVE  r.s \in States /\ PoolKept(s, r.s) /\ Grown(s, r.s)
<1> DEFINE D == SupplementStates(s)
           base == [s |-> s, good |-> TRUE]
<1>1. base \in D
  BY DEF SupplementStates, PoolKept, PoolOnly, Grown
<1>2. \A x \in D, t \in Txs : AddNext(x, t, supplement) \in D
  BY AddNextEffect
<1>3. BlockTxs[b] \in Seq(Txs)
  BY BlocksAssumption
<1> HIDE DEF D
<1>4. PICK trace : AddTrace(trace, D, s, b, supplement)
  BY <1>1, <1>2, <1>3, AddSteps
<1>5. Len(BlockTxs[b]) \in 0 .. Len(BlockTxs[b])
  BY <1>3
<1>6. r \in D
  BY <1>4, <1>5 DEF AddTrace
<1> QED
  BY <1>6 DEF D, SupplementStates

\* The pool does not hold t in private.
Open(p, t) == p.db[t] = Absent \/ Legacy(p.db[t])

\* Of a block's tx that the pool does not show, add_tx refuses only one with bad
\* inputs that it holds in private.
LEMMA PublicTaken ==
  ASSUME NEW p, NEW t \in Txs, Open(p, t), ~HaveTx(p, t), NEW ok
  PROVE  AddTxAccepted(p, t, "block", ok, Txs)
<1>1. p.db[t] = Absent /\ ~Legacy(Absent) /\ StoredRelay(p, t, "block") = "block"
  BY DEF Open, HaveTx, StoredRelay, Legacy, Absent
<1>2. CanInsertKeyImages(p, t, "block")
  BY <1>1 DEF CanInsertKeyImages
<1>3. ~RefusedEarly(p, t, "block", Txs)
  BY DEF RefusedEarly
<1> QED
  BY <1>1, <1>2, <1>3 DEF AddTxAccepted

LEMMA StaysOpen ==
  ASSUME NEW s \in States, Sound(s.pool), NEW t \in Txs, NEW u \in Txs, Open(s.pool, u),
         NEW y, y = AddToPool(s, t)
  PROVE  Open(y.pool, u)
<1> DEFINE p == s.pool
           q == AddTx(p, t, "block", InputsPass(s), Txs)
<1>1. y.pool = q
  BY DEF AddToPool, States
<1>2. /\ q.db[t] \in {Absent, p.db[t], StoredRelay(p, t, "block")}
      /\ \A x \in Txs \ {t} : q.db[x] \in {Absent, p.db[x]}
  BY AddTxEffect DEF RelayMethods
<1>3. Open(p, t) => Legacy(StoredRelay(p, t, "block"))
  BY DEF Open, StoredRelay, Upgrade, Legacy
<1> HIDE DEF p, q
<1> QED
  BY <1>1, <1>2, <1>3 DEF Open, p

\* The txs that come with a block are taken in if the pool holds none of them in
\* private.
LEMMA SupplementTaken ==
  ASSUME NEW s \in States, Settled(s), NEW b \in Blocks, NEW supplement \in SUBSET Txs,
         \A t \in supplement : Open(s.pool, t),
         NEW r, r = AddSupplement(s, b, supplement)
  PROVE  r.good
<1> DEFINE D == {x \in SupplementStates(s) :
                   x.good /\ \A t \in supplement : Open(x.s.pool, t)}
           base == [s |-> s, good |-> TRUE]
<1>1. base \in D
  BY DEF SupplementStates, PoolKept, PoolOnly, Grown
<1>2. ASSUME NEW x \in D, NEW t \in Txs
      PROVE  AddNext(x, t, supplement) \in D
  <2> DEFINE z == AddNext(x, t, supplement)
             y == AddToPool(x.s, t)
             g == AddTxAccepted(x.s.pool, t, "block", InputsPass(x.s), Txs)
  <2>1. z \in SupplementStates(s)
    BY AddNextEffect
  <2>2. x.s \in States /\ Sound(x.s.pool) /\ x.good
        /\ \A u \in supplement : Open(x.s.pool, u)
    BY DEF SupplementStates, PoolKept, Settled
  <2>3. \/ z = x
        \/ t \in supplement /\ ~HaveTx(x.s.pool, t) /\ z = [s |-> y, good |-> g]
    BY <2>2 DEF AddNext
  <2> HIDE DEF z
  <2>4. ASSUME t \in supplement, ~HaveTx(x.s.pool, t)
        PROVE  g /\ \A u \in supplement : Open(y.pool, u)
    <3>1. g
      BY <2>2, <2>4, PublicTaken
    <3>2. \A u \in supplement : Open(y.pool, u)
      BY <2>2, StaysOpen
    <3> QED
      BY <3>1, <3>2
  <2> HIDE DEF y, g
  <2>5. z.good /\ \A u \in supplement : Open(z.s.pool, u)
    BY <2>2, <2>3, <2>4
  <2> QED
    BY <2>1, <2>5 DEF z
<1>3. BlockTxs[b] \in Seq(Txs)
  BY BlocksAssumption
<1> HIDE DEF D
<1>4. PICK trace : AddTrace(trace, D, s, b, supplement)
  BY <1>1, <1>2, <1>3, AddSteps
<1>5. Len(BlockTxs[b]) \in 0 .. Len(BlockTxs[b])
  BY <1>3
<1>6. r \in D
  BY <1>4, <1>5 DEF AddTrace
<1> QED
  BY <1>6 DEF D

LEMMA PoolKeptGood ==
  ASSUME NEW s, Good(s), NEW x, PoolKept(s, x), Grown(s, x)
  PROVE  Good(x) /\ x.chain = s.chain /\ x.alt = s.alt /\ Keeps(s, x)
<1>1. /\ x \in States /\ x.chain = s.chain /\ x.alt = s.alt
      /\ TxExists(x) = TxExists(s)
  BY SameChain DEF PoolKept, PoolOnly
<1>2. NoClashes => Settled(s) /\ Settled(x) /\ Fresh(x)
  BY DEF Good, PoolKept
<1>3. Keeps(s, x)
  BY <1>1, <1>2 DEF Keeps, HasTxs, Grown
<1> QED
  BY <1>1, <1>2, <1>3 DEF Good

\* What the alternative chains are does not touch the rest.
LEMMA AltGood ==
  ASSUME NEW s, Good(s), NEW alt \in SUBSET (Blocks \ {Genesis}),
         NEW x, x = [s EXCEPT !.alt = alt]
  PROVE  Good(x) /\ x.chain = s.chain /\ x.alt = alt /\ Keeps(s, x)
<1>1. /\ x \in States /\ x.chain = s.chain /\ x.alt = alt /\ x.invalid = s.invalid
      /\ x.pool = s.pool /\ x.halfTxs = s.halfTxs /\ x.halfImages = s.halfImages
      /\ x.batchOk = s.batchOk /\ x.btc = s.btc
  <2>1. alt \in SUBSET Blocks /\ s \in States
    BY DEF Good
  <2> QED
    BY <2>1 DEF States
<1>2. TxExists(x) = TxExists(s) /\ InputsPass(x) = InputsPass(s)
  BY <1>1, SameChain
<1>3. Settled(s) => Settled(x)
  BY <1>1, <1>2 DEF Settled
<1>4. Fresh(s) => Fresh(x)
  BY <1>1, <1>2 DEF Fresh, VerdictsRight, TemplateApt
<1> QED
  BY <1>1, <1>2, <1>3, <1>4 DEF Good, Keeps, HasTxs

LEMMA StoreAlternativeEffect ==
  ASSUME NEW s, Good(s), NEW b \in Blocks, NEW supplement,
         NEW r, r = StoreAlternative(s, b, supplement)
  PROVE  /\ Good(r.s) /\ r.s.chain = s.chain /\ Keeps(s, r.s)
         /\ r.s.alt \in {s.alt, s.alt \cup {b}}
         /\ r.result = "stored" => /\ b # Genesis /\ r.s.alt = s.alt \cup {b}
                                   /\ AlternativeAllowed(s, b)
<1> DEFINE a == AddSupplement(s, b, supplement)
           y == [a.s EXCEPT !.alt = a.s.alt \cup {b}]
<1>1. \/ /\ r.s = s /\ r.result # "stored"
      \/ /\ r.s = a.s /\ r.result # "stored"
      \/ r.s = y /\ b # Genesis /\ AlternativeAllowed(s, b)
  BY DEF StoreAlternative
<1>2. PoolKept(s, a.s) /\ Grown(s, a.s)
  BY AddSupplementEffect DEF Good
<1> HIDE DEF a
<1>3. Good(a.s) /\ a.s.chain = s.chain /\ a.s.alt = s.alt /\ Keeps(s, a.s)
  BY <1>2, PoolKeptGood
<1>4. b # Genesis => Good(y) /\ y.chain = s.chain /\ y.alt = s.alt \cup {b} /\ Keeps(s, y)
  <2> SUFFICES ASSUME b # Genesis
               PROVE  Good(y) /\ y.chain = s.chain /\ y.alt = s.alt \cup {b} /\ Keeps(s, y)
    OBVIOUS
  <2> DEFINE alt == a.s.alt \cup {b}
  <2>1. alt \in SUBSET (Blocks \ {Genesis}) /\ y = [a.s EXCEPT !.alt = alt]
    BY <1>3 DEF Good
  <2> HIDE DEF y
  <2>2. alt = s.alt \cup {b}
    BY <1>3
  <2> HIDE DEF alt
  <2>3. Good(y) /\ y.chain = a.s.chain /\ y.alt = alt /\ Keeps(a.s, y)
    BY <1>3, <2>1, AltGood
  <2>4. Keeps(s, y)
    BY <1>3, <2>3, KeepsTrans
  <2> QED
    BY <1>3, <2>2, <2>3, <2>4
<1>5. Keeps(s, s)
  BY DEF Keeps
<1> HIDE DEF y
<1> QED
  BY <1>1, <1>3, <1>4, <1>5

LEMMA KeepAllGood ==
  ASSUME NEW s, Good(s), NEW bs \in Seq(Blocks), NEW x, x = FoldLeft(Keep, s, bs)
  PROVE  Good(x) /\ x.chain = s.chain /\ Keeps(s, x) /\ x.alt \subseteq s.alt \cup ToSet(bs)
<1> DEFINE T == ToSet(bs)
           D == {y \in States : /\ Good(y) /\ y.chain = s.chain /\ Keeps(s, y)
                                /\ y.alt \subseteq s.alt \cup T}
<1>1. s \in D
  BY DEF Good, Keeps
<1>2. ASSUME NEW y \in D, NEW b \in T
      PROVE  Keep(y, b) \in D
  <2> DEFINE r == StoreAlternative(y, b, {})
  <2>1. b \in Blocks
    BY DEF ToSet
  <2>2. Good(r.s) /\ r.s.chain = y.chain /\ Keeps(y, r.s) /\ r.s.alt \in {y.alt, y.alt \cup {b}}
    BY <2>1, StoreAlternativeEffect
  <2>3. Keep(y, b) = r.s
    BY DEF Keep
  <2> HIDE DEF r
  <2>4. Keeps(s, r.s)
    BY <2>2, KeepsTrans
  <2> QED
    BY <2>2, <2>3, <2>4 DEF Good
<1>3. bs \in Seq(T)
  BY DEF ToSet
<1> HIDE DEF D, T
<1>4. PICK trace : KeepTrace(trace, D, s, bs)
  BY <1>1, <1>2, <1>3, KeepSteps
<1>5. x \in D
  BY <1>4 DEF KeepTrace
<1> QED
  BY <1>5 DEF D, T

LEMMA ForgetAltGood ==
  ASSUME NEW s, Good(s), NEW branch, NEW x, x = ForgetAlt(s, branch)
  PROVE  Good(x) /\ x.chain = s.chain /\ x.alt = s.alt \ ToSet(branch) /\ Keeps(s, x)
<1> DEFINE a == s.alt \ ToSet(branch)
<1>1. x = [s EXCEPT !.alt = a]
  BY DEF ForgetAlt
<1>2. a \in SUBSET (Blocks \ {Genesis})
  BY DEF Good
<1> HIDE DEF a
<1>3. Good(x) /\ x.chain = s.chain /\ x.alt = a /\ Keeps(s, x)
  BY <1>1, <1>2, AltGood
<1> QED
  BY <1>3 DEF a

LEMMA ToSetConcat ==
  ASSUME NEW c \in Seq(Blocks), NEW d \in Seq(Blocks)
  PROVE  ToSet(c \o d) = ToSet(c) \cup ToSet(d)
<1> DEFINE e == c \o d
           n == Len(c)
           m == Len(d)
<1>1. /\ n \in Nat /\ m \in Nat /\ e \in Seq(Blocks) /\ Len(e) = n + m
      /\ \A i \in 1 .. n + m : e[i] = IF i <= n THEN c[i] ELSE d[i - n]
  BY ConcatProperties
<1>2. ToSet(c) = {c[i] : i \in 1 .. n}
  BY DEF ToSet
<1>3. ToSet(d) = {d[i] : i \in 1 .. m}
  BY DEF ToSet
<1> HIDE DEF e, n, m
<1>4. ToSet(e) = {e[i] : i \in 1 .. n + m}
  <2>1. DOMAIN e = 1 .. Len(e)
    BY <1>1, LenProperties
  <2>2. Len(e) = n + m
    BY <1>1
  <2> QED
    BY <2>1, <2>2 DEF ToSet
<1>5. ASSUME NEW i \in 1 .. n + m
      PROVE  e[i] \in {c[j] : j \in 1 .. n} \cup {d[j] : j \in 1 .. m}
  <2>1. CASE i <= n
    <3>1. i \in 1 .. n /\ e[i] = c[i]
      BY <1>1, <2>1
    <3> QED
      BY <3>1
  <2>2. CASE ~(i <= n)
    <3>1. i - n \in 1 .. m /\ e[i] = d[i - n]
      BY <1>1, <2>2
    <3> QED
      BY <3>1
  <2> QED
    BY <2>1, <2>2
<1>6. \A j \in 1 .. n : j \in 1 .. n + m /\ e[j] = c[j]
  BY <1>1
<1>7. \A j \in 1 .. m : n + j \in 1 .. n + m /\ e[n + j] = d[j]
  <2> SUFFICES ASSUME NEW j \in 1 .. m
               PROVE  n + j \in 1 .. n + m /\ e[n + j] = d[j]
    OBVIOUS
  <2>1. n + j \in 1 .. n + m /\ ~(n + j <= n) /\ (n + j) - n = j
    BY <1>1
  <2> QED
    BY <1>1, <2>1
<1>8. ToSet(e) = {c[i] : i \in 1 .. n} \cup {d[i] : i \in 1 .. m}
  BY <1>4, <1>5, <1>6, <1>7
<1> QED
  BY <1>2, <1>3, <1>8 DEF e

LEMMA ToSetSubSeq ==
  ASSUME NEW c \in Seq(Blocks), NEW n \in Nat, n >= 1, NEW m \in 0 .. Len(c)
  PROVE  SubSeq(c, n, m) \in Seq(Blocks) /\ ToSet(SubSeq(c, n, m)) \subseteq ToSet(c)
<1> DEFINE d == SubSeq(c, n, m)
<1>1. /\ d \in Seq(ToSet(c))
  <2>1. \A i \in n .. m : i \in 1 .. Len(c) /\ c[i] \in ToSet(c)
    BY DEF ToSet
  <2>2. n \in Int /\ m \in Int
    OBVIOUS
  <2> DEFINE T == ToSet(c)
  <2>3. \A i \in n .. m : c[i] \in T
    BY <2>1
  <2> HIDE DEF T
  <2>4. d \in Seq(T)
    BY <2>2, <2>3, SubSeqProperties
  <2> QED
    BY <2>4 DEF T
<1> HIDE DEF d
<1>2. ToSet(c) \subseteq Blocks
  BY DEF ToSet
<1>3. ToSet(d) \subseteq ToSet(c)
  BY <1>1 DEF ToSet
<1> QED
  BY <1>1, <1>2, <1>3 DEF d

\* The chain up to where the branch leaves it.
Stem(c, n) == IF n < Len(c) THEN SubSeq(c, 1, n) ELSE c

LEMMA StemProperties ==
  ASSUME NEW c \in Seq(Blocks), NEW n \in Nat, n >= 1
  PROVE  LET d == SubSeq(c, n + 1, Len(c)) IN
         /\ Stem(c, n) \in Seq(Blocks) /\ d \in Seq(Blocks)
         /\ ToSet(Stem(c, n)) \subseteq ToSet(c) /\ ToSet(d) \subseteq ToSet(c)
         /\ Stem(c, n) \o d = c
         /\ n <= Len(c) => Stem(c, n) = SubSeq(c, 1, n) /\ Len(Stem(c, n)) = n
         /\ ToSet(c) = ToSet(Stem(c, n)) \cup ToSet(d)
<1> DEFINE k == Len(c)
           d == SubSeq(c, n + 1, k)
<1>1. k \in Nat /\ k \in 0 .. k /\ n + 1 \in Nat /\ n + 1 >= 1
  OBVIOUS
<1>0. n > k \/ n <= k
  BY <1>1
<1>2. d \in Seq(Blocks) /\ ToSet(d) \subseteq ToSet(c)
  BY <1>1, ToSetSubSeq
<1>3. n <= k => Stem(c, n) = SubSeq(c, 1, n)
  <2>1. n = k => SubSeq(c, 1, n) = c
    BY SubSeqFull
  <2> QED
    BY <1>1, <2>1 DEF Stem
<1>4. n <= k => SubSeq(c, 1, n) \in Seq(Blocks) /\ ToSet(SubSeq(c, 1, n)) \subseteq ToSet(c)
                /\ Len(SubSeq(c, 1, n)) = n
  <2> SUFFICES ASSUME n <= k
               PROVE  SubSeq(c, 1, n) \in Seq(Blocks) /\ ToSet(SubSeq(c, 1, n)) \subseteq ToSet(c)
                      /\ Len(SubSeq(c, 1, n)) = n
    OBVIOUS
  <2>1. n \in 0 .. k /\ 1 \in Nat /\ 1 >= 1
    BY <1>1
  <2>2. SubSeq(c, 1, n) \in Seq(Blocks) /\ ToSet(SubSeq(c, 1, n)) \subseteq ToSet(c)
    BY <2>1, ToSetSubSeq
  <2>3. Len(SubSeq(c, 1, n)) = n
    BY <1>1
  <2> QED
    BY <2>2, <2>3
<1>5. n > k => Stem(c, n) = c /\ d = << >>
  <2>1. n > k => d = << >>
    BY <1>1, SubSeqEmpty
  <2> QED
    BY <1>1, <2>1 DEF Stem
<1>6. Stem(c, n) \o d = c
  <2>1. CASE n > k
    BY <1>5, <2>1, ConcatEmptySeq
  <2>2. CASE n <= k
    <3>1. 1 \in 1 .. Len(c) + 1 /\ n \in 1 - 1 .. Len(c) /\ Len(c) \in n .. Len(c)
      BY <1>1, <2>2
    <3>2. SubSeq(c, 1, n) \o SubSeq(c, n + 1, Len(c)) = SubSeq(c, 1, Len(c))
      BY <3>1, ConcatAdjacentSubSeq
    <3>3. SubSeq(c, 1, Len(c)) = c
      BY SubSeqFull
    <3> QED
      BY <1>3, <2>2, <3>2, <3>3, Zenon
  <2> QED
    BY <1>0, <2>1, <2>2, Zenon
<1>7. Stem(c, n) \in Seq(Blocks) /\ ToSet(Stem(c, n)) \subseteq ToSet(c)
  <2>1. CASE n > k
    BY <1>1, <1>5, <2>1, Zenon
  <2>2. CASE n <= k
    BY <1>3, <1>4, <2>2
  <2> QED
    BY <1>0, <2>1, <2>2, Zenon
<1>8. ToSet(c) = ToSet(Stem(c, n)) \cup ToSet(d)
  <2> DEFINE p == Stem(c, n)
  <2> HIDE DEF d, p
  <2>1. ToSet(p \o d) = ToSet(p) \cup ToSet(d)
    BY <1>2, <1>7, ToSetConcat DEF p
  <2> QED
    BY <1>6, <2>1 DEF p
<1> HIDE DEF k
<1> QED
  BY <1>2, <1>3, <1>4, <1>6, <1>7, <1>8 DEF d, k

Respects(s) == \A b \in OnChain(s) : CheckpointAllows(b)

\* The switch fails and is rolled back.
Restored(s, x) ==
  /\ x.alt \subseteq s.alt /\ OnChain(x) \subseteq OnChain(s)
  /\ NoClashes /\ Roomy /\ Respects(s) => x.chain = s.chain

\* r is s with the chain taken back to n blocks, and others connected, if it
\* had n blocks.
TakenTo(s, r, n) ==
  /\ n \in Nat /\ n >= 1 /\ Good(r) /\ r.alt = s.alt /\ Keeps(s, r)
  /\ n > Len(s.chain) => r.chain = s.chain
  /\ n <= Len(s.chain) => n <= Len(r.chain) /\ SubSeq(r.chain, 1, n) = SubSeq(s.chain, 1, n)

Above(c, n) == SubSeq(c, n + 1, Len(c))

\* The chain is taken back to where the branch begins, and blocks of the branch
\* connected: the stem is still what the chain begins with.
LEMMA TakenBack ==
  ASSUME NEW s, Good(s), NEW branch \in Seq(Blocks), Len(branch) >= 1,
         branch[1] # Genesis, NEW n, n = Height[branch[1]],
         NEW r, r = ConnectAll(PopTo(s, n), branch)
  PROVE  /\ TakenTo(s, r.s, n)
         /\ r.result \in {"added", "failed"}
         /\ r.result = "added" =>
              /\ r.s.chain = Stem(s.chain, n) \o branch
              /\ \A i \in 1 .. Len(branch) : CheckpointAllows(branch[i])
<1> DEFINE c == s.chain
           y == PopTo(s, n)
           p == Stem(c, n)
<1>1. c \in Seq(Blocks) /\ Len(c) \in Nat /\ s \in States
  BY DEF Good, States
<1>2. n \in Nat /\ n >= 1
  <2>1. branch[1] \in Blocks
    OBVIOUS
  <2>2. Height[branch[1]] \in Nat /\ Height[Parent[branch[1]]] \in Nat
        /\ Height[branch[1]] = Height[Parent[branch[1]]] + 1
    BY <2>1, ParentBelow
  <2> QED
    BY <2>2
<1>3. Good(y) /\ y.alt = s.alt /\ Keeps(s, y)
  BY <1>2, PopToGood
<1>4. y.chain = p
  <2>1. s \in States /\ n \in Nat /\ y = PopTo(s, n)
    BY <1>1, <1>2
  <2> HIDE DEF y, c, p
  <2>2. y.chain = IF n < Len(s.chain) THEN SubSeq(s.chain, 1, n) ELSE s.chain
    BY <2>1, PopToChain
  <2> QED
    BY <2>2 DEF Stem, c, p
<1> HIDE DEF y
<1>5. /\ Good(r.s) /\ r.s.alt = y.alt /\ Keeps(y, r.s)
      /\ r.result \in {"added", "failed"}
      /\ ConnectedSome(y, branch, Len(branch), r)
  BY <1>3, ConnectAllEffect DEF y
<1>6. Keeps(s, r.s)
  BY <1>3, <1>5, KeepsTrans
<1>7. PICK m \in 0 .. Len(branch) : /\ Extended(p, r.s.chain, branch, m)
                                    /\ r.result = "added" => m = Len(branch)
  BY <1>4, <1>5 DEF ConnectedSome
<1> DEFINE q == SubSeq(branch, 1, m)
<1>8. /\ p \in Seq(Blocks) /\ q \in Seq(Blocks) /\ Len(q) = m /\ (m >= 1 => q[1] = branch[1])
      /\ r.s.chain = p \o q
  <2>1. 1 \in Nat /\ 1 >= 1 /\ Len(branch) \in Nat
    OBVIOUS
  <2>2. q \in Seq(Blocks)
    BY <2>1, ToSetSubSeq
  <2>3. Len(q) = m /\ (m >= 1 => q[1] = branch[1])
    BY <2>1
  <2> QED
    BY <1>1, <1>2, <1>7, <2>2, <2>3, StemProperties DEF Extended
<1>9. m = Len(branch) => q = branch
  BY SubSeqFull
<1>10. n <= Len(c) => p = SubSeq(c, 1, n) /\ Len(p) = n
  BY <1>1, <1>2, StemProperties
<1>11. n > Len(c) => p = c
  BY <1>1, <1>2 DEF Stem
<1>12. m \in Nat /\ Len(branch) \in Nat
  OBVIOUS
<1> HIDE DEF c, p, q
<1>13. n > Len(c) => m = 0
  <2> SUFFICES ASSUME n > Len(c), m >= 1
               PROVE  FALSE
    BY <1>12
  <2> DEFINE d == c \o q
             k == Len(c)
  <2>1. r.s.chain = d /\ ChainRight(d)
    BY <1>5, <1>8, <1>11 DEF Good, ValidChain
  <2>2. k \in Nat /\ Len(d) = k + m /\ d[k + 1] = q[1] /\ k + 1 \in 1 .. Len(d)
    <3>1. k \in Nat /\ c \in Seq(Blocks)
      BY <1>1 DEF c
    <3>2. /\ Len(d) = Len(c) + Len(q)
          /\ \A i \in 1 .. Len(c) + Len(q) : d[i] = IF i <= Len(c) THEN c[i] ELSE q[i - Len(c)]
      BY <1>8, <3>1, ConcatProperties
    <3> HIDE DEF d
    <3>3. k + 1 \in 1 .. Len(c) + Len(q) /\ ~(k + 1 <= Len(c)) /\ (k + 1) - Len(c) = 1
      BY <1>8, <1>12, <3>1
    <3> QED
      BY <1>8, <3>1, <3>2, <3>3
  <2> HIDE DEF d, k
  <2>3. Height[d[k + 1]] = (k + 1) - 1
    BY <2>1, <2>2, ChainHeights
  <2>4. n = k
    BY <1>8, <2>2, <2>3
  <2> QED
    BY <2>2, <2>4 DEF k
<1>14. n > Len(c) => r.s.chain = c /\ r.result = "failed"
  <2> SUFFICES ASSUME n > Len(c)
               PROVE  r.s.chain = c /\ r.result = "failed"
    OBVIOUS
  <2>1. m = 0 /\ p = c
    BY <1>11, <1>13
  <2>2. q = << >>
    BY <1>8, <2>1
  <2>3. r.s.chain = c
    BY <1>8, <2>1, <2>2, ConcatEmptySeq
  <2> QED
    BY <1>5, <1>7, <2>1, <2>3
<1>15. n <= Len(c) => n <= Len(r.s.chain) /\ SubSeq(r.s.chain, 1, n) = SubSeq(c, 1, n)
  <2> SUFFICES ASSUME n <= Len(c)
               PROVE  n <= Len(r.s.chain) /\ SubSeq(r.s.chain, 1, n) = SubSeq(c, 1, n)
    OBVIOUS
  <2> DEFINE d == p \o q
  <2>1. p = SubSeq(c, 1, n) /\ Len(p) = n
    BY <1>10
  <2>2. /\ d \in Seq(Blocks) /\ Len(d) = n + m
        /\ \A i \in 1 .. n : d[i] = p[i]
    <3>1. /\ d \in Seq(Blocks) /\ Len(d) = Len(p) + Len(q)
          /\ \A i \in 1 .. Len(p) + Len(q) : d[i] = IF i <= Len(p) THEN p[i] ELSE q[i - Len(p)]
      BY <1>8, ConcatProperties
    <3>2. \A i \in 1 .. n : i \in 1 .. Len(p) + Len(q) /\ i <= Len(p)
      BY <1>2, <1>8, <1>12, <2>1
    <3> QED
      BY <1>8, <2>1, <3>1, <3>2
  <2> HIDE DEF d
  <2>3. SubSeq(d, 1, n) \in Seq(Blocks) /\ Len(SubSeq(d, 1, n)) = n
        /\ \A i \in 1 .. n : SubSeq(d, 1, n)[i] = p[i]
    BY <1>2, <1>12, <2>2
  <2>4. SubSeq(d, 1, n) = p
    BY <1>8, <2>1, <2>3, SeqEqual
  <2>5. n <= Len(d)
    BY <1>2, <1>12, <2>2
  <2> QED
    BY <1>8, <2>1, <2>4, <2>5 DEF d
<1>16. ASSUME r.result = "added"
       PROVE  /\ r.s.chain = p \o branch
              /\ \A i \in 1 .. Len(branch) : CheckpointAllows(branch[i])
  <2>1. m = Len(branch) /\ q = branch
    BY <1>7, <1>9, <1>16
  <2> QED
    BY <1>7, <1>8, <2>1 DEF Extended
<1> QED
  BY <1>2, <1>3, <1>5, <1>6, <1>14, <1>15, <1>16 DEF c, p, TakenTo

\* Back to the blocks that were disconnected.
LEMMA RolledBack ==
  ASSUME NEW s, Good(s), NEW n, NEW r, TakenTo(s, r, n),
         NEW x, x = Rollback(r, Above(s.chain, n), n)
  PROVE  Good(x) /\ x.alt = s.alt /\ Keeps(s, x) /\ Restored(s, x)
<1> DEFINE c == s.chain
           p == Stem(c, n)
           d == Above(c, n)
<1>1. /\ c \in Seq(Blocks) /\ Len(c) \in Nat /\ s \in States
      /\ n \in Nat /\ n >= 1 /\ Good(r) /\ r.alt = s.alt /\ Keeps(s, r)
  BY DEF Good, States, TakenTo
<1>2. /\ p \in Seq(Blocks) /\ d \in Seq(Blocks) /\ p \o d = c
      /\ ToSet(p) \subseteq ToSet(c) /\ ToSet(d) \subseteq ToSet(c)
      /\ n <= Len(c) => p = SubSeq(c, 1, n)
  BY <1>1, StemProperties DEF Above
<1> HIDE DEF p, d
<1>3. /\ Good(x) /\ x.alt = r.alt /\ Keeps(r, x)
      /\ n > Len(r.chain) => x = r
      /\ n <= Len(r.chain) => ExtendedSome(SubSeq(r.chain, 1, n), x.chain, d)
  <2>1. x = Rollback(r, d, n)
    BY DEF d
  <2> QED
    BY <1>1, <1>2, <2>1, RollbackEffect
<1>4. Keeps(s, x)
  BY <1>1, <1>3, KeepsTrans
<1>5. CASE n > Len(c)
  <2>1. x.chain = c
    BY <1>1, <1>3, <1>5 DEF TakenTo
  <2> QED
    BY <1>1, <1>3, <1>4, <2>1 DEF OnChain, Restored
<1>6. CASE n <= Len(c)
  <2>1. n <= Len(r.chain) /\ SubSeq(r.chain, 1, n) = p
    BY <1>2, <1>6 DEF TakenTo
  <2>2. PICK m \in 0 .. Len(d) : Extended(p, x.chain, d, m)
    BY <1>3, <2>1 DEF ExtendedSome
  <2>3. OnChain(x) \subseteq OnChain(s)
    <3> DEFINE q == SubSeq(d, 1, m)
    <3>1. 1 \in Nat /\ 1 >= 1
      OBVIOUS
    <3>2. q \in Seq(Blocks) /\ ToSet(q) \subseteq ToSet(d)
      BY <1>2, <3>1, ToSetSubSeq
    <3>3. x.chain = p \o q
      BY <2>2 DEF Extended
    <3> HIDE DEF q
    <3>4. ToSet(x.chain) = ToSet(p) \cup ToSet(q)
      BY <1>2, <3>2, <3>3, ToSetConcat
    <3> QED
      BY <1>2, <3>2, <3>4 DEF OnChain
  <2>4. ASSUME NoClashes, Roomy, Respects(s)
        PROVE  x.chain = c
    <3> DEFINE y == PopTo(r, n)
               z == ConnectAll(y, d)
    <3>1. Good(y) /\ Keeps(r, y)
      BY <1>1, PopToGood
    <3>2. y.chain = p
      <4>1. r \in States /\ r.chain \in Seq(Blocks) /\ Len(r.chain) \in Nat
        BY <1>1 DEF Good, States
      <4>2. y.chain = IF n < Len(r.chain) THEN SubSeq(r.chain, 1, n) ELSE r.chain
        BY <1>1, <4>1, PopToEffect
      <4>3. n = Len(r.chain) => SubSeq(r.chain, 1, n) = r.chain
        BY <4>1, SubSeqFull
      <4> HIDE DEF y
      <4>4. CASE n < Len(r.chain)
        BY <2>1, <4>2, <4>4
      <4>5. CASE n = Len(r.chain)
        BY <2>1, <4>2, <4>3, <4>5
      <4>6. n < Len(r.chain) \/ n = Len(r.chain)
        BY <1>1, <2>1, <4>1
      <4> QED
        BY <4>4, <4>5, <4>6
    <3> HIDE DEF y
    <3>3. Keeps(s, y)
      BY <1>1, <3>1, KeepsTrans
    <3>4. x = z.s
      <4>1. Len(r.chain) \in Nat
        BY <1>1 DEF Good, States
      <4> QED
        BY <1>1, <2>1, <4>1 DEF Rollback, y, d
    <3>5. \A i \in 1 .. Len(d) : CheckpointAllows(d[i]) /\ TxsOf(d[i]) \subseteq HasTxs(y)
      <4> SUFFICES ASSUME NEW i \in 1 .. Len(d)
                   PROVE  CheckpointAllows(d[i]) /\ TxsOf(d[i]) \subseteq HasTxs(y)
        OBVIOUS
      <4>1. d[i] \in OnChain(s)
        <5>1. Len(d) \in Nat /\ DOMAIN d = 1 .. Len(d)
          BY <1>2, LenProperties
        <5>2. ToSet(d) = {d[j] : j \in 1 .. Len(d)}
          BY <5>1 DEF ToSet
        <5>3. d[i] \in ToSet(d)
          BY <5>2
        <5> QED
          BY <1>2, <5>3 DEF OnChain
      <4>2. TxsOf(d[i]) \subseteq HasTxs(s)
        BY <4>1 DEF HasTxs, TxExists
      <4> QED
        BY <2>4, <3>3, <4>1, <4>2 DEF Keeps, Respects
    <3>6. z.result = "added"
      <4>1. ValidChain(y.chain \o d)
        BY <1>2, <3>2 DEF Good
      <4> HIDE DEF z
      <4> QED
        BY <1>2, <2>4, <3>1, <3>5, <4>1, ConnectAllAdds DEF z
    <3> HIDE DEF z
    <3>7. ConnectedSome(y, d, Len(d), z)
      BY <1>2, <3>1, ConnectAllEffect DEF z
    <3>8. Extended(p, x.chain, d, Len(d))
      BY <3>2, <3>4, <3>6, <3>7 DEF ConnectedSome
    <3>9. SubSeq(d, 1, Len(d)) = d
      BY <1>2, SubSeqFull
    <3> QED
      BY <1>2, <3>8, <3>9 DEF Extended
  <2> QED
    BY <1>1, <1>3, <1>4, <2>3, <2>4 DEF Restored
<1> QED
  BY <1>1, <1>5, <1>6

\* A block of the chain is where its height says.
LEMMA ChainAt ==
  ASSUME NEW c, ChainRight(c)
  PROVE  /\ \A b \in ToSet(c) : /\ Height[b] \in Nat /\ Height[b] + 1 \in 1 .. Len(c)
                                /\ c[Height[b] + 1] = b
         /\ \A i \in 1 .. Len(c) : c[i] \in ToSet(c) /\ Height[c[i]] = i - 1
<1>1. c \in Seq(Blocks) /\ ToSet(c) = {c[i] : i \in 1 .. Len(c)} /\ Len(c) \in Nat
  BY DEF ChainRight, ToSet
<1>2. \A i \in 1 .. Len(c) : Height[c[i]] = i - 1
  BY ChainHeights
<1>3. ASSUME NEW b \in ToSet(c)
      PROVE  Height[b] \in Nat /\ Height[b] + 1 \in 1 .. Len(c) /\ c[Height[b] + 1] = b
  <2>1. PICK i \in 1 .. Len(c) : b = c[i]
    BY <1>1
  <2>2. Height[b] = i - 1
    BY <1>2, <2>1
  <2>3. (i - 1) + 1 = i /\ i - 1 \in Nat
    BY <1>1
  <2> QED
    BY <2>1, <2>2, <2>3
<1> QED
  BY <1>1, <1>2, <1>3

\* What is above the stem is not in it.
LEMMA StemApart ==
  ASSUME NEW c, ChainRight(c), NEW n \in Nat, n >= 1
  PROVE  ToSet(Stem(c, n)) \cap ToSet(Above(c, n)) = {}
<1> DEFINE p == Stem(c, n)
           d == Above(c, n)
<1>1. c \in Seq(Blocks) /\ Len(c) \in Nat
  BY DEF ChainRight
<1>2. CASE n >= Len(c)
  <2>1. d = << >>
    BY <1>1, <1>2, SubSeqEmpty DEF Above
  <2> QED
    BY <2>1 DEF ToSet
<1>3. CASE n < Len(c)
  <2>1. /\ p \in Seq(Blocks) /\ Len(p) = n /\ \A i \in 1 .. n : p[i] = c[i]
    BY <1>1, <1>3 DEF Stem
  <2>2. /\ d \in Seq(Blocks) /\ Len(d) = Len(c) - n
        /\ \A i \in 1 .. Len(c) - n : d[i] = c[n + i]
    BY <1>1, <1>3 DEF Above
  <2> HIDE DEF p, d
  <2> SUFFICES ToSet(p) \cap ToSet(d) = {}
    BY DEF p, d
  <2> SUFFICES ASSUME NEW i \in 1 .. Len(p), NEW j \in 1 .. Len(d), p[i] = d[j]
               PROVE  FALSE
    BY <2>1, <2>2 DEF ToSet
  <2>3. i \in 1 .. Len(c) /\ n + j \in 1 .. Len(c) /\ i < n + j
    BY <1>1, <1>3, <2>1, <2>2
  <2>4. c[i] = c[n + j]
    BY <2>1, <2>2
  <2>5. Height[c[i]] = i - 1 /\ Height[c[n + j]] = (n + j) - 1
    BY <2>3, ChainAt
  <2> QED
    BY <2>3, <2>4, <2>5
<1> QED
  BY <1>1, <1>2, <1>3

\* The branch replaces what was above the stem.
Switched(s, x, branch) ==
  LET n == Height[branch[1]] IN
  /\ x.chain = Stem(s.chain, n) \o branch
  /\ \A i \in 1 .. Len(branch) : CheckpointAllows(branch[i])
  /\ x.alt \subseteq (s.alt \cup ToSet(Above(s.chain, n))) \ ToSet(branch)

LEMMA SwitchEffect ==
  ASSUME NEW s, Good(s), NEW branch \in Seq(Blocks), Len(branch) >= 1,
         branch[1] # Genesis, NEW discard \in BOOLEAN,
         NEW x, x = Switch(s, branch, discard).s
  PROVE  Good(x) /\ Keeps(s, x) /\ (Switched(s, x, branch) \/ Restored(s, x))
<1> DEFINE n == Height[branch[1]]
           d == Above(s.chain, n)
           r == ConnectAll(PopTo(s, n), branch)
           rejected == SelectSeq(branch, LAMBDA b : b \notin OnChain(r.s))
           back == Rollback(r.s, d, n)
           kept == IF discard THEN r.s ELSE FoldLeft(Keep, r.s, d)
<1>1. Head(branch) = branch[1]
  OBVIOUS
<1>2. /\ r.result # "added" => x = ForgetAlt(back, rejected)
      /\ r.result = "added" => x = ForgetAlt(kept, branch)
  BY <1>1 DEF Switch, Above
<1>3. /\ TakenTo(s, r.s, n) /\ r.result \in {"added", "failed"}
      /\ r.result = "added" =>
           /\ r.s.chain = Stem(s.chain, n) \o branch
           /\ \A i \in 1 .. Len(branch) : CheckpointAllows(branch[i])
  BY TakenBack
<1>4. d \in Seq(Blocks)
  <2>1. s.chain \in Seq(Blocks)
    BY DEF Good, States
  <2> QED
    BY <1>3, <2>1, StemProperties DEF TakenTo, Above
<1>0. Good(r.s) /\ r.s.alt = s.alt /\ Keeps(s, r.s)
  BY <1>3 DEF TakenTo
<1> HIDE DEF n, r, rejected
<1>5. CASE r.result = "added"
  <2>1. Good(kept) /\ kept.chain = r.s.chain /\ Keeps(r.s, kept)
        /\ kept.alt \subseteq r.s.alt \cup ToSet(d)
    <3>1. CASE discard
      BY <1>0, <3>1 DEF Keeps
    <3>2. CASE ~discard
      <4> HIDE DEF d
      <4> QED
        BY <1>0, <1>4, <3>2, KeepAllGood
    <3> QED
      BY <3>1, <3>2
  <2> HIDE DEF kept, d
  <2>2. Good(x) /\ x.chain = kept.chain /\ x.alt = kept.alt \ ToSet(branch) /\ Keeps(kept, x)
    BY <1>2, <1>5, <2>1, ForgetAltGood
  <2>3. Keeps(s, x)
    BY <1>0, <2>1, <2>2, KeepsTrans
  <2>4. Switched(s, x, branch)
    BY <1>0, <1>3, <1>5, <2>1, <2>2 DEF Switched, n, d
  <2> QED
    BY <2>2, <2>3, <2>4
<1>6. CASE r.result # "added"
  <2>1. Good(back) /\ back.alt = s.alt /\ Keeps(s, back) /\ Restored(s, back)
    <3> DEFINE z == r.s
    <3>1. TakenTo(s, z, n) /\ back = Rollback(z, Above(s.chain, n), n)
      BY <1>3
    <3> HIDE DEF z, back
    <3> QED
      BY <3>1, RolledBack
  <2> HIDE DEF back
  <2>2. Good(x) /\ x.chain = back.chain /\ x.alt = back.alt \ ToSet(rejected) /\ Keeps(back, x)
    BY <1>2, <1>6, <2>1, ForgetAltGood
  <2>3. Keeps(s, x)
    BY <2>1, <2>2, KeepsTrans
  <2>4. Restored(s, x)
    BY <2>1, <2>2 DEF Restored, Respects, OnChain
  <2> QED
    BY <2>2, <2>3, <2>4
<1> QED
  BY <1>5, <1>6

LEMMA BranchFacts ==
  ASSUME NEW s, s.alt \in SUBSET (Blocks \ {Genesis}), NEW b \in s.alt,
         NEW branch, branch = Branch(s, b)
  PROVE  /\ branch \in Seq(s.alt) /\ branch \in Seq(Blocks)
         /\ Len(branch) >= 1 /\ branch[Len(branch)] = b /\ branch[1] # Genesis
<1>1. b \in Blocks /\ Parent[b] \in Blocks
  BY ParentBelow
<1> DEFINE q == Branch(s, Parent[b])
           A == s.alt
<1>2. q \in Seq(A) /\ branch = Append(q, b)
  BY <1>1, BranchRight
<1>3. A \subseteq Blocks /\ Genesis \notin A /\ b \in A
  OBVIOUS
<1> HIDE DEF q, A
<1>4. /\ Len(q) \in Nat /\ branch \in Seq(A) /\ Len(branch) = Len(q) + 1
      /\ branch[Len(q) + 1] = b
  BY <1>2, <1>3, AppendProperties
<1>5. branch[1] \in A
  BY <1>4
<1>6. branch \in Seq(Blocks)
  BY <1>3, <1>4, SeqMonotonic
<1> QED
  BY <1>3, <1>4, <1>5, <1>6 DEF A

-----------------------------------------------------------------------------
(* A block comes in *)

\* get_block_cumulative_difficulty of an alternative block: that of its
\* parent and its own difficulty.
LEMMA WorkRight ==
  ASSUME NEW b \in Blocks
  PROVE  /\ CumulativeDifficulty[b] \in Nat
         /\ b # Genesis =>
              CumulativeDifficulty[b] = CumulativeDifficulty[Parent[b]] + Difficulty[b]
<1> DEFINE Rec(f) == [x \in Blocks |-> IF x = Genesis THEN Difficulty[x]
                                       ELSE f[Parent[x]] + Difficulty[x]]
           g == [z \in Nat \X Blocks |-> z[1] + Difficulty[z[2]]]
           base == Difficulty[Genesis]
<1>1. \A x \in Blocks : x # Genesis => Parent[x] \in Blocks
  BY ParentBelow
<1>2. \A x \in Blocks : Difficulty[x] \in Nat
  BY BlocksAssumption
<1>3. g \in [Nat \X Blocks -> Nat] /\ base \in Nat
  BY <1>2, BlocksAssumption
<1>4. \E f : f = Rec(f)
  <2>1. PICK f : TreeFunction(f, Blocks, Nat, base, {Genesis}, g)
    <3>1. Genesis \in {Genesis}
      OBVIOUS
    <3> HIDE DEF g, base
    <3> QED
      BY <1>3, <3>1, TreeRecursion
  <2>2. \A x \in Blocks : f[x] = IF x = Genesis THEN Difficulty[x] ELSE f[Parent[x]] + Difficulty[x]
    BY <1>1, <2>1 DEF TreeFunction
  <2>3. f \in [Blocks -> Nat]
    BY <2>1 DEF TreeFunction
  <2>4. f = Rec(f)
    BY <2>2, <2>3
  <2> QED
    BY <2>4
<1>5. CumulativeDifficulty = Rec(CumulativeDifficulty)
  BY <1>4 DEF CumulativeDifficulty
<1>6. \A x \in Blocks : CumulativeDifficulty[x] =
        IF x = Genesis THEN Difficulty[x] ELSE CumulativeDifficulty[Parent[x]] + Difficulty[x]
  BY <1>5
<1> DEFINE S == {x \in Blocks : CumulativeDifficulty[x] \in Nat}
<1>7. ASSUME NEW x \in Blocks, x = Genesis \/ Parent[x] \in S
      PROVE  x \in S
  <2>1. CASE x = Genesis
    BY <1>2, <1>6, <2>1
  <2>2. CASE x # Genesis
    <3>1. CumulativeDifficulty[Parent[x]] \in Nat /\ Difficulty[x] \in Nat
      BY <1>2, <1>7, <2>2
    <3>2. CumulativeDifficulty[x] = CumulativeDifficulty[Parent[x]] + Difficulty[x]
      BY <1>6, <2>2
    <3> QED
      BY <3>1, <3>2
  <2> QED
    BY <2>1, <2>2
<1>8. \A x \in Blocks : x \in S
  <2> HIDE DEF S
  <2> QED
    BY <1>7, TreeInduction
<1> QED
  BY <1>6, <1>8

\* No block in two places.
Apart(s) == s.alt \cap OnChain(s) = {}

\* More work, or beyond another checkpoint, and none is left.
Marked(b) == (Ancestors[b] \cup {b}) \cap checkpoints

Better(a, b) ==
  /\ Marked(a) \subseteq Marked(b)
  /\ CumulativeDifficulty[b] > CumulativeDifficulty[a] \/ Marked(a) # Marked(b)

\* What a block that comes in does to the chain.
Forward(s, x) ==
  /\ Apart(s) => Apart(x)
  /\ Respects(s) => Respects(x)
  /\ NoClashes /\ Roomy /\ Respects(s) =>
       x.chain = s.chain \/ Better(Top(s), Top(x))

LEMMA SameForward ==
  ASSUME NEW s, NEW x, x.chain = s.chain, x.alt \in {s.alt, s.alt \ OnChain(s)}
  PROVE  Forward(s, x)
BY DEF Forward, Apart, Respects, OnChain

LEMMA ConnectedForward ==
  ASSUME NEW s, Good(s), NEW x, Good(x), NEW b \in Blocks, b # Genesis, b \notin s.alt,
         Parent[b] = Top(s), CheckpointAllows(b),
         x.chain = Append(s.chain, b), x.alt = s.alt
  PROVE  Forward(s, x)
<1>1. ChainRight(s.chain) /\ ChainRight(x.chain) /\ s.chain \in Seq(Blocks)
  BY DEF Good, ValidChain, ChainRight
<1>2. OnChain(x) = OnChain(s) \cup {b} /\ Top(x) = b
  <2> DEFINE c == s.chain
             n == Len(c)
             d == Append(c, b)
  <2>1. n \in Nat /\ Len(d) = n + 1 /\ (\A i \in 1 .. n : d[i] = c[i]) /\ d[n + 1] = b
        /\ d \in Seq(Blocks)
    BY <1>1
  <2>2. ToSet(c) = {c[i] : i \in 1 .. n} /\ ToSet(d) = {d[i] : i \in 1 .. n + 1}
    <3>1. DOMAIN c = 1 .. n /\ DOMAIN d = 1 .. n + 1
      BY <1>1, <2>1
    <3> QED
      BY <3>1 DEF ToSet
  <2>3. x.chain = d
    OBVIOUS
  <2> HIDE DEF c, n, d
  <2>4. 1 .. n + 1 = (1 .. n) \cup {n + 1}
    BY <2>1
  <2>5. ToSet(d) = ToSet(c) \cup {b}
    BY <2>1, <2>2, <2>4
  <2>6. Last(d) = b
    BY <2>1 DEF Last
  <2> QED
    BY <2>3, <2>5, <2>6 DEF OnChain, Top, c
<1>3. Top(s) \in Blocks /\ Ancestors[b] = Ancestors[Top(s)] \cup {Top(s)}
  <2>1. Top(s) \in Blocks
    BY <1>1, ChainOfAncestors DEF Top
  <2> QED
    BY <2>1, AncestorsRight
<1>4. CumulativeDifficulty[b] > CumulativeDifficulty[Top(s)]
  <2>1. /\ CumulativeDifficulty[b] \in Nat /\ CumulativeDifficulty[Top(s)] \in Nat
        /\ CumulativeDifficulty[b] = CumulativeDifficulty[Top(s)] + Difficulty[b]
    BY <1>3, WorkRight
  <2>2. Difficulty[b] \in Nat /\ Difficulty[b] # 0
    BY BlocksAssumption
  <2> QED
    BY <2>1, <2>2
<1>5. Better(Top(s), Top(x))
  BY <1>2, <1>3, <1>4 DEF Better, Marked
<1> QED
  BY <1>2, <1>5 DEF Forward, Apart, Respects

LEMMA SwitchedForward ==
  ASSUME NEW s, Good(s), NEW x, Good(x), NEW b \in Blocks, b \notin OnChain(s),
         NEW branch \in Seq(Blocks), Len(branch) >= 1, branch[1] # Genesis,
         branch[Len(branch)] = b, Switched(s, x, branch),
         AlternativeAllowed(s, b), b \in checkpoints \/ Heavier(s, b)
  PROVE  Forward(s, x)
<1> DEFINE c == s.chain
           n == Height[branch[1]]
           p == Stem(c, n)
           d == Above(c, n)
           e == x.chain
<1>1. c \in Seq(Blocks) /\ ChainRight(c) /\ ChainRight(e) /\ Len(c) \in Nat
  BY DEF Good, ValidChain, ChainRight
<1>2. n \in Nat /\ n >= 1
  <2>1. branch[1] \in Blocks
    OBVIOUS
  <2>2. Height[branch[1]] \in Nat /\ Height[Parent[branch[1]]] \in Nat
        /\ Height[branch[1]] = Height[Parent[branch[1]]] + 1
    BY <2>1, ParentBelow
  <2> QED
    BY <2>2
<1>3. /\ e = p \o branch
      /\ \A i \in 1 .. Len(branch) : CheckpointAllows(branch[i])
      /\ x.alt \subseteq (s.alt \cup ToSet(d)) \ ToSet(branch)
  BY DEF Switched
<1>4. p \in Seq(Blocks) /\ ToSet(p) \subseteq ToSet(c) /\ ToSet(d) \subseteq ToSet(c)
      /\ ToSet(p) \cap ToSet(d) = {}
  <2> HIDE DEF c, n
  <2> QED
    BY <1>1, <1>2, StemProperties, StemApart DEF Above
<1> HIDE DEF n, p, d
<1>5. ToSet(e) = ToSet(p) \cup ToSet(branch)
  BY <1>3, <1>4, ToSetConcat
<1>6. ToSet(branch) = {branch[i] : i \in 1 .. Len(branch)}
  <2>1. DOMAIN branch = 1 .. Len(branch)
    OBVIOUS
  <2> QED
    BY <2>1 DEF ToSet
<1>7. Apart(s) => Apart(x)
  BY <1>3, <1>4, <1>5 DEF Apart, OnChain
<1>8. Respects(s) => Respects(x)
  BY <1>3, <1>4, <1>5, <1>6 DEF Respects, OnChain
<1>9. Top(x) = b /\ e[Len(e)] = b /\ Len(e) \in Nat /\ Len(e) >= 1
  <2>1. Len(e) = Len(p) + Len(branch) /\ e[Len(p) + Len(branch)] = branch[Len(branch)]
    <3>1. /\ Len(p) \in Nat /\ Len(branch) \in Nat
          /\ Len(p) + Len(branch) \in 1 .. Len(p) + Len(branch)
          /\ ~(Len(p) + Len(branch) <= Len(p))
          /\ (Len(p) + Len(branch)) - Len(p) = Len(branch)
      BY <1>4
    <3>2. /\ Len(p \o branch) = Len(p) + Len(branch)
          /\ \A i \in 1 .. Len(p) + Len(branch) :
               (p \o branch)[i] = IF i <= Len(p) THEN p[i] ELSE branch[i - Len(p)]
      BY <1>4, ConcatProperties
    <3> HIDE DEF e
    <3> QED
      BY <1>3, <3>1, <3>2
  <2>2. Len(e) \in Nat /\ Len(e) >= 1
    BY <1>1 DEF ChainRight
  <2> QED
    BY <2>1, <2>2 DEF Top, Last
<1>10. ASSUME Respects(s)
       PROVE  Better(Top(s), Top(x))
  <2>1. Marked(Top(s)) = OnChain(s) \cap checkpoints
        /\ Marked(Top(x)) = OnChain(x) \cap checkpoints /\ Top(s) \in Blocks
    BY <1>1, ChainOfAncestors DEF Marked, Top, OnChain
  <2>2. ASSUME NEW k \in OnChain(s) \cap checkpoints
        PROVE  k \in OnChain(x)
    <3>1. Height[k] \in Nat /\ Height[k] + 1 \in 1 .. Len(c)
      BY <1>1, ChainAt DEF OnChain
    <3>2. Height[k] < Height[b]
      <4>1. Height[k] <= Len(c)
        BY <1>1, <3>1
      <4> QED
        BY <4>1 DEF AlternativeAllowed
    <3>3. Height[b] = Len(e) - 1
      <4>1. Len(e) \in 1 .. Len(e)
        BY <1>9
      <4>2. Height[e[Len(e)]] = Len(e) - 1
        BY <1>1, <4>1, ChainAt
      <4> QED
        BY <1>9, <4>2
    <3> DEFINE i == Height[k] + 1
    <3>4. i \in 1 .. Len(e) /\ i - 1 = Height[k]
      BY <1>9, <3>1, <3>2, <3>3
    <3> HIDE DEF i
    <3>5. e[i] \in ToSet(e) /\ Height[e[i]] = Height[k]
      BY <1>1, <3>4, ChainAt
    <3>6. CheckpointAllows(e[i])
      BY <1>8, <1>10, <3>5 DEF Respects, OnChain
    <3>7. k = e[i]
      BY <3>5, <3>6 DEF CheckpointAllows
    <3> QED
      BY <3>5, <3>7 DEF OnChain
  <2>3. b \in OnChain(x)
    BY <1>5, <1>6, <1>9, ChainAt, <1>1 DEF OnChain
  <2>4. ~Heavier(s, b) => Marked(Top(s)) # Marked(Top(x))
    BY <2>1, <2>3
  <2>5. Heavier(s, b) => CumulativeDifficulty[Top(x)] > CumulativeDifficulty[Top(s)]
    <3>1. CumulativeDifficulty[b] \in Nat /\ CumulativeDifficulty[Top(s)] \in Nat
      BY <2>1, WorkRight
    <3> QED
      BY <1>9, <3>1 DEF Heavier
  <2> QED
    BY <2>1, <2>2, <2>4, <2>5 DEF Better
<1> QED
  BY <1>7, <1>8, <1>10 DEF Forward

LEMMA RestoredForward ==
  ASSUME NEW s, NEW x, Restored(s, x)
  PROVE  Forward(s, x)
BY DEF Restored, Forward, Apart, Respects

LEMMA HandleAlternativeBlockEffect ==
  ASSUME NEW s, Good(s), NEW b \in Blocks, b \notin OnChain(s), NEW supplement,
         NEW x, x = HandleAlternativeBlock(s, b, supplement).s
  PROVE  Good(x) /\ Keeps(s, x) /\ Forward(s, x)
<1> DEFINE r == StoreAlternative(s, b, supplement)
           y == r.s
           branch == Branch(y, b)
<1>1. /\ Good(y) /\ y.chain = s.chain /\ Keeps(s, y) /\ y.alt \in {s.alt, s.alt \cup {b}}
      /\ r.result = "stored" => /\ b # Genesis /\ y.alt = s.alt \cup {b}
                                /\ AlternativeAllowed(s, b)
  BY StoreAlternativeEffect
<1>2. OnChain(y) = OnChain(s) /\ Top(y) = Top(s)
  BY <1>1 DEF OnChain, Top
<1>3. Forward(s, y)
  BY <1>1, <1>2 DEF Forward, Apart, Respects
<1>4. \/ x = y
      \/ /\ r.result = "stored" /\ (b \in checkpoints \/ Heavier(s, b))
         /\ \E discard \in BOOLEAN : x = Switch(y, branch, discard).s
  BY DEF HandleAlternativeBlock
<1> HIDE DEF r
<1>5. CASE x = y
  BY <1>1, <1>3, <1>5
<1>6. CASE /\ r.result = "stored" /\ (b \in checkpoints \/ Heavier(s, b))
           /\ \E discard \in BOOLEAN : x = Switch(y, branch, discard).s
  <2>1. b \in y.alt /\ y.alt \in SUBSET (Blocks \ {Genesis})
    BY <1>1, <1>6 DEF Good
  <2> HIDE DEF y
  <2>2. /\ branch \in Seq(Blocks) /\ Len(branch) >= 1
        /\ branch[Len(branch)] = b /\ branch[1] # Genesis
    BY <2>1, BranchFacts
  <2> HIDE DEF branch
  <2>3. PICK discard \in BOOLEAN : x = Switch(y, branch, discard).s
    BY <1>6
  <2>4. Good(x) /\ Keeps(y, x) /\ (Switched(y, x, branch) \/ Restored(y, x))
    BY <1>1, <2>2, <2>3, SwitchEffect
  <2>5. AlternativeAllowed(y, b) /\ (b \in checkpoints \/ Heavier(y, b)) /\ b \notin OnChain(y)
    BY <1>1, <1>2, <1>6 DEF AlternativeAllowed, Heavier
  <2>6. Switched(y, x, branch) => Forward(y, x)
    BY <1>1, <2>2, <2>4, <2>5, SwitchedForward
  <2>7. Forward(y, x)
    BY <2>4, <2>6, RestoredForward
  <2>8. Forward(s, x)
    <3>1. Apart(s) => Apart(y)
      BY <1>3 DEF Forward
    <3>2. Respects(s) <=> Respects(y)
      BY <1>2 DEF Respects
    <3> QED
      BY <1>1, <1>2, <2>7, <3>1, <3>2 DEF Forward
  <2>9. Keeps(s, x)
    BY <1>1, <2>4, KeepsTrans
  <2> QED
    BY <2>4, <2>8, <2>9
<1> QED
  BY <1>4, <1>5, <1>6

LEMMA AddNewBlockEffect ==
  ASSUME NEW s, Good(s), NEW b \in Blocks, NEW supplement \in SUBSET Txs,
         NEW x, x = AddNewBlock(s, b, supplement).s
  PROVE  Good(x) /\ Keeps(s, x) /\ Forward(s, x)
<1>1. CASE HaveBlock(s, b)
  <2>1. x = s
    BY <1>1 DEF AddNewBlock
  <2> QED
    BY <2>1, SameForward DEF Keeps
<1>2. CASE ~HaveBlock(s, b) /\ Parent[b] = Top(s)
  <2> DEFINE r == HandleBlockToMainChain(s, b, supplement)
  <2>1. /\ Good(r.s) /\ r.s.alt = s.alt /\ Keeps(s, r.s)
        /\ \/ r.result = "failed" /\ r.s.chain = s.chain
           \/ /\ r.result = "added" /\ r.s.chain = Append(s.chain, b)
              /\ CheckpointAllows(b) /\ Parent[b] = Top(s) /\ b # Genesis
    BY HandleBlockToMainChainEffect
  <2>2. x = r.s
    BY <1>2 DEF AddNewBlock
  <2> HIDE DEF r
  <2>3. b \notin s.alt
    BY <1>2 DEF HaveBlock
  <2>4. CASE r.s.chain = s.chain
    BY <2>1, <2>2, <2>4, SameForward
  <2>5. CASE /\ r.s.chain = Append(s.chain, b) /\ CheckpointAllows(b) /\ b # Genesis
    <3>1. Good(x) /\ x.chain = Append(s.chain, b) /\ x.alt = s.alt
      BY <2>1, <2>2, <2>5
    <3>2. Forward(s, x)
      BY <1>2, <2>3, <2>5, <3>1, ConnectedForward
    <3> QED
      BY <2>1, <2>2, <3>2
  <2> QED
    BY <2>1, <2>4, <2>5
<1>3. CASE ~HaveBlock(s, b) /\ Parent[b] # Top(s)
  <2>1. x = HandleAlternativeBlock(s, b, supplement).s /\ b \notin OnChain(s)
    BY <1>3 DEF AddNewBlock, HaveBlock
  <2> QED
    BY <2>1, HandleAlternativeBlockEffect
<1> QED
  BY <1>1, <1>2, <1>3

-----------------------------------------------------------------------------
(* The database *)

\* What is committed is as good as what the handlers hold: an aborted batch
\* and a start take it up.
GoodSaved(d) ==
  /\ d \in SavedStates /\ ValidChain(d.chain) /\ d.alt \in SUBSET (Blocks \ {Genesis})
  /\ NoClashes =>
       /\ InitSucceeds(d.db) /\ Judged(d.failed)
       /\ \A t \in Txs, b \in OnChain(d) : d.db[t] # Absent => t \notin TxsOf(b)

HasSaved(d) == {t \in Txs : d.db[t] # Absent} \cup UNION {TxsOf(b) : b \in ToSet(d.chain)}

LEMMA CommittedGood ==
  ASSUME NEW s, Good(s), NEW d, d = Committed(s)
  PROVE  /\ GoodSaved(d) /\ d.chain = s.chain /\ d.alt = s.alt
         /\ NoClashes => HasSaved(d) = HasTxs(s)
<1>1. /\ d.chain = s.chain /\ d.alt = s.alt /\ d.db = s.pool.db
      /\ d.failed = s.pool.failed /\ d \in SavedStates
  BY DEF Good, Committed, States, SavedStates, PoolStates
<1>2. OnChain(d) = OnChain(s)
  BY <1>1 DEF OnChain
<1>3. ASSUME NoClashes
      PROVE  /\ InitSucceeds(d.db) /\ Judged(d.failed)
             /\ \A t \in Txs, b \in OnChain(d) : d.db[t] # Absent => t \notin TxsOf(b)
             /\ HasSaved(d) = HasTxs(s)
  <2>1. /\ Sound(s.pool) /\ Judged(s.pool.failed) /\ s.halfTxs = {}
        /\ Stored(s.pool) \cap TxExists(s) = {}
    BY <1>3 DEF Good, Settled
  <2>2. TxExists(s) = UNION {TxsOf(b) : b \in ToSet(d.chain)}
    BY <1>1, <2>1 DEF TxExists, OnChain
  <2>3. Stored(s.pool) = {t \in Txs : d.db[t] # Absent}
    BY <1>1 DEF Stored
  <2>4. HasSaved(d) = HasTxs(s)
    BY <2>2, <2>3 DEF HasSaved, HasTxs
  <2>5. \A t \in Txs, b \in OnChain(d) : d.db[t] # Absent => t \notin TxsOf(b)
    BY <2>1, <2>2, <2>3 DEF OnChain
  <2> QED
    BY <1>1, <2>1, <2>4, <2>5 DEF Sound
<1>4. ValidChain(d.chain) /\ d.alt \in SUBSET (Blocks \ {Genesis})
  BY <1>1 DEF Good
<1> QED
  BY <1>1, <1>3, <1>4 DEF GoodSaved

LEMMA LoadedGood ==
  ASSUME NEW d, GoodSaved(d), NEW x, x = Loaded(d)
  PROVE  /\ Good(x) /\ x.chain = d.chain /\ x.alt = d.alt
         /\ NoClashes => HasTxs(x) = HasSaved(d)
<1> DEFINE q == InitPool(d.db, d.failed, d.age)
<1>1. d \in SavedStates /\ ValidChain(d.chain) /\ d.alt \in SUBSET (Blocks \ {Genesis})
  BY DEF GoodSaved
<1>2. q \in PoolStates
  BY <1>1, InitPoolType DEF SavedStates
<1>3. NoTemplate \in [valid : BOOLEAN, prev : Blocks, txs : SUBSET Txs] /\ ~NoTemplate.valid
  BY BlocksAssumption DEF NoTemplate
<1>4. x = [chain |-> d.chain, alt |-> d.alt, pool |-> q, invalid |-> {},
           halfTxs |-> {}, halfImages |-> {}, batchOk |-> TRUE, btc |-> NoTemplate]
  BY DEF Loaded
<1>5. NoClashes => /\ Sound(q) /\ q.db = d.db /\ q.failed = d.failed
                   /\ \A t \in Txs : q.cache[t] = "unknown"
  <2> SUFFICES ASSUME NoClashes
               PROVE  /\ Sound(q) /\ q.db = d.db /\ q.failed = d.failed
                      /\ \A t \in Txs : q.cache[t] = "unknown"
    OBVIOUS
  <2> DEFINE p == [EmptyPool EXCEPT !.db = d.db, !.failed = d.failed, !.age = d.age]
  <2>1. EmptyPool \in PoolStates
    BY EmptyPoolSound DEF Sound
  <2>2. p \in PoolStates /\ p.db = d.db /\ p.failed = d.failed /\ p.age = d.age
    BY <1>1, <2>1 DEF PoolStates, SavedStates
  <2>3. InitSucceeds(p.db)
    BY <2>2 DEF GoodSaved
  <2> HIDE DEF p, q
  <2>4. q = InitPool(p.db, p.failed, p.age)
    BY <2>2 DEF q
  <2> QED
    BY <2>2, <2>3, <2>4, InitPoolSound
<1> HIDE DEF q
<1>6. x \in States
  BY <1>1, <1>2, <1>3, <1>4 DEF States, SavedStates
<1>7. /\ x.chain = d.chain /\ x.alt = d.alt /\ x.pool = q /\ x.invalid = {}
      /\ x.halfTxs = {} /\ x.halfImages = {} /\ x.batchOk /\ ~x.btc.valid
  BY <1>3, <1>4
<1>8. ASSUME NoClashes
      PROVE  Settled(x) /\ Fresh(x) /\ HasTxs(x) = HasSaved(d)
  <2>1. /\ Judged(d.failed)
        /\ \A t \in Txs, b \in OnChain(d) : d.db[t] # Absent => t \notin TxsOf(b)
    BY <1>8 DEF GoodSaved
  <2>2. TxExists(x) = UNION {TxsOf(b) : b \in ToSet(d.chain)}
    BY <1>7 DEF TxExists, OnChain
  <2>3. Stored(x.pool) = {t \in Txs : d.db[t] # Absent}
    BY <1>5, <1>7, <1>8 DEF Stored
  <2>4. Stored(x.pool) \cap TxExists(x) = {}
    BY <2>1, <2>2, <2>3 DEF OnChain
  <2>5. Settled(x)
    BY <1>5, <1>7, <1>8, <2>1, <2>4 DEF Settled
  <2>6. Fresh(x)
    BY <1>5, <1>7, <1>8 DEF Fresh, VerdictsRight, TemplateApt
  <2> QED
    BY <2>2, <2>3, <2>5, <2>6 DEF HasTxs, HasSaved
<1> QED
  BY <1>1, <1>6, <1>7, <1>8 DEF Good

LEMMA OpenBatchGood ==
  ASSUME NEW s, Good(s), NEW x, x = OpenBatch(s)
  PROVE  Good(x) /\ x.chain = s.chain /\ x.alt = s.alt /\ Keeps(s, x)
<1>1. /\ x \in States /\ x.chain = s.chain /\ x.alt = s.alt /\ x.invalid = s.invalid
      /\ x.pool = s.pool /\ x.halfTxs = s.halfTxs /\ x.halfImages = s.halfImages
      /\ x.batchOk /\ x.btc = s.btc
  BY DEF Good, OpenBatch, States
<1>2. TxExists(x) = TxExists(s) /\ InputsPass(x) = InputsPass(s)
  BY <1>1, SameChain
<1>3. Settled(s) => Settled(x)
  BY <1>1, <1>2 DEF Settled
<1>4. Fresh(s) => Fresh(x)
  BY <1>1, <1>2 DEF Fresh, VerdictsRight, TemplateApt
<1> QED
  BY <1>1, <1>2, <1>3, <1>4 DEF Good, Keeps, HasTxs

LEMMA CloseBatchEffect ==
  ASSUME NEW s, Good(s), GoodSaved(saved), NEW x, x = CloseBatch(s)
  PROVE  /\ Good(x)
         /\ \/ x.chain = s.chain /\ x.alt = s.alt
            \/ x.chain = saved.chain /\ x.alt = saved.alt
         /\ NoClashes => x = s
<1> DEFINE q == [s.pool EXCEPT !.db = saved.db, !.failed = saved.failed, !.age = saved.age]
           y == [s EXCEPT !.chain = saved.chain, !.alt = saved.alt, !.pool = q,
                          !.halfTxs = {}, !.halfImages = {}]
<1>1. s \in States /\ saved \in SavedStates /\ ValidChain(saved.chain)
      /\ saved.alt \in SUBSET (Blocks \ {Genesis})
  BY DEF Good, GoodSaved
<1>2. q \in PoolStates
  BY <1>1 DEF States, SavedStates, PoolStates
<1>3. x = IF s.batchOk THEN s ELSE y
  BY <1>1 DEF CloseBatch, States, PoolStates
<1>4. NoClashes => s.batchOk
  BY DEF Good, Settled
<1> HIDE DEF q
<1>5. y \in States /\ y.chain = saved.chain /\ y.alt = saved.alt
  BY <1>1, <1>2 DEF States, SavedStates
<1> HIDE DEF y
<1>6. ~NoClashes => Good(y)
  BY <1>1, <1>5 DEF Good
<1> QED
  BY <1>3, <1>4, <1>5, <1>6

-----------------------------------------------------------------------------
(* Starts *)

\* d is the first blocks of c.
Begins(c, d) == \E k \in 1 .. Len(c) : d = SubSeq(c, 1, k)

LEMMA BeginsTrans ==
  ASSUME NEW c \in Seq(Blocks), NEW d, NEW e, Begins(c, d), Begins(d, e)
  PROVE  Begins(c, e)
<1>1. PICK k \in 1 .. Len(c) : d = SubSeq(c, 1, k)
  BY DEF Begins
<1>2. Len(d) = k
  BY <1>1
<1>3. PICK j \in 1 .. k : e = SubSeq(d, 1, j)
  BY <1>2 DEF Begins
<1>4. e = SubSeq(c, 1, j)
  BY <1>1, <1>3
<1> QED
  BY <1>1, <1>3, <1>4 DEF Begins

LEMMA BeginsInside ==
  ASSUME NEW c, ChainRight(c), NEW d, Begins(c, d)
  PROVE  /\ ToSet(d) \subseteq ToSet(c) /\ Len(d) \in 1 .. Len(c)
         /\ Last(d) \in Ancestors[Last(c)] \cup {Last(c)}
<1>1. c \in Seq(Blocks) /\ Len(c) \in Nat
  BY DEF ChainRight
<1>2. PICK k \in 1 .. Len(c) : d = SubSeq(c, 1, k)
  BY DEF Begins
<1>3. d \in Seq(Blocks) /\ Len(d) = k /\ \A i \in 1 .. k : d[i] = c[i]
  BY <1>1, <1>2
<1>4. ToSet(d) = {d[i] : i \in 1 .. k} /\ ToSet(c) = {c[i] : i \in 1 .. Len(c)}
  <2>1. DOMAIN d = 1 .. k /\ DOMAIN c = 1 .. Len(c)
    BY <1>1, <1>3
  <2> QED
    BY <2>1 DEF ToSet
<1>5. ToSet(d) \subseteq ToSet(c)
  BY <1>1, <1>3, <1>4
<1>6. Last(d) = d[k] /\ d[k] \in ToSet(d)
  BY <1>1, <1>3, <1>4 DEF Last
<1>7. ToSet(c) = Ancestors[Last(c)] \cup {Last(c)}
  BY ChainOfAncestors
<1> QED
  BY <1>3, <1>5, <1>6, <1>7

\* At most one checkpoint at a height, and none next to the genesis block: for
\* that height check_against_checkpoints does nothing.
Proper(points) ==
  /\ \A a, b \in points : Height[a] = Height[b] => a = b
  /\ \A a \in points : Height[a] # 1

\* No block of the chain contradicts one of the points.
Agrees(s, points) ==
  \A b \in OnChain(s), a \in points : Height[a] = Height[b] => a = b

\* check_against_checkpoints has looked at the heights up to h.
Checked(points, h, c) ==
  \A i \in 2 .. h : i < Len(c) /\ (\E a \in points : Height[a] = i) => c[i + 1] \in points

LEMMA RollbackToNone ==
  ASSUME NEW s, Good(s), NEW n \in Nat, n >= 1, n <= Len(s.chain), NEW none \in Seq(Blocks),
         Len(none) = 0, NEW x, x = Rollback(s, none, n)
  PROVE  Good(x) /\ x.alt = s.alt /\ Keeps(s, x) /\ x.chain = SubSeq(s.chain, 1, n)
<1> DEFINE p == SubSeq(s.chain, 1, n)
<1>1. none = << >> /\ SubSeq(none, 1, 0) = << >>
  BY EmptySeq, SubSeqEmpty
<1>2. s.chain \in Seq(Blocks) /\ Len(s.chain) \in Nat
  BY DEF Good, States
<1>3. p \in Seq(Blocks)
  BY <1>2
<1>4. /\ Good(x) /\ x.alt = s.alt /\ Keeps(s, x)
      /\ ExtendedSome(SubSeq(s.chain, 1, n), x.chain, none)
  <2>1. n <= Len(s.chain) => ExtendedSome(SubSeq(s.chain, 1, n), x.chain, none)
    BY RollbackEffect, Zenon
  <2>2. Good(x) /\ x.alt = s.alt /\ Keeps(s, x)
    BY RollbackGood, Zenon
  <2> QED
    BY <2>1, <2>2, Zenon
<1>5. PICK m \in 0 .. 0 : Extended(p, x.chain, none, m)
  BY <1>4 DEF ExtendedSome
<1>6. m = 0
  OBVIOUS
<1> HIDE DEF p
<1>7. x.chain = p \o << >>
  BY <1>1, <1>5, <1>6 DEF Extended
<1>8. x.chain = p
  BY <1>3, <1>7, ConcatEmptySeq
<1> QED
  BY <1>4, <1>8 DEF p

LEMMA CheckNextEffect ==
  ASSUME NEW points, NEW x \in [s : States, thrown : BOOLEAN], Good(x.s),
         NEW h \in Nat, h >= 1, NEW y, y = CheckNext(x, h, points)
  PROVE  /\ y \in [s : States, thrown : BOOLEAN]
         /\ Good(y.s) /\ y.s.alt = x.s.alt /\ Keeps(x.s, y.s)
         /\ Begins(x.s.chain, y.s.chain)
         /\ ~y.thrown => /\ ~x.thrown
                         /\ Checked(points, h - 1, x.s.chain) => Checked(points, h, y.s.chain)
<1> DEFINE here == {a \in points : Height[a] = h}
           c == x.s.chain
           m == RollbackHeight(h)
           z == Rollback(x.s, <<>>, m)
<1>1. c \in Seq(Blocks) /\ Len(c) \in Nat /\ Len(c) >= 1 /\ ChainRight(c)
  BY DEF Good, ValidChain, ChainRight
<1>2. Begins(c, c)
  <2>1. SubSeq(c, 1, Len(c)) = c
    BY <1>1, SubSeqFull
  <2> QED
    BY <1>1, <2>1 DEF Begins
<1>3. \/ y = x /\ (x.thrown \/ here = {} \/ c[h + 1] \in here \/ h = 1)
      \/ y = [x EXCEPT !.thrown = TRUE]
      \/ /\ ~x.thrown /\ here # {} /\ h < Len(c) /\ h # 1 /\ h # 2
         /\ y = [x EXCEPT !.s = z]
  BY <1>1 DEF CheckNext
<1>4. \A i \in 2 .. h : i \in 2 .. (h - 1) \/ i = h
  OBVIOUS
<1>5. CASE y = x /\ (x.thrown \/ here = {} \/ c[h + 1] \in here \/ h = 1)
  <2>1. ASSUME ~y.thrown, Checked(points, h - 1, c)
        PROVE  Checked(points, h, c)
    <3> SUFFICES ASSUME NEW i \in 2 .. h, i < Len(c), NEW a \in points, Height[a] = i
                 PROVE  c[i + 1] \in points
      BY DEF Checked
    <3>1. CASE i \in 2 .. (h - 1)
      BY <2>1, <3>1 DEF Checked
    <3>2. CASE i = h
      BY <1>5, <2>1, <3>2
    <3> QED
      BY <1>4, <3>1, <3>2
  <2> QED
    BY <1>2, <1>5, <2>1 DEF Keeps
<1>6. CASE y = [x EXCEPT !.thrown = TRUE]
  BY <1>2, <1>6 DEF Keeps
<1>7. CASE /\ ~x.thrown /\ here # {} /\ h < Len(c) /\ h # 1 /\ h # 2
           /\ y = [x EXCEPT !.s = z]
  <2>1. m = h - 2 /\ m \in Nat /\ m >= 1 /\ m <= Len(c) /\ m \in 1 .. Len(c)
    BY <1>1, <1>7 DEF RollbackHeight
  <2> DEFINE v == x.s
             none == << >>
  <2>2. /\ Good(v) /\ m \in Nat /\ m >= 1 /\ m <= Len(v.chain)
        /\ none \in Seq(Blocks) /\ Len(none) = 0 /\ z = Rollback(v, none, m)
    BY <2>1, EmptySeq
  <2> HIDE DEF m, z, v, none
  <2>3. Good(z) /\ z.alt = v.alt /\ Keeps(v, z) /\ z.chain = SubSeq(v.chain, 1, m)
    BY <2>2, RollbackToNone
  <2>4. Good(z) /\ z.alt = x.s.alt /\ Keeps(x.s, z) /\ z.chain = SubSeq(c, 1, m)
    BY <2>3 DEF v
  <2>5. y \in [s : States, thrown : BOOLEAN] /\ y.s = z /\ y.thrown = x.thrown
    BY <1>7, <2>4 DEF Good
  <2>6. Begins(c, z.chain)
    BY <2>1, <2>4 DEF Begins
  <2>7. ASSUME Checked(points, h - 1, c)
        PROVE  Checked(points, h, z.chain)
    <3> SUFFICES ASSUME NEW i \in 2 .. h, i < Len(z.chain), NEW a \in points, Height[a] = i
                 PROVE  z.chain[i + 1] \in points
      BY DEF Checked
    <3>1. Len(z.chain) = m /\ \A j \in 1 .. m : z.chain[j] = c[j]
      BY <1>1, <2>1, <2>4
    <3>2. i \in 2 .. (h - 1) /\ i < Len(c) /\ i + 1 \in 1 .. m
      BY <1>1, <2>1, <3>1
    <3>3. c[i + 1] \in points
      BY <2>7, <3>2 DEF Checked
    <3> QED
      BY <3>1, <3>2, <3>3
  <2> QED
    BY <1>7, <2>4, <2>5, <2>6, <2>7
<1> QED
  BY <1>3, <1>5, <1>6, <1>7

\* A height at which the chain agrees with the checkpoints.
LEMMA CheckNextAgrees ==
  ASSUME NEW s, ChainRight(s.chain), NEW points, Agrees(s, points),
         NEW x, x = [s |-> s, thrown |-> FALSE], NEW h \in 1 .. (Len(s.chain) - 1)
  PROVE  CheckNext(x, h, points) = x
<1> DEFINE c == s.chain
           b == c[h + 1]
           here == {a \in points : Height[a] = h}
<1>1. Len(c) \in Nat /\ h + 1 \in 1 .. Len(c) /\ (h + 1) - 1 = h /\ ~(h >= Len(c))
  BY DEF ChainRight
<1>2. b \in OnChain(s) /\ Height[b] = h
  BY <1>1, ChainAt DEF OnChain
<1>3. here # {} => b \in here
  BY <1>2 DEF Agrees
<1>4. x.s = s /\ ~x.thrown
  OBVIOUS
<1> HIDE DEF b, here
<1>5. CheckNext(x, h, points) =
        IF x.thrown \/ here = {} THEN x
        ELSE IF h >= Len(x.s.chain) THEN [x EXCEPT !.thrown = TRUE]
        ELSE IF x.s.chain[h + 1] \in here \/ h = 1 THEN x
        ELSE IF h = 2 THEN [x EXCEPT !.thrown = TRUE]
        ELSE [x EXCEPT !.s = Rollback(x.s, <<>>, RollbackHeight(h))]
  BY DEF CheckNext, here
<1> QED
  BY <1>1, <1>3, <1>4, <1>5 DEF b

LEMMA StartEffect ==
  ASSUME GoodSaved(saved), NEW points, NEW r, r = StartState(points)
  PROVE  /\ Good(r.s) /\ r.up \in BOOLEAN /\ r.s.alt \subseteq saved.alt
         /\ Begins(saved.chain, r.s.chain)
         /\ NoClashes /\ Roomy => HasSaved(saved) \subseteq HasTxs(r.s)
         /\ points \subseteq Blocks \ {Genesis} /\ Proper(points) /\ r.up => Agrees(r.s, points)
         /\ Agrees(saved, points) => /\ r.s.chain = saved.chain
                                     /\ NoClashes => r.up
<1> DEFINE s == Loaded(saved)
           n == Len(s.chain) - 1
           States2 == [s : States, thrown : BOOLEAN]
           D == {x \in States2 : /\ Good(x.s) /\ x.s.alt = s.alt /\ Keeps(s, x.s)
                                 /\ Begins(s.chain, x.s.chain)}
           base == [s |-> s, thrown |-> FALSE]
           c == CheckAgainstCheckpoints(s, points)
<1>1. /\ Good(s) /\ s.chain = saved.chain /\ s.alt = saved.alt
      /\ NoClashes => HasTxs(s) = HasSaved(saved)
  BY LoadedGood
<1> HIDE DEF s
<1>2. /\ s \in States /\ s.chain \in Seq(Blocks) /\ ChainRight(s.chain)
      /\ n \in Nat /\ Len(s.chain) = n + 1
  BY <1>1 DEF Good, ValidChain, ChainRight
<1>3. base \in D /\ base.s = s /\ base.thrown = FALSE
  <2>1. SubSeq(s.chain, 1, Len(s.chain)) = s.chain /\ Len(s.chain) \in 1 .. Len(s.chain)
    BY <1>2, SubSeqFull
  <2> QED
    BY <1>1, <1>2, <2>1 DEF Begins, Keeps
<1>4. ASSUME NEW x \in D, NEW h \in 1 .. n
      PROVE  /\ CheckNext(x, h, points) \in D
             /\ ~CheckNext(x, h, points).thrown =>
                  /\ ~x.thrown
                  /\ Checked(points, h - 1, x.s.chain) =>
                       Checked(points, h, CheckNext(x, h, points).s.chain)
  <2> DEFINE y == CheckNext(x, h, points)
  <2>1. x \in States2 /\ Good(x.s) /\ h \in Nat /\ h >= 1
    BY <1>2
  <2>2. /\ y \in States2 /\ Good(y.s) /\ y.s.alt = x.s.alt /\ Keeps(x.s, y.s)
        /\ Begins(x.s.chain, y.s.chain)
        /\ ~y.thrown => /\ ~x.thrown
                        /\ Checked(points, h - 1, x.s.chain) => Checked(points, h, y.s.chain)
    BY <2>1, CheckNextEffect
  <2> HIDE DEF y
  <2>3. Keeps(s, y.s)
    <3>1. Keeps(s, x.s)
      OBVIOUS
    <3> QED
      BY <2>2, <3>1, KeepsTrans
  <2>4. Begins(s.chain, y.s.chain)
    BY <1>2, <2>2, BeginsTrans
  <2>5. y \in D
    BY <2>2, <2>3, <2>4
  <2> QED
    BY <2>2, <2>5 DEF y
<1> HIDE DEF n
<1>5. PICK trace : CheckTrace(trace, D, s, points, n)
  <2>1. \A x \in D, h \in 1 .. n : CheckNext(x, h, points) \in D
    BY <1>4
  <2> HIDE DEF D
  <2> QED
    BY <1>2, <1>3, <2>1, CheckSteps
<1>6. /\ trace[0] = base /\ trace[n] = c /\ (\A i \in 0 .. n : trace[i] \in D)
      /\ \A i \in 1 .. n : trace[i] = CheckNext(trace[i - 1], i, points)
  BY <1>5 DEF CheckTrace
<1> HIDE DEF c
<1>7. n \in 0 .. n /\ c \in D
  BY <1>2, <1>6
<1>8. ~c.thrown => Checked(points, n, c.s.chain)
  <2> DEFINE G == {i \in 0 .. n : ~trace[i].thrown => Checked(points, i, trace[i].s.chain)}
  <2>1. 0 \in G
    BY <1>2 DEF Checked
  <2>2. ASSUME NEW i \in 1 .. n, i - 1 \in G
        PROVE  i \in G
    <3>1. i - 1 \in 0 .. n /\ i \in 0 .. n
      BY <1>2
    <3>2. trace[i - 1] \in D /\ trace[i] = CheckNext(trace[i - 1], i, points)
      BY <1>6, <3>1
    <3> HIDE DEF D
    <3>3. ~trace[i].thrown => /\ ~trace[i - 1].thrown
                              /\ Checked(points, i - 1, trace[i - 1].s.chain) =>
                                   Checked(points, i, trace[i].s.chain)
      BY <1>4, <3>2
    <3> QED
      BY <2>2, <3>1, <3>3
  <2>3. \A i \in 0 .. n : i \in G
    <3> HIDE DEF G
    <3> QED
      BY <1>2, <2>1, <2>2, CountUp
  <2> QED
    BY <1>6, <1>7, <2>3
<1>9. ASSUME Agrees(saved, points)
      PROVE  c = base
  <2> DEFINE G == {i \in 0 .. n : trace[i] = base}
  <2>1. 0 \in G
    BY <1>2, <1>6
  <2>2. ASSUME NEW i \in 1 .. n, i - 1 \in G
        PROVE  i \in G
    <3>1. trace[i] = CheckNext(base, i, points) /\ i \in 0 .. n
      BY <1>2, <1>6, <2>2
    <3>2. Agrees(s, points)
      BY <1>1, <1>9 DEF Agrees, OnChain
    <3>3. i \in 1 .. (Len(s.chain) - 1)
      BY <1>2
    <3> HIDE DEF base
    <3>4. base = [s |-> s, thrown |-> FALSE]
      BY DEF base
    <3>5. CheckNext(base, i, points) = base
      BY <1>2, <3>2, <3>3, <3>4, CheckNextAgrees
    <3> QED
      BY <3>1, <3>5
  <2>3. \A i \in 0 .. n : i \in G
    <3> HIDE DEF G
    <3> QED
      BY <1>2, <2>1, <2>2, CountUp
  <2> QED
    BY <1>6, <1>7, <2>3
<1> DEFINE y == [c.s EXCEPT !.alt = {}]
<1>10. /\ r.s = c.s \/ r.s = y
       /\ r.up = (InitSucceeds(saved.db) /\ ~c.thrown)
  BY DEF StartState, s, c
<1>11. /\ Good(c.s) /\ c.s.alt = s.alt /\ Keeps(s, c.s) /\ Begins(s.chain, c.s.chain)
       /\ c.thrown \in BOOLEAN
  BY <1>7
<1>12. Good(y) /\ y.chain = c.s.chain /\ y.alt = {} /\ Keeps(c.s, y)
  <2> DEFINE v == c.s
             E == {}
  <2>1. Good(v) /\ E \in SUBSET (Blocks \ {Genesis}) /\ y = [v EXCEPT !.alt = E]
    BY <1>11
  <2> HIDE DEF v, y, E
  <2>2. Good(y) /\ y.chain = v.chain /\ y.alt = E /\ Keeps(v, y)
    BY <2>1, AltGood, Zenon
  <2> QED
    BY <2>2 DEF v, E
<1>13. Keeps(s, y)
  BY <1>11, <1>12, KeepsTrans
<1> HIDE DEF y
<1>14. /\ Good(r.s) /\ r.s.alt \subseteq saved.alt /\ r.s.chain = c.s.chain
       /\ Keeps(s, r.s)
  BY <1>1, <1>10, <1>11, <1>12, <1>13
<1>15. NoClashes /\ Roomy => HasSaved(saved) \subseteq HasTxs(r.s)
  BY <1>1, <1>14 DEF Keeps
<1>16. r.up \in BOOLEAN
  BY <1>10, <1>11 DEF InitSucceeds
<1>17. ASSUME points \subseteq Blocks \ {Genesis}, Proper(points), r.up
       PROVE  Agrees(r.s, points)
  <2> DEFINE d == c.s.chain
  <2>1. ChainRight(d) /\ Checked(points, n, d) /\ OnChain(r.s) = ToSet(d)
    BY <1>8, <1>10, <1>11, <1>14, <1>17 DEF Good, ValidChain, OnChain
  <2>2. Len(d) \in Nat /\ Len(d) <= n + 1
    <3>1. Len(d) \in 1 .. Len(s.chain)
      BY <1>2, <1>11, BeginsInside
    <3> QED
      BY <1>2, <3>1
  <2> HIDE DEF d
  <2> SUFFICES ASSUME NEW b \in ToSet(d), NEW a \in points, Height[a] = Height[b]
               PROVE  a = b
    BY <2>1 DEF Agrees
  <2>3. Height[b] \in Nat /\ Height[b] + 1 \in 1 .. Len(d) /\ d[Height[b] + 1] = b
    BY <2>1, ChainAt
  <2>4. Height[b] # 1 /\ Height[b] # 0
    <3>1. a \in Blocks /\ a # Genesis
      BY <1>17
    <3>2. Height[Parent[a]] \in Nat /\ Height[a] = Height[Parent[a]] + 1
      BY <3>1, ParentBelow
    <3>3. Height[a] # 1
      BY <1>17 DEF Proper
    <3> QED
      BY <3>2, <3>3
  <2>5. Height[b] \in 2 .. n /\ Height[b] < Len(d)
    BY <1>2, <2>2, <2>3, <2>4
  <2>6. b \in points
    BY <2>1, <2>3, <2>5 DEF Checked
  <2> QED
    BY <1>17, <2>6 DEF Proper
<1>18. ASSUME Agrees(saved, points)
       PROVE  r.s.chain = saved.chain /\ (NoClashes => r.up)
  <2>1. c.s = s /\ c.thrown = FALSE
    BY <1>3, <1>9, <1>18
  <2>2. NoClashes => InitSucceeds(saved.db)
    BY DEF GoodSaved
  <2> QED
    BY <1>1, <1>10, <1>14, <2>1, <2>2
<1>19. Begins(saved.chain, r.s.chain)
  BY <1>1, <1>11, <1>14
<1> QED
  BY <1>14, <1>15, <1>16, <1>17, <1>18, <1>19

-----------------------------------------------------------------------------
(* The invariant *)

\* What is in the database is as good as what the handlers hold: an aborted
\* batch and a start take it up.
Inv ==
  /\ TypeOK
  /\ Good(st) /\ Apart(st)
  /\ GoodSaved(saved) /\ Apart(saved)
  /\ NoClashes /\ Roomy => HasSaved(saved) \subseteq HasTxs(st)
  /\ Idle => saved.chain = st.chain

LEMMA InitInv == Init => Inv /\ st.chain = <<Genesis>>
<1> SUFFICES ASSUME Init PROVE Inv /\ st.chain = <<Genesis>>
  OBVIOUS
<1> DEFINE d == [chain |-> <<Genesis>>, alt |-> {}, db |-> EmptyPool.db,
                 failed |-> EmptyPool.failed, age |-> EmptyPool.age]
<1>1. ValidChain(<<Genesis>>) /\ OnChain(d) = {Genesis}
  <2>1. Genesis \in Blocks /\ Ancestors[Genesis] = {}
    BY BlocksAssumption, AncestorsRight
  <2>2. Genesis \in ValidBlocks
    BY <2>1 DEF ValidBlocks
  <2>3. OnChain(d) = {Genesis}
    BY DEF OnChain, ToSet
  <2> QED
    BY <2>1, <2>2, <2>3 DEF ValidChain, ChainRight
<1>2. GoodSaved(d)
  <2>1. EmptyPool \in PoolStates /\ InitSucceeds(EmptyPool.db)
        /\ \A t \in Txs : EmptyPool.db[t] = Absent /\ EmptyPool.failed[t] = NoTop
    BY EmptyPoolSound DEF Sound
  <2>2. <<Genesis>> \in Seq(Blocks)
    BY <1>1 DEF ValidChain, ChainRight
  <2>3. Judged(EmptyPool.failed)
    BY <2>1, TopsAssumption, BlocksAssumption DEF Judged
  <2> HIDE DEF ValidChain
  <2>4. d \in SavedStates
    BY <2>1, <2>2 DEF SavedStates, PoolStates
  <2>5. d.chain = <<Genesis>> /\ d.alt = {} /\ d.db = EmptyPool.db /\ d.failed = EmptyPool.failed
    OBVIOUS
  <2> HIDE DEF d
  <2> QED
    BY <1>1, <2>1, <2>3, <2>4, <2>5 DEF GoodSaved
<1>3. st = Loaded(d) /\ saved = Committed(st) /\ d.chain = <<Genesis>> /\ d.alt = {}
  BY DEF Init
<1> HIDE DEF d
<1>4. /\ Good(st) /\ GoodSaved(saved) /\ st.chain = d.chain /\ saved.chain = d.chain
      /\ st.alt = d.alt /\ saved.alt = d.alt
      /\ NoClashes => HasSaved(saved) = HasTxs(st)
  BY <1>2, <1>3, LoadedGood, CommittedGood
<1>5. /\ batch = "none" /\ checkpoints \in CheckpointSets /\ up = TRUE /\ pops = 0
      /\ MaxPops \in Nat
  BY BlocksAssumption DEF Init
<1>6. TypeOK
  BY <1>4, <1>5 DEF TypeOK, Good, GoodSaved
<1> QED
  BY <1>3, <1>4, <1>6 DEF Inv, Apart

\* What a handler makes of st.
Proceeds(s) ==
  /\ Good(s) /\ Apart(s) /\ Keeps(st, s)
  /\ Respects(st) /\ Respects(saved) => Respects(s)
  /\ NoClashes => Forward(st, s)

\* A step of a handler that connects blocks, or none.
Moves ==
  /\ up /\ UNCHANGED <<checkpoints, up, pops>>
  /\ Respects(st) /\ Respects(saved) => Respects(st')
  /\ NoClashes => Forward(st, st')
  /\ saved'.chain \in {saved.chain, st'.chain}

\* The operator's step back.
Pops ==
  /\ up /\ UNCHANGED <<checkpoints, up>> /\ pops' = pops + 1
  /\ Begins(saved.chain, saved'.chain) /\ st'.chain = saved'.chain

\* No step of the database loses a tx.
NoneLost == NoClashes /\ Roomy => HasSaved(saved) \subseteq HasSaved(saved')

LEMMA CommitStep ==
  ASSUME Inv, NEW s, Good(s), Apart(s), NoClashes /\ Roomy => HasSaved(saved) \subseteq HasTxs(s),
         Commit(s), batch' \in {"none", "open", "over"}, checkpoints' \in CheckpointSets,
         up' \in BOOLEAN, pops' \in 0 .. MaxPops
  PROVE  Inv' /\ NoneLost /\ st'.chain = s.chain /\ saved'.chain = s.chain
<1>1. st' = s /\ saved' = Committed(s)
  BY DEF Commit
<1> DEFINE d == Committed(s)
<1>2. /\ GoodSaved(d) /\ d.chain = s.chain /\ d.alt = s.alt
      /\ NoClashes => HasSaved(d) = HasTxs(s)
  BY CommittedGood
<1> HIDE DEF d
<1>3. saved' = d
  BY <1>1 DEF d
<1>4. s \in States /\ d \in SavedStates
  BY <1>2 DEF Good, GoodSaved
<1>5. TypeOK'
  BY <1>1, <1>3, <1>4 DEF TypeOK
<1>6. Good(st)' /\ Apart(st)'
  BY <1>1 DEF Good, Apart
<1>7. GoodSaved(saved)' /\ Apart(saved)'
  BY <1>2, <1>3 DEF GoodSaved, Apart, OnChain
<1>8. (NoClashes /\ Roomy => HasSaved(saved) \subseteq HasTxs(st))'
  BY <1>1, <1>2, <1>3
<1>9. (Idle => saved.chain = st.chain)'
  BY <1>1, <1>2, <1>3
<1> QED
  BY <1>1, <1>2, <1>3, <1>5, <1>6, <1>7, <1>8, <1>9 DEF Inv, NoneLost

\* A handler that runs to its end moves the chain on.
LEMMA HandlerStep ==
  ASSUME Inv, up, NEW s, Proceeds(s), Commit(s), batch' \in {"none", "open", "over"},
         UNCHANGED <<checkpoints, up, pops>>
  PROVE  Inv' /\ NoneLost /\ Moves
<1>1. Good(s) /\ Apart(s) /\ (NoClashes /\ Roomy => HasSaved(saved) \subseteq HasTxs(s))
  BY DEF Inv, Proceeds, Keeps
<1>2. checkpoints' \in CheckpointSets /\ up' \in BOOLEAN /\ pops' \in 0 .. MaxPops
  BY DEF Inv, TypeOK
<1>3. Inv' /\ NoneLost /\ st'.chain = s.chain /\ saved'.chain = s.chain
  BY <1>1, <1>2, CommitStep
<1>4. st' = s
  BY DEF Commit
<1> QED
  BY <1>3, <1>4 DEF Moves, Proceeds

\* A step within a batch leaves the database alone.
LEMMA MemoryStep ==
  ASSUME Inv, up, NEW s, Proceeds(s), st' = s, UNCHANGED <<saved, checkpoints, up, pops>>,
         batch' \in {"none", "open", "over"},
         batch' = "none" => batch = "none" /\ s.chain = st.chain
  PROVE  Inv' /\ NoneLost /\ Moves
<1>1. Good(s) /\ Apart(s) /\ (NoClashes /\ Roomy => HasSaved(saved) \subseteq HasTxs(s))
  BY DEF Inv, Proceeds, Keeps
<1>2. TypeOK'
  BY <1>1 DEF Inv, TypeOK, Good
<1>3. Good(st)' /\ Apart(st)'
  BY <1>1 DEF Good, Apart
<1>4. GoodSaved(saved)' /\ Apart(saved)'
  BY DEF Inv, GoodSaved, Apart, OnChain
<1>5. (NoClashes /\ Roomy => HasSaved(saved) \subseteq HasTxs(st))'
  BY <1>1
<1>6. (Idle => saved.chain = st.chain)'
  BY DEF Inv, Idle
<1>7. Inv'
  BY <1>2, <1>3, <1>4, <1>5, <1>6 DEF Inv
<1> QED
  BY <1>7 DEF NoneLost, Moves, Proceeds

LEMMA SameProceeds ==
  ASSUME Inv, NEW s, Good(s), Keeps(st, s), s.chain = st.chain, s.alt = st.alt
  PROVE  Proceeds(s)
<1>1. OnChain(s) = OnChain(st)
  BY DEF OnChain
<1> QED
  BY <1>1, SameForward DEF Inv, Proceeds, Apart, Respects

LEMMA AfterBlockProceeds ==
  ASSUME Inv, NEW b \in Blocks, NEW supplement \in SUBSET Txs,
         NEW s, s = AfterBlock(b, supplement)
  PROVE  Proceeds(s)
<1> DEFINE o == OpenBatch(st)
           a == AddNewBlock(o, b, supplement).s
<1>1. Good(o) /\ o.chain = st.chain /\ o.alt = st.alt /\ Keeps(st, o)
  BY OpenBatchGood DEF Inv
<1> HIDE DEF o
<1>2. Good(a) /\ Keeps(o, a) /\ Forward(o, a)
  BY <1>1, AddNewBlockEffect
<1>3. s = CloseBatch(a)
  BY DEF AfterBlock, o
<1> HIDE DEF a
<1>4. /\ Good(s)
      /\ \/ s.chain = a.chain /\ s.alt = a.alt
         \/ s.chain = saved.chain /\ s.alt = saved.alt
      /\ NoClashes => s = a
  BY <1>2, <1>3, CloseBatchEffect DEF Inv
<1>5. Forward(st, a)
  BY <1>1, <1>2 DEF Forward, Apart, Respects, OnChain, Top
<1>6. Keeps(st, a)
  BY <1>1, <1>2, KeepsTrans
<1>7. Apart(s)
  BY <1>4, <1>5 DEF Inv, Forward, Apart, OnChain
<1>8. Respects(st) /\ Respects(saved) => Respects(s)
  BY <1>4, <1>5 DEF Forward, Respects, OnChain
<1>9. Keeps(st, s) /\ (NoClashes => Forward(st, s))
  BY <1>4, <1>5, <1>6 DEF Keeps
<1> QED
  BY <1>4, <1>7, <1>8, <1>9 DEF Proceeds

LEMMA TemplateProceeds ==
  ASSUME Inv, NEW s, NEW ok, ok = InputsPass(st), NEW q,
         q = [FillBlockTemplate(st.pool, ok, Top(st)) EXCEPT !.moved = FALSE], NEW t,
         t = [valid |-> TRUE, prev |-> Top(st), txs |-> TemplateTxs(st.pool, ok, Top(st))],
         s = [st EXCEPT !.pool = q, !.btc = t]
  PROVE  Proceeds(s)
<1> DEFINE p == st.pool
           top == Top(st)
           f == FillBlockTemplate(p, ok, top)
           C == TemplateTxs(p, ok, top)
<1>1. Good(st) /\ st \in States /\ p \in PoolStates /\ ValidChain(st.chain)
  BY DEF Inv, Good, States
<1>2. top \in Blocks /\ top \in Tops
  BY <1>1, ChainOfAncestors, BlocksAssumption DEF ValidChain, Top
<1> HIDE DEF p, top
<1>3. f \in PoolStates /\ C \in SUBSET Txs
  BY <1>1, <1>2, FillType
<1>4. /\ \A u \in C : u \in Txs /\ u \in p.sorted /\ Ready(p, u, ok, top)
      /\ \A u, v \in C : u # v => KeyImagesOf[u] \cap KeyImagesOf[v] = {}
  BY <1>1, TemplateApart
<1>5. Sound(p) =>
        /\ Sound(f) /\ f.db = p.db
        /\ \A u \in Txs :
             /\ f.cache[u] \in {p.cache[u], Verdict(p, u, ok)}
             /\ \/ f.failed[u] = p.failed[u]
                \/ f.failed[u] = top /\ Verdict(p, u, ok) = "bad"
  BY <1>2, FillEffect
<1>6. q = [f EXCEPT !.moved = FALSE]
      /\ t = [valid |-> TRUE, prev |-> top, txs |-> C]
  BY DEF p, top
<1> HIDE DEF f, C
<1>7. /\ q \in PoolStates /\ q.db = f.db /\ q.ki = f.ki /\ q.sorted = f.sorted
      /\ q.weight = f.weight /\ q.cache = f.cache /\ q.failed = f.failed /\ ~q.moved
      /\ q.age = f.age
  BY <1>3, <1>6 DEF PoolStates
<1>8. t \in [valid : BOOLEAN, prev : Blocks, txs : SUBSET Txs] /\ t.txs = C
  BY <1>2, <1>3, <1>6
<1> HIDE <1>6
<1>9. /\ s \in States /\ s.chain = st.chain /\ s.alt = st.alt /\ s.invalid = st.invalid
      /\ s.pool = q /\ s.halfTxs = st.halfTxs /\ s.halfImages = st.halfImages
      /\ s.batchOk = st.batchOk /\ s.btc = t
  BY <1>1, <1>7, <1>8 DEF States
<1>10. TxExists(s) = TxExists(st) /\ InputsPass(s) = InputsPass(st)
  BY <1>9, SameChain
<1>11. ASSUME NoClashes
       PROVE  Settled(s) /\ Fresh(s) /\ Stored(s.pool) = Stored(st.pool)
  <2>1. Settled(st) /\ Fresh(st) /\ Sound(p)
    BY <1>1, <1>11 DEF Good, Settled, p
  <2>2. Sound(q) /\ q.db = p.db /\ Stored(q) = Stored(p)
    <3>1. Sound(f) /\ f.db = p.db
      BY <1>5, <2>1
    <3> QED
      BY <1>7, <3>1, SameTableSound DEF Stored
  <2>3. \A u \in Txs : /\ q.cache[u] \in {p.cache[u], Verdict(p, u, ok)}
                       /\ \/ q.failed[u] = p.failed[u]
                          \/ q.failed[u] = top /\ Verdict(p, u, ok) = "bad"
    BY <1>5, <1>7, <2>1
  <2>4. ok = PassOn(top)
    <3>1. ChainRight(st.chain) /\ st.halfTxs = {} /\ st.halfImages = {}
      BY <1>1, <2>1 DEF ValidChain, Settled
    <3> QED
      BY <3>1, TopPass DEF top
  <2>5. \A u \in Txs : /\ Verdict(p, u, ok) = "bad" => u \notin ok
                       /\ Verdict(p, u, ok) = "good" => u \in ok
    BY <2>1 DEF Fresh, VerdictsRight, Verdict, p
  <2>6. Judged(q.failed)
    <3> SUFFICES ASSUME NEW u \in Txs, NEW b \in Blocks, q.failed[u] = b
                 PROVE  u \notin PassOn(b)
      BY DEF Judged
    <3>1. CASE q.failed[u] = p.failed[u]
      BY <2>1, <3>1 DEF Settled, Judged, p
    <3>2. CASE q.failed[u] = top /\ Verdict(p, u, ok) = "bad"
      BY <2>4, <2>5, <3>2
    <3> QED
      BY <2>3, <3>1, <3>2
  <2>7. Settled(s)
    BY <1>9, <1>10, <2>1, <2>2, <2>6 DEF Settled, p
  <2>8. VerdictsRight(s)
    <3>1. \A u \in Txs : /\ q.cache[u] = "good" => u \in ok
                         /\ q.cache[u] = "bad" => u \notin ok
      BY <2>1, <2>3, <2>5 DEF Fresh, VerdictsRight, p
    <3> QED
      BY <1>9, <1>10, <3>1 DEF VerdictsRight
  <2>9. C \subseteq ok /\ C \subseteq Stored(p)
    <3>1. p.sorted = Stored(p)
      BY <2>1 DEF Sound, Exact
    <3>2. \A u \in C : u \in ok
      BY <1>4, <2>5 DEF Ready
    <3> QED
      BY <1>4, <3>1, <3>2
  <2>10. TemplateApt(s)
    BY <1>4, <1>8, <1>9, <1>10, <2>2, <2>9 DEF TemplateApt
  <2> QED
    BY <1>9, <2>2, <2>7, <2>8, <2>10 DEF Fresh, p
<1>12. Good(s)
  BY <1>1, <1>9, <1>11 DEF Good
<1>13. Keeps(st, s)
  BY <1>10, <1>11 DEF Keeps, HasTxs
<1> QED
  BY <1>9, <1>12, <1>13, SameProceeds

LEMMA IncomingProceeds ==
  ASSUME Inv, NEW t \in Txs, t \notin TxExists(st), NEW relay \in RelayMethods,
         NEW s, s = [st EXCEPT !.pool = AddTx(st.pool, t, relay, InputsPass(st), Txs)]
  PROVE  Proceeds(s)
<1>1. Good(st) /\ st \in States
  BY DEF Inv, Good
<1>2. PoolKept(st, s)
  BY <1>1, AddTxKept
<1>3. Grown(st, s)
  <2> DEFINE p == st.pool
             ok == InputsPass(st)
             q == AddTx(p, t, relay, ok, Txs)
  <2> SUFFICES ASSUME Settled(st), Roomy
               PROVE  Stored(p) \subseteq Stored(s.pool)
    BY DEF Grown
  <2>1. Sound(p) /\ Weight[Txs] <= MaxWeight
    BY DEF Settled, Roomy
  <2>2. s.pool = q
    BY <1>1 DEF States
  <2> HIDE DEF p, ok
  <2>3. \A u \in Txs : p.db[u] # Absent => q.db[u] # Absent
    BY <2>1, AddTxUnpruned
  <2> QED
    BY <2>2, <2>3 DEF Stored
<1>4. Good(s) /\ s.chain = st.chain /\ s.alt = st.alt /\ Keeps(st, s)
  BY <1>1, <1>2, <1>3, PoolKeptGood
<1> QED
  BY <1>4, SameProceeds

LEMMA FlushProceeds ==
  ASSUME Inv, NEW s, s = [st EXCEPT !.invalid = {}]
  PROVE  Proceeds(s) /\ s.chain = st.chain
<1>1. Good(st) /\ st \in States
  BY DEF Inv, Good
<1>2. /\ s \in States /\ s.chain = st.chain /\ s.alt = st.alt /\ s.invalid = {}
      /\ s.pool = st.pool /\ s.halfTxs = st.halfTxs /\ s.halfImages = st.halfImages
      /\ s.batchOk = st.batchOk /\ s.btc = st.btc
  BY <1>1 DEF States
<1>3. TxExists(s) = TxExists(st) /\ InputsPass(s) = InputsPass(st)
  BY <1>2, SameChain
<1>4. Settled(st) => Settled(s)
  BY <1>2, <1>3 DEF Settled
<1>5. Fresh(st) => Fresh(s)
  BY <1>2, <1>3 DEF Fresh, VerdictsRight, TemplateApt
<1>6. Good(s) /\ Keeps(st, s)
  BY <1>1, <1>2, <1>3, <1>4, <1>5 DEF Good, Keeps, HasTxs
<1> QED
  BY <1>2, <1>6, SameProceeds

LEMMA PopStep ==
  ASSUME Inv, NEW n \in 1 .. Len(st.chain), PopBlocks(n)
  PROVE  Inv' /\ NoneLost /\ Pops
<1> DEFINE m == IF n < Len(st.chain) THEN Len(st.chain) - n ELSE 1
           s == PopTo(st, m)
           c == st.chain
<1>1. Good(st) /\ Apart(st) /\ st \in States /\ ChainRight(c) /\ Len(c) \in Nat /\ Len(c) >= 1
      /\ c \in Seq(Blocks)
  BY DEF Inv, Good, ValidChain, ChainRight
<1>2. m \in Nat /\ m >= 1 /\ m \in 1 .. Len(c)
  BY <1>1
<1>3. /\ Idle /\ Commit(s) /\ UNCHANGED <<batch, checkpoints, up>>
      /\ pops < MaxPops /\ pops' = pops + 1
  BY DEF PopBlocks
<1> HIDE DEF m
<1>4. Good(s) /\ s.alt = st.alt /\ Keeps(st, s)
  BY <1>1, <1>2, PopToGood
<1>5. s.chain = IF m < Len(st.chain) THEN SubSeq(st.chain, 1, m) ELSE st.chain
  BY <1>1, <1>2, PopToEffect
<1> HIDE DEF s, c
<1>6. Begins(c, s.chain)
  <2>1. SubSeq(c, 1, Len(c)) = c
    BY <1>1, SubSeqFull
  <2>2. m < Len(c) \/ m = Len(c)
    BY <1>1, <1>2
  <2>3. s.chain = SubSeq(c, 1, m)
    BY <1>5, <2>1, <2>2 DEF c
  <2> QED
    BY <1>2, <2>3 DEF Begins
<1>7. ToSet(s.chain) \subseteq ToSet(c)
  BY <1>1, <1>6, BeginsInside
<1>8. Apart(s)
  BY <1>1, <1>4, <1>7 DEF Apart, OnChain, c
<1>9. pops' \in 0 .. MaxPops /\ batch' \in {"none", "open", "over"}
      /\ checkpoints' \in CheckpointSets /\ up' \in BOOLEAN
  BY <1>3, BlocksAssumption DEF Inv, TypeOK
<1>10. NoClashes /\ Roomy => HasSaved(saved) \subseteq HasTxs(s)
  BY <1>4 DEF Keeps, Inv
<1>11. Inv' /\ NoneLost /\ st'.chain = s.chain /\ saved'.chain = s.chain
  BY <1>3, <1>4, <1>8, <1>9, <1>10, CommitStep
<1>12. up /\ saved.chain = c
  BY <1>3 DEF Inv, Idle, c
<1> QED
  BY <1>3, <1>6, <1>11, <1>12 DEF Pops

LEMMA RestartStep ==
  ASSUME Inv, NEW points \in CheckpointSets, Restart(points)
  PROVE  Inv' /\ NoneLost
<1> DEFINE r == StartState(points)
           s == r.s
           z == Loaded(saved)
<1>1. /\ GoodSaved(saved) /\ Apart(saved) /\ ChainRight(saved.chain) /\ pops \in 0 .. MaxPops
  BY DEF Inv, TypeOK, GoodSaved, ValidChain
<1>2. /\ Good(s) /\ r.up \in BOOLEAN /\ s.alt \subseteq saved.alt
      /\ Begins(saved.chain, s.chain)
      /\ NoClashes /\ Roomy => HasSaved(saved) \subseteq HasTxs(s)
  BY <1>1, StartEffect
<1>3. /\ checkpoints' = points /\ batch' = "none" /\ up' = r.up /\ UNCHANGED pops
      /\ IF r.up THEN Commit(s) ELSE st' = z /\ UNCHANGED saved
  BY DEF Restart
<1> HIDE DEF r, z
<1>4. CASE r.up
  <2>1. Apart(s)
    <3>1. ToSet(s.chain) \subseteq ToSet(saved.chain)
      BY <1>1, <1>2, BeginsInside
    <3> QED
      BY <1>1, <1>2, <3>1 DEF Apart, OnChain
  <2>2. Commit(s) /\ batch' \in {"none", "open", "over"} /\ checkpoints' \in CheckpointSets
        /\ up' \in BOOLEAN /\ pops' \in 0 .. MaxPops
    BY <1>1, <1>2, <1>3, <1>4
  <2> HIDE DEF s
  <2> QED
    BY <1>2, <2>1, <2>2, CommitStep
<1>5. CASE ~r.up
  <2>1. st' = z /\ saved' = saved /\ up' = FALSE /\ batch' = "none" /\ checkpoints' = points
        /\ pops' = pops
    BY <1>2, <1>3, <1>5
  <2>2. /\ Good(z) /\ z.chain = saved.chain /\ z.alt = saved.alt
        /\ NoClashes => HasTxs(z) = HasSaved(saved)
    BY <1>1, LoadedGood DEF z
  <2>3. TypeOK'
    BY <1>1, <2>1, <2>2 DEF TypeOK, Good, GoodSaved
  <2>4. Good(st)' /\ Apart(st)'
    BY <1>1, <2>1, <2>2 DEF Good, Apart, OnChain
  <2>5. GoodSaved(saved)' /\ Apart(saved)'
    BY <1>1, <2>1 DEF GoodSaved, Apart, OnChain
  <2>6. (NoClashes /\ Roomy => HasSaved(saved) \subseteq HasTxs(st))'
    BY <2>1, <2>2
  <2>7. (Idle => saved.chain = st.chain)'
    BY <2>1 DEF Idle
  <2>8. NoneLost
    BY <2>1 DEF NoneLost
  <2> QED
    BY <2>3, <2>4, <2>5, <2>6, <2>7, <2>8 DEF Inv
<1> QED
  BY <1>4, <1>5

LEMMA NextStep ==
  ASSUME Inv, [Next]_vars
  PROVE  /\ Inv' /\ NoneLost
         /\ \/ Moves
            \/ Pops
            \/ \E points \in CheckpointSets : Restart(points)
            \/ UNCHANGED vars
<1> DEFINE Result == /\ Inv' /\ NoneLost
                     /\ \/ Moves
                        \/ Pops
                        \/ \E points \in CheckpointSets : Restart(points)
                        \/ UNCHANGED vars
<1>1. /\ Good(st) /\ GoodSaved(saved) /\ st \in States
      /\ batch \in {"none", "open", "over"}
  BY DEF Inv, TypeOK
<1>2. \A b \in Blocks : TxsOf(b) \in SUBSET Txs
  BY BlocksAssumption DEF TxsOf, ToSet
<1>3. ASSUME NEW b \in Blocks, NEW supplement \in SUBSET TxsOf(b), SingleBlock(b, supplement)
      PROVE  Result
  <2> DEFINE s == AfterBlock(b, supplement)
  <2>1. supplement \in SUBSET Txs
    BY <1>2
  <2>2. Proceeds(s)
    BY <2>1, AfterBlockProceeds
  <2>3. up /\ Commit(s) /\ UNCHANGED <<batch, checkpoints, up, pops>>
    BY <1>3 DEF SingleBlock, Idle
  <2> HIDE DEF s
  <2>4. Inv' /\ NoneLost /\ Moves
    BY <1>1, <2>2, <2>3, HandlerStep
  <2> QED
    BY <2>4
<1>4. ASSUME BeginBatch
      PROVE  Result
  <2> DEFINE s == OpenBatch(st)
  <2>1. Good(s) /\ s.chain = st.chain /\ s.alt = st.alt /\ Keeps(st, s)
    BY <1>1, OpenBatchGood
  <2>2. up /\ st' = s /\ batch' = "open" /\ UNCHANGED <<saved, checkpoints, up, pops>>
    BY <1>4 DEF BeginBatch, Idle
  <2> HIDE DEF s
  <2>3. Proceeds(s)
    BY <2>1, SameProceeds
  <2>4. Inv' /\ NoneLost /\ Moves
    BY <2>2, <2>3, MemoryStep
  <2> QED
    BY <2>4
<1>5. ASSUME NEW b \in Blocks, BatchBlock(b)
      PROVE  Result
  <2> DEFINE txs == TxsOf(b)
             s == AddNewBlock(st, b, txs).s
  <2>1. up /\ st' = s /\ batch' \in {"over", "open"} /\ UNCHANGED <<saved, checkpoints, up, pops>>
    BY <1>5 DEF BatchBlock
  <2>2. txs \in SUBSET Txs
    BY <1>2
  <2> HIDE DEF txs
  <2>3. Good(s) /\ Keeps(st, s) /\ Forward(st, s)
    BY <1>1, <2>2, AddNewBlockEffect
  <2> HIDE DEF s
  <2>4. Proceeds(s)
    BY <2>3 DEF Proceeds, Forward, Inv
  <2>5. Inv' /\ NoneLost /\ Moves
    BY <2>1, <2>4, MemoryStep
  <2> QED
    BY <2>5
<1>6. ASSUME EndBatch
      PROVE  Result
  <2> DEFINE s == CloseBatch(st)
  <2>1. up /\ batch' = "none" /\ Commit(s) /\ UNCHANGED <<checkpoints, up, pops>>
    BY <1>6 DEF EndBatch
  <2>2. /\ Good(s)
        /\ \/ s.chain = st.chain /\ s.alt = st.alt
           \/ s.chain = saved.chain /\ s.alt = saved.alt
        /\ NoClashes => s = st
    BY <1>1, CloseBatchEffect
  <2> HIDE DEF s
  <2>3. Apart(s) /\ (Respects(st) /\ Respects(saved) => Respects(s))
    BY <2>2 DEF Inv, Apart, Respects, OnChain
  <2>4. Keeps(st, s) /\ (NoClashes => Forward(st, s))
    BY <2>2, SameForward DEF Keeps
  <2>5. Proceeds(s)
    BY <2>2, <2>3, <2>4 DEF Proceeds
  <2>6. Inv' /\ NoneLost /\ Moves
    BY <2>1, <2>5, HandlerStep
  <2> QED
    BY <2>6
<1>7. ASSUME NEW t \in Txs, NEW relay \in Relays, IncomingTx(t, relay)
      PROVE  Result
  <2> DEFINE s == [st EXCEPT !.pool = AddTx(st.pool, t, relay, InputsPass(st), Txs)]
  <2>1. /\ up /\ t \notin TxExists(st) /\ Commit(s)
        /\ UNCHANGED <<batch, checkpoints, up, pops>>
    BY <1>7 DEF IncomingTx, Idle
  <2>2. relay \in RelayMethods
    BY BlocksAssumption
  <2>3. Proceeds(s)
    BY <2>1, <2>2, IncomingProceeds
  <2> HIDE DEF s
  <2>4. Inv' /\ NoneLost /\ Moves
    BY <1>1, <2>1, <2>3, HandlerStep
  <2> QED
    BY <2>4
<1>8. ASSUME NEW n \in 1 .. Len(st.chain), PopBlocks(n)
      PROVE  Result
  <2>1. Inv' /\ NoneLost /\ Pops
    BY <1>8, PopStep
  <2> QED
    BY <2>1
<1>9. ASSUME CreateBlockTemplate
      PROVE  Result
  <2> DEFINE ok == InputsPass(st)
             q == [FillBlockTemplate(st.pool, ok, Top(st)) EXCEPT !.moved = FALSE]
             t == [valid |-> TRUE, prev |-> Top(st), txs |-> TemplateTxs(st.pool, ok, Top(st))]
             s == [st EXCEPT !.pool = q, !.btc = t]
  <2>1. up /\ Commit(s) /\ UNCHANGED <<batch, checkpoints, up, pops>>
    BY <1>9 DEF CreateBlockTemplate, Idle
  <2>2. ok = InputsPass(st)
    OBVIOUS
  <2> HIDE DEF ok
  <2>3. q = [FillBlockTemplate(st.pool, ok, Top(st)) EXCEPT !.moved = FALSE]
        /\ t = [valid |-> TRUE, prev |-> Top(st), txs |-> TemplateTxs(st.pool, ok, Top(st))]
    OBVIOUS
  <2> HIDE DEF q, t
  <2>4. s = [st EXCEPT !.pool = q, !.btc = t]
    OBVIOUS
  <2> HIDE DEF s
  <2>5. Proceeds(s)
    BY <2>2, <2>3, <2>4, TemplateProceeds
  <2>6. Inv' /\ NoneLost /\ Moves
    BY <1>1, <2>1, <2>5, HandlerStep
  <2> QED
    BY <2>6
<1>10. ASSUME FlushInvalidBlocks
      PROVE  Result
  <2> DEFINE s == [st EXCEPT !.invalid = {}]
  <2>1. up /\ batch = "none" /\ st' = s /\ UNCHANGED <<saved, batch, checkpoints, up, pops>>
    BY <1>10 DEF FlushInvalidBlocks, Idle
  <2>2. Proceeds(s) /\ s.chain = st.chain
    BY FlushProceeds
  <2> HIDE DEF s
  <2>3. Inv' /\ NoneLost /\ Moves
    BY <2>1, <2>2, MemoryStep
  <2> QED
    BY <2>3
<1>11. ASSUME NEW points \in CheckpointSets, Restart(points)
       PROVE  Result
  <2>1. Inv' /\ NoneLost
    BY <1>11, RestartStep
  <2> QED
    BY <1>11, <2>1
<1>12. ASSUME UNCHANGED vars
      PROVE  Result
  <2>1. st' = st /\ saved' = saved /\ batch' = batch /\ checkpoints' = checkpoints /\ up' = up
        /\ pops' = pops
    BY <1>12 DEF vars
  <2>2. Good(st)' /\ Apart(st)' /\ GoodSaved(saved)' /\ Apart(saved)'
    BY <2>1 DEF Inv, Good, GoodSaved, Apart, OnChain
  <2>3. TypeOK' /\ (Idle => saved.chain = st.chain)'
    BY <2>1 DEF Inv, TypeOK, Idle
  <2>4. (NoClashes /\ Roomy => HasSaved(saved) \subseteq HasTxs(st))' /\ NoneLost
    BY <2>1 DEF Inv, NoneLost
  <2> QED
    BY <1>12, <2>2, <2>3, <2>4 DEF Inv
<1> HIDE DEF Result
<1>13. Result
  BY <1>3, <1>4, <1>5, <1>6, <1>7, <1>8, <1>9, <1>10, <1>11, <1>12 DEF Next
<1> QED
  BY <1>13 DEF Result

-----------------------------------------------------------------------------
(* Theorems: the chain and the pool *)

\* The invariant holds at every step: of the handlers of blocks and txs, of
\* batches that are committed, aborted or cut short, of pops and starts.
THEOREM Invariance == Spec => []Inv
<1>1. Init => Inv
  BY InitInv
<1>2. Inv /\ [Next]_vars => Inv'
  BY NextStep
<1> QED
  BY <1>1, <1>2, PTL DEF Spec

\* The state of Blockchain stays within its types, whatever the handlers do.
THEOREM TypeCorrect == Spec => []TypeOK
<1>1. Inv => TypeOK
  BY DEF Inv
<1> QED
  BY <1>1, Invariance, PTL

\* The main chain keeps the rules of consensus at every moment, whatever the
\* blocks: handle_block_to_main_chain, a switch that stops half way, the
\* rollback after it, pops, aborted batches and starts leave no block on it
\* that breaks a rule.
THEOREM ChainAlwaysValid == Spec => []MainChainValid
<1>1. Inv => MainChainValid
  <2> SUFFICES ASSUME Inv PROVE MainChainValid
    OBVIOUS
  <2>1. /\ st.chain \in Seq(Blocks) /\ Len(st.chain) >= 1 /\ st.chain[1] = Genesis
        /\ \A i \in 2 .. Len(st.chain) : Parent[st.chain[i]] = st.chain[i - 1]
        /\ \A i \in 1 .. Len(st.chain) : st.chain[i] \in ValidBlocks
    BY DEF Inv, Good, ValidChain, ChainRight
  <2>2. Head(st.chain) = Genesis
    BY <2>1
  <2>3. OnChain(st) \subseteq ValidBlocks
    BY <2>1 DEF OnChain, ToSet
  <2> QED
    BY <2>1, <2>2, <2>3 DEF MainChainValid
<1> QED
  BY <1>1, Invariance, PTL

\* add_block_as_invalid is never called for a block that keeps the rules:
\* when a tx of the block fails, it fails for good on that branch.
THEOREM InvalidStayInvalid ==
  ASSUME NoClashes
  PROVE  Spec => []InvalidBlocksAreInvalid
<1>1. Inv => InvalidBlocksAreInvalid
  BY DEF Inv, Good, Settled, InvalidBlocksAreInvalid
<1> QED
  BY <1>1, Invariance, PTL

\* No block of the main chain is among the alternative blocks or listed as
\* invalid: switch_to_alternative_blockchain and its rollback move every block
\* they touch.
THEOREM OneHome ==
  ASSUME NoClashes
  PROVE  Spec => []OneHomePerBlock
<1>1. Inv => OneHomePerBlock
  <2> SUFFICES ASSUME Inv PROVE OneHomePerBlock
    OBVIOUS
  <2>1. st.alt \cap OnChain(st) = {} /\ st.invalid \cap ValidBlocks = {}
        /\ ValidChain(st.chain)
    BY DEF Inv, Apart, Good, Settled
  <2>2. OnChain(st) \subseteq ValidBlocks
    BY <2>1 DEF ValidChain, ChainRight, OnChain, ToSet
  <2> QED
    BY <2>1, <2>2 DEF OneHomePerBlock
<1> QED
  BY <1>1, Invariance, PTL

\* No tx of the main chain is in the pool: take_tx takes what a block brings,
\* add_tx refuses what the chain has, and what a pop or a failed block returns
\* left the chain before.
THEOREM PoolApartFromChain ==
  ASSUME NoClashes
  PROVE  Spec => []PoolChainDisjoint
<1>1. Inv => PoolChainDisjoint
  BY DEF Inv, Good, Settled, PoolChainDisjoint
<1> QED
  BY <1>1, Invariance, PTL

\* The pool's key images, sorted list and weight agree with its table, and the
\* verdicts it keeps with the chain, across reorganisations and starts:
\* on_blockchain_inc and _dec are called on every path that moves the top.
THEOREM PoolStaysRight ==
  ASSUME NoClashes
  PROVE  Spec => []PoolAgrees
<1>1. Inv => PoolAgrees
  <2> SUFFICES ASSUME Inv PROVE PoolAgrees
    OBVIOUS
  <2>1. /\ Sound(st.pool) /\ VerdictsRight(st) /\ Judged(st.pool.failed)
        /\ st.halfTxs = {} /\ st.halfImages = {} /\ ChainRight(st.chain)
    BY DEF Inv, Good, Settled, Fresh, ValidChain
  <2>2. PoolIndexesAgree
    BY <2>1 DEF PoolIndexesAgree, Sound, Exact
  <2>3. InputsPass(st) = PassOn(Top(st)) /\ Top(st) \in Blocks
    BY <2>1, TopPass
  <2>4. PoolVerdictsFresh
    BY <2>1, <2>3 DEF PoolVerdictsFresh, VerdictsRight, Judged
  <2> QED
    BY <2>2, <2>4 DEF PoolAgrees
<1> QED
  BY <1>1, Invariance, PTL

\* The cached template of create_block_template can still become a block as
\* long as it would be reused: its txs are in the pool, pass on the top block
\* and spend no image twice.
THEOREM TemplateStaysMinable ==
  ASSUME NoClashes
  PROVE  Spec => []CachedTemplateMinable
<1>1. Inv => CachedTemplateMinable
  BY DEF Inv, Good, Fresh, TemplateApt, CachedTemplateMinable, TemplateCached
<1> QED
  BY <1>1, Invariance, PTL

\* A tx that the database holds, in the pool's table or in a block of the main
\* chain, is in one of them after every step: a switch, a rollback, a pop, a
\* refused block, an aborted batch, a crash.
THEOREM NoTxLost ==
  ASSUME NoClashes, Roomy
  PROVE  Spec => TxsKept
<1>1. Inv /\ [Next]_vars => [CommittedTxs \subseteq CommittedTxs']_vars
  <2> SUFFICES ASSUME Inv, [Next]_vars
               PROVE  CommittedTxs \subseteq CommittedTxs'
    OBVIOUS
  <2>1. NoneLost
    BY NextStep
  <2> QED
    BY <2>1 DEF NoneLost, HasSaved, CommittedTxs
<1> QED
  BY <1>1, Invariance, PTL DEF Spec, TxsKept

\* A block that keeps the rules is added to the main chain when its parent is
\* the top, no checkpoint forbids it and the txs the pool does not hold came
\* with it, at any moment of a batch or outside: nothing a switch, a rollback or
\* a refused block leaves in the pool is in its way.
NextBlockAdded ==
  \A b \in ValidBlocks \ {Genesis}, supplement \in SUBSET Txs :
    /\ Parent[b] = Top(st) /\ CheckpointAllows(b)
    /\ TxsOf(b) \subseteq Stored(st.pool) \cup supplement
    => HandleBlockToMainChain(st, b, supplement).result = "added"

\* handle_block_to_main_chain adds every block NextBlockAdded speaks of.
THEOREM NextValidBlockAdded ==
  ASSUME NoClashes
  PROVE  Spec => []NextBlockAdded
<1>1. Inv => NextBlockAdded
  BY ValidBlockAdded DEF Inv, NextBlockAdded
<1> QED
  BY <1>1, Invariance, PTL

\* A branch that leaves the main chain below the top passes build_alt_chain.
LEMMA RootedBelow ==
  ASSUME NEW s, ChainRight(s.chain), s.alt \in SUBSET (Blocks \ {Genesis}),
         NEW b \in Blocks \ {Genesis},
         NEW root, root = Parent[Head(Append(Branch(s, Parent[b]), b))],
         root \in OnChain(s), root # Top(s)
  PROVE  Parent[b] \in OnChain(s) \cup s.alt /\ BranchRooted(s, Parent[b])
<1> DEFINE x == Parent[b]
           branch == Branch(s, x)
<1>1. x \in Blocks
  BY BlocksAssumption
<1>2. branch \in Seq(s.alt) /\ (branch # <<>> => x \in s.alt)
  BY <1>1, BranchRight
<1>3. CASE branch = <<>>
  <2>1. root = x
    BY <1>3
  <2> QED
    BY <1>3, <2>1 DEF BranchRooted
<1>4. CASE branch # <<>>
  <2> DEFINE h == Head(branch)
  <2> HIDE DEF branch
  <2>1. Head(Append(branch, b)) = h /\ h \in s.alt
    BY <1>2, <1>4
  <2>2. h \in Blocks \ {Genesis} /\ root = Parent[h]
    BY <2>1 DEF branch
  <2>3. PICK i \in 1 .. Len(s.chain) : s.chain[i] = root
    <3>1. ToSet(s.chain) = {s.chain[i] : i \in 1 .. Len(s.chain)}
      BY DEF ChainRight, ToSet
    <3> QED
      BY <3>1 DEF OnChain
  <2>4. Height[root] = i - 1 /\ Len(s.chain) \in Nat
    <3>1. \A j \in 1 .. Len(s.chain) : Height[s.chain[j]] = j - 1
      BY ChainHeights
    <3> QED
      BY <2>3, <3>1 DEF ChainRight
  <2>5. i # Len(s.chain)
    <3>1. Top(s) = s.chain[Len(s.chain)]
      BY DEF Top, Last
    <3> QED
      BY <2>3, <3>1
  <2>6. Height[h] = Height[root] + 1
    BY <2>2, TreeAssumption
  <2>7. Len(s.chain) > Height[h]
    BY <2>3, <2>4, <2>5, <2>6
  <2> QED
    BY <1>2, <1>4, <2>2, <2>7 DEF BranchRooted, branch
<1> QED
  BY <1>3, <1>4

\* While no checkpoint is set, a valid block that has not been seen is taken in,
\* whatever the pool and the invalid blocks hold: on top of the main chain it is
\* added; where its branch leaves the main chain below the top it is stored,
\* unless the pool has one of its txs in private.  add_tx takes the txs it brings
\* also if their inputs fail on the main chain.
THEOREM ValidStayAccepted ==
  ASSUME NoClashes
  PROVE  Spec => []ValidBlocksAccepted
<1>1. Inv => ValidBlocksAccepted
  <2> SUFFICES ASSUME Inv, checkpoints = {}, NEW b \in Unseen
               PROVE  /\ Parent[b] = Top(st)
                           => HandleBlockToMainChain(st, b, TxsOf(b)).result = "added"
                      /\ InPublic(b) /\ Root(b) \in OnChain(st) \ {Top(st)} => Stores(b)
    BY DEF ValidBlocksAccepted
  <2>1. /\ Good(st) /\ st \in States /\ Settled(st) /\ ChainRight(st.chain)
        /\ st.alt \in SUBSET (Blocks \ {Genesis})
    BY DEF Inv, Good, ValidChain
  <2>2. /\ b \in ValidBlocks /\ b \in Blocks /\ b \notin BadHeader
        /\ TxsOf(b) \in SUBSET Txs /\ ~HaveBlock(st, b)
    BY BlocksAssumption DEF Unseen, ValidBlocks, KeepsRules, TxsOf, ToSet
  <2>3. CheckpointAllows(b) /\ AlternativeAllowed(st, b)
    BY DEF CheckpointAllows, AlternativeAllowed
  <2>4. b # Genesis
    <3>1. Genesis \in OnChain(st)
      BY <2>1 DEF ChainRight, OnChain, ToSet
    <3> QED
      BY <2>2, <3>1 DEF HaveBlock
  <2>5. ASSUME Parent[b] = Top(st)
        PROVE  HandleBlockToMainChain(st, b, TxsOf(b)).result = "added"
    BY <2>1, <2>2, <2>3, <2>4, <2>5, ValidBlockAdded
  <2>6. ASSUME InPublic(b), Root(b) \in OnChain(st) \ {Top(st)}
        PROVE  Stores(b)
    <3> DEFINE r == AddSupplement(st, b, TxsOf(b))
    <3>1. Parent[b] \in OnChain(st) \cup st.alt /\ BranchRooted(st, Parent[b])
      BY <2>1, <2>2, <2>4, <2>6, RootedBelow DEF Root
    <3>2. \A t \in TxsOf(b) : Open(st.pool, t)
      BY <2>2, <2>6 DEF InPublic, Open, HaveTx, Stored
    <3>3. r.good
      BY <2>1, <2>2, <3>2, SupplementTaken
    <3>4. b \notin st.alt
      BY <2>2 DEF HaveBlock
    <3> HIDE DEF r
    <3>5. StoreAlternative(st, b, TxsOf(b)).result = "stored"
      BY <2>2, <2>3, <2>4, <3>1, <3>3, <3>4 DEF StoreAlternative, r
    <3> QED
      BY <3>5 DEF Stores
  <2> QED
    BY <2>5, <2>6
<1> QED
  BY <1>1, Invariance, PTL

-----------------------------------------------------------------------------
(* Starts that fail *)

\* CheckNext, of the chain alone: what is popped is not connected again.
PassNext(acc, h, points) ==
  LET here == {c \in points : Height[c] = h} IN
  IF acc.thrown \/ here = {} THEN acc
  ELSE IF h >= Len(acc.s.chain) THEN [acc EXCEPT !.thrown = TRUE]
  ELSE IF acc.s.chain[h + 1] \in here \/ h = 1 THEN acc
  ELSE IF h = 2 THEN [acc EXCEPT !.thrown = TRUE]
  ELSE [acc EXCEPT !.s = PopTo(acc.s, RollbackHeight(h))]

PassTrace(trace, s, points, n) ==
  /\ trace[0] = [s |-> s, thrown |-> FALSE]
  /\ \A i \in 1 .. n : trace[i] = PassNext(trace[i - 1], i, points)

\* A start from the database d with these checkpoints does not get through.
Fails(d, points) ==
  \/ ~InitSucceeds(d.db)
  \/ \E trace : /\ PassTrace(trace, Loaded(d), points, Len(d.chain) - 1)
                /\ trace[Len(d.chain) - 1].thrown

LEMMA RollbackPops ==
  ASSUME NEW s, NEW n \in Nat, n <= Len(s.chain), Len(s.chain) \in Nat
  PROVE  Rollback(s, <<>>, n) = PopTo(s, n)
<1> DEFINE y == PopTo(s, n)
           base == [s |-> y, result |-> "added"]
           D == {base}
           T == {}
           none == << >>
<1>1. Rollback(s, none, n) = ConnectAll(y, none).s
  BY DEF Rollback
<1>2. ConnectAll(y, none) = FoldLeft(ConnectNext, base, none)
  BY DEF ConnectAll
<1>3. none \in Seq(T) /\ Len(none) = 0
  BY EmptySeq
<1>4. base.s = y
  OBVIOUS
<1>5. base \in D /\ \A x \in D, t \in T : ConnectNext(x, t) \in D
  OBVIOUS
<1> HIDE DEF y, base, none, D, T
<1>6. PICK trace : ConnectTrace(trace, D, base, none)
  BY <1>3, <1>5, ConnectSteps
<1>7. FoldLeft(ConnectNext, base, none) = base
  BY <1>3, <1>6 DEF ConnectTrace
<1>8. Rollback(s, none, n) = y
  BY <1>1, <1>2, <1>4, <1>7
<1> QED
  BY <1>8 DEF y, none

LEMMA FailsRight ==
  ASSUME GoodSaved(saved), NEW points
  PROVE  StartState(points).up <=> ~Fails(saved, points)
<1> DEFINE s == Loaded(saved)
           n == Len(s.chain) - 1
           D == {x \in [s : States, thrown : BOOLEAN] : Good(x.s)}
           base == [s |-> s, thrown |-> FALSE]
           c == CheckAgainstCheckpoints(s, points)
<1>1. Good(s) /\ s.chain = saved.chain
  BY LoadedGood
<1>2. StartState(points).up <=> InitSucceeds(saved.db) /\ ~c.thrown
  BY DEF StartState
<1>3. Fails(saved, points) <=>
        \/ ~InitSucceeds(saved.db)
        \/ \E trace : PassTrace(trace, s, points, n) /\ trace[n].thrown
  BY <1>1 DEF Fails
<1> HIDE DEF s
<1>4. n \in Nat /\ Len(s.chain) = n + 1
  BY <1>1 DEF Good, ValidChain, ChainRight
<1>5. base \in D
  BY <1>1 DEF Good
<1>6. ASSUME NEW x \in D, NEW h \in 1 .. n
      PROVE  CheckNext(x, h, points) \in D /\ CheckNext(x, h, points) = PassNext(x, h, points)
  <2> DEFINE y == CheckNext(x, h, points)
  <2>1. x \in [s : States, thrown : BOOLEAN] /\ Good(x.s) /\ h \in Nat /\ h >= 1
    BY <1>4
  <2>2. y \in [s : States, thrown : BOOLEAN] /\ Good(y.s)
    <3> HIDE DEF D
    <3> QED
      BY <2>1, CheckNextEffect
  <2>3. Len(x.s.chain) \in Nat
    BY <2>1 DEF Good, States
  <2>4. h < Len(x.s.chain) /\ h # 1 /\ h # 2 =>
          Rollback(x.s, <<>>, RollbackHeight(h)) = PopTo(x.s, RollbackHeight(h))
    <3> SUFFICES ASSUME h < Len(x.s.chain), h # 1, h # 2
                 PROVE  Rollback(x.s, <<>>, RollbackHeight(h)) = PopTo(x.s, RollbackHeight(h))
      OBVIOUS
    <3>1. RollbackHeight(h) \in Nat /\ RollbackHeight(h) <= Len(x.s.chain)
      BY <2>1, <2>3 DEF RollbackHeight
    <3> QED
      BY <2>3, <3>1, RollbackPops
  <2>5. y = PassNext(x, h, points)
    BY <2>1, <2>3, <2>4 DEF CheckNext, PassNext
  <2> QED
    BY <2>2, <2>5
<1> HIDE DEF D, n
<1>7. PICK trace : CheckTrace(trace, D, s, points, n)
  BY <1>4, <1>5, <1>6, CheckSteps
<1>8. /\ trace[0] = base /\ trace[n] = c
      /\ \A i \in 1 .. n : trace[i] = CheckNext(trace[i - 1], i, points) /\ trace[i - 1] \in D
  BY <1>4, <1>7 DEF CheckTrace
<1>9. PassTrace(trace, s, points, n)
  BY <1>6, <1>8 DEF PassTrace
<1>10. ASSUME NEW other, PassTrace(other, s, points, n)
       PROVE  other[n] = c
  <2> DEFINE G == {i \in 0 .. n : other[i] = trace[i]}
  <2>1. 0 \in G
    BY <1>4, <1>8, <1>10 DEF PassTrace
  <2>2. ASSUME NEW i \in 1 .. n, i - 1 \in G
        PROVE  i \in G
    BY <1>4, <1>9, <1>10, <2>2 DEF PassTrace
  <2>3. \A i \in 0 .. n : i \in G
    <3> HIDE DEF G
    <3> QED
      BY <1>4, <2>1, <2>2, CountUp
  <2>4. n \in 0 .. n
    BY <1>4
  <2> QED
    BY <1>8, <2>3, <2>4
<1> QED
  BY <1>2, <1>3, <1>8, <1>9, <1>10

-----------------------------------------------------------------------------
(* Checkpoints *)

\* A running daemon agrees with its checkpoints, in its memory and in its
\* database.
Guarded == up => Agrees(st, checkpoints) /\ Agrees(saved, checkpoints)

\* Every set of checkpoints is one check_against_checkpoints can enforce.
AllProper == \A points \in CheckpointSets : Proper(points)

LEMMA RespectsAgrees ==
  ASSUME NEW s, ChainRight(s.chain)
  PROVE  Respects(s) <=> Agrees(s, checkpoints)
BY DEF Respects, Agrees, CheckpointAllows

LEMMA InitAgrees == Init => \A points \in CheckpointSets : Agrees(saved, points)
<1> SUFFICES ASSUME Init, NEW points \in CheckpointSets PROVE Agrees(saved, points)
  OBVIOUS
<1>1. saved.chain = <<Genesis>>
  BY InitInv DEF Init, Inv, Idle
<1>2. OnChain(saved) = {Genesis}
  BY <1>1 DEF OnChain, ToSet
<1>3. \A a \in points : a \in Blocks \ {Genesis} /\ Height[a] # 0
  <2> SUFFICES ASSUME NEW a \in points PROVE a \in Blocks \ {Genesis} /\ Height[a] # 0
    OBVIOUS
  <2>1. a \in Blocks /\ a # Genesis
    BY BlocksAssumption
  <2>2. Parent[a] \in Blocks
    BY <2>1, ParentBelow
  <2>3. Height[Parent[a]] \in Nat /\ Height[a] = Height[Parent[a]] + 1
    BY <2>1, <2>2, TreeAssumption
  <2> QED
    BY <2>1, <2>3
<1> QED
  BY <1>2, <1>3, TreeAssumption DEF Agrees

LEMMA MovesAgrees ==
  ASSUME Inv, Inv', Moves, Agrees(st, checkpoints), Agrees(saved, checkpoints)
  PROVE  /\ Agrees(st', checkpoints) /\ Agrees(saved', checkpoints)
         /\ checkpoints' = checkpoints /\ up' = up
<1>1. ChainRight(st.chain) /\ ChainRight(saved.chain)
  BY DEF Inv, Good, GoodSaved, ValidChain
<1>2. ChainRight(st'.chain)
  BY DEF Inv, Good, ValidChain
<1>3. Respects(st) /\ Respects(saved)
  BY <1>1, RespectsAgrees
<1>4. Respects(st')
  BY <1>3 DEF Moves
<1>5. Agrees(st', checkpoints)
  BY <1>4 DEF Respects, Agrees, CheckpointAllows
<1> QED
  BY <1>5 DEF Moves, Agrees, OnChain

LEMMA PopsAgrees ==
  ASSUME Inv, Pops, Agrees(saved, checkpoints)
  PROVE  /\ Agrees(st', checkpoints) /\ Agrees(saved', checkpoints)
         /\ checkpoints' = checkpoints /\ up' = up
<1>1. ChainRight(saved.chain)
  BY DEF Inv, GoodSaved, ValidChain
<1>2. /\ Begins(saved.chain, saved'.chain) /\ st'.chain = saved'.chain
      /\ checkpoints' = checkpoints /\ up' = up
  BY DEF Pops
<1>3. ToSet(saved'.chain) \subseteq ToSet(saved.chain)
  BY <1>1, <1>2, BeginsInside
<1> QED
  BY <1>2, <1>3 DEF Agrees, OnChain

\* What a start does to the chain.
Starts(points) ==
  /\ checkpoints' = points /\ pops' = pops /\ up' \in BOOLEAN
  /\ Begins(saved.chain, saved'.chain) /\ st'.chain = saved'.chain
  /\ ~up' => saved' = saved
  /\ Fails(saved, points) => ~up'
  /\ ~up' => Fails(saved, points)
  /\ Proper(points) /\ up' => Agrees(st', points) /\ Agrees(saved', points)
  /\ Agrees(saved, points) => saved'.chain = saved.chain /\ (NoClashes => up')

LEMMA RestartStarts ==
  ASSUME Inv, NEW points \in CheckpointSets, Restart(points)
  PROVE  Starts(points)
<1> DEFINE r == StartState(points)
           z == Loaded(saved)
           d == Committed(r.s)
<1>1. GoodSaved(saved) /\ ChainRight(saved.chain)
  BY DEF Inv, GoodSaved, ValidChain
<1>2. points \subseteq Blocks \ {Genesis}
  BY BlocksAssumption
<1>3. /\ Good(r.s) /\ r.up \in BOOLEAN
      /\ Begins(saved.chain, r.s.chain)
      /\ Proper(points) /\ r.up => Agrees(r.s, points)
      /\ Agrees(saved, points) => /\ r.s.chain = saved.chain
                                  /\ NoClashes => r.up
  BY <1>1, <1>2, StartEffect
<1>4. /\ checkpoints' = points /\ up' = r.up /\ pops' = pops
      /\ IF r.up THEN st' = r.s /\ saved' = d ELSE st' = z /\ saved' = saved
  BY DEF Restart, Commit
<1>5. d.chain = r.s.chain
  BY DEF Committed
<1>6. z.chain = saved.chain
  BY DEF Loaded
<1>7. Begins(saved.chain, saved.chain)
  <2>1. saved.chain \in Seq(Blocks) /\ Len(saved.chain) \in 1 .. Len(saved.chain)
    BY <1>1 DEF ChainRight
  <2>2. SubSeq(saved.chain, 1, Len(saved.chain)) = saved.chain
    BY <2>1, SubSeqFull
  <2> QED
    BY <2>1, <2>2 DEF Begins
<1>8. r.up <=> ~Fails(saved, points)
  BY <1>1, FailsRight
<1> HIDE DEF r, z, d
<1>9. CASE r.up
  <2>1. /\ st' = r.s /\ saved' = d /\ up' = TRUE
    BY <1>3, <1>4, <1>9
  <2>2. Proper(points) => Agrees(st', points) /\ Agrees(saved', points)
    BY <1>3, <1>5, <1>9, <2>1 DEF Agrees, OnChain
  <2> QED
    BY <1>3, <1>4, <1>5, <1>8, <1>9, <2>1, <2>2 DEF Starts
<1>10. CASE ~r.up
  <2>1. /\ st' = z /\ saved' = saved /\ up' = FALSE
    BY <1>3, <1>4, <1>10
  <2> QED
    BY <1>3, <1>4, <1>6, <1>7, <1>8, <1>10, <2>1 DEF Starts
<1> QED
  BY <1>9, <1>10

LEMMA GuardedStep ==
  ASSUME AllProper, Inv, Guarded, [Next]_vars
  PROVE  Guarded'
<1>1. Inv'
  BY NextStep
<1>2. CASE Moves
  <2>1. up /\ Agrees(st, checkpoints) /\ Agrees(saved, checkpoints)
    BY <1>2 DEF Moves, Guarded
  <2> QED
    BY <1>1, <1>2, <2>1, MovesAgrees DEF Guarded, Agrees, OnChain
<1>3. CASE Pops
  <2>1. Agrees(saved, checkpoints)
    BY <1>3 DEF Pops, Guarded
  <2> QED
    BY <1>3, <2>1, PopsAgrees DEF Guarded, Agrees, OnChain
<1>4. ASSUME NEW points \in CheckpointSets, Restart(points)
      PROVE  Guarded'
  <2>1. Starts(points) /\ Proper(points)
    BY <1>4, RestartStarts DEF AllProper
  <2> QED
    BY <2>1 DEF Starts, Guarded, Agrees, OnChain
<1>5. CASE UNCHANGED vars
  BY <1>5 DEF vars, Guarded, Agrees, OnChain
<1> QED
  BY <1>2, <1>3, <1>4, <1>5, NextStep

LEMMA GuardedAlways ==
  ASSUME AllProper
  PROVE  Spec => []Guarded
<1>1. Init => Guarded
  <2>1. Init => checkpoints \in CheckpointSets /\ saved.chain = st.chain
    BY InitInv DEF Init, Inv, Idle
  <2> QED
    BY <2>1, InitAgrees DEF Guarded, Agrees, OnChain
<1>2. Inv /\ Guarded /\ [Next]_vars => Guarded'
  BY GuardedStep
<1> QED
  BY <1>1, <1>2, Invariance, PTL DEF Spec

\* No block on the main chain of a running daemon contradicts a checkpoint:
\* blocks that do are refused, switches too, and check_against_checkpoints has
\* rolled the chain back before the daemon is up.
THEOREM CheckpointsAlwaysRespected ==
  ASSUME AllProper
  PROVE  Spec => []CheckpointsRespected
<1>1. Guarded => CheckpointsRespected
  BY DEF Guarded, CheckpointsRespected, Agrees, CheckpointAllows
<1> QED
  BY <1>1, GuardedAlways, PTL

\* The checkpoints stay the same.
OnePointSet == \A P, Q \in CheckpointSets : P = Q

Started == up /\ \A points \in CheckpointSets : Agrees(st, points) /\ Agrees(saved, points)

LEMMA StartedStep ==
  ASSUME NoClashes, OnePointSet, Inv, Started, [Next]_vars
  PROVE  Started'
<1>1. Inv' /\ checkpoints \in CheckpointSets
  BY NextStep DEF Inv, TypeOK
<1>2. Agrees(st, checkpoints) /\ Agrees(saved, checkpoints) /\ up
  BY <1>1 DEF Started
<1>3. CASE Moves
  <2>1. Agrees(st', checkpoints) /\ Agrees(saved', checkpoints) /\ up'
    BY <1>1, <1>2, <1>3, MovesAgrees
  <2> QED
    BY <1>1, <2>1 DEF Started, OnePointSet, Agrees, OnChain
<1>4. CASE Pops
  <2>1. Agrees(st', checkpoints) /\ Agrees(saved', checkpoints) /\ up'
    BY <1>2, <1>4, PopsAgrees
  <2> QED
    BY <1>1, <2>1 DEF Started, OnePointSet, Agrees, OnChain
<1>5. ASSUME NEW points \in CheckpointSets, Restart(points)
      PROVE  Started'
  <2>1. Starts(points) /\ Agrees(saved, points)
    BY <1>5, RestartStarts DEF Started
  <2>2. saved'.chain = saved.chain /\ st'.chain = saved.chain /\ up'
    BY <2>1 DEF Starts
  <2> QED
    BY <2>2 DEF Started, Agrees, OnChain
<1>6. CASE UNCHANGED vars
  BY <1>6 DEF vars, Started, Agrees, OnChain
<1> QED
  BY <1>3, <1>4, <1>5, <1>6, NextStep

\* With checkpoints that do not change, a start from what was committed always
\* succeeds: the pool's table never holds txs that init cannot index, and
\* check_against_checkpoints has nothing to roll back.
THEOREM StartAlwaysSucceeds ==
  ASSUME NoClashes, OnePointSet
  PROVE  Spec => []StartSucceeds
<1>1. Init => Started
  <2>1. Init => up /\ saved.chain = st.chain
    BY InitInv DEF Init, Inv, Idle
  <2> QED
    BY <2>1, InitAgrees DEF Started, Agrees, OnChain
<1>2. Inv /\ Started /\ [Next]_vars => Started'
  BY StartedStep
<1>3. Started => StartSucceeds
  BY DEF Started, StartSucceeds
<1> QED
  BY <1>1, <1>2, <1>3, Invariance, PTL DEF Spec

-----------------------------------------------------------------------------
(* The chain is chosen as ChainSelection says *)

\* What the handlers have done since the last commit is a step forward; a
\* daemon that did not come up does not come up with the same checkpoints.
Ahead ==
  /\ up => Last(saved.chain) = Top(st) \/ Better(Last(saved.chain), Top(st))
  /\ ~up => Fails(saved, checkpoints)

LEMMA BetterTrans ==
  ASSUME NEW a \in Blocks, NEW b \in Blocks, NEW c \in Blocks, Better(a, b), Better(b, c)
  PROVE  Better(a, c)
<1>1. /\ CumulativeDifficulty[a] \in Nat /\ CumulativeDifficulty[b] \in Nat
      /\ CumulativeDifficulty[c] \in Nat
  BY WorkRight
<1>2. Marked(a) \subseteq Marked(b) /\ Marked(b) \subseteq Marked(c)
  BY DEF Better
<1>3. CASE Marked(a) = Marked(c)
  <2>1. Marked(a) = Marked(b) /\ Marked(b) = Marked(c)
    BY <1>2, <1>3
  <2>2. CumulativeDifficulty[b] > CumulativeDifficulty[a]
        /\ CumulativeDifficulty[c] > CumulativeDifficulty[b]
    BY <2>1 DEF Better
  <2> QED
    BY <1>1, <1>2, <2>2 DEF Better
<1>4. CASE Marked(a) # Marked(c)
  BY <1>2, <1>4 DEF Better
<1> QED
  BY <1>3, <1>4

\* A step of the chain is a step of the selection.
Selected == [Selection!SelectionNext]_(Selection!selection)

LEMMA AdoptSelected ==
  ASSUME NEW b \in Blocks, b \in ValidBlocks, Better(Last(saved.chain), b),
         Last(saved'.chain) = b, UNCHANGED <<checkpoints, pops>>
  PROVE  Selected
BY DEF Selected, Selection!SelectionNext, Selection!Adopt, Selection!Checkpointed,
       Selection!UpTo, Better, Marked

LEMMA AheadStep ==
  ASSUME NoClashes, Roomy, AllProper, Inv, Guarded, Ahead, [Next]_vars
  PROVE  Ahead' /\ Selected
<1>1. Inv'
  BY NextStep
<1>2. ChainRight(st.chain) /\ ChainRight(saved.chain)
  BY DEF Inv, Good, GoodSaved, ValidChain
<1>3. ChainRight(st'.chain) /\ ValidChain(st'.chain)
  BY <1>1 DEF Inv, Good, ValidChain
<1>4. Top(st) \in Blocks /\ Last(saved.chain) \in Blocks /\ Last(st'.chain) \in Blocks
  BY <1>2, <1>3, ChainOfAncestors DEF Top
<1>5. Last(st'.chain) \in ValidBlocks
  <2>1. Len(st'.chain) \in Nat /\ Len(st'.chain) >= 1
    BY <1>3 DEF ChainRight
  <2> QED
    BY <1>3, <2>1 DEF ValidChain, Last
<1>6. CASE Moves
  <2> DEFINE a == Last(saved.chain)
             b == Top(st)
             c == Last(st'.chain)
  <2>1. up /\ up' /\ UNCHANGED <<checkpoints, pops>> /\ saved'.chain \in {saved.chain, st'.chain}
    BY <1>6 DEF Moves
  <2>2. Respects(st)
    BY <1>2, <2>1, RespectsAgrees DEF Guarded
  <2>3. c = b \/ Better(b, c)
    BY <1>6, <2>2 DEF Moves, Forward, Top
  <2>4. a = b \/ Better(a, b)
    BY <2>1 DEF Ahead
  <2>5. a \in Blocks /\ b \in Blocks /\ c \in Blocks
    BY <1>4
  <2>6. a = c \/ Better(a, c)
    <3> HIDE DEF a, b, c
    <3> QED
      BY <2>3, <2>4, <2>5, BetterTrans
  <2>7. CASE saved'.chain = saved.chain
    <3>1. Ahead'
      BY <2>1, <2>6, <2>7 DEF Ahead, Top, Better, Marked
    <3>2. Selected
      BY <2>1, <2>7 DEF Selected, Selection!selection
    <3> QED
      BY <3>1, <3>2
  <2>8. CASE saved'.chain = st'.chain
    <3>1. Ahead'
      BY <2>1, <2>8 DEF Ahead, Top
    <3>2. Selected
      <4>1. CASE a = c
        BY <2>1, <2>8, <4>1 DEF Selected, Selection!selection
      <4>2. CASE Better(a, c)
        BY <1>5, <2>1, <2>5, <2>8, <4>2, AdoptSelected
      <4> QED
        BY <2>6, <4>1, <4>2
    <3> QED
      BY <3>1, <3>2
  <2> QED
    BY <2>1, <2>7, <2>8
<1>7. CASE Pops
  <2>1. /\ up /\ up' = up /\ checkpoints' = checkpoints /\ pops' = pops + 1
        /\ Begins(saved.chain, saved'.chain) /\ st'.chain = saved'.chain
    BY <1>7 DEF Pops
  <2>2. Last(saved'.chain) \in Ancestors[Last(saved.chain)] \cup {Last(saved.chain)}
    BY <1>2, <2>1, BeginsInside
  <2>3. Ahead'
    BY <2>1 DEF Ahead, Top
  <2>4. Selected
    BY <2>1, <2>2 DEF Selected, Selection!SelectionNext, Selection!Pop, Selection!UpTo
  <2> QED
    BY <2>3, <2>4
<1>8. ASSUME NEW points \in CheckpointSets, Restart(points)
      PROVE  Ahead' /\ Selected
  <2>1. Starts(points) /\ points \in SUBSET Blocks
    BY <1>8, RestartStarts, BlocksAssumption
  <2>2. /\ checkpoints' = points /\ pops' = pops /\ up' \in BOOLEAN
        /\ Begins(saved.chain, saved'.chain) /\ st'.chain = saved'.chain
        /\ ~up' => saved' = saved
        /\ Fails(saved, points) => ~up'
        /\ ~up' => Fails(saved, points)
        /\ Agrees(saved, points) => saved'.chain = saved.chain
    BY <2>1 DEF Starts
  <2>3. Last(saved'.chain) \in Ancestors[Last(saved.chain)] \cup {Last(saved.chain)}
    BY <1>2, <2>2, BeginsInside
  <2>4. Ahead'
    <3>1. (~up => Fails(saved, checkpoints))'
      <4>1. ~up' => saved' = saved /\ checkpoints' = points /\ Fails(saved, points)
        BY <2>2
      <4> QED
        BY <4>1
    <3>2. (up => Last(saved.chain) = Top(st))'
      BY <2>2 DEF Top
    <3> QED
      BY <3>1, <3>2 DEF Ahead
  <2>5. CASE points = checkpoints
    <3>1. up => saved'.chain = saved.chain
      BY <2>2, <2>5 DEF Guarded
    <3>2. ~up => saved'.chain = saved.chain
      BY <2>2, <2>5 DEF Ahead
    <3>3. Selected
      BY <2>2, <2>5, <3>1, <3>2 DEF Selected, Selection!selection
    <3> QED
      BY <2>4, <3>3
  <2>6. CASE points # checkpoints
    <3>1. Selected
      BY <2>1, <2>2, <2>3, <2>6
      DEF Selected, Selection!SelectionNext, Selection!ChangeCheckpoints, Selection!UpTo
    <3> QED
      BY <2>4, <3>1
  <2> QED
    BY <2>5, <2>6
<1>9. CASE UNCHANGED vars
  <2>1. Ahead'
    <3>1. /\ saved' = saved /\ st' = st /\ up' = up /\ checkpoints' = checkpoints
      BY <1>9 DEF vars
    <3>2. (~up => Fails(saved, checkpoints))'
      BY <3>1 DEF Ahead
    <3>3. (up => Last(saved.chain) = Top(st) \/ Better(Last(saved.chain), Top(st)))'
      BY <3>1 DEF Ahead, Top, Better, Marked
    <3> QED
      BY <3>2, <3>3 DEF Ahead
  <2>2. Selected
    BY <1>9 DEF vars, Selected, Selection!selection
  <2> QED
    BY <2>1, <2>2
<1> QED
  BY <1>6, <1>7, <1>8, <1>9, NextStep

\* Blockchain implements ChainSelection: a step of the committed chain is no
\* step, or it adopts a valid block with more work or beyond another
\* checkpoint, or it goes back at a pop or a start with other checkpoints.
THEOREM ChainWellChosen ==
  ASSUME NoClashes, Roomy, AllProper
  PROVE  Spec => Selects
<1>1. Init => Ahead /\ Selection!SelectionInit
  <2> SUFFICES ASSUME Init PROVE Ahead /\ Selection!SelectionInit
    OBVIOUS
  <2>1. /\ up /\ checkpoints \in CheckpointSets /\ pops = 0
        /\ saved.chain = st.chain /\ st.chain = <<Genesis>>
    BY InitInv DEF Init, Inv, Idle
  <2>2. Last(saved.chain) = Genesis
    BY <2>1 DEF Last
  <2>3. checkpoints \in SUBSET Blocks
    BY <2>1, BlocksAssumption
  <2> QED
    BY <2>1, <2>2, <2>3 DEF Ahead, Top, Selection!SelectionInit
<1>2. Inv /\ Guarded /\ Ahead /\ [Next]_vars => Ahead' /\ Selected
  BY AheadStep
<1> QED
  BY <1>1, <1>2, Invariance, GuardedAlways, PTL
  DEF Spec, Selects, Selected, Selection!SelectionSpec
=============================================================================
