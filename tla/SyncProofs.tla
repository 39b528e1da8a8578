------------------------------ MODULE SyncProofs ------------------------------
(***************************************************************************)
(* Proofs about Sync, for any peers, chains, limits and invalid blocks.    *)
(***************************************************************************)
EXTENDS Sync, NatFacts, SequenceTheorems, FiniteSetTheorems

\* Blocks that follow one another on the chain of a peer, from height h on.
Stretch(q, h, bs) ==
  \A i \in 1 .. Len(bs) : h + i <= Remote(q) /\ bs[i] = ChainOf[q][h + i]

-----------------------------------------------------------------------------
(* What the assumptions say of blocks *)

LEMMA ChainFacts ==
  /\ \A p \in Peers : /\ ChainOf[p] \in Seq(Blocks) /\ Remote(p) \in Nat
                      /\ Remote(p) > 1 /\ DOMAIN ChainOf[p] = 1 .. Remote(p)
                      /\ \A i \in 1 .. Remote(p) : ChainOf[p][i] \in Blocks
  /\ MaxIds \in Nat /\ SpanSize \in Nat \ {0} /\ SpanLimit \in Nat
  /\ MaxIds > 1 /\ Peers # {} /\ None \notin Blocks /\ None \notin Peers
<1>1. \A p \in Peers : ChainOf[p] \in Seq(Blocks) /\ Len(ChainOf[p]) > 1
  BY PeersAssumption
<1>2. ASSUME NEW p \in Peers
      PROVE  /\ Remote(p) \in Nat /\ DOMAIN ChainOf[p] = 1 .. Remote(p)
             /\ \A i \in 1 .. Remote(p) : ChainOf[p][i] \in Blocks
  BY <1>1 DEF Remote
<1> QED
  BY <1>1, <1>2, PeersAssumption, BlocksAssumption DEF Remote

\* Chains that share a block share what comes before it.
LEMMA SameBlock ==
  ASSUME NEW p \in Peers, NEW q \in Peers,
         NEW i \in 1 .. Remote(p), NEW j \in 1 .. Remote(q),
         ChainOf[p][i] = ChainOf[q][j]
  PROVE  i = j /\ (i > 1 => ChainOf[p][i - 1] = ChainOf[q][j - 1])
<1>1. i \in DOMAIN ChainOf[p] /\ j \in DOMAIN ChainOf[q]
  BY ChainFacts
<1>2. \A r, s \in Peers : \A k \in DOMAIN ChainOf[r], l \in DOMAIN ChainOf[s] :
        ChainOf[r][k] = ChainOf[s][l] =>
          k = l /\ (k > 1 => ChainOf[r][k - 1] = ChainOf[s][l - 1])
  BY BlocksAssumption
<1>3. \A k \in DOMAIN ChainOf[p], l \in DOMAIN ChainOf[q] :
        ChainOf[p][k] = ChainOf[q][l] =>
          k = l /\ (k > 1 => ChainOf[p][k - 1] = ChainOf[q][l - 1])
  BY <1>2, Zenon
<1> QED
  BY <1>1, <1>3

LEMMA SamePast ==
  ASSUME NEW p \in Peers, NEW q \in Peers, NEW n \in 1 .. Remote(p), n <= Remote(q),
         ChainOf[p][n] = ChainOf[q][n]
  PROVE  \A i \in 1 .. n : ChainOf[p][i] = ChainOf[q][i]
<1> DEFINE S == {k \in 0 .. n - 1 : ChainOf[p][n - k] = ChainOf[q][n - k]}
<1>0. n \in Nat /\ n > 0 /\ Remote(p) \in Nat /\ Remote(q) \in Nat
  BY ChainFacts
<1>1. ASSUME NEW k \in 1 .. n - 1, k - 1 \in S
      PROVE  k \in S
  <2>1. n - (k - 1) \in 1 .. Remote(p) /\ n - (k - 1) \in 1 .. Remote(q)
    BY <1>0
  <2>2. ChainOf[p][n - (k - 1)] = ChainOf[q][n - (k - 1)] /\ n - (k - 1) > 1
    BY <1>1
  <2>3. ChainOf[p][n - (k - 1) - 1] = ChainOf[q][n - (k - 1) - 1]
    BY <2>1, <2>2, SameBlock
  <2>4. n - (k - 1) - 1 = n - k
    OBVIOUS
  <2> QED
    BY <2>3, <2>4
<1>2. \A k \in 0 .. n - 1 : k \in S
  <2>1. 0 \in S /\ n - 1 \in Nat
    BY <1>0
  <2> HIDE DEF S
  <2> QED
    BY <1>1, <2>1, CountUp
<1>3. ASSUME NEW i \in 1 .. n
      PROVE  ChainOf[p][i] = ChainOf[q][i]
  <2>1. n - i \in 0 .. n - 1 /\ n - (n - i) = i
    OBVIOUS
  <2> QED
    BY <1>2, <2>1
<1> QED
  BY <1>3

\* A block that is valid has valid ones before it.
LEMMA ValidPast ==
  ASSUME NEW p \in Peers, NEW n \in 1 .. Remote(p), ChainOf[p][n] \notin Invalid
  PROVE  \A i \in 1 .. n : ChainOf[p][i] \notin Invalid
<1> DEFINE S == {k \in 0 .. n - 1 : ChainOf[p][n - k] \notin Invalid}
<1>0. n \in Nat /\ n > 0 /\ Remote(p) \in Nat
  BY ChainFacts
<1>1. ASSUME NEW k \in 1 .. n - 1, k - 1 \in S
      PROVE  k \in S
  <2>1. n - (k - 1) \in 2 .. Len(ChainOf[p]) /\ n - (k - 1) - 1 = n - k
    BY <1>0 DEF Remote
  <2>2. ChainOf[p][n - (k - 1)] \notin Invalid
    BY <1>1
  <2> QED
    BY <2>1, <2>2, BlocksAssumption
<1>2. \A k \in 0 .. n - 1 : k \in S
  <2>1. 0 \in S /\ n - 1 \in Nat
    BY <1>0
  <2> HIDE DEF S
  <2> QED
    BY <1>1, <2>1, CountUp
<1>3. ASSUME NEW i \in 1 .. n
      PROVE  ChainOf[p][i] \notin Invalid
  <2>1. n - i \in 0 .. n - 1 /\ n - (n - i) = i
    OBVIOUS
  <2> QED
    BY <1>2, <2>1
<1> QED
  BY <1>3

\* Two blocks of one height that are valid are the same.
LEMMA OneValid ==
  ASSUME NEW p \in Peers, NEW q \in Peers, NEW i \in 1 .. Remote(p), i <= Remote(q),
         ChainOf[p][i] \notin Invalid, ChainOf[q][i] \notin Invalid
  PROVE  ChainOf[p][i] = ChainOf[q][i]
<1>1. i \in DOMAIN ChainOf[p] \cap DOMAIN ChainOf[q]
  BY ChainFacts
<1>2. {ChainOf[p][i], ChainOf[q][i]} \cap Invalid = {}
  OBVIOUS
<1>3. \A r, s \in Peers : \A j \in DOMAIN ChainOf[r] \cap DOMAIN ChainOf[s] :
        {ChainOf[r][j], ChainOf[s][j]} \cap Invalid = {} => ChainOf[r][j] = ChainOf[s][j]
  BY BlocksAssumption
<1> QED
  BY <1>1, <1>2, <1>3, Zenon

\* The chains of finitely many peers have a common bound.
LEMMA PeersBounded ==
  \E b \in Nat : \A p \in Peers : Remote(p) <= b
<1>1. PICK n \in Nat : ExistsSurjection(1 .. n, Peers)
  BY PeersAssumption, FS_NatSurjection
<1>2. PICK f \in [1 .. n -> Peers] : \A p \in Peers : \E i \in 1 .. n : f[i] = p
  BY <1>1 DEF ExistsSurjection, Surjection
<1> DEFINE S == {k \in 0 .. n : \E b \in Nat : \A i \in 1 .. k : Remote(f[i]) <= b}
<1>3. ASSUME NEW k \in 1 .. n, k - 1 \in S
      PROVE  k \in S
  <2>1. PICK b \in Nat : \A i \in 1 .. k - 1 : Remote(f[i]) <= b
    BY <1>3
  <2>2. Remote(f[k]) \in Nat /\ \A i \in 1 .. n : Remote(f[i]) \in Nat
    BY <1>2, ChainFacts
  <2>3. \A i \in 1 .. k : Remote(f[i]) <= b + Remote(f[k])
    <3>1. TAKE i \in 1 .. k
    <3>2. i = k \/ i \in 1 .. k - 1
      OBVIOUS
    <3> QED
      BY <2>1, <2>2, <3>2
  <2>4. b + Remote(f[k]) \in Nat /\ k \in 0 .. n
    BY <2>2
  <2> QED
    BY <2>3, <2>4
<1>4. 0 \in S
  <2>1. \A i \in 1 .. 0 : Remote(f[i]) <= 0
    OBVIOUS
  <2> QED
    BY <2>1
<1>5. n \in S
  <2> HIDE DEF S
  <2> QED
    BY <1>3, <1>4, CountUp
<1>6. PICK b \in Nat : \A i \in 1 .. n : Remote(f[i]) <= b
  BY <1>5
<1> QED
  BY <1>2, <1>6

\* The greatest of the heights of some peers.
LEMMA MaxRemote ==
  ASSUME NEW T \in SUBSET Peers, NEW x \in Nat
  PROVE  LET R == {x} \cup {Remote(p) : p \in T}
         IN Max(R) \in Nat /\ \A r \in R : r <= Max(R)
<1> DEFINE R == {x} \cup {Remote(p) : p \in T}
<1>1. PICK b \in Nat : \A p \in Peers : Remote(p) <= b
  BY PeersBounded
<1>2. b + x \in Nat /\ R \in SUBSET (0 .. b + x) /\ R # {}
  BY <1>1, ChainFacts
<1>3. Max(R) \in R /\ \A r \in R : r <= Max(R)
  <2> HIDE DEF R
  <2> QED
    BY <1>2, MaxOfBounded
<1>4. Max(R) \in Nat
  <2> HIDE DEF Max
  <2> QED
    BY <1>2, <1>3
<1> QED
  BY <1>3, <1>4

LEMMA GreatestRemote ==
  /\ Max({Remote(p) : p \in Peers}) \in Nat
  /\ \A p \in Peers : Remote(p) <= Max({Remote(q) : q \in Peers})
<1>1. PICK p \in Peers : TRUE
  BY ChainFacts
<1>2. Remote(p) \in Nat /\ {Remote(p)} \cup {Remote(q) : q \in Peers} = {Remote(q) : q \in Peers}
  BY ChainFacts
<1> DEFINE R == {Remote(q) : q \in Peers}
<1>3. Max({Remote(p)} \cup R) \in Nat /\ \A r \in {Remote(p)} \cup R : r <= Max({Remote(p)} \cup R)
  BY <1>2, MaxRemote
<1> HIDE DEF Max
<1> QED
  BY <1>2, <1>3

LEMMA GenesisFirst ==
  \A p \in Peers : ChainOf[p][1] = Genesis
<1>1. PICK q \in Peers : TRUE
  BY ChainFacts
<1>2. 1 \in 1 .. Remote(q) /\ ChainOf[q][1] \in Blocks
  BY ChainFacts
<1>3. \A p \in Peers : ChainOf[p][1] = ChainOf[q][1]
  BY PeersAssumption
<1>4. Genesis \in Blocks /\ \A p \in Peers : ChainOf[p][1] = Genesis
  BY <1>2, <1>3 DEF Genesis
<1> QED
  BY <1>4

\* HeightOf and Parent, of the block of height i - 1 of a peer.
LEMMA HeightFacts ==
  ASSUME NEW p \in Peers, NEW i \in 1 .. Remote(p)
  PROVE  /\ HeightOf(ChainOf[p][i]) = i - 1
         /\ i > 1 => Parent(ChainOf[p][i]) = ChainOf[p][i - 1]
<1> DEFINE b == ChainOf[p][i]
           top == Max({Remote(q) : q \in Peers})
<1>1. i \in Nat /\ i > 0 /\ Remote(p) \in Nat /\ top \in Nat /\ Remote(p) <= top
  BY ChainFacts, GreatestRemote
<1> HIDE DEF top
<1>2. i - 1 \in 0 .. top - 1 /\ i - 1 < Remote(p) /\ i - 1 + 1 = i
  BY <1>1
<1>3. \A h \in 0 .. top - 1 :
        (\E q \in Peers : h < Remote(q) /\ ChainOf[q][h + 1] = b) => h = i - 1
  <2>1. TAKE h \in 0 .. top - 1
  <2>2. HAVE \E q \in Peers : h < Remote(q) /\ ChainOf[q][h + 1] = b
  <2>3. PICK q \in Peers : h < Remote(q) /\ ChainOf[q][h + 1] = b
    BY <2>2
  <2>4. h + 1 \in 1 .. Remote(q)
    BY <1>1, <2>3, ChainFacts
  <2>5. i = h + 1
    BY <2>3, <2>4, SameBlock
  <2> QED
    BY <1>1, <2>5
<1>4. HeightOf(b) = CHOOSE h \in 0 .. top - 1 :
                      \E q \in Peers : h < Remote(q) /\ ChainOf[q][h + 1] = b
  <2>1. b \in Blocks
    BY ChainFacts
  <2> QED
    BY <2>1 DEF HeightOf, Heights, top
<1>5. HeightOf(b) = i - 1
  BY <1>2, <1>3, <1>4
<1>6. ASSUME i > 1
      PROVE  Parent(b) = ChainOf[p][i - 1]
  <2> DEFINE q == CHOOSE r \in Peers : b \in Range(ChainOf[r])
  <2>1. b \in Range(ChainOf[p])
    BY ChainFacts DEF Range
  <2>2. q \in Peers /\ b \in Range(ChainOf[q])
    BY <2>1
  <2>6. b # Genesis
    <3>1. 1 \in 1 .. Remote(p) /\ i # 1
      BY <1>1, <1>6
    <3>2. b = ChainOf[p][1] => i = 1
      BY <3>1, SameBlock
    <3> QED
      BY <3>1, <3>2, GenesisFirst
  <2>3. Parent(b) = ChainOf[q][HeightOf(b)]
    <3>1. b \in Blocks \ {Genesis}
      BY <2>6, ChainFacts
    <3> QED
      BY <3>1 DEF Parent, Parents, HeightOf
  <2> HIDE DEF q
  <2>4. PICK j \in 1 .. Remote(q) : b = ChainOf[q][j]
    BY <2>2, ChainFacts DEF Range
  <2>5. i = j /\ ChainOf[p][i - 1] = ChainOf[q][j - 1]
    BY <1>6, <2>2, <2>4, SameBlock
  <2> QED
    BY <1>5, <2>3, <2>5
<1> QED
  BY <1>5, <1>6

LEMMA AppendMembers ==
  ASSUME NEW T, NEW seq \in Seq(T), NEW e \in T
  PROVE  Range(Append(seq, e)) = Range(seq) \cup {e}
<1>1. /\ DOMAIN Append(seq, e) = 1 .. Len(seq) + 1 /\ DOMAIN seq = 1 .. Len(seq)
      /\ Len(seq) \in Nat
      /\ \A i \in 1 .. Len(seq) : Append(seq, e)[i] = seq[i]
      /\ Append(seq, e)[Len(seq) + 1] = e
  OBVIOUS
<1>2. \A i : i \in 1 .. Len(seq) + 1 <=> i \in 1 .. Len(seq) \/ i = Len(seq) + 1
  BY <1>1
<1> QED
  BY <1>1, <1>2 DEF Range

-----------------------------------------------------------------------------
(* Only *)

OnlyTrace(trace, T, seq, S) ==
  /\ trace \in [0 .. Len(seq) -> Seq(T)]
  /\ trace[0] = <<>> /\ trace[Len(seq)] = Only(seq, S)
  /\ \A i \in 1 .. Len(seq) :
       trace[i] = IF seq[i] \in S THEN Append(trace[i - 1], seq[i]) ELSE trace[i - 1]

LEMMA OnlySteps ==
  ASSUME NEW T, NEW seq \in Seq(T), NEW S
  PROVE  \E trace : OnlyTrace(trace, T, seq, S)
<1> DEFINE n == Len(seq)
           Keep(kept, b) == IF b \in S THEN Append(kept, b) ELSE kept
           Rec(f) == [R \in SUBSET (1 .. n) |->
                        IF R = {} THEN <<>>
                        ELSE Keep(f[R \ {Max(R)}], seq[Max(R)])]
           h == CHOOSE f : f = Rec(f)
           g == [z \in Seq(T) \X (1 .. n) |-> Keep(z[1], seq[z[2]])]
<1>1. n \in Nat /\ DOMAIN seq = 1 .. n /\ \A i \in 1 .. n : seq[i] \in T
  OBVIOUS
<1>2. Only(seq, S) = h[1 .. n]
  BY <1>1 DEF Only, FoldLeft, MapThenFoldSet
<1> HIDE DEF n
<1>3. \A x \in Seq(T), i \in 1 .. n : Keep(x, seq[i]) \in Seq(T)
  BY <1>1
<1>4. g \in [Seq(T) \X (1 .. n) -> Seq(T)] /\ <<>> \in Seq(T)
  BY <1>3
<1>5. \E f : f = Rec(f)
  <2>1. PICK f : FoldSolution(f, Seq(T), n, <<>>, g)
    <3> HIDE DEF g
    <3> QED
      BY <1>1, <1>4, FoldExists
  <2>2. f = Rec(f)
    BY <2>1 DEF FoldSolution
  <2> QED
    BY <2>2
<1>6. h = Rec(h)
  BY <1>5
<1> HIDE DEF h
<1>7. FoldSteps(h, Seq(T), n, <<>>, g)
  <2>1. h[{}] = <<>>
    BY <1>6
  <2>2. ASSUME NEW R \in SUBSET (1 .. n), R # {}, h[R \ {Max(R)}] \in Seq(T)
        PROVE  h[R] = g[<<h[R \ {Max(R)}], Max(R)>>]
    <3>1. Max(R) \in 1 .. n
      BY <1>1, <2>2, MaxOfInterval
    <3>2. h[R] = Keep(h[R \ {Max(R)}], seq[Max(R)])
      BY <1>6, <2>2
    <3> HIDE DEF Max, Keep
    <3> QED
      BY <2>2, <3>1, <3>2
  <2> HIDE DEF g
  <2> QED
    BY <2>1, <2>2 DEF FoldSteps
<1> HIDE DEF g
<1>8. PICK trace : IsTrace(trace, Seq(T), n, <<>>, g, h[1 .. n])
  BY <1>1, <1>4, <1>7, FoldTrace
<1>9. /\ trace \in [0 .. n -> Seq(T)] /\ trace[0] = <<>>
      /\ trace[n] = Only(seq, S)
      /\ \A i \in 1 .. n : /\ trace[i] = g[<<trace[i - 1], i>>]
                           /\ <<trace[i - 1], i>> \in Seq(T) \X (1 .. n)
  <2>1. /\ trace \in [0 .. n -> Seq(T)] /\ trace[0] = <<>>
        /\ trace[n] = h[1 .. n]
        /\ \A i \in 1 .. n : trace[i] = g[<<trace[i - 1], i>>]
    BY <1>8 DEF IsTrace
  <2>2. ASSUME NEW i \in 1 .. n
        PROVE  <<trace[i - 1], i>> \in Seq(T) \X (1 .. n)
    <3>1. i - 1 \in 0 .. n
      BY <1>1, <2>2
    <3>2. trace[i - 1] \in Seq(T)
      BY <2>1, <3>1, Zenon
    <3> QED
      BY <2>2, <3>2, Zenon
  <2>3. trace[n] = Only(seq, S)
    BY <1>2, <2>1, Zenon
  <2> QED
    BY <2>1, <2>2, <2>3, Zenon
<1>10. \A i \in 1 .. n : trace[i] = Keep(trace[i - 1], seq[i])
  BY <1>9 DEF g
<1> QED
  BY <1>9, <1>10 DEF n, OnlyTrace

\* A filter that lets a stretch of the sequence pass returns that stretch.
LEMMA OnlyStretch ==
  ASSUME NEW T, NEW seq \in Seq(T), NEW S,
         NEW a \in 1 .. Len(seq) + 1, NEW b \in 0 .. Len(seq), a <= b + 1,
         \A i \in 1 .. Len(seq) : seq[i] \in S <=> i \in a .. b
  PROVE  /\ Only(seq, S) \in Seq(T) /\ Len(Only(seq, S)) = b - a + 1
         /\ \A i \in 1 .. b - a + 1 : Only(seq, S)[i] = seq[a + i - 1]
<1> DEFINE n == Len(seq)
           end(i) == IF i < a THEN a - 1 ELSE IF i > b THEN b ELSE i
           Is(t, e) == /\ t \in Seq(T) /\ Len(t) = e - a + 1
                       /\ \A k \in 1 .. e - a + 1 : t[k] = seq[a + k - 1]
<1>1. n \in Nat /\ \A i \in 1 .. n : seq[i] \in T
  OBVIOUS
<1>2. PICK trace : OnlyTrace(trace, T, seq, S)
  BY OnlySteps
<1> DEFINE R == {i \in 0 .. n : Is(trace[i], end(i))}
<1>3. 0 \in R
  <2>1. trace[0] = <<>> /\ end(0) = a - 1
    BY <1>2 DEF OnlyTrace
  <2>2. Is(<<>>, a - 1)
    OBVIOUS
  <2> HIDE DEF Is
  <2> QED
    BY <1>1, <2>1, <2>2
<1>4. ASSUME NEW i \in 1 .. n, i - 1 \in R
      PROVE  i \in R
  <2>1. /\ Is(trace[i - 1], end(i - 1)) /\ trace[i - 1] \in Seq(T)
        /\ trace[i] = IF i \in a .. b THEN Append(trace[i - 1], seq[i]) ELSE trace[i - 1]
    BY <1>2, <1>4 DEF OnlyTrace
  <2>2. CASE i \in a .. b
    <3>1. end(i) = i /\ end(i - 1) = i - 1
      BY <2>2
    <3>2. trace[i] = Append(trace[i - 1], seq[i]) /\ seq[i] \in T
      BY <1>1, <2>1, <2>2
    <3>3. Len(trace[i - 1]) = i - a /\ \A k \in 1 .. i - a : trace[i - 1][k] = seq[a + k - 1]
      <4>1. Is(trace[i - 1], i - 1)
        <5> HIDE DEF Is, end
        <5> QED
          BY <2>1, <3>1
      <4>2. (i - 1) - a + 1 = i - a
        OBVIOUS
      <4> HIDE DEF end
      <4> QED
        BY <4>1, <4>2
    <3>4. trace[i] \in Seq(T) /\ Len(trace[i]) = i - a + 1
      <4>1. trace[i - 1] \in Seq(T)
        BY <2>1
      <4> HIDE DEF Is, end
      <4> QED
        BY <3>2, <3>3, <4>1
    <3>5. \A k \in 1 .. i - a + 1 : trace[i][k] = seq[a + k - 1]
      <4>1. TAKE k \in 1 .. i - a + 1
      <4>2. k = i - a + 1 \/ k \in 1 .. i - a
        OBVIOUS
      <4>3. /\ trace[i][Len(trace[i - 1]) + 1] = seq[i]
            /\ \A l \in 1 .. Len(trace[i - 1]) : trace[i][l] = trace[i - 1][l]
        <5>1. trace[i - 1] \in Seq(T)
          BY <2>1
        <5> HIDE DEF Is, end
        <5> QED
          BY <3>2, <5>1
      <4>4. k \in 1 .. i - a => trace[i][k] = trace[i - 1][k]
        <5> HIDE DEF Is, end
        <5> QED
          BY <3>3, <4>3
      <4>5. k \in 1 .. i - a => trace[i - 1][k] = seq[a + k - 1]
        BY <3>3
      <4> HIDE DEF Is, end
      <4>6. CASE k \in 1 .. i - a
        BY <4>4, <4>5, <4>6
      <4>7. CASE k = i - a + 1
        <5>1. a + k - 1 = i
          BY <4>7
        <5>2. k = Len(trace[i - 1]) + 1
          BY <3>3, <4>7, Zenon
        <5>3. trace[i][k] = seq[i]
          BY <4>3, <5>2, Zenon
        <5> QED
          BY <5>1, <5>3, Zenon
      <4> QED
        BY <4>2, <4>6, <4>7
    <3>6. i \in 0 .. n /\ Is(trace[i], i)
      BY <3>4, <3>5
    <3> HIDE DEF Is, end
    <3> QED
      BY <3>1, <3>6
  <2>3. CASE i \notin a .. b
    <3>1. end(i) = end(i - 1) /\ trace[i] = trace[i - 1] /\ i \in 0 .. n
      BY <2>1, <2>3
    <3> HIDE DEF Is, end
    <3> QED
      BY <2>1, <3>1
  <2> QED
    BY <2>2, <2>3
<1>5. n \in R
  <2>1. \A i \in 0 .. n : i \in R
    <3> HIDE DEF R, n
    <3> QED
      BY <1>1, <1>3, <1>4, CountUp
  <2>2. n \in 0 .. n
    BY <1>1
  <2> QED
    BY <2>1, <2>2
<1>6. trace[n] = Only(seq, S) /\ end(n) = b
  BY <1>2 DEF OnlyTrace
<1>7. Is(Only(seq, S), b)
  <2>1. Is(trace[n], end(n))
    <3> HIDE DEF Is, end, n
    <3> QED
      BY <1>5
  <2> HIDE DEF Is, end, n
  <2> QED
    BY <1>6, <2>1
<1> QED
  BY <1>7

LEMMA OnlyMembers ==
  ASSUME NEW T, NEW seq \in Seq(T), NEW S
  PROVE  Only(seq, S) \in Seq(T) /\ Range(Only(seq, S)) = Range(seq) \cap S
<1> DEFINE n == Len(seq)
<1>1. n \in Nat /\ \A i \in 1 .. n : seq[i] \in T
  OBVIOUS
<1>2. PICK trace : OnlyTrace(trace, T, seq, S)
  BY OnlySteps
<1> DEFINE R == {i \in 0 .. n : Range(trace[i]) = {seq[k] : k \in 1 .. i} \cap S}
<1>3. 0 \in R
  <2>1. trace[0] = <<>>
    BY <1>2 DEF OnlyTrace
  <2>2. Range(<<>>) = {} /\ {seq[k] : k \in 1 .. 0} = {}
    BY DEF Range
  <2> QED
    BY <1>1, <2>1, <2>2
<1>4. ASSUME NEW i \in 1 .. n, i - 1 \in R
      PROVE  i \in R
  <2>1. /\ Range(trace[i - 1]) = {seq[k] : k \in 1 .. i - 1} \cap S
        /\ trace[i - 1] \in Seq(T) /\ seq[i] \in T
        /\ trace[i] = IF seq[i] \in S THEN Append(trace[i - 1], seq[i]) ELSE trace[i - 1]
    BY <1>1, <1>2, <1>4 DEF OnlyTrace
  <2>2. {seq[k] : k \in 1 .. i} = {seq[k] : k \in 1 .. i - 1} \cup {seq[i]}
    <3>1. \A k : k \in 1 .. i <=> k \in 1 .. i - 1 \/ k = i
      OBVIOUS
    <3> QED
      BY <3>1
  <2>3. seq[i] \in S => Range(trace[i]) = Range(trace[i - 1]) \cup {seq[i]}
    <3>1. Range(Append(trace[i - 1], seq[i])) = Range(trace[i - 1]) \cup {seq[i]}
      BY <2>1, AppendMembers
    <3> QED
      BY <2>1, <3>1
  <2>4. i \in 0 .. n
    OBVIOUS
  <2> QED
    BY <2>1, <2>2, <2>3, <2>4
<1>5. n \in R
  <2>1. \A i \in 0 .. n : i \in R
    <3> HIDE DEF R, n
    <3> QED
      BY <1>1, <1>3, <1>4, CountUp
  <2>2. n \in 0 .. n
    BY <1>1
  <2> QED
    BY <2>1, <2>2
<1>6. trace[n] = Only(seq, S) /\ trace[n] \in Seq(T)
  BY <1>1, <1>2 DEF OnlyTrace
<1>7. Range(seq) = {seq[k] : k \in 1 .. n}
  BY DEF Range
<1> QED
  BY <1>5, <1>6, <1>7

-----------------------------------------------------------------------------
(* The queue *)

Queues == [spans : UNION {[S -> Spans] : S \in SUBSET Nat},
           requested : SUBSET Blocks,
           have : UNION {[B -> Nat] : B \in SUBSET Blocks}]

SpanGood(s, span) ==
  /\ s > 0
  /\ \E q \in Peers : Stretch(q, s, span.hashes)
  /\ \E q \in Peers : Stretch(q, s, span.blocks)
  /\ Filled(span) => span.n = Len(span.blocks)
  /\ ~Filled(span) => span.n = Len(span.hashes)

RequestedGood(Q) ==
  \A b \in Q.requested : \E s \in Starts(Q) : b \in Range(Q.spans[s].hashes)

HaveGood(Q) ==
  \A b \in DOMAIN Q.have :
    /\ b \in Q.requested /\ Q.have[b] = HeightOf(b)
    /\ \E s \in FilledStarts(Q) : b \in Range(Q.spans[s].hashes)

QueueGood(Q) ==
  /\ Q \in Queues
  /\ \A s \in Starts(Q) : SpanGood(s, Q.spans[s])
  /\ RequestedGood(Q) /\ HaveGood(Q)

\* A scheduled span of another connection than p in Q2 was one in Q1.
NoneNew(p, Q1, Q2) ==
  \A s \in Starts(Q2) :
    ~Filled(Q2.spans[s]) /\ Q2.spans[s].owner # p =>
      /\ s \in Starts(Q1) /\ ~Filled(Q1.spans[s])
      /\ Q1.spans[s].owner = Q2.spans[s].owner

LEMMA QueueFields ==
  ASSUME NEW Q \in Queues
  PROVE  /\ Q = [spans |-> Q.spans, requested |-> Q.requested, have |-> Q.have]
         /\ Starts(Q) \in SUBSET Nat /\ Q.spans \in [Starts(Q) -> Spans]
         /\ Q.requested \in SUBSET Blocks
         /\ DOMAIN Q.have \in SUBSET Blocks /\ Q.have \in [DOMAIN Q.have -> Nat]
<1>1. PICK S \in SUBSET Nat : Q.spans \in [S -> Spans]
  BY DEF Queues
<1>2. PICK B \in SUBSET Blocks : Q.have \in [B -> Nat]
  BY DEF Queues
<1>3. S = DOMAIN Q.spans /\ B = DOMAIN Q.have
  BY <1>1, <1>2
<1> QED
  BY <1>1, <1>2, <1>3 DEF Queues, Starts

LEMMA QueueMade ==
  ASSUME NEW S \in SUBSET Nat, NEW spans \in [S -> Spans], NEW R \in SUBSET Blocks,
         NEW B \in SUBSET Blocks, NEW have \in [B -> Nat]
  PROVE  LET Q == [spans |-> spans, requested |-> R, have |-> have]
         IN /\ Q \in Queues /\ Starts(Q) = S
            /\ Q.spans = spans /\ Q.requested = R /\ Q.have = have
BY DEF Queues, Starts

LEMMA EraseIs ==
  ASSUME NEW Q \in Queues, NEW gone \in SUBSET Starts(Q)
  PROVE  LET R == Erase(Q, gone)
             hashes == UNION {Range(Q.spans[s].hashes) : s \in gone}
         IN /\ R \in Queues /\ Starts(R) = Starts(Q) \ gone
            /\ \A s \in Starts(R) : R.spans[s] = Q.spans[s]
            /\ R.requested = Q.requested \ hashes
            /\ DOMAIN R.have = DOMAIN Q.have \ hashes
            /\ \A b \in DOMAIN R.have : R.have[b] = Q.have[b]
<1> DEFINE hashes == UNION {Range(Q.spans[s].hashes) : s \in gone}
           spans == [s \in Starts(Q) \ gone |-> Q.spans[s]]
           have == [b \in DOMAIN Q.have \ hashes |-> Q.have[b]]
           R == [spans |-> spans, requested |-> Q.requested \ hashes, have |-> have]
<1>1. Erase(Q, gone) = R
  BY DEF Erase, Restrict
<1>2. /\ Starts(Q) \ gone \in SUBSET Nat /\ DOMAIN Q.have \ hashes \in SUBSET Blocks
      /\ Q.requested \ hashes \in SUBSET Blocks
  BY QueueFields
<1>3. spans \in [Starts(Q) \ gone -> Spans] /\ have \in [DOMAIN Q.have \ hashes -> Nat]
  BY QueueFields
<1>4. /\ R \in Queues /\ Starts(R) = Starts(Q) \ gone
      /\ R.spans = spans /\ R.requested = Q.requested \ hashes /\ R.have = have
  <2> HIDE DEF hashes, spans, have
  <2> QED
    BY <1>2, <1>3, QueueMade
<1> HIDE DEF R, hashes
<1>5. DOMAIN have = DOMAIN Q.have \ hashes
  OBVIOUS
<1> QED
  BY <1>1, <1>4, <1>5 DEF hashes

\* Erasing spans leaves a queue as good as it was.
LEMMA EraseGood ==
  ASSUME NEW Q, QueueGood(Q), NEW gone \in SUBSET Starts(Q)
  PROVE  /\ QueueGood(Erase(Q, gone))
         /\ Starts(Erase(Q, gone)) = Starts(Q) \ gone
         /\ \A s \in Starts(Q) \ gone : Erase(Q, gone).spans[s] = Q.spans[s]
<1> DEFINE R == Erase(Q, gone)
           hashes == UNION {Range(Q.spans[s].hashes) : s \in gone}
<1>1. Q \in Queues
  BY DEF QueueGood
<1>2. /\ R \in Queues /\ Starts(R) = Starts(Q) \ gone
      /\ \A s \in Starts(R) : R.spans[s] = Q.spans[s]
      /\ R.requested = Q.requested \ hashes
      /\ DOMAIN R.have = DOMAIN Q.have \ hashes
      /\ \A b \in DOMAIN R.have : R.have[b] = Q.have[b]
  BY <1>1, EraseIs
<1> HIDE DEF R
<1>3. \A s \in Starts(R) : SpanGood(s, R.spans[s])
  BY <1>2 DEF QueueGood
<1>4. ASSUME NEW b, b \notin hashes, NEW s \in Starts(Q), b \in Range(Q.spans[s].hashes)
      PROVE  s \in Starts(R)
  BY <1>2, <1>4
<1>5. RequestedGood(R)
  <2>1. SUFFICES ASSUME NEW b \in R.requested
                 PROVE  \E s \in Starts(R) : b \in Range(R.spans[s].hashes)
    BY DEF RequestedGood
  <2>2. b \in Q.requested /\ b \notin hashes
    BY <1>2
  <2>3. PICK s \in Starts(Q) : b \in Range(Q.spans[s].hashes)
    BY <2>2 DEF QueueGood, RequestedGood
  <2> QED
    BY <1>2, <1>4, <2>2, <2>3
<1>6. HaveGood(R)
  <2>1. SUFFICES ASSUME NEW b \in DOMAIN R.have
                 PROVE  /\ b \in R.requested /\ R.have[b] = HeightOf(b)
                        /\ \E s \in FilledStarts(R) : b \in Range(R.spans[s].hashes)
    BY DEF HaveGood
  <2>2. b \in DOMAIN Q.have /\ b \notin hashes /\ R.have[b] = Q.have[b]
    BY <1>2
  <2>3. b \in Q.requested /\ Q.have[b] = HeightOf(b)
    BY <2>2 DEF QueueGood, HaveGood
  <2>4. PICK s \in FilledStarts(Q) : b \in Range(Q.spans[s].hashes)
    BY <2>2 DEF QueueGood, HaveGood
  <2>5. s \in Starts(R) /\ R.spans[s] = Q.spans[s]
    BY <1>2, <1>4, <2>2, <2>4 DEF FilledStarts
  <2>6. s \in FilledStarts(R)
    BY <2>4, <2>5 DEF FilledStarts
  <2> QED
    BY <1>2, <2>2, <2>3, <2>4, <2>5, <2>6
<1> QED
  BY <1>2, <1>3, <1>5, <1>6 DEF QueueGood, R

\* R is Q with a span in the place of the one that starts there, if any, and
\* the marks of its hashes instead of old ones.
Put(Q, start, span, old, R) ==
  /\ R \in Queues /\ Starts(R) = Starts(Q) \cup {start} /\ R.spans[start] = span
  /\ \A s \in Starts(Q) : s # start => R.spans[s] = Q.spans[s]
  /\ start \in Starts(Q) => Range(Q.spans[start].hashes) \subseteq old
  /\ R.requested = (Q.requested \ old) \cup Range(span.hashes)
  /\ \A b \in DOMAIN R.have :
       \/ b \in DOMAIN Q.have \ old /\ R.have[b] = Q.have[b]
       \/ Filled(span) /\ b \in Range(span.hashes) /\ R.have[b] = HeightOf(b)

LEMMA PutGood ==
  ASSUME NEW Q, NEW start \in Nat, NEW span, NEW old, NEW R,
         QueueGood(Q), SpanGood(start, span), Put(Q, start, span, old, R)
  PROVE  QueueGood(R)
<1>0. /\ R \in Queues /\ Starts(R) = Starts(Q) \cup {start} /\ R.spans[start] = span
      /\ \A s \in Starts(Q) : s # start => R.spans[s] = Q.spans[s]
      /\ start \in Starts(Q) => Range(Q.spans[start].hashes) \subseteq old
      /\ R.requested = (Q.requested \ old) \cup Range(span.hashes)
      /\ \A b \in DOMAIN R.have :
           \/ b \in DOMAIN Q.have \ old /\ R.have[b] = Q.have[b]
           \/ Filled(span) /\ b \in Range(span.hashes) /\ R.have[b] = HeightOf(b)
  BY DEF Put
<1>1. \A s \in Starts(R) : SpanGood(s, R.spans[s])
  BY <1>0 DEF QueueGood
<1>2. ASSUME NEW b, b \notin old, NEW s \in Starts(Q), b \in Range(Q.spans[s].hashes)
      PROVE  s \in Starts(R) /\ R.spans[s] = Q.spans[s]
  <2>1. s # start
    BY <1>0, <1>2
  <2> QED
    BY <1>0, <2>1
<1>3. RequestedGood(R)
  <2>1. SUFFICES ASSUME NEW b \in R.requested
                 PROVE  \E s \in Starts(R) : b \in Range(R.spans[s].hashes)
    BY DEF RequestedGood
  <2>2. CASE b \in Range(span.hashes)
    BY <1>0, <2>2
  <2>3. CASE b \in Q.requested /\ b \notin old
    <3>1. PICK s \in Starts(Q) : b \in Range(Q.spans[s].hashes)
      BY <2>3 DEF QueueGood, RequestedGood
    <3> QED
      BY <1>2, <2>3, <3>1
  <2> QED
    BY <1>0, <2>2, <2>3
<1>4. HaveGood(R)
  <2>1. SUFFICES ASSUME NEW b \in DOMAIN R.have
                 PROVE  /\ b \in R.requested /\ R.have[b] = HeightOf(b)
                        /\ \E s \in FilledStarts(R) : b \in Range(R.spans[s].hashes)
    BY DEF HaveGood
  <2>2. CASE Filled(span) /\ b \in Range(span.hashes) /\ R.have[b] = HeightOf(b)
    <3>1. start \in FilledStarts(R)
      BY <1>0, <2>2 DEF FilledStarts
    <3> QED
      BY <1>0, <2>2, <3>1
  <2>3. CASE b \in DOMAIN Q.have \ old /\ R.have[b] = Q.have[b]
    <3>1. b \in Q.requested /\ Q.have[b] = HeightOf(b)
      BY <2>3 DEF QueueGood, HaveGood
    <3>2. PICK s \in FilledStarts(Q) : b \in Range(Q.spans[s].hashes)
      BY <2>3 DEF QueueGood, HaveGood
    <3>3. s \in Starts(R) /\ R.spans[s] = Q.spans[s]
      BY <1>2, <2>3, <3>2 DEF FilledStarts
    <3>4. s \in FilledStarts(R)
      BY <3>2, <3>3 DEF FilledStarts
    <3> QED
      BY <1>0, <2>3, <3>1, <3>2, <3>3, <3>4
  <2> QED
    BY <1>0, <2>2, <2>3
<1> QED
  BY <1>0, <1>1, <1>3, <1>4 DEF QueueGood

LEMMA InsertIs ==
  ASSUME NEW Q \in Queues, NEW start \in Nat, NEW span \in Spans
  PROVE  LET R == Insert(Q, start, span)
         IN /\ R \in Queues /\ Starts(R) = Starts(Q) \cup {start}
            /\ \A s \in Starts(Q) : R.spans[s] = Q.spans[s]
            /\ start \notin Starts(Q) => R.spans[start] = span
            /\ R.requested = Q.requested /\ R.have = Q.have
            /\ start \in Starts(Q) => R = Q
<1> DEFINE R == Insert(Q, start, span)
           spans == [s \in Starts(Q) \cup {start} |-> IF s \in Starts(Q) THEN Q.spans[s] ELSE span]
<1>0. /\ Starts(Q) \in SUBSET Nat /\ Q.spans \in [Starts(Q) -> Spans]
      /\ Q.requested \in SUBSET Blocks
      /\ DOMAIN Q.have \in SUBSET Blocks /\ Q.have \in [DOMAIN Q.have -> Nat]
  BY QueueFields
<1>1. R = [spans |-> spans, requested |-> Q.requested, have |-> Q.have]
  <2>1. R = [Q EXCEPT !.spans = spans]
    BY DEF Insert
  <2> HIDE DEF spans
  <2> QED
    BY <2>1, QueueFields DEF Queues
<1>2. spans \in [Starts(Q) \cup {start} -> Spans] /\ Starts(Q) \cup {start} \in SUBSET Nat
  BY <1>0
<1>3. /\ R \in Queues /\ Starts(R) = Starts(Q) \cup {start}
      /\ R.spans = spans /\ R.requested = Q.requested /\ R.have = Q.have
  <2> HIDE DEF spans
  <2> QED
    BY <1>0, <1>1, <1>2, QueueMade
<1>4. start \in Starts(Q) => R = Q
  <2>1. start \in Starts(Q) => spans = Q.spans
    BY <1>0
  <2> HIDE DEF spans, R
  <2> QED
    BY <1>1, <2>1, QueueFields
<1> HIDE DEF R
<1> QED
  BY <1>3, <1>4 DEF R

LEMMA WithRequested ==
  ASSUME NEW Q \in Queues, NEW T \in SUBSET Blocks
  PROVE  LET R == [Q EXCEPT !.requested = T]
         IN /\ R \in Queues /\ Starts(R) = Starts(Q) /\ R.spans = Q.spans
            /\ R.requested = T /\ R.have = Q.have
BY DEF Queues, Starts

Marked(Q, T, have) == [Q EXCEPT !.requested = T, !.have = have]

LEMMA WithMarks ==
  ASSUME NEW Q \in Queues, NEW T \in SUBSET Blocks,
         NEW B \in SUBSET Blocks, NEW have \in [B -> Nat]
  PROVE  LET R == Marked(Q, T, have)
         IN /\ R \in Queues /\ Starts(R) = Starts(Q) /\ R.spans = Q.spans
            /\ R.requested = T /\ R.have = have
<1>1. have \in UNION {[C -> Nat] : C \in SUBSET Blocks}
  OBVIOUS
<1> QED
  BY <1>1 DEF Queues, Starts, Marked

\* A span that no other owner has touched gets hashes.
LEMMA SetSpanHashesIs ==
  ASSUME NEW Q \in Queues, NEW start \in Starts(Q), NEW owner, NEW hashes \in Seq(Blocks),
         Q.spans[start].owner = owner
  PROVE  LET R == SetSpanHashes(Q, start, owner, hashes)
             old == Range(Q.spans[start].hashes)
         IN /\ R \in Queues /\ Starts(R) = Starts(Q)
            /\ \A s \in Starts(Q) : s # start => R.spans[s] = Q.spans[s]
            /\ R.spans[start] = [Q.spans[start] EXCEPT !.hashes = hashes]
            /\ R.requested = (Q.requested \ old) \cup Range(hashes)
            /\ DOMAIN R.have = DOMAIN Q.have \ old
            /\ \A b \in DOMAIN R.have : R.have[b] = Q.have[b]
<1> DEFINE span == [Q.spans[start] EXCEPT !.hashes = hashes]
           old == Range(Q.spans[start].hashes)
           E == Erase(Q, {start})
           I == Insert(E, start, span)
           R == [I EXCEPT !.requested = @ \cup Range(hashes)]
<1>1. SetSpanHashes(Q, start, owner, hashes) = R
  BY DEF SetSpanHashes
<1>2. Q.spans[start] \in Spans /\ start \in Nat
  BY QueueFields
<1>3. span \in Spans
  BY <1>2 DEF Spans
<1>4. UNION {Range(Q.spans[s].hashes) : s \in {start}} = old
  OBVIOUS
<1>5. /\ E \in Queues /\ Starts(E) = Starts(Q) \ {start}
      /\ \A s \in Starts(E) : E.spans[s] = Q.spans[s]
      /\ E.requested = Q.requested \ old
      /\ DOMAIN E.have = DOMAIN Q.have \ old
      /\ \A b \in DOMAIN E.have : E.have[b] = Q.have[b]
  <2> HIDE DEF E, old
  <2>1. {start} \in SUBSET Starts(Q)
    OBVIOUS
  <2> QED
    BY <1>4, <2>1, EraseIs DEF E
<1> HIDE DEF E, span, old
<1>6. /\ I \in Queues /\ Starts(I) = Starts(E) \cup {start}
      /\ \A s \in Starts(E) : I.spans[s] = E.spans[s]
      /\ start \notin Starts(E) => I.spans[start] = span
      /\ I.requested = E.requested /\ I.have = E.have
  BY <1>2, <1>3, <1>5, InsertIs
<1>7. Range(hashes) \in SUBSET Blocks
  BY DEF Range
<1> HIDE DEF I
<1>8. I.requested \in SUBSET Blocks
  BY <1>6, QueueFields
<1>10. I.requested \cup Range(hashes) \in SUBSET Blocks
  BY <1>7, <1>8
<1>11. /\ R \in Queues /\ Starts(R) = Starts(I) /\ R.spans = I.spans
       /\ R.requested = I.requested \cup Range(hashes) /\ R.have = I.have
  BY <1>6, <1>10, WithRequested
<1> HIDE DEF R
<1> QED
  BY <1>1, <1>5, <1>6, <1>11 DEF span, old

LEMMA StretchFacts ==
  ASSUME NEW q \in Peers, NEW h \in Nat, NEW bs \in Seq(Blocks), Stretch(q, h, bs)
  PROVE  \A i \in 1 .. Len(bs) :
           /\ h + i \in 1 .. Remote(q) /\ bs[i] = ChainOf[q][h + i]
           /\ HeightOf(bs[i]) = h + i - 1
           /\ h + i > 1 => Parent(bs[i]) = ChainOf[q][h + i - 1]
<1>1. TAKE i \in 1 .. Len(bs)
<1>2. h + i \in 1 .. Remote(q) /\ bs[i] = ChainOf[q][h + i]
  BY ChainFacts DEF Stretch
<1>3. HeightOf(bs[i]) = h + i - 1 /\ (h + i > 1 => Parent(bs[i]) = ChainOf[q][h + i - 1])
  BY <1>2, HeightFacts
<1> QED
  BY <1>2, <1>3

LEMMA SeqFacts ==
  ASSUME NEW T, NEW seq \in Seq(T)
  PROVE  /\ Range(seq) = {seq[i] : i \in 1 .. Len(seq)} /\ Len(seq) \in Nat
         /\ DOMAIN seq = 1 .. Len(seq) /\ \A i \in 1 .. Len(seq) : seq[i] \in T
         /\ Range(seq) \in SUBSET T
         /\ seq # <<>> => Len(seq) > 0 /\ Head(seq) = seq[1] /\ seq[1] \in T
         /\ seq = <<>> => Len(seq) = 0 /\ Range(seq) = {}
BY DEF Range

LEMMA EmptyStretch ==
  ASSUME NEW h \in Nat
  PROVE  <<>> \in Seq(Blocks) /\ \E q \in Peers : Stretch(q, h, <<>>)
<1>1. \A q \in Peers : Stretch(q, h, <<>>)
  BY DEF Stretch
<1> QED
  BY <1>1, ChainFacts

LEMMA EmptyRange == Range(<<>>) = {}
BY DEF Range

LEMMA NewSpan ==
  ASSUME NEW p \in Peers, NEW n \in Nat \ {0}
  PROVE  /\ Scheduled(p, n) \in Spans /\ ~Filled(Scheduled(p, n))
         /\ Scheduled(p, n).owner = p /\ Scheduled(p, n).n = n
         /\ Scheduled(p, n).blocks = <<>> /\ Scheduled(p, n).hashes = <<>>
         /\ \A blocks \in Seq(Blocks) :
            LET span == [Scheduled(p, n) EXCEPT !.blocks = blocks]
            IN /\ span \in Spans /\ span.owner = p /\ span.n = n
               /\ span.blocks = blocks /\ span.hashes = <<>>
<1>1. <<>> \in Seq(Blocks) /\ p \in Peers \cup {None}
  OBVIOUS
<1>2. Scheduled(p, n) \in Spans
  BY <1>1 DEF Scheduled, Spans
<1>3. Scheduled(p, n).owner = p /\ Scheduled(p, n).n = n /\ Scheduled(p, n).hashes = <<>>
      /\ Scheduled(p, n).blocks = <<>>
  BY DEF Scheduled
<1> QED
  BY <1>2, <1>3 DEF Filled, Spans

LEMMA SpanWithHashes ==
  ASSUME NEW span \in Spans, NEW hashes \in Seq(Blocks)
  PROVE  LET with == [span EXCEPT !.hashes = hashes]
         IN /\ with \in Spans /\ with.owner = span.owner /\ with.n = span.n
            /\ with.blocks = span.blocks /\ with.hashes = hashes
BY DEF Spans

\* Blocks that a connection may get, from height start on.
Download(start, blocks) ==
  /\ start \in Nat /\ start > 0 /\ blocks \in Seq(Blocks) /\ blocks # <<>>
  /\ \E q \in Peers : Stretch(q, start, blocks)

\* A download leaves a good queue, whatever it replaces.
LEMMA AddBlocksGood ==
  ASSUME NEW Q, NEW start, NEW blocks, NEW p \in Peers,
         QueueGood(Q), Download(start, blocks)
  PROVE  LET R == AddBlocks(Q, start, blocks, p)
         IN /\ QueueGood(R) /\ Starts(R) = Starts(Q) \cup {start}
            /\ \A s \in Starts(Q) : s # start => R.spans[s] = Q.spans[s]
            /\ R.spans[start].blocks = blocks
<1> DEFINE span == [Scheduled(p, Len(blocks)) EXCEPT !.blocks = blocks]
           gone == {start} \cap Starts(Q)
           E == Erase(Q, gone)
           I == Insert(E, start, span)
           Out == AddBlocks(Q, start, blocks, p)
<1>0. /\ start \in Nat /\ start > 0 /\ blocks \in Seq(Blocks) /\ blocks # <<>>
      /\ \E q \in Peers : Stretch(q, start, blocks)
  BY DEF Download
<1>1. Len(blocks) \in Nat \ {0}
  BY <1>0, SeqFacts
<1>2. /\ span \in Spans /\ span.owner = p /\ span.n = Len(blocks)
      /\ span.blocks = blocks /\ span.hashes = <<>> /\ Filled(span)
  BY <1>0, <1>1, NewSpan DEF Filled
<1> HIDE DEF span
<1>3. Q \in Queues /\ gone \in SUBSET Starts(Q)
  BY DEF QueueGood
<1> DEFINE lost == UNION {Range(Q.spans[s].hashes) : s \in gone}
<1>4. /\ E \in Queues /\ Starts(E) = Starts(Q) \ gone
      /\ \A s \in Starts(E) : E.spans[s] = Q.spans[s]
      /\ E.requested = Q.requested \ lost
      /\ DOMAIN E.have = DOMAIN Q.have \ lost
      /\ \A b \in DOMAIN E.have : E.have[b] = Q.have[b]
  <2> HIDE DEF gone
  <2> QED
    BY <1>3, EraseIs
<1> HIDE DEF E
<1>5. /\ I \in Queues /\ Starts(I) = Starts(Q) \cup {start}
      /\ \A s \in Starts(Q) : s # start => I.spans[s] = Q.spans[s]
      /\ I.spans[start] = span
      /\ I.requested = E.requested /\ I.have = E.have
  <2>1. /\ I \in Queues /\ Starts(I) = Starts(E) \cup {start}
        /\ \A s \in Starts(E) : I.spans[s] = E.spans[s]
        /\ start \notin Starts(E) => I.spans[start] = span
        /\ I.requested = E.requested /\ I.have = E.have
    <3>1. E \in Queues /\ start \in Nat /\ span \in Spans
      BY <1>0, <1>2, <1>4
    <3> QED
      BY <3>1, InsertIs
  <2> QED
    BY <1>4, <2>1
<1> HIDE DEF I
<1>6. CASE start \notin Starts(Q)
  <2>1. Out = I /\ gone = {} /\ lost = {}
    BY <1>6 DEF AddBlocks, I, E, span
  <2>2. SpanGood(start, span) /\ Range(span.hashes) = {}
    BY <1>0, <1>2, EmptyStretch, EmptyRange DEF SpanGood
  <2> HIDE DEF Out, lost, gone
  <2>3. /\ I.requested = Q.requested /\ DOMAIN I.have = DOMAIN Q.have
        /\ \A b \in DOMAIN I.have : I.have[b] = Q.have[b]
    BY <1>4, <1>5, <2>1
  <2>4. Put(Q, start, span, {}, I)
    BY <1>5, <1>6, <2>2, <2>3 DEF Put
  <2>5. QueueGood(I)
    BY <1>0, <2>2, <2>4, PutGood
  <2> QED
    BY <1>2, <1>5, <2>1, <2>5 DEF Out
<1>7. CASE start \in Starts(Q)
  <2> DEFINE theirs == Q.spans[start].hashes
             Place(b) == start - 1 + CHOOSE i \in DOMAIN theirs : theirs[i] = b
             marks == [b \in DOMAIN I.have \cup Range(theirs) |->
                        IF b \in DOMAIN I.have THEN I.have[b] ELSE Place(b)]
             req == I.requested \cup Range(theirs)
             M == Marked(I, req, marks)
  <2>1. Out = SetSpanHashes(M, start, p, theirs) /\ gone = {start}
    BY <1>7 DEF AddBlocks, I, E, span, Marked
  <2>2. lost = Range(theirs)
    BY <2>1
  <2>3. Q.spans[start] \in Spans /\ SpanGood(start, Q.spans[start])
    BY <1>3, <1>7, QueueFields DEF QueueGood
  <2>4. theirs \in Seq(Blocks) /\ \E q \in Peers : Stretch(q, start, theirs)
    BY <2>3 DEF Spans, SpanGood
  <2> HIDE DEF Out, lost, gone, theirs
  <2>5. \A b \in Range(theirs) : Place(b) = HeightOf(b) /\ Place(b) \in Nat
    <3>1. TAKE b \in Range(theirs)
    <3>2. PICK q \in Peers : Stretch(q, start, theirs)
      BY <2>4
    <3> DEFINE j == CHOOSE i \in DOMAIN theirs : theirs[i] = b
    <3>3. j \in DOMAIN theirs /\ theirs[j] = b
      BY DEF Range
    <3> HIDE DEF j
    <3>4. j \in 1 .. Len(theirs)
      BY <2>4, <3>3
    <3>5. HeightOf(theirs[j]) = start + j - 1
      BY <1>0, <2>4, <3>2, <3>4, StretchFacts
    <3>6. start + j - 1 = start - 1 + j /\ start - 1 + j \in Nat
      BY <1>0, <3>4
    <3> QED
      BY <3>3, <3>5, <3>6 DEF j
  <2>6. /\ Range(theirs) \in SUBSET Blocks /\ I.requested \in SUBSET Blocks
        /\ DOMAIN I.have \in SUBSET Blocks /\ I.have \in [DOMAIN I.have -> Nat]
    BY <1>5, <2>4, SeqFacts, QueueFields
  <2> HIDE DEF Place
  <2>7. marks \in [DOMAIN I.have \cup Range(theirs) -> Nat]
    BY <2>5, <2>6
  <2>8. /\ M \in Queues /\ Starts(M) = Starts(I) /\ M.spans = I.spans
        /\ M.requested = I.requested \cup Range(theirs) /\ M.have = marks
    <3> DEFINE places == DOMAIN I.have \cup Range(theirs)
    <3>1. req \in SUBSET Blocks /\ places \in SUBSET Blocks
      BY <2>6
    <3>2. marks \in [places -> Nat] /\ I \in Queues
      BY <1>5, <2>7
    <3> HIDE DEF marks, req, places
    <3>3. /\ M \in Queues /\ Starts(M) = Starts(I) /\ M.spans = I.spans
          /\ M.requested = req /\ M.have = marks
      BY <3>1, <3>2, WithMarks
    <3> QED
      BY <3>3 DEF req
  <2> HIDE DEF M
  <2>9. M.spans[start] = span /\ start \in Starts(M) /\ Range(span.hashes) = {}
    BY <1>2, <1>5, <2>8, EmptyRange
  <2> DEFINE with == [span EXCEPT !.hashes = theirs]
  <2>10. /\ Out \in Queues /\ Starts(Out) = Starts(M)
         /\ \A s \in Starts(M) : s # start => Out.spans[s] = M.spans[s]
         /\ Out.spans[start] = with
         /\ Out.requested = M.requested \cup Range(theirs)
         /\ DOMAIN Out.have = DOMAIN M.have
         /\ \A b \in DOMAIN Out.have : Out.have[b] = M.have[b]
    <3> HIDE DEF with
    <3>1. M.spans[start].owner = p
      BY <1>2, <2>9
    <3>2. /\ Out \in Queues /\ Starts(Out) = Starts(M)
          /\ \A s \in Starts(M) : s # start => Out.spans[s] = M.spans[s]
          /\ Out.spans[start] = [M.spans[start] EXCEPT !.hashes = theirs]
          /\ Out.requested = (M.requested \ Range(M.spans[start].hashes)) \cup Range(theirs)
          /\ DOMAIN Out.have = DOMAIN M.have \ Range(M.spans[start].hashes)
          /\ \A b \in DOMAIN Out.have : Out.have[b] = M.have[b]
      <4>1. M \in Queues /\ start \in Starts(M) /\ theirs \in Seq(Blocks)
        BY <2>4, <2>8, <2>9
      <4> QED
        BY <2>1, <3>1, <4>1, SetSpanHashesIs
    <3> QED
      BY <2>9, <3>2 DEF with
  <2>11. /\ with \in Spans /\ with.owner = p /\ with.n = Len(blocks)
         /\ with.blocks = blocks /\ with.hashes = theirs
    BY <1>2, <2>4, SpanWithHashes
  <2> HIDE DEF with
  <2>12. SpanGood(start, with) /\ Filled(with)
    BY <1>0, <1>2, <2>4, <2>11 DEF SpanGood, Filled
  <2>13. /\ Out.requested = (Q.requested \ lost) \cup Range(theirs)
         /\ DOMAIN Out.have = (DOMAIN Q.have \ lost) \cup Range(theirs)
         /\ \A b \in DOMAIN Out.have : Out.have[b] = IF b \in DOMAIN Q.have \ lost THEN Q.have[b] ELSE Place(b)
    <3>1. DOMAIN M.have = DOMAIN I.have \cup Range(theirs) /\ DOMAIN I.have = DOMAIN Q.have \ lost
      BY <1>4, <1>5, <2>8
    <3>2. \A b \in DOMAIN M.have : M.have[b] = IF b \in DOMAIN I.have THEN I.have[b] ELSE Place(b)
      BY <2>8
    <3>3. \A b \in DOMAIN I.have : I.have[b] = Q.have[b]
      BY <1>4, <1>5
    <3>4. Out.requested = (Q.requested \ lost) \cup Range(theirs)
      BY <1>4, <1>5, <2>8, <2>10
    <3> QED
      BY <2>10, <3>1, <3>2, <3>3, <3>4
  <2>14. \A b \in DOMAIN Out.have :
           \/ b \in DOMAIN Q.have \ lost /\ Out.have[b] = Q.have[b]
           \/ Filled(with) /\ b \in Range(with.hashes) /\ Out.have[b] = HeightOf(b)
    BY <2>5, <2>11, <2>12, <2>13
  <2>15. /\ Starts(Out) = Starts(Q) \cup {start}
         /\ \A s \in Starts(Q) : s # start => Out.spans[s] = Q.spans[s]
    BY <1>5, <2>8, <2>10
  <2>16. Put(Q, start, with, lost, Out)
    BY <2>2, <2>10, <2>11, <2>13, <2>14, <2>15 DEF Put, theirs
  <2>17. QueueGood(Out)
    BY <1>0, <2>12, <2>16, PutGood
  <2> QED
    BY <2>10, <2>11, <2>15, <2>17 DEF Out
<1> QED
  BY <1>6, <1>7

LEMMA SubStretch ==
  ASSUME NEW q \in Peers, NEW h \in Nat, NEW bs \in Seq(Blocks), Stretch(q, h, bs),
         NEW a \in 1 .. Len(bs) + 1, NEW b \in 0 .. Len(bs), a <= b + 1
  PROVE  LET piece == SubSeq(bs, a, b)
         IN /\ piece \in Seq(Blocks) /\ Len(piece) = b - a + 1
            /\ \A i \in 1 .. b - a + 1 : piece[i] = bs[a + i - 1]
            /\ Stretch(q, h + a - 1, piece)
<1> DEFINE piece == SubSeq(bs, a, b)
<1>1. /\ Len(bs) \in Nat /\ \A i \in 1 .. Len(bs) : bs[i] \in Blocks
      /\ \A i \in 1 .. Len(bs) : h + i <= Remote(q) /\ bs[i] = ChainOf[q][h + i]
  BY SeqFacts DEF Stretch
<1>2. /\ piece \in Seq(Blocks) /\ Len(piece) = b - a + 1
      /\ \A i \in 1 .. b - a + 1 : piece[i] = bs[a + i - 1]
  <2>1. \A i \in a .. b : bs[i] \in Blocks
    BY <1>1
  <2>2. a \in Int /\ b \in Int /\ Len(bs) \in Nat
    BY <1>1
  <2>3. Len(piece) = b - a + 1 /\ \A i \in 1 .. b - a + 1 : piece[i] = bs[a + i - 1]
    BY <1>1, <2>2
  <2>4. piece \in Seq(Blocks)
    <3>1. \A i \in a .. b : i \in 1 .. Len(bs)
      BY <2>2
    <3>2. piece = [i \in 1 .. b - a + 1 |-> bs[a + i - 1]] /\ b - a + 1 \in Nat
      BY <2>2
    <3>3. \A i \in 1 .. b - a + 1 : bs[a + i - 1] \in Blocks
      <4>1. \A i \in 1 .. b - a + 1 : a + i - 1 \in a .. b
        BY <2>2
      <4> QED
        BY <2>1, <4>1, Zenon
    <3> HIDE DEF piece
    <3> QED
      BY <3>2, <3>3
  <2> QED
    BY <2>3, <2>4, Zenon
<1> HIDE DEF piece
<1>3. \A i \in 1 .. Len(piece) :
        h + a - 1 + i <= Remote(q) /\ piece[i] = ChainOf[q][h + a - 1 + i]
  <2>1. TAKE i \in 1 .. Len(piece)
  <2>2. i \in 1 .. b - a + 1 /\ a + i - 1 \in 1 .. Len(bs) /\ h + a - 1 + i = h + (a + i - 1)
    BY <1>1, <1>2
  <2> QED
    BY <1>1, <1>2, <2>2
<1> QED
  BY <1>2, <1>3 DEF Stretch, piece

\* What a connection p reserves, of the hashes that it needs up to height last.
Reserves(p, last, needed, Q) ==
  /\ last \in Nat /\ needed \in Seq(Blocks) /\ QueueGood(Q)
  /\ needed # <<>> => /\ last + 1 - Len(needed) > 0
                      /\ Stretch(p, last + 1 - Len(needed), needed)
                      /\ \A s \in Starts(Q) :
                           Q.spans[s].owner = p /\ ~Filled(Q.spans[s]) =>
                             s < last + 1 - Len(needed)

\* Scheduled spans of Q2 are some of Q1 and maybe one of p, at start.
OneNew(p, start, Q1, Q2) ==
  \A s \in Starts(Q2) :
    ~Filled(Q2.spans[s]) =>
      \/ s = start /\ Q2.spans[s].owner = p
      \/ /\ s \in Starts(Q1) /\ ~Filled(Q1.spans[s])
         /\ Q1.spans[s].owner = Q2.spans[s].owner

LEMMA MinOfTwo ==
  ASSUME NEW a \in Nat, NEW b \in Nat
  PROVE  Min({a, b}) \in {a, b} /\ Min({a, b}) <= a /\ Min({a, b}) <= b
<1>1. \E x \in {a, b} : \A y \in {a, b} : x <= y
  BY SMT
<1>2. Min({a, b}) \in {a, b} /\ \A y \in {a, b} : Min({a, b}) <= y
  BY <1>1 DEF Min
<1> QED
  BY <1>2

\* The first hash that nobody has reserved, and how many follow.
LEMMA FirstFree ==
  ASSUME NEW needed \in Seq(Blocks), NEW marked,
         LET free == {i \in DOMAIN needed : needed[i] \notin marked}
         IN free # {}
  PROVE  LET free == {i \in DOMAIN needed : needed[i] \notin marked}
             first == Min(free)
             n == Min({SpanSize, Len(needed) - first + 1})
         IN /\ first \in 1 .. Len(needed) /\ n \in 1 .. Len(needed) - first + 1
            /\ n \in Nat \ {0} /\ Len(needed) \in Nat
<1> DEFINE free == {i \in DOMAIN needed : needed[i] \notin marked}
           first == Min(free)
           n == Min({SpanSize, Len(needed) - first + 1})
<1>1. free \in SUBSET (1 .. Len(needed)) /\ Len(needed) \in Nat /\ free # {} /\ free \in SUBSET Nat
  OBVIOUS
<1> HIDE DEF free
<1>2. first \in free
  <2>1. \E i \in free : \A j \in free : i <= j
    BY <1>1, LeastNat
  <2> QED
    BY <2>1 DEF Min
<1> HIDE DEF first
<1>3. first \in 1 .. Len(needed) /\ Len(needed) - first + 1 \in Nat /\ Len(needed) - first + 1 > 0
  BY <1>1, <1>2
<1>4. SpanSize \in Nat /\ SpanSize > 0
  BY ChainFacts
<1>5. /\ n \in {SpanSize, Len(needed) - first + 1}
      /\ n <= SpanSize /\ n <= Len(needed) - first + 1
  BY <1>3, <1>4, MinOfTwo
<1> HIDE DEF n
<1>6. first \in 1 .. Len(needed) /\ n \in 1 .. Len(needed) - first + 1
      /\ n \in Nat \ {0} /\ Len(needed) \in Nat
  BY <1>1, <1>3, <1>4, <1>5
<1> QED
  BY <1>6 DEF n, first, free

LEMMA ReserveNone ==
  ASSUME NEW p \in Peers, NEW last, NEW needed, NEW Q, Reserves(p, last, needed, Q),
         ~(ReserveSpan(Q, last, SpanSize, p, needed).n > 0)
  PROVE  Range(needed) \subseteq Q.requested
<1> DEFINE free == {i \in DOMAIN needed : needed[i] \notin Q.requested}
           first == Min(free)
           n == Min({SpanSize, Len(needed) - first + 1})
<1>1. needed \in Seq(Blocks)
  BY DEF Reserves
<1>2. CASE free = {}
  BY <1>1, <1>2 DEF Range
<1>3. CASE free # {}
  <2>1. n \in Nat \ {0}
    BY <1>1, <1>3, FirstFree
  <2>2. ReserveSpan(Q, last, SpanSize, p, needed).n = n
    BY <1>3 DEF ReserveSpan
  <2> HIDE DEF n
  <2> QED
    BY <2>1, <2>2
<1> QED
  BY <1>2, <1>3

\* A reservation leaves a good queue, with at most one new scheduled span.
LEMMA ReserveGood ==
  ASSUME NEW p \in Peers, NEW last, NEW needed, NEW Q, Reserves(p, last, needed, Q),
         ReserveSpan(Q, last, SpanSize, p, needed).n > 0
  PROVE  LET span == ReserveSpan(Q, last, SpanSize, p, needed)
             first == span.start - (last - Len(needed))
         IN /\ first \in 1 .. Len(needed) /\ span.n \in 1 .. Len(needed) - first + 1
            /\ span.start \in Nat /\ span.start > 0
            /\ QueueGood(span.queue) /\ OneNew(p, span.start, Q, span.queue)
<1> DEFINE free == {i \in DOMAIN needed : needed[i] \notin Q.requested}
           one == Min(free)
           n == Min({SpanSize, Len(needed) - one + 1})
           start == last - Len(needed) + one
           I == Insert(Q, start, Scheduled(p, n))
           piece == SubSeq(needed, one, one + n - 1)
           Out == SetSpanHashes(I, start, p, piece)
           span == ReserveSpan(Q, last, SpanSize, p, needed)
<1>1. last \in Nat /\ needed \in Seq(Blocks) /\ Q \in Queues
  BY DEF Reserves, QueueGood
<1>2. free # {}
  BY DEF ReserveSpan
<1>3. /\ one \in 1 .. Len(needed) /\ n \in 1 .. Len(needed) - one + 1
      /\ n \in Nat \ {0} /\ Len(needed) \in Nat
  BY <1>1, <1>2, FirstFree
<1>4. span.start = start /\ span.n = n /\ span.queue = Out
  BY <1>2 DEF ReserveSpan
<1> HIDE DEF span, Out, one, n, free
<1> DEFINE low == last + 1 - Len(needed)
<1>5. /\ low > 0 /\ low \in Nat /\ Stretch(p, low, needed)
      /\ \A s \in Starts(Q) : Q.spans[s].owner = p /\ ~Filled(Q.spans[s]) => s < low
  <2>1. needed # <<>>
    BY <1>3
  <2> QED
    BY <1>1, <1>3, <2>1 DEF Reserves
<1>6. start = low + one - 1 /\ start \in Nat /\ start > 0 /\ start >= low
  BY <1>1, <1>3, <1>5
<1>7. /\ piece \in Seq(Blocks) /\ Len(piece) = n /\ Stretch(p, start, piece)
  <2>1. one \in 1 .. Len(needed) + 1 /\ one + n - 1 \in 0 .. Len(needed)
        /\ one <= one + n - 1 + 1 /\ one + n - 1 - one + 1 = n
    BY <1>3
  <2> DEFINE fin == one + n - 1
  <2> HIDE DEF low, start, fin
  <2>2. fin \in 0 .. Len(needed) /\ one <= fin + 1 /\ fin - one + 1 = n
    BY <1>3, <2>1 DEF fin
  <2>3. piece = SubSeq(needed, one, fin)
    BY DEF fin
  <2>4. /\ SubSeq(needed, one, fin) \in Seq(Blocks) /\ Len(SubSeq(needed, one, fin)) = fin - one + 1
        /\ Stretch(p, low + one - 1, SubSeq(needed, one, fin))
    <3>1. /\ p \in Peers /\ low \in Nat /\ needed \in Seq(Blocks) /\ Stretch(p, low, needed)
          /\ one \in 1 .. Len(needed) + 1 /\ fin \in 0 .. Len(needed) /\ one <= fin + 1
      BY <1>1, <1>5, <2>1, <2>2
    <3> QED
      BY <3>1, SubStretch, Zenon
  <2>5. piece \in Seq(Blocks) /\ Len(piece) = n /\ Stretch(p, low + one - 1, piece)
    BY <2>2, <2>3, <2>4
  <2> QED
    BY <1>6, <2>5
<1>8. \E q \in Peers : Stretch(q, start, piece)
  BY <1>7
<1> HIDE DEF low, start, piece
<1>9. /\ Scheduled(p, n) \in Spans /\ ~Filled(Scheduled(p, n))
      /\ Scheduled(p, n).owner = p /\ Scheduled(p, n).n = n
      /\ Scheduled(p, n).blocks = <<>> /\ Scheduled(p, n).hashes = <<>>
  BY <1>3, NewSpan
<1>10. /\ I \in Queues /\ Starts(I) = Starts(Q) \cup {start}
       /\ \A s \in Starts(Q) : I.spans[s] = Q.spans[s]
       /\ start \notin Starts(Q) => I.spans[start] = Scheduled(p, n)
       /\ I.requested = Q.requested /\ I.have = Q.have
       /\ start \in Starts(Q) => I = Q
  BY <1>1, <1>6, <1>9, InsertIs
<1> HIDE DEF I
<1> DEFINE with == [I.spans[start] EXCEPT !.hashes = piece]
           was == Range(I.spans[start].hashes)
<1>11. QueueGood(Out) /\ OneNew(p, start, Q, Out)
  <2>1. CASE I.spans[start].owner # p
    <3>1. start \in Starts(Q) /\ I = Q
      BY <1>9, <1>10, <2>1
    <3>2. Out = Q
      BY <2>1, <3>1 DEF SetSpanHashes, Out
    <3> QED
      BY <3>2 DEF Reserves, OneNew
  <2>2. CASE I.spans[start].owner = p
    <3>1. start \in Starts(I) /\ I.spans[start] \in Spans
      BY <1>10, QueueFields
    <3>2. /\ Out \in Queues /\ Starts(Out) = Starts(I)
          /\ \A s \in Starts(I) : s # start => Out.spans[s] = I.spans[s]
          /\ Out.spans[start] = with
          /\ Out.requested = (I.requested \ was) \cup Range(piece)
          /\ DOMAIN Out.have = DOMAIN I.have \ was
          /\ \A b \in DOMAIN Out.have : Out.have[b] = I.have[b]
      <4>1. I \in Queues /\ start \in Starts(I) /\ I.spans[start].owner = p /\ piece \in Seq(Blocks)
        BY <1>7, <1>10, <2>2, <3>1
      <4> QED
        BY <4>1, SetSpanHashesIs DEF Out
    <3>3. /\ with \in Spans /\ with.owner = p /\ with.n = I.spans[start].n
          /\ with.blocks = I.spans[start].blocks /\ with.hashes = piece
      BY <1>7, <2>2, <3>1, SpanWithHashes
    <3> HIDE DEF with, was
    <3>4. SpanGood(start, with)
      <4>1. CASE start \in Starts(Q)
        <5>1. SpanGood(start, Q.spans[start]) /\ I.spans[start] = Q.spans[start]
          BY <1>10, <4>1 DEF Reserves, QueueGood
        <5>2. Filled(Q.spans[start])
          <6>1. Q.spans[start].owner = p /\ ~(start < low)
            BY <1>6, <2>2, <5>1, <1>5
          <6> QED
            BY <1>5, <4>1, <6>1
        <5> QED
          BY <1>6, <1>8, <3>3, <5>1, <5>2 DEF SpanGood, Filled
      <4>2. CASE start \notin Starts(Q)
        <5>1. I.spans[start].blocks = <<>> /\ I.spans[start].n = n
          BY <1>9, <1>10, <4>2
        <5>2. \E q \in Peers : Stretch(q, start, <<>>)
          BY <1>6, EmptyStretch
        <5> QED
          BY <1>6, <1>7, <1>8, <3>3, <5>1, <5>2 DEF SpanGood, Filled
      <4> QED
        BY <4>1, <4>2
    <3>5. Put(Q, start, with, was, Out)
      BY <1>10, <3>2, <3>3 DEF Put, was
    <3>6. QueueGood(Out)
      BY <1>6, <3>4, <3>5, PutGood DEF Reserves
    <3>7. OneNew(p, start, Q, Out)
      BY <1>10, <3>2, <3>3 DEF OneNew
    <3> QED
      BY <3>6, <3>7
  <2> QED
    BY <2>1, <2>2
<1>12. span.start - (last - Len(needed)) = one
  BY <1>1, <1>3, <1>4 DEF start
<1> QED
  BY <1>3, <1>4, <1>6, <1>11, <1>12 DEF span

-----------------------------------------------------------------------------
(* Handlers *)

Handlers == [c : Contexts, queue : Queues, owed : Seq(Requests), fails : BOOLEAN]

\* What request_missing_objects and its callers change of a context, but for
\* what is needed: not more than state, expect and marks that nothing rests on.
SameBut(m, m2) ==
  /\ m2 \in Handlers
  /\ m2.c.last = m.c.last /\ m2.c.score = m.c.score /\ m2.c.read = m.c.read
  /\ m2.c.step = m.c.step

LEMMA HandlerFields ==
  ASSUME NEW m \in Handlers
  PROVE  /\ m.c \in Contexts /\ m.queue \in Queues /\ m.owed \in Seq(Requests)
         /\ m.c.last \in Nat /\ m.c.score \in -1 .. 0 /\ m.c.read \in Nat
         /\ m.c.needed \in Seq(Blocks) /\ m.c.requested \in SUBSET Blocks
         /\ m.c.known \in Blocks \cup {None}
BY DEF Handlers, Contexts

LEMMA FailureIs ==
  ASSUME NEW m \in Handlers
  PROVE  LET m2 == Failure(m)
         IN /\ m2 \in Handlers /\ m2.fails /\ m2.c = m.c
            /\ m2.queue = m.queue /\ m2.owed = m.owed
BY DEF Failure, Handlers

LEMMA SetNormalIs ==
  ASSUME NEW m \in Handlers
  PROVE  LET m2 == SetNormal(m)
         IN /\ SameBut(m, m2) /\ m2.queue = m.queue /\ m2.owed = m.owed
            /\ m2.c.state = "normal" /\ m2.c.expect = m.c.expect
            /\ m2.c.needed = <<>> /\ m2.fails = m.fails
<1>0. SetNormal(m).c \in Contexts
  <2>1. <<>> \in Seq(Blocks) /\ 0 \in Nat
    OBVIOUS
  <2> QED
    BY <2>1 DEF SetNormal, Handlers, Contexts
<1>1. SetNormal(m) \in Handlers
  BY <1>0 DEF SetNormal, Handlers
<1>2. /\ SetNormal(m).queue = m.queue /\ SetNormal(m).owed = m.owed
      /\ SetNormal(m).fails = m.fails
  BY DEF SetNormal, Handlers, Contexts
<1>3. /\ SetNormal(m).c.last = m.c.last /\ SetNormal(m).c.score = m.c.score
      /\ SetNormal(m).c.read = m.c.read /\ SetNormal(m).c.expect = m.c.expect
      /\ SetNormal(m).c.step = m.c.step
  BY DEF SetNormal, Handlers, Contexts
<1>4. SetNormal(m).c.state = "normal" /\ SetNormal(m).c.needed = <<>>
  BY DEF SetNormal, Handlers, Contexts
<1> QED
  BY <1>1, <1>2, <1>3, <1>4 DEF SameBut

LEMMA SetStandbyIs ==
  ASSUME NEW m \in Handlers, NEW call \in BOOLEAN
  PROVE  LET m2 == SetStandby(m, call)
         IN /\ SameBut(m, m2) /\ m2.queue = m.queue /\ m2.owed = m.owed
            /\ m2.c.state = "standby" /\ m2.c.expect = m.c.expect
            /\ m2.c.needed = m.c.needed /\ m2.fails = m.fails
BY DEF SetStandby, Handlers, Contexts, SameBut

LEMMA AskIs ==
  ASSUME NEW m \in Handlers, NEW kind \in {"chain", "objects"}, NEW from \in Nat,
         NEW blocks \in Seq(Blocks)
  PROVE  LET m2 == Ask(m, kind, from, blocks)
         IN /\ SameBut(m, m2) /\ m2.queue = m.queue /\ m2.c.state = m.c.state
            /\ m2.owed = Append(m.owed, [kind |-> kind, from |-> from, blocks |-> blocks])
            /\ m2.c.expect = kind /\ m2.c.needed = m.c.needed /\ m2.fails = m.fails
<1> DEFINE r == [kind |-> kind, from |-> from, blocks |-> blocks]
           m2 == Ask(m, kind, from, blocks)
<1>1. r \in Requests
  BY DEF Requests
<1>2. Append(m.owed, r) \in Seq(Requests)
  BY <1>1, HandlerFields
<1> HIDE DEF r
<1>3. m2 \in Handlers
  BY <1>2 DEF Ask, Handlers, Contexts, r
<1>4. m2.queue = m.queue /\ m2.owed = Append(m.owed, r) /\ m2.fails = m.fails
  BY DEF Ask, Handlers, Contexts, r
<1>5. m2.c.last = m.c.last /\ m2.c.score = m.c.score /\ m2.c.read = m.c.read /\ m2.c.step = m.c.step
  BY DEF Ask, Handlers, Contexts
<1>6. m2.c.expect = kind /\ m2.c.needed = m.c.needed /\ m2.c.state = m.c.state
  BY DEF Ask, Handlers, Contexts
<1> QED
  BY <1>3, <1>4, <1>5, <1>6 DEF SameBut, r

\* skip_unneeded_hashes takes blocks off the front of what is needed.
LEMMA SkipIs ==
  ASSUME NEW m \in Handlers, NEW checkQueue \in BOOLEAN
  PROVE  LET m2 == SkipUnneeded(m, checkQueue)
         IN /\ SameBut(m, m2) /\ m2.queue = m.queue /\ m2.owed = m.owed
            /\ m2.c.state = m.c.state /\ m2.c.expect = m.c.expect /\ m2.fails = m.fails
            /\ \E k \in 0 .. Len(m.c.needed) :
                 /\ m2.c.needed = SubSeq(m.c.needed, k + 1, Len(m.c.needed))
                 /\ k < Len(m.c.needed) => ~HaveBlock(m.c.needed[k + 1])
<1> DEFINE n == Len(m.c.needed)
           Unneeded(b) == HaveBlock(b) \/ (checkQueue /\ b \in DOMAIN m.queue.have)
           S == {i \in 0 .. n : \A j \in 1 .. i : Unneeded(m.c.needed[j])}
           k == Max(S)
           rest == SubSeq(m.c.needed, k + 1, n)
           known == IF k = n /\ n > 0 THEN m.c.needed[n] ELSE m.c.known
           m2 == SkipUnneeded(m, checkQueue)
<1>1. m.c.needed \in Seq(Blocks) /\ n \in Nat /\ m.c.known \in Blocks \cup {None}
      /\ \A i \in 1 .. n : m.c.needed[i] \in Blocks
  BY HandlerFields
<1>2. m2 = [m EXCEPT !.c.needed = rest, !.c.known = known]
  BY <1>1 DEF SkipUnneeded, Handlers, Contexts
<1> HIDE DEF n, Unneeded
<1>3. k \in S /\ \A i \in S : i <= k
  <2>1. 0 \in S /\ S \in SUBSET (0 .. n)
    BY <1>1
  <2> HIDE DEF S
  <2> QED
    BY <1>1, <2>1, MaxOfBounded
<1> HIDE DEF k
<1>4. k \in 0 .. n
  BY <1>3
<1>5. rest \in Seq(Blocks) /\ known \in Blocks \cup {None}
  BY <1>1, <1>4 DEF n
<1>6. k < n => ~Unneeded(m.c.needed[k + 1])
  <2>1. SUFFICES ASSUME k < n, Unneeded(m.c.needed[k + 1]) PROVE FALSE
    OBVIOUS
  <2>2. k + 1 \in 0 .. n /\ \A j \in 1 .. k + 1 : j \in 1 .. k \/ j = k + 1
    BY <1>1, <1>4, <2>1
  <2>3. k + 1 \in S
    BY <1>3, <2>1, <2>2
  <2> QED
    BY <1>3, <1>4, <2>3
<1> HIDE DEF rest, known, m2
<1>7. m2 \in Handlers
  <2>1. m2.c \in Contexts
    BY <1>2, <1>5 DEF Handlers, Contexts
  <2> QED
    BY <1>2, <2>1 DEF Handlers
<1>8. m2.queue = m.queue /\ m2.owed = m.owed /\ m2.fails = m.fails
  BY <1>2 DEF Handlers
<1>9. /\ m2.c.last = m.c.last /\ m2.c.score = m.c.score /\ m2.c.read = m.c.read
      /\ m2.c.step = m.c.step
      /\ m2.c.expect = m.c.expect /\ m2.c.state = m.c.state /\ m2.c.needed = rest
  BY <1>2 DEF Handlers, Contexts
<1> QED
  BY <1>4, <1>6, <1>7, <1>8, <1>9 DEF SameBut, m2, n, rest, Unneeded

\* The height of the first block needed.
Low(c) == c.last + 1 - Len(c.needed)

NeededRight(p, c) ==
  c.needed # <<>> => Low(c) >= 0 /\ Stretch(p, Low(c), c.needed)

RequestRight(p, r) ==
  IF r.kind = "chain" THEN r.from < Remote(p)
  ELSE \E h : Download(h, r.blocks)

OwedRight(p, owes) == \A j \in DOMAIN owes : RequestRight(p, owes[j])

\* A connection that has been kicked waits for one answer more.
Count(c, owes) == Len(owes) <= (IF c.expect = "nothing" THEN 0 ELSE 1) - c.score

Order(c, owes) ==
  c.expect = "chain" => \A j \in DOMAIN owes : owes[j].kind = "objects" => j = 1

Sane(p, m) ==
  /\ m \in Handlers /\ QueueGood(m.queue) /\ NeededRight(p, m.c)
  /\ OwedRight(p, m.owed) /\ Count(m.c, m.owed) /\ Order(m.c, m.owed)

\* Spans that a connection has scheduled lie below what it needs, and its peer
\* has a request for them.
Asked(s, owes) ==
  \E j \in DOMAIN owes : owes[j].kind = "objects" /\ HeightOf(owes[j].blocks[1]) = s

OwnSpans(p, c, owes, Q) ==
  \A s \in Starts(Q) :
    Q.spans[s].owner = p /\ ~Filled(Q.spans[s]) =>
      (c.needed # <<>> => s < Low(c)) /\ Asked(s, owes)

Good(p, m) == Sane(p, m) /\ OwnSpans(p, m.c, m.owed, m.queue)

Moves(p, m, m2) ==
  Good(p, m2) /\ NoneNew(p, m.queue, m2.queue) /\ m2.c.read = m.c.read /\ m2.c.step = m.c.step

\* The handler has asked, stands by, is done, or failed.
Settled(m) ==
  /\ m.c.expect # "nothing" => m.c.state = "synchronizing"
  /\ m.fails \/ m.c.expect # "nothing" \/ m.c.state # "synchronizing"

LEMMA NoneNewAtAll ==
  ASSUME NEW p, NEW Q1, NEW Q2, NEW Q3
  PROVE  /\ NoneNew(p, Q1, Q1)
         /\ NoneNew(p, Q1, Q2) /\ NoneNew(p, Q2, Q3) => NoneNew(p, Q1, Q3)
         /\ \A start : OneNew(p, start, Q1, Q2) => NoneNew(p, Q1, Q2)
BY DEF NoneNew, OneNew

\* Without its first k blocks.
Cut(bs, k, rest) ==
  Len(rest) = Len(bs) - k /\ \A i \in 1 .. Len(bs) - k : rest[i] = bs[k + i]

LEMMA SubSeqCut ==
  ASSUME NEW bs \in Seq(Blocks), NEW k \in 0 .. Len(bs)
  PROVE  Cut(bs, k, SubSeq(bs, k + 1, Len(bs))) /\ SubSeq(bs, k + 1, Len(bs)) \in Seq(Blocks)
<1>1. Len(bs) \in Nat /\ k \in Nat
  OBVIOUS
<1> QED
  BY <1>1 DEF Cut

LEMMA NeededCut ==
  ASSUME NEW p \in Peers, NEW m \in Handlers, NEW m2 \in Handlers, NeededRight(p, m.c),
         m2.c.last = m.c.last, NEW k \in 0 .. Len(m.c.needed), Cut(m.c.needed, k, m2.c.needed)
  PROVE  /\ NeededRight(p, m2.c) /\ Low(m2.c) = Low(m.c) + k
         /\ Low(m.c) \in Int /\ Low(m2.c) \in Int
         /\ m2.c.needed # <<>> => m.c.needed # <<>>
<1> DEFINE bs == m.c.needed
           rest == m2.c.needed
           n == Len(bs)
<1>1. bs \in Seq(Blocks) /\ m.c.last \in Nat /\ n \in Nat /\ rest \in Seq(Blocks)
  BY HandlerFields
<1>2. Len(rest) = n - k /\ \A i \in 1 .. n - k : rest[i] = bs[k + i]
  BY DEF Cut
<1>3. Low(m2.c) = Low(m.c) + k /\ Low(m.c) \in Int
  <2>1. Low(m2.c) = m.c.last + 1 - Len(rest) /\ Low(m.c) = m.c.last + 1 - n
    BY DEF Low
  <2> DEFINE last == m.c.last
             l == Len(rest)
  <2>2. l = n - k /\ k \in Nat /\ n \in Nat /\ last \in Nat
    BY <1>1, <1>2
  <2> HIDE DEF rest, n, last, l
  <2>3. last + 1 - l = last + 1 - n + k /\ last + 1 - n \in Int
    BY <2>2
  <2> QED
    BY <2>1, <2>3 DEF last, l
<1>4. rest # <<>> => bs # <<>>
  BY <1>1, <1>2
<1>5. ASSUME rest # <<>> PROVE Low(m2.c) >= 0 /\ Stretch(p, Low(m2.c), rest)
  <2>1. Low(m.c) >= 0 /\ \A i \in 1 .. n : Low(m.c) + i <= Remote(p) /\ bs[i] = ChainOf[p][Low(m.c) + i]
    BY <1>4, <1>5 DEF NeededRight, Stretch
  <2> HIDE DEF rest, bs, n
  <2>2. ASSUME NEW i \in 1 .. Len(rest)
        PROVE  Low(m2.c) + i <= Remote(p) /\ rest[i] = ChainOf[p][Low(m2.c) + i]
    <3>1. k + i \in 1 .. n /\ i \in 1 .. n - k
      BY <1>1, <1>2, <2>2
    <3>2. Low(m.c) + (k + i) <= Remote(p) /\ rest[i] = ChainOf[p][Low(m.c) + (k + i)]
      BY <1>2, <2>1, <3>1
    <3>3. Low(m.c) + (k + i) = Low(m2.c) + i
      BY <1>1, <1>3, <3>1
    <3> QED
      BY <3>2, <3>3
  <2>3. Low(m2.c) >= 0
    BY <1>3, <2>1
  <2> QED
    BY <2>2, <2>3 DEF Stretch
<1> QED
  BY <1>2, <1>3, <1>4, <1>5 DEF NeededRight

LEMMA AppendFacts ==
  ASSUME NEW T, NEW seq \in Seq(T), NEW e \in T
  PROVE  /\ Append(seq, e) \in Seq(T) /\ Len(Append(seq, e)) = Len(seq) + 1
         /\ DOMAIN Append(seq, e) = 1 .. Len(seq) + 1
         /\ \A j \in 1 .. Len(seq) : Append(seq, e)[j] = seq[j]
         /\ Append(seq, e)[Len(seq) + 1] = e
OBVIOUS

\* A handler that waits for nothing asks its peer.
LEMMA AskSane ==
  ASSUME NEW p \in Peers, NEW m, NEW kind \in {"chain", "objects"}, NEW from \in Nat,
         NEW blocks \in Seq(Blocks), Sane(p, m), m.c.expect = "nothing",
         RequestRight(p, [kind |-> kind, from |-> from, blocks |-> blocks])
  PROVE  Sane(p, Ask(m, kind, from, blocks))
<1> DEFINE r == [kind |-> kind, from |-> from, blocks |-> blocks]
           m2 == Ask(m, kind, from, blocks)
           n == Len(m.owed)
<1>1. m \in Handlers /\ m.owed \in Seq(Requests) /\ m.c.score \in -1 .. 0 /\ n \in Nat
      /\ DOMAIN m.owed = 1 .. n
  BY HandlerFields DEF Sane
<1>2. /\ SameBut(m, m2) /\ m2.queue = m.queue /\ m2.owed = Append(m.owed, r)
      /\ m2.c.expect = kind /\ m2.c.needed = m.c.needed
  BY <1>1, AskIs
<1>3. r \in Requests /\ r.kind = kind
  BY DEF Requests
<1>4. /\ Len(m2.owed) = n + 1 /\ DOMAIN m2.owed = 1 .. n + 1
      /\ \A j \in 1 .. n : m2.owed[j] = m.owed[j]
      /\ m2.owed[n + 1] = r
  <2> HIDE DEF r, m2
  <2> QED
    BY <1>1, <1>2, <1>3, AppendFacts
<1>5. RequestRight(p, r)
  OBVIOUS
<1> HIDE DEF r, m2, n
<1>6. n <= 0 - m.c.score /\ n <= 1
  <2>1. n <= 0 - m.c.score
    BY DEF Sane, Count, n
  <2> QED
    BY <1>1, <2>1
<1>7. m2 \in Handlers /\ QueueGood(m2.queue)
  BY <1>2 DEF Sane, SameBut
<1>8. NeededRight(p, m2.c)
  BY <1>2 DEF Sane, SameBut, NeededRight, Low
<1>9. OwedRight(p, m2.owed)
  <2>1. SUFFICES ASSUME NEW j \in DOMAIN m2.owed PROVE RequestRight(p, m2.owed[j])
    BY DEF OwedRight
  <2>2. j \in 1 .. n \/ j = n + 1
    BY <1>1, <1>4
  <2>3. j \in 1 .. n => RequestRight(p, m.owed[j])
    BY <1>1 DEF Sane, OwedRight
  <2> QED
    BY <1>4, <1>5, <2>2, <2>3
<1>10. Count(m2.c, m2.owed)
  BY <1>1, <1>2, <1>4, <1>6 DEF Count, SameBut
<1>11. Order(m2.c, m2.owed)
  <2>1. SUFFICES ASSUME kind = "chain", NEW j \in DOMAIN m2.owed, m2.owed[j].kind = "objects"
                 PROVE  j = 1
    BY <1>2 DEF Order
  <2>2. j # n + 1
    BY <1>3, <1>4, <2>1
  <2> QED
    BY <1>1, <1>4, <1>6, <2>2
<1> QED
  BY <1>7, <1>8, <1>9, <1>10, <1>11 DEF Sane, m2

LEMMA AskedMore ==
  ASSUME NEW s, NEW owes \in Seq(Requests), NEW r \in Requests
  PROVE  /\ Asked(s, owes) => Asked(s, Append(owes, r))
         /\ r.kind = "objects" /\ HeightOf(r.blocks[1]) = s => Asked(s, Append(owes, r))
<1> DEFINE more == Append(owes, r)
<1>1. /\ DOMAIN more = 1 .. Len(owes) + 1 /\ DOMAIN owes = 1 .. Len(owes) /\ Len(owes) \in Nat
      /\ \A j \in 1 .. Len(owes) : more[j] = owes[j]
      /\ more[Len(owes) + 1] = r
  BY AppendFacts
<1> HIDE DEF more
<1>2. Asked(s, owes) => Asked(s, more)
  BY <1>1 DEF Asked
<1>3. r.kind = "objects" /\ HeightOf(r.blocks[1]) = s => Asked(s, more)
  <2>1. Len(owes) + 1 \in DOMAIN more
    BY <1>1
  <2> QED
    BY <1>1, <2>1 DEF Asked
<1> QED
  BY <1>2, <1>3 DEF more

\* A good handler that asks stays good.
LEMMA AskGood ==
  ASSUME NEW p \in Peers, NEW m, NEW kind \in {"chain", "objects"}, NEW from \in Nat,
         NEW blocks \in Seq(Blocks), Good(p, m), m.c.expect = "nothing",
         RequestRight(p, [kind |-> kind, from |-> from, blocks |-> blocks])
  PROVE  LET m2 == Ask(m, kind, from, blocks)
         IN /\ Moves(p, m, m2) /\ m2.c.expect = kind /\ m2.c.state = m.c.state
<1> DEFINE r == [kind |-> kind, from |-> from, blocks |-> blocks]
           m2 == Ask(m, kind, from, blocks)
<1>1. m \in Handlers /\ m.owed \in Seq(Requests)
  BY HandlerFields DEF Good, Sane
<1>2. /\ SameBut(m, m2) /\ m2.queue = m.queue /\ m2.owed = Append(m.owed, r)
      /\ m2.c.expect = kind /\ m2.c.needed = m.c.needed /\ m2.c.state = m.c.state
  BY <1>1, AskIs
<1>3. Sane(p, m2)
  BY AskSane DEF Good
<1>4. r \in Requests
  BY DEF Requests
<1> HIDE DEF r, m2
<1>5. OwnSpans(p, m2.c, m2.owed, m2.queue)
  BY <1>1, <1>2, <1>4, AskedMore DEF Good, OwnSpans, SameBut, Low
<1> QED
  BY <1>2, <1>3, <1>5, NoneNewAtAll DEF Good, Moves, SameBut, m2

LEMMA SkipGood ==
  ASSUME NEW p \in Peers, NEW m, NEW checkQueue \in BOOLEAN, Good(p, m), HaveBlock(Genesis)
  PROVE  LET m2 == SkipUnneeded(m, checkQueue)
         IN /\ Moves(p, m, m2) /\ m2.queue = m.queue
            /\ m2.c.expect = m.c.expect /\ m2.c.state = m.c.state
            /\ m2.c.needed # <<>> => Low(m2.c) > 0
<1> DEFINE m2 == SkipUnneeded(m, checkQueue)
<1>1. m \in Handlers /\ NeededRight(p, m.c)
  BY DEF Good, Sane
<1>2. /\ SameBut(m, m2) /\ m2.queue = m.queue /\ m2.owed = m.owed
      /\ m2.c.state = m.c.state /\ m2.c.expect = m.c.expect
      /\ \E k \in 0 .. Len(m.c.needed) :
           /\ m2.c.needed = SubSeq(m.c.needed, k + 1, Len(m.c.needed))
           /\ k < Len(m.c.needed) => ~HaveBlock(m.c.needed[k + 1])
  BY <1>1, SkipIs
<1> HIDE DEF m2
<1>3. PICK k \in 0 .. Len(m.c.needed) :
        /\ m2.c.needed = SubSeq(m.c.needed, k + 1, Len(m.c.needed))
        /\ k < Len(m.c.needed) => ~HaveBlock(m.c.needed[k + 1])
  BY <1>2
<1>10. Cut(m.c.needed, k, m2.c.needed)
  <2>1. m.c.needed \in Seq(Blocks)
    BY <1>1, HandlerFields
  <2> QED
    BY <1>3, <2>1, SubSeqCut
<1>4. /\ NeededRight(p, m2.c) /\ Low(m2.c) = Low(m.c) + k
      /\ Low(m.c) \in Int /\ Low(m2.c) \in Int
      /\ m2.c.needed # <<>> => m.c.needed # <<>>
  BY <1>1, <1>2, <1>10, NeededCut DEF SameBut
<1>11. /\ Len(m2.c.needed) = Len(m.c.needed) - k
       /\ \A i \in 1 .. Len(m.c.needed) - k : m2.c.needed[i] = m.c.needed[k + i]
  BY <1>10 DEF Cut
<1>5. Sane(p, m2)
  BY <1>2, <1>4 DEF Good, Sane, SameBut, Count, Order
<1>6. OwnSpans(p, m2.c, m2.owed, m2.queue)
  <2>1. Starts(m.queue) \in SUBSET Nat
    BY <1>1, HandlerFields, QueueFields
  <2>2. ASSUME NEW s \in Starts(m.queue), m.c.needed # <<>> => s < Low(m.c), m2.c.needed # <<>>
        PROVE  s < Low(m2.c)
    BY <1>4, <2>1, <2>2
  <2> QED
    BY <1>2, <2>2 DEF Good, OwnSpans
<1>7. ASSUME m2.c.needed # <<>> PROVE Low(m2.c) > 0
  <2>1. Low(m2.c) >= 0 /\ Stretch(p, Low(m2.c), m2.c.needed)
    BY <1>4, <1>7 DEF NeededRight
  <2>2. Len(m2.c.needed) \in Nat /\ Len(m2.c.needed) > 0 /\ Len(m.c.needed) \in Nat
    <3>1. m2.c.needed \in Seq(Blocks) /\ m.c.needed \in Seq(Blocks)
      BY <1>1, <1>2, HandlerFields DEF SameBut
    <3> QED
      BY <1>7, <3>1, SeqFacts
  <2>3. m2.c.needed[1] = m.c.needed[k + 1] /\ k < Len(m.c.needed)
    <3>1. k < Len(m.c.needed) /\ 1 \in 1 .. Len(m.c.needed) - k
      BY <1>11, <2>2
    <3> QED
      BY <1>11, <3>1
  <2>4. m2.c.needed[1] = ChainOf[p][Low(m2.c) + 1]
    BY <2>1, <2>2 DEF Stretch
  <2>5. m2.c.needed[1] # Genesis
    BY <1>3, <2>3
  <2> QED
    BY <1>4, <2>1, <2>4, <2>5, GenesisFirst
<1> QED
  BY <1>2, <1>5, <1>6, <1>7, NoneNewAtAll DEF Moves, Good, SameBut, m2

\* The genesis block is never asked for.
Rooted == Genesis \in Range(chain)

LEMMA StartFromRight ==
  ASSUME NEW p \in Peers, NEW known \in Blocks \cup {None}, Rooted
  PROVE  StartFrom(p, known) \in Nat /\ StartFrom(p, known) < Remote(p)
<1>0. Remote(p) \in Nat /\ Remote(p) > 1 /\ DOMAIN ChainOf[p] = 1 .. Remote(p)
  BY ChainFacts
<1>1. CASE known \in Range(ChainOf[p])
  <2>1. PICK i \in 1 .. Remote(p) : known = ChainOf[p][i]
    BY <1>0, <1>1 DEF Range
  <2>2. HeightOf(known) = i - 1
    BY <2>1, HeightFacts
  <2> QED
    BY <1>0, <1>1, <2>2 DEF StartFrom
<1>2. CASE known \notin Range(ChainOf[p])
  <2> DEFINE S == {h \in 0 .. Remote(p) - 1 : ChainOf[p][h + 1] \in Range(chain)}
  <2>1. 0 \in S /\ S \in SUBSET (0 .. Remote(p) - 1) /\ Remote(p) - 1 \in Nat
    BY <1>0, GenesisFirst DEF Rooted
  <2>2. StartFrom(p, known) = Max(S)
    BY <1>2 DEF StartFrom
  <2> HIDE DEF S
  <2>3. Max(S) \in S
    BY <2>1, MaxOfBounded
  <2> DEFINE top == Max(S)
  <2>4. top \in 0 .. Remote(p) - 1
    BY <2>1, <2>3
  <2> HIDE DEF top
  <2> QED
    BY <1>0, <2>2, <2>4 DEF top
<1> QED
  BY <1>1, <1>2

\* What leaves the queue and the requests alone.
LEMMA SameGood ==
  ASSUME NEW p \in Peers, NEW m, NEW m2, Good(p, m), SameBut(m, m2),
         m2.queue = m.queue, m2.owed = m.owed, m2.c.expect = m.c.expect,
         m2.c.needed = m.c.needed \/ m2.c.needed = <<>>
  PROVE  Moves(p, m, m2)
<1>1. m2 \in Handlers /\ QueueGood(m2.queue)
  BY DEF Good, Sane, SameBut
<1>2. NeededRight(p, m2.c)
  BY DEF Good, Sane, SameBut, NeededRight, Low
<1>3. OwedRight(p, m2.owed) /\ Count(m2.c, m2.owed) /\ Order(m2.c, m2.owed)
  BY DEF Good, Sane, SameBut, Count, Order
<1>4. OwnSpans(p, m2.c, m2.owed, m2.queue)
  BY DEF Good, SameBut, OwnSpans, Low
<1> QED
  BY <1>1, <1>2, <1>3, <1>4, NoneNewAtAll DEF Moves, Good, Sane, SameBut

LEMMA MovesOn ==
  ASSUME NEW p, NEW m1, NEW m2, NEW m3, Moves(p, m1, m2), Moves(p, m2, m3)
  PROVE  Moves(p, m1, m3)
BY NoneNewAtAll DEF Moves

\* Ways to end without asking.
LEMMA EndsGood ==
  ASSUME NEW p \in Peers, NEW m, Good(p, m), m.c.expect = "nothing"
  PROVE  /\ Moves(p, m, Failure(m)) /\ Settled(Failure(m))
         /\ Moves(p, m, SetNormal(m)) /\ Settled(SetNormal(m))
         /\ \A call \in BOOLEAN :
              Moves(p, m, SetStandby(m, call)) /\ Settled(SetStandby(m, call))
<1>1. m \in Handlers
  BY DEF Good, Sane
<1>2. Moves(p, m, Failure(m)) /\ Settled(Failure(m))
  <2>1. /\ Failure(m) \in Handlers /\ Failure(m).fails /\ Failure(m).c = m.c
        /\ Failure(m).queue = m.queue /\ Failure(m).owed = m.owed
    BY <1>1, FailureIs
  <2>2. SameBut(m, Failure(m))
    BY <2>1 DEF SameBut
  <2>3. Failure(m).c.expect = m.c.expect /\ Failure(m).c.needed = m.c.needed
    BY <2>1
  <2> QED
    BY <2>1, <2>2, <2>3, SameGood DEF Settled
<1>3. Moves(p, m, SetNormal(m)) /\ Settled(SetNormal(m))
  <2>1. /\ SameBut(m, SetNormal(m)) /\ SetNormal(m).queue = m.queue /\ SetNormal(m).owed = m.owed
        /\ SetNormal(m).c.state = "normal" /\ SetNormal(m).c.expect = m.c.expect
        /\ SetNormal(m).c.needed = <<>>
    BY <1>1, SetNormalIs
  <2> QED
    BY <2>1, SameGood DEF Settled
<1>4. ASSUME NEW call \in BOOLEAN
      PROVE  Moves(p, m, SetStandby(m, call)) /\ Settled(SetStandby(m, call))
  <2>1. /\ SameBut(m, SetStandby(m, call)) /\ SetStandby(m, call).queue = m.queue
        /\ SetStandby(m, call).owed = m.owed
        /\ SetStandby(m, call).c.state = "standby" /\ SetStandby(m, call).c.expect = m.c.expect
        /\ SetStandby(m, call).c.needed = m.c.needed
    BY <1>1, SetStandbyIs
  <2> QED
    BY <2>1, SameGood DEF Settled
<1> QED
  BY <1>2, <1>3, <1>4

LEMMA ForgetGood ==
  ASSUME NEW p \in Peers, NEW m, Good(p, m)
  PROVE  LET m2 == [m EXCEPT !.c.needed = <<>>]
         IN /\ Moves(p, m, m2) /\ m2.c.expect = m.c.expect /\ m2.c.state = m.c.state
            /\ m2.queue = m.queue /\ m2.owed = m.owed /\ m2.c.needed = <<>>
            /\ m2 \in Handlers
<1> DEFINE m2 == [m EXCEPT !.c.needed = <<>>]
<1>1. m \in Handlers /\ <<>> \in Seq(Blocks)
  BY DEF Good, Sane
<1>2. m2.c \in Contexts
  BY <1>1 DEF Handlers, Contexts
<1>3. m2 \in Handlers
  BY <1>1, <1>2 DEF Handlers
<1>4. m2.queue = m.queue /\ m2.owed = m.owed
  BY <1>1 DEF Handlers
<1>5. /\ m2.c.last = m.c.last /\ m2.c.score = m.c.score /\ m2.c.read = m.c.read
      /\ m2.c.step = m.c.step
      /\ m2.c.expect = m.c.expect /\ m2.c.state = m.c.state /\ m2.c.needed = <<>>
  BY <1>1 DEF Handlers, Contexts
<1> HIDE DEF m2
<1>6. SameBut(m, m2)
  BY <1>3, <1>5 DEF SameBut
<1>7. Moves(p, m, m2)
  BY <1>4, <1>5, <1>6, SameGood
<1> QED
  BY <1>3, <1>4, <1>5, <1>7 DEF m2

LEMMA AskChainGood ==
  ASSUME NEW p \in Peers, NEW m, NEW lockFree \in BOOLEAN, Good(p, m),
         m.c.expect = "nothing", m.c.state = "synchronizing", Rooted
  PROVE  Moves(p, m, AskChain(p, m, lockFree)) /\ Settled(AskChain(p, m, lockFree))
<1> DEFINE m1 == [m EXCEPT !.c.needed = <<>>]
           m2 == AskChain(p, m, lockFree)
           from == StartFrom(p, m1.c.known)
           asks == Ask(m1, "chain", from, <<>>)
<1>1. /\ Moves(p, m, m1) /\ m1.c.expect = "nothing" /\ m1.c.state = "synchronizing"
      /\ m1 \in Handlers
  BY ForgetGood
<1>2. m2 \in {SetStandby(m1, TRUE), asks, SetNormal(m1), Failure(m1)}
  BY DEF AskChain
<1> HIDE DEF m1, m2
<1>3. Good(p, m1)
  BY <1>1 DEF Moves
<1>4. from \in Nat /\ from < Remote(p)
  BY <1>1, HandlerFields, StartFromRight
<1>5. Moves(p, m1, asks) /\ Settled(asks)
  <2> DEFINE kind == "chain"
             nothing == <<>>
  <2>1. RequestRight(p, [kind |-> kind, from |-> from, blocks |-> nothing])
    BY <1>4 DEF RequestRight
  <2>2. /\ from \in Nat /\ kind \in {"chain", "objects"} /\ nothing \in Seq(Blocks)
        /\ Good(p, m1) /\ m1.c.expect = "nothing"
    BY <1>1, <1>3, <1>4
  <2> HIDE DEF from, kind, nothing
  <2>3. LET m3 == Ask(m1, kind, from, nothing)
        IN Moves(p, m1, m3) /\ m3.c.expect = kind /\ m3.c.state = m1.c.state
    BY <2>1, <2>2, AskGood
  <2> HIDE DEF asks
  <2>4. Moves(p, m1, asks) /\ asks.c.expect = "chain" /\ asks.c.state = m1.c.state
    BY <2>3 DEF asks, kind, nothing
  <2> QED
    BY <1>1, <2>4 DEF Settled
<1>6. Moves(p, m1, m2) /\ Settled(m2)
  <2> HIDE DEF asks
  <2> QED
    BY <1>1, <1>2, <1>3, <1>5, EndsGood
<1> QED
  BY <1>1, <1>6, MovesOn DEF m2

\* The same blocks and hashes in the same places, whoever owns them.
Alike(Q, R) ==
  /\ R \in Queues /\ Starts(R) = Starts(Q)
  /\ R.requested = Q.requested /\ R.have = Q.have
  /\ \A s \in Starts(Q) :
       /\ R.spans[s].n = Q.spans[s].n /\ R.spans[s].blocks = Q.spans[s].blocks
       /\ R.spans[s].hashes = Q.spans[s].hashes

LEMMA AlikeGood ==
  ASSUME NEW Q, NEW R, QueueGood(Q), Alike(Q, R)
  PROVE  QueueGood(R)
<1>1. \A s \in Starts(R) : SpanGood(s, R.spans[s])
  BY DEF QueueGood, Alike, SpanGood, Filled
<1>2. FilledStarts(R) = FilledStarts(Q)
  BY DEF Alike, FilledStarts, Filled
<1>3. RequestedGood(R)
  BY DEF QueueGood, Alike, RequestedGood
<1>4. HaveGood(R)
  <2>1. \A s \in FilledStarts(Q) : R.spans[s].hashes = Q.spans[s].hashes
    BY DEF Alike, FilledStarts
  <2> QED
    BY <1>2, <2>1 DEF QueueGood, Alike, HaveGood
<1> QED
  BY <1>1, <1>3, <1>4 DEF QueueGood, Alike

LEMMA NextFacts ==
  ASSUME NEW Q \in Queues, Starts(Q) # {}
  PROVE  Min(Starts(Q)) \in Starts(Q) /\ \A s \in Starts(Q) : Min(Starts(Q)) <= s
<1>1. \E s \in Starts(Q) : \A t \in Starts(Q) : s <= t
  BY QueueFields, LeastNat
<1> QED
  BY <1>1 DEF Min

LEMMA LateIs ==
  ASSUME NEW Q, QueueGood(Q), Starts(Q) # {}, NEW late \in BOOLEAN
  PROVE  LET R == SetNextLate(Q, late)
         IN /\ QueueGood(R) /\ Starts(R) = Starts(Q)
            /\ \A s \in Starts(Q) : /\ R.spans[s].owner = Q.spans[s].owner
                                    /\ R.spans[s].blocks = Q.spans[s].blocks
<1> DEFINE k == Min(Starts(Q))
           span == [Q.spans[k] EXCEPT !.late = late]
           R == SetNextLate(Q, late)
<1>1. Q \in Queues
  BY DEF QueueGood
<1>2. k \in Starts(Q)
  BY <1>1, NextFacts
<1>3. /\ Starts(Q) \in SUBSET Nat /\ Q.spans \in [Starts(Q) -> Spans]
      /\ DOMAIN Q.spans = Starts(Q)
  BY <1>1, QueueFields DEF Starts
<1>4. R = [Q EXCEPT !.spans = [Q.spans EXCEPT ![k] = span]]
  BY DEF SetNextLate
<1> HIDE DEF k, R
<1>5. /\ span \in Spans /\ span.owner = Q.spans[k].owner /\ span.n = Q.spans[k].n
      /\ span.blocks = Q.spans[k].blocks /\ span.hashes = Q.spans[k].hashes
  <2>1. Q.spans[k] \in Spans
    BY <1>2, <1>3
  <2> QED
    BY <2>1 DEF Spans
<1> HIDE DEF span
<1> DEFINE spans == [Q.spans EXCEPT ![k] = span]
<1>6. spans \in [Starts(Q) -> Spans] /\ DOMAIN spans = Starts(Q)
      /\ \A s \in Starts(Q) : spans[s] = IF s = k THEN span ELSE Q.spans[s]
  BY <1>2, <1>3, <1>5
<1> HIDE DEF spans
<1>7. R = [Q EXCEPT !.spans = spans]
  BY <1>4 DEF spans
<1>8. R \in Queues /\ R.spans = spans /\ R.requested = Q.requested /\ R.have = Q.have
  BY <1>1, <1>3, <1>6, <1>7 DEF Queues
<1>9. Starts(R) = Starts(Q)
  BY <1>6, <1>8 DEF Starts
<1>10. Alike(Q, R)
  BY <1>5, <1>6, <1>8, <1>9 DEF Alike
<1>11. QueueGood(R)
  BY <1>10, AlikeGood
<1> QED
  BY <1>5, <1>6, <1>8, <1>9, <1>11 DEF R

LEMMA SameIndex ==
  \A p, q \in Peers : \A i \in 1 .. Remote(p), j \in 1 .. Remote(q) :
    ChainOf[p][i] = ChainOf[q][j] => i = j
BY SameBlock

LEMMA SameBelow ==
  \A p, q \in Peers : \A i \in 1 .. Remote(p), j \in 1 .. Remote(q) :
    ChainOf[p][i] = ChainOf[q][j] => \A h \in 1 .. i : ChainOf[p][h] = ChainOf[q][h]
<1>1. TAKE p, q \in Peers
<1>2. TAKE i \in 1 .. Remote(p), j \in 1 .. Remote(q)
<1>3. HAVE ChainOf[p][i] = ChainOf[q][j]
<1>4. i = j
  BY <1>3, SameIndex
<1>5. i <= Remote(q) /\ ChainOf[p][i] = ChainOf[q][i]
  BY <1>3, <1>4, ChainFacts
<1> QED
  BY <1>5, SamePast

\* The hashes of the next span among those needed are the first ones, if one
\* needed is no lower than it.
LEMMA NextCut ==
  ASSUME NEW p \in Peers, NEW q \in Peers, NEW low \in Nat, NEW start \in Nat, start <= low,
         NEW needed \in Seq(Blocks), NEW hashes \in Seq(Blocks),
         Stretch(p, low, needed), Stretch(q, start, hashes)
  PROVE  LET others == Only(needed, Blocks \ Range(hashes))
         IN others \in Seq(Blocks) /\ \E k \in 0 .. Len(needed) : Cut(needed, k, others)
<1> DEFINE n == Len(needed)
           Taken(i) == needed[i] \in Range(hashes)
           D == {i \in 0 .. n : \A j \in 1 .. i : Taken(j)}
           k == Max(D)
           others == Only(needed, Blocks \ Range(hashes))
<1>1. n \in Nat /\ \A i \in 1 .. n : needed[i] \in Blocks
  BY SeqFacts
<1>2. \A i \in 1 .. n : low + i \in 1 .. Remote(p) /\ needed[i] = ChainOf[p][low + i]
  BY StretchFacts
<1>3. \A j \in 1 .. Len(hashes) : start + j \in 1 .. Remote(q) /\ hashes[j] = ChainOf[q][start + j]
  BY StretchFacts
<1>4. Range(hashes) = {hashes[j] : j \in 1 .. Len(hashes)} /\ Len(hashes) \in Nat
  BY SeqFacts
<1>5. ASSUME NEW i \in 1 .. n, Taken(i), NEW j \in 1 .. i
      PROVE  Taken(j)
  <2>1. PICK l \in 1 .. Len(hashes) : needed[i] = hashes[l]
    BY <1>4, <1>5
  <2>2. ChainOf[p][low + i] = ChainOf[q][start + l] /\ low + i \in 1 .. Remote(p)
        /\ start + l \in 1 .. Remote(q)
    BY <1>2, <1>3, <2>1
  <2>3. low + i = start + l
    BY <2>2, SameIndex
  <2>4. \A h \in 1 .. low + i : ChainOf[p][h] = ChainOf[q][h]
    BY <2>2, SameBelow
  <2> DEFINE t == low + j - start
  <2>5. t \in 1 .. Len(hashes) /\ start + t = low + j /\ low + j \in 1 .. low + i /\ j \in 1 .. n
    <3>1. Len(hashes) \in Nat /\ l \in Int /\ 1 <= l /\ l <= Len(hashes)
      BY <1>4
    <3>2. n \in Nat /\ i \in Int /\ 1 <= i /\ i <= n /\ j \in Int /\ 1 <= j /\ j <= i
      BY <1>1, <1>5
    <3>3. j \in 1 .. n /\ low + j \in 1 .. low + i /\ t \in Int /\ start + t = low + j
      BY <3>2
    <3>4. 1 <= t
      BY <3>2
    <3>5. t <= l
      BY <2>3, <3>1, <3>2
    <3> QED
      BY <3>1, <3>3, <3>4, <3>5
  <2> HIDE DEF t
  <2>6. hashes[t] = ChainOf[q][low + j] /\ needed[j] = ChainOf[p][low + j]
    BY <1>2, <1>3, <2>5
  <2>7. needed[j] = hashes[t]
    BY <2>4, <2>5, <2>6
  <2> QED
    BY <1>4, <2>5, <2>7
<1> HIDE DEF Taken, n
<1>6. k \in D /\ \A i \in D : i <= k
  <2>1. 0 \in D /\ D \in SUBSET (0 .. n)
    BY <1>1
  <2> HIDE DEF D
  <2> QED
    BY <1>1, <2>1, MaxOfBounded
<1>7. k \in 0 .. n /\ \A j \in 1 .. k : Taken(j)
  <2> HIDE DEF k
  <2> QED
    BY <1>6
<1>8. \A i \in 1 .. n : Taken(i) => i <= k
  <2>1. ASSUME NEW i \in 1 .. n, Taken(i) PROVE i \in D
    <3> HIDE DEF k
    <3> QED
      BY <1>1, <1>5, <2>1
  <2> HIDE DEF D, k
  <2> QED
    BY <1>6, <2>1
<1> HIDE DEF k
<1> DEFINE free == Blocks \ Range(hashes)
           first == k + 1
<1>9. \A i \in 1 .. Len(needed) : needed[i] \in free <=> i \in first .. n
  <2>1. SUFFICES ASSUME NEW i \in 1 .. n
                 PROVE  needed[i] \in Blocks \ Range(hashes) <=> i \in k + 1 .. n
    BY DEF n
  <2>2. Taken(i) <=> i \in 1 .. k
    BY <1>7, <1>8, <2>1
  <2>3. i \in 1 .. k <=> ~(i \in k + 1 .. n)
    BY <1>1, <1>7, <2>1
  <2> QED
    BY <1>1, <2>2, <2>3 DEF Taken
<1>10. first \in 1 .. Len(needed) + 1 /\ n \in 0 .. Len(needed) /\ first <= n + 1
  BY <1>1, <1>7 DEF n
<1>11. /\ others \in Seq(Blocks) /\ Len(others) = n - (k + 1) + 1
       /\ \A i \in 1 .. n - (k + 1) + 1 : others[i] = needed[k + 1 + i - 1]
  <2> HIDE DEF free, first
  <2>1. /\ Only(needed, free) \in Seq(Blocks) /\ Len(Only(needed, free)) = n - first + 1
        /\ \A i \in 1 .. n - first + 1 : Only(needed, free)[i] = needed[first + i - 1]
    BY <1>9, <1>10, OnlyStretch
  <2> QED
    BY <2>1 DEF free, first
<1> HIDE DEF others, free, first
<1>12. Cut(needed, k, others)
  <2>1. n - (k + 1) + 1 = n - k
    BY <1>1, <1>7
  <2>2. Len(others) = n - k /\ \A i \in 1 .. n - k : others[i] = needed[k + i]
    <3>1. Len(others) = n - k /\ \A i \in 1 .. n - k : others[i] = needed[k + 1 + i - 1]
      BY <1>11, <2>1
    <3>2. \A i \in 1 .. n - k : k + 1 + i - 1 = k + i
      BY <1>1, <1>7
    <3> QED
      BY <3>1, <3>2
  <2> QED
    BY <2>2 DEF Cut, n
<1> QED
  BY <1>7, <1>11, <1>12 DEF others, n

LEMMA NextDownload ==
  ASSUME NEW Q, QueueGood(Q), NextScheduled(Q)
  PROVE  /\ Download(Min(Starts(Q)), NextSpan(Q).hashes) /\ NextSpan(Q).hashes \in Seq(Blocks)
         /\ Min(Starts(Q)) \in Nat
         /\ \E q \in Peers : Stretch(q, Min(Starts(Q)), NextSpan(Q).hashes)
<1> DEFINE k == Min(Starts(Q))
           span == Q.spans[k]
<1>1. Q \in Queues /\ Starts(Q) # {} /\ ~Filled(NextSpan(Q))
  BY DEF QueueGood, NextScheduled
<1>2. k \in Starts(Q)
  BY <1>1, NextFacts
<1> HIDE DEF k
<1>3. k \in Nat /\ span \in Spans
  BY <1>1, <1>2, QueueFields
<1>4. SpanGood(k, span) /\ ~Filled(span)
  BY <1>1, <1>2 DEF QueueGood, NextSpan, k
<1> HIDE DEF span
<1>5. span.hashes \in Seq(Blocks) /\ span.n = Len(span.hashes) /\ span.n > 0
  BY <1>3, <1>4 DEF SpanGood, Spans
<1>6. span.hashes # <<>>
  BY <1>5
<1>7. k > 0 /\ \E q \in Peers : Stretch(q, k, span.hashes)
  BY <1>4 DEF SpanGood
<1>8. NextSpan(Q) = span
  BY DEF NextSpan, span, k
<1> QED
  BY <1>3, <1>5, <1>6, <1>7, <1>8 DEF Download, k

\* What is needed and reserved lies no lower than the next span.
LEMMA ReservedAbove ==
  ASSUME NEW p \in Peers, NEW m, Good(p, m), Starts(m.queue) # {}, m.c.needed # <<>>,
         Range(m.c.needed) \subseteq m.queue.requested
  PROVE  Low(m.c) \in Nat /\ Min(Starts(m.queue)) <= Low(m.c) /\ Stretch(p, Low(m.c), m.c.needed)
<1> DEFINE Q == m.queue
           bs == m.c.needed
           low == Low(m.c)
<1>1. m \in Handlers /\ Q \in Queues /\ bs \in Seq(Blocks) /\ m.c.last \in Nat
  BY HandlerFields DEF Good, Sane
<1>2. Len(bs) \in Nat /\ 1 \in 1 .. Len(bs) /\ bs[1] \in Range(bs) /\ DOMAIN bs = 1 .. Len(bs)
  <2>1. Len(bs) \in Nat /\ Len(bs) > 0 /\ Range(bs) = {bs[i] : i \in 1 .. Len(bs)} /\ DOMAIN bs = 1 .. Len(bs)
    BY <1>1, SeqFacts
  <2> HIDE DEF bs
  <2> QED
    BY <2>1
<1>3. low \in Nat /\ Stretch(p, low, bs)
  <2>1. low >= 0 /\ Stretch(p, low, bs)
    BY DEF Good, Sane, NeededRight
  <2> QED
    BY <1>1, <1>2, <2>1 DEF Low
<1>4. bs[1] \in Q.requested
  BY <1>2
<1> HIDE DEF bs, low, Q
<1>5. PICK s \in Starts(Q) : bs[1] \in Range(Q.spans[s].hashes)
  BY <1>4 DEF Good, Sane, QueueGood, RequestedGood, Q
<1> DEFINE hashes == Q.spans[s].hashes
<1>6. s \in Nat /\ hashes \in Seq(Blocks)
  <2>1. s \in Nat /\ Q.spans[s] \in Spans
    BY <1>1, QueueFields
  <2> QED
    BY <2>1 DEF Spans
<1>7. PICK q \in Peers : Stretch(q, s, hashes)
  BY DEF Good, Sane, QueueGood, SpanGood, Q
<1> HIDE DEF hashes
<1>8. PICK i \in 1 .. Len(hashes) : bs[1] = hashes[i]
  BY <1>5, <1>6, SeqFacts DEF hashes
<1>9. s + i \in 1 .. Remote(q) /\ hashes[i] = ChainOf[q][s + i]
  BY <1>6, <1>7, StretchFacts
<1>10. low + 1 \in 1 .. Remote(p) /\ bs[1] = ChainOf[p][low + 1]
  BY <1>1, <1>2, <1>3, StretchFacts
<1>11. low + 1 = s + i
  BY <1>8, <1>9, <1>10, SameBlock
<1>12. Min(Starts(Q)) <= s /\ Min(Starts(Q)) \in Nat
  BY <1>1, NextFacts, QueueFields
<1>13. s <= low
  BY <1>3, <1>6, <1>11
<1> DEFINE k == Min(Starts(Q))
<1>14. k <= low
  <2>1. k <= s /\ k \in Nat
    BY <1>12
  <2> HIDE DEF k
  <2> QED
    BY <1>3, <1>6, <1>13, <2>1
<1> QED
  BY <1>3, <1>14 DEF low, Q, bs

LEMMA AskNextGood ==
  ASSUME NEW p \in Peers, NEW m, NEW forced \in BOOLEAN, Good(p, m),
         m.c.expect = "nothing", m.c.state = "synchronizing", NextScheduled(m.queue),
         ~forced => Range(m.c.needed) \subseteq m.queue.requested
  PROVE  Moves(p, m, AskNext(m, forced)) /\ Settled(AskNext(m, forced))
<1> DEFINE Q == m.queue
           start == Min(Starts(Q))
           hashes == NextSpan(Q).hashes
           others == Only(m.c.needed, Blocks \ Range(hashes))
           needed == IF forced THEN m.c.needed ELSE others
           Q2 == IF forced THEN SetNextLate(Q, FALSE) ELSE Q
           m1 == [m EXCEPT !.queue = Q2, !.c.requested = @ \cup Range(hashes),
                           !.c.needed = needed]
<1>1. m \in Handlers /\ Q \in Queues /\ m.c.needed \in Seq(Blocks) /\ QueueGood(Q)
      /\ m.c.requested \in SUBSET Blocks /\ Starts(Q) # {}
  BY HandlerFields DEF Good, Sane, NextScheduled
<1>2. /\ Download(start, hashes) /\ hashes \in Seq(Blocks) /\ start \in Nat
      /\ \E q \in Peers : Stretch(q, start, hashes)
  BY <1>1, NextDownload
<1>3. AskNext(m, forced) = Ask(m1, "objects", 0, hashes)
  <2>1. m1 = [m EXCEPT !.queue = IF forced THEN SetNextLate(@, FALSE) ELSE @,
                       !.c.requested = @ \cup Range(hashes),
                       !.c.needed = IF forced THEN @ ELSE others]
    BY DEF Handlers
  <2> QED
    BY <2>1 DEF AskNext
<1> HIDE DEF start, hashes, Q
<1>4. needed \in Seq(Blocks) /\ \E k \in 0 .. Len(m.c.needed) : Cut(m.c.needed, k, needed)
  <2>1. CASE forced
    <3>1. Len(m.c.needed) \in Nat /\ \A i \in 1 .. Len(m.c.needed) : 0 + i = i
      BY <1>1
    <3>2. Cut(m.c.needed, 0, m.c.needed)
      BY <3>1 DEF Cut
    <3> QED
      BY <1>1, <2>1, <3>1, <3>2
  <2>2. CASE ~forced
    <3>1. \E low \in Nat : start <= low /\ Stretch(p, low, m.c.needed)
      <4>1. CASE m.c.needed = <<>>
        BY <1>2, <4>1 DEF Stretch
      <4>2. CASE m.c.needed # <<>>
        BY <1>1, <2>2, <4>2, ReservedAbove DEF start, Q
      <4> QED
        BY <4>1, <4>2
    <3>2. PICK low \in Nat : start <= low /\ Stretch(p, low, m.c.needed)
      BY <3>1
    <3>3. PICK q \in Peers : Stretch(q, start, hashes)
      BY <1>2
    <3> HIDE DEF others
    <3>4. others \in Seq(Blocks) /\ \E k \in 0 .. Len(m.c.needed) : Cut(m.c.needed, k, others)
      BY <1>1, <1>2, <3>2, <3>3, NextCut DEF others
    <3> QED
      BY <2>2, <3>4
  <2> QED
    BY <2>1, <2>2
<1> HIDE DEF needed, others
<1>5. PICK k \in 0 .. Len(m.c.needed) : Cut(m.c.needed, k, needed)
  BY <1>4
<1>6. /\ QueueGood(Q2) /\ Starts(Q2) = Starts(Q)
      /\ \A s \in Starts(Q) : /\ Q2.spans[s].owner = Q.spans[s].owner
                              /\ Q2.spans[s].blocks = Q.spans[s].blocks
  BY <1>1, LateIs
<1> HIDE DEF Q2
<1>7. Range(hashes) \in SUBSET Blocks /\ Q2 \in Queues
  BY <1>2, <1>6, SeqFacts DEF QueueGood
<1>8. m1.c \in Contexts
  BY <1>1, <1>4, <1>7 DEF Handlers, Contexts
<1>9. m1 \in Handlers
  BY <1>1, <1>7, <1>8 DEF Handlers
<1>10. m1.queue = Q2 /\ m1.owed = m.owed
  BY <1>1 DEF Handlers
<1>11. /\ m1.c.last = m.c.last /\ m1.c.score = m.c.score /\ m1.c.read = m.c.read
       /\ m1.c.step = m.c.step
       /\ m1.c.expect = m.c.expect /\ m1.c.state = m.c.state /\ m1.c.needed = needed
  BY <1>1 DEF Handlers, Contexts
<1> HIDE DEF m1
<1>12. /\ NeededRight(p, m1.c) /\ Low(m1.c) = Low(m.c) + k
       /\ Low(m.c) \in Int /\ Low(m1.c) \in Int
       /\ m1.c.needed # <<>> => m.c.needed # <<>>
  BY <1>1, <1>5, <1>9, <1>11, NeededCut DEF Good, Sane
<1>13. Sane(p, m1)
  BY <1>6, <1>9, <1>10, <1>11, <1>12 DEF Good, Sane, Count, Order
<1>14. OwnSpans(p, m1.c, m1.owed, m1.queue)
  <2>1. Starts(Q) \in SUBSET Nat
    BY <1>1, QueueFields
  <2>2. ASSUME NEW s \in Starts(Q), m.c.needed # <<>> => s < Low(m.c), m1.c.needed # <<>>
        PROVE  s < Low(m1.c)
    BY <1>12, <2>1, <2>2
  <2> QED
    BY <1>6, <1>10, <2>2 DEF Good, OwnSpans, Filled, Q
<1>15. NoneNew(p, m.queue, m1.queue)
  BY <1>6, <1>10 DEF NoneNew, Filled, Q
<1>16. Good(p, m1) /\ Moves(p, m, m1)
  BY <1>11, <1>13, <1>14, <1>15 DEF Good, Moves
<1>17. RequestRight(p, [kind |-> "objects", from |-> 0, blocks |-> hashes])
  BY <1>2 DEF RequestRight
<1> DEFINE m2 == Ask(m1, "objects", 0, hashes)
<1>18. Moves(p, m1, m2) /\ m2.c.expect = "objects" /\ m2.c.state = m1.c.state
  BY <1>2, <1>11, <1>16, <1>17, AskGood
<1> HIDE DEF m2
<1>19. Moves(p, m, m2) /\ Settled(m2)
  BY <1>11, <1>16, <1>18, MovesOn DEF Settled
<1> QED
  BY <1>3, <1>19 DEF m2

LEMMA ReservesWhen ==
  ASSUME NEW p \in Peers, NEW m, Good(p, m), m.c.needed # <<>> => Low(m.c) > 0
  PROVE  Reserves(p, m.c.last, m.c.needed, m.queue)
<1>1. m.c.last \in Nat /\ m.c.needed \in Seq(Blocks) /\ QueueGood(m.queue)
  BY HandlerFields DEF Good, Sane
<1>2. m.c.needed # <<>> => Stretch(p, Low(m.c), m.c.needed)
  BY DEF Good, Sane, NeededRight
<1>3. m.c.needed # <<>> =>
        \A s \in Starts(m.queue) :
          m.queue.spans[s].owner = p /\ ~Filled(m.queue.spans[s]) => s < Low(m.c)
  BY DEF Good, OwnSpans
<1>4. Low(m.c) = m.c.last + 1 - Len(m.c.needed)
  BY DEF Low
<1> QED
  BY <1>1, <1>2, <1>3, <1>4 DEF Reserves

\* The blocks that a reservation is for, and those needed after it.
LEMMA ReservedBlocks ==
  ASSUME NEW p \in Peers, NEW low \in Nat, NEW needed \in Seq(Blocks), Stretch(p, low, needed),
         NEW first \in 1 .. Len(needed), NEW n \in 1 .. Len(needed) - first + 1,
         low + first - 1 > 0
  PROVE  LET blocks == SubSeq(needed, first, first + n - 1)
         IN /\ Download(low + first - 1, blocks) /\ blocks \in Seq(Blocks)
            /\ HeightOf(blocks[1]) = low + first - 1
<1> DEFINE fin == first + n - 1
           start == low + first - 1
           blocks == SubSeq(needed, first, fin)
<1>1. Len(needed) \in Nat
  OBVIOUS
<1>2. /\ first \in 1 .. Len(needed) + 1 /\ fin \in 0 .. Len(needed) /\ first <= fin + 1
      /\ fin - first + 1 = n /\ n > 0 /\ n \in Nat
      /\ start \in Nat /\ start > 0
  BY <1>1
<1> HIDE DEF fin
<1>3. /\ blocks \in Seq(Blocks) /\ Len(blocks) = fin - first + 1
      /\ Stretch(p, start, blocks)
  <2> HIDE DEF start
  <2>1. /\ SubSeq(needed, first, fin) \in Seq(Blocks)
        /\ Len(SubSeq(needed, first, fin)) = fin - first + 1
        /\ Stretch(p, low + first - 1, SubSeq(needed, first, fin))
    <3>1. /\ p \in Peers /\ low \in Nat /\ needed \in Seq(Blocks) /\ Stretch(p, low, needed)
          /\ first \in 1 .. Len(needed) + 1 /\ fin \in 0 .. Len(needed) /\ first <= fin + 1
      BY <1>2
    <3> QED
      BY <3>1, SubStretch, Zenon
  <2> QED
    BY <2>1 DEF start
<1> HIDE DEF start, blocks
<1>4. blocks # <<>> /\ 1 \in 1 .. Len(blocks)
  <2>1. Len(blocks) = n
    BY <1>2, <1>3
  <2> QED
    BY <1>2, <2>1
<1>5. HeightOf(blocks[1]) = start + 1 - 1
  BY <1>2, <1>3, <1>4, StretchFacts
<1>6. HeightOf(blocks[1]) = start
  BY <1>2, <1>5
<1>7. Download(start, blocks)
  BY <1>2, <1>3, <1>4 DEF Download
<1> QED
  BY <1>3, <1>6, <1>7 DEF blocks, start, fin

\* Where n blocks from start on lie among l ones that end at last.
Lies(last, l, start, n, first, skip, k) ==
  /\ last \in Nat /\ l \in Nat /\ start \in Nat /\ first \in 1 .. l
  /\ n \in 1 .. l - first + 1 /\ first = start - (last - l)
  /\ skip = start - (last - l + 1) /\ k = skip + n

LEMMA SpanSums ==
  ASSUME NEW last, NEW l, NEW start, NEW n, NEW first, NEW skip, NEW k,
         Lies(last, l, start, n, first, skip, k)
  PROVE  /\ k \in 0 .. l /\ k = first - 1 + n /\ start = last + 1 - l + first - 1
         /\ skip + 1 = first /\ skip + n = first + n - 1
BY DEF Lies

LEMMA AskReservedGood ==
  ASSUME NEW p \in Peers, NEW m, Good(p, m), m.c.expect = "nothing",
         m.c.state = "synchronizing", m.c.needed # <<>> => Low(m.c) > 0,
         ReserveSpan(m.queue, m.c.last, SpanSize, p, m.c.needed).n > 0
  PROVE  LET m2 == AskReserved(m, ReserveSpan(m.queue, m.c.last, SpanSize, p, m.c.needed))
         IN Moves(p, m, m2) /\ Settled(m2)
<1> DEFINE span == ReserveSpan(m.queue, m.c.last, SpanSize, p, m.c.needed)
           bs == m.c.needed
           first == span.start - (m.c.last - Len(bs))
           skip == span.start - (m.c.last - Len(bs) + 1)
           k == skip + span.n
           n == span.n
           start == span.start
           blocks == SubSeq(bs, skip + 1, skip + n)
           rest == SubSeq(bs, k + 1, Len(bs))
           R == span.queue
           m1 == [m EXCEPT !.queue = span.queue, !.c.requested = @ \cup Range(blocks),
                           !.c.needed = SubSeq(@, skip + span.n + 1, Len(@))]
           m2 == Ask(m1, "objects", 0, blocks)
<1>1. /\ m \in Handlers /\ bs \in Seq(Blocks) /\ m.c.last \in Nat /\ Len(bs) \in Nat
      /\ m.c.requested \in SUBSET Blocks
  BY HandlerFields DEF Good, Sane
<1>2. /\ first \in 1 .. Len(bs) /\ n \in 1 .. Len(bs) - first + 1
      /\ start \in Nat /\ start > 0 /\ QueueGood(R) /\ OneNew(p, start, m.queue, R)
  BY ReservesWhen, ReserveGood
<1>3. AskReserved(m, span) = m2
  BY DEF AskReserved
<1>4. /\ k \in 0 .. Len(bs) /\ k = first - 1 + n
      /\ start = Low(m.c) + first - 1 /\ skip + 1 = first /\ skip + n = first + n - 1
  <2> DEFINE l == Len(bs)
  <2>1. l \in Nat /\ m.c.last \in Nat /\ start \in Nat /\ n \in 1 .. l - first + 1
        /\ first \in 1 .. l /\ Low(m.c) = m.c.last + 1 - l
    BY <1>1, <1>2 DEF Low
  <2>2. first = start - (m.c.last - l) /\ skip = start - (m.c.last - l + 1) /\ k = skip + n
    OBVIOUS
  <2> HIDE DEF l, start, n, first, skip, k
  <2>3. /\ k \in 0 .. l /\ k = first - 1 + n /\ start = Low(m.c) + first - 1
        /\ skip + 1 = first /\ skip + n = first + n - 1
    <3> DEFINE last == m.c.last
    <3>1. Lies(last, l, start, n, first, skip, k) /\ Low(m.c) = last + 1 - l
      BY <2>1, <2>2 DEF Lies
    <3> HIDE DEF last
    <3> QED
      BY <3>1, SpanSums
  <2> QED
    BY <2>3 DEF l
<1>5. bs # <<>>
  BY <1>1, <1>2
<1> DEFINE m3 == [m EXCEPT !.queue = R, !.c.requested = @ \cup Range(blocks),
                           !.c.needed = rest]
<1>30. m1 = m3
  <2>1. SubSeq(m.c.needed, skip + span.n + 1, Len(m.c.needed)) = rest
    OBVIOUS
  <2> HIDE DEF skip, span, rest, blocks, k
  <2>2. R = span.queue
    OBVIOUS
  <2> QED
    BY <2>1, <2>2
<1>31. blocks = SubSeq(bs, first, first + n - 1)
  <2> HIDE DEF first, skip, n
  <2> QED
    BY <1>4
<1> HIDE DEF span, k, skip, bs, m1, blocks
<1>6. Low(m.c) \in Nat /\ Low(m.c) > 0 /\ Stretch(p, Low(m.c), bs)
  <2>1. Low(m.c) > 0 /\ Stretch(p, Low(m.c), bs)
    BY <1>5 DEF bs, Good, Sane, NeededRight
  <2> QED
    BY <1>1, <2>1 DEF Low, bs
<1>7. Download(start, blocks) /\ blocks \in Seq(Blocks) /\ HeightOf(blocks[1]) = start
  <2>1. Low(m.c) + first - 1 > 0
    BY <1>2, <1>4
  <2> DEFINE low == Low(m.c)
  <2> HIDE DEF low, start, first, n
  <2>2. low \in Nat /\ Stretch(p, low, bs) /\ low + first - 1 > 0 /\ start = low + first - 1
    BY <1>4, <1>6, <2>1 DEF low
  <2> QED
    BY <1>1, <1>2, <1>31, <2>2, ReservedBlocks
<1>8. Cut(bs, k, rest) /\ rest \in Seq(Blocks)
  BY <1>1, <1>4, SubSeqCut
<1> HIDE DEF first, n, start, blocks, rest, R
<1>9. Range(blocks) \in SUBSET Blocks /\ R \in Queues
  BY <1>2, <1>7, SeqFacts DEF QueueGood
<1>10. m1.c \in Contexts
  BY <1>1, <1>8, <1>9, <1>30 DEF Handlers, Contexts
<1>11. m1 \in Handlers
  BY <1>1, <1>9, <1>10, <1>30 DEF Handlers
<1>12. m1.queue = R /\ m1.owed = m.owed
  BY <1>1, <1>30 DEF Handlers
<1>13. /\ m1.c.last = m.c.last /\ m1.c.score = m.c.score /\ m1.c.read = m.c.read
       /\ m1.c.step = m.c.step
       /\ m1.c.expect = m.c.expect /\ m1.c.state = m.c.state /\ m1.c.needed = rest
  BY <1>1, <1>30 DEF Handlers, Contexts
<1> HIDE DEF m3
<1>14. /\ NeededRight(p, m1.c) /\ Low(m1.c) = Low(m.c) + k
       /\ Low(m1.c) \in Int
  BY <1>1, <1>4, <1>8, <1>11, <1>13, NeededCut DEF Good, Sane, bs
<1>15. Sane(p, m1)
  BY <1>2, <1>11, <1>12, <1>13, <1>14 DEF Good, Sane, Count, Order
<1>16. RequestRight(p, [kind |-> "objects", from |-> 0, blocks |-> blocks])
  BY <1>7 DEF RequestRight
<1>17. Sane(p, m2)
  BY <1>7, <1>13, <1>15, <1>16, AskSane
<1> DEFINE r == [kind |-> "objects", from |-> 0, blocks |-> blocks]
<1>18. /\ SameBut(m1, m2) /\ m2.queue = R /\ m2.c.state = m.c.state
       /\ m2.owed = Append(m.owed, r)
       /\ m2.c.expect = "objects" /\ m2.c.needed = rest
  BY <1>7, <1>11, <1>12, <1>13, AskIs
<1> HIDE DEF m2
<1>19. /\ r \in Requests /\ r.kind = "objects" /\ r.blocks = blocks
  BY <1>7 DEF Requests
<1> HIDE DEF r
<1>20. /\ \A s : Asked(s, m.owed) => Asked(s, m2.owed)
       /\ Asked(start, m2.owed)
  <2>1. m.owed \in Seq(Requests)
    BY <1>1, HandlerFields
  <2> QED
    BY <1>7, <1>18, <1>19, <2>1, AskedMore
<1>21. Low(m2.c) = Low(m1.c)
  BY <1>13, <1>18 DEF SameBut, Low
<1>22. start < Low(m2.c) /\ Low(m.c) < Low(m2.c) /\ Low(m2.c) \in Int /\ start \in Nat
  BY <1>1, <1>2, <1>4, <1>6, <1>14, <1>21
<1>23. OwnSpans(p, m2.c, m2.owed, m2.queue)
  <2>1. SUFFICES ASSUME NEW s \in Starts(R), R.spans[s].owner = p, ~Filled(R.spans[s])
                 PROVE  s < Low(m2.c) /\ Asked(s, m2.owed)
    BY <1>18 DEF OwnSpans
  <2>2. CASE s = start
    BY <1>20, <1>22, <2>2
  <2>3. CASE s # start
    <3>1. s \in Starts(m.queue) /\ ~Filled(m.queue.spans[s]) /\ m.queue.spans[s].owner = p
      BY <1>2, <2>1, <2>3 DEF OneNew
    <3>2. s < Low(m.c) /\ Asked(s, m.owed)
      BY <1>5, <3>1 DEF Good, OwnSpans, bs
    <3>3. s \in Nat
      BY <1>9, QueueFields
    <3> QED
      BY <1>6, <1>20, <1>22, <3>2, <3>3
  <2> QED
    BY <2>2, <2>3
<1>24. NoneNew(p, m.queue, m2.queue)
  BY <1>2, <1>18, NoneNewAtAll
<1>25. Moves(p, m, m2) /\ Settled(m2)
  BY <1>13, <1>17, <1>18, <1>23, <1>24 DEF Moves, Good, SameBut, Settled
<1> QED
  BY <1>3, <1>25 DEF span, bs

LEMMA NoneNeededGood ==
  ASSUME NEW p \in Peers, NEW m, Good(p, m), m.c.expect = "nothing"
  PROVE  Moves(p, m, NoneNeeded(p, m)) /\ Settled(NoneNeeded(p, m))
<1>1. NoneNeeded(p, m) \in {Failure(m), SetNormal(m)}
  BY DEF NoneNeeded
<1> QED
  BY <1>1, EndsGood

LEMMA AskObjectsGood ==
  ASSUME NEW p \in Peers, NEW m0, NEW force \in BOOLEAN, NEW lockFree \in BOOLEAN,
         Good(p, m0), m0.c.expect = "nothing", m0.c.state = "synchronizing", Rooted
  PROVE  LET out == AskObjects(p, m0, force, lockFree)
         IN Moves(p, m0, out) /\ Settled(out)
<1> DEFINE m == SkipUnneeded(m0, FALSE)
           span == ReserveSpan(m.queue, m.c.last, SpanSize, p, m.c.needed)
           out == AskObjects(p, m0, force, lockFree)
<1>1. HaveBlock(Genesis)
  BY DEF Rooted, HaveBlock
<1>2. /\ Moves(p, m0, m) /\ m.queue = m0.queue /\ m.c.expect = "nothing"
      /\ m.c.state = "synchronizing" /\ (m.c.needed # <<>> => Low(m.c) > 0)
  BY <1>1, SkipGood
<1>3. \/ out = AskChain(p, m0, lockFree)
      \/ NextScheduled(m0.queue) /\ out = AskNext(m0, TRUE)
      \/ out = NoneNeeded(p, m)
      \/ span.n > 0 /\ out = AskReserved(m, span)
      \/ ~(span.n > 0) /\ NextScheduled(m.queue) /\ out = AskNext(m, FALSE)
      \/ out = SetNormal(m)
      \/ out = Failure(m)
  BY DEF AskObjects
<1> HIDE DEF out, m
<1>4. Good(p, m)
  BY <1>2 DEF Moves
<1>5. CASE out = AskChain(p, m0, lockFree)
  BY <1>5, AskChainGood DEF out
<1>6. CASE NextScheduled(m0.queue) /\ out = AskNext(m0, TRUE)
  BY <1>6, AskNextGood DEF out
<1>7. ASSUME Moves(p, m, out), Settled(out)
      PROVE  Moves(p, m0, out) /\ Settled(out)
  BY <1>2, <1>7, MovesOn
<1>8. CASE out \in {NoneNeeded(p, m), SetNormal(m), Failure(m)}
  BY <1>2, <1>4, <1>7, <1>8, NoneNeededGood, EndsGood DEF out
<1>9. CASE span.n > 0 /\ out = AskReserved(m, span)
  BY <1>2, <1>4, <1>7, <1>9, AskReservedGood DEF out
<1>10. CASE ~(span.n > 0) /\ NextScheduled(m.queue) /\ out = AskNext(m, FALSE)
  <2>1. Reserves(p, m.c.last, m.c.needed, m.queue)
    BY <1>2, <1>4, ReservesWhen
  <2>2. Range(m.c.needed) \subseteq m.queue.requested
    BY <1>10, <2>1, ReserveNone
  <2> HIDE DEF span
  <2> QED
    BY <1>2, <1>4, <1>7, <1>10, <2>2, AskNextGood DEF out
<1> QED
  BY <1>3, <1>5, <1>6, <1>8, <1>9, <1>10 DEF out

LEMMA ActiveGood ==
  ASSUME NEW p \in Peers, NEW m, Good(p, m)
  PROVE  LET m2 == [m EXCEPT !.c.state = "synchronizing"]
         IN /\ Moves(p, m, m2) /\ m2.c.expect = m.c.expect /\ m2.c.state = "synchronizing"
            /\ m2.queue = m.queue /\ m2.owed = m.owed
<1> DEFINE m2 == [m EXCEPT !.c.state = "synchronizing"]
<1>1. m \in Handlers
  BY DEF Good, Sane
<1>2. m2.c \in Contexts
  BY <1>1 DEF Handlers, Contexts
<1>3. m2 \in Handlers /\ m2.queue = m.queue /\ m2.owed = m.owed
  BY <1>1, <1>2 DEF Handlers
<1>4. /\ m2.c.last = m.c.last /\ m2.c.score = m.c.score /\ m2.c.read = m.c.read
      /\ m2.c.step = m.c.step
      /\ m2.c.expect = m.c.expect /\ m2.c.state = "synchronizing"
      /\ m2.c.needed = m.c.needed
  BY <1>1 DEF Handlers, Contexts
<1> HIDE DEF m2
<1>5. SameBut(m, m2)
  BY <1>3, <1>4 DEF SameBut
<1>6. Moves(p, m, m2)
  BY <1>3, <1>4, <1>5, SameGood
<1> QED
  BY <1>3, <1>4, <1>6 DEF m2

LEMMA ResumeGood ==
  ASSUME NEW p \in Peers, NEW m0, NEW lockFree \in BOOLEAN, NEW slow \in BOOLEAN,
         NEW wedged \in BOOLEAN, Good(p, m0), m0.c.expect = "nothing", Rooted
  PROVE  LET out == Resume(p, m0, lockFree, slow, wedged)
         IN Moves(p, m0, out) /\ Settled(out)
<1> DEFINE m == SkipUnneeded(m0, TRUE)
           active == [m EXCEPT !.c.state = "synchronizing"]
           out == Resume(p, m0, lockFree, slow, wedged)
<1>1. HaveBlock(Genesis)
  BY DEF Rooted, HaveBlock
<1>2. Moves(p, m0, m) /\ m.c.expect = "nothing"
  BY <1>1, SkipGood
<1>3. \/ \E force \in BOOLEAN : out = AskObjects(p, active, force, lockFree)
      \/ out = NoneNeeded(p, m)
      \/ out = SetStandby(m, TRUE) \/ out = SetStandby(m, FALSE)
      \/ out = Failure(m)
  BY DEF Resume
<1> HIDE DEF out, m
<1>4. Good(p, m)
  BY <1>2 DEF Moves
<1>5. Moves(p, m, active) /\ active.c.expect = "nothing" /\ active.c.state = "synchronizing"
  BY <1>2, <1>4, ActiveGood
<1> HIDE DEF active
<1>6. ASSUME NEW force \in BOOLEAN, out = AskObjects(p, active, force, lockFree)
      PROVE  Moves(p, m, out) /\ Settled(out)
  <2>1. Good(p, active)
    BY <1>5 DEF Moves
  <2>2. Moves(p, active, out) /\ Settled(out)
    BY <1>5, <1>6, <2>1, AskObjectsGood
  <2> QED
    BY <1>5, <2>2, MovesOn
<1>7. Moves(p, m, out) /\ Settled(out)
  BY <1>2, <1>3, <1>4, <1>6, NoneNeededGood, EndsGood
<1> QED
  BY <1>2, <1>7, MovesOn DEF out

\* Another queue, with no scheduled span that was not there.
LEMMA QueueIn ==
  ASSUME NEW p \in Peers, NEW m, NEW R, Good(p, m), QueueGood(R),
         \A s \in Starts(R) :
           ~Filled(R.spans[s]) => /\ s \in Starts(m.queue) /\ ~Filled(m.queue.spans[s])
                                  /\ m.queue.spans[s].owner = R.spans[s].owner
  PROVE  LET m2 == [m EXCEPT !.queue = R]
         IN /\ Moves(p, m, m2) /\ m2.queue = R /\ m2.c = m.c /\ m2.owed = m.owed
            /\ m2.fails = m.fails
<1> DEFINE m2 == [m EXCEPT !.queue = R]
<1>1. m \in Handlers /\ R \in Queues
  BY DEF Good, Sane, QueueGood
<1>2. m2 \in Handlers /\ m2.queue = R /\ m2.c = m.c /\ m2.owed = m.owed /\ m2.fails = m.fails
  BY <1>1 DEF Handlers
<1> HIDE DEF m2
<1>3. Sane(p, m2)
  BY <1>2 DEF Good, Sane
<1>4. OwnSpans(p, m2.c, m2.owed, m2.queue)
  BY <1>2 DEF Good, OwnSpans
<1>5. NoneNew(p, m.queue, m2.queue)
  BY <1>2 DEF NoneNew
<1> QED
  BY <1>2, <1>3, <1>4, <1>5 DEF Moves, Good, m2

ErasedFrom(Q, R) ==
  /\ QueueGood(R) /\ Starts(R) \subseteq Starts(Q)
  /\ \A s \in Starts(R) : R.spans[s] = Q.spans[s]

LEMMA ErasedIn ==
  ASSUME NEW p \in Peers, NEW m, NEW R, Good(p, m), ErasedFrom(m.queue, R)
  PROVE  LET m2 == [m EXCEPT !.queue = R]
         IN /\ Moves(p, m, m2) /\ m2.queue = R /\ m2.c = m.c /\ m2.owed = m.owed
            /\ m2.fails = m.fails
<1>1. /\ QueueGood(R)
      /\ \A s \in Starts(R) :
           ~Filled(R.spans[s]) => /\ s \in Starts(m.queue) /\ ~Filled(m.queue.spans[s])
                                  /\ m.queue.spans[s].owner = R.spans[s].owner
  BY DEF ErasedFrom
<1> QED
  BY <1>1, QueueIn

LEMMA FlushGood ==
  ASSUME NEW Q, QueueGood(Q), NEW owner, NEW all \in BOOLEAN
  PROVE  /\ ErasedFrom(Q, FlushSpans(Q, owner, all))
         /\ \A s \in Starts(FlushSpans(Q, owner, all)) :
              ~Filled(Q.spans[s]) => Q.spans[s].owner # owner
<1> DEFINE gone == {s \in Starts(Q) : Q.spans[s].owner = owner /\ (all \/ ~Filled(Q.spans[s]))}
<1>1. FlushSpans(Q, owner, all) = Erase(Q, gone) /\ gone \in SUBSET Starts(Q)
  BY DEF FlushSpans
<1>2. \A s \in Starts(Q) \ gone : ~Filled(Q.spans[s]) => Q.spans[s].owner # owner
  OBVIOUS
<1> HIDE DEF gone
<1> QED
  BY <1>1, <1>2, EraseGood DEF ErasedFrom

LEMMA FlushStaleGood ==
  ASSUME NEW Q, QueueGood(Q), NEW live
  PROVE  /\ ErasedFrom(Q, FlushStaleSpans(Q, live))
         /\ \A s \in Starts(FlushStaleSpans(Q, live)) :
              ~Filled(Q.spans[s]) => Q.spans[s].owner \in live
<1> DEFINE gone == {s \in Starts(Q) : Q.spans[s].owner \notin live /\ ~Filled(Q.spans[s])}
<1>1. FlushStaleSpans(Q, live) = Erase(Q, gone) /\ gone \in SUBSET Starts(Q)
  BY DEF FlushStaleSpans
<1>2. \A s \in Starts(Q) \ gone : ~Filled(Q.spans[s]) => Q.spans[s].owner \in live
  OBVIOUS
<1> HIDE DEF gone
<1> QED
  BY <1>1, <1>2, EraseGood DEF ErasedFrom

LEMMA RemoveGood ==
  ASSUME NEW Q, QueueGood(Q), NEW owner, NEW start
  PROVE  ErasedFrom(Q, RemoveSpans(Q, owner, start))
<1> DEFINE gone == {s \in Starts(Q) : Q.spans[s].owner = owner /\ s <= start}
<1>1. RemoveSpans(Q, owner, start) = Erase(Q, gone) /\ gone \in SUBSET Starts(Q)
  BY DEF RemoveSpans
<1> HIDE DEF gone
<1> QED
  BY <1>1, EraseGood DEF ErasedFrom

\* Only connections that are there have scheduled spans.
AllLive(Q) == \A s \in Starts(Q) : ~Filled(Q.spans[s]) => Q.spans[s].owner \in Live

\* request_missing_objects keeps what is good, and leaves the connection with
\* an answer to wait for, or out of the download.
LEMMA RequestMissingGood ==
  ASSUME NEW p \in Peers, NEW m0, NEW force \in BOOLEAN, NEW lockFree \in BOOLEAN,
         NEW slow \in BOOLEAN, NEW wedged \in BOOLEAN, p \in Live,
         Good(p, m0), m0.c.expect = "nothing", m0.c.state = "synchronizing", Rooted
  PROVE  LET out == RequestMissing(p, m0, force, lockFree, slow, wedged)
         IN Moves(p, m0, out) /\ Settled(out) /\ AllLive(out.queue)
<1> DEFINE R == FlushStaleSpans(m0.queue, Live)
           m == [m0 EXCEPT !.queue = R]
           out == RequestMissing(p, m0, force, lockFree, slow, wedged)
<1>0. QueueGood(m0.queue) /\ m0 \in Handlers
  BY DEF Good, Sane
<1>1. /\ ErasedFrom(m0.queue, R)
      /\ \A s \in Starts(R) : ~Filled(m0.queue.spans[s]) => m0.queue.spans[s].owner \in Live
  BY <1>0, FlushStaleGood
<1>2. out = IF force THEN AskObjects(p, m, TRUE, lockFree)
            ELSE Resume(p, m, lockFree, slow, wedged)
  BY <1>0 DEF RequestMissing, Handlers
<1> HIDE DEF R, out
<1>3. Moves(p, m0, m) /\ m.queue = R /\ m.c = m0.c
  BY <1>1, ErasedIn
<1> HIDE DEF m
<1>4. Good(p, m) /\ m.c.expect = "nothing" /\ m.c.state = "synchronizing"
  BY <1>3 DEF Moves
<1>5. Moves(p, m, out) /\ Settled(out)
  BY <1>2, <1>4, AskObjectsGood, ResumeGood
<1>6. AllLive(m.queue)
  BY <1>1, <1>3 DEF AllLive, ErasedFrom
<1>7. AllLive(out.queue)
  <2>1. NoneNew(p, m.queue, out.queue)
    BY <1>5 DEF Moves
  <2>2. SUFFICES ASSUME NEW s \in Starts(out.queue), ~Filled(out.queue.spans[s]),
                        out.queue.spans[s].owner # p
                 PROVE  out.queue.spans[s].owner \in Live
    BY DEF AllLive
  <2>3. /\ s \in Starts(m.queue) /\ ~Filled(m.queue.spans[s])
        /\ m.queue.spans[s].owner = out.queue.spans[s].owner
    BY <2>1, <2>2 DEF NoneNew
  <2> QED
    BY <1>6, <2>3 DEF AllLive
<1> QED
  BY <1>3, <1>5, <1>7, MovesOn DEF out

-----------------------------------------------------------------------------
(* The inductive invariant *)

TypesRight ==
  /\ target \in Nat
  /\ status \in [Peers -> {"before", "open", "closing", "closed"}]
  /\ conn \in [Peers -> Contexts] /\ owed \in [Peers -> Seq(Requests)]
  /\ adding \in Peers \cup {None}
  /\ taken = <<>> \/ taken \in (Peers \cup {None}) \X Nat

\* The chain is the beginning of that of a peer, and valid.
ChainRight ==
  /\ chain \in Seq(Blocks) /\ Height > 0
  /\ \E q \in Peers : Stretch(q, 0, chain)
  /\ Range(chain) \cap Invalid = {}
  /\ invalid \subseteq Invalid \cap Blocks

AllGood == \A p \in Peers : Good(p, Handler(p))

Busy(p) == adding = p \/ conn[p].read > 0 \/ conn[p].step # "none"

\* A handler that has started has nothing to wait for, and one that waits for
\* an answer synchronizes.  One that only returns has seen a block fail.
Phase(p) ==
  /\ Busy(p) => /\ conn[p].expect = "nothing" /\ conn[p].state = "synchronizing"
                /\ p \in Live
  /\ conn[p].expect # "nothing" => conn[p].state = "synchronizing"
  /\ adding = p \/ conn[p].step # "none" => conn[p].read = 0
  /\ conn[p].step = "returns" => invalid # {}

Local(p) == Phase(p) /\ (invalid = {} => ~Forgotten(p))

Inv ==
  /\ TypesRight /\ ChainRight /\ AllGood /\ AllLive(queue)
  /\ \A p \in Peers : Local(p)

LEMMA GoodIn ==
  ASSUME NEW p \in Peers, Inv
  PROVE  /\ Good(p, Handler(p)) /\ QueueGood(queue) /\ Handler(p) \in Handlers
         /\ Handler(p).c = conn[p] /\ Handler(p).queue = queue /\ Handler(p).owed = owed[p]
         /\ Handler(p).fails = FALSE /\ conn[p] \in Contexts /\ owed[p] \in Seq(Requests)
         /\ Local(p) /\ Rooted
<1>1. Good(p, Handler(p)) /\ Local(p) /\ conn[p] \in Contexts /\ owed[p] \in Seq(Requests)
  BY DEF Inv, AllGood, TypesRight
<1>2. Handler(p).queue = queue /\ Handler(p).c = conn[p] /\ Handler(p).owed = owed[p]
      /\ Handler(p).fails = FALSE
  BY DEF Handler
<1>3. QueueGood(queue) /\ Handler(p) \in Handlers
  BY <1>1, <1>2 DEF Good, Sane
<1>4. Rooted
  <2>1. PICK q \in Peers : Stretch(q, 0, chain)
    BY DEF Inv, ChainRight
  <2>2. chain \in Seq(Blocks) /\ Len(chain) > 0
    BY DEF Inv, ChainRight, Height
  <2>3. 1 \in 1 .. Len(chain) /\ chain[1] = ChainOf[q][0 + 1]
    BY <2>1, <2>2 DEF Stretch
  <2>4. chain[1] = Genesis
    BY <2>3, GenesisFirst
  <2> QED
    BY <2>2, <2>3, <2>4 DEF Rooted, Range
<1> QED
  BY <1>1, <1>2, <1>3, <1>4

\* Whether a handler is good rests on three of its fields.
LEMMA GoodFields ==
  ASSUME NEW p \in Peers, NEW m, Good(p, m)
  PROVE  Good(p, [c |-> m.c, queue |-> m.queue, owed |-> m.owed, fails |-> FALSE])
<1> DEFINE m2 == [c |-> m.c, queue |-> m.queue, owed |-> m.owed, fails |-> FALSE]
<1>1. m2.c = m.c /\ m2.queue = m.queue /\ m2.owed = m.owed
  OBVIOUS
<1>2. m2 \in Handlers
  BY HandlerFields DEF Good, Sane, Handlers
<1> HIDE DEF m2
<1>3. Good(p, m2)
  BY <1>1, <1>2 DEF Good, Sane, OwnSpans
<1> QED
  BY <1>3 DEF m2

\* The others stay good when a connection p works on the queue.
LEMMA OthersGood ==
  ASSUME NEW p, NEW q \in Peers, q # p, NEW c, NEW owes, NEW Q, NEW R, QueueGood(R),
         NoneNew(p, Q, R), Good(q, [c |-> c, queue |-> Q, owed |-> owes, fails |-> FALSE])
  PROVE  Good(q, [c |-> c, queue |-> R, owed |-> owes, fails |-> FALSE])
<1> DEFINE m == [c |-> c, queue |-> Q, owed |-> owes, fails |-> FALSE]
           m2 == [c |-> c, queue |-> R, owed |-> owes, fails |-> FALSE]
<1>1. m.c = c /\ m.queue = Q /\ m.owed = owes /\ m2.c = c /\ m2.queue = R /\ m2.owed = owes
  OBVIOUS
<1>2. Good(q, m)
  OBVIOUS
<1>3. m2 \in Handlers
  BY <1>1, <1>2, HandlerFields DEF Good, Sane, Handlers, QueueGood
<1> HIDE DEF m, m2
<1>4. Sane(q, m2)
  BY <1>1, <1>2, <1>3 DEF Good, Sane
<1>5. OwnSpans(q, c, owes, Q)
  BY <1>1, <1>2 DEF Good
<1>6. OwnSpans(q, c, owes, R)
  BY <1>5 DEF OwnSpans, NoneNew
<1> QED
  BY <1>1, <1>4, <1>6 DEF Good, m2

\* The part of the state that a handler of p leaves right.
Acted(p) ==
  /\ conn' \in [Peers -> Contexts] /\ owed' \in [Peers -> Seq(Requests)]
  /\ status' \in [Peers -> {"before", "open", "closing", "closed"}]
  /\ AllGood' /\ AllLive(queue)' /\ Live \ {p} \subseteq Live'
  /\ \A q \in Peers : q # p => conn'[q] = conn[q] /\ status'[q] = status[q]

LEMMA WriteTurns ==
  ASSUME NEW p \in Peers, NEW m, Inv, Write(p, m), Good(p, m), NoneNew(p, queue, m.queue),
         \E s \in {"before", "open", "closing", "closed"} : status' = [status EXCEPT ![p] = s],
         \A s \in Starts(m.queue) :
           ~Filled(m.queue.spans[s]) /\ m.queue.spans[s].owner = p => p \in Live'
  PROVE  Acted(p) /\ conn'[p] = m.c /\ owed'[p] = m.owed
<1>1. m.c \in Contexts /\ m.owed \in Seq(Requests) /\ QueueGood(m.queue)
  BY HandlerFields DEF Good, Sane
<1>2. conn \in [Peers -> Contexts] /\ owed \in [Peers -> Seq(Requests)]
      /\ status \in [Peers -> {"before", "open", "closing", "closed"}]
  BY DEF Inv, TypesRight
<1>3. /\ conn' = [conn EXCEPT ![p] = m.c] /\ queue' = m.queue
      /\ owed' = [owed EXCEPT ![p] = m.owed]
  BY DEF Write
<1>4. conn' \in [Peers -> Contexts] /\ owed' \in [Peers -> Seq(Requests)]
      /\ status' \in [Peers -> {"before", "open", "closing", "closed"}]
  BY <1>1, <1>2, <1>3
<1>5. conn'[p] = m.c /\ owed'[p] = m.owed
  BY <1>2, <1>3
<1>6. \A q \in Peers : q # p => conn'[q] = conn[q] /\ owed'[q] = owed[q] /\ status'[q] = status[q]
  BY <1>2, <1>3
<1>7. Live \ {p} \subseteq Live'
  BY <1>6 DEF Live
<1>8. AllGood'
  <2>1. SUFFICES ASSUME NEW q \in Peers
                 PROVE  Good(q, [c |-> conn'[q], queue |-> queue', owed |-> owed'[q], fails |-> FALSE])
    BY DEF AllGood, Handler
  <2>2. CASE q = p
    <3>1. Good(p, [c |-> m.c, queue |-> m.queue, owed |-> m.owed, fails |-> FALSE])
      BY GoodFields
    <3> QED
      BY <1>3, <1>5, <2>2, <3>1
  <2>3. CASE q # p
    <3>1. Good(q, [c |-> conn[q], queue |-> queue, owed |-> owed[q], fails |-> FALSE])
      BY DEF Inv, AllGood, Handler
    <3>2. Good(q, [c |-> conn[q], queue |-> m.queue, owed |-> owed[q], fails |-> FALSE])
      BY <1>1, <2>3, <3>1, OthersGood
    <3> QED
      BY <1>3, <1>6, <2>3, <3>2
  <2> QED
    BY <2>2, <2>3
<1>9. AllLive(queue)'
  <2>1. SUFFICES ASSUME NEW s \in Starts(m.queue), ~Filled(m.queue.spans[s]),
                        m.queue.spans[s].owner # p
                 PROVE  m.queue.spans[s].owner \in Live'
    BY <1>3 DEF AllLive
  <2>2. /\ s \in Starts(queue) /\ ~Filled(queue.spans[s])
        /\ queue.spans[s].owner = m.queue.spans[s].owner
    BY <2>1 DEF NoneNew
  <2> QED
    BY <1>7, <2>1, <2>2 DEF Inv, AllLive
<1> QED
  BY <1>4, <1>5, <1>6, <1>7, <1>8, <1>9 DEF Acted

LEMMA WriteGood ==
  ASSUME NEW p \in Peers, NEW m, Inv, Write(p, m), Good(p, m), NoneNew(p, queue, m.queue),
         p \in Live, status' = status \/ status' = [status EXCEPT ![p] = "closing"]
  PROVE  Acted(p) /\ conn'[p] = m.c /\ owed'[p] = m.owed
<1>1. status \in [Peers -> {"before", "open", "closing", "closed"}]
  BY DEF Inv, TypesRight
<1>2. \E s \in {"before", "open", "closing", "closed"} : status' = [status EXCEPT ![p] = s]
  <2>1. status = [status EXCEPT ![p] = status[p]] /\ status[p] \in {"before", "open", "closing", "closed"}
    BY <1>1
  <2> QED
    BY <2>1
<1>3. p \in Live'
  BY <1>1 DEF Live
<1> QED
  BY <1>2, <1>3, WriteTurns

\* A connection is right when nothing of it runs and it waits, will be called,
\* is dropped or does not synchronize.
LEMMA LocalDone ==
  ASSUME NEW p \in Peers, adding' # p, conn'[p].read = 0, conn'[p].step = "none",
         conn'[p].expect # "nothing" => conn'[p].state = "synchronizing",
         \/ status'[p] # "open" \/ conn'[p].state # "synchronizing" \/ conn'[p].called
         \/ conn'[p].expect # "nothing" \/ invalid' # {}
  PROVE  Local(p)'
BY DEF Local, Phase, Busy, Forgotten

LEMMA LocalKept ==
  ASSUME NEW p \in Peers, Local(p), conn'[p] = conn[p], p \in Live => p \in Live',
         status'[p] = status[p] \/ status'[p] = "closing",
         adding' = p <=> adding = p, invalid' = {} => invalid = {}
  PROVE  Local(p)'
BY DEF Local, Phase, Busy, Forgotten, Free

LEMMA InvAfter ==
  ASSUME NEW p \in Peers, Inv, Acted(p), ChainRight', invalid' = {} => invalid = {},
         target' \in Nat, adding' \in Peers \cup {None},
         taken' = <<>> \/ taken' \in (Peers \cup {None}) \X Nat,
         Local(p)', \A q \in Peers : q # p => (adding' = q <=> adding = q)
  PROVE  Inv'
<1>1. \A q \in Peers : q # p => Local(q)'
  <2>1. TAKE q \in Peers
  <2>2. HAVE q # p
  <2>3. /\ Local(q) /\ conn'[q] = conn[q] /\ status'[q] = status[q]
        /\ (q \in Live => q \in Live')
        /\ (adding' = q <=> adding = q) /\ (invalid' = {} => invalid = {})
    BY <2>2 DEF Inv, Acted
  <2> QED
    BY <2>3, LocalKept
<1>2. \A q \in Peers : Local(q)'
  BY <1>1
<1>3. TypesRight'
  BY DEF TypesRight, Acted
<1> QED
  BY <1>2, <1>3 DEF Inv, Acted

\* A connection that is dropped loses what it has scheduled.
LEMMA DropGood ==
  ASSUME NEW p \in Peers, NEW m, Inv, p \in Live, Sane(p, m), NoneNew(p, queue, m.queue),
         Drop(p, m)
  PROVE  Acted(p) /\ conn'[p] = m.c /\ status'[p] = "closing"
<1> DEFINE R == FlushSpans(m.queue, p, FALSE)
           m2 == [m EXCEPT !.queue = R]
<1>1. m \in Handlers /\ QueueGood(m.queue)
  BY DEF Sane
<1>2. /\ ErasedFrom(m.queue, R)
      /\ \A s \in Starts(R) : ~Filled(m.queue.spans[s]) => m.queue.spans[s].owner # p
  BY <1>1, FlushGood
<1>3. Write(p, m2) /\ status' = [status EXCEPT ![p] = "closing"]
  BY <1>1 DEF Drop, Handlers
<1> HIDE DEF R
<1>4. R \in Queues
  BY <1>2 DEF ErasedFrom, QueueGood
<1>5. m2 \in Handlers /\ m2.queue = R /\ m2.c = m.c /\ m2.owed = m.owed
  BY <1>1, <1>4 DEF Handlers
<1> HIDE DEF m2
<1>6. Sane(p, m2)
  BY <1>2, <1>5 DEF Sane, ErasedFrom
<1>7. OwnSpans(p, m2.c, m2.owed, m2.queue)
  BY <1>2, <1>5 DEF OwnSpans, ErasedFrom
<1>8. NoneNew(p, m.queue, m2.queue)
  BY <1>2, <1>5 DEF NoneNew, ErasedFrom
<1>9. NoneNew(p, queue, m2.queue) /\ Good(p, m2)
  BY <1>6, <1>7, <1>8, NoneNewAtAll DEF Good
<1>10. Acted(p) /\ conn'[p] = m2.c
  BY <1>3, <1>9, WriteGood
<1>11. status'[p] = "closing"
  BY <1>3 DEF Inv, TypesRight
<1> QED
  BY <1>5, <1>10, <1>11

LEMMA MaxOfTwo ==
  ASSUME NEW a \in Nat, NEW b \in Nat
  PROVE  Max({a, b}) \in Nat
<1>1. \E x \in {a, b} : \A y \in {a, b} : x >= y
  BY SMT
<1>2. Max({a, b}) \in {a, b}
  BY <1>1 DEF Max
<1> QED
  BY <1>2

\* Its callers: nothing is left to wait for, and the connection synchronizes.
Ready(p, m) ==
  /\ Good(p, m) /\ NoneNew(p, queue, m.queue)
  /\ m.c.expect = "nothing" /\ m.c.state = "synchronizing" /\ m.c.read = 0
  /\ m.c.step = "none"

LEMMA RequestGood ==
  ASSUME NEW p \in Peers, NEW m, NEW force \in BOOLEAN, NEW entry \in BOOLEAN,
         Inv, p \in Live, Ready(p, m), Request(p, m, force, entry)
  PROVE  /\ Acted(p) /\ target' \in Nat /\ conn'[p].read = 0 /\ conn'[p].step = "none"
         /\ conn'[p].expect # "nothing" => conn'[p].state = "synchronizing"
         /\ \/ status'[p] # "open" \/ conn'[p].state # "synchronizing"
            \/ conn'[p].expect # "nothing"
<1> DEFINE lockFree == adding = None
<1>0. lockFree \in BOOLEAN
  OBVIOUS
<1>1. PICK slow \in BOOLEAN, wedged \in BOOLEAN :
        LET out == RequestMissing(p, m, force, lockFree, slow, wedged)
        IN IF out.fails THEN Drop(p, out) /\ UNCHANGED target
           ELSE /\ Write(p, [out EXCEPT !.c.any = @ /\ ~entry])
                /\ target' = IF entry THEN Max({target, Remote(p)}) ELSE target
                /\ UNCHANGED status
  BY DEF Request
<1> HIDE DEF lockFree
<1> DEFINE out == RequestMissing(p, m, force, lockFree, slow, wedged)
           m2 == [out EXCEPT !.c.any = @ /\ ~entry]
<1>2. Moves(p, m, out) /\ Settled(out)
  <2>1. Rooted
    BY GoodIn
  <2> QED
    BY <1>0, <2>1, RequestMissingGood DEF Ready
<1>3. \/ out.fails /\ Drop(p, out) /\ UNCHANGED target
      \/ /\ ~out.fails /\ Write(p, m2) /\ UNCHANGED status
         /\ target' = IF entry THEN Max({target, Remote(p)}) ELSE target
  BY <1>1
<1> HIDE DEF out
<1>4. Good(p, out) /\ NoneNew(p, queue, out.queue) /\ out.c.read = 0
      /\ out.c.step = "none"
  BY <1>2, NoneNewAtAll DEF Moves, Ready
<1>5. out \in Handlers /\ Sane(p, out)
  BY <1>4 DEF Good, Sane
<1>6. target \in Nat
  BY DEF Inv, TypesRight
<1>7. CASE out.fails /\ Drop(p, out) /\ UNCHANGED target
  <2>1. Acted(p) /\ conn'[p] = out.c /\ status'[p] = "closing"
    BY <1>4, <1>5, <1>7, DropGood
  <2> QED
    BY <1>2, <1>4, <1>6, <1>7, <2>1 DEF Settled
<1>8. CASE /\ ~out.fails /\ Write(p, m2) /\ UNCHANGED status
           /\ target' = IF entry THEN Max({target, Remote(p)}) ELSE target
  <2>1. m2.c \in Contexts
    BY <1>5 DEF Handlers, Contexts
  <2>2. m2 \in Handlers /\ m2.queue = out.queue /\ m2.owed = out.owed
    BY <1>5, <2>1 DEF Handlers
  <2>3. /\ m2.c.last = out.c.last /\ m2.c.score = out.c.score /\ m2.c.read = out.c.read
        /\ m2.c.step = out.c.step
        /\ m2.c.expect = out.c.expect /\ m2.c.state = out.c.state
        /\ m2.c.needed = out.c.needed
    BY <1>5 DEF Handlers, Contexts
  <2> HIDE DEF m2
  <2>4. SameBut(out, m2)
    BY <2>2, <2>3 DEF SameBut
  <2>5. Good(p, m2) /\ NoneNew(p, queue, m2.queue)
    BY <1>4, <2>2, <2>3, <2>4, SameGood, NoneNewAtAll DEF Moves
  <2>6. Acted(p) /\ conn'[p] = m2.c
    BY <1>8, <2>5, WriteGood
  <2>7. target' \in Nat
    BY <1>6, <1>8, MaxOfTwo, ChainFacts
  <2> QED
    BY <1>2, <1>4, <1>8, <2>3, <2>6, <2>7 DEF Settled
<1> QED
  BY <1>3, <1>7, <1>8

\* A handler that runs ends with a request, and its connection is right.
LEMMA RequestEnds ==
  ASSUME NEW p \in Peers, NEW m, NEW force \in BOOLEAN, NEW entry \in BOOLEAN,
         Inv, p \in Live, Ready(p, m), Request(p, m, force, entry), adding' # p
  PROVE  Acted(p) /\ target' \in Nat /\ Local(p)'
BY RequestGood, LocalDone

LEMMA StepContext ==
  ASSUME NEW c \in Contexts, NEW step \in Steps
  PROVE  LET c2 == [c EXCEPT !.step = step]
         IN /\ c2 \in Contexts /\ c2.step = step /\ c2.read = c.read
            /\ c2.expect = c.expect /\ c2.state = c.state
BY DEF Contexts

\* Where the handler of a connection is makes no difference.
Restep(m, step) == [m EXCEPT !.c.step = step]

LEMMA StepGood ==
  ASSUME NEW p \in Peers, NEW m, NEW step \in Steps, Good(p, m)
  PROVE  LET m2 == Restep(m, step)
         IN /\ Good(p, m2) /\ m2.queue = m.queue /\ m2.c.step = step
            /\ m2.c.read = m.c.read /\ m2.c.expect = m.c.expect
            /\ m2.c.state = m.c.state
<1> DEFINE m2 == Restep(m, step)
<1>1. m \in Handlers
  BY DEF Good, Sane
<1>2. m2.c \in Contexts
  BY <1>1 DEF Handlers, Contexts, Restep
<1>3. m2 \in Handlers /\ m2.queue = m.queue /\ m2.owed = m.owed
  BY <1>1, <1>2 DEF Handlers, Restep
<1>4. /\ m2.c.last = m.c.last /\ m2.c.needed = m.c.needed /\ m2.c.expect = m.c.expect
      /\ m2.c.state = m.c.state /\ m2.c.score = m.c.score /\ m2.c.read = m.c.read
      /\ m2.c.step = step
  BY <1>1 DEF Handlers, Contexts, Restep
<1> HIDE DEF m2
<1>5. NeededRight(p, m2.c) /\ OwedRight(p, m2.owed) /\ Count(m2.c, m2.owed)
      /\ Order(m2.c, m2.owed)
  BY <1>3, <1>4 DEF Good, Sane, NeededRight, Count, Order, Low
<1>6. OwnSpans(p, m2.c, m2.owed, m2.queue)
  BY <1>3, <1>4 DEF Good, OwnSpans, Low
<1> QED
  BY <1>3, <1>4, <1>5, <1>6 DEF Good, Sane, m2

\* A handler that has the lock, or has still to go back to download, is right.
LEMMA LocalBusy ==
  ASSUME NEW p \in Peers, p \in Live', conn'[p].read = 0,
         conn'[p].expect = "nothing", conn'[p].state = "synchronizing",
         adding' = p \/ conn'[p].step # "none",
         conn'[p].step = "returns" => invalid' # {}
  PROVE  Local(p)'
BY DEF Local, Phase, Busy, Forgotten, Free

\* What p writes when it goes on at a step.
LEMMA StepEnds ==
  ASSUME NEW p \in Peers, NEW m, NEW step \in Steps, Inv, p \in Live,
         Good(p, m), NoneNew(p, queue, m.queue),
         m.c.expect = "nothing", m.c.state = "synchronizing", m.c.read = 0,
         Write(p, Restep(m, step)), status' = status,
         adding' = p \/ step # "none", step = "returns" => invalid' # {}
  PROVE  Acted(p) /\ Local(p)'
<1> DEFINE m2 == Restep(m, step)
<1>1. /\ Good(p, m2) /\ m2.queue = m.queue /\ m2.c.step = step /\ m2.c.read = 0
      /\ m2.c.expect = "nothing" /\ m2.c.state = "synchronizing"
  BY StepGood
<1> HIDE DEF m2
<1>2. Write(p, m2)
  BY DEF m2
<1>3. Acted(p) /\ conn'[p] = m2.c
  BY <1>1, <1>2, WriteGood
<1>4. p \in Live'
  BY DEF Live
<1> QED
  BY <1>1, <1>3, <1>4, LocalBusy

LEMMA TryAddGood ==
  ASSUME NEW p \in Peers, NEW m, Inv, p \in Live, Ready(p, m), adding # p,
         TryAdd(p, m), UNCHANGED status
  PROVE  /\ Acted(p) /\ Local(p)' /\ adding' \in Peers \cup {None}
         /\ \A q \in Peers : q # p => (adding' = q <=> adding = q)
<1>0. adding \in Peers \cup {None} /\ None \notin Peers
  BY ChainFacts DEF Inv, TypesRight
<1>1. CASE adding = None
  <2>1. adding' = p /\ Write(p, m)
    BY <1>1 DEF TryAdd
  <2>2. Acted(p) /\ conn'[p] = m.c
    BY <2>1, WriteGood DEF Ready
  <2>3. p \in Live'
    BY DEF Live
  <2>4. Local(p)'
    BY <2>1, <2>2, <2>3, LocalBusy DEF Ready
  <2> QED
    BY <1>0, <1>1, <2>1, <2>2, <2>4
<1>2. CASE adding # None
  <2> DEFINE step == "resume"
  <2>1. step \in Steps /\ step # "none" /\ step # "returns"
    BY DEF Steps
  <2>2. Write(p, Restep(m, step)) /\ UNCHANGED adding
    BY <1>2 DEF TryAdd, Restep
  <2> HIDE DEF step
  <2>3. Acted(p) /\ Local(p)'
    BY <2>1, <2>2, StepEnds DEF Ready
  <2> QED
    BY <1>0, <2>2, <2>3
<1> QED
  BY <1>1, <1>2

-----------------------------------------------------------------------------
(* The start, and connections *)

LEMMA EmptyFunction ==
  ASSUME NEW T
  PROVE  <<>> \in [{} -> T] /\ DOMAIN <<>> = {}
<1>1. <<>> \in Seq(T) /\ Len(<<>>) = 0 /\ DOMAIN <<>> = 1 .. 0
  OBVIOUS
<1>2. <<>> \in [1 .. 0 -> T]
  BY <1>1
<1>3. 1 .. 0 = {}
  OBVIOUS
<1> QED
  BY <1>1, <1>2, <1>3

\* A connection that has just been made.
LEMMA BlankGood ==
  ASSUME NEW p \in Peers, NEW Q, QueueGood(Q),
         \A s \in Starts(Q) : ~Filled(Q.spans[s]) => Q.spans[s].owner # p
  PROVE  LET m == [c |-> NewContext, queue |-> Q, owed |-> <<>>, fails |-> FALSE]
         IN Good(p, m) /\ NewContext \in Contexts
<1> DEFINE m == [c |-> NewContext, queue |-> Q, owed |-> <<>>, fails |-> FALSE]
<1>1. NewContext \in Contexts
  BY DEF NewContext, Contexts, Steps
<1>2. <<>> \in Seq(Requests) /\ Len(<<>>) = 0 /\ DOMAIN <<>> = {}
  OBVIOUS
<1>3. /\ NewContext.needed = <<>> /\ NewContext.expect = "nothing" /\ NewContext.score = 0
  BY DEF NewContext
<1>4. m \in Handlers
  BY <1>1, <1>2 DEF Handlers, QueueGood
<1>5. m.c = NewContext /\ m.queue = Q /\ m.owed = <<>>
  OBVIOUS
<1> HIDE DEF m
<1>6. NeededRight(p, m.c)
  BY <1>3, <1>5 DEF NeededRight
<1>7. OwedRight(p, m.owed)
  BY <1>2, <1>5 DEF OwedRight
<1>8. Count(m.c, m.owed) /\ Order(m.c, m.owed)
  BY <1>2, <1>3, <1>5 DEF Count, Order
<1>9. OwnSpans(p, m.c, m.owed, m.queue)
  BY <1>5 DEF OwnSpans
<1> QED
  BY <1>1, <1>4, <1>5, <1>6, <1>7, <1>8, <1>9 DEF Good, Sane, m

LEMMA InvInit == Init => Inv
<1>1. SUFFICES ASSUME Init PROVE Inv
  OBVIOUS
<1>2. PICK q \in Peers : TRUE
  BY ChainFacts
<1>3. Remote(q) \in Nat /\ Remote(q) > 1 /\ ChainOf[q][1] = Genesis /\ Genesis \in Blocks
      /\ Genesis \notin Invalid
  BY ChainFacts, GenesisFirst, BlocksAssumption
<1>4. EmptyQueue.spans = <<>> /\ EmptyQueue.requested = {} /\ EmptyQueue.have = <<>>
      /\ Starts(EmptyQueue) = {}
  BY EmptyFunction DEF EmptyQueue, Starts
<1>5. QueueGood(EmptyQueue)
  <2>1. <<>> \in [{} -> Spans] /\ <<>> \in [{} -> Nat]
    BY EmptyFunction
  <2>2. EmptyQueue \in Queues
    BY <2>1 DEF EmptyQueue, Queues
  <2>3. DOMAIN EmptyQueue.have = {}
    BY <1>4, EmptyFunction
  <2> QED
    BY <1>4, <2>2, <2>3 DEF QueueGood, RequestedGood, HaveGood
<1>6. TypesRight
  <2>1. NewContext \in Contexts
    BY <1>4, <1>5, BlankGood, <1>2
  <2>2. <<>> \in Seq(Requests)
    OBVIOUS
  <2> QED
    BY <1>1, <2>1, <2>2 DEF Init, TypesRight
<1>7. ChainRight
  <2>1. chain = <<Genesis>> /\ invalid = {}
    BY <1>1 DEF Init
  <2>2. chain \in Seq(Blocks) /\ Len(chain) = 1 /\ chain[1] = Genesis
    BY <1>3, <2>1
  <2>3. Stretch(q, 0, chain)
    BY <1>3, <2>2 DEF Stretch
  <2>4. Range(chain) = {Genesis}
    BY <2>2 DEF Range
  <2> QED
    BY <1>3, <2>1, <2>2, <2>3, <2>4 DEF ChainRight, Height
<1>8. AllGood
  <2>1. SUFFICES ASSUME NEW p \in Peers PROVE Good(p, Handler(p))
    BY DEF AllGood
  <2>2. Handler(p) = [c |-> NewContext, queue |-> EmptyQueue, owed |-> <<>>, fails |-> FALSE]
    BY <1>1 DEF Handler, Init
  <2> QED
    BY <1>4, <1>5, <2>2, BlankGood
<1>9. AllLive(queue)
  BY <1>1, <1>4 DEF Init, AllLive
<1>10. ASSUME NEW p \in Peers PROVE Local(p)
  <2>1. adding # p /\ conn[p] = NewContext
    BY <1>1, ChainFacts DEF Init
  <2> QED
    BY <2>1 DEF Local, Phase, Busy, Forgotten, NewContext
<1> QED
  BY <1>6, <1>7, <1>8, <1>9, <1>10 DEF Inv

\* A context that differs in what nothing rests on.
Eases(c, c2) ==
  /\ c2 \in Contexts
  /\ c2.last = c.last /\ c2.score = c.score /\ c2.read = c.read
  /\ c2.step = c.step
  /\ c2.expect = c.expect /\ c2.needed = c.needed

LEMMA EaseGood ==
  ASSUME NEW p \in Peers, NEW m, NEW c2, Good(p, m), Eases(m.c, c2)
  PROVE  LET m2 == [m EXCEPT !.c = c2]
         IN Moves(p, m, m2) /\ m2.c = c2 /\ m2.queue = m.queue /\ m2.owed = m.owed
<1> DEFINE m2 == [m EXCEPT !.c = c2]
<1>1. m \in Handlers
  BY DEF Good, Sane
<1>2. m2 \in Handlers /\ m2.c = c2 /\ m2.queue = m.queue /\ m2.owed = m.owed
  BY <1>1 DEF Handlers, Eases
<1> HIDE DEF m2
<1>3. SameBut(m, m2) /\ m2.c.expect = m.c.expect /\ m2.c.needed = m.c.needed
  BY <1>2 DEF SameBut, Eases
<1>4. Moves(p, m, m2)
  BY <1>2, <1>3, SameGood
<1> QED
  BY <1>2, <1>4 DEF m2

LEMMA EaseActed ==
  ASSUME NEW p \in Peers, NEW c2, Inv, Eases(conn[p], c2),
         conn' = [conn EXCEPT ![p] = c2], UNCHANGED <<queue, owed>>,
         \E s \in {"before", "open", "closing", "closed"} : status' = [status EXCEPT ![p] = s],
         p \in Live => p \in Live'
  PROVE  Acted(p) /\ conn'[p] = c2
<1> DEFINE m == Handler(p)
           m2 == [m EXCEPT !.c = c2]
<1>1. Good(p, m) /\ m.c = conn[p] /\ m.queue = queue /\ m.owed = owed[p]
  BY GoodIn
<1> HIDE DEF m
<1>2. Moves(p, m, m2) /\ m2.c = c2 /\ m2.queue = queue /\ m2.owed = owed[p]
  BY <1>1, EaseGood
<1> HIDE DEF m2
<1>3. Write(p, m2)
  <2>1. owed = [owed EXCEPT ![p] = owed[p]]
    BY DEF Inv, TypesRight
  <2> QED
    BY <1>2, <2>1 DEF Write
<1>4. \A s \in Starts(m2.queue) :
        ~Filled(m2.queue.spans[s]) /\ m2.queue.spans[s].owner = p => p \in Live'
  BY <1>2 DEF Inv, AllLive
<1> QED
  BY <1>1, <1>2, <1>3, <1>4, WriteTurns DEF Moves

\* The rest of the state is left alone, but for the target.
LEMMA SameRest ==
  ASSUME Inv, UNCHANGED <<core, loop>>
  PROVE  /\ ChainRight' /\ (invalid' = {} => invalid = {}) /\ adding' \in Peers \cup {None}
         /\ taken' = <<>> \/ taken' \in (Peers \cup {None}) \X Nat
         /\ \A q \in Peers : adding' = q <=> adding = q
<1>1. ChainRight'
  BY DEF Inv, ChainRight, Height, core
<1> QED
  BY <1>1 DEF Inv, TypesRight, core, loop

LEMMA SyncDataInv ==
  ASSUME NEW p \in Peers, Inv, SyncData(p)
  PROVE  Inv'
<1>1. /\ status' = [status EXCEPT ![p] = "open"] /\ adding # p /\ conn[p].read = 0
      /\ conn[p].step = "none"
      /\ conn[p].state # "synchronizing" /\ UNCHANGED <<core, loop>>
  BY DEF SyncData, Free
<1>2. /\ Good(p, Handler(p)) /\ Handler(p) \in Handlers /\ Handler(p).c = conn[p]
      /\ Handler(p).queue = queue /\ Local(p) /\ conn[p] \in Contexts
  BY GoodIn
<1>3. conn[p].expect = "nothing"
  BY <1>1, <1>2 DEF Local, Phase
<1>4. status'[p] = "open" /\ p \in Live'
  BY <1>1 DEF Inv, TypesRight, Live
<1>5. target \in Nat /\ Remote(p) \in Nat
  BY ChainFacts DEF Inv, TypesRight
<1>6. adding' # p
  BY <1>1 DEF loop
<1>7. CASE Write(p, SetNormal(Handler(p))) /\ UNCHANGED target
  <2> DEFINE m2 == SetNormal(Handler(p))
  <2>1. /\ SameBut(Handler(p), m2) /\ m2.queue = queue /\ m2.c.state = "normal"
        /\ m2.c.expect = conn[p].expect
    BY <1>2, SetNormalIs
  <2>2. Good(p, m2) /\ NoneNew(p, queue, m2.queue)
    BY <1>2, <1>3, EndsGood DEF Moves
  <2> HIDE DEF m2
  <2>3. Acted(p) /\ conn'[p] = m2.c
    BY <1>1, <1>4, <1>7, <2>2, WriteTurns DEF m2
  <2>4. Local(p)'
    BY <1>1, <1>2, <1>3, <1>6, <2>1, <2>3, LocalDone DEF SameBut
  <2> QED
    BY <1>1, <1>5, <1>7, <2>3, <2>4, SameRest, InvAfter
<1>8. CASE /\ Write(p, [Handler(p) EXCEPT !.c.state = "synchronizing",
                                          !.c.called = TRUE, !.c.any = FALSE])
           /\ target' = IF Remote(p) > (IF target = 0 THEN Height ELSE target)
                        THEN Remote(p) ELSE target
  <2> DEFINE c2 == [conn[p] EXCEPT !.state = "synchronizing", !.called = TRUE, !.any = FALSE]
  <2>1. /\ Eases(conn[p], c2) /\ c2.called
    BY <1>2 DEF Eases, Contexts
  <2>2. conn' = [conn EXCEPT ![p] = c2] /\ UNCHANGED <<queue, owed>>
    <3>1. owed = [owed EXCEPT ![p] = owed[p]]
      BY DEF Inv, TypesRight
    <3> QED
      BY <1>8, <3>1 DEF Write, Handler
  <2>3. c2.expect = "nothing" /\ c2.read = 0 /\ c2.step = "none"
    BY <1>1, <1>3, <2>1 DEF Eases
  <2> HIDE DEF c2
  <2>4. Acted(p) /\ conn'[p] = c2
    BY <1>1, <1>4, <2>1, <2>2, EaseActed
  <2>5. Local(p)'
    BY <1>6, <2>1, <2>3, <2>4, LocalDone
  <2>6. target' \in Nat
    BY <1>5, <1>8
  <2> QED
    BY <1>1, <2>4, <2>5, <2>6, SameRest, InvAfter
<1> QED
  BY <1>7, <1>8 DEF SyncData

LEMMA DisconnectInv ==
  ASSUME NEW p \in Peers, Inv, Disconnect(p)
  PROVE  Inv'
<1>1. /\ status' = [status EXCEPT ![p] = "closing"] /\ UNCHANGED <<conn, queue, owed, target>>
      /\ UNCHANGED <<core, loop>>
  BY DEF Disconnect
<1>2. conn[p] \in Contexts /\ Local(p)
  BY GoodIn
<1>3. Eases(conn[p], conn[p])
  BY <1>2 DEF Eases
<1>4. conn' = [conn EXCEPT ![p] = conn[p]] /\ status'[p] = "closing" /\ p \in Live'
  BY <1>1 DEF Inv, TypesRight, Live
<1>5. Acted(p) /\ conn'[p] = conn[p]
  BY <1>1, <1>3, <1>4, EaseActed
<1>6. Local(p)'
  BY <1>1, <1>2, <1>4, <1>5, LocalKept DEF loop, core
<1>7. target' \in Nat
  BY <1>1 DEF Inv, TypesRight
<1> QED
  BY <1>1, <1>5, <1>6, <1>7, SameRest, InvAfter

LEMMA MinInNat ==
  ASSUME NEW a \in Nat, NEW b \in Nat
  PROVE  Min({a, b}) \in Nat
BY MinOfTwo

LEMMA CloseInv ==
  ASSUME NEW p \in Peers, Inv, Close(p)
  PROVE  Inv'
<1> DEFINE R == FlushSpans(queue, p, FALSE)
           m2 == [c |-> NewContext, queue |-> R, owed |-> <<>>, fails |-> FALSE]
           x == Max({0} \cup {Remote(q) : q \in Live \ {p}})
<1>1. /\ status' = [status EXCEPT ![p] = "closed"] /\ adding # p
      /\ conn' = [conn EXCEPT ![p] = NewContext] /\ owed' = [owed EXCEPT ![p] = <<>>]
      /\ queue' = R /\ UNCHANGED <<core, loop>>
      /\ target' = Min({target, x})
  BY DEF Close, Free
<1>2. QueueGood(queue)
  BY GoodIn
<1>3. /\ ErasedFrom(queue, R)
      /\ \A s \in Starts(R) : ~Filled(queue.spans[s]) => queue.spans[s].owner # p
  BY <1>2, FlushGood
<1>4. target' \in Nat
  <2>1. Live \ {p} \in SUBSET Peers
    BY DEF Live
  <2>2. x \in Nat
    BY <2>1, MaxRemote
  <2> HIDE DEF x
  <2> QED
    BY <1>1, <2>2, MinInNat DEF Inv, TypesRight
<1> HIDE DEF R
<1>5. /\ QueueGood(R) /\ NoneNew(p, queue, R)
      /\ \A s \in Starts(R) : ~Filled(R.spans[s]) => R.spans[s].owner # p
  BY <1>3 DEF ErasedFrom, NoneNew
<1>6. Good(p, m2)
  BY <1>5, BlankGood
<1>7. m2.c = NewContext /\ m2.queue = R /\ m2.owed = <<>>
  OBVIOUS
<1> HIDE DEF m2
<1>8. Write(p, m2)
  BY <1>1, <1>7 DEF Write
<1>9. Acted(p) /\ conn'[p] = NewContext
  BY <1>1, <1>5, <1>6, <1>7, <1>8, WriteTurns
<1>10. Local(p)'
  BY <1>1, <1>9, LocalDone DEF NewContext, loop
<1> QED
  BY <1>1, <1>4, <1>9, <1>10, SameRest, InvAfter

LEMMA ReconnectInv ==
  ASSUME NEW p \in Peers, Inv, Reconnect(p)
  PROVE  Inv'
<1> DEFINE Passed(span) == IF span.owner = p THEN [span EXCEPT !.owner = None] ELSE span
           spans == [s \in Starts(queue) |-> Passed(queue.spans[s])]
           R == [queue EXCEPT !.spans = spans]
           m == Handler(p)
           m2 == [m EXCEPT !.queue = R]
<1>1. /\ status[p] = "closed" /\ status' = [status EXCEPT ![p] = "before"]
      /\ queue' = R /\ UNCHANGED <<core, target, conn, owed, adding>>
      /\ taken' = IF taken # <<>> /\ taken[1] = p THEN <<None, taken[2]>> ELSE taken
  BY DEF Reconnect
<1>2. QueueGood(queue) /\ Local(p)
  BY GoodIn
<1>3. queue \in Queues /\ Starts(queue) \in SUBSET Nat /\ queue.spans \in [Starts(queue) -> Spans]
  BY <1>2, QueueFields DEF QueueGood
<1>4. ASSUME NEW s \in Starts(queue)
      PROVE  /\ Passed(queue.spans[s]) \in Spans
             /\ Passed(queue.spans[s]).n = queue.spans[s].n
             /\ Passed(queue.spans[s]).blocks = queue.spans[s].blocks
             /\ Passed(queue.spans[s]).hashes = queue.spans[s].hashes
             /\ Passed(queue.spans[s]).owner =
                  IF queue.spans[s].owner = p THEN None ELSE queue.spans[s].owner
  <2>1. queue.spans[s] \in Spans
    BY <1>3
  <2> QED
    BY <2>1 DEF Spans
<1> HIDE DEF Passed
<1>5. spans \in [Starts(queue) -> Spans] /\ DOMAIN spans = Starts(queue)
      /\ \A s \in Starts(queue) : spans[s] = Passed(queue.spans[s])
  BY <1>4
<1> HIDE DEF spans
<1>6. R \in Queues /\ R.spans = spans /\ R.requested = queue.requested /\ R.have = queue.have
  BY <1>3, <1>5 DEF Queues
<1> HIDE DEF R
<1>7. Starts(R) = Starts(queue)
  BY <1>5, <1>6 DEF Starts
<1>8. Alike(queue, R)
  BY <1>4, <1>5, <1>6, <1>7 DEF Alike
<1>9. QueueGood(R)
  BY <1>2, <1>8, AlikeGood
<1>10. ASSUME NEW s \in Starts(R), ~Filled(R.spans[s])
       PROVE  /\ s \in Starts(queue) /\ ~Filled(queue.spans[s])
              /\ queue.spans[s].owner # p /\ R.spans[s].owner = queue.spans[s].owner
  <2>1. s \in Starts(queue) /\ ~Filled(queue.spans[s])
    BY <1>7, <1>8, <1>10 DEF Alike, Filled
  <2>2. queue.spans[s].owner \in Live
    BY <2>1 DEF Inv, AllLive
  <2>3. queue.spans[s].owner # p
    BY <1>1, <2>2 DEF Live
  <2> QED
    BY <1>4, <1>5, <1>6, <2>1, <2>3
<1>11. Good(p, m) /\ m.c = conn[p] /\ m.queue = queue /\ m.owed = owed[p]
  BY GoodIn
<1> HIDE DEF m
<1>12. Moves(p, m, m2) /\ m2.queue = R /\ m2.c = conn[p] /\ m2.owed = owed[p]
  <2>1. \A s \in Starts(R) :
          ~Filled(R.spans[s]) => /\ s \in Starts(m.queue) /\ ~Filled(m.queue.spans[s])
                                 /\ m.queue.spans[s].owner = R.spans[s].owner
    BY <1>10, <1>11
  <2> QED
    BY <1>9, <1>11, <2>1, QueueIn
<1> HIDE DEF m2
<1>13. Write(p, m2)
  <2>1. owed = [owed EXCEPT ![p] = owed[p]] /\ conn = [conn EXCEPT ![p] = conn[p]]
    BY DEF Inv, TypesRight
  <2> QED
    BY <1>1, <1>12, <2>1 DEF Write
<1>14. Acted(p) /\ conn'[p] = conn[p]
  <2>1. \A s \in Starts(m2.queue) :
          ~Filled(m2.queue.spans[s]) /\ m2.queue.spans[s].owner = p => p \in Live'
    BY <1>10, <1>12
  <2> QED
    BY <1>1, <1>11, <1>12, <1>13, <2>1, WriteTurns DEF Moves
<1>15. ~Busy(p) /\ ~Busy(p)'
  <2>1. p \notin Live
    BY <1>1 DEF Live
  <2> QED
    BY <1>1, <1>2, <2>1 DEF Local, Phase, Busy
<1>16. Local(p)'
  <2>1. status'[p] = "before"
    BY <1>1 DEF Inv, TypesRight
  <2> QED
    BY <1>1, <1>2, <1>15, <2>1 DEF Local, Phase, Busy, Forgotten, core
<1>17. taken' = <<>> \/ taken' \in (Peers \cup {None}) \X Nat
  BY <1>1 DEF Inv, TypesRight
<1>18. ChainRight' /\ target' \in Nat /\ adding' \in Peers \cup {None} /\ invalid' = invalid
       /\ adding' = adding
  BY <1>1 DEF Inv, TypesRight, ChainRight, Height, core
<1> QED
  BY <1>14, <1>16, <1>17, <1>18, InvAfter

LEMMA KickIdleInv ==
  ASSUME NEW p \in Peers, Inv, KickIdle(p)
  PROVE  Inv'
<1> DEFINE c2 == [conn[p] EXCEPT !.late = TRUE, !.called = TRUE]
<1>1. /\ conn' = [conn EXCEPT ![p] = c2] /\ conn[p].expect # "nothing"
      /\ UNCHANGED <<queue, owed, target, status>> /\ UNCHANGED <<core, loop>>
  BY DEF KickIdle
<1>2. conn[p] \in Contexts /\ Local(p)
  BY GoodIn
<1>3. Eases(conn[p], c2) /\ c2.called /\ c2.state = conn[p].state
  BY <1>2 DEF Eases, Contexts
<1> HIDE DEF c2
<1>4. status' = [status EXCEPT ![p] = status[p]] /\ Live' = Live
      /\ status[p] \in {"before", "open", "closing", "closed"}
  BY <1>1 DEF Inv, TypesRight, Live
<1>5. Acted(p) /\ conn'[p] = c2
  BY <1>1, <1>3, <1>4, EaseActed
<1>6. Local(p)'
  BY <1>1, <1>2, <1>3, <1>4, <1>5 DEF Local, Phase, Busy, Forgotten, Free, Eases, loop, core
<1>7. target' \in Nat
  BY <1>1 DEF Inv, TypesRight
<1> QED
  BY <1>1, <1>5, <1>6, <1>7, SameRest, InvAfter

LEMMA CheckStandbyInv ==
  ASSUME NEW p \in Peers, Inv, CheckStandby(p)
  PROVE  Inv'
<1> DEFINE c2 == [conn[p] EXCEPT !.called = TRUE]
<1>1. /\ conn' = [conn EXCEPT ![p] = c2]
      /\ UNCHANGED <<queue, owed, target, status>> /\ UNCHANGED <<core, loop>>
  BY DEF CheckStandby
<1>2. conn[p] \in Contexts /\ Local(p)
  BY GoodIn
<1>3. Eases(conn[p], c2) /\ c2.called /\ c2.state = conn[p].state
  BY <1>2 DEF Eases, Contexts
<1> HIDE DEF c2
<1>4. status' = [status EXCEPT ![p] = status[p]] /\ Live' = Live
      /\ status[p] \in {"before", "open", "closing", "closed"}
  BY <1>1 DEF Inv, TypesRight, Live
<1>5. Acted(p) /\ conn'[p] = c2
  BY <1>1, <1>3, <1>4, EaseActed
<1>6. Local(p)'
  BY <1>1, <1>2, <1>3, <1>4, <1>5 DEF Local, Phase, Busy, Forgotten, Free, Eases, loop, core
<1>7. target' \in Nat
  BY <1>1 DEF Inv, TypesRight
<1> QED
  BY <1>1, <1>5, <1>6, <1>7, SameRest, InvAfter

LEMMA SpanLateInv ==
  ASSUME Inv, SpanLate
  PROVE  Inv'
<1> DEFINE R == SetNextLate(queue, TRUE)
<1>1. PICK p \in Peers : TRUE
  BY ChainFacts
<1> DEFINE m == Handler(p)
           m2 == [m EXCEPT !.queue = R]
<1>2. /\ queue' = R /\ NextScheduled(queue) /\ UNCHANGED <<target, status, conn, owed>>
      /\ UNCHANGED <<core, loop>>
  BY DEF SpanLate, SpanDue
<1>3. /\ Good(p, m) /\ m.c = conn[p] /\ m.queue = queue /\ m.owed = owed[p]
      /\ Local(p) /\ QueueGood(queue)
  BY GoodIn
<1>4. /\ QueueGood(R) /\ Starts(R) = Starts(queue)
      /\ \A s \in Starts(queue) : /\ R.spans[s].owner = queue.spans[s].owner
                                  /\ R.spans[s].blocks = queue.spans[s].blocks
  <2>1. Starts(queue) # {}
    BY <1>2 DEF NextScheduled
  <2> QED
    BY <1>3, <2>1, LateIs
<1> HIDE DEF R, m
<1>5. Moves(p, m, m2) /\ m2.queue = R /\ m2.c = conn[p] /\ m2.owed = owed[p]
  <2>1. \A s \in Starts(R) :
          ~Filled(R.spans[s]) => /\ s \in Starts(m.queue) /\ ~Filled(m.queue.spans[s])
                                 /\ m.queue.spans[s].owner = R.spans[s].owner
    BY <1>3, <1>4 DEF Filled
  <2> QED
    BY <1>3, <1>4, <2>1, QueueIn
<1> HIDE DEF m2
<1>6. Write(p, m2)
  <2>1. owed = [owed EXCEPT ![p] = owed[p]] /\ conn = [conn EXCEPT ![p] = conn[p]]
    BY DEF Inv, TypesRight
  <2> QED
    BY <1>2, <1>5, <2>1 DEF Write
<1>7. status' = [status EXCEPT ![p] = status[p]] /\ Live' = Live
      /\ status[p] \in {"before", "open", "closing", "closed"}
  BY <1>2 DEF Inv, TypesRight, Live
<1>8. \A s \in Starts(m2.queue) :
        ~Filled(m2.queue.spans[s]) /\ m2.queue.spans[s].owner = p => p \in Live'
  BY <1>4, <1>5, <1>7 DEF Inv, AllLive, Filled
<1>9. Acted(p) /\ conn'[p] = conn[p]
  BY <1>3, <1>5, <1>6, <1>7, <1>8, WriteTurns DEF Moves
<1>10. Local(p)'
  BY <1>2, <1>3, <1>7, <1>9, LocalKept DEF loop, core
<1>11. target' \in Nat
  BY <1>2 DEF Inv, TypesRight
<1> QED
  BY <1>2, <1>9, <1>10, <1>11, SameRest, InvAfter

\* A connection that is kicked has one request more to which no answer counts.
LEMMA KickedGood ==
  ASSUME NEW p \in Peers, NEW m, Good(p, m), ~(m.c.score < 0)
  PROVE  LET m2 == Kicked(m)
         IN /\ Good(p, m2) /\ m2.queue = m.queue /\ m2.c.expect = "nothing"
            /\ m2.c.state = "standby" /\ m2.c.read = m.c.read
            /\ m2.c.step = m.c.step
<1> DEFINE m2 == Kicked(m)
           c2 == [m.c EXCEPT !.score = @ - 1, !.expect = "nothing", !.late = FALSE,
                             !.requested = {}, !.state = "standby"]
<1>1. /\ m \in Handlers /\ m.c.score \in -1 .. 0 /\ m.owed \in Seq(Requests)
      /\ Len(m.owed) \in Nat
  BY HandlerFields DEF Good, Sane
<1>2. m.c.score = 0
  BY <1>1
<1>3. c2 \in Contexts
  <2>1. m.c \in Contexts /\ m.c.score - 1 \in -1 .. 0
    BY <1>1, <1>2, HandlerFields
  <2> QED
    BY <2>1 DEF Contexts
<1>4. /\ c2.expect = "nothing" /\ c2.state = "standby" /\ c2.read = m.c.read
      /\ c2.step = m.c.step
      /\ c2.needed = m.c.needed /\ c2.last = m.c.last /\ c2.score = -1
  <2>1. m.c \in Contexts
    BY <1>1, HandlerFields
  <2> QED
    BY <1>2, <2>1 DEF Contexts
<1>5. m2 = [m EXCEPT !.c = c2]
  BY DEF Kicked
<1> HIDE DEF m2, c2
<1>6. m2 \in Handlers /\ m2.queue = m.queue /\ m2.owed = m.owed /\ m2.c = c2
  BY <1>1, <1>3, <1>5 DEF Handlers
<1>7. /\ m2.c.expect = "nothing" /\ m2.c.state = "standby" /\ m2.c.read = m.c.read
      /\ m2.c.step = m.c.step
      /\ m2.c.needed = m.c.needed /\ m2.c.last = m.c.last /\ m2.c.score = -1
  BY <1>4, <1>6
<1>8. NeededRight(p, m2.c)
  BY <1>7 DEF Good, Sane, NeededRight, Low
<1>9. OwedRight(p, m2.owed) /\ Order(m2.c, m2.owed)
  BY <1>7, <1>6 DEF Good, Sane, Order
<1>10. Count(m2.c, m2.owed)
  <2>1. Len(m.owed) <= (IF m.c.expect = "nothing" THEN 0 ELSE 1) - 0
    BY <1>2 DEF Good, Sane, Count
  <2> QED
    BY <1>1, <1>7, <1>6, <2>1 DEF Count
<1>11. OwnSpans(p, m2.c, m2.owed, m2.queue)
  BY <1>7, <1>6 DEF Good, OwnSpans, Low
<1> QED
  BY <1>7, <1>8, <1>9, <1>10, <1>11, <1>6 DEF Good, Sane, m2

LEMMA AskFromNoneGood ==
  ASSUME NEW p \in Peers, NEW m1, Good(p, m1), m1.c.expect = "nothing", Rooted
  PROVE  LET m2 == Ask(m1, "chain", StartFrom(p, None), <<>>)
         IN /\ Moves(p, m1, m2) /\ m2.c.expect = "chain" /\ m2.c.state = m1.c.state
<1> DEFINE from == StartFrom(p, None)
           asks == Ask(m1, "chain", from, <<>>)
<1>4. from \in Nat /\ from < Remote(p)
  BY StartFromRight
<1>5. RequestRight(p, [kind |-> "chain", from |-> from, blocks |-> <<>>])
  BY <1>4 DEF RequestRight
<1>6. <<>> \in Seq(Blocks)
  OBVIOUS
<1> HIDE DEF from
<1>7. ASSUME NEW kind \in {"chain", "objects"}, NEW blocks \in Seq(Blocks),
             RequestRight(p, [kind |-> kind, from |-> from, blocks |-> blocks])
      PROVE  LET m2 == Ask(m1, kind, from, blocks)
             IN Moves(p, m1, m2) /\ m2.c.expect = kind /\ m2.c.state = m1.c.state
  BY <1>4, <1>7, AskGood
<1>8. Moves(p, m1, asks) /\ asks.c.expect = "chain" /\ asks.c.state = m1.c.state
  BY <1>5, <1>6, <1>7
<1> QED
  BY <1>8 DEF from

LEMMA CallbackInv ==
  ASSUME NEW p \in Peers, Inv, Callback(p)
  PROVE  Inv'
<1> DEFINE m0 == [Handler(p) EXCEPT !.c.called = FALSE]
           m == IF m0.c.late THEN Kicked(m0) ELSE m0
           asks == m.c.state = "synchronizing" /\ m.c.expect = "nothing"
           stands == m.c.state = "standby"
           m1 == [m EXCEPT !.c.needed = <<>>]
           from == StartFrom(p, None)
           m2 == Ask(m1, "chain", from, <<>>)
           m3 == [m EXCEPT !.c.state = "synchronizing"]
<1>1. /\ p \in Live /\ adding # p /\ conn[p].read = 0 /\ conn[p].step = "none"
      /\ UNCHANGED <<core, taken>>
      /\ \/ /\ m0.c.late /\ m0.c.score < 0 /\ Drop(p, m0) /\ UNCHANGED <<target, adding>>
         \/ /\ ~(m0.c.late /\ m0.c.score < 0) /\ asks
            /\ Write(p, m2) /\ UNCHANGED <<target, status, adding>>
         \/ ~(m0.c.late /\ m0.c.score < 0) /\ stands /\ TryAdd(p, m3)
            /\ UNCHANGED <<target, status>>
         \/ /\ ~(m0.c.late /\ m0.c.score < 0) /\ ~asks /\ ~stands
            /\ Write(p, m) /\ UNCHANGED <<target, status, adding>>
  BY DEF Callback, Free
<1>2. /\ Good(p, Handler(p)) /\ Handler(p).c = conn[p] /\ Handler(p).queue = queue
      /\ Handler(p).owed = owed[p] /\ Local(p) /\ conn[p] \in Contexts
      /\ Handler(p) \in Handlers /\ Rooted
  BY GoodIn
<1>3. /\ Good(p, m0) /\ m0.queue = queue /\ m0.c.expect = conn[p].expect
      /\ m0.c.state = conn[p].state /\ m0.c.read = 0 /\ m0 \in Handlers
      /\ m0.c.step = "none"
  <2> DEFINE c2 == [conn[p] EXCEPT !.called = FALSE]
  <2>1. Eases(conn[p], c2) /\ c2.state = conn[p].state
    BY <1>2 DEF Eases, Contexts
  <2>2. m0 = [Handler(p) EXCEPT !.c = c2]
    BY <1>2 DEF Handlers
  <2> HIDE DEF c2, m0
  <2>3. Good(p, m0) /\ m0.c = c2 /\ m0.queue = queue
    BY <1>2, <2>1, <2>2, EaseGood DEF Moves
  <2> QED
    BY <1>1, <2>1, <2>3 DEF Eases, Good, Sane
<1>4. ChainRight' /\ invalid' = invalid /\ taken' = taken
  BY <1>1 DEF core, Inv, ChainRight, Height
<1>5. /\ taken' = <<>> \/ taken' \in (Peers \cup {None}) \X Nat
      /\ target \in Nat /\ adding \in Peers \cup {None}
  BY <1>4 DEF Inv, TypesRight
<1>6. conn[p].expect # "nothing" => conn[p].state = "synchronizing"
  BY <1>2 DEF Local, Phase
<1> HIDE DEF m0
<1>7. NoneNew(p, queue, queue)
  BY NoneNewAtAll
<1>8. CASE m0.c.late /\ m0.c.score < 0 /\ Drop(p, m0) /\ UNCHANGED <<target, adding>>
  <2>1. Acted(p) /\ conn'[p] = m0.c /\ status'[p] = "closing"
    BY <1>1, <1>3, <1>7, <1>8, DropGood DEF Good
  <2>2. Local(p)'
    BY <1>1, <1>3, <1>6, <1>8, <2>1, LocalDone
  <2> QED
    BY <1>4, <1>5, <1>8, <2>1, <2>2, InvAfter
<1>9. ASSUME ~(m0.c.late /\ m0.c.score < 0)
      PROVE  /\ Good(p, m) /\ m.queue = queue /\ m.c.read = 0 /\ m.c.step = "none"
             /\ m.c.expect # "nothing" => m.c.state = "synchronizing"
  <2>1. CASE m0.c.late
    BY <1>3, <1>9, <2>1, KickedGood
  <2>2. CASE ~m0.c.late
    BY <1>3, <1>6, <2>2
  <2> QED
    BY <2>1, <2>2
<1> HIDE DEF m
<1>10. CASE /\ ~(m0.c.late /\ m0.c.score < 0) /\ asks
            /\ Write(p, m2) /\ UNCHANGED <<target, status, adding>>
  <2>1. /\ Moves(p, m, m1) /\ m1.c.expect = "nothing" /\ m1.c.state = "synchronizing"
        /\ m1.queue = queue
    BY <1>9, <1>10, ForgetGood
  <2> HIDE DEF m1
  <2>5. Moves(p, m1, m2) /\ m2.c.expect = "chain" /\ m2.c.state = "synchronizing"
    <3>1. Good(p, m1)
      BY <2>1 DEF Moves
    <3> QED
      BY <1>2, <2>1, <3>1, AskFromNoneGood
  <2> HIDE DEF m2
  <2>6. Moves(p, m, m2)
    BY <2>1, <2>5, MovesOn
  <2>7. Acted(p) /\ conn'[p] = m2.c
    BY <1>1, <1>9, <1>10, <2>6, WriteGood DEF Moves
  <2>8. Local(p)'
    BY <1>1, <1>9, <1>10, <2>5, <2>6, <2>7, LocalDone DEF Moves
  <2> QED
    BY <1>4, <1>5, <1>10, <2>7, <2>8, InvAfter
<1>11. CASE /\ ~(m0.c.late /\ m0.c.score < 0) /\ stands /\ TryAdd(p, m3)
            /\ UNCHANGED <<target, status>>
  <2>1. /\ Moves(p, m, m3) /\ m3.c.expect = "nothing" /\ m3.c.state = "synchronizing"
    BY <1>9, <1>11, ActiveGood
  <2> HIDE DEF m3
  <2>2. Ready(p, m3)
    BY <1>9, <1>11, <2>1 DEF Ready, Moves
  <2>3. /\ Acted(p) /\ Local(p)' /\ adding' \in Peers \cup {None}
        /\ \A q \in Peers : q # p => (adding' = q <=> adding = q)
    BY <1>1, <1>11, <2>2, TryAddGood
  <2> QED
    BY <1>4, <1>5, <1>11, <2>3, InvAfter
<1>12. CASE /\ ~(m0.c.late /\ m0.c.score < 0) /\ ~asks /\ ~stands
            /\ Write(p, m) /\ UNCHANGED <<target, status, adding>>
  <2>1. Acted(p) /\ conn'[p] = m.c
    BY <1>1, <1>7, <1>9, <1>12, WriteGood
  <2>2. Local(p)'
    BY <1>1, <1>9, <1>12, <2>1, LocalDone
  <2> QED
    BY <1>4, <1>5, <1>12, <2>1, <2>2, InvAfter
<1> QED
  BY <1>1, <1>8, <1>10, <1>11, <1>12

-----------------------------------------------------------------------------
(* Answers *)

\* A handler that takes an answer: its own spans aside, it stays good.
LEMMA AnswerSane ==
  ASSUME NEW p \in Peers, Inv, owed[p] # <<>>
  PROVE  LET m == Answer(p)
         IN /\ Sane(p, m) /\ m.queue = queue /\ m.c.expect = "nothing"
            /\ m.c.state = conn[p].state /\ m.c.read = conn[p].read
            /\ m.c.step = conn[p].step
            /\ m.c.needed = conn[p].needed /\ m.c.last = conn[p].last
            /\ m.owed = Tail(owed[p])
<1> DEFINE m == Answer(p)
           owes == owed[p]
<1>1. /\ Sane(p, Handler(p)) /\ Handler(p).c = conn[p] /\ Handler(p).queue = queue
      /\ Handler(p).owed = owes /\ conn[p] \in Contexts /\ Handler(p) \in Handlers
      /\ owes \in Seq(Requests) /\ QueueGood(queue)
  BY GoodIn DEF Good
<1>2. /\ Tail(owes) \in Seq(Requests) /\ Len(Tail(owes)) = Len(owes) - 1 /\ Len(owes) \in Nat
      /\ \A j \in 1 .. Len(owes) - 1 : Tail(owes)[j] = owes[j + 1]
      /\ DOMAIN Tail(owes) = 1 .. Len(owes) - 1 /\ DOMAIN owes = 1 .. Len(owes)
  BY <1>1
<1> HIDE DEF owes
<1>3. m.c \in Contexts
  BY <1>1 DEF Answer, Handlers, Contexts
<1>4. m \in Handlers /\ m.queue = queue /\ m.owed = Tail(owes)
  BY <1>1, <1>2, <1>3 DEF Answer, Handlers
<1>5. /\ m.c.expect = "nothing" /\ m.c.state = conn[p].state /\ m.c.read = conn[p].read
      /\ m.c.step = conn[p].step
      /\ m.c.needed = conn[p].needed /\ m.c.last = conn[p].last /\ m.c.score = conn[p].score
  BY <1>1 DEF Answer, Handlers, Contexts
<1> HIDE DEF m
<1>6. NeededRight(p, m.c)
  BY <1>1, <1>5 DEF Sane, NeededRight, Low
<1>7. OwedRight(p, m.owed)
  <2>1. \A j \in 1 .. Len(owes) : RequestRight(p, owes[j])
    BY <1>1, <1>2 DEF Sane, OwedRight
  <2>2. \A j \in 1 .. Len(owes) - 1 : j + 1 \in 1 .. Len(owes)
    BY <1>2
  <2> QED
    BY <1>2, <1>4, <2>1, <2>2 DEF OwedRight
<1>8. Count(m.c, m.owed)
  <2>1. Len(owes) <= (IF conn[p].expect = "nothing" THEN 0 ELSE 1) - conn[p].score
    BY <1>1 DEF Sane, Count
  <2>2. conn[p].score \in -1 .. 0
    BY <1>1 DEF Contexts
  <2> QED
    BY <1>2, <1>4, <1>5, <2>1, <2>2 DEF Count
<1>9. Order(m.c, m.owed)
  BY <1>5 DEF Order
<1> QED
  BY <1>1, <1>4, <1>5, <1>6, <1>7, <1>8, <1>9 DEF Sane, m, owes

LEMMA HeadRight ==
  ASSUME NEW p \in Peers, Inv, owed[p] # <<>>
  PROVE  /\ owed[p] \in Seq(Requests) /\ 1 \in DOMAIN owed[p] /\ Head(owed[p]) = owed[p][1]
         /\ Head(owed[p]) \in Requests /\ RequestRight(p, Head(owed[p]))
         /\ DOMAIN owed[p] = 1 .. Len(owed[p]) /\ Len(owed[p]) \in Nat
         /\ DOMAIN Tail(owed[p]) = 1 .. Len(owed[p]) - 1
         /\ \A j \in 1 .. Len(owed[p]) - 1 : Tail(owed[p])[j] = owed[p][j + 1]
<1> DEFINE owes == owed[p]
<1>1. owes \in Seq(Requests) /\ OwedRight(p, owes)
  BY GoodIn DEF Good, Sane
<1> HIDE DEF owes
<1>2. owes # <<>>
  BY DEF owes
<1>3. /\ 1 \in DOMAIN owes /\ Head(owes) = owes[1] /\ Head(owes) \in Requests
      /\ DOMAIN owes = 1 .. Len(owes) /\ Len(owes) \in Nat
      /\ DOMAIN Tail(owes) = 1 .. Len(owes) - 1
      /\ \A j \in 1 .. Len(owes) - 1 : Tail(owes)[j] = owes[j + 1]
  BY <1>1, <1>2
<1>4. RequestRight(p, Head(owes))
  BY <1>1, <1>3 DEF OwedRight
<1> QED
  BY <1>1, <1>3, <1>4 DEF owes

\* The hashes of a chain entry.
LEMMA EntryIds ==
  ASSUME NEW p \in Peers, NEW from \in Nat, from < Remote(p)
  PROVE  LET ids == SubSeq(ChainOf[p], from + 1, Min({from + MaxIds, Remote(p)}))
         IN /\ ids \in Seq(Blocks) /\ Stretch(p, from, ids) /\ Len(ids) \in Nat
            /\ Len(ids) > 0 /\ from + Len(ids) - 1 \in Nat
<1> DEFINE to == Min({from + MaxIds, Remote(p)})
           ids == SubSeq(ChainOf[p], from + 1, to)
<1>1. Remote(p) \in Nat /\ MaxIds \in Nat /\ MaxIds > 1 /\ ChainOf[p] \in Seq(Blocks)
      /\ Len(ChainOf[p]) = Remote(p)
  BY ChainFacts DEF Remote
<1>2. to \in {from + MaxIds, Remote(p)} /\ to <= Remote(p)
  BY <1>1, MinOfTwo
<1> HIDE DEF to
<1>3. to \in Nat /\ from + 1 <= to /\ to <= Remote(p)
  BY <1>1, <1>2
<1>4. ids \in Seq(Blocks) /\ Len(ids) = to - from /\ \A i \in 1 .. to - from : ids[i] = ChainOf[p][from + i]
  BY <1>1, <1>3
<1> HIDE DEF ids
<1>5. Stretch(p, from, ids)
  BY <1>1, <1>3, <1>4 DEF Stretch
<1>6. Len(ids) \in Nat /\ Len(ids) > 0 /\ from + Len(ids) - 1 \in Nat
  BY <1>3, <1>4
<1> QED
  BY <1>4, <1>5, <1>6 DEF ids, to

Entry(m, from, last, ids) ==
  [m EXCEPT !.c.first = from, !.c.last = last, !.c.expected = ids, !.c.needed = ids]

LEMMA EntryIs ==
  ASSUME NEW m \in Handlers, NEW from \in Nat, NEW last \in Nat, NEW ids \in Seq(Blocks)
  PROVE  LET m2 == Entry(m, from, last, ids)
         IN /\ m2 \in Handlers /\ m2.queue = m.queue /\ m2.owed = m.owed
            /\ m2.c.last = last /\ m2.c.needed = ids /\ m2.c.expect = m.c.expect
            /\ m2.c.state = m.c.state /\ m2.c.score = m.c.score /\ m2.c.read = m.c.read
            /\ m2.c.step = m.c.step
<1> DEFINE m2 == Entry(m, from, last, ids)
<1>1. m2.c \in Contexts
  BY DEF Handlers, Contexts, Entry
<1>2. m2 \in Handlers /\ m2.queue = m.queue /\ m2.owed = m.owed
  BY <1>1 DEF Handlers, Entry
<1>3. /\ m2.c.last = last /\ m2.c.needed = ids /\ m2.c.expect = m.c.expect
      /\ m2.c.state = m.c.state /\ m2.c.score = m.c.score /\ m2.c.read = m.c.read
      /\ m2.c.step = m.c.step
  BY DEF Handlers, Contexts, Entry
<1> QED
  BY <1>2, <1>3

\* How far a chain entry has been looked at makes no difference.
Reread(m, n, unknown) == [m EXCEPT !.c.read = n, !.c.unknown = unknown]

LEMMA ReadGood ==
  ASSUME NEW p \in Peers, NEW m, NEW n \in Nat, NEW unknown \in BOOLEAN, Good(p, m)
  PROVE  LET m2 == Reread(m, n, unknown)
         IN /\ Good(p, m2) /\ m2.queue = m.queue /\ m2.c.read = n
            /\ m2.c.expect = m.c.expect /\ m2.c.state = m.c.state
            /\ m2.c.step = m.c.step
<1> DEFINE m2 == Reread(m, n, unknown)
<1>1. m \in Handlers
  BY DEF Good, Sane
<1>2. m2.c \in Contexts
  BY <1>1 DEF Handlers, Contexts, Reread
<1>3. m2 \in Handlers /\ m2.queue = m.queue /\ m2.owed = m.owed
  BY <1>1, <1>2 DEF Handlers, Reread
<1>4. /\ m2.c.last = m.c.last /\ m2.c.needed = m.c.needed /\ m2.c.expect = m.c.expect
      /\ m2.c.state = m.c.state /\ m2.c.score = m.c.score /\ m2.c.read = n
      /\ m2.c.step = m.c.step
  BY <1>1 DEF Handlers, Contexts, Reread
<1> HIDE DEF m2
<1>5. NeededRight(p, m2.c) /\ OwedRight(p, m2.owed) /\ Count(m2.c, m2.owed)
      /\ Order(m2.c, m2.owed)
  BY <1>3, <1>4 DEF Good, Sane, NeededRight, Count, Order, Low
<1>6. OwnSpans(p, m2.c, m2.owed, m2.queue)
  BY <1>3, <1>4 DEF Good, OwnSpans, Low
<1> QED
  BY <1>3, <1>4, <1>5, <1>6 DEF Good, Sane, m2

\* A chain entry replaces what is needed.  Nothing is scheduled: the requests
\* for blocks were answered before.
LEMMA EntryGood ==
  ASSUME NEW p \in Peers, Inv, owed[p] # <<>>, Head(owed[p]).kind = "chain",
         conn[p].expect = "chain"
  PROVE  LET from == Head(owed[p]).from
             ids == SubSeq(ChainOf[p], from + 1, Min({from + MaxIds, Remote(p)}))
             m == [Answer(p) EXCEPT
                     !.c.first = from, !.c.last = from + Len(ids) - 1,
                     !.c.expected = ids, !.c.needed = ids]
         IN /\ Good(p, m) /\ m.queue = queue /\ m.c.expect = "nothing"
            /\ m.c.state = conn[p].state /\ m.c.read = conn[p].read
            /\ m.c.step = conn[p].step
            /\ Len(ids) \in Nat
<1> DEFINE from == Head(owed[p]).from
           ids == SubSeq(ChainOf[p], from + 1, Min({from + MaxIds, Remote(p)}))
           last == from + Len(ids) - 1
           a == Answer(p)
           m == Entry(a, from, last, ids)
<1>1. from \in Nat /\ from < Remote(p)
  BY HeadRight DEF RequestRight, Requests
<1> HIDE DEF from
<1>2. ids \in Seq(Blocks) /\ Stretch(p, from, ids) /\ Len(ids) \in Nat /\ last \in Nat
  BY <1>1, EntryIds
<1> HIDE DEF ids
<1>3. /\ Sane(p, a) /\ a.queue = queue /\ a.c.expect = "nothing"
      /\ a.c.state = conn[p].state /\ a.c.read = conn[p].read /\ a.owed = Tail(owed[p])
      /\ a.c.step = conn[p].step
  BY AnswerSane
<1>4. last + 1 - Len(ids) = from
  BY <1>1, <1>2
<1> HIDE DEF a, last
<1>5. /\ m \in Handlers /\ m.queue = a.queue /\ m.owed = a.owed
      /\ m.c.last = last /\ m.c.needed = ids /\ m.c.expect = a.c.expect
      /\ m.c.state = a.c.state /\ m.c.score = a.c.score /\ m.c.read = a.c.read
      /\ m.c.step = a.c.step
  <2>1. from \in Nat /\ last \in Nat /\ ids \in Seq(Blocks) /\ a \in Handlers
    BY <1>1, <1>2, <1>3 DEF Sane
  <2> QED
    BY <2>1, EntryIs
<1> HIDE DEF m
<1>6. NeededRight(p, m.c)
  <2>1. from >= 0
    BY <1>1
  <2> QED
    BY <1>2, <1>4, <1>5, <2>1 DEF NeededRight, Low
<1>7. Count(m.c, m.owed) /\ OwedRight(p, m.owed) /\ Order(m.c, m.owed)
  BY <1>3, <1>5 DEF Sane, Count, Order
<1>8. \A s : ~Asked(s, owed[p])
  <2>1. \A j \in DOMAIN owed[p] : owed[p][j].kind = "objects" => j = 1
    BY GoodIn DEF Good, Sane, Order
  <2>2. owed[p][1].kind = "chain"
    BY HeadRight
  <2> QED
    BY <2>1, <2>2 DEF Asked
<1>9. OwnSpans(p, m.c, m.owed, m.queue)
  <2>1. OwnSpans(p, conn[p], owed[p], queue)
    BY GoodIn DEF Good
  <2>2. \A s \in Starts(queue) : ~(queue.spans[s].owner = p /\ ~Filled(queue.spans[s]))
    BY <1>8, <2>1 DEF OwnSpans
  <2> QED
    BY <1>3, <1>5, <2>2 DEF OwnSpans
<1> QED
  BY <1>2, <1>3, <1>5, <1>6, <1>7, <1>9 DEF Good, Sane, Entry, m, a, last, ids, from

LEMMA BeginEntryInv ==
  ASSUME NEW p \in Peers, Inv, BeginEntry(p)
  PROVE  Inv'
<1> DEFINE from == Head(owed[p]).from
           ids == SubSeq(ChainOf[p], from + 1, Min({from + MaxIds, Remote(p)}))
           m == [Answer(p) EXCEPT
                   !.c.first = from, !.c.last = from + Len(ids) - 1,
                   !.c.expected = ids, !.c.needed = ids]
<1>1. /\ status[p] = "open" /\ adding # p /\ conn[p].read = 0 /\ owed[p] # <<>>
      /\ conn[p].step = "none"
      /\ Head(owed[p]).kind = "chain" /\ UNCHANGED <<core, target, loop>>
      /\ \/ conn[p].expect # "chain" /\ Drop(p, Answer(p))
         \/ /\ conn[p].expect = "chain"
            /\ \E n \in 1 .. Len(ids) :
                 \/ Drop(p, m)
                 \/ /\ Write(p, [m EXCEPT !.c.read = n, !.c.unknown = Unknown(m.c, n)])
                    /\ UNCHANGED status
  BY DEF BeginEntry, Answered, Free
<1>2. p \in Live
  BY <1>1 DEF Live
<1>3. target' \in Nat /\ adding' # p
  BY <1>1 DEF Inv, TypesRight, loop
<1>4. NoneNew(p, queue, queue)
  BY NoneNewAtAll
<1>5. Local(p)
  BY DEF Inv
<1> HIDE DEF m
<1>6. CASE conn[p].expect # "chain" /\ Drop(p, Answer(p))
  <2>1. /\ Sane(p, Answer(p)) /\ Answer(p).queue = queue /\ Answer(p).c.expect = "nothing"
        /\ Answer(p).c.read = conn[p].read
        /\ Answer(p).c.step = conn[p].step
    BY <1>1, AnswerSane
  <2>2. Acted(p) /\ conn'[p] = Answer(p).c /\ status'[p] = "closing"
    BY <1>2, <1>4, <1>6, <2>1, DropGood
  <2>3. Local(p)'
    BY <1>1, <1>3, <2>1, <2>2, LocalDone
  <2> QED
    BY <1>1, <1>3, <2>2, <2>3, SameRest, InvAfter
<1>7. CASE conn[p].expect = "chain"
  <2>1. /\ Good(p, m) /\ m.queue = queue /\ m.c.expect = "nothing"
        /\ m.c.state = conn[p].state /\ m.c.read = conn[p].read /\ Len(ids) \in Nat
        /\ m.c.step = conn[p].step
    BY <1>1, <1>7, EntryGood DEF m
  <2>2. PICK n \in 1 .. Len(ids) :
          \/ Drop(p, m)
          \/ /\ Write(p, [m EXCEPT !.c.read = n, !.c.unknown = Unknown(m.c, n)])
             /\ UNCHANGED status
    BY <1>1, <1>7
  <2> HIDE DEF ids
  <2>3. n \in Nat /\ n > 0 /\ n # 0
    BY <2>1, <2>2
  <2>4. CASE Drop(p, m)
    <3>1. Acted(p) /\ conn'[p] = m.c /\ status'[p] = "closing"
      BY <1>2, <1>4, <2>1, <2>4, DropGood DEF Good
    <3>2. Local(p)'
      BY <1>1, <1>3, <2>1, <3>1, LocalDone
    <3> QED
      BY <1>1, <1>3, <3>1, <3>2, SameRest, InvAfter
  <2>5. CASE /\ Write(p, [m EXCEPT !.c.read = n, !.c.unknown = Unknown(m.c, n)])
             /\ UNCHANGED status
    <3> DEFINE u == Unknown(m.c, n)
               m2 == Reread(m, n, u)
    <3>1. u \in BOOLEAN
      BY DEF Unknown
    <3> HIDE DEF u
    <3>2. /\ Good(p, m2) /\ m2.queue = queue /\ m2.c.read = n
          /\ m2.c.expect = "nothing" /\ m2.c.state = conn[p].state
          /\ m2.c.step = "none"
      <4>1. n \in Nat /\ Good(p, m)
        BY <2>1, <2>3
      <4>2. /\ Good(p, m2) /\ m2.queue = m.queue /\ m2.c.read = n
            /\ m2.c.expect = m.c.expect /\ m2.c.state = m.c.state
            /\ m2.c.step = m.c.step
        BY <3>1, <4>1, ReadGood
      <4> HIDE DEF m2
      <4> QED
        BY <1>1, <2>1, <4>2
    <3>3. Write(p, m2) /\ UNCHANGED status
      BY <2>5 DEF u, Reread
    <3> HIDE DEF m2
    <3>4. Acted(p) /\ conn'[p] = m2.c
      BY <1>2, <1>4, <3>2, <3>3, WriteGood
    <3>5. conn[p].state = "synchronizing"
      BY <1>5, <1>7 DEF Local, Phase
    <3>6. p \in Live'
      BY <1>2, <3>3 DEF Live
    <3>7. Local(p)'
      BY <1>3, <2>3, <3>2, <3>4, <3>5, <3>6 DEF Local, Phase, Busy, Forgotten, Free
    <3> QED
      BY <1>1, <1>3, <3>4, <3>7, SameRest, InvAfter
  <2> QED
    BY <2>2, <2>4, <2>5
<1> QED
  BY <1>1, <1>6, <1>7

LEMMA FinishEntryInv ==
  ASSUME NEW p \in Peers, Inv, FinishEntry(p)
  PROVE  Inv'
<1> DEFINE m == Reread(Handler(p), 0, FALSE)
<1>1. /\ conn[p].read > 0 /\ UNCHANGED <<core, loop>>
      /\ \/ Request(p, m, FALSE, TRUE)
         \/ Drop(p, m) /\ UNCHANGED target
  BY DEF FinishEntry, Reread
<1>2. Good(p, Handler(p)) /\ Handler(p).c = conn[p] /\ Handler(p).queue = queue /\ Local(p)
      /\ conn[p].read \in Nat
  <2>1. Good(p, Handler(p)) /\ Handler(p).c = conn[p] /\ Handler(p).queue = queue /\ Local(p)
        /\ conn[p] \in Contexts
    BY GoodIn
  <2> QED
    BY <2>1 DEF Contexts
<1>3. Busy(p) /\ conn[p].read # 0
  BY <1>1, <1>2 DEF Busy
<1>4. /\ conn[p].expect = "nothing" /\ conn[p].state = "synchronizing" /\ p \in Live
      /\ adding # p /\ conn[p].step = "none"
  BY <1>2, <1>3 DEF Local, Phase
<1>5. /\ Good(p, m) /\ m.queue = queue /\ m.c.read = 0 /\ m.c.step = "none"
      /\ m.c.expect = "nothing" /\ m.c.state = "synchronizing"
  <2> DEFINE h == Handler(p)
             zero == 0
             no == FALSE
  <2>1. zero \in Nat /\ no \in BOOLEAN /\ Good(p, h)
    BY <1>2
  <2> HIDE DEF h, zero, no
  <2>2. LET m2 == Reread(h, zero, no)
        IN /\ Good(p, m2) /\ m2.queue = h.queue /\ m2.c.read = zero
           /\ m2.c.expect = h.c.expect /\ m2.c.state = h.c.state
           /\ m2.c.step = h.c.step
    BY <2>1, ReadGood
  <2>3. /\ Good(p, m) /\ m.queue = Handler(p).queue /\ m.c.read = 0
        /\ m.c.expect = Handler(p).c.expect /\ m.c.state = Handler(p).c.state
        /\ m.c.step = Handler(p).c.step
    BY <2>2 DEF h, zero, no
  <2> QED
    BY <1>2, <1>4, <2>3
<1>6. NoneNew(p, queue, queue)
  BY NoneNewAtAll
<1>7. adding' # p
  BY <1>1, <1>4 DEF loop
<1> HIDE DEF m
<1>8. CASE Request(p, m, FALSE, TRUE)
  <2>1. FALSE \in BOOLEAN /\ TRUE \in BOOLEAN
    OBVIOUS
  <2>2. Ready(p, m)
    BY <1>5, <1>6 DEF Ready
  <2>3. Acted(p) /\ target' \in Nat /\ Local(p)'
    BY <1>4, <1>7, <1>8, <2>1, <2>2, RequestEnds
  <2> QED
    BY <1>1, <2>3, SameRest, InvAfter
<1>9. CASE Drop(p, m) /\ UNCHANGED target
  <2>1. Acted(p) /\ conn'[p] = m.c /\ status'[p] = "closing"
    BY <1>4, <1>5, <1>6, <1>9, DropGood DEF Good
  <2>2. Local(p)'
    BY <1>5, <1>7, <2>1, LocalDone
  <2>3. target' \in Nat
    BY <1>9 DEF Inv, TypesRight
  <2> QED
    BY <1>1, <2>1, <2>2, <2>3, SameRest, InvAfter
<1> QED
  BY <1>1, <1>8, <1>9

\* Peers that share a block share its past.
LEMMA SharedPast ==
  ASSUME NEW p \in Peers, NEW q \in Peers, NEW n \in 1 .. Remote(q),
         ChainOf[q][n] \in Range(ChainOf[p])
  PROVE  n <= Remote(p) /\ \A i \in 1 .. n : ChainOf[p][i] = ChainOf[q][i]
<1>1. PICK j \in 1 .. Remote(p) : ChainOf[p][j] = ChainOf[q][n]
  BY ChainFacts DEF Range
<1>2. j = n
  BY <1>1, SameBlock
<1>3. n \in 1 .. Remote(p) /\ n <= Remote(q) /\ ChainOf[p][n] = ChainOf[q][n] /\ n <= Remote(p)
  BY <1>1, <1>2, ChainFacts
<1> QED
  BY <1>3, SamePast

\* Only the blocks from place a to place b are in S.
Between(seq, S, a, b) ==
  /\ a \in 1 .. Len(seq) + 1 /\ b \in 0 .. Len(seq) /\ a <= b + 1
  /\ \A i \in 1 .. Len(seq) : seq[i] \in S <=> i \in a .. b

LEMMA OnlyBetween ==
  ASSUME NEW seq \in Seq(Blocks), NEW S, NEW a, NEW b, Between(seq, S, a, b)
  PROVE  /\ Only(seq, S) \in Seq(Blocks) /\ Len(Only(seq, S)) = b - a + 1
         /\ \A i \in 1 .. b - a + 1 : Only(seq, S)[i] = seq[a + i - 1]
BY OnlyStretch DEF Between

\* The peer sends the first of the blocks that it was asked for.
LEMMA GivenBlocks ==
  ASSUME NEW p \in Peers, NEW h, NEW asked, Download(h, asked),
         Only(asked, Range(ChainOf[p])) # <<>>
  PROVE  LET blocks == Only(asked, Range(ChainOf[p]))
         IN /\ Download(h, blocks) /\ HeightOf(blocks[1]) = h /\ HeightOf(asked[1]) = h
            /\ blocks[Len(blocks)] \in Blocks
<1> DEFINE S == Range(ChainOf[p])
           blocks == Only(asked, S)
           n == Len(asked)
           T == {i \in 1 .. n : asked[i] \in S}
<1>1. h \in Nat /\ h > 0 /\ asked \in Seq(Blocks)
  BY DEF Download
<1>2. PICK q \in Peers : Stretch(q, h, asked)
  BY DEF Download
<1>3. n \in Nat /\ \A i \in 1 .. n : h + i \in 1 .. Remote(q) /\ asked[i] = ChainOf[q][h + i]
  BY <1>1, <1>2, StretchFacts
<1>4. Remote(p) \in Nat /\ S = {ChainOf[p][j] : j \in 1 .. Remote(p)}
  BY ChainFacts DEF Range
<1>5. blocks \in Seq(Blocks) /\ Range(blocks) = Range(asked) \cap S /\ blocks # <<>>
  BY <1>1, OnlyMembers
<1>6. Range(asked) = {asked[i] : i \in 1 .. n}
  BY <1>1, SeqFacts
<1>7. T # {} /\ T \in SUBSET Nat
  <2>1. Len(blocks) > 0 /\ blocks[1] \in Range(blocks)
    <3>1. Len(blocks) > 0 /\ Len(blocks) \in Nat /\ Range(blocks) = {blocks[i] : i \in 1 .. Len(blocks)}
      BY <1>5, SeqFacts
    <3> HIDE DEF blocks
    <3>2. 1 \in 1 .. Len(blocks)
      BY <3>1
    <3> QED
      BY <3>1, <3>2
  <2>2. PICK i \in 1 .. n : asked[i] = blocks[1]
    BY <1>5, <1>6, <2>1
  <2>3. i \in T
    BY <1>5, <2>1, <2>2
  <2> QED
    BY <1>3, <2>3
<1>8. ASSUME NEW i \in T, NEW k \in 1 .. i PROVE k \in T
  <2> DEFINE x == h + i
  <2>1. x \in 1 .. Remote(q) /\ asked[i] = ChainOf[q][x] /\ i \in 1 .. n /\ asked[i] \in S
    BY <1>3
  <2> HIDE DEF x
  <2>4. x <= Remote(p) /\ \A l \in 1 .. x : ChainOf[p][l] = ChainOf[q][l]
    BY <2>1, SharedPast
  <2>5. h + i <= Remote(p) /\ \A l \in 1 .. h + i : ChainOf[p][l] = ChainOf[q][l]
    BY <2>4 DEF x
  <2>2. i \in 1 .. n
    BY <2>1
  <2> HIDE DEF S, n
  <2>6. h + k \in 1 .. h + i /\ k \in 1 .. n /\ h + k \in 1 .. Remote(p)
    BY <1>1, <1>3, <1>4, <2>2, <2>5
  <2>7. asked[k] = ChainOf[p][h + k]
    BY <1>3, <2>5, <2>6
  <2> QED
    BY <1>4, <2>6, <2>7
<1>9. PICK top \in T : \A i \in T : i <= top
  <2>1. T \in SUBSET (0 .. n)
    BY <1>3
  <2> HIDE DEF T, n
  <2> QED
    BY <1>3, <1>7, <2>1, GreatestNat
<1>10. top \in 1 .. n /\ \A i \in 1 .. n : asked[i] \in S <=> i \in 1 .. top
  <2>1. ASSUME NEW i \in 1 .. n PROVE asked[i] \in S <=> i \in 1 .. top
    <3>1. asked[i] \in S => i <= top
      BY <1>9
    <3>2. i \in 1 .. top => asked[i] \in S
      BY <1>8, <1>9
    <3> QED
      BY <1>3, <1>9, <3>1, <3>2
  <2> QED
    BY <1>9, <2>1
<1> HIDE DEF T, S
<1>11. /\ Len(blocks) = top - 1 + 1
       /\ \A i \in 1 .. top - 1 + 1 : blocks[i] = asked[1 + i - 1]
  <2> DEFINE one == 1
  <2>1. Between(asked, S, one, top)
    BY <1>3, <1>10 DEF Between
  <2> HIDE DEF one, blocks
  <2>2. /\ Len(Only(asked, S)) = top - one + 1
        /\ \A i \in 1 .. top - one + 1 : Only(asked, S)[i] = asked[one + i - 1]
    BY <1>1, <2>1, OnlyBetween
  <2> QED
    BY <2>2 DEF blocks, one
<1> HIDE DEF blocks
<1>12. Len(blocks) = top /\ \A i \in 1 .. top : blocks[i] = asked[i]
  <2>1. top - 1 + 1 = top /\ \A i \in 1 .. top : 1 + i - 1 = i
    BY <1>10
  <2>2. \A i \in 1 .. top : blocks[i] = asked[1 + i - 1]
    BY <1>11, <2>1
  <2> QED
    BY <1>11, <2>1, <2>2
<1>13. Stretch(q, h, blocks)
  BY <1>2, <1>3, <1>10, <1>12 DEF Stretch
<1>14. Download(h, blocks)
  BY <1>1, <1>5, <1>13 DEF Download
<1>15. 1 \in 1 .. Len(asked) /\ blocks[1] = asked[1]
  BY <1>3, <1>10, <1>12
<1>16. HeightOf(asked[1]) = h
  <2>1. HeightOf(asked[1]) = h + 1 - 1
    BY <1>1, <1>2, <1>15, StretchFacts
  <2> QED
    BY <1>1, <2>1
<1>17. blocks[Len(blocks)] \in Blocks
  BY <1>5, <1>10, <1>12
<1> QED
  BY <1>14, <1>15, <1>16, <1>17 DEF blocks, S

Got(m, Q, known) == [m EXCEPT !.queue = Q, !.c.requested = {}, !.c.known = known]

LEMMA GotIs ==
  ASSUME NEW m \in Handlers, NEW Q \in Queues, NEW known \in Blocks
  PROVE  LET m2 == Got(m, Q, known)
         IN /\ m2 \in Handlers /\ m2.queue = Q /\ m2.owed = m.owed
            /\ m2.c.last = m.c.last /\ m2.c.needed = m.c.needed /\ m2.c.expect = m.c.expect
            /\ m2.c.state = m.c.state /\ m2.c.score = m.c.score /\ m2.c.read = m.c.read
            /\ m2.c.step = m.c.step
<1> DEFINE m2 == Got(m, Q, known)
<1>1. m2.c \in Contexts
  BY DEF Handlers, Contexts, Got
<1>2. m2 \in Handlers /\ m2.queue = Q /\ m2.owed = m.owed
  BY <1>1 DEF Handlers, Got
<1>3. /\ m2.c.last = m.c.last /\ m2.c.needed = m.c.needed /\ m2.c.expect = m.c.expect
      /\ m2.c.state = m.c.state /\ m2.c.score = m.c.score /\ m2.c.read = m.c.read
      /\ m2.c.step = m.c.step
  BY DEF Handlers, Contexts, Got
<1> QED
  BY <1>2, <1>3

\* The blocks that arrive fill the span of the first request; others that the
\* connection has scheduled wait for later ones.
LEMMA ReceivedGood ==
  ASSUME NEW p \in Peers, NEW h, NEW blocks, NEW known \in Blocks, Inv, owed[p] # <<>>,
         Head(owed[p]).kind = "objects" => HeightOf(Head(owed[p]).blocks[1]) = h,
         Download(h, blocks)
  PROVE  LET Q == AddBlocks(queue, h, blocks, p)
             m == Got(Answer(p), Q, known)
         IN /\ Good(p, m) /\ NoneNew(p, queue, m.queue) /\ m.c.expect = "nothing"
            /\ m.c.state = conn[p].state /\ m.c.read = conn[p].read
            /\ m.c.step = conn[p].step
<1> DEFINE Q == AddBlocks(queue, h, blocks, p)
           a == Answer(p)
           m == Got(a, Q, known)
<1>1. /\ Sane(p, a) /\ a.queue = queue /\ a.c.expect = "nothing"
      /\ a.c.state = conn[p].state /\ a.c.read = conn[p].read /\ a.owed = Tail(owed[p])
      /\ a.c.step = conn[p].step
      /\ a.c.needed = conn[p].needed /\ a.c.last = conn[p].last
  BY AnswerSane
<1>2. QueueGood(queue)
  BY GoodIn
<1>3. /\ QueueGood(Q) /\ Starts(Q) = Starts(queue) \cup {h}
      /\ \A s \in Starts(queue) : s # h => Q.spans[s] = queue.spans[s]
      /\ Q.spans[h].blocks = blocks
  BY <1>2, AddBlocksGood
<1>4. Filled(Q.spans[h])
  BY <1>3 DEF Filled, Download
<1> HIDE DEF Q, a
<1>5. /\ m \in Handlers /\ m.queue = Q /\ m.owed = a.owed
      /\ m.c.last = a.c.last /\ m.c.needed = a.c.needed /\ m.c.expect = a.c.expect
      /\ m.c.state = a.c.state /\ m.c.score = a.c.score /\ m.c.read = a.c.read
      /\ m.c.step = a.c.step
  <2>1. a \in Handlers /\ Q \in Queues
    BY <1>1, <1>3 DEF Sane, QueueGood
  <2> QED
    BY <2>1, GotIs
<1> HIDE DEF m
<1>6. Sane(p, m)
  BY <1>1, <1>3, <1>5 DEF Sane, NeededRight, Low, Count, Order
<1>7. NoneNew(p, queue, Q)
  BY <1>3, <1>4 DEF NoneNew
<1>8. ASSUME NEW s, s # h, Asked(s, owed[p])
      PROVE  Asked(s, Tail(owed[p]))
  <2> DEFINE owes == owed[p]
  <2>1. PICK j \in DOMAIN owes : owes[j].kind = "objects" /\ HeightOf(owes[j].blocks[1]) = s
    BY <1>8 DEF Asked
  <2>2. /\ Head(owes) = owes[1] /\ DOMAIN owes = 1 .. Len(owes) /\ Len(owes) \in Nat
        /\ DOMAIN Tail(owes) = 1 .. Len(owes) - 1
        /\ \A i \in 1 .. Len(owes) - 1 : Tail(owes)[i] = owes[i + 1]
    BY HeadRight
  <2>3. j # 1
    BY <1>8, <2>1, <2>2
  <2> HIDE DEF owes
  <2>4. j - 1 \in 1 .. Len(owes) - 1 /\ (j - 1) + 1 = j
    BY <2>1, <2>2, <2>3
  <2>5. Tail(owes)[j - 1] = owes[j] /\ j - 1 \in DOMAIN Tail(owes)
    BY <2>2, <2>4
  <2> QED
    BY <2>1, <2>5 DEF Asked, owes
<1>9. OwnSpans(p, m.c, m.owed, m.queue)
  <2>1. OwnSpans(p, conn[p], owed[p], queue)
    BY GoodIn DEF Good
  <2>2. SUFFICES ASSUME NEW s \in Starts(Q), Q.spans[s].owner = p, ~Filled(Q.spans[s])
                 PROVE  (conn[p].needed # <<>> => s < Low(conn[p])) /\ Asked(s, Tail(owed[p]))
    BY <1>1, <1>5 DEF OwnSpans, Low
  <2>3. s # h
    BY <1>4, <2>2
  <2>4. s \in Starts(queue) /\ Q.spans[s] = queue.spans[s]
    BY <1>3, <2>3
  <2> QED
    BY <1>8, <2>1, <2>2, <2>3, <2>4 DEF OwnSpans
<1> QED
  BY <1>1, <1>5, <1>6, <1>7, <1>9 DEF Good, m, Q, a

LEMMA ReceiveObjectsInv ==
  ASSUME NEW p \in Peers, Inv, ReceiveObjects(p)
  PROVE  Inv'
<1> DEFINE asked == Head(owed[p]).blocks
           blocks == Only(asked, Range(ChainOf[p]))
           start == HeightOf(blocks[1])
           known == blocks[Len(blocks)]
           m == Got(Answer(p), AddBlocks(queue, start, blocks, p), known)
<1>1. /\ status[p] = "open" /\ adding # p /\ conn[p].read = 0 /\ owed[p] # <<>>
      /\ conn[p].step = "none"
      /\ Head(owed[p]).kind = "objects" /\ UNCHANGED <<core, taken>>
  BY DEF ReceiveObjects, Answered, Free
<1>2. /\ Sane(p, Answer(p)) /\ Answer(p).queue = queue /\ Answer(p).c.expect = "nothing"
      /\ Answer(p).c.read = conn[p].read
      /\ Answer(p).c.step = conn[p].step
  BY <1>1, AnswerSane
<1>3. \/ conn[p].expect = "objects" /\ blocks # <<>> /\ TryAdd(p, m)
         /\ UNCHANGED <<target, status>>
      \/ Drop(p, Answer(p)) /\ UNCHANGED <<target, adding>>
  BY <1>2 DEF ReceiveObjects, Acceptable, Got
<1>4. p \in Live
  BY <1>1 DEF Live
<1>5. /\ ChainRight' /\ (invalid' = {} => invalid = {})
      /\ taken' = <<>> \/ taken' \in (Peers \cup {None}) \X Nat
  <2>1. ChainRight'
    BY <1>1 DEF Inv, ChainRight, Height, core
  <2> QED
    BY <1>1, <2>1 DEF Inv, TypesRight, core
<1> HIDE DEF m
<1>6. CASE /\ conn[p].expect = "objects" /\ blocks # <<>> /\ TryAdd(p, m)
           /\ UNCHANGED <<target, status>>
  <2>1. PICK h : Download(h, asked)
    BY <1>1, HeadRight DEF RequestRight
  <2>2. Download(h, blocks) /\ start = h /\ HeightOf(asked[1]) = h /\ known \in Blocks
    BY <1>6, <2>1, GivenBlocks
  <2>3. /\ Good(p, m) /\ NoneNew(p, queue, m.queue) /\ m.c.expect = "nothing"
        /\ m.c.state = conn[p].state /\ m.c.read = conn[p].read
        /\ m.c.step = conn[p].step
    <3> HIDE DEF blocks, start, known
    <3> QED
      BY <1>1, <2>2, ReceivedGood DEF m
  <2>4. conn[p].state = "synchronizing"
    BY <1>6 DEF Inv, Local, Phase
  <2>5. Ready(p, m)
    BY <1>1, <2>3, <2>4 DEF Ready
  <2>6. /\ Acted(p) /\ Local(p)' /\ adding' \in Peers \cup {None}
        /\ \A q \in Peers : q # p => (adding' = q <=> adding = q)
    BY <1>1, <1>4, <1>6, <2>5, TryAddGood
  <2>7. target' \in Nat
    BY <1>6 DEF Inv, TypesRight
  <2> QED
    BY <1>5, <2>6, <2>7, InvAfter
<1>7. CASE Drop(p, Answer(p)) /\ UNCHANGED <<target, adding>>
  <2>1. NoneNew(p, queue, queue)
    BY NoneNewAtAll
  <2>2. Acted(p) /\ conn'[p] = Answer(p).c /\ status'[p] = "closing"
    BY <1>2, <1>4, <1>7, <2>1, DropGood
  <2>3. Local(p)'
    BY <1>1, <1>2, <1>7, <2>2, LocalDone
  <2>4. target' \in Nat /\ adding' \in Peers \cup {None}
    BY <1>7 DEF Inv, TypesRight
  <2> QED
    BY <1>5, <1>7, <2>2, <2>3, <2>4, InvAfter
<1> QED
  BY <1>3, <1>6, <1>7

-----------------------------------------------------------------------------
(* The loop that adds spans *)

\* A valid chain of known blocks, from the genesis block on.
Grown(c) ==
  /\ c \in Seq(Blocks) /\ Len(c) > 0
  /\ \E q \in Peers : Stretch(q, 0, c)
  /\ Range(c) \cap Invalid = {}

\* The blocks bs, from height k on, of which those in S are new and valid.
Span(q, k, bs, S) ==
  /\ k \in Nat /\ k > 0 /\ bs \in Seq(Blocks) /\ Stretch(q, k, bs) /\ k <= Remote(q)
  /\ HaveBlock(ChainOf[q][k])
  /\ \A i \in 1 .. Len(bs) : bs[i] \in S <=> ~HaveBlock(bs[i]) /\ bs[i] \notin Invalid

\* The chain is that of any peer up to a height, as far as the latter is valid.
LEMMA ValidShared ==
  ASSUME ChainRight, NEW q \in Peers, NEW n \in 1 .. Remote(q), ChainOf[q][n] \notin Invalid
  PROVE  /\ \A i \in 1 .. n : ChainOf[q][i] \notin Invalid
         /\ \A i \in 1 .. n : i <= Height => chain[i] = ChainOf[q][i]
<1>1. PICK r \in Peers : Stretch(r, 0, chain)
  BY DEF ChainRight
<1>2. chain \in Seq(Blocks) /\ Height \in Nat /\ Range(chain) \cap Invalid = {}
  BY DEF ChainRight, Height
<1>3. \A i \in 1 .. Height : i <= Remote(r) /\ i \in 1 .. Remote(r) /\ chain[i] = ChainOf[r][i]
  <2>1. ASSUME NEW i \in 1 .. Height
        PROVE  i <= Remote(r) /\ i \in 1 .. Remote(r) /\ chain[i] = ChainOf[r][i]
    <3>1. 0 + i <= Remote(r) /\ chain[i] = ChainOf[r][0 + i]
      BY <1>1, <2>1 DEF Stretch, Height
    <3> QED
      BY <1>2, <3>1, ChainFacts
  <2> QED
    BY <2>1
<1>4. \A i \in 1 .. Height : chain[i] \notin Invalid
  BY <1>2 DEF Range, Height
<1>5. \A i \in 1 .. n : ChainOf[q][i] \notin Invalid
  BY ValidPast
<1>6. ASSUME NEW i \in 1 .. n, i <= Height PROVE chain[i] = ChainOf[q][i]
  <2>1. i \in 1 .. Remote(q) /\ i \in 1 .. Height
    BY <1>2, <1>6, ChainFacts
  <2>2. i <= Remote(r) /\ chain[i] = ChainOf[r][i] /\ chain[i] \notin Invalid
    BY <1>3, <1>4, <2>1
  <2> QED
    BY <1>5, <1>6, <2>1, <2>2, OneValid
<1> QED
  BY <1>5, <1>6

\* Only the block of its height is in the chain.
LEMMA ChainPlace ==
  ASSUME ChainRight, NEW q \in Peers, NEW n \in 1 .. Remote(q), ChainOf[q][n] \in Range(chain)
  PROVE  n <= Height
<1>1. PICK r \in Peers : Stretch(r, 0, chain)
  BY DEF ChainRight
<1>2. chain \in Seq(Blocks) /\ Height \in Nat
  BY DEF ChainRight, Height
<1>3. PICK j \in 1 .. Height : chain[j] = ChainOf[q][n]
  BY <1>2 DEF Range, Height
<1>4. 0 + j <= Remote(r) /\ chain[j] = ChainOf[r][0 + j]
  BY <1>1, <1>3 DEF Stretch, Height
<1>5. j \in 1 .. Remote(r) /\ ChainOf[r][j] = ChainOf[q][n]
  BY <1>2, <1>3, <1>4, ChainFacts
<1>6. j = n
  BY <1>5, SameBlock
<1> QED
  BY <1>2, <1>3, <1>6

\* Which blocks of a span are new, when the last of them is at place v.
LEMMA NewPlaces ==
  ASSUME ChainRight, NEW q \in Peers, NEW k, NEW bs, NEW S, Span(q, k, bs, S),
         NEW v \in 1 .. Len(bs), bs[v] \in S,
         \A i \in 1 .. Len(bs) : bs[i] \in S => i <= v
  PROVE  /\ k <= Height /\ Height < k + v /\ Between(bs, S, Height - k + 1, v)
         /\ k + v \in 1 .. Remote(q) /\ ChainOf[q][k + v] \notin Invalid
<1>1. /\ k \in Nat /\ k > 0 /\ bs \in Seq(Blocks) /\ Stretch(q, k, bs) /\ k \in 1 .. Remote(q)
      /\ HaveBlock(ChainOf[q][k])
      /\ \A i \in 1 .. Len(bs) : bs[i] \in S <=> ~HaveBlock(bs[i]) /\ bs[i] \notin Invalid
  BY ChainFacts DEF Span
<1>2. Len(bs) \in Nat /\ \A i \in 1 .. Len(bs) : k + i \in 1 .. Remote(q) /\ bs[i] = ChainOf[q][k + i]
  BY <1>1, StretchFacts
<1>3. Height \in Nat /\ chain \in Seq(Blocks) /\ invalid \subseteq Invalid
  BY DEF ChainRight, Height
<1> DEFINE x == k + v
<1>4. x \in 1 .. Remote(q) /\ bs[v] = ChainOf[q][x] /\ ChainOf[q][x] \notin Invalid
      /\ ~HaveBlock(bs[v])
  BY <1>1, <1>2
<1> HIDE DEF x
<1>5. /\ \A i \in 1 .. x : ChainOf[q][i] \notin Invalid
      /\ \A i \in 1 .. x : i <= Height => chain[i] = ChainOf[q][i]
  BY <1>4, ValidShared
<1>6. ASSUME NEW i \in 1 .. x, i <= Height PROVE HaveBlock(ChainOf[q][i])
  <2>1. i \in 1 .. Height /\ chain[i] = ChainOf[q][i]
    BY <1>3, <1>4, <1>5, <1>6
  <2>2. chain[i] \in Range(chain)
    BY <1>3, <2>1 DEF Range, Height
  <2> QED
    BY <2>1, <2>2 DEF HaveBlock
<1>7. Height < x
  <2>1. x \in 1 .. x /\ x \in Nat
    BY <1>4
  <2>2. ~(x <= Height)
    BY <1>4, <1>6, <2>1
  <2> QED
    BY <1>3, <2>1, <2>2
<1>8. x = k + v
  BY DEF x
<1>9. k <= Height
  <2>1. k \in 1 .. x
    BY <1>1, <1>8
  <2>2. ChainOf[q][k] \in Range(chain)
    BY <1>1, <1>3, <1>5, <2>1 DEF HaveBlock
  <2> QED
    BY <1>1, <2>2, ChainPlace
<1>10. ASSUME NEW i \in 1 .. Len(bs)
       PROVE  bs[i] \in S <=> i \in Height - k + 1 .. v
  <2> DEFINE y == k + i
  <2>1. y \in 1 .. Remote(q) /\ bs[i] = ChainOf[q][y] /\ y = k + i
    BY <1>2
  <2> HIDE DEF y
  <2>2. ASSUME bs[i] \in S PROVE i \in Height - k + 1 .. v
    <3>1. i <= v /\ ~HaveBlock(ChainOf[q][y])
      BY <1>1, <2>1, <2>2
    <3>2. y \in 1 .. x
      BY <1>1, <1>8, <2>1, <3>1
    <3>3. ~(y <= Height)
      BY <1>6, <3>1, <3>2
    <3> QED
      BY <1>1, <1>3, <2>1, <3>1, <3>3
  <2>3. ASSUME i \in Height - k + 1 .. v PROVE bs[i] \in S
    <3>1. y \in 1 .. x /\ ~(y <= Height)
      BY <1>1, <1>3, <1>8, <2>1, <2>3
    <3>2. ChainOf[q][y] \notin Invalid
      BY <1>5, <3>1
    <3>3. ChainOf[q][y] \notin Range(chain)
      BY <2>1, <3>1, ChainPlace
    <3>4. ~HaveBlock(bs[i]) /\ bs[i] \notin Invalid
      BY <1>3, <2>1, <3>2, <3>3 DEF HaveBlock
    <3> QED
      BY <1>1, <3>4
  <2> QED
    BY <2>2, <2>3
<1>11. /\ Height - k + 1 \in 1 .. Len(bs) + 1 /\ v \in 0 .. Len(bs)
       /\ Height - k + 1 <= v + 1
  BY <1>1, <1>2, <1>3, <1>7, <1>8, <1>9
<1> QED
  BY <1>4, <1>7, <1>8, <1>9, <1>10, <1>11 DEF Between

\* The chain grows by the new blocks of a span whose parent is known.
LEMMA Grows ==
  ASSUME ChainRight, NEW q \in Peers, NEW k, NEW bs, NEW S, Span(q, k, bs, S)
  PROVE  Grown(chain \o Only(bs, S))
<1> DEFINE n == Len(bs)
           T == {i \in 1 .. n : bs[i] \in S}
           new == Only(bs, S)
           H == Height
<1>1. /\ k \in Nat /\ k > 0 /\ bs \in Seq(Blocks) /\ Stretch(q, k, bs)
      /\ n \in Nat /\ Range(bs) = {bs[i] : i \in 1 .. n}
  BY SeqFacts DEF Span
<1>2. /\ chain \in Seq(Blocks) /\ H \in Nat /\ H > 0 /\ Len(chain) = H
      /\ \E r \in Peers : Stretch(r, 0, chain)
      /\ Range(chain) \cap Invalid = {}
  BY DEF ChainRight, Height
<1>3. new \in Seq(Blocks) /\ Range(new) = Range(bs) \cap S
  BY <1>1, OnlyMembers
<1> HIDE DEF new, H
<1>4. CASE T = {}
  <2>1. Range(new) = {}
    BY <1>1, <1>3, <1>4
  <2>2. new = <<>>
    <3>1. Len(new) \in Nat /\ Range(new) = {new[i] : i \in 1 .. Len(new)}
          /\ (new # <<>> => Len(new) > 0)
      BY <1>3, SeqFacts
    <3>2. ~(1 \in 1 .. Len(new))
      BY <2>1, <3>1
    <3> QED
      BY <3>1, <3>2
  <2>3. chain \o new = chain
    BY <1>2, <2>2
  <2> QED
    BY <1>2, <2>3 DEF Grown, new
<1>5. CASE T # {}
  <2>1. PICK v \in T : \A i \in T : i <= v
    <3>1. T \in SUBSET (0 .. n)
      BY <1>1
    <3> HIDE DEF T, n
    <3> QED
      BY <1>1, <1>5, <3>1, GreatestNat
  <2>2. v \in 1 .. n /\ bs[v] \in S /\ \A i \in 1 .. n : bs[i] \in S => i <= v
    BY <2>1
  <2> HIDE DEF T
  <2> DEFINE a == H - k + 1
             x == k + v
             c2 == chain \o new
  <2>3. /\ k <= H /\ H < k + v /\ Between(bs, S, a, v)
        /\ x \in 1 .. Remote(q) /\ ChainOf[q][x] \notin Invalid
    BY <2>2, NewPlaces DEF H
  <2> HIDE DEF a
  <2>4. /\ Len(new) = v - a + 1
        /\ \A i \in 1 .. v - a + 1 : new[i] = bs[a + i - 1]
    BY <1>1, <2>3, OnlyBetween DEF new
  <2>5. \A i \in 1 .. n : bs[i] = ChainOf[q][k + i]
    BY <1>1, StretchFacts
  <2> HIDE DEF x, n
  <2>6. /\ \A i \in 1 .. x : ChainOf[q][i] \notin Invalid
        /\ \A i \in 1 .. x : i <= H => chain[i] = ChainOf[q][i]
    BY <2>3, ValidShared DEF H
  <2>7. /\ c2 \in Seq(Blocks) /\ Len(c2) = H + Len(new)
        /\ \A i \in 1 .. H : c2[i] = chain[i]
        /\ \A i \in 1 .. Len(new) : c2[H + i] = new[i]
    BY <1>2, <1>3
  <2> HIDE DEF c2
  <2>8. Len(c2) = x /\ Len(new) = x - H /\ x \in Nat
    BY <1>1, <1>2, <2>2, <2>3, <2>4, <2>7 DEF x, a
  <2>9. ASSUME NEW i \in 1 .. x PROVE c2[i] = ChainOf[q][i]
    <3>1. CASE i <= H
      <4>1. i \in 1 .. H
        BY <1>2, <2>8, <3>1
      <4> QED
        BY <2>6, <2>7, <3>1, <4>1
    <3>2. CASE ~(i <= H)
      <4> DEFINE j == i - H
                 l == i - k
      <4>1. j \in 1 .. Len(new) /\ i = H + j
        BY <1>2, <2>8, <3>2
      <4>2. j \in 1 .. v - a + 1 /\ a + j - 1 = l
        BY <1>1, <1>2, <2>4, <4>1 DEF a
      <4>3. l \in 1 .. n /\ k + l = i
        BY <1>1, <1>2, <2>2, <2>3, <2>8, <3>2 DEF x
      <4> HIDE DEF j, l
      <4>4. c2[i] = new[j] /\ new[j] = bs[l]
        BY <2>4, <2>7, <4>1, <4>2
      <4> QED
        BY <2>5, <4>3, <4>4
    <3> QED
      BY <3>1, <3>2
  <2>10. Stretch(q, 0, c2)
    <3>1. ASSUME NEW i \in 1 .. Len(c2)
          PROVE  0 + i <= Remote(q) /\ c2[i] = ChainOf[q][0 + i]
      <4>1. i \in 1 .. x /\ 0 + i = i
        BY <2>8
      <4> QED
        BY <2>3, <2>9, <4>1, ChainFacts
    <3> QED
      BY <3>1 DEF Stretch
  <2>11. Range(c2) \cap Invalid = {}
    <3>1. Range(c2) = {c2[i] : i \in 1 .. x}
      BY <2>7, <2>8, SeqFacts
    <3> QED
      BY <2>6, <2>9, <3>1
  <2>12. Len(c2) > 0
    BY <2>3, <2>8
  <2>13. Grown(c2)
    BY <2>7, <2>10, <2>11, <2>12 DEF Grown
  <2> QED
    BY <2>13 DEF c2, new
<1> QED
  BY <1>4, <1>5 DEF new

\* The connection that holds the sync lock, or has still to go back to download,
\* has asked for nothing.
LEMMA HolderFacts ==
  ASSUME NEW p \in Peers, Inv, adding = p \/ conn[p].step # "none"
  PROVE  /\ p \in Live /\ conn[p].expect = "nothing" /\ conn[p].state = "synchronizing"
         /\ conn[p].read = 0 /\ Good(p, Handler(p)) /\ Handler(p).c = conn[p]
         /\ Handler(p).queue = queue /\ QueueGood(queue)
         /\ NoneNew(p, queue, Handler(p).queue)
<1>1. /\ Good(p, Handler(p)) /\ Handler(p).c = conn[p] /\ Handler(p).queue = queue
      /\ QueueGood(queue) /\ Local(p) /\ conn[p] \in Contexts
  BY GoodIn
<1>2. /\ p \in Live /\ conn[p].expect = "nothing" /\ conn[p].state = "synchronizing"
      /\ conn[p].read = 0
  BY <1>1 DEF Local, Phase, Busy
<1> QED
  BY <1>1, <1>2, NoneNewAtAll

\* A step that takes spans out of the queue.
LEMMA ErasedActed ==
  ASSUME NEW p \in Peers, NEW R, Inv, p \in Live, ErasedFrom(queue, R), queue' = R,
         UNCHANGED <<conn, owed, status>>
  PROVE  Acted(p)
<1> DEFINE m == [Handler(p) EXCEPT !.queue = R]
<1>1. Good(p, Handler(p)) /\ Handler(p).c = conn[p] /\ Handler(p).queue = queue
      /\ Handler(p).owed = owed[p]
  BY GoodIn
<1>2. Moves(p, Handler(p), m) /\ m.queue = R /\ m.c = conn[p] /\ m.owed = owed[p]
  BY <1>1, ErasedIn
<1> HIDE DEF m
<1>3. Write(p, m)
  <2>1. conn = [conn EXCEPT ![p] = conn[p]] /\ owed = [owed EXCEPT ![p] = owed[p]]
    BY DEF Inv, TypesRight
  <2> QED
    BY <1>2, <2>1 DEF Write
<1> QED
  BY <1>1, <1>2, <1>3, WriteGood DEF Moves

LEMMA HolderStays ==
  ASSUME NEW p \in Peers, Inv, adding = p, adding' = adding, Acted(p), ChainRight',
         UNCHANGED <<conn, status, target, invalid>>,
         taken' = <<>> \/ taken' \in (Peers \cup {None}) \X Nat
  PROVE  Inv'
<1>1. Local(p)'
  <2>1. Local(p) /\ (p \in Live => p \in Live')
    BY DEF Inv, Live
  <2> QED
    BY <2>1, LocalKept
<1>2. target' \in Nat /\ adding' \in Peers \cup {None}
  BY DEF Inv, TypesRight
<1> QED
  BY <1>1, <1>2, InvAfter

LEMMA SkipOldInv ==
  ASSUME NEW p \in Peers, Inv, SkipOld(p)
  PROVE  Inv'
<1> DEFINE R == RemoveSpans(queue, NextFilled.owner, FirstFilled)
<1>1. adding = p /\ queue' = R /\ UNCHANGED <<core, target, status, conn, owed, loop>>
  BY DEF SkipOld, Looking, Looping
<1>2. p \in Live /\ QueueGood(queue)
  BY <1>1, HolderFacts
<1>3. ErasedFrom(queue, R)
  BY <1>2, RemoveGood
<1> HIDE DEF R
<1>4. Acted(p)
  BY <1>1, <1>2, <1>3, ErasedActed
<1>5. ChainRight' /\ (taken' = <<>> \/ taken' \in (Peers \cup {None}) \X Nat)
  BY <1>1, SameRest
<1> QED
  BY <1>1, <1>4, <1>5, HolderStays DEF core, loop

LEMMA FinishSpanInv ==
  ASSUME NEW p \in Peers, Inv, FinishSpan(p)
  PROVE  Inv'
<1> DEFINE R == RemoveSpans(queue, taken[1], taken[2])
<1>1. /\ adding = p /\ queue' = R /\ taken' = <<>>
      /\ UNCHANGED <<core, target, status, conn, owed, adding>>
  BY DEF FinishSpan
<1>2. p \in Live /\ QueueGood(queue)
  BY <1>1, HolderFacts
<1>3. ErasedFrom(queue, R)
  BY <1>2, RemoveGood
<1> HIDE DEF R
<1>4. Acted(p)
  BY <1>1, <1>2, <1>3, ErasedActed
<1>5. ChainRight'
  BY <1>1 DEF Inv, ChainRight, Height, core
<1> QED
  BY <1>1, <1>4, <1>5, HolderStays DEF core

\* A step that leaves everything but the context of p and the queue alone.
LEMMA HandlerGoes ==
  ASSUME NEW p \in Peers, NEW m, NEW step \in Steps, Inv,
         adding = p \/ conn[p].step # "none",
         Good(p, m), NoneNew(p, queue, m.queue),
         m.c.expect = "nothing", m.c.state = "synchronizing", m.c.read = 0,
         Write(p, Restep(m, step)), UNCHANGED <<core, target, status, loop>>,
         adding' = p \/ step # "none", step # "returns"
  PROVE  Inv'
<1>1. p \in Live
  BY HolderFacts
<1>2. Acted(p) /\ Local(p)'
  BY <1>1, StepEnds
<1>3. target' \in Nat
  BY DEF Inv, TypesRight
<1> QED
  BY <1>2, <1>3, SameRest, InvAfter

\* Only where the handler is changes.
LEMMA StepWritten ==
  ASSUME NEW p \in Peers, NEW step, Inv, UNCHANGED <<queue, owed>>,
         conn' = [conn EXCEPT ![p].step = step]
  PROVE  Write(p, Restep(Handler(p), step))
<1> DEFINE h == Handler(p)
<1>1. h \in Handlers /\ h.c = conn[p] /\ h.queue = queue /\ h.owed = owed[p]
  BY GoodIn
<1> HIDE DEF h
<1>2. /\ Restep(h, step).c = [conn[p] EXCEPT !.step = step]
      /\ Restep(h, step).queue = queue /\ Restep(h, step).owed = owed[p]
  BY <1>1 DEF Restep, Handlers
<1>3. owed = [owed EXCEPT ![p] = owed[p]]
  BY DEF Inv, TypesRight
<1>4. conn' = [conn EXCEPT ![p] = [conn[p] EXCEPT !.step = step]]
  BY DEF Inv, TypesRight
<1> QED
  BY <1>2, <1>3, <1>4 DEF Write, h

\* A connection that starts over needs nothing that it knows of.
Restart(m, R) == [m EXCEPT !.queue = R, !.c.needed = <<>>, !.c.last = 0]

LEMMA RestartGood ==
  ASSUME NEW p \in Peers, NEW m, NEW R, Good(p, m), ErasedFrom(m.queue, R)
  PROVE  LET m2 == Restart(m, R)
         IN /\ Good(p, m2) /\ NoneNew(p, m.queue, m2.queue) /\ m2.c.expect = m.c.expect
            /\ m2.c.state = m.c.state /\ m2.c.read = m.c.read
            /\ m2.c.step = m.c.step
<1> DEFINE m2 == Restart(m, R)
<1>1. m \in Handlers /\ R \in Queues
  BY DEF Good, Sane, ErasedFrom, QueueGood
<1>2. m2.c \in Contexts
  <2>1. <<>> \in Seq(Blocks) /\ 0 \in Nat
    OBVIOUS
  <2> QED
    BY <1>1, <2>1 DEF Handlers, Contexts, Restart
<1>3. m2 \in Handlers /\ m2.queue = R /\ m2.owed = m.owed
  BY <1>1, <1>2 DEF Handlers, Restart
<1>4. /\ m2.c.needed = <<>> /\ m2.c.expect = m.c.expect
      /\ m2.c.state = m.c.state /\ m2.c.score = m.c.score /\ m2.c.read = m.c.read
      /\ m2.c.step = m.c.step
  BY <1>1 DEF Handlers, Contexts, Restart
<1> HIDE DEF m2
<1>5. Sane(p, m2)
  BY <1>3, <1>4 DEF Good, Sane, ErasedFrom, NeededRight, Count, Order
<1>6. OwnSpans(p, m2.c, m2.owed, m2.queue)
  BY <1>3, <1>4 DEF Good, OwnSpans, ErasedFrom
<1>7. NoneNew(p, m.queue, m2.queue)
  BY <1>3 DEF NoneNew, ErasedFrom
<1> QED
  BY <1>4, <1>5, <1>6, <1>7 DEF Good, m2

LEMMA FindOrphanInv ==
  ASSUME NEW p \in Peers, Inv, FindOrphan(p)
  PROVE  Inv'
<1> DEFINE m == Handler(p)
           R == RemoveSpans(m.queue, NextFilled.owner, FirstFilled)
           m2 == Restart(m, R)
           step == "resume"
<1>1. /\ Good(p, m) /\ m.queue = queue /\ QueueGood(queue) /\ adding = p
      /\ m.c.expect = "nothing" /\ m.c.state = "synchronizing" /\ m.c.read = 0
      /\ NoneNew(p, queue, m.queue)
  BY HolderFacts DEF FindOrphan, Looking, Looping
<1>2. /\ Write(p, Restep(m, step)) \/ Write(p, Restep(m2, step))
      /\ UNCHANGED <<core, target, status, loop>>
  <2> DEFINE back == IF FirstFilled > Height THEN m ELSE m2
  <2>1. /\ Write(p, [back EXCEPT !.c.step = step])
        /\ UNCHANGED <<core, target, status, loop>>
    BY DEF FindOrphan, Restart
  <2>2. back = m \/ back = m2
    OBVIOUS
  <2> HIDE DEF back, m, m2, step
  <2> QED
    BY <2>1, <2>2 DEF Restep
<1>3. ErasedFrom(m.queue, R)
  <2>1. QueueGood(m.queue)
    BY <1>1
  <2> HIDE DEF m
  <2> QED
    BY <2>1, RemoveGood
<1>4. step \in Steps /\ step # "none" /\ step # "returns"
  BY DEF Steps
<1> HIDE DEF m, R, step
<1>5. /\ Good(p, m2) /\ NoneNew(p, queue, m2.queue) /\ m2.c.expect = "nothing"
      /\ m2.c.state = "synchronizing" /\ m2.c.read = 0
  BY <1>1, <1>3, RestartGood
<1> HIDE DEF m2
<1> QED
  BY <1>1, <1>2, <1>4, <1>5, HandlerGoes

LEMMA LeaveLoopInv ==
  ASSUME NEW p \in Peers, Inv, LeaveLoop(p)
  PROVE  Inv'
<1> DEFINE step == "left"
           m == Handler(p)
<1>1. /\ adding = p /\ adding' = p /\ conn' = [conn EXCEPT ![p].step = step]
      /\ UNCHANGED <<core, target, queue, status, owed, loop>>
  BY DEF LeaveLoop, Looping, loop
<1>2. step \in Steps /\ step # "returns"
  BY DEF Steps
<1> HIDE DEF step
<1>3. /\ Good(p, m) /\ NoneNew(p, queue, m.queue) /\ m.c.expect = "nothing"
      /\ m.c.state = "synchronizing" /\ m.c.read = 0
  BY <1>1, HolderFacts
<1>4. Write(p, Restep(m, step))
  BY <1>1, StepWritten
<1> HIDE DEF m
<1> QED
  BY <1>1, <1>2, <1>3, <1>4, HandlerGoes

LEMMA DecideInv ==
  ASSUME NEW p \in Peers, Inv, Decide(p)
  PROVE  Inv'
<1> DEFINE step == IF DownloadNext(p, queue, FALSE) THEN "force" ELSE "resume"
           m == Handler(p)
<1>1. /\ conn[p].step = "left" /\ conn' = [conn EXCEPT ![p].step = step]
      /\ UNCHANGED <<core, target, queue, status, owed, loop>>
  BY DEF Decide
<1>2. step \in Steps /\ step # "none" /\ step # "returns"
  BY DEF Steps
<1> HIDE DEF step
<1>3. /\ Good(p, m) /\ NoneNew(p, queue, m.queue) /\ m.c.expect = "nothing"
      /\ m.c.state = "synchronizing" /\ m.c.read = 0
  BY <1>1, HolderFacts
<1>4. Write(p, Restep(m, step))
  BY <1>1, StepWritten
<1>5. conn[p].step # "none"
  BY <1>1
<1> HIDE DEF m
<1> QED
  BY <1>1, <1>2, <1>3, <1>4, <1>5, HandlerGoes

\* A handler that only returns ends with the lock; a block has failed.
LEMMA ReleaseInv ==
  ASSUME NEW p \in Peers, Inv, Release(p)
  PROVE  Inv'
<1> DEFINE step == IF conn[p].step = "returns" THEN "none" ELSE conn[p].step
           m == Handler(p)
<1>1. /\ adding = p /\ adding' = None /\ conn[p].step # "none"
      /\ conn' = [conn EXCEPT ![p].step = step]
      /\ UNCHANGED <<core, target, queue, status, owed, taken>>
  BY DEF Release, Inv, TypesRight
<1>2. conn[p] \in Contexts /\ Local(p)
  BY GoodIn
<1>3. step \in Steps /\ (step # "none" => step = conn[p].step /\ step # "returns")
  BY <1>2 DEF Contexts, Steps
<1>4. step = "none" => invalid # {}
  BY <1>1, <1>2 DEF Local, Phase
<1> HIDE DEF step
<1>5. /\ Good(p, m) /\ NoneNew(p, queue, m.queue) /\ m.c.expect = "nothing"
      /\ m.c.state = "synchronizing" /\ m.c.read = 0 /\ p \in Live
  BY <1>1, HolderFacts
<1>6. Write(p, Restep(m, step))
  BY <1>1, StepWritten
<1> HIDE DEF m
<1>7. /\ Good(p, Restep(m, step)) /\ Restep(m, step).queue = m.queue
      /\ Restep(m, step).c.step = step /\ Restep(m, step).c.read = 0
      /\ Restep(m, step).c.expect = "nothing"
      /\ Restep(m, step).c.state = "synchronizing"
  BY <1>3, <1>5, StepGood
<1>8. Acted(p) /\ conn'[p] = Restep(m, step).c
  BY <1>1, <1>5, <1>6, <1>7, WriteGood
<1>9. None \notin Peers /\ adding' # p /\ invalid' = invalid
  BY <1>1, ChainFacts DEF core
<1>10. Local(p)'
  <2>1. CASE step = "none"
    BY <1>4, <1>7, <1>8, <1>9, <2>1, LocalDone
  <2>2. CASE step # "none"
    <3>1. p \in Live'
      BY <1>1, <1>5 DEF Live
    <3> QED
      BY <1>3, <1>7, <1>8, <2>2, <3>1, LocalBusy
  <2> QED
    BY <2>1, <2>2
<1>11. ChainRight'
  BY <1>1 DEF Inv, ChainRight, Height, core
<1>12. /\ target' \in Nat /\ adding' \in Peers \cup {None}
       /\ taken' = <<>> \/ taken' \in (Peers \cup {None}) \X Nat
  BY <1>1 DEF Inv, TypesRight
<1>13. \A q \in Peers : q # p => (adding' = q <=> adding = q)
  BY <1>1, <1>9
<1> QED
  BY <1>8, <1>9, <1>10, <1>11, <1>12, <1>13, InvAfter

LEMMA BackToDownloadInv ==
  ASSUME NEW p \in Peers, Inv, BackToDownload(p)
  PROVE  Inv'
<1> DEFINE none == "none"
           h == Handler(p)
           m == Restep(h, none)
           force == conn[p].step = "force"
<1>1. /\ adding # p /\ conn[p].step # "none" /\ Request(p, m, force, FALSE)
      /\ UNCHANGED <<core, loop>>
  BY DEF BackToDownload, Restep
<1>2. none \in Steps /\ force \in BOOLEAN
  BY DEF Steps
<1>3. /\ Good(p, h) /\ NoneNew(p, queue, h.queue) /\ h.c.expect = "nothing"
      /\ h.c.state = "synchronizing" /\ h.c.read = 0 /\ p \in Live
  BY <1>1, HolderFacts
<1> HIDE DEF none, h, force
<1>4. /\ Good(p, m) /\ m.queue = h.queue /\ m.c.step = none /\ m.c.read = 0
      /\ m.c.expect = "nothing" /\ m.c.state = "synchronizing"
  BY <1>2, <1>3, StepGood
<1> HIDE DEF m
<1>5. Ready(p, m)
  BY <1>3, <1>4 DEF Ready, none
<1>6. adding' # p
  BY <1>1 DEF loop
<1>7. Acted(p) /\ target' \in Nat /\ Local(p)'
  BY <1>1, <1>2, <1>3, <1>5, <1>6, RequestEnds
<1> QED
  BY <1>1, <1>7, SameRest, InvAfter

\* The span that the loop looks at, and the peer that has its blocks.
LEMMA LookedAt ==
  ASSUME NEW p \in Peers, Inv, Looking(p)
  PROVE  /\ FirstFilled \in Nat /\ FirstFilled > 0 /\ NextFilled \in Spans
         /\ NextFilled.blocks \in Seq(Blocks) /\ NextFilled.blocks # <<>>
         /\ \E q \in Peers : /\ Stretch(q, FirstFilled, NextFilled.blocks)
                             /\ FirstFilled <= Remote(q)
                             /\ FirstParent = ChainOf[q][FirstFilled]
<1>1. QueueGood(queue) /\ queue \in Queues
  BY GoodIn DEF QueueGood
<1>2. FilledStarts(queue) \in SUBSET Nat /\ FilledStarts(queue) # {}
  BY <1>1, QueueFields DEF FilledStarts, Looking, Looping
<1>3. FirstFilled \in FilledStarts(queue)
  <2>1. \E s \in FilledStarts(queue) : \A t \in FilledStarts(queue) : s <= t
    BY <1>2, LeastNat
  <2> QED
    BY <2>1 DEF FirstFilled, Min
<1> DEFINE k == FirstFilled
           bs == NextFilled.blocks
<1>4. k \in Nat /\ NextFilled \in Spans /\ bs # <<>> /\ SpanGood(k, NextFilled)
  BY <1>1, <1>3, QueueFields DEF FilledStarts, Filled, NextFilled, QueueGood
<1>5. k > 0 /\ bs \in Seq(Blocks)
  BY <1>4 DEF SpanGood, Spans
<1>6. PICK q \in Peers : Stretch(q, k, bs)
  BY <1>4 DEF SpanGood
<1> HIDE DEF k, bs
<1>7. Len(bs) \in Nat /\ Len(bs) > 0 /\ 1 \in 1 .. Len(bs)
  <2>1. Len(bs) \in Nat /\ Len(bs) > 0
    BY <1>4, <1>5, SeqFacts
  <2> QED
    BY <2>1
<1>8. k + 1 \in 1 .. Remote(q) /\ k + 1 > 1 /\ Parent(bs[1]) = ChainOf[q][k + 1 - 1]
  <2>1. /\ k + 1 \in 1 .. Remote(q)
        /\ k + 1 > 1 => Parent(bs[1]) = ChainOf[q][k + 1 - 1]
    BY <1>4, <1>5, <1>6, <1>7, StretchFacts
  <2> QED
    BY <1>4, <1>5, <2>1
<1>9. k <= Remote(q) /\ Parent(bs[1]) = ChainOf[q][k]
  <2>1. k + 1 - 1 = k
    BY <1>4
  <2> QED
    BY <1>4, <1>8, <2>1, ChainFacts
<1> QED
  BY <1>4, <1>5, <1>6, <1>9 DEF FirstParent, k, bs

LEMMA AddSpanInv ==
  ASSUME NEW p \in Peers, Inv, AddSpan(p)
  PROVE  Inv'
<1> DEFINE k == FirstFilled
           bs == NextFilled.blocks
<1>1. /\ Looking(p) /\ adding = p /\ HaveBlock(FirstParent) /\ AllVerify
      /\ chain' = chain \o NewBlocks /\ taken' = <<NextFilled.owner, FirstFilled>>
      /\ UNCHANGED <<invalid, target, queue, status, conn, owed, adding>>
  BY DEF AddSpan, Looking, Looping
<1>2. /\ k \in Nat /\ k > 0 /\ NextFilled \in Spans /\ bs \in Seq(Blocks)
      /\ \E q \in Peers : Stretch(q, k, bs) /\ k <= Remote(q) /\ FirstParent = ChainOf[q][k]
  BY <1>1, LookedAt
<1>3. PICK q \in Peers : Stretch(q, k, bs) /\ k <= Remote(q) /\ FirstParent = ChainOf[q][k]
  BY <1>2
<1>4. \A i \in 1 .. Len(bs) : bs[i] \in Range(bs) /\ bs[i] \in Blocks
  BY <1>2, SeqFacts
<1>5. Range(bs) \cap Fresh \cap Invalid = {} /\ NewBlocks = Only(bs, Fresh)
  BY <1>1 DEF AllVerify, NewBlocks
<1> HIDE DEF k, bs
<1>6. Span(q, k, bs, Fresh)
  <2>1. \A i \in 1 .. Len(bs) : bs[i] \in Fresh <=> ~HaveBlock(bs[i]) /\ bs[i] \notin Invalid
    BY <1>4, <1>5 DEF Fresh
  <2> QED
    BY <1>1, <1>2, <1>3, <2>1 DEF Span
<1>7. Grown(chain')
  <2>1. ChainRight
    BY DEF Inv
  <2> QED
    BY <1>1, <1>5, <1>6, <2>1, Grows
<1>8. ChainRight'
  BY <1>1, <1>7 DEF Inv, ChainRight, Grown, Height
<1>9. p \in Live /\ QueueGood(queue)
  BY <1>1, HolderFacts
<1>10. Acted(p)
  <2>1. ErasedFrom(queue, queue)
    BY <1>9 DEF ErasedFrom
  <2> QED
    BY <1>1, <1>9, <2>1, ErasedActed
<1>11. taken' \in (Peers \cup {None}) \X Nat
  BY <1>1, <1>2 DEF Spans, k
<1> QED
  BY <1>1, <1>8, <1>10, <1>11, HolderStays

LEMMA FailSpanInv ==
  ASSUME NEW p \in Peers, Inv, FailSpan(p)
  PROVE  Inv'
<1> DEFINE k == FirstFilled
           bs == NextFilled.blocks
           owner == NextFilled.owner
           Q == IF owner \in Live THEN FlushSpans(queue, owner, TRUE) ELSE queue
           R == RemoveSpans(Q, owner, FirstFilled)
<1>1. /\ Looking(p) /\ adding = p /\ HaveBlock(FirstParent) /\ ~AllVerify
      /\ chain' = chain \o GoodBlocks
      /\ invalid' = IF Parent(BadBlock) \in invalid THEN invalid ELSE invalid \cup {BadBlock}
      /\ queue' = R
      /\ status' = [q \in Peers |-> IF q = owner /\ q \in Live THEN "closing" ELSE status[q]]
      /\ conn' = [conn EXCEPT ![p].step = "returns"]
      /\ UNCHANGED <<target, owed, loop>>
  BY DEF FailSpan, Looking, Looping
<1>2. /\ k \in Nat /\ k > 0 /\ bs \in Seq(Blocks)
      /\ \E q \in Peers : Stretch(q, k, bs) /\ k <= Remote(q) /\ FirstParent = ChainOf[q][k]
  BY <1>1, LookedAt
<1>3. PICK q \in Peers : Stretch(q, k, bs) /\ k <= Remote(q) /\ FirstParent = ChainOf[q][k]
  BY <1>2
<1>4. \A i \in 1 .. Len(bs) : bs[i] \in Blocks
  BY <1>2, SeqFacts
<1>5. GoodBlocks = Only(bs, Fresh \ Invalid)
  BY DEF GoodBlocks
<1>0. adding = p
  BY DEF FailSpan, Looking, Looping
<1>6. p \in Live /\ QueueGood(queue) /\ conn[p].read = 0 /\ None \notin Peers
  BY <1>0, HolderFacts, ChainFacts
<1>7. ErasedFrom(queue, R)
  <2> HIDE DEF owner
  <2>1. ErasedFrom(queue, Q)
    <3>1. CASE owner \in Live
      <4>1. ErasedFrom(queue, FlushSpans(queue, owner, TRUE))
        BY <1>6, FlushGood
      <4> QED
        BY <3>1, <4>1
    <3>2. CASE owner \notin Live
      BY <1>6, <3>2 DEF ErasedFrom
    <3> QED
      BY <3>1, <3>2
  <2> HIDE DEF Q
  <2>2. ErasedFrom(Q, R)
    BY <2>1, RemoveGood DEF ErasedFrom
  <2> HIDE DEF R
  <2> QED
    BY <2>1, <2>2 DEF ErasedFrom
<1>8. BadBlock \in Invalid \cap Blocks
  <2> DEFINE bad == Only(bs, Fresh \cap Invalid)
  <2>1. bad \in Seq(Blocks) /\ Range(bad) = Range(bs) \cap (Fresh \cap Invalid)
    BY <1>2, OnlyMembers
  <2>2. Range(bad) # {}
    BY <1>1, <2>1 DEF AllVerify
  <2>3. BadBlock = Head(bad)
    BY DEF BadBlock
  <2> HIDE DEF bad
  <2>4. bad # <<>>
    BY <2>2, EmptyRange
  <2>5. Head(bad) \in Range(bad) /\ Head(bad) \in Blocks
    <3>1. /\ Len(bad) \in Nat /\ Len(bad) > 0 /\ Head(bad) = bad[1] /\ bad[1] \in Blocks
          /\ Range(bad) = {bad[i] : i \in 1 .. Len(bad)}
      BY <2>1, <2>4, SeqFacts
    <3>2. 1 \in 1 .. Len(bad)
      BY <3>1
    <3> QED
      BY <3>1, <3>2
  <2> QED
    BY <2>1, <2>3, <2>5
<1> HIDE DEF k, bs, R, owner
<1>9. Span(q, k, bs, Fresh \ Invalid)
  <2>1. \A i \in 1 .. Len(bs) : bs[i] \in Fresh \ Invalid <=> ~HaveBlock(bs[i]) /\ bs[i] \notin Invalid
    BY <1>4 DEF Fresh
  <2> QED
    BY <1>1, <1>2, <1>3, <2>1 DEF Span
<1>10. Grown(chain')
  <2>1. ChainRight
    BY DEF Inv
  <2> DEFINE S == Fresh \ Invalid
  <2>2. Span(q, k, bs, S) /\ chain' = chain \o Only(bs, S)
    BY <1>1, <1>5, <1>9
  <2> HIDE DEF S
  <2> QED
    BY <2>1, <2>2, Grows
<1>11. invalid' \subseteq Invalid \cap Blocks /\ invalid' # {}
  BY <1>1, <1>8 DEF Inv, ChainRight
<1>12. ChainRight'
  BY <1>10, <1>11 DEF ChainRight, Grown, Height
<1>13. /\ status' \in [Peers -> {"before", "open", "closing", "closed"}]
       /\ \A r \in Peers : status'[r] = status[r] \/ (status'[r] = "closing" /\ r \in Live)
  <2>1. status \in [Peers -> {"before", "open", "closing", "closed"}]
    BY DEF Inv, TypesRight
  <2>2. status' = [r \in Peers |-> IF r = owner /\ r \in Live THEN "closing" ELSE status[r]]
    BY <1>1
  <2>3. ASSUME NEW r \in Peers
        PROVE  /\ status'[r] \in {"before", "open", "closing", "closed"}
               /\ \/ status'[r] = status[r]
                  \/ status'[r] = "closing" /\ r \in Live
    <3>1. status'[r] = IF r = owner /\ r \in Live THEN "closing" ELSE status[r]
      BY <2>2
    <3> QED
      BY <2>1, <3>1
  <2>4. status' = [r \in Peers |-> status'[r]]
    BY <2>2
  <2>5. \A r \in Peers : status'[r] \in {"before", "open", "closing", "closed"}
    BY <2>3
  <2>6. status' \in [Peers -> {"before", "open", "closing", "closed"}]
    BY <2>4, <2>5
  <2> QED
    BY <2>3, <2>6
<1>14. Live' = Live
  BY <1>13 DEF Live
<1>20. /\ Good(p, Handler(p)) /\ Handler(p).c = conn[p] /\ conn[p].expect = "nothing"
       /\ conn[p].state = "synchronizing"
  BY <1>0, HolderFacts
<1> DEFINE step == "returns"
           c2 == [conn[p] EXCEPT !.step = step]
<1>19. step \in Steps
  BY DEF Steps
<1>21. /\ conn' \in [Peers -> Contexts] /\ conn'[p] = c2
       /\ \A r \in Peers : r # p => conn'[r] = conn[r]
       /\ c2.step = "returns" /\ c2.read = 0 /\ c2.expect = "nothing"
       /\ c2.state = "synchronizing"
  <2>1. conn \in [Peers -> Contexts]
    BY DEF Inv, TypesRight
  <2>2. conn' = [conn EXCEPT ![p] = c2]
    BY <1>1, <2>1
  <2>3. step = "returns"
    OBVIOUS
  <2> HIDE DEF step
  <2>4. /\ c2 \in Contexts /\ c2.step = step /\ c2.read = 0
        /\ c2.expect = "nothing" /\ c2.state = "synchronizing"
    BY <1>6, <1>19, <1>20, <2>1, StepContext
  <2> HIDE DEF c2
  <2> QED
    BY <2>1, <2>2, <2>3, <2>4
<1> HIDE DEF step, c2
<1>15. TypesRight'
  BY <1>1, <1>13, <1>21 DEF Inv, TypesRight, loop
<1>16. AllGood'
  <2>1. SUFFICES ASSUME NEW r \in Peers
                 PROVE  Good(r, [c |-> conn'[r], queue |-> R, owed |-> owed[r], fails |-> FALSE])
    BY <1>1 DEF AllGood, Handler
  <2> DEFINE h == Handler(r)
             m == [h EXCEPT !.queue = R]
  <2>2. Good(r, h) /\ h.queue = queue /\ h.c = conn[r] /\ h.owed = owed[r]
    BY GoodIn
  <2> HIDE DEF h
  <2>4. ErasedFrom(h.queue, R)
    BY <1>7, <2>2
  <2>5. Moves(r, h, m) /\ m.queue = R /\ m.c = conn[r] /\ m.owed = owed[r]
    BY <2>2, <2>4, ErasedIn
  <2> HIDE DEF m
  <2>6. Good(r, m)
    BY <2>5 DEF Moves
  <2>7. CASE r # p
    BY <1>21, <2>5, <2>6, <2>7, GoodFields
  <2>8. CASE r = p
    <3>1. Good(r, Restep(m, step)) /\ Restep(m, step).queue = R
      BY <1>19, <2>5, <2>6, StepGood
    <3>2. Restep(m, step).c = conn'[r] /\ Restep(m, step).owed = owed[r]
      <4>1. m \in Handlers
        BY <2>6 DEF Good, Sane
      <4> QED
        BY <1>21, <2>5, <2>8, <4>1 DEF Restep, Handlers, c2
    <3> QED
      BY <3>1, <3>2, GoodFields
  <2> QED
    BY <2>7, <2>8
<1>17. AllLive(queue)'
  BY <1>1, <1>7, <1>14 DEF Inv, AllLive, ErasedFrom
<1>18. ASSUME NEW r \in Peers PROVE Local(r)'
  <2>1. CASE r = p
    BY <1>6, <1>11, <1>14, <1>21, <2>1, LocalBusy
  <2>2. CASE r # p
    <3>1. Local(r) /\ conn'[r] = conn[r] /\ adding' = adding
      BY <1>1, <1>21, <2>2 DEF Inv, loop
    <3> QED
      BY <1>11, <1>13, <1>14, <3>1, LocalKept
  <2> QED
    BY <2>1, <2>2
<1> QED
  BY <1>12, <1>15, <1>16, <1>17, <1>18 DEF Inv

-----------------------------------------------------------------------------
(* The theorems *)

LEMMA InvNext ==
  ASSUME Inv, [Next]_vars
  PROVE  Inv'
<1>1. CASE SpanLate
  BY <1>1, SpanLateInv
<1>2. ASSUME NEW p \in Peers,
             \/ SyncData(p) \/ Disconnect(p) \/ Close(p) \/ Reconnect(p)
             \/ KickIdle(p) \/ CheckStandby(p) \/ Callback(p)
      PROVE  Inv'
  BY <1>2, SyncDataInv, DisconnectInv, CloseInv, ReconnectInv, KickIdleInv,
     CheckStandbyInv, CallbackInv
<1>3. ASSUME NEW p \in Peers, BeginEntry(p) \/ FinishEntry(p) \/ ReceiveObjects(p)
      PROVE  Inv'
  BY <1>3, BeginEntryInv, FinishEntryInv, ReceiveObjectsInv
<1>4. ASSUME NEW p \in Peers, AddingStep(p)
      PROVE  Inv'
  BY <1>4, SkipOldInv, FindOrphanInv, AddSpanInv, FinishSpanInv, FailSpanInv,
     LeaveLoopInv, DecideInv, ReleaseInv, BackToDownloadInv
     DEF AddingStep
<1>5. CASE UNCHANGED vars
  <2>1. TypesRight'
    BY <1>5 DEF Inv, TypesRight, vars
  <2>2. ChainRight'
    BY <1>5 DEF Inv, ChainRight, Height, vars
  <2>3. AllGood'
    BY <1>5 DEF Inv, AllGood, Handler, vars
  <2>4. AllLive(queue)'
    BY <1>5 DEF Inv, AllLive, Live, vars
  <2>5. ASSUME NEW p \in Peers PROVE Local(p)'
    BY <1>5 DEF Inv, Local, Phase, Busy, Forgotten, Free, Live, vars
  <2> QED
    BY <2>1, <2>2, <2>3, <2>4, <2>5 DEF Inv
<1> QED
  BY <1>1, <1>2, <1>3, <1>4, <1>5 DEF Next

LEMMA Invariance == Spec => []Inv
<1>1. Init => Inv
  BY InvInit
<1>2. Inv /\ [Next]_vars => Inv'
  BY InvNext
<1> QED
  BY <1>1, <1>2, PTL DEF Spec

LEMMA InvTypes == Inv => TypeOK
<1> SUFFICES ASSUME Inv PROVE TypeOK
  OBVIOUS
<1>1. PICK p \in Peers : TRUE
  BY ChainFacts
<1>2. queue \in Queues
  BY <1>1, GoodIn DEF QueueGood
<1>3. chain \in Seq(Blocks) /\ Height > 0 /\ invalid \subseteq Blocks
  BY DEF Inv, ChainRight
<1>4. Starts(queue) \subseteq Nat /\ queue.requested \subseteq Blocks
      /\ DOMAIN queue.have \subseteq Blocks
  BY <1>2, QueueFields
<1>5. Range(queue.spans) \subseteq Spans
  <2>1. queue.spans \in [Starts(queue) -> Spans]
    BY <1>2, QueueFields
  <2> QED
    BY <2>1 DEF Range
<1>6. Range(queue.have) \subseteq Nat
  <2>1. queue.have \in [DOMAIN queue.have -> Nat]
    BY <1>2, QueueFields
  <2> QED
    BY <2>1 DEF Range
<1>7. /\ target \in Nat /\ status \in [Peers -> {"before", "open", "closing", "closed"}]
      /\ \A q \in Peers : conn[q] \in Contexts /\ owed[q] \in Seq(Requests)
      /\ adding \in Peers \cup {None}
      /\ taken = <<>> \/ taken \in (Peers \cup {None}) \X Nat
  BY DEF Inv, TypesRight
<1> QED
  BY <1>3, <1>4, <1>5, <1>6, <1>7 DEF TypeOK

LEMMA StretchHeights ==
  ASSUME NEW q \in Peers, NEW s \in Nat, NEW bs \in Seq(Blocks), Stretch(q, s, bs)
  PROVE  \A i \in DOMAIN bs : HeightOf(bs[i]) = s + i - 1
<1>1. DOMAIN bs = 1 .. Len(bs)
  OBVIOUS
<1> QED
  BY <1>1, StretchFacts

LEMMA InvQueue == Inv => QueueRight
<1> SUFFICES ASSUME Inv PROVE QueueRight
  OBVIOUS
<1>1. PICK p \in Peers : TRUE
  BY ChainFacts
<1>2. QueueGood(queue) /\ queue \in Queues
  BY <1>1, GoodIn DEF QueueGood
<1>3. ASSUME NEW s \in Starts(queue)
      PROVE  LET span == queue.spans[s]
             IN /\ \A i \in DOMAIN span.blocks : HeightOf(span.blocks[i]) = s + i - 1
                /\ \A i \in DOMAIN span.hashes : HeightOf(span.hashes[i]) = s + i - 1
                /\ Filled(span) => span.n = Len(span.blocks)
                /\ ~Filled(span) => span.n = Len(span.hashes)
  <2> DEFINE span == queue.spans[s]
  <2>1. s \in Nat /\ span \in Spans /\ SpanGood(s, span)
    BY <1>2, QueueFields DEF QueueGood
  <2> HIDE DEF span
  <2>2. span.blocks \in Seq(Blocks) /\ span.hashes \in Seq(Blocks)
    BY <2>1 DEF Spans
  <2>3. \A i \in DOMAIN span.blocks : HeightOf(span.blocks[i]) = s + i - 1
    BY <2>1, <2>2, StretchHeights DEF SpanGood
  <2>4. \A i \in DOMAIN span.hashes : HeightOf(span.hashes[i]) = s + i - 1
    BY <2>1, <2>2, StretchHeights DEF SpanGood
  <2> QED
    BY <2>1, <2>3, <2>4 DEF SpanGood, span
<1>4. SpansRight
  BY <1>3 DEF SpansRight
<1>5. MarksRight
  BY <1>2 DEF QueueGood, RequestedGood, HaveGood, MarksRight
<1> QED
  BY <1>4, <1>5 DEF QueueRight

LEMMA InvLinked == Inv => ChainLinked
<1> SUFFICES ASSUME Inv, NEW i \in 2 .. Height PROVE Parent(chain[i]) = chain[i - 1]
  BY DEF ChainLinked
<1>1. PICK q \in Peers : Stretch(q, 0, chain)
  BY DEF Inv, ChainRight
<1>2. chain \in Seq(Blocks) /\ Len(chain) = Height /\ Height \in Nat
  BY DEF Inv, ChainRight, Height
<1>3. i \in 1 .. Height /\ i - 1 \in 1 .. Height /\ i > 1 /\ 0 + i = i /\ 0 + (i - 1) = i - 1
  BY <1>2
<1>4. chain[i] = ChainOf[q][0 + i] /\ 0 + i <= Remote(q)
  BY <1>1, <1>2, <1>3 DEF Stretch
<1>5. chain[i - 1] = ChainOf[q][0 + (i - 1)]
  BY <1>1, <1>2, <1>3 DEF Stretch
<1>6. i \in 1 .. Remote(q)
  BY <1>2, <1>3, <1>4, ChainFacts
<1>7. Parent(ChainOf[q][i]) = ChainOf[q][i - 1]
  BY <1>3, <1>6, HeightFacts
<1> QED
  BY <1>3, <1>4, <1>5, <1>7

\* The variables keep their types: whatever the peers do, the contexts, the
\* queue and the requests that are waited for are those that the code expects.
THEOREM TypeCorrect == Spec => []TypeOK
BY Invariance, InvTypes, PTL

\* However connections reserve, fill, replace, flush and remove spans, the
\* queue says of every span how many blocks it has and at which heights, and no
\* hash stays marked as requested or downloaded when its span is gone.
THEOREM QueueStaysRight == Spec => []QueueRight
BY Invariance, InvQueue, PTL

\* The blocks that spans add follow one another from the genesis block on, also
\* when the first blocks of a span were added with another one, when spans come
\* from peers on different branches, and when a block of them fails.
THEOREM ChainStaysLinked == Spec => []ChainLinked
BY Invariance, InvLinked, PTL

\* As long as no block has failed, an open connection that synchronizes waits
\* for an answer, has a handler that runs, or will be called back: no order of
\* answers, timers, closed connections and additions makes the node forget it.
THEOREM NobodyIsForgotten == Spec => []NobodyForgotten
<1>1. Inv => NobodyForgotten
  BY DEF Inv, Local, NobodyForgotten
<1> QED
  BY <1>1, Invariance, PTL
===============================================================================
