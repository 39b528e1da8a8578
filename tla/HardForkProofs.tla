---------------------------- MODULE HardForkProofs ----------------------------
(***************************************************************************)
(* Proofs about HardFork: which version is in force, for every fork table  *)
(* and every chain.                                                        *)
(***************************************************************************)
EXTENDS HardFork, NatFacts, FiniteSetTheorems, SequenceTheorems

-----------------------------------------------------------------------------
(* The forks of a table by height *)

LEMMA TableFacts ==
  ASSUME NEW T \in Tables
  PROVE  /\ Len(T) \in Nat /\ Len(T) > 1
         /\ \A n \in 1 .. Len(T) :
              /\ T[n].version \in Versions /\ T[n].version \in Nat
              /\ T[n].height \in Nat /\ T[n].threshold = 0
         /\ T[1].version = 1 /\ T[1].height = 0 /\ T[2].height = 1
         /\ \A m, n \in 1 .. Len(T) : m < n => /\ T[m].version < T[n].version
                                               /\ T[m].height <= T[n].height
<1> DEFINE Forks == [version : Versions, height : Nat, threshold : {0}]
<1>1. /\ T \in Seq(Forks) /\ Len(T) > 1
      /\ T[1].version = 1 /\ T[1].height = 0 /\ T[2].height = 1
      /\ \A m, n \in 1 .. Len(T) : m < n => /\ T[m].version < T[n].version
                                            /\ T[m].height <= T[n].height
  BY TablesAssumption
<1>2. ASSUME NEW n \in 1 .. Len(T)
      PROVE  /\ T[n].version \in Versions /\ T[n].version \in Nat
             /\ T[n].height \in Nat /\ T[n].threshold = 0
  <2>1. T[n] \in Forks
    <3> HIDE DEF Forks
    <3> QED
      BY <1>1, ElementOfSeq
  <2> QED
    BY <2>1, LimitsAssumption
<1>3. Len(T) \in Nat
  <2> HIDE DEF Forks
  <2> QED
    BY <1>1, LenProperties
<1> HIDE DEF Forks
<1> QED
  BY <1>1, <1>2, <1>3

\* The fork of a height is the last one that has come by then.
LEMMA IndexAtLast ==
  ASSUME NEW T \in Tables, NEW h \in Nat
  PROVE  /\ IndexAt(T, h) \in 1 .. Len(T)
         /\ T[IndexAt(T, h)].height <= h
         /\ \A n \in 1 .. Len(T) : T[n].height <= h => n <= IndexAt(T, h)
<1>1. /\ ForksAt(T, h) \in SUBSET (0 .. Len(T)) /\ 1 \in ForksAt(T, h)
      /\ Len(T) \in Nat
  BY TableFacts DEF ForksAt
<1>2. /\ Max(ForksAt(T, h)) \in ForksAt(T, h)
      /\ \A n \in ForksAt(T, h) : n <= Max(ForksAt(T, h))
  BY <1>1, MaxOfBounded
<1> QED
  BY <1>2 DEF IndexAt, ForksAt

LEMMA IndexAtMonotone ==
  ASSUME NEW T \in Tables, NEW h \in Nat, NEW k \in Nat, h <= k
  PROVE  IndexAt(T, h) <= IndexAt(T, k)
<1>1. /\ IndexAt(T, h) \in 1 .. Len(T) /\ T[IndexAt(T, h)].height <= h
      /\ \A n \in 1 .. Len(T) : T[n].height <= k => n <= IndexAt(T, k)
  BY IndexAtLast
<1>2. T[IndexAt(T, h)].height \in Nat
  BY <1>1, TableFacts
<1>3. T[IndexAt(T, h)].height <= k
  BY <1>1, <1>2
<1> QED
  BY <1>1, <1>3

LEMMA IndexAtGenesis ==
  ASSUME NEW T \in Tables
  PROVE  /\ IndexAt(T, 0) = 1
         /\ \A h \in Nat : T[IndexAt(T, h)].version <= 1 => h = 0
<1>1. \A n \in 1 .. Len(T) : n > 1 => T[n].height >= 1
  <2> SUFFICES ASSUME NEW n \in 1 .. Len(T), n > 1
               PROVE  T[n].height >= 1
    OBVIOUS
  <2>1. n = 2 \/ 2 < n
    OBVIOUS
  <2>2. 2 \in 1 .. Len(T)
    BY TableFacts
  <2> QED
    BY <2>1, <2>2, TableFacts
<1>2. IndexAt(T, 0) = 1
  <2>1. IndexAt(T, 0) \in 1 .. Len(T) /\ T[IndexAt(T, 0)].height <= 0
    BY IndexAtLast
  <2> QED
    BY <1>1, <2>1, TableFacts
<1>3. ASSUME NEW h \in Nat, T[IndexAt(T, h)].version <= 1
      PROVE  h = 0
  <2>1. IndexAt(T, h) = 1
    <3>1. IndexAt(T, h) \in 1 .. Len(T) /\ 1 \in 1 .. Len(T)
      BY IndexAtLast, TableFacts
    <3>2. 1 < IndexAt(T, h) => T[1].version < T[IndexAt(T, h)].version
      BY <3>1, TableFacts
    <3> QED
      BY <1>3, <3>1, <3>2, TableFacts
  <2>2. h >= 1 => 2 <= IndexAt(T, h)
    <3>1. 2 \in 1 .. Len(T)
      BY TableFacts
    <3> QED
      BY <3>1, IndexAtLast, TableFacts
  <2> QED
    BY <2>1, <2>2
<1> QED
  BY <1>2, <1>3

\* A fork that is in force at some height: the next one comes later.
Jump(T, n) ==
  /\ n \in 1 .. Len(T)
  /\ n < Len(T) => T[n].height < T[n + 1].height

LEMMA IndexAtJump ==
  ASSUME NEW T \in Tables, NEW h \in Nat
  PROVE  Jump(T, IndexAt(T, h))
<1> DEFINE n == IndexAt(T, h)
<1>1. n \in 1 .. Len(T) /\ T[n].height <= h /\ T[n].height \in Nat
  BY IndexAtLast, TableFacts
<1>2. n < Len(T) => n + 1 \in 1 .. Len(T) /\ ~(T[n + 1].height <= h)
  <2>1. n < Len(T) => n + 1 \in 1 .. Len(T)
    BY <1>1, TableFacts
  <2>2. \A m \in 1 .. Len(T) : T[m].height <= h => m <= n
    BY IndexAtLast
  <2> HIDE DEF n
  <2> QED
    BY <1>1, <2>1, <2>2
<1>3. n < Len(T) => T[n + 1].height \in Nat
  BY <1>2, TableFacts
<1> HIDE DEF n
<1>4. Jump(T, n)
  BY <1>1, <1>2, <1>3 DEF Jump
<1> QED
  BY <1>4 DEF n

\* One block more does not reach beyond such a fork without stopping at it.
LEMMA JumpNotSkipped ==
  ASSUME NEW T \in Tables, NEW n, Jump(T, n), NEW h \in Nat, IndexAt(T, h) < n
  PROVE  IndexAt(T, h + 1) <= n
<1> DEFINE i == IndexAt(T, h)
           j == IndexAt(T, h + 1)
<1>1. /\ i \in 1 .. Len(T) /\ \A m \in 1 .. Len(T) : T[m].height <= h => m <= i
      /\ j \in 1 .. Len(T) /\ T[j].height <= h + 1
      /\ n \in 1 .. Len(T) /\ i < n /\ Len(T) \in Nat
  <2>1. h + 1 \in Nat
    OBVIOUS
  <2> QED
    BY <2>1, IndexAtLast, TableFacts DEF Jump
<1>2. SUFFICES ASSUME n < j
               PROVE  FALSE
  BY <1>1
<1> HIDE DEF i, j
<1>3. n + 1 \in 1 .. Len(T)
  BY <1>1, <1>2, TableFacts
<1>4. T[n].height < T[n + 1].height /\ T[n + 1].height <= T[j].height
  <2>1. n + 1 = j \/ n + 1 < j
    BY <1>1, <1>2
  <2>2. T[j].height \in Nat
    BY <1>1, TableFacts
  <2> QED
    BY <1>1, <1>2, <1>3, <2>1, <2>2, TableFacts DEF Jump
<1>5. ~(T[n].height <= h)
  BY <1>1
<1>6. /\ T[n].height \in Nat /\ T[n + 1].height \in Nat /\ T[j].height \in Nat
      /\ T[j].height <= h + 1
  BY <1>1, <1>3, TableFacts
<1> QED
  BY <1>4, <1>5, <1>6

LEMMA LargerOf ==
  ASSUME NEW a \in Nat, NEW b \in Nat
  PROVE  /\ Larger(a, b) \in {a, b}
         /\ a <= Larger(a, b) /\ b <= Larger(a, b)
         /\ a <= b => Larger(a, b) = b
BY DEF Larger

-----------------------------------------------------------------------------
(* The window of votes *)

LEMMA VotesType ==
  ASSUME NEW T, NEW w \in Seq(Versions), NEW n
  PROVE  Votes(T, w, n) \in Nat
<1>1. IsFiniteSet(DOMAIN w)
  BY FS_Interval
<1>2. {i \in DOMAIN w : \E m \in n .. Len(T) : w[i] = T[m].version} \in SUBSET DOMAIN w
  OBVIOUS
<1> QED
  BY <1>1, <1>2, FS_Subset, FS_CardinalityType DEF Votes

\* No fork asks for votes, so the fork voted for is the one of the height.
LEMMA RaisedByHeight ==
  ASSUME NEW T \in Tables, NEW w \in Seq(Versions), NEW h \in Nat, NEW current
  PROVE  Raised(T, w, h, current) = Larger(current, IndexAt(T, h))
<1>1. \A n \in ForksAt(T, h) : Threshold(T, n) = 0 /\ Votes(T, w, n) \in Nat
  <2> SUFFICES ASSUME NEW n \in ForksAt(T, h)
               PROVE  Threshold(T, n) = 0 /\ Votes(T, w, n) \in Nat
    OBVIOUS
  <2>1. T[n].threshold = 0
    BY TableFacts DEF ForksAt
  <2>2. WindowSize * 0 = 0
    BY LimitsAssumption
  <2>3. Threshold(T, n) = 0
    BY <2>1, <2>2 DEF Threshold
  <2> QED
    BY <2>3, VotesType
<1>2. {n \in ForksAt(T, h) : Votes(T, w, n) >= Threshold(T, n)} = ForksAt(T, h)
  BY <1>1
<1>3. ForksAt(T, h) # {}
  BY IndexAtLast DEF ForksAt
<1> QED
  BY <1>2, <1>3 DEF Raised, VotedIndex, IndexAt

LEMMA EffectiveType ==
  ASSUME NEW T \in Tables, NEW v \in Versions
  PROVE  Effective(T, v) \in Versions
<1>1. Len(T) \in 1 .. Len(T)
  BY TableFacts
<1> QED
  BY <1>1, TableFacts DEF Effective

\* A function on 1..n is a sequence.
LEMMA FunctionSeq ==
  ASSUME NEW S, NEW n \in Nat, NEW f \in [1 .. n -> S]
  PROVE  f \in Seq(S) /\ Len(f) = n
<1>1. f \in Seq(S)
  BY SeqDef
<1>2. Len(f) \in Nat /\ DOMAIN f = 1 .. Len(f) /\ DOMAIN f = 1 .. n
  BY <1>1, LenProperties
<1> QED
  BY <1>1, <1>2

LEMMA WindowType ==
  ASSUME NEW T \in Tables, NEW c \in Seq(Blocks), Len(c) >= 1
  PROVE  /\ Window(T, c) \in Seq(Versions)
         /\ Len(Window(T, c)) = IF Len(c) > WindowSize THEN WindowSize ELSE Len(c)
         /\ Len(Window(T, c)) \in 1 .. WindowSize
<1> DEFINE first == IF Len(c) > WindowSize THEN Len(c) - WindowSize ELSE 0
           w == [i \in 1 .. Len(c) - first |-> Effective(T, c[first + i].vote)]
<1>1. WindowSize \in Nat /\ WindowSize > 0 /\ Len(c) \in Nat
  BY LimitsAssumption
<1>2. first \in Nat /\ Len(c) - first \in Nat
  BY <1>1
<1>3. w \in [1 .. Len(c) - first -> Versions]
  <2> SUFFICES ASSUME NEW i \in 1 .. Len(c) - first
               PROVE  Effective(T, c[first + i].vote) \in Versions
    OBVIOUS
  <2>1. first + i \in 1 .. Len(c)
    BY <1>1, <1>2
  <2>2. c[first + i].vote \in Versions
    <3>1. c[first + i] \in Blocks
      BY <2>1, ElementOfSeq
    <3> QED
      BY <3>1 DEF Blocks
  <2> QED
    BY <2>2, EffectiveType
<1>4. w \in Seq(Versions) /\ Len(w) = Len(c) - first
  <2> HIDE DEF w, first
  <2> QED
    BY <1>2, <1>3, FunctionSeq
<1>5. Window(T, c) = w
  BY DEF Window
<1>6. Len(c) - first = IF Len(c) > WindowSize THEN WindowSize ELSE Len(c)
  BY <1>1
<1> HIDE DEF w, first
<1> QED
  BY <1>1, <1>4, <1>5, <1>6

LEMMA SlideType ==
  ASSUME NEW w \in Seq(Versions), Len(w) \in 1 .. WindowSize, NEW v \in Versions
  PROVE  /\ Slide(w, v) \in Seq(Versions)
         /\ Len(Slide(w, v)) \in 1 .. WindowSize
<1>1. WindowSize \in Nat /\ Len(w) \in Nat /\ w # <<>>
  BY LimitsAssumption
<1>2. /\ Tail(w) \in Seq(Versions) /\ Len(Tail(w)) = Len(w) - 1
  BY <1>1, HeadTailProperties
<1>3. CASE Len(w) >= WindowSize
  <2>1. Slide(w, v) = Append(Tail(w), v)
    BY <1>3 DEF Slide
  <2> QED
    BY <1>1, <1>2, <1>3, <2>1, AppendProperties
<1>4. CASE ~(Len(w) >= WindowSize)
  <2>1. Slide(w, v) = Append(w, v)
    BY <1>4 DEF Slide
  <2> QED
    BY <1>1, <1>4, <2>1, AppendProperties
<1> QED
  BY <1>3, <1>4

\* The window of a chain slides when a block is added to it.
LEMMA WindowSlides ==
  ASSUME NEW T \in Tables, NEW c \in Seq(Blocks), Len(c) >= 1, NEW b \in Blocks
  PROVE  Window(T, Append(c, b)) = Slide(Window(T, c), Effective(T, b.vote))
<1> DEFINE n == Len(c)
           d == Append(c, b)
           v == Effective(T, b.vote)
           x == Window(T, c)
           y == Window(T, d)
           z == Slide(x, v)
           first == IF n > WindowSize THEN n - WindowSize ELSE 0
           next == IF n + 1 > WindowSize THEN n + 1 - WindowSize ELSE 0
<1>1. WindowSize \in Nat /\ WindowSize > 0 /\ n \in Nat
  BY LimitsAssumption
<1>2. /\ d \in Seq(Blocks) /\ Len(d) = n + 1
      /\ \A i \in 1 .. n : d[i] = c[i]
      /\ d[n + 1] = b
  BY AppendProperties
<1>3. v \in Versions
  BY EffectiveType DEF Blocks
<1>4. /\ x \in Seq(Versions) /\ y \in Seq(Versions)
      /\ Len(x) = n - first /\ Len(y) = n + 1 - next
      /\ Len(x) \in 1 .. WindowSize
  <2>1. Len(d) >= 1
    BY <1>1, <1>2
  <2>2. /\ x \in Seq(Versions) /\ Len(x) \in 1 .. WindowSize
        /\ Len(x) = IF n > WindowSize THEN WindowSize ELSE n
    BY WindowType
  <2>3. /\ y \in Seq(Versions)
        /\ Len(y) = IF n + 1 > WindowSize THEN WindowSize ELSE n + 1
    <3> HIDE DEF d
    <3> QED
      BY <1>2, <2>1, WindowType
  <2> HIDE DEF x, y, d
  <2> QED
    BY <1>1, <2>2, <2>3
<1>5. /\ \A i \in 1 .. n - first : x[i] = Effective(T, c[first + i].vote)
      /\ \A i \in 1 .. n + 1 - next : y[i] = Effective(T, d[next + i].vote)
  <2>1. \A i \in 1 .. n - first : x[i] = Effective(T, c[first + i].vote)
    BY DEF Window
  <2> DEFINE last == IF Len(d) > WindowSize THEN Len(d) - WindowSize ELSE 0
  <2>2. \A i \in 1 .. Len(d) - last : y[i] = Effective(T, d[last + i].vote)
    <3> HIDE DEF d
    <3> QED
      BY DEF Window
  <2>3. Len(d) = n + 1
    BY <1>2
  <2>4. last = next /\ last \in Nat
    <3> HIDE DEF d
    <3> QED
      BY <1>1, <2>3
  <2>5. \A i \in 1 .. n + 1 - next : y[i] = Effective(T, d[next + i].vote)
    <3> HIDE DEF y, d, next, last, n
    <3> QED
      BY <1>1, <2>2, <2>3, <2>4
  <2> QED
    BY <2>1, <2>5
<1>6. /\ z \in Seq(Versions)
      /\ Len(z) = n + 1 - next
      /\ \A i \in 1 .. n + 1 - next :
           z[i] = IF i = n + 1 - next THEN v ELSE x[i + (next - first)]
  <2> HIDE DEF x, v
  <2>1. CASE Len(x) >= WindowSize
    <3>1. z = Append(Tail(x), v) /\ next = first + 1
      BY <1>1, <1>4, <2>1 DEF Slide
    <3>2. /\ Tail(x) \in Seq(Versions) /\ Len(Tail(x)) = Len(x) - 1
          /\ \A i \in 1 .. Len(Tail(x)) : Tail(x)[i] = x[i + 1]
      BY <1>4, HeadTailProperties
    <3>3. next \in Nat /\ first \in Nat /\ Len(Tail(x)) = n - next
      BY <1>1, <1>4, <3>1, <3>2
    <3> DEFINE t == Tail(x)
    <3>4. /\ z \in Seq(Versions) /\ Len(z) = n + 1 - next
          /\ \A i \in 1 .. n - next : z[i] = t[i]
          /\ z[n + 1 - next] = v
      <4>1. t \in Seq(Versions) /\ z = Append(t, v) /\ Len(t) = n - next
        BY <3>1, <3>2, <3>3
      <4>2. /\ z \in Seq(Versions) /\ Len(z) = Len(t) + 1
            /\ \A i \in 1 .. Len(t) : z[i] = t[i]
            /\ z[Len(t) + 1] = v
        <5> HIDE DEF t, z
        <5> QED
          BY <1>3, <4>1, AppendProperties
      <4>3. n - next + 1 = n + 1 - next
        BY <1>1, <3>3
      <4> HIDE DEF t, z, next
      <4> QED
        BY <4>1, <4>2, <4>3
    <3>5. \A i \in 1 .. n - next : t[i] = x[i + (next - first)]
      <4>1. next - first = 1
        BY <3>1, <3>3
      <4> HIDE DEF next, first
      <4> QED
        BY <3>2, <3>3, <4>1
    <3> HIDE DEF z, t, next, first
    <3> QED
      BY <1>1, <3>3, <3>4, <3>5
  <2>2. CASE ~(Len(x) >= WindowSize)
    <3>1. z = Append(x, v) /\ next = 0 /\ first = 0
      BY <1>1, <1>4, <2>2 DEF Slide
    <3> HIDE DEF z, first, next
    <3> QED
      BY <1>1, <1>3, <1>4, <3>1, AppendProperties
  <2> QED
    BY <2>1, <2>2
<1>7. ASSUME NEW i \in 1 .. n + 1 - next
      PROVE  y[i] = z[i]
  <2>1. CASE i = n + 1 - next
    <3>1. next + i = n + 1
      BY <1>1, <2>1
    <3>2. y[i] = v
      BY <1>2, <1>5, <3>1
    <3> QED
      BY <1>6, <2>1, <3>2
  <2>2. CASE i # n + 1 - next
    <3>1. /\ next + i \in 1 .. n
          /\ i + (next - first) \in 1 .. n - first
          /\ first + (i + (next - first)) = next + i
      BY <1>1, <2>2
    <3> HIDE DEF first, next, x, y, z, d
    <3> QED
      BY <1>2, <1>5, <1>6, <2>2, <3>1
  <2> QED
    BY <2>1, <2>2
<1> HIDE DEF x, y, z, d, first, next
<1>8. y = z
  BY <1>4, <1>6, <1>7, SeqEqual
<1> QED
  BY <1>8 DEF x, y, z, d

-----------------------------------------------------------------------------
(* The rescan of a chain *)

\* Versions that some release has in force at some height.
ScheduledVersion(v) ==
  \E T \in Tables : \E n \in 1 .. Len(T) : Jump(T, n) /\ v = T[n].version

LEMMA LoweredLast ==
  ASSUME NEW T \in Tables, NEW current \in 1 .. Len(T), NEW v \in Versions
  PROVE  LET r == Lowered(T, current, v) IN
         /\ r \in 1 .. current
         /\ r = 1 \/ T[r].version <= v
         /\ \A n \in 1 .. current : T[n].version <= v => n <= r
<1> DEFINE S == {n \in 1 .. current : n = 1 \/ T[n].version <= v}
<1>1. Len(T) \in Nat /\ current \in Nat /\ current >= 1
  BY TableFacts
<1>2. S \in SUBSET (0 .. current) /\ 1 \in S
  BY <1>1
<1>3. Max(S) \in S /\ \A n \in S : n <= Max(S)
  <2> HIDE DEF S
  <2> QED
    BY <1>1, <1>2, MaxOfBounded
<1>4. Lowered(T, current, v) = Max(S)
  BY DEF Lowered
<1> QED
  BY <1>3, <1>4

\* Going down stops at the fork of the version, or does not go down at all if
\* the release does not know the version.
LEMMA LoweredJump ==
  ASSUME NEW T \in Tables, NEW current, Jump(T, current),
         NEW v \in Versions, ScheduledVersion(v)
  PROVE  Jump(T, Lowered(T, current, v))
<1> DEFINE r == Lowered(T, current, v)
<1>0. PICK S \in Tables : \E n \in 1 .. Len(S) : Jump(S, n) /\ v = S[n].version
  BY DEF ScheduledVersion
<1>1. PICK m \in 1 .. Len(S) : Jump(S, m) /\ v = S[m].version
  BY <1>0
<1>2. current \in 1 .. Len(T) /\ v \in Nat
  BY LimitsAssumption DEF Jump
<1>3. /\ r \in 1 .. current
      /\ r = 1 \/ T[r].version <= v
      /\ \A n \in 1 .. current : T[n].version <= v => n <= r
  BY <1>2, LoweredLast
<1>4. Len(S) \in Nat /\ Len(T) \in Nat
  BY TableFacts
<1>5. /\ m <= Len(T) => Jump(T, m) /\ T[m].version = v
      /\ m > Len(T) => \A n \in 1 .. Len(T) : T[n].version <= v
  <2>1. CASE Len(S) <= Len(T)
    <3>1. /\ \A n \in 1 .. Len(S) : T[n] = S[n]
          /\ Len(S) < Len(T) => S[Len(S)].height < T[Len(S) + 1].height
      BY <2>1, ReleasesAssumption
    <3>2. T[m] = S[m] /\ m \in 1 .. Len(T)
      BY <1>4, <2>1, <3>1
    <3>3. CASE m < Len(S)
      <4>1. m + 1 \in 1 .. Len(S)
        BY <1>4, <3>3
      <4> QED
        BY <1>1, <1>4, <3>1, <3>2, <3>3, <4>1 DEF Jump
    <3>4. CASE m = Len(S)
      BY <1>1, <1>4, <3>1, <3>2, <3>4 DEF Jump
    <3> QED
      BY <1>4, <3>3, <3>4
  <2>2. CASE Len(T) <= Len(S)
    <3>1. \A n \in 1 .. Len(T) : S[n] = T[n]
      BY <2>2, ReleasesAssumption
    <3>2. m <= Len(T) => Jump(T, m) /\ T[m].version = v
      <4>1. m < Len(T) => m + 1 \in 1 .. Len(T) /\ m < Len(S)
        BY <1>4, <2>2
      <4> QED
        BY <1>1, <1>4, <3>1, <4>1 DEF Jump
    <3>3. ASSUME m > Len(T), NEW n \in 1 .. Len(T)
          PROVE  T[n].version <= v
      <4>1. n \in 1 .. Len(S) /\ n < m
        BY <1>4, <2>2, <3>3
      <4>2. S[n].version < S[m].version /\ S[n].version \in Nat /\ S[m].version \in Nat
        BY <4>1, TableFacts
      <4> QED
        BY <1>1, <3>1, <4>2
    <3> QED
      BY <3>2, <3>3
  <2> QED
    BY <1>4, <2>1, <2>2
<1> HIDE DEF r
<1>6. CASE m <= Len(T) /\ m < current
  <2>1. T[m].version = v /\ m \in 1 .. current /\ m \in 1 .. Len(T)
    BY <1>2, <1>4, <1>5, <1>6
  <2>2. m <= r /\ r \in 1 .. Len(T)
    BY <1>2, <1>3, <1>4, <2>1
  <2>3. m < r => T[m].version < T[r].version
    BY <2>1, <2>2, TableFacts
  <2>4. T[r].version \in Nat
    BY <2>2, TableFacts
  <2>5. r = m
    BY <1>2, <1>3, <1>4, <2>1, <2>2, <2>3, <2>4
  <2> QED
    BY <1>5, <1>6, <2>5 DEF r
<1>7. CASE ~(m <= Len(T) /\ m < current)
  <2>1. T[current].version <= v
    <3>1. CASE m > Len(T)
      BY <1>2, <1>5, <3>1
    <3>2. CASE m <= Len(T)
      <4>1. m = current \/ current < m
        BY <1>2, <1>4, <1>7, <3>2
      <4>2. m \in 1 .. Len(T) /\ T[m].version = v
        BY <1>4, <1>5, <3>2
      <4>3. current < m => T[current].version < T[m].version
        BY <1>2, <4>2, TableFacts
      <4>4. T[current].version \in Nat
        BY <1>2, TableFacts
      <4> QED
        BY <1>2, <4>1, <4>2, <4>3, <4>4
    <3> QED
      BY <1>4, <3>1, <3>2
  <2>2. r = current
    BY <1>2, <1>3, <1>4, <2>1
  <2> QED
    BY <2>2 DEF r
<1> QED
  BY <1>6, <1>7

\* It goes down as far as the version says.
LEMMA LoweredBelow ==
  ASSUME NEW T \in Tables, NEW current \in 1 .. Len(T),
         NEW n \in 1 .. Len(T), NEW v \in Versions, v <= T[n].version
  PROVE  Lowered(T, current, v) <= n
<1> DEFINE r == Lowered(T, current, v)
<1>1. r \in 1 .. current /\ (r = 1 \/ T[r].version <= v)
  BY LoweredLast
<1> HIDE DEF r
<1>2. r \in 1 .. Len(T) /\ Len(T) \in Nat
  BY <1>1, TableFacts
<1>3. /\ T[r].version \in Nat /\ T[n].version \in Nat /\ v \in Nat
      /\ n < r => T[n].version < T[r].version
  BY <1>2, TableFacts, LimitsAssumption
<1>4. r <= n
  BY <1>1, <1>2, <1>3
<1> QED
  BY <1>4 DEF r

LEMMA PrefixType ==
  ASSUME NEW c \in Seq(Blocks), NEW h \in 1 .. Len(c)
  PROVE  /\ SubSeq(c, 1, h) \in Seq(Blocks) /\ Len(SubSeq(c, 1, h)) = h
         /\ \A k \in 1 .. h : SubSeq(c, 1, h)[k] = c[k]
<1>1. Len(c) \in Nat /\ 1 \in 1 .. Len(c) + 1 /\ h \in 1 - 1 .. Len(c)
  OBVIOUS
<1>2. /\ SubSeq(c, 1, h) \in Seq(Blocks)
      /\ Len(SubSeq(c, 1, h)) = IF 1 <= h THEN h - 1 + 1 ELSE 0
      /\ \A k \in 1 .. h - 1 + 1 : SubSeq(c, 1, h)[k] = c[1 + k - 1]
  BY <1>1, SubSeqProperties
<1>3. 1 <= h /\ h - 1 + 1 = h /\ \A k \in 1 .. h : 1 + k - 1 = k
  BY <1>1
<1> QED
  BY <1>2, <1>3

RescanStart(s, h) == IF h = 1 THEN 1 ELSE s[h - 1]

LEMMA RescannedToIs ==
  ASSUME NEW T \in Tables, NEW c \in Seq(Blocks), NEW h \in 1 .. Len(c),
         NEW s, NEW current
  PROVE  LET m == RescannedTo(T, c, s, h, current) IN
         /\ m.window = Window(T, SubSeq(c, 1, h))
         /\ m.window \in Seq(Versions) /\ Len(m.window) \in 1 .. WindowSize
         /\ m.index = Larger(Lowered(T, current, RescanStart(s, h)), IndexAt(T, h))
<1> DEFINE d == SubSeq(c, 1, h)
           w == Window(T, d)
           a == Lowered(T, current, RescanStart(s, h))
<1>1. d \in Seq(Blocks) /\ Len(d) >= 1 /\ h \in Nat
  BY PrefixType
<1>2. w \in Seq(Versions) /\ Len(w) \in 1 .. WindowSize
  <2> HIDE DEF d
  <2> QED
    BY <1>1, WindowType
<1>3. /\ RescannedTo(T, c, s, h, current).window = w
      /\ RescannedTo(T, c, s, h, current).index = Raised(T, w, h, a)
  BY DEF RescannedTo, RescanStart
<1>4. Raised(T, w, h, a) = Larger(a, IndexAt(T, h))
  <2> HIDE DEF w, a
  <2> QED
    BY <1>1, <1>2, RaisedByHeight
<1> QED
  BY <1>2, <1>3, <1>4

\* The rescan of one block.
RescanStep(T, m, b, k) ==
  LET w == Slide(m.window, Effective(T, b.vote))
  IN IF Passes(T, b, m.index)
     THEN [window |-> w, index |-> Raised(T, w, k, m.index)]
     ELSE m

\* a holds the states of the rescan from block h up to block n.
IsRescan(a, h, n) ==
  a = [k \in h .. n |->
        IF k = h THEN RescannedTo(heights, chain, stored, h, index)
        ELSE RescanStep(heights, a[k - 1], chain[k], k)]

\* The recursion of Reorganized is well defined.
LEMMA RescanExists ==
  ASSUME Height \in Nat, NEW h \in 1 .. Height
  PROVE  \E a : IsRescan(a, h, Height) /\ Reorganized(h) = a[Height]
<1> DEFINE S == {n \in h .. Height : ~ \E a : IsRescan(a, h, n)}
<1>1. S = {}
  <2> SUFFICES ASSUME S # {}
               PROVE  FALSE
    OBVIOUS
  <2>1. S \in SUBSET Nat
    OBVIOUS
  <2>2. PICK n \in S : \A m \in S : n <= m
    <3> HIDE DEF S
    <3> QED
      BY <2>1, LeastNat
  <2>3. n \in h .. Height /\ h \in Nat
    OBVIOUS
  <2>4. CASE n = h
    <3> DEFINE a == [k \in h .. h |-> RescannedTo(heights, chain, stored, h, index)]
    <3>1. \A k \in h .. h : k = h
      OBVIOUS
    <3>2. IsRescan(a, h, h)
      BY <3>1 DEF IsRescan
    <3> QED
      BY <2>4, <3>2
  <2>5. CASE n # h
    <3>1. n - 1 \in h .. Height /\ n - 1 < n
      BY <2>3, <2>5
    <3>2. n - 1 \notin S
      BY <2>2, <2>3, <3>1
    <3>3. PICK a : IsRescan(a, h, n - 1)
      BY <3>1, <3>2
    <3> DEFINE b == [k \in h .. n |->
                      IF k = n THEN RescanStep(heights, a[n - 1], chain[n], n)
                      ELSE a[k]]
    <3>4. \A k \in h .. n : b[k] = IF k = n THEN RescanStep(heights, a[n - 1], chain[n], n)
                                   ELSE a[k]
      OBVIOUS
    <3>5. \A k \in h .. n - 1 :
            a[k] = IF k = h THEN RescannedTo(heights, chain, stored, h, index)
                   ELSE RescanStep(heights, a[k - 1], chain[k], k)
      BY <3>3 DEF IsRescan
    <3>6. ASSUME NEW k \in h .. n
          PROVE  b[k] = IF k = h THEN RescannedTo(heights, chain, stored, h, index)
                        ELSE RescanStep(heights, b[k - 1], chain[k], k)
      <4>1. CASE k = n
        <5>1. n - 1 \in h .. n /\ n - 1 # n /\ k # h
          BY <2>3, <2>5, <3>1, <4>1
        <5>2. b[n - 1] = a[n - 1]
          BY <3>4, <5>1
        <5> HIDE DEF b
        <5> QED
          BY <3>4, <4>1, <5>1, <5>2
      <4>2. CASE k # n
        <5>1. k \in h .. n - 1 /\ b[k] = a[k]
          BY <2>3, <4>2
        <5>2. k # h => k - 1 \in h .. n /\ k - 1 # n
          BY <2>3
        <5>3. k # h => b[k - 1] = a[k - 1]
          BY <3>4, <5>2
        <5> HIDE DEF b
        <5> QED
          BY <3>5, <5>1, <5>3
      <4> QED
        BY <4>1, <4>2
    <3>7. IsRescan(b, h, n)
      <4>1. b = [k \in h .. n |-> b[k]]
        OBVIOUS
      <4> HIDE DEF b
      <4> QED
        BY <3>6, <4>1 DEF IsRescan
    <3> QED
      BY <3>7
  <2> QED
    BY <2>4, <2>5
<1>2. \E a : IsRescan(a, h, Height)
  <2>1. Height \in h .. Height /\ Height \notin S
    BY <1>1
  <2> QED
    BY <2>1
<1> DEFINE f == CHOOSE a : IsRescan(a, h, Height)
<1>3. IsRescan(f, h, Height)
  BY <1>2
<1>4. Reorganized(h) = f[Height]
  BY DEF Reorganized, IsRescan, RescanStep
<1> QED
  BY <1>3, <1>4

\* The blocks above h have the versions of their heights.
InForceAbove(h) ==
  \A k \in h + 1 .. Height : Passes(heights, chain[k], IndexAt(heights, k - 1))

\* The rescan comes back to the fork in force, and to the votes of the last
\* blocks if it starts from a version that is not ahead of its time.
LEMMA RescanRight ==
  ASSUME heights \in Tables, chain \in Seq(Blocks), NEW h \in 1 .. Height,
         index = IndexAt(heights, Height),
         RescanStart(stored, h) \in Versions,
         ScheduledVersion(RescanStart(stored, h)),
         InForceAbove(h)
  PROVE  /\ Reorganized(h).index = index
         /\ Reorganized(h).window \in Seq(Versions)
         /\ Len(Reorganized(h).window) \in 1 .. WindowSize
         /\ RescanStart(stored, h) <= heights[IndexAt(heights, h)].version =>
              Reorganized(h).window = Window(heights, chain)
<1> DEFINE T == heights
           low == Lowered(T, index, RescanStart(stored, h))
<1> USE DEF Height
<1>1. Height \in Nat /\ h \in Nat /\ h <= Height
  OBVIOUS
<1>2. PICK a : IsRescan(a, h, Height) /\ Reorganized(h) = a[Height]
  BY <1>1, RescanExists
<1>3. Jump(T, low) /\ low \in Nat /\ low <= index
  <2>1. Jump(T, index) /\ index \in 1 .. Len(T)
    BY <1>1, IndexAtJump DEF Jump
  <2>2. Jump(T, low)
    BY <2>1, LoweredJump
  <2>3. low \in 1 .. index
    BY <2>1, LoweredLast
  <2> HIDE DEF low
  <2> QED
    BY <2>1, <2>2, <2>3
<1>4. \A n \in Nat : IndexAt(T, n) \in Nat /\ IndexAt(T, n) \in 1 .. Len(T)
  BY IndexAtLast
<1> DEFINE Right(n) ==
             /\ a[n].index = Larger(low, IndexAt(T, n))
             /\ a[n].window \in Seq(Versions) /\ Len(a[n].window) \in 1 .. WindowSize
             /\ low <= IndexAt(T, h) => a[n].window = Window(T, SubSeq(chain, 1, n))
           S == {n \in h .. Height : ~Right(n)}
<1>5. /\ a[h] = RescannedTo(T, chain, stored, h, index)
      /\ \A n \in h + 1 .. Height : a[n] = RescanStep(T, a[n - 1], chain[n], n)
  BY <1>1, <1>2 DEF IsRescan
<1> HIDE DEF low
<1>6. Right(h)
  BY <1>5, RescannedToIs DEF low
<1>7. ASSUME NEW n \in h + 1 .. Height, Right(n - 1)
      PROVE  Right(n)
  <2> DEFINE i == IndexAt(T, n - 1)
             j == IndexAt(T, n)
             m == a[n - 1]
             b == chain[n]
             w == Slide(m.window, Effective(T, b.vote))
  <2>1. n - 1 \in Nat /\ n \in Nat /\ n \in 1 .. Height /\ n - 1 \in 1 .. Height /\ h <= n - 1
    BY <1>1
  <2>2. i \in 1 .. Len(T) /\ j \in 1 .. Len(T) /\ i \in Nat /\ j \in Nat /\ i <= j
    <3>1. n - 1 <= n
      BY <2>1
    <3>2. i <= j
      BY <2>1, <3>1, IndexAtMonotone
    <3> QED
      BY <1>4, <2>1, <3>2
  <2>3. b \in Blocks
    BY <2>1, ElementOfSeq
  <2>4. Passes(T, b, i)
    BY DEF InForceAbove
  <2>5. /\ m.index = Larger(low, i)
        /\ m.window \in Seq(Versions) /\ Len(m.window) \in 1 .. WindowSize
        /\ low <= IndexAt(T, h) => m.window = Window(T, SubSeq(chain, 1, n - 1))
    BY <1>7
  <2>6. w \in Seq(Versions) /\ Len(w) \in 1 .. WindowSize
    <3>1. Effective(T, b.vote) \in Versions
      BY <2>3, EffectiveType DEF Blocks
    <3> HIDE DEF m, b
    <3> QED
      BY <2>5, <3>1, SlideType
  <2>7. a[n] = RescanStep(T, m, b, n)
    BY <1>5
  <2>8. CASE low <= i
    <3>1. m.index = i /\ Larger(low, j) = j /\ Larger(i, j) = j
      BY <1>3, <2>2, <2>5, <2>8, LargerOf
    <3>2. a[n] = [window |-> w, index |-> Raised(T, w, n, i)]
      <4> HIDE DEF m, b, w, i
      <4> QED
        BY <2>4, <2>7, <3>1 DEF RescanStep, w
    <3>3. Raised(T, w, n, i) = j
      <4> HIDE DEF w, i
      <4> QED
        BY <2>1, <2>6, <3>1, RaisedByHeight
    <3>4. low <= IndexAt(T, h) => w = Window(T, SubSeq(chain, 1, n))
      <4> SUFFICES ASSUME low <= IndexAt(T, h)
                   PROVE  w = Window(T, SubSeq(chain, 1, n))
        OBVIOUS
      <4> DEFINE c == SubSeq(chain, 1, n - 1)
                 d == SubSeq(chain, 1, n)
      <4>1. /\ c \in Seq(Blocks) /\ Len(c) = n - 1 /\ \A k \in 1 .. n - 1 : c[k] = chain[k]
            /\ d \in Seq(Blocks) /\ Len(d) = n /\ \A k \in 1 .. n : d[k] = chain[k]
        BY <2>1, PrefixType
      <4>2. d = Append(c, b)
        <5> DEFINE e == Append(c, b)
        <5>1. /\ e \in Seq(Blocks) /\ Len(e) = Len(c) + 1
              /\ \A k \in 1 .. Len(c) : e[k] = c[k]
              /\ e[Len(c) + 1] = b
          <6> HIDE DEF c, b
          <6> QED
            BY <2>3, <4>1, AppendProperties
        <5>2. \A k \in 1 .. n : k \in 1 .. n - 1 \/ k = n - 1 + 1
          BY <2>1
        <5>3. \A k \in 1 .. n : d[k] = e[k]
          <6> HIDE DEF c, d, e
          <6> QED
            BY <2>1, <4>1, <5>1, <5>2
        <5>4. Len(e) = n
          <6> HIDE DEF c, d, e
          <6> QED
            BY <2>1, <4>1, <5>1
        <5> HIDE DEF c, d, e
        <5>5. d = e
          BY <4>1, <5>1, <5>3, <5>4, SeqEqual
        <5> QED
          BY <5>5 DEF e
      <4>3. m.window = Window(T, c)
        BY <2>5
      <4>4. Len(c) >= 1
        BY <2>1, <4>1
      <4> HIDE DEF c, d, b, m
      <4>5. Window(T, d) = Slide(Window(T, c), Effective(T, b.vote))
        BY <2>3, <4>1, <4>2, <4>4, WindowSlides
      <4> QED
        BY <4>3, <4>5 DEF d
    <3>5. a[n].index = j /\ a[n].window = w
      <4> HIDE DEF w, i, j
      <4> QED
        BY <3>2, <3>3
    <3> HIDE DEF w, i
    <3> QED
      BY <2>6, <3>1, <3>4, <3>5
  <2>9. CASE ~(low <= i)
    <3>1. i < low /\ m.index = low
      BY <1>3, <2>2, <2>5, <2>9 DEF Larger
    <3>2. j <= low
      <4>1. IndexAt(T, n - 1 + 1) <= low
        BY <1>3, <2>1, <3>1, JumpNotSkipped
      <4> QED
        BY <2>1, <4>1
    <3>3. ~Passes(T, b, low)
      <4>1. low \in 1 .. Len(T)
        BY <1>3 DEF Jump
      <4>2. /\ T[i].version < T[low].version
            /\ T[i].version \in Nat /\ T[low].version \in Nat
        BY <2>2, <3>1, <4>1, TableFacts
      <4> HIDE DEF b, i
      <4> QED
        BY <2>4, <4>2 DEF Passes
    <3>4. a[n] = m
      <4> HIDE DEF m, b
      <4> QED
        BY <2>7, <3>1, <3>3 DEF RescanStep
    <3>5. Larger(low, j) = low
      BY <1>3, <2>2, <3>2 DEF Larger
    <3>6. ~(low <= IndexAt(T, h))
      <4>1. IndexAt(T, h) <= i /\ IndexAt(T, h) \in Nat
        BY <1>1, <1>4, <2>1, IndexAtMonotone
      <4> QED
        BY <1>3, <2>2, <2>9, <4>1
    <3> QED
      BY <2>5, <3>1, <3>4, <3>5, <3>6
  <2> QED
    BY <2>8, <2>9
<1>8. S = {}
  <2> SUFFICES ASSUME S # {}
               PROVE  FALSE
    OBVIOUS
  <2>1. S \in SUBSET Nat
    BY <1>1
  <2>2. PICK n \in S : \A k \in S : n <= k
    <3> HIDE DEF S
    <3> QED
      BY <2>1, LeastNat
  <2>3. n \in h .. Height /\ ~Right(n)
    BY <2>2
  <2> HIDE DEF Right
  <2>4. n # h
    BY <1>6, <2>3
  <2>5. n \in h + 1 .. Height /\ n - 1 \in h .. Height /\ ~(n <= n - 1)
    BY <1>1, <2>3, <2>4
  <2>6. Right(n - 1)
    BY <2>2, <2>5
  <2> QED
    BY <1>7, <2>3, <2>5, <2>6
<1>9. Right(Height)
  <2>1. Height \in h .. Height
    BY <1>1
  <2> HIDE DEF Right
  <2> QED
    BY <1>8, <2>1
<1>10. SubSeq(chain, 1, Height) = chain
  BY <1>1, SubSeqFull
<1>11. Larger(low, index) = index
  BY <1>1, <1>3, <1>4, LargerOf
<1>12. RescanStart(stored, h) <= T[IndexAt(T, h)].version => low <= IndexAt(T, h)
  <2>1. index \in 1 .. Len(T) /\ IndexAt(T, h) \in 1 .. Len(T)
    BY <1>1, <1>4
  <2> QED
    BY <2>1, LoweredBelow DEF low
<1> HIDE DEF low
<1> QED
  BY <1>2, <1>9, <1>10, <1>11, <1>12

-----------------------------------------------------------------------------
(* The inductive invariant *)

\* Every block passes the version check of its height.
InForce(T, c) == \A k \in 1 .. Len(c) : Passes(T, c[k], IndexAt(T, k - 1))

\* The table of versions is that of the chain's blocks.
StoredRight(c, s) ==
  /\ c[1].version = 1
  /\ \A k \in 1 .. Len(c) : s[k - 1] = c[k].version /\ ScheduledVersion(s[k - 1])

\* The height of the first block in original.
Base == IF phase = "popping" THEN Height ELSE split

\* A switch first pops at least one block, which sets index anew, and only
\* then adds blocks; the blocks it has popped fit where they were.
SwitchRight ==
  /\ phase # "none" => split \in 1 .. Height
  /\ phase # "none" /\ aborted => phase = "popping" /\ split < Height
  /\ phase \in {"adding", "restoring"} => InForceAbove(split)
  /\ ~tainted => \A j \in 1 .. Len(original) :
                   Passes(heights, original[j], IndexAt(heights, Base + j - 1))

\* None of the properties is inductive: what a rescan or a start finds
\* depends on the versions stored, on the chain of the last commit, and on
\* index being that of a fork that is in force at some height.
IInv ==
  /\ TypeOK
  /\ Jump(heights, index)
  /\ VersionByHeight
  /\ StoredRight(chain, stored)
  /\ StoredRight(saved.chain, saved.stored)
  /\ ~tainted => InForce(heights, chain) /\ InForce(heights, saved.chain)
  /\ SwitchRight
  /\ WindowExact

LEMMA AddEffect ==
  ASSUME IInv, NEW b \in Blocks, Add(b)
  PROVE  /\ chain' \in Seq(Blocks) /\ Len(chain') = Height + 1 /\ Height + 1 <= MaxHeight
         /\ \A k \in 1 .. Height : chain'[k] = chain[k]
         /\ chain'[Height + 1] = b
         /\ stored' \in [0 .. MaxHeight - 1 -> Versions]
         /\ StoredRight(chain', stored')
         /\ versions' \in Seq(Versions) /\ Len(versions') \in 1 .. WindowSize
         /\ Jump(heights, index')
         /\ ~aborted => /\ index' = IndexAt(heights, Height + 1)
                        /\ Passes(heights, b, IndexAt(heights, Height))
         /\ tainted' \in BOOLEAN
         /\ ~tainted' => /\ ~tainted /\ ~aborted /\ InForce(heights, chain')
                         /\ exact => versions' = Window(heights, chain')
<1> DEFINE T == heights
           n == Height
<1>1. /\ T \in Tables /\ chain \in Seq(Blocks) /\ n \in Nat /\ n >= 1 /\ MaxHeight \in Nat
      /\ stored \in [0 .. MaxHeight - 1 -> Versions]
      /\ versions \in Seq(Versions) /\ Len(versions) \in 1 .. WindowSize
      /\ aborted \in BOOLEAN /\ tainted \in BOOLEAN
  BY LimitsAssumption DEF IInv, TypeOK, Height
<1>2. /\ n < MaxHeight
      /\ Passes(T, b, index)
      /\ chain' = Append(chain, b)
      /\ stored' = [stored EXCEPT ![n] = T[index].version]
      /\ versions' = Slide(versions, Effective(T, b.vote))
      /\ index' = Raised(T, versions', n + 1, index)
      /\ tainted' = (tainted \/ aborted)
  BY DEF Add, AddAs
<1>3. /\ chain' \in Seq(Blocks) /\ Len(chain') = n + 1
      /\ \A k \in 1 .. n : chain'[k] = chain[k]
      /\ chain'[n + 1] = b
  BY <1>1, <1>2, AppendProperties DEF Height
<1>4. index \in 1 .. Len(T) /\ Jump(T, index) /\ T[index].version \in Versions
  BY <1>1, TableFacts DEF IInv, Jump
<1>5. /\ stored' \in [0 .. MaxHeight - 1 -> Versions]
      /\ stored'[n] = T[index].version
      /\ \A k \in 1 .. n : stored'[k - 1] = stored[k - 1]
  <2>1. n \in 0 .. MaxHeight - 1 /\ \A k \in 1 .. n : k - 1 \in 0 .. MaxHeight - 1 /\ k - 1 # n
    BY <1>1, <1>2
  <2> HIDE DEF n
  <2> QED
    BY <1>1, <1>2, <1>4, <2>1
<1>6. /\ versions' \in Seq(Versions) /\ Len(versions') \in 1 .. WindowSize
  <2>1. Effective(T, b.vote) \in Versions
    BY <1>1, EffectiveType DEF Blocks
  <2> QED
    BY <1>1, <1>2, <2>1, SlideType
<1>7. n + 1 \in Nat /\ n <= n + 1 /\ n + 1 <= MaxHeight
  BY <1>1, <1>2
<1> DEFINE j == IndexAt(T, n + 1)
<1>8. Jump(T, j) /\ j \in Nat /\ index \in Nat
  <2>1. Jump(T, j)
    BY <1>1, <1>7, IndexAtJump
  <2>2. j \in 1 .. Len(T)
    BY <2>1 DEF Jump
  <2> HIDE DEF j
  <2> QED
    BY <1>4, <2>1, <2>2
<1>9. index' = Larger(index, j)
  <2> HIDE DEF n, T
  <2> QED
    BY <1>1, <1>2, <1>6, <1>7, RaisedByHeight
<1>10. Jump(T, index')
  <2>1. Larger(index, j) \in {index, j}
    BY <1>8, LargerOf
  <2> QED
    BY <1>4, <1>9, <1>8, <2>1
<1>11. ~aborted => /\ index' = IndexAt(T, n + 1)
                   /\ Passes(T, b, IndexAt(T, n))
  <2> SUFFICES ASSUME ~aborted
               PROVE  /\ index' = IndexAt(T, n + 1)
                      /\ Passes(T, b, IndexAt(T, n))
    OBVIOUS
  <2>1. index = IndexAt(T, n)
    BY DEF IInv, VersionByHeight
  <2>2. IndexAt(T, n) <= IndexAt(T, n + 1)
    BY <1>1, <1>7, IndexAtMonotone
  <2> QED
    BY <1>2, <1>9, <1>8, <2>1, <2>2, LargerOf
<1>12. StoredRight(chain', stored')
  <2>1. chain'[1].version = 1
    <3>1. 1 \in 1 .. n
      BY <1>1
    <3> QED
      BY <1>3, <3>1 DEF IInv, StoredRight
  <2>2. ASSUME NEW k \in 1 .. n + 1
        PROVE  /\ stored'[k - 1] = chain'[k].version
               /\ ScheduledVersion(stored'[k - 1])
    <3>1. CASE k = n + 1
      <4>1. k - 1 = n
        BY <1>1, <3>1
      <4>2. b.version = T[index].version
        BY <1>2 DEF Passes
      <4>3. ScheduledVersion(T[index].version)
        BY <1>1, <1>4 DEF ScheduledVersion
      <4> QED
        BY <1>3, <1>5, <3>1, <4>1, <4>2, <4>3
    <3>2. CASE k # n + 1
      <4>1. k \in 1 .. n
        BY <1>1, <3>2
      <4> QED
        BY <1>3, <1>5, <4>1 DEF IInv, StoredRight, Height
    <3> QED
      BY <3>1, <3>2
  <2> QED
    BY <1>3, <2>1, <2>2 DEF StoredRight
<1>13. ASSUME ~tainted'
       PROVE  /\ ~tainted /\ ~aborted /\ InForce(T, chain')
              /\ exact => versions' = Window(T, chain')
  <2>1. ~tainted /\ ~aborted
    BY <1>2, <1>13
  <2>2. InForce(T, chain')
    <3> SUFFICES ASSUME NEW k \in 1 .. n + 1
                 PROVE  Passes(T, chain'[k], IndexAt(T, k - 1))
      BY <1>3 DEF InForce
    <3>1. CASE k = n + 1
      <4>1. k - 1 = n
        BY <1>1, <3>1
      <4> QED
        BY <1>3, <1>11, <2>1, <3>1, <4>1
    <3>2. CASE k # n + 1
      <4>1. k \in 1 .. n
        BY <1>1, <3>2
      <4> QED
        BY <1>3, <2>1, <4>1 DEF IInv, InForce, Height
    <3> QED
      BY <3>1, <3>2
  <2>3. exact => versions' = Window(T, chain')
    <3> SUFFICES ASSUME exact
                 PROVE  versions' = Window(T, chain')
      OBVIOUS
    <3>1. versions = Window(T, chain)
      BY <2>1 DEF IInv, WindowExact
    <3>2. Window(T, Append(chain, b)) = Slide(Window(T, chain), Effective(T, b.vote))
      BY <1>1, WindowSlides DEF Height
    <3> QED
      BY <1>2, <3>1, <3>2
  <2> QED
    BY <2>1, <2>2, <2>3
<1>14. tainted' \in BOOLEAN
  BY <1>1, <1>2
<1> HIDE DEF n
<1> QED
  BY <1>3, <1>5, <1>6, <1>7, <1>10, <1>11, <1>12, <1>13, <1>14 DEF n

LEMMA PopEffect ==
  ASSUME IInv, Pop
  PROVE  /\ chain' \in Seq(Blocks) /\ Len(chain') = Height - 1
         /\ Height - 1 \in 1 .. MaxHeight /\ Height \in Nat
         /\ \A k \in 1 .. Height - 1 : chain'[k] = chain[k]
         /\ chain[Height] \in Blocks
         /\ stored' = stored /\ StoredRight(chain', stored')
         /\ versions' \in Seq(Versions) /\ Len(versions') \in 1 .. WindowSize
         /\ Jump(heights, index') /\ index' = IndexAt(heights, Height - 1)
         /\ aborted' = FALSE /\ exact' = FALSE /\ tainted' = tainted
         /\ ~tainted => /\ InForce(heights, chain')
                        /\ Passes(heights, chain[Height], IndexAt(heights, Height - 1))
<1> DEFINE T == heights
           n == Height
<1>1. /\ T \in Tables /\ chain \in Seq(Blocks) /\ n \in 1 .. MaxHeight /\ MaxHeight \in Nat
      /\ stored \in [0 .. MaxHeight - 1 -> Versions]
      /\ versions \in Seq(Versions) /\ Len(versions) \in 1 .. WindowSize
      /\ WindowSize \in Nat
  BY LimitsAssumption DEF IInv, TypeOK
<1>2. /\ n > 1
      /\ chain' = SubSeq(chain, 1, n - 1)
      /\ versions' = <<stored[n - 1]>> \o SubSeq(versions, 1, Len(versions) - 1)
      /\ index' = IndexAt(T, n - 1)
      /\ aborted' = FALSE /\ exact' = FALSE
      /\ stored' = stored /\ tainted' = tainted
  BY DEF Pop
<1>3. /\ n - 1 \in 1 .. n /\ n \in 1 .. n /\ n - 1 \in Nat
      /\ n - 1 \in 1 .. MaxHeight /\ n \in Nat /\ n - 1 \in 0 .. MaxHeight - 1
  BY <1>1, <1>2
<1>4. /\ chain' \in Seq(Blocks) /\ Len(chain') = n - 1
      /\ \A k \in 1 .. n - 1 : chain'[k] = chain[k]
  BY <1>1, <1>2, <1>3, PrefixType DEF Height
<1>5. chain[n] \in Blocks
  BY <1>1, <1>3, ElementOfSeq DEF Height
<1>6. versions' \in Seq(Versions) /\ Len(versions') \in 1 .. WindowSize
  <2> DEFINE x == <<stored[n - 1]>>
             l == Len(versions)
             y == SubSeq(versions, 1, l - 1)
  <2>1. x \in Seq(Versions) /\ Len(x) = 1
    BY <1>1, <1>3
  <2>2. y \in Seq(Versions) /\ Len(y) = l - 1
    <3>1. l \in Nat /\ l >= 1 /\ 1 \in 1 .. Len(versions) + 1 /\ l - 1 \in 1 - 1 .. Len(versions)
      BY <1>1
    <3>2. /\ y \in Seq(Versions)
          /\ Len(y) = IF 1 <= l - 1 THEN l - 1 - 1 + 1 ELSE 0
      <4> HIDE DEF l
      <4> QED
        BY <1>1, <3>1, SubSeqProperties
    <3> HIDE DEF y, l
    <3> QED
      BY <3>1, <3>2
  <2>3. versions' = x \o y
    BY <1>2
  <2>4. /\ x \o y \in Seq(Versions) /\ Len(x \o y) = Len(x) + Len(y)
    <3> HIDE DEF x, y
    <3> QED
      BY <2>1, <2>2, ConcatProperties
  <2>5. l \in 1 .. WindowSize /\ 1 + (l - 1) = l
    BY <1>1
  <2> HIDE DEF x, y, l
  <2> QED
    BY <2>1, <2>2, <2>3, <2>4, <2>5
<1>7. Jump(T, index')
  BY <1>1, <1>2, <1>3, IndexAtJump
<1>8. StoredRight(chain', stored')
  <2>1. 1 \in 1 .. n - 1 /\ \A k \in 1 .. n - 1 : k \in 1 .. n
    BY <1>3
  <2> QED
    BY <1>2, <1>4, <2>1 DEF IInv, StoredRight, Height
<1>9. ~tainted => /\ InForce(T, chain')
                  /\ Passes(T, chain[n], IndexAt(T, n - 1))
  <2>1. \A k \in 1 .. n - 1 : k \in 1 .. n
    BY <1>3
  <2> QED
    BY <1>3, <1>4, <2>1 DEF IInv, InForce, Height
<1> HIDE DEF n
<1> QED
  BY <1>2, <1>3, <1>4, <1>5, <1>6, <1>7, <1>8, <1>9 DEF n

LEMMA VersionsMonotone ==
  ASSUME NEW T \in Tables, NEW m \in 1 .. Len(T), NEW n \in 1 .. Len(T), m <= n
  PROVE  T[m].version <= T[n].version
<1>1. m = n \/ m < n
  BY TableFacts
<1>2. T[m].version \in Nat /\ T[n].version \in Nat
  BY TableFacts
<1> QED
  BY <1>1, <1>2, TableFacts

LEMMA FirstScheduled ==
  ASSUME NEW T \in Tables
  PROVE  ScheduledVersion(1)
<1>1. 1 \in 1 .. Len(T) /\ T[1].version = 1 /\ T[1].height = 0 /\ T[1 + 1].height = 1
  BY TableFacts
<1> QED
  BY <1>1 DEF ScheduledVersion, Jump

LEMMA ReorganizeEffect ==
  ASSUME IInv, NEW h \in 1 .. Height, ~aborted, InForceAbove(h), Reorganize(h)
  PROVE  /\ UNCHANGED <<chain, stored, tainted>>
         /\ aborted' = FALSE /\ exact' = TRUE
         /\ index' = index
         /\ versions' \in Seq(Versions) /\ Len(versions') \in 1 .. WindowSize
         /\ ~tainted => versions' = Window(heights, chain)
<1> DEFINE v == RescanStart(stored, h)
<1>1. /\ heights \in Tables /\ chain \in Seq(Blocks) /\ index = IndexAt(heights, Height)
      /\ Height \in Nat /\ Height <= MaxHeight /\ MaxHeight \in Nat
      /\ stored \in [0 .. MaxHeight - 1 -> Versions]
  BY LimitsAssumption DEF IInv, TypeOK, VersionByHeight, Height
<1>2. h \in Nat /\ h - 1 \in Nat /\ h - 1 <= h /\ h - 1 \in 0 .. MaxHeight - 1
  BY <1>1
<1>3. v \in Versions /\ ScheduledVersion(v)
  <2>1. CASE h = 1
    BY <1>1, <2>1, FirstScheduled, LimitsAssumption DEF RescanStart
  <2>2. CASE h # 1
    BY <1>1, <1>2, <2>2 DEF RescanStart, IInv, StoredRight, Height
  <2> QED
    BY <2>1, <2>2
<1> HIDE DEF v
<1>4. /\ Reorganized(h).index = index
      /\ Reorganized(h).window \in Seq(Versions)
      /\ Len(Reorganized(h).window) \in 1 .. WindowSize
      /\ v <= heights[IndexAt(heights, h)].version =>
           Reorganized(h).window = Window(heights, chain)
  BY <1>1, <1>3, RescanRight DEF v
<1>5. ~tainted => v <= heights[IndexAt(heights, h)].version
  <2> SUFFICES ASSUME ~tainted
               PROVE  v <= heights[IndexAt(heights, h)].version
    OBVIOUS
  <2> DEFINE i == IndexAt(heights, h - 1)
             j == IndexAt(heights, h)
  <2>1. i \in 1 .. Len(heights) /\ j \in 1 .. Len(heights) /\ i <= j
    <3>1. i <= j
      BY <1>1, <1>2, IndexAtMonotone
    <3> QED
      BY <1>1, <1>2, <3>1, IndexAtLast
  <2>2. heights[i].version <= heights[j].version
    <3> HIDE DEF i, j
    <3> QED
      BY <1>1, <2>1, VersionsMonotone
  <2>3. chain[h].version = heights[i].version
    BY DEF IInv, InForce, Passes, Height
  <2>4. v = chain[h].version
    BY DEF v, RescanStart, IInv, StoredRight, Height
  <2> QED
    BY <2>2, <2>3, <2>4
<1> QED
  BY <1>4, <1>5 DEF Reorganize, db

\* Two releases that have the same version in force at a height have the same
\* one at every height below.
LEMMA SameForksPrefix ==
  ASSUME NEW S \in Tables, NEW T \in Tables, Len(S) <= Len(T), NEW h \in Nat,
         S[IndexAt(S, h)].version = T[IndexAt(T, h)].version,
         NEW k \in Nat, k <= h
  PROVE  S[IndexAt(S, k)].version = T[IndexAt(T, k)].version
<1> DEFINE i == IndexAt(T, h)
           j == IndexAt(S, h)
           x == IndexAt(T, k)
           y == IndexAt(S, k)
<1>1. Len(S) \in Nat /\ Len(T) \in Nat /\ \A n \in 1 .. Len(S) : T[n] = S[n]
  BY TableFacts, ReleasesAssumption
<1>2. /\ i \in 1 .. Len(T) /\ j \in 1 .. Len(S) /\ x \in 1 .. Len(T) /\ y \in 1 .. Len(S)
      /\ T[x].height <= k /\ S[y].height <= k
      /\ \A n \in 1 .. Len(T) : T[n].height <= k => n <= x
      /\ \A n \in 1 .. Len(S) : S[n].height <= k => n <= y
  BY IndexAtLast
<1>3. x <= i
  BY IndexAtMonotone
<1> HIDE DEF i, j, x, y
<1>4. i = j
  <2>1. T[j].version = T[i].version /\ j \in 1 .. Len(T)
    BY <1>1, <1>2 DEF i, j
  <2>2. /\ i < j => T[i].version < T[j].version
        /\ j < i => T[j].version < T[i].version
        /\ T[i].version \in Nat
    BY <1>2, <2>1, TableFacts
  <2> QED
    BY <1>1, <1>2, <2>1, <2>2
<1>5. x \in 1 .. Len(S)
  BY <1>1, <1>2, <1>3, <1>4
<1>6. y \in 1 .. Len(T)
  BY <1>1, <1>2
<1>7. x <= y /\ y <= x
  BY <1>1, <1>2, <1>5, <1>6
<1>8. x = y
  BY <1>1, <1>2, <1>7
<1> QED
  BY <1>1, <1>5, <1>8 DEF x, y

LEMMA SameForks ==
  ASSUME NEW S \in Tables, NEW T \in Tables, NEW h \in Nat,
         S[IndexAt(S, h)].version = T[IndexAt(T, h)].version,
         NEW k \in Nat, k <= h
  PROVE  S[IndexAt(S, k)].version = T[IndexAt(T, k)].version
<1>1. Len(S) <= Len(T) \/ Len(T) <= Len(S)
  BY TableFacts
<1> QED
  BY <1>1, SameForksPrefix

\* The last block that the initial pops keep has the version of its height.
LEMMA KeptFits ==
  ASSUME NEW T \in Tables, NEW c \in Seq(Blocks), Len(c) >= 1, c[1].version = 1
  PROVE  /\ Kept(T, c) \in 1 .. Len(c)
         /\ c[Kept(T, c)].version = T[IndexAt(T, Kept(T, c) - 1)].version
<1> DEFINE Fits(n) == \/ T[IndexAt(T, n - 1)].version <= 1
                      \/ c[n].version = T[IndexAt(T, n - 1)].version
           S == {n \in 1 .. Len(c) : Fits(n)}
           k == Max(S)
<1>1. Len(c) \in Nat
  OBVIOUS
<1>2. Fits(1)
  <2>1. IndexAt(T, 0) = 1 /\ T[1].version = 1
    BY IndexAtGenesis, TableFacts
  <2> QED
    BY <2>1
<1>3. S \in SUBSET (0 .. Len(c)) /\ 1 \in S
  <2> HIDE DEF Fits
  <2> QED
    BY <1>1, <1>2
<1>4. k \in S
  <2> HIDE DEF S
  <2> QED
    BY <1>1, <1>3, MaxOfBounded
<1>5. k \in 1 .. Len(c) /\ Fits(k)
  <2> HIDE DEF k, Fits
  <2> QED
    BY <1>4
<1>6. Kept(T, c) = k
  BY DEF Kept
<1> HIDE DEF k
<1>7. k - 1 \in Nat
  BY <1>1, <1>5
<1>8. c[k].version = T[IndexAt(T, k - 1)].version
  <2>1. CASE T[IndexAt(T, k - 1)].version <= 1
    <3>1. k - 1 = 0
      BY <1>7, <2>1, IndexAtGenesis
    <3>2. k = 1
      BY <1>1, <1>5, <3>1
    <3> QED
      BY <3>1, <3>2, IndexAtGenesis, TableFacts
  <2> QED
    BY <1>5, <2>1
<1> QED
  BY <1>5, <1>6, <1>8

\* A start, with the table T, on a chain whose last block has the version of
\* its height.
LEMMA InitialRight ==
  ASSUME NEW T \in Tables, NEW c \in Seq(Blocks), NEW s, Len(c) >= 1
  PROVE  LET m == Initial(T, c, s) IN
         /\ m.index \in 1 .. Len(T)
         /\ m.window = Window(T, c)
         /\ s[Len(c) - 1] = T[IndexAt(T, Len(c) - 1)].version =>
              m.index = IndexAt(T, Len(c))
<1> DEFINE last == {n \in 1 .. Len(T) : T[n].version = s[Len(c) - 1]}
           start == IF last = {} THEN Len(T) ELSE Max(last)
           w == Window(T, c)
           i == IndexAt(T, Len(c) - 1)
           j == IndexAt(T, Len(c))
<1>1. /\ Len(T) \in Nat /\ Len(T) >= 1
      /\ Len(c) \in Nat /\ Len(c) - 1 \in Nat /\ Len(c) - 1 <= Len(c)
  BY TableFacts
<1>2. w \in Seq(Versions)
  BY WindowType
<1>3. start \in 1 .. Len(T)
  <2>1. CASE last = {}
    BY <1>1, <2>1
  <2>2. CASE last # {}
    <3>1. last \in SUBSET (0 .. Len(T))
      BY <1>1
    <3>2. Max(last) \in last
      <4> HIDE DEF last
      <4> QED
        BY <1>1, <2>2, <3>1, MaxOfBounded
    <3> QED
      BY <2>2, <3>2
  <2> QED
    BY <2>1, <2>2
<1>4. i \in 1 .. Len(T) /\ j \in 1 .. Len(T) /\ i <= j
  <2>1. i <= j
    BY <1>1, IndexAtMonotone
  <2> QED
    BY <1>1, <2>1, IndexAtLast
<1>5. Initial(T, c, s) = [window |-> w, index |-> Raised(T, w, Len(c), start)]
  BY DEF Initial
<1>6. Raised(T, w, Len(c), start) = Larger(start, j)
  <2> HIDE DEF w, start
  <2> QED
    BY <1>1, <1>2, RaisedByHeight
<1>7. s[Len(c) - 1] = T[i].version => start = i
  <2> SUFFICES ASSUME s[Len(c) - 1] = T[i].version
               PROVE  start = i
    OBVIOUS
  <2>1. \A n \in 1 .. Len(T) : T[n].version = T[i].version => n = i
    <3> SUFFICES ASSUME NEW n \in 1 .. Len(T), T[n].version = T[i].version
                 PROVE  n = i
      OBVIOUS
    <3>1. /\ n < i => T[n].version < T[i].version
          /\ i < n => T[i].version < T[n].version
          /\ T[i].version \in Nat
      BY <1>4, TableFacts
    <3> HIDE DEF i
    <3> QED
      BY <1>1, <1>4, <3>1
  <2>2. last = {i}
    <3> HIDE DEF i
    <3> QED
      BY <1>4, <2>1
  <2>3. Max({i}) = i
    <3>1. {i} \in SUBSET (0 .. Len(T)) /\ {i} # {}
      BY <1>1, <1>4
    <3>2. Max({i}) \in {i}
      <4> HIDE DEF i
      <4> QED
        BY <1>1, <3>1, MaxOfBounded
    <3> QED
      BY <3>2
  <2> HIDE DEF last, i
  <2> QED
    BY <2>2, <2>3
<1> HIDE DEF start, w, i, j
<1>8. Larger(start, j) \in {start, j} /\ (start <= j => Larger(start, j) = j)
  BY <1>1, <1>3, <1>4, LargerOf
<1>9. Raised(T, w, Len(c), start) \in 1 .. Len(T)
  BY <1>3, <1>4, <1>6, <1>8
<1>10. s[Len(c) - 1] = T[i].version => Raised(T, w, Len(c), start) = j
  BY <1>4, <1>6, <1>7, <1>8
<1> QED
  BY <1>5, <1>9, <1>10 DEF w, i, j

LEMMA RestartEffect ==
  ASSUME IInv, NEW T \in Tables, Restart(T)
  PROVE  /\ heights' = T
         /\ chain' \in Seq(Blocks) /\ Len(chain') \in 1 .. MaxHeight
         /\ stored' \in [0 .. MaxHeight - 1 -> Versions]
         /\ StoredRight(chain', stored')
         /\ saved' = [chain |-> chain', stored |-> stored']
         /\ versions' = Window(T, chain')
         /\ index' = IndexAt(T, Len(chain'))
         /\ split' = 0 /\ phase' = "none" /\ original' = <<>>
         /\ aborted' = FALSE /\ exact' = TRUE /\ tainted' = tainted
         /\ ~tainted => InForce(T, chain')
<1> DEFINE c == saved.chain
           s == saved.stored
           n == Kept(T, c)
           init == Initial(T, c, s)
           m == IF n = Len(c) THEN init ELSE RescannedTo(T, c, s, n, init.index)
           d == SubSeq(c, 1, n)
           i == IndexAt(T, n - 1)
           j == IndexAt(T, n)
<1>1. /\ c \in Seq(Blocks) /\ Len(c) \in 1 .. MaxHeight /\ MaxHeight \in Nat
      /\ s \in [0 .. MaxHeight - 1 -> Versions]
      /\ heights \in Tables
      /\ saved = [chain |-> c, stored |-> s]
  <2>1. saved \in [chain : Seq(Blocks), stored : [0 .. MaxHeight - 1 -> Versions]]
    BY DEF IInv, TypeOK
  <2> QED
    BY <2>1, LimitsAssumption DEF IInv, TypeOK
<1>2. StoredRight(c, s)
  BY DEF IInv
<1>3. /\ heights' = T
      /\ chain' = d /\ stored' = s
      /\ saved' = [saved EXCEPT !.chain = d]
      /\ versions' = m.window /\ index' = m.index
      /\ split' = 0 /\ phase' = "none" /\ original' = <<>>
      /\ aborted' = FALSE /\ exact' = TRUE /\ tainted' = tainted
  BY DEF Restart
<1> HIDE DEF c, s
<1>4. Len(c) >= 1 /\ Len(c) \in Nat /\ c[1].version = 1
  BY <1>1, <1>2 DEF StoredRight
<1>5. n \in 1 .. Len(c) /\ c[n].version = T[i].version
  BY <1>1, <1>4, KeptFits
<1> HIDE DEF n
<1>6. n \in Nat /\ n - 1 \in Nat /\ n - 1 <= n /\ n \in 1 .. MaxHeight
  BY <1>1, <1>4, <1>5
<1>7. /\ d \in Seq(Blocks) /\ Len(d) = n /\ \A k \in 1 .. n : d[k] = c[k]
  BY <1>1, <1>5, PrefixType
<1>8. i \in 1 .. Len(T) /\ j \in 1 .. Len(T) /\ i <= j
  <2>1. i <= j
    BY <1>6, IndexAtMonotone
  <2> QED
    BY <1>6, <2>1, IndexAtLast
<1>9. /\ init.index \in 1 .. Len(T) /\ init.window = Window(T, c)
      /\ s[Len(c) - 1] = T[IndexAt(T, Len(c) - 1)].version =>
           init.index = IndexAt(T, Len(c))
  BY <1>1, <1>4, InitialRight
<1>10. s[n - 1] = c[n].version
  BY <1>2, <1>5 DEF StoredRight
<1> HIDE DEF d, i, j, init
<1>11. m.window = Window(T, d) /\ m.index = j
  <2>1. CASE n = Len(c)
    <3>1. d = c
      BY <1>1, <1>4, <2>1, SubSeqFull DEF d
    <3>2. init.index = j
      BY <1>5, <1>9, <1>10, <2>1 DEF i, j
    <3> QED
      BY <1>9, <2>1, <3>1, <3>2
  <2>2. CASE n # Len(c)
    <3> DEFINE v == RescanStart(s, n)
               low == Lowered(T, init.index, v)
    <3>1. v = T[i].version
      <4>1. CASE n = 1
        BY <1>4, <1>5, <4>1 DEF RescanStart
      <4>2. CASE n # 1
        BY <1>5, <1>10, <4>2 DEF RescanStart
      <4> QED
        BY <4>1, <4>2
    <3>2. /\ RescannedTo(T, c, s, n, init.index).window = Window(T, d)
          /\ RescannedTo(T, c, s, n, init.index).index = Larger(low, j)
      BY <1>1, <1>5, RescannedToIs DEF d, j
    <3> HIDE DEF v
    <3>3. v \in Versions
      BY <1>8, <3>1, TableFacts
    <3>4. v <= T[j].version
      BY <1>8, <3>1, VersionsMonotone
    <3>5. low <= j
      BY <1>8, <1>9, <3>3, <3>4, LoweredBelow
    <3>6. low \in Nat /\ j \in Nat
      <4>1. low \in 1 .. init.index
        BY <1>9, <3>3, LoweredLast
      <4> HIDE DEF low
      <4> QED
        BY <1>8, <4>1
    <3> HIDE DEF low
    <3>7. Larger(low, j) = j
      BY <3>5, <3>6, LargerOf
    <3> QED
      BY <2>2, <3>2, <3>7
  <2> QED
    BY <2>1, <2>2
<1> HIDE DEF m
<1>12. StoredRight(d, s)
  <2>1. 1 \in 1 .. n /\ \A k \in 1 .. n : k \in 1 .. Len(c)
    BY <1>4, <1>5, <1>6
  <2> QED
    BY <1>2, <1>7, <2>1 DEF StoredRight
<1>13. ~tainted => InForce(T, d)
  <2> SUFFICES ASSUME ~tainted, NEW k \in 1 .. n
               PROVE  Passes(T, d[k], IndexAt(T, k - 1))
    BY <1>7 DEF InForce
  <2>1. InForce(heights, c)
    BY DEF IInv, c
  <2>2. k \in 1 .. Len(c) /\ k - 1 \in Nat /\ k - 1 <= n - 1
    BY <1>4, <1>5, <1>6
  <2>3. Passes(heights, c[n], IndexAt(heights, n - 1))
    BY <1>5, <2>1 DEF InForce
  <2>4. heights[IndexAt(heights, n - 1)].version = T[IndexAt(T, n - 1)].version
    BY <1>5, <2>3 DEF Passes, i
  <2>5. heights[IndexAt(heights, k - 1)].version = T[IndexAt(T, k - 1)].version
    BY <1>1, <1>6, <2>2, <2>4, SameForks
  <2>6. Passes(heights, c[k], IndexAt(heights, k - 1))
    BY <2>1, <2>2 DEF InForce
  <2> QED
    BY <1>7, <2>5, <2>6 DEF Passes
<1>14. saved' = [chain |-> d, stored |-> s]
  BY <1>1, <1>3
<1> QED
  BY <1>1, <1>3, <1>6, <1>7, <1>11, <1>12, <1>13, <1>14 DEF j

-----------------------------------------------------------------------------
(* The initial states and the steps *)

LEMMA InitInvariant == Init => IInv
<1> SUFFICES ASSUME Init
             PROVE  IInv
  OBVIOUS
<1> DEFINE T == heights
<1>1. /\ T \in Tables /\ chain = <<Genesis>> /\ Genesis \in Blocks
      /\ 1 \in Versions /\ 1 \in 1 .. MaxHeight /\ 0 \in 0 .. MaxHeight - 1
      /\ 0 \in 0 .. MaxHeight
      /\ WindowSize \in Nat /\ WindowSize >= 1
  BY LimitsAssumption DEF Init, Genesis, Blocks
<1>2. chain \in Seq(Blocks) /\ Len(chain) = 1 /\ Height = 1 /\ chain[1] = Genesis
  BY <1>1 DEF Height
<1>3. /\ stored \in [0 .. MaxHeight - 1 -> Versions] /\ stored[0] = 1
      /\ saved = [chain |-> chain, stored |-> stored]
      /\ saved \in [chain : Seq(Blocks), stored : [0 .. MaxHeight - 1 -> Versions]]
      /\ saved.chain = chain /\ saved.stored = stored
  BY <1>1, <1>2 DEF Init
<1>4. versions \in Seq(Versions) /\ Len(versions) = 1 /\ versions = <<1>>
  BY <1>1 DEF Init
<1>5. index = IndexAt(T, 1) /\ Jump(T, index)
  <2>1. Raised(T, versions, 1, 1) = Larger(1, IndexAt(T, 1))
    BY <1>1, <1>4, RaisedByHeight
  <2>2. IndexAt(T, 1) \in 1 .. Len(T) /\ Len(T) \in Nat
    BY <1>1, IndexAtLast, TableFacts
  <2>3. Larger(1, IndexAt(T, 1)) = IndexAt(T, 1)
    BY <2>2, LargerOf
  <2>4. Jump(T, IndexAt(T, 1))
    BY <1>1, IndexAtJump
  <2> QED
    BY <2>1, <2>3, <2>4 DEF Init
<1>6. StoredRight(chain, stored)
  <2>1. \A k \in 1 .. 1 : k = 1 /\ k - 1 = 0
    OBVIOUS
  <2>2. ScheduledVersion(1)
    BY <1>1, FirstScheduled
  <2> QED
    BY <1>2, <1>3, <2>1, <2>2 DEF StoredRight, Genesis
<1>7. InForce(T, chain)
  <2>1. \A k \in 1 .. 1 : k = 1 /\ k - 1 = 0
    OBVIOUS
  <2>2. IndexAt(T, 0) = 1 /\ T[1].version = 1
    BY <1>1, IndexAtGenesis, TableFacts
  <2> QED
    BY <1>2, <2>1, <2>2 DEF InForce, Passes, Genesis
<1>8. Window(T, chain) = versions
  <2>1. /\ Window(T, chain) \in Seq(Versions) /\ Len(Window(T, chain)) = 1
    <3>1. Len(chain) >= 1 /\ ~(Len(chain) > WindowSize)
      BY <1>1, <1>2
    <3> DEFINE w == Window(T, chain)
    <3>2. w \in Seq(Versions) /\ Len(w) = IF Len(chain) > WindowSize THEN WindowSize ELSE Len(chain)
      BY <1>1, <1>2, <3>1, WindowType
    <3> HIDE DEF w
    <3>3. w \in Seq(Versions) /\ Len(w) = 1
      BY <1>2, <3>1, <3>2
    <3> QED
      BY <3>3 DEF w
  <2>2. Effective(T, 1) = 1
    <3>1. 1 \in 1 .. Len(T) /\ Len(T) \in 1 .. Len(T) /\ 1 <= Len(T)
      BY <1>1, TableFacts
    <3>2. T[1].version <= T[Len(T)].version
      BY <1>1, <3>1, VersionsMonotone
    <3>3. T[1].version = 1 /\ T[Len(T)].version \in Nat
      BY <1>1, <3>1, TableFacts
    <3> QED
      BY <3>2, <3>3 DEF Effective
  <2>3. Window(T, chain)[1] = Effective(T, chain[1].vote)
    <3>1. ~(Len(chain) > WindowSize) /\ 1 \in 1 .. Len(chain) - 0 /\ 0 + 1 = 1
      BY <1>1, <1>2
    <3> HIDE DEF T
    <3> QED
      BY <3>1 DEF Window
  <2>4. Window(T, chain)[1] = versions[1]
    BY <1>2, <1>4, <2>2, <2>3 DEF Genesis
  <2>5. \A k \in 1 .. 1 : k = 1
    OBVIOUS
  <2> QED
    BY <1>4, <2>1, <2>4, <2>5, SeqEqual
<1>9. SwitchRight
  BY DEF Init, SwitchRight
<1>10. TypeOK
  <2>1. index \in 1 .. Len(T)
    BY <1>5 DEF Jump
  <2>2. Len(versions) \in 1 .. WindowSize
    BY <1>1, <1>4
  <2>3. /\ original \in Seq(Blocks) /\ split = 0 /\ phase = "none"
        /\ aborted \in BOOLEAN /\ tainted \in BOOLEAN /\ exact \in BOOLEAN
    BY EmptySeq DEF Init
  <2> QED
    BY <1>1, <1>2, <1>3, <1>4, <2>1, <2>2, <2>3 DEF TypeOK
<1> QED
  BY <1>2, <1>3, <1>5, <1>6, <1>7, <1>8, <1>9, <1>10
  DEF IInv, VersionByHeight, WindowExact

\* The steps that add a block.
LEMMA AddKeeps ==
  ASSUME IInv, NEW b \in Blocks, Add(b),
         UNCHANGED <<heights, saved, split, original, aborted, exact>>,
         phase' \in {"none", "adding", "restoring"},
         SwitchRight'
  PROVE  IInv'
<1> DEFINE n == Height
<1>1. /\ chain' \in Seq(Blocks) /\ Len(chain') = n + 1 /\ n + 1 <= MaxHeight
      /\ stored' \in [0 .. MaxHeight - 1 -> Versions]
      /\ StoredRight(chain', stored')
      /\ versions' \in Seq(Versions) /\ Len(versions') \in 1 .. WindowSize
      /\ Jump(heights, index')
      /\ ~aborted => index' = IndexAt(heights, n + 1)
      /\ tainted' \in BOOLEAN
      /\ ~tainted' => /\ ~tainted /\ InForce(heights, chain')
                      /\ exact => versions' = Window(heights, chain')
  BY AddEffect
<1>2. n + 1 \in 1 .. MaxHeight
  BY <1>1, LimitsAssumption DEF IInv, TypeOK
<1> HIDE DEF n
<1>3. TypeOK'
  BY <1>1, <1>2 DEF IInv, TypeOK, Height, Jump
<1>4. VersionByHeight'
  BY <1>1 DEF VersionByHeight, Height
<1>5. StoredRight(saved.chain, saved.stored)'
  BY DEF IInv, StoredRight, ScheduledVersion
<1>6. (~tainted => InForce(heights, chain) /\ InForce(heights, saved.chain))'
  BY <1>1 DEF IInv, InForce
<1>7. WindowExact'
  BY <1>1 DEF WindowExact
<1>8. StoredRight(chain, stored)' /\ Jump(heights, index)'
  BY <1>1
<1> QED
  BY <1>3, <1>4, <1>5, <1>6, <1>7, <1>8 DEF IInv

LEMMA PopKeeps ==
  ASSUME IInv, Pop, UNCHANGED <<heights, saved, split, phase>>,
         original' \in Seq(Blocks), SwitchRight'
  PROVE  IInv'
<1> DEFINE n == Height
<1>1. /\ chain' \in Seq(Blocks) /\ Len(chain') = n - 1 /\ n - 1 \in 1 .. MaxHeight
      /\ stored' = stored /\ StoredRight(chain', stored')
      /\ versions' \in Seq(Versions) /\ Len(versions') \in 1 .. WindowSize
      /\ Jump(heights, index') /\ index' = IndexAt(heights, n - 1)
      /\ aborted' = FALSE /\ exact' = FALSE /\ tainted' = tainted
      /\ ~tainted => InForce(heights, chain')
  BY PopEffect
<1> HIDE DEF n
<1>3. TypeOK'
  BY <1>1 DEF IInv, TypeOK, Height, Jump
<1>4. VersionByHeight'
  BY <1>1 DEF VersionByHeight, Height
<1>5. StoredRight(saved.chain, saved.stored)'
  BY DEF IInv, StoredRight, ScheduledVersion
<1>6. (~tainted => InForce(heights, chain) /\ InForce(heights, saved.chain))'
  BY <1>1 DEF IInv, InForce
<1>7. WindowExact'
  BY <1>1 DEF WindowExact
<1>8. StoredRight(chain, stored)' /\ Jump(heights, index)'
  BY <1>1
<1> QED
  BY <1>3, <1>4, <1>5, <1>6, <1>7, <1>8 DEF IInv

LEMMA ReorganizeKeeps ==
  ASSUME IInv, NEW h \in 1 .. Height, ~aborted, InForceAbove(h), Reorganize(h),
         UNCHANGED <<heights, saved>>,
         split' \in 0 .. MaxHeight, phase' \in {"none", "restoring"},
         original' \in Seq(Blocks), SwitchRight'
  PROVE  IInv'
<1>1. /\ chain' = chain /\ stored' = stored /\ tainted' = tainted
      /\ aborted' = FALSE /\ exact' = TRUE /\ index' = index
      /\ versions' \in Seq(Versions) /\ Len(versions') \in 1 .. WindowSize
      /\ ~tainted => versions' = Window(heights, chain)
  BY ReorganizeEffect
<1>3. TypeOK'
  BY <1>1 DEF IInv, TypeOK, Height
<1>4. VersionByHeight'
  BY <1>1 DEF IInv, VersionByHeight, Height
<1>5. StoredRight(saved.chain, saved.stored)' /\ StoredRight(chain, stored)'
  BY <1>1 DEF IInv, StoredRight, ScheduledVersion
<1>6. (~tainted => InForce(heights, chain) /\ InForce(heights, saved.chain))'
  BY <1>1 DEF IInv, InForce
<1>7. WindowExact'
  BY <1>1 DEF WindowExact
<1>8. Jump(heights, index)'
  BY <1>1 DEF IInv
<1> QED
  BY <1>3, <1>4, <1>5, <1>6, <1>7, <1>8 DEF IInv

\* What the invariant says of a switch while it pops or is about to add.
LEMMA SwitchFacts ==
  ASSUME IInv
  PROVE  /\ Height \in Nat /\ Height >= 1 /\ Height <= MaxHeight /\ MaxHeight \in Nat
         /\ split \in Nat
         /\ original \in Seq(Blocks) /\ Len(original) \in Nat
         /\ phase # "none" => split \in 1 .. Height
         /\ phase # "none" /\ (phase # "popping" \/ Height = split) => ~aborted
         /\ phase \in {"adding", "restoring"} => InForceAbove(split)
         /\ ~tainted => \A j \in 1 .. Len(original) :
                          Passes(heights, original[j], IndexAt(heights, Base + j - 1))
<1>1. /\ Height \in 1 .. MaxHeight /\ MaxHeight \in Nat /\ split \in 0 .. MaxHeight
      /\ original \in Seq(Blocks)
  BY LimitsAssumption DEF IInv, TypeOK
<1>2. SwitchRight
  BY DEF IInv
<1>3. Height \in Nat /\ Height >= 1 /\ Height <= MaxHeight /\ split \in Nat
  BY <1>1
<1> QED
  BY <1>1, <1>2, <1>3 DEF SwitchRight

\* Adding a block on top of a switch keeps what is above the split in force.
LEMMA AddAbove ==
  ASSUME IInv, NEW b \in Blocks, Add(b), ~aborted, split \in 1 .. Height,
         InForceAbove(split), UNCHANGED <<heights, split>>
  PROVE  split' \in 1 .. Height' /\ InForceAbove(split)'
<1>1. /\ Height \in Nat /\ split \in Nat /\ split <= Height
  BY SwitchFacts
<1>2. /\ Len(chain') = Height + 1
      /\ \A k \in 1 .. Height : chain'[k] = chain[k]
      /\ chain'[Height + 1] = b
      /\ Passes(heights, b, IndexAt(heights, Height))
  BY AddEffect
<1>3. ASSUME NEW k \in split + 1 .. Height + 1
      PROVE  Passes(heights, chain'[k], IndexAt(heights, k - 1))
  <2>1. CASE k = Height + 1
    <3>1. k - 1 = Height
      BY <1>1, <2>1
    <3> QED
      BY <1>2, <2>1, <3>1
  <2>2. CASE k # Height + 1
    <3>1. k \in split + 1 .. Height /\ k \in 1 .. Height
      BY <1>1, <2>2
    <3> QED
      BY <1>2, <3>1 DEF InForceAbove
  <2> QED
    BY <2>1, <2>2
<1>4. Height' = Height + 1
  BY <1>2 DEF Height
<1>5. split' \in 1 .. Height'
  BY <1>1, <1>4
<1> QED
  BY <1>3, <1>4, <1>5 DEF InForceAbove

LEMMA StepInvariant == IInv /\ [Next]_vars => IInv'
<1> SUFFICES ASSUME IInv, [Next]_vars
             PROVE  IInv'
  OBVIOUS
<1>1. /\ Height \in Nat /\ Height >= 1 /\ Height <= MaxHeight /\ MaxHeight \in Nat
      /\ split \in Nat
      /\ original \in Seq(Blocks) /\ Len(original) \in Nat
      /\ phase # "none" => split \in 1 .. Height
      /\ phase # "none" /\ (phase # "popping" \/ Height = split) => ~aborted
      /\ phase \in {"adding", "restoring"} => InForceAbove(split)
      /\ ~tainted => \A j \in 1 .. Len(original) :
                       Passes(heights, original[j], IndexAt(heights, Base + j - 1))
  BY SwitchFacts
<1>2. /\ heights \in Tables /\ chain \in Seq(Blocks) /\ Height \in 1 .. MaxHeight
      /\ stored \in [0 .. MaxHeight - 1 -> Versions]
      /\ saved \in [chain : Seq(Blocks), stored : [0 .. MaxHeight - 1 -> Versions]]
      /\ Len(saved.chain) \in 1 .. MaxHeight
      /\ versions \in Seq(Versions) /\ Len(versions) \in 1 .. WindowSize
      /\ index \in 1 .. Len(heights)
      /\ split \in 0 .. MaxHeight
      /\ phase \in {"none", "popping", "adding", "undoing", "restoring"}
      /\ aborted \in BOOLEAN /\ tainted \in BOOLEAN /\ exact \in BOOLEAN
  BY DEF IInv, TypeOK
<1>3. ASSUME NEW b \in Blocks, AddBlock(b)
      PROVE  IInv'
  <2>1. /\ phase = "none" /\ Add(b)
        /\ UNCHANGED <<heights, saved, split, phase, original, aborted, exact>>
    BY <1>3 DEF AddBlock, Idle, switch
  <2>2. ~tainted' => ~tainted
    BY <2>1, AddEffect
  <2>3. SwitchRight'
    BY <1>1, <2>1, <2>2 DEF SwitchRight, Base
  <2> QED
    BY <2>1, <2>3, AddKeeps
<1>4. ASSUME NEW b \in Blocks, AddForSwitch(b)
      PROVE  IInv'
  <2>1. /\ phase = "adding" \/ (phase = "popping" /\ Height = split)
        /\ Add(b) /\ phase' = "adding"
        /\ UNCHANGED <<heights, saved, split, original, aborted, exact>>
    BY <1>4 DEF AddForSwitch
  <2>2. ~aborted /\ split \in 1 .. Height /\ Base = split
    BY <1>1, <2>1 DEF Base
  <2>3. InForceAbove(split)
    <3>1. Height = split => ~ \E k \in split + 1 .. Height : TRUE
      BY <1>1
    <3> QED
      BY <1>1, <2>1, <3>1 DEF InForceAbove
  <2>4. split' \in 1 .. Height' /\ InForceAbove(split)'
    BY <2>1, <2>2, <2>3, AddAbove
  <2>5. ~tainted' => ~tainted
    BY <2>1, AddEffect
  <2>6. SwitchRight'
    BY <1>1, <2>1, <2>2, <2>4, <2>5 DEF SwitchRight, Base
  <2> QED
    BY <2>1, <2>6, AddKeeps
<1>5. CASE RestoreBlock
  <2> DEFINE b == original[Height - split + 1]
  <2>1. /\ phase = "restoring" /\ Lost > 0 /\ Add(b)
        /\ UNCHANGED <<heights, saved, split, phase, original, aborted, exact>>
    BY <1>5 DEF RestoreBlock, switch
  <2>2. ~aborted /\ split \in 1 .. Height /\ InForceAbove(split) /\ Base = split
    BY <1>1, <2>1 DEF Base
  <2>3. b \in Blocks
    <3>1. Height - split + 1 \in 1 .. Len(original)
      BY <1>1, <2>1, <2>2 DEF Lost
    <3> QED
      BY <1>1, <3>1, ElementOfSeq
  <2> HIDE DEF b
  <2>4. split' \in 1 .. Height' /\ InForceAbove(split)'
    BY <2>1, <2>2, <2>3, AddAbove
  <2>5. ~tainted' => ~tainted
    BY <2>1, <2>3, AddEffect
  <2>6. SwitchRight'
    BY <1>1, <2>1, <2>2, <2>4, <2>5 DEF SwitchRight, Base
  <2> QED
    BY <2>1, <2>3, <2>6, AddKeeps
<1>6. CASE PopBlock
  <2>1. /\ phase = "none" /\ Pop
        /\ UNCHANGED <<heights, saved, split, phase, original>>
    BY <1>6 DEF PopBlock, Idle, switch
  <2>2. tainted' = tainted
    BY <2>1, PopEffect
  <2>3. SwitchRight'
    BY <1>1, <2>1, <2>2 DEF SwitchRight, Base
  <2> QED
    BY <1>1, <2>1, <2>3, PopKeeps
<1>7. CASE PopForSwitch
  <2>1. /\ phase \in {"popping", "undoing"} /\ Height > split /\ Pop
        /\ original' = IF phase = "popping" THEN <<chain[Height]>> \o original
                       ELSE original
        /\ UNCHANGED <<heights, saved, split, phase>>
    BY <1>7 DEF PopForSwitch
  <2>2. /\ Len(chain') = Height - 1 /\ chain[Height] \in Blocks
        /\ aborted' = FALSE /\ tainted' = tainted
        /\ ~tainted => Passes(heights, chain[Height], IndexAt(heights, Height - 1))
    BY <2>1, PopEffect
  <2>3. Height' = Height - 1 /\ split' \in 1 .. Height'
    <3>1. Height' = Height - 1
      BY <2>2 DEF Height
    <3> QED
      BY <1>1, <2>1, <3>1
  <2>4. /\ original' \in Seq(Blocks)
        /\ ~tainted => \A j \in 1 .. Len(original') :
                         Passes(heights, original'[j], IndexAt(heights, Base' + j - 1))
    <3>1. CASE phase = "popping"
      <4> DEFINE x == <<chain[Height]>>
                 y == x \o original
      <4>1. /\ x \in Seq(Blocks) /\ Len(x) = 1 /\ x[1] = chain[Height]
        BY <2>2
      <4>2. /\ y \in Seq(Blocks) /\ Len(y) = 1 + Len(original)
            /\ \A j \in 1 .. 1 + Len(original) :
                 y[j] = IF j <= 1 THEN x[j] ELSE original[j - 1]
        <5>1. /\ y \in Seq(Blocks) /\ Len(y) = Len(x) + Len(original)
              /\ \A j \in 1 .. Len(x) + Len(original) :
                   y[j] = IF j <= Len(x) THEN x[j] ELSE original[j - Len(x)]
          <6> HIDE DEF x
          <6> QED
            BY <1>1, <4>1, ConcatProperties
        <5> HIDE DEF x, y
        <5> QED
          BY <4>1, <5>1
      <4>3. original' = y /\ Base' = Height - 1 /\ Base = Height
        BY <2>1, <2>3, <3>1 DEF Base
      <4> HIDE DEF y
      <4>4. ASSUME ~tainted, NEW j \in 1 .. Len(y)
            PROVE  Passes(heights, y[j], IndexAt(heights, Base' + j - 1))
        <5>1. CASE j = 1
          <6>1. y[j] = chain[Height] /\ Base' + j - 1 = Height - 1
            BY <1>1, <4>1, <4>2, <4>3, <5>1
          <6> QED
            BY <2>2, <4>4, <6>1
        <5>2. CASE j # 1
          <6>1. /\ y[j] = original[j - 1] /\ j - 1 \in 1 .. Len(original)
                /\ Base' + j - 1 = Base + (j - 1) - 1
            BY <1>1, <4>2, <4>3, <5>2
          <6> QED
            BY <1>1, <4>4, <6>1
        <5> QED
          BY <5>1, <5>2
      <4> QED
        BY <4>2, <4>3, <4>4
    <3>2. CASE phase # "popping"
      <4>1. original' = original /\ Base' = Base
        BY <2>1, <3>2 DEF Base
      <4> QED
        BY <1>1, <4>1
    <3> QED
      BY <3>1, <3>2
  <2>5. SwitchRight'
    <3>1. phase' \notin {"adding", "restoring"}
      BY <2>1
    <3> QED
      BY <2>1, <2>2, <2>3, <2>4, <3>1 DEF SwitchRight
  <2> QED
    BY <2>1, <2>4, <2>5, PopKeeps
<1>8. ASSUME NEW h \in 1 .. MaxHeight, BeginSwitch(h)
      PROVE  IInv'
  <2>1. /\ h \in 1 .. Height - 1
        /\ split' = h /\ phase' = "popping" /\ original' = <<>>
        /\ UNCHANGED <<heights, chain, stored, saved, versions, index, aborted, tainted, exact>>
    BY <1>8 DEF BeginSwitch, db
  <2>2. split' \in 1 .. Height' /\ split' < Height'
    BY <1>1, <2>1 DEF Height
  <2>3. SwitchRight'
    BY <2>1, <2>2 DEF SwitchRight
  <2>4. TypeOK'
    BY <1>2, <2>1, EmptySeq DEF TypeOK, Height
  <2> QED
    BY <2>1, <2>3, <2>4
    DEF IInv, VersionByHeight, WindowExact, StoredRight, ScheduledVersion, InForce, Height
<1>9. CASE FailSwitch
  <2>1. /\ phase = "adding" \/ (phase = "popping" /\ Height = split)
        /\ phase' = "undoing"
        /\ UNCHANGED <<heights, chain, stored, saved, versions, index, split, original,
                       aborted, tainted, exact>>
    BY <1>9 DEF FailSwitch, db
  <2>2. ~aborted /\ split \in 1 .. Height /\ Base' = Base
    BY <1>1, <2>1 DEF Base
  <2>3. SwitchRight'
    BY <1>1, <2>1, <2>2 DEF SwitchRight, Height
  <2>4. TypeOK'
    BY <1>1, <1>2, <2>1 DEF TypeOK, Height
  <2> QED
    BY <2>1, <2>3, <2>4
    DEF IInv, VersionByHeight, WindowExact, StoredRight, ScheduledVersion, InForce, Height
<1>10. CASE ReorganizeForRollback
  <2>1. /\ phase = "undoing" /\ Height = split /\ Reorganize(split)
        /\ phase' = "restoring"
        /\ UNCHANGED <<heights, saved, split, original>>
    BY <1>10 DEF ReorganizeForRollback
  <2>2. ~aborted /\ split \in 1 .. Height /\ ~ \E k \in split + 1 .. Height : TRUE
    BY <1>1, <2>1
  <2>3. InForceAbove(split)
    BY <2>2 DEF InForceAbove
  <2>4. chain' = chain /\ tainted' = tainted /\ aborted' = FALSE
    BY <2>1, <2>2, <2>3, ReorganizeEffect
  <2>5. Base' = Base
    BY <2>1 DEF Base
  <2>6. SwitchRight'
    BY <1>1, <2>1, <2>2, <2>4, <2>5 DEF SwitchRight, InForceAbove, Height
  <2> QED
    BY <1>1, <1>2, <2>1, <2>2, <2>3, <2>6, ReorganizeKeeps
<1>11. CASE EndSwitch
  <2>1. /\ phase = "adding" \/ phase = "restoring"
        /\ Reorganize(split)
        /\ phase' = "none" /\ split' = 0 /\ original' = <<>>
        /\ UNCHANGED <<heights, saved>>
    BY <1>11 DEF EndSwitch
  <2>2. ~aborted /\ split \in 1 .. Height /\ InForceAbove(split)
    BY <1>1, <2>1
  <2>3. SwitchRight'
    BY <2>1 DEF SwitchRight
  <2>4. original' \in Seq(Blocks) /\ split' \in 0 .. MaxHeight
    BY <1>1, <2>1, EmptySeq
  <2> QED
    BY <2>1, <2>2, <2>3, <2>4, ReorganizeKeeps
<1>12. CASE Commit
  <2>1. /\ phase = "none"
        /\ saved' = [chain |-> chain, stored |-> stored]
        /\ UNCHANGED <<heights, chain, stored, versions, index, split, phase, original,
                       aborted, tainted, exact>>
    BY <1>12 DEF Commit, Idle, db, switch
  <2>2. TypeOK'
    BY <1>1, <1>2, <2>1 DEF TypeOK, Height
  <2>3. SwitchRight'
    BY <1>1, <2>1 DEF SwitchRight, Base
  <2> QED
    BY <2>1, <2>2, <2>3
    DEF IInv, VersionByHeight, WindowExact, StoredRight, ScheduledVersion, InForce, Height
<1>13. CASE AbortBatch
  <2>1. /\ phase = "none"
        /\ chain' = saved.chain /\ stored' = saved.stored
        /\ aborted' = TRUE /\ exact' = FALSE
        /\ UNCHANGED <<heights, saved, versions, index, split, phase, original, tainted>>
    BY <1>13 DEF AbortBatch, Idle, switch
  <2>2. TypeOK'
    BY <1>1, <1>2, <2>1 DEF TypeOK, Height
  <2>3. SwitchRight'
    BY <1>1, <2>1 DEF SwitchRight, Base
  <2> QED
    BY <2>1, <2>2, <2>3
    DEF IInv, VersionByHeight, WindowExact, StoredRight, ScheduledVersion, InForce
<1>14. ASSUME NEW T \in Tables, Restart(T)
       PROVE  IInv'
  <2>1. /\ heights' = T
        /\ chain' \in Seq(Blocks) /\ Len(chain') \in 1 .. MaxHeight
        /\ stored' \in [0 .. MaxHeight - 1 -> Versions]
        /\ StoredRight(chain', stored')
        /\ saved' = [chain |-> chain', stored |-> stored']
        /\ versions' = Window(T, chain')
        /\ index' = IndexAt(T, Len(chain'))
        /\ split' = 0 /\ phase' = "none" /\ original' = <<>>
        /\ aborted' = FALSE /\ exact' = TRUE /\ tainted' = tainted
        /\ ~tainted => InForce(T, chain')
    BY <1>14, RestartEffect
  <2>2. Len(chain') \in Nat /\ Len(chain') >= 1
    BY <2>1
  <2>3. Jump(T, index')
    BY <2>1, <2>2, IndexAtJump
  <2>4. versions' \in Seq(Versions) /\ Len(versions') \in 1 .. WindowSize
    BY <2>1, <2>2, WindowType
  <2>5. saved'.chain = chain' /\ saved'.stored = stored'
    BY <2>1
  <2>6. TypeOK'
    <3>1. index' \in 1 .. Len(heights')
      BY <2>1, <2>3 DEF Jump
    <3>2. original' \in Seq(Blocks) /\ split' \in 0 .. MaxHeight
      BY <1>1, <2>1, EmptySeq
    <3> QED
      BY <1>2, <2>1, <2>4, <2>5, <3>1, <3>2 DEF TypeOK, Height
  <2>7. SwitchRight'
    BY <2>1 DEF SwitchRight
  <2> QED
    BY <2>1, <2>3, <2>5, <2>6, <2>7
    DEF IInv, VersionByHeight, WindowExact, InForce, Height
<1>15. CASE UNCHANGED vars
  BY <1>15 DEF vars, IInv, TypeOK, VersionByHeight, WindowExact, StoredRight,
     ScheduledVersion, InForce, SwitchRight, InForceAbove, Base, Height
<1> QED
  BY <1>3, <1>4, <1>5, <1>6, <1>7, <1>8, <1>9, <1>10, <1>11, <1>12, <1>13, <1>14, <1>15
  DEF Next

-----------------------------------------------------------------------------
(* Theorems *)

LEMMA Invariance == Spec => []IInv
BY InitInvariant, StepInvariant, PTL DEF Spec

\* Whatever blocks come, go and come back, the object and its tables stay
\* within their types: the window is neither empty nor longer than WindowSize,
\* and the index is that of a fork of the table (hardfork.cpp).
THEOREM TypeCorrect == Spec => []TypeOK
<1>1. IInv => TypeOK
  BY DEF IInv
<1> QED
  BY <1>1, Invariance, PTL

\* The version in force is the one scheduled for the next block, whatever the
\* window holds, through pops, switches, failed switches, aborted batches and
\* the starts of other releases (HardFork::add, on_block_popped,
\* reorganize_from_block_height, init).
THEOREM VersionScheduled == Spec => []VersionByHeight
<1>1. IInv => VersionByHeight
  BY DEF IInv
<1> QED
  BY <1>1, Invariance, PTL

\* Every block of the main chain has the version scheduled for its height, also
\* after a start of a release with other forks (Blockchain::init).
THEOREM ChainInForce == Spec => []BlocksInForce
<1>1. IInv => BlocksInForce
  <2> SUFFICES ASSUME IInv, ~tainted, NEW h \in 0 .. Height - 1
               PROVE  chain[h + 1].version = heights[IndexAt(heights, h)].version
    BY DEF BlocksInForce
  <2>1. Height \in Nat
    BY SwitchFacts
  <2>2. h + 1 \in 1 .. Height /\ h + 1 - 1 = h
    BY <2>1
  <2>3. Passes(heights, chain[h + 1], IndexAt(heights, h + 1 - 1))
    BY <2>2 DEF IInv, InForce, Height
  <2> QED
    BY <2>2, <2>3 DEF Passes
<1> QED
  BY <1>1, Invariance, PTL

\* A rollback of a failed switch gets past the version check with every block
\* that the switch has popped (rollback_blockchain_switching).
THEOREM RollbackFits == Spec => []OriginalsFit
<1>1. IInv => OriginalsFit
  <2> SUFFICES ASSUME IInv, ~tainted, phase = "restoring", Lost > 0
               PROVE  Passes(heights, original[Height - split + 1], index)
    BY DEF OriginalsFit
  <2>1. /\ Height \in Nat /\ split \in Nat /\ split <= Height /\ Len(original) \in Nat
        /\ ~aborted
        /\ \A j \in 1 .. Len(original) :
             Passes(heights, original[j], IndexAt(heights, Base + j - 1))
    BY SwitchFacts
  <2>2. Base = split
    BY DEF Base
  <2>3. /\ Height - split + 1 \in 1 .. Len(original)
        /\ split + (Height - split + 1) - 1 = Height
    BY <2>1 DEF Lost
  <2>4. index = IndexAt(heights, Height)
    BY <2>1 DEF IInv, VersionByHeight
  <2> QED
    BY <2>1, <2>2, <2>3, <2>4
<1> QED
  BY <1>1, Invariance, PTL

\* After a start or a switch, and while blocks are only added, the votes that
\* count are those of the last blocks (HardFork::add, rescan_from_chain_height).
THEOREM WindowOfChain == Spec => []WindowExact
<1>1. IInv => WindowExact
  BY DEF IInv
<1> QED
  BY <1>1, Invariance, PTL
===============================================================================
