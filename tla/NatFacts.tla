------------------------------- MODULE NatFacts -------------------------------
(***************************************************************************)
(* Facts about natural numbers that proofs of other modules cite.  They    *)
(* stand for induction: a set of numbers where a formula fails has a least *)
(* element.  The last part is about folds.                                 *)
(***************************************************************************)
EXTENDS Integers, FiniteSetsExt, WellFoundedInduction, TLAPS

\* The order of the natural numbers is well founded.
LEMMA LeastNat ==
  ASSUME NEW S \in SUBSET Nat, S # {}
  PROVE  \E n \in S : \A m \in S : n <= m
<1> DEFINE R == {ss \in Nat \X Nat : ss[1] < ss[2]}
<1>1. IsWellFoundedOn(R, Nat)
  BY NatLessThanWellFounded DEF OpToRel
<1>2. \A m, n \in Nat : m < n => <<m, n>> \in R
  OBVIOUS
<1> HIDE DEF R
<1>3. PICK n \in S : \A m \in S : <<m, n>> \notin R
  BY <1>1, WFMin
<1>4. ASSUME NEW m \in S
      PROVE  n <= m
  <2>1. m \in Nat /\ n \in Nat /\ ~(m < n)
    BY <1>2, <1>3
  <2> QED
    BY <2>1
<1> QED
  BY <1>3, <1>4

LEMMA GreatestNat ==
  ASSUME NEW b \in Nat, NEW S \in SUBSET (0 .. b), S # {}
  PROVE  \E n \in S : \A m \in S : m <= n
<1> DEFINE R == {b - n : n \in S}
<1>1. R \in SUBSET Nat /\ R # {}
  <2>1. \A n \in S : n \in 0 .. b /\ b - n \in Nat
    OBVIOUS
  <2> QED
    BY <2>1
<1>2. PICK r \in R : \A q \in R : r <= q
  <2> HIDE DEF R
  <2> QED
    BY <1>1, LeastNat
<1>3. PICK n \in S : r = b - n
  OBVIOUS
<1>4. \A m \in S : m <= n
  BY <1>2, <1>3
<1> QED
  BY <1>3, <1>4

\* Max, of a bounded set of numbers.
LEMMA MaxOfBounded ==
  ASSUME NEW b \in Nat, NEW S \in SUBSET (0 .. b), S # {}
  PROVE  Max(S) \in S /\ \A n \in S : n <= Max(S)
<1>1. \E n \in S : \A m \in S : n >= m
  BY GreatestNat
<1> QED
  BY <1>1 DEF Max

\* Numbers counted up one by one.
LEMMA CountUp ==
  ASSUME NEW n \in Nat, NEW S, 0 \in S, \A i \in 1 .. n : i - 1 \in S => i \in S
  PROVE  \A i \in 0 .. n : i \in S
<1> DEFINE T == {i \in 0 .. n : i \notin S}
<1> SUFFICES ASSUME T # {} PROVE FALSE
  OBVIOUS
<1>1. PICK i \in T : \A j \in T : i <= j
  <2>1. T \in SUBSET Nat
    OBVIOUS
  <2> HIDE DEF T
  <2> QED
    BY <2>1, LeastNat
<1>2. i \in 1 .. n
  BY <1>1
<1>3. i - 1 \in 0 .. n /\ i - 1 \notin T
  BY <1>1, <1>2
<1> QED
  BY <1>1, <1>2, <1>3

LEMMA MaxOfInterval ==
  ASSUME NEW n \in Nat
  PROVE  /\ \A S \in SUBSET (1 .. n) : S # {} => Max(S) \in S
         /\ \A i \in 1 .. n :
              /\ 1 .. i \in SUBSET (1 .. n) /\ 1 .. i # {}
              /\ Max(1 .. i) = i /\ (1 .. i) \ {Max(1 .. i)} = 1 .. (i - 1)
<1>1. ASSUME NEW S \in SUBSET (1 .. n), S # {}
      PROVE  Max(S) \in S /\ \A j \in S : j <= Max(S)
  <2>1. S \in SUBSET (0 .. n)
    OBVIOUS
  <2> HIDE DEF Max
  <2> QED
    BY <1>1, <2>1, MaxOfBounded
<1>2. ASSUME NEW i \in 1 .. n
      PROVE  /\ 1 .. i \in SUBSET (1 .. n) /\ 1 .. i # {}
             /\ Max(1 .. i) = i /\ (1 .. i) \ {Max(1 .. i)} = 1 .. (i - 1)
  <2>1. 1 .. i \in SUBSET (1 .. n) /\ 1 .. i # {} /\ i \in Nat /\ i \in 1 .. i
    OBVIOUS
  <2>2. Max(1 .. i) \in 1 .. i /\ i <= Max(1 .. i)
    BY <1>1, <2>1
  <2>3. Max(1 .. i) = i
    BY <2>2
  <2> QED
    BY <2>1, <2>3
<1> QED
  BY <1>1, <1>2

-----------------------------------------------------------------------------
(* Folds.  FoldLeft is by recursion over sets of indices, the greatest one    *)
(* last; g stands for its operator.                                          *)

FoldSolution(f, D, n, base, g) ==
  /\ f \in [SUBSET (1 .. n) -> D]
  /\ \A S \in SUBSET (1 .. n) :
       /\ f[S] = IF S = {} THEN base ELSE g[<<f[S \ {Max(S)}], Max(S)>>]
       /\ S # {} => f[S \ {Max(S)}] \in D /\ Max(S) \in 1 .. n

\* What FoldTrace needs to know of any solution.
FoldSteps(f, D, n, base, g) ==
  /\ f[{}] = base
  /\ \A S \in SUBSET (1 .. n) :
       S # {} /\ f[S \ {Max(S)}] \in D => f[S] = g[<<f[S \ {Max(S)}], Max(S)>>]

\* The values a fold goes through, from left to right.
IsTrace(trace, D, n, base, g, value) ==
  /\ trace \in [0 .. n -> D]
  /\ trace[0] = base /\ trace[n] = value
  /\ \A i \in 1 .. n : trace[i] = g[<<trace[i - 1], i>>]

\* The recursion has a solution.
LEMMA FoldExists ==
  ASSUME NEW D, NEW n \in Nat, NEW base \in D, NEW g \in [D \X (1 .. n) -> D]
  PROVE  \E f : FoldSolution(f, D, n, base, g)
<1> DEFINE Solves(m, f) ==
             /\ f \in [SUBSET (1 .. m) -> D]
             /\ \A S \in SUBSET (1 .. m) :
                  f[S] = IF S = {} THEN base ELSE g[<<f[S \ {Max(S)}], Max(S)>>]
           G == {m \in Nat : \E f : Solves(m, f)}
<1>1. 0 \in G
  <2>1. Solves(0, [S \in SUBSET (1 .. 0) |-> base])
    <3>1. \A S \in SUBSET (1 .. 0) : S = {}
      OBVIOUS
    <3> QED
      BY <3>1
  <2> QED
    BY <2>1
<1>2. ASSUME NEW m \in 1 .. n, m - 1 \in G
      PROVE  m \in G
  <2>1. PICK f : Solves(m - 1, f)
    BY <1>2
  <2> DEFINE h == [S \in SUBSET (1 .. m) |->
                     IF m \in S THEN g[<<f[S \ {m}], m>>] ELSE f[S]]
  <2>2. ASSUME NEW S \in SUBSET (1 .. m)
        PROVE  /\ S \ {m} \in SUBSET (1 .. (m - 1))
               /\ m \notin S => S \in SUBSET (1 .. (m - 1))
               /\ S \ {m} \in SUBSET (1 .. m)
    OBVIOUS
  <2>3. \A S \in SUBSET (1 .. (m - 1)) : f[S] \in D
    BY <2>1
  <2>4. \A S \in SUBSET (1 .. m) : h[S] \in D
    BY <2>2, <2>3
  <2>5. h \in [SUBSET (1 .. m) -> D]
    BY <2>4
  <2>6. ASSUME NEW S \in SUBSET (1 .. m), S # {}
        PROVE  h[S] = g[<<h[S \ {Max(S)}], Max(S)>>]
    <3>1. Max(S) \in S /\ \A x \in S : x <= Max(S)
      <4>1. S \in SUBSET (0 .. m) /\ m \in Nat
        OBVIOUS
      <4> QED
        BY <2>6, <4>1, MaxOfBounded
    <3>2. CASE m \in S
      <4>1. Max(S) = m
        <5>1. m <= Max(S) /\ Max(S) \in 1 .. m
          BY <3>1, <3>2
        <5> HIDE DEF Max
        <5> QED
          BY <5>1
      <4>2. h[S \ {m}] = f[S \ {m}]
        BY <2>2
      <4> QED
        BY <3>2, <4>1, <4>2
    <3>3. CASE m \notin S
      <4>1. S \in SUBSET (1 .. (m - 1)) /\ S \ {Max(S)} \in SUBSET (1 .. m)
            /\ m \notin S \ {Max(S)}
        BY <2>2, <3>3
      <4>2. h[S] = f[S] /\ h[S \ {Max(S)}] = f[S \ {Max(S)}]
        BY <3>3, <4>1
      <4>3. f[S] = g[<<f[S \ {Max(S)}], Max(S)>>]
        BY <2>1, <2>6, <4>1
      <4> QED
        BY <4>2, <4>3
    <3> QED
      BY <3>2, <3>3
  <2>7. h[{}] = base
    <3>1. {} \in SUBSET (1 .. m) /\ {} \in SUBSET (1 .. (m - 1))
      OBVIOUS
    <3> QED
      BY <2>1, <3>1
  <2>8. Solves(m, h)
    <3> HIDE DEF h
    <3> QED
      BY <2>5, <2>6, <2>7
  <2> HIDE DEF Solves, h
  <2> QED
    BY <2>8
<1>3. \A m \in 0 .. n : m \in G
  <2> HIDE DEF G
  <2> QED
    BY <1>1, <1>2, CountUp
<1>4. \E f : Solves(n, f)
  <2>1. n \in G
    <3>1. n \in 0 .. n
      OBVIOUS
    <3> HIDE DEF G
    <3> QED
      BY <1>3, <3>1
  <2> HIDE DEF Solves
  <2> QED
    BY <2>1
<1>5. \A S \in SUBSET (1 .. n) :
        S # {} => S \ {Max(S)} \in SUBSET (1 .. n) /\ Max(S) \in 1 .. n
  BY MaxOfInterval
<1> HIDE DEF G
<1> QED
  BY <1>4, <1>5 DEF FoldSolution

LEMMA FoldTrace ==
  ASSUME NEW D, NEW n \in Nat, NEW base \in D, NEW g \in [D \X (1 .. n) -> D], NEW f,
         FoldSteps(f, D, n, base, g)
  PROVE  \E trace : IsTrace(trace, D, n, base, g, f[1 .. n])
<1> DEFINE trace == [i \in 0 .. n |-> f[1 .. i]]
           S == {i \in 0 .. n : f[1 .. i] \in D}
<1>1. f[1 .. 0] = base
  <2>1. 1 .. 0 = {}
    OBVIOUS
  <2> QED
    BY <2>1 DEF FoldSteps
<1>2. 0 \in S
  BY <1>1
<1>3. ASSUME NEW i \in 1 .. n, f[1 .. (i - 1)] \in D
      PROVE  /\ f[1 .. i] = g[<<f[1 .. (i - 1)], i>>]
             /\ <<f[1 .. (i - 1)], i>> \in D \X (1 .. n)
  <2>1. /\ 1 .. i \in SUBSET (1 .. n) /\ 1 .. i # {}
        /\ Max(1 .. i) = i /\ (1 .. i) \ {Max(1 .. i)} = 1 .. (i - 1)
    BY MaxOfInterval
  <2> HIDE DEF Max
  <2> QED
    BY <1>3, <2>1 DEF FoldSteps
<1>4. ASSUME NEW i \in 1 .. n, i - 1 \in S
      PROVE  i \in S
  <2>1. f[1 .. (i - 1)] \in D /\ i \in 0 .. n
    BY <1>4
  <2>2. f[1 .. i] = g[<<f[1 .. (i - 1)], i>>] /\ <<f[1 .. (i - 1)], i>> \in D \X (1 .. n)
    BY <1>3, <2>1
  <2> QED
    BY <2>1, <2>2
<1>5. \A i \in 0 .. n : i \in S
  <2> HIDE DEF S
  <2> QED
    BY <1>2, <1>4, CountUp
<1>6. trace \in [0 .. n -> D]
  BY <1>5
<1>7. \A i \in 1 .. n : trace[i] = g[<<trace[i - 1], i>>]
  BY <1>3, <1>5
<1>8. trace[0] = base /\ trace[n] = f[1 .. n]
  BY <1>1
<1> HIDE DEF trace
<1> QED
  BY <1>6, <1>7, <1>8 DEF IsTrace
===============================================================================
