------------------------- MODULE TraceArchiveProofs -------------------------
(* What the readers and writers of traces guarantee, for all inputs and       *)
(* options: the readers give typed traces; an archive that was not closed is  *)
(* empty; what a later program reads from an archive are the traces it was    *)
(* made of; the traces of simulations in order are those of their records;    *)
(* and those of waveforms that do not go back have a sample per event.        *)
EXTENDS TraceArchive, InductionFacts, SequenceTheorems

-----------------------------------------------------------------------------
(* Event sets in order.                                                       *)

FiniteInts == { S \in SUBSET Int : IsFiniteSet(S) }

\* The number of elements up to x numbers the elements of S.
UpTo(S, x) == Cardinality({ u \in S : u <= x })

LEMMA UpToNumbers ==
    ASSUME NEW S \in FiniteInts
    PROVE  /\ Cardinality(S) \in Nat
           /\ \A x \in S : UpTo(S, x) \in 1..Cardinality(S)
           /\ \A x, y \in S : x < y => UpTo(S, x) < UpTo(S, y)
           /\ \A i \in 1..Cardinality(S) : \E x \in S : UpTo(S, x) = i
<1> DEFINE n == Cardinality(S)
           below(x) == { u \in S : u <= x }
<1>1. S \subseteq Int /\ IsFiniteSet(S) /\ n \in Nat
  BY FS_CardinalityType DEF FiniteInts
<1>2. ASSUME NEW x \in S PROVE UpTo(S, x) \in 1..n
  <2>1. below(x) \in SUBSET S /\ x \in below(x)
    BY <1>1
  <2>2. IsFiniteSet(below(x)) /\ Cardinality(below(x)) <= n
    BY <1>1, <2>1, FS_Subset
  <2>3. Cardinality(below(x)) \in Nat /\ Cardinality(below(x)) # 0
    BY <2>1, <2>2, FS_CardinalityType, FS_EmptySet
  <2> HIDE DEF below, n
  <2>4. Cardinality(below(x)) \in 1..n
    BY <1>1, <2>2, <2>3
  <2> QED BY <2>4 DEF below, UpTo
<1>3. ASSUME NEW x \in S, NEW y \in S, x < y PROVE UpTo(S, x) < UpTo(S, y)
  <2>1. below(x) \in SUBSET below(y) /\ y \in below(y) /\ y \notin below(x) /\ below(y) \in SUBSET S
    <3>1. x \in Int /\ y \in Int /\ \A u \in S : u \in Int
      BY <1>1
    <3>2. \A u \in S : u <= x => u <= y
      BY <1>3, <3>1
    <3>3. ~(y <= x) /\ y <= y
      BY <1>3, <3>1
    <3> QED BY <3>2, <3>3
  <2>2. IsFiniteSet(below(y))
    BY <1>1, <2>1, FS_Subset
  <2>3. Cardinality(below(x)) <= Cardinality(below(y)) /\ Cardinality(below(x)) # Cardinality(below(y))
    BY <2>1, <2>2, FS_Subset
  <2>4. Cardinality(below(x)) \in Nat /\ Cardinality(below(y)) \in Nat
    BY <1>2 DEF UpTo
  <2> HIDE DEF below
  <2>5. Cardinality(below(x)) < Cardinality(below(y))
    BY <2>3, <2>4
  <2> QED BY <2>5 DEF below, UpTo
<1>4. ASSUME NEW i \in 1..n PROVE \E x \in S : UpTo(S, x) = i
  <2> DEFINE f == [x \in S |-> UpTo(S, x)]
  <2>1. f \in [S -> 1..n]
    BY <1>2
  <2>2. \A x, y \in S : f[x] = f[y] => x = y
    <3> TAKE x, y \in S
    <3>1. UpTo(S, x) \in Int /\ UpTo(S, y) \in Int /\ x \in Int /\ y \in Int
      BY <1>1, <1>2
    <3>2. x < y \/ y < x \/ x = y
      BY <3>1
    <3>3. f[x] = f[y] => ~(x < y) /\ ~(y < x)
      BY <1>3, <3>1
    <3> QED BY <3>2, <3>3
  <2>3. f \in Injection(S, 1..n)
    BY <2>1, <2>2 DEF Injection, IsInjective
  <2>4. IsFiniteSet(1..n) /\ Cardinality(1..n) = n
    BY <1>1, FS_Interval
  <2>5. f \in Surjection(S, 1..n)
    BY <2>3, <2>4, FS_Injection
  <2> QED BY <2>5 DEF Surjection
<1> QED
  BY <1>1, <1>2, <1>3, <1>4

\* Ascending lists a finite set from its smallest element to its largest.
LEMMA AscendingLists ==
    ASSUME NEW S \in FiniteInts
    PROVE  /\ Ascending(S) \in [1..Cardinality(S) -> S] /\ Cardinality(S) \in Nat
           /\ \A i, j \in 1..Cardinality(S) : i < j => Ascending(S)[i] < Ascending(S)[j]
           /\ \A x \in S : \E i \in 1..Cardinality(S) : Ascending(S)[i] = x
<1> DEFINE n == Cardinality(S)
           a == Ascending(S)
<1>1. S \subseteq Int /\ n \in Nat
  BY UpToNumbers DEF FiniteInts
<1>2. ASSUME NEW i \in 1..n PROVE a[i] \in S /\ UpTo(S, a[i]) = i
  <2>1. a[i] = CHOOSE x \in S : UpTo(S, x) = i
    BY DEF Ascending, UpTo
  <2>2. \E x \in S : UpTo(S, x) = i
    BY UpToNumbers
  <2> HIDE DEF a
  <2> QED BY <2>1, <2>2
<1>3. a \in [1..n -> S]
  BY <1>2 DEF Ascending
<1> HIDE DEF a
<1>4. ASSUME NEW i \in 1..n, NEW j \in 1..n, i < j PROVE a[i] < a[j]
  <2>1. a[i] \in Int /\ a[j] \in Int /\ a[i] # a[j]
    <3>1. a[i] \in S /\ a[j] \in S /\ UpTo(S, a[i]) = i /\ UpTo(S, a[j]) = j /\ i # j
      BY <1>1, <1>2, <1>4
    <3> QED BY <1>1, <3>1
  <2>2. ~(a[j] < a[i])
    BY <1>2, <1>4, UpToNumbers
  <2> QED BY <2>1, <2>2
<1>5. ASSUME NEW x \in S PROVE \E i \in 1..n : a[i] = x
  <2> DEFINE i == UpTo(S, x)
  <2>1. i \in 1..n
    BY UpToNumbers
  <2>2. UpTo(S, a[i]) = UpTo(S, x) /\ a[i] \in S
    BY <1>2, <2>1
  <2>3. a[i] \in Int /\ x \in Int /\ UpTo(S, x) \in Int
    <3>1. a[i] \in Int /\ x \in Int
      BY <1>1, <2>2
    <3>2. \A k \in 1..n : k \in Int
      BY <1>1
    <3> QED BY <2>1, <3>1, <3>2
  <2>4. ~(a[i] < x) /\ ~(x < a[i])
    BY <2>2, <2>3, UpToNumbers
  <2>5. a[i] = x
    BY <2>3, <2>4
  <2> QED BY <2>1, <2>5
<1> QED
  BY <1>1, <1>3, <1>4, <1>5 DEF a

\* No other list does.
LEMMA AscendingOnly ==
    ASSUME NEW n \in Nat, NEW S \in SUBSET Int, NEW seq \in [1..n -> S],
           \A i, j \in 1..n : i < j => seq[i] < seq[j],
           \A x \in S : \E i \in 1..n : seq[i] = x
    PROVE  S \in FiniteInts /\ Cardinality(S) = n /\ seq = Ascending(S)
<1>0. \A x \in S : x \in Int
  OBVIOUS
<1>1. ASSUME NEW i \in 1..n, NEW j \in 1..n PROVE (seq[i] <= seq[j] <=> i <= j) /\ (seq[i] = seq[j] => i = j)
  <2>1. seq[i] \in Int /\ seq[j] \in Int /\ i \in Int /\ j \in Int
    <3>1. seq[i] \in S /\ seq[j] \in S
      OBVIOUS
    <3>2. i \in Int /\ j \in Int
      OBVIOUS
    <3> QED BY <1>0, <3>1, <3>2
  <2>2. i < j => seq[i] < seq[j]
    OBVIOUS
  <2>3. j < i => seq[j] < seq[i]
    OBVIOUS
  <2> QED BY <2>1, <2>2, <2>3
<1>2. ASSUME NEW i \in 1..n PROVE UpTo(S, seq[i]) = i /\ IsFiniteSet({ u \in S : u <= seq[i] })
  <2> DEFINE T == { u \in S : u <= seq[i] }
             f == [k \in 1..i |-> seq[k]]
  <2>1. f \in [1..i -> T]
    BY <1>1
  <2>2. \A x \in T : \E k \in 1..i : f[k] = x
    <3> TAKE x \in T
    <3>1. PICK k \in 1..n : seq[k] = x
      OBVIOUS
    <3>2. k <= i
      BY <1>1, <3>1
    <3> QED BY <3>1, <3>2
  <2>3. \A k, l \in 1..i : f[k] = f[l] => k = l
    BY <1>1
  <2> HIDE DEF f, T
  <2>4. f \in Injection(1..i, T) /\ f \in Surjection(1..i, T)
    BY <2>1, <2>2, <2>3 DEF Injection, IsInjective, Surjection
  <2>5. IsFiniteSet(1..i) /\ Cardinality(1..i) = i
    BY FS_Interval
  <2>6. IsFiniteSet(T) /\ Cardinality(T) = i
    BY <2>4, <2>5, FS_Surjection
  <2> QED BY <2>6 DEF T, UpTo
<1>3. IsFiniteSet(S) /\ Cardinality(S) = n
  <2>1. seq \in Injection(1..n, S) /\ seq \in Surjection(1..n, S)
    BY <1>1 DEF Injection, IsInjective, Surjection
  <2>2. IsFiniteSet(1..n) /\ Cardinality(1..n) = n
    BY FS_Interval
  <2> QED BY <2>1, <2>2, FS_Surjection
<1>4. ASSUME NEW i \in 1..n PROVE Ascending(S)[i] = seq[i]
  <2>1. Ascending(S)[i] = CHOOSE x \in S : UpTo(S, x) = i
    BY <1>3 DEF Ascending, UpTo
  <2>2. ASSUME NEW x \in S, UpTo(S, x) = i PROVE x = seq[i]
    <3>1. PICK k \in 1..n : seq[k] = x
      OBVIOUS
    <3> QED BY <1>2, <2>2, <3>1
  <2>3. seq[i] \in S /\ UpTo(S, seq[i]) = i
    BY <1>2
  <2> QED BY <2>1, <2>2, <2>3
<1>5. seq = Ascending(S)
  <2> DEFINE pick(i) == CHOOSE t \in S : Cardinality({ u \in S : u <= t }) = i
  <2>1. Ascending(S) = [i \in 1..n |-> pick(i)]
    BY <1>3 DEF Ascending
  <2> HIDE DEF pick
  <2>2. \A i \in 1..n : pick(i) = seq[i]
    BY <1>4, <2>1
  <2> QED BY <2>1, <2>2
<1>6. S \in FiniteInts
  BY <1>3 DEF FiniteInts
<1> QED
  BY <1>3, <1>5, <1>6

LEMMA OneExtreme ==
    ASSUME NEW S \in SUBSET Int, NEW x \in S
    PROVE  /\ (\A y \in S : x <= y) => Min(S) = x
           /\ (\A y \in S : y <= x) => Max(S) = x
<1>0. \A y \in S : y \in Int
  OBVIOUS
<1>1. ASSUME \A y \in S : x <= y PROVE Min(S) = x
  <2>1. \A z \in S : (\A y \in S : z <= y) <=> z = x
    BY <1>0, <1>1
  <2>2. Min(S) = CHOOSE z \in S : \A y \in S : z <= y
    BY DEF Min
  <2>3. Min(S) \in S /\ \A y \in S : Min(S) <= y
    BY <1>1, <2>2
  <2> QED BY <2>1, <2>3
<1>2. ASSUME \A y \in S : y <= x PROVE Max(S) = x
  <2>1. \A z \in S : (\A y \in S : z >= y) <=> z = x
    BY <1>0, <1>2
  <2>2. Max(S) = CHOOSE z \in S : \A y \in S : z >= y
    BY DEF Max
  <2>3. \A y \in S : x >= y
    BY <1>0, <1>2
  <2>4. Max(S) \in S /\ \A y \in S : Max(S) >= y
    BY <2>2, <2>3
  <2> QED BY <2>1, <2>4
<1> QED
  BY <1>1, <1>2

\* The first of a set of events.
LEMMA FirstOf ==
    ASSUME NEW S \in FiniteInts, S # {}
    PROVE  Min(S) \in S /\ \A x \in S : Min(S) <= x
<1> DEFINE n == Cardinality(S)
           a == Ascending(S)
<1>1. /\ a \in [1..n -> S] /\ n \in Nat
      /\ \A i, j \in 1..n : i < j => a[i] < a[j]
      /\ \A x \in S : \E i \in 1..n : a[i] = x
  BY AscendingLists
<1>2. S \in SUBSET Int /\ \A x \in S : x \in Int
  BY DEF FiniteInts
<1> HIDE DEF n, a
<1>3. 1 \in 1..n
  BY <1>1
<1>4. a[1] \in S /\ \A x \in S : a[1] <= x
  <2>1. a[1] \in S
    BY <1>1, <1>3
  <2>2. ASSUME NEW x \in S PROVE a[1] <= x
    <3>1. PICK i \in 1..n : a[i] = x
      BY <1>1
    <3>2. i = 1 \/ 1 < i
      BY <1>1
    <3>3. 1 < i => a[1] < a[i]
      BY <1>1, <1>3
    <3>4. a[1] \in Int /\ x \in Int
      BY <1>2, <2>1
    <3> QED BY <3>1, <3>2, <3>3, <3>4
  <2> QED BY <2>1, <2>2
<1>5. Min(S) = a[1]
  BY <1>2, <1>4, OneExtreme
<1> QED
  BY <1>4, <1>5

-----------------------------------------------------------------------------
(* Folds of the readers, as what they have after k turns of the loop.         *)

LEMMA WindowedTurns ==
    ASSUME NEW o, NEW T, NEW seq \in Seq(T)
    PROVE  \E A : /\ A[0] = <<>> /\ Windowed(o, seq) = A[Len(seq)]
                  /\ \A k \in 1..Len(seq) :
                        A[k] = IF InWindow(o, seq[k].time) THEN Append(A[k - 1], seq[k]) ELSE A[k - 1]
<1> DEFINE n == Len(seq)
           Op(acc, s) == IF InWindow(o, s.time) THEN Append(acc, s) ELSE acc
           V == Seq(T)
           h == [p \in V \X (1..n) |-> Op(p[1], seq[p[2]])]
           IsFold(F) == F = [s \in SUBSET (1..n) |->
                               IF s = {} THEN <<>> ELSE Op(F[s \ {Max(s)}], seq[Max(s)])]
           G == CHOOSE F : IsFold(F)
<1>1. n \in Nat /\ DOMAIN seq = 1..n /\ \A k \in 1..n : seq[k] \in T
  BY LenProperties
<1>2. ASSUME NEW acc \in V, NEW k \in 1..n PROVE Op(acc, seq[k]) \in V /\ h[<<acc, k>>] = Op(acc, seq[k])
  BY <1>1, AppendProperties
<1>3. h \in [V \X (1..n) -> V] /\ <<>> \in V
  BY <1>2
<1>4. Windowed(o, seq) = G[1..n]
  BY <1>1 DEF Windowed, FoldLeft, MapThenFoldSet
<1> HIDE DEF h, Op, V, n
<1>5. PICK F : Folds(F, n, V, <<>>, h)
  BY <1>1, <1>3, FoldExists
<1>6. IsFold(F)
  BY <1>2, <1>5 DEF Folds
<1>7. IsFold(G)
  <2> HIDE DEF IsFold
  <2> QED BY <1>6
<1> DEFINE A == [k \in 0..n |-> G[1..k]]
<1>8. ASSUME NEW k \in 1..n PROVE A[k] = Op(A[k - 1], seq[k])
  <2>1. /\ Max(1..k) = k /\ (1..k) \ {Max(1..k)} = 1..(k - 1)
        /\ 1..k # {} /\ 1..k \in SUBSET (1..n)
    BY <1>1, Prefix
  <2>2. G[1..k] = Op(G[1..(k - 1)], seq[k])
    <3> HIDE DEF G
    <3> QED BY <1>7, <2>1
  <2> HIDE DEF G
  <2> QED BY <1>1, <2>2
<1>9. A[0] = <<>> /\ A[n] = G[1..n]
  <2> HIDE DEF G
  <2> QED BY <1>1, <1>7 DEF n
<1> HIDE DEF A, G, IsFold
<1>10. A[0] = <<>> /\ Windowed(o, seq) = A[n] /\ \A k \in 1..n : A[k] = Op(A[k - 1], seq[k])
  BY <1>4, <1>8, <1>9
<1> QED
  BY <1>10, Zenon DEF Op, n

\* What is left in a window is a sequence, and everything if there is none.
LEMMA WindowedSeq ==
    ASSUME NEW o, NEW T, NEW seq \in Seq(T)
    PROVE  /\ Windowed(o, seq) \in Seq(T)
           /\ o.min_time = 0 /\ o.max_time = 0 => Windowed(o, seq) = seq
<1>1. PICK A : /\ A[0] = <<>> /\ Windowed(o, seq) = A[Len(seq)]
               /\ \A k \in 1..Len(seq) :
                     A[k] = IF InWindow(o, seq[k].time) THEN Append(A[k - 1], seq[k]) ELSE A[k - 1]
  BY WindowedTurns
<1> DEFINE n == Len(seq)
           open == o.min_time = 0 /\ o.max_time = 0
           Good(k) == A[k] \in Seq(T) /\ (open => A[k] = SubSeq(seq, 1, k))
           Ok == { k \in Nat : k <= n => Good(k) }
<1>2. n \in Nat /\ DOMAIN seq = 1..n /\ \A k \in 1..n : seq[k] \in T
  BY LenProperties
<1>3. 0 \in Ok
  <2>1. SubSeq(seq, 1, 0) = <<>> /\ <<>> \in Seq(T)
    BY SubSeqEmpty
  <2> QED BY <1>1, <2>1
<1>4. ASSUME NEW k \in Nat, k \in Ok PROVE k + 1 \in Ok
  <2> SUFFICES ASSUME k + 1 <= n PROVE Good(k + 1)
    OBVIOUS
  <2>1. k + 1 \in 1..n /\ k + 1 - 1 = k /\ seq[k + 1] \in T /\ k \in 0..n
    BY <1>2
  <2>2. Good(k)
    BY <1>2, <1>4, <2>1
  <2>3. A[k + 1] = IF InWindow(o, seq[k + 1].time) THEN Append(A[k], seq[k + 1]) ELSE A[k]
    BY <1>1, <2>1
  <2>4. A[k + 1] \in Seq(T)
    BY <2>1, <2>2, <2>3, AppendProperties
  <2>5. ASSUME open PROVE A[k + 1] = SubSeq(seq, 1, k + 1)
    <3>1. InWindow(o, seq[k + 1].time)
      BY <2>5 DEF InWindow
    <3>2. A[k + 1] = Append(SubSeq(seq, 1, k), seq[k + 1])
      BY <2>2, <2>3, <2>5, <3>1
    <3> QED BY <1>2, <2>1, <3>2
  <2> QED BY <2>4, <2>5
<1>5. n \in Ok
  <2> HIDE DEF Ok
  <2> QED BY <1>2, <1>3, <1>4, Induction
<1>6. Good(n)
  BY <1>2, <1>5
<1> QED
  BY <1>1, <1>6, SubSeqFull

-----------------------------------------------------------------------------
(* copy_trace                                                                 *)

SampleType == [time : Int, power : Int]

\* The samples are at the times of S, in order.
Covers(seq, S) ==
    /\ seq \in Seq(SampleType)
    /\ \A i, j \in 1..Len(seq) : i < j => seq[i].time < seq[j].time
    /\ \A i \in 1..Len(seq) : seq[i].time \in S
    /\ \A x \in S : \E i \in 1..Len(seq) : seq[i].time = x

LEMMA CoversConcat ==
    ASSUME NEW s, NEW S, Covers(s, S), NEW t, NEW T, Covers(t, T),
           \A x \in S, y \in T : x < y
    PROVE  Covers(s \o t, S \union T)
<1> DEFINE m == Len(s)
           n == Len(t)
           u == s \o t
<1>1. /\ s \in Seq(SampleType) /\ t \in Seq(SampleType) /\ m \in Nat /\ n \in Nat
      /\ u \in Seq(SampleType) /\ Len(u) = m + n
      /\ \A i \in 1..(m + n) : u[i] = IF i <= m THEN s[i] ELSE t[i - m]
  BY LenProperties, ConcatProperties DEF Covers
<1>2. /\ \A i, j \in 1..m : i < j => s[i].time < s[j].time
      /\ \A i \in 1..m : s[i].time \in S
      /\ \A x \in S : \E i \in 1..m : s[i].time = x
      /\ \A i, j \in 1..n : i < j => t[i].time < t[j].time
      /\ \A i \in 1..n : t[i].time \in T
      /\ \A x \in T : \E i \in 1..n : t[i].time = x
  BY DEF Covers
<1> HIDE DEF m, n, u
<1>3. ASSUME NEW i \in 1..(m + n), NEW j \in 1..(m + n), i < j PROVE u[i].time < u[j].time
  <2>1. CASE j <= m
    <3>1. u[i] = s[i] /\ u[j] = s[j] /\ i \in 1..m /\ j \in 1..m
      BY <1>1, <1>3, <2>1
    <3> QED BY <1>2, <1>3, <3>1
  <2>2. CASE i <= m /\ j > m
    <3>1. u[i] = s[i] /\ u[j] = t[j - m] /\ i \in 1..m /\ j - m \in 1..n
      BY <1>1, <2>2
    <3> QED BY <1>2, <3>1
  <2>3. CASE i > m
    <3>1. /\ u[i] = t[i - m] /\ u[j] = t[j - m] /\ i - m \in 1..n /\ j - m \in 1..n
          /\ i - m < j - m
      BY <1>1, <1>3, <2>3
    <3> QED BY <1>2, <3>1
  <2> QED BY <1>1, <2>1, <2>2, <2>3
<1>4. ASSUME NEW i \in 1..(m + n) PROVE u[i].time \in S \union T
  <2>1. CASE i <= m
    <3>1. u[i] = s[i] /\ i \in 1..m
      BY <1>1, <2>1
    <3> QED BY <1>2, <3>1
  <2>2. CASE i > m
    <3>1. u[i] = t[i - m] /\ i - m \in 1..n
      BY <1>1, <2>2
    <3> QED BY <1>2, <3>1
  <2> QED BY <1>1, <2>1, <2>2
<1>5. ASSUME NEW x \in S \union T PROVE \E i \in 1..(m + n) : u[i].time = x
  <2>1. CASE x \in S
    <3>1. PICK i \in 1..m : s[i].time = x
      BY <1>2, <2>1
    <3>2. i \in 1..(m + n) /\ u[i] = s[i]
      BY <1>1
    <3> QED BY <3>1, <3>2
  <2>2. CASE x \in T
    <3>1. PICK i \in 1..n : t[i].time = x
      BY <1>2, <2>2
    <3>2. i + m \in 1..(m + n) /\ ~(i + m <= m) /\ i + m - m = i
      BY <1>1
    <3>3. u[i + m] = t[i]
      BY <1>1, <3>2
    <3> QED BY <3>1, <3>2, <3>3
  <2> QED BY <2>1, <2>2
<1> QED
  BY <1>1, <1>3, <1>4, <1>5 DEF Covers, u

LEMMA CoversHeld ==
    ASSUME NEW S \in FiniteInts, NEW power \in Int
    PROVE  Covers(Held(S, power), S)
<1> DEFINE n == Cardinality(S)
           a == Ascending(S)
           u == Held(S, power)
<1>1. /\ a \in [1..n -> S] /\ n \in Nat
      /\ \A i, j \in 1..n : i < j => a[i] < a[j]
      /\ \A x \in S : \E i \in 1..n : a[i] = x
  BY AscendingLists
<1>2. \A x \in S : x \in Int
  BY DEF FiniteInts
<1>3. u = [i \in 1..n |-> [time |-> a[i], power |-> power]]
  BY DEF Held, Sample
<1> HIDE DEF n, a, u
<1>4. u \in Seq(SampleType) /\ Len(u) = n
  <2>1. \A i \in 1..n : [time |-> a[i], power |-> power] \in SampleType
    BY <1>1, <1>2 DEF SampleType
  <2> QED BY <1>1, <1>3, <2>1
<1>5. \A i \in 1..n : u[i].time = a[i]
  BY <1>3
<1> QED
  BY <1>1, <1>4, <1>5 DEF Covers, u

LEMMA CoversOne ==
    ASSUME NEW sample \in SampleType
    PROVE  Covers(<<sample>>, {sample.time})
<1>1. <<sample>> \in Seq(SampleType) /\ Len(<<sample>>) = 1 /\ <<sample>>[1] = sample
  OBVIOUS
<1> QED
  BY <1>1 DEF Covers

LEMMA CoversAll ==
    ASSUME NEW S \in SUBSET Int, NEW seq, Covers(seq, S)
    PROVE  Times(seq) = Ascending(S) /\ Len(seq) = Cardinality(S)
<1> DEFINE n == Len(seq)
           u == [i \in 1..n |-> seq[i].time]
<1>1. n \in Nat /\ DOMAIN seq = 1..n
  BY LenProperties DEF Covers
<1>2. u \in [1..n -> S] /\ \A i \in 1..n : u[i] = seq[i].time
  BY DEF Covers
<1>3. /\ \A i, j \in 1..n : i < j => u[i] < u[j]
      /\ \A x \in S : \E i \in 1..n : u[i] = x
  BY DEF Covers
<1> HIDE DEF n, u
<1>4. u = Ascending(S) /\ n = Cardinality(S)
  BY <1>1, <1>2, <1>3, AscendingOnly
<1> QED
  BY <1>1, <1>4 DEF Times, u, n

\* What copy_trace has between two samples of a trace over the events E, and
\* what the iterator past the end may show.
CopyState(E) == [ok : BOOLEAN, out : Seq(SampleType), left : SUBSET E, last : Int]
CopyStart(E) == [ok |-> TRUE, out |-> <<>>, left |-> E, last |-> 0]
BeyondType(E) == [time : Int, left : SUBSET E]

\* The sample that is pushed after the gap.
LEMMA NextEvent ==
    ASSUME NEW E \in FiniteInts, NEW rest \in SUBSET E, NEW b \in BeyondType(E), NEW power \in Int
    PROVE  /\ Sample(IF rest = {} THEN b.time ELSE Min(rest), power) \in SampleType
           /\ (IF rest = {} THEN b.left ELSE rest \ {Min(rest)}) \in SUBSET E
<1>1. E \subseteq Int /\ IsFiniteSet(E) /\ b.time \in Int /\ b.left \in SUBSET E
  BY DEF FiniteInts, BeyondType
<1>2. rest \in FiniteInts
  BY <1>1, FS_Subset DEF FiniteInts
<1>3. rest # {} => Min(rest) \in Int
  BY <1>1, <1>2, FirstOf
<1> QED
  BY <1>1, <1>3 DEF Sample, SampleType

LEMMA CopyType ==
    ASSUME NEW E \in FiniteInts, NEW b \in BeyondType(E), NEW acc \in CopyState(E), NEW s \in SampleType
    PROVE  CopySample(b, acc, s) \in CopyState(E)
<1> DEFINE gap == { e \in acc.left : e < s.time }
           rest == acc.left \ gap
           pushed == Sample(IF rest = {} THEN b.time ELSE Min(rest), s.power)
           left == IF rest = {} THEN b.left ELSE rest \ {Min(rest)}
           out == acc.out \o Held(gap, s.power) \o <<pushed>>
<1>1. /\ acc.ok \in BOOLEAN /\ acc.out \in Seq(SampleType) /\ acc.left \in SUBSET E /\ acc.last \in Int
      /\ s.time \in Int /\ s.power \in Int /\ E \subseteq Int /\ IsFiniteSet(E)
  BY DEF CopyState, SampleType, FiniteInts
<1>2. gap \in FiniteInts /\ rest \in SUBSET E
  BY <1>1, FS_Subset DEF FiniteInts
<1>3. pushed \in SampleType /\ left \in SUBSET E
  <2> HIDE DEF rest
  <2> QED BY <1>1, <1>2, NextEvent
<1>4. out \in Seq(SampleType)
  <2>1. Held(gap, s.power) \in Seq(SampleType)
    BY <1>1, <1>2, CoversHeld DEF Covers
  <2> HIDE DEF gap, pushed
  <2>2. <<pushed>> \in Seq(SampleType)
    BY <1>3
  <2> QED BY <1>1, <2>1, <2>2, ConcatProperties
<1>5. CASE ~acc.ok
  BY <1>5 DEF CopySample
<1>6. CASE acc.ok /\ acc.out # <<>> /\ Last(acc.out).time = s.time
  <2>1. CopySample(b, acc, s) = [acc EXCEPT !.ok = FALSE]
    BY <1>6 DEF CopySample
  <2> QED BY <1>1, <2>1 DEF CopyState
<1>7. CASE acc.ok /\ ~(acc.out # <<>> /\ Last(acc.out).time = s.time)
  <2>1. CopySample(b, acc, s) = [ok |-> TRUE, out |-> out, left |-> left, last |-> s.power]
    BY <1>7 DEF CopySample
  <2> HIDE DEF out, left
  <2> QED BY <1>1, <1>3, <1>4, <2>1 DEF CopyState
<1> QED
  BY <1>1, <1>5, <1>6, <1>7

\* The loop of copy_trace and its states, sample after sample.
CopyLoop(b, E, seq) == FoldLeft(LAMBDA a, sample : CopySample(b, a, sample), CopyStart(E), seq)

LEMMA CopyTurns ==
    ASSUME NEW E \in FiniteInts, NEW b \in BeyondType(E), NEW seq \in Seq(SampleType)
    PROVE  \E A : /\ A[0] = CopyStart(E) /\ CopyLoop(b, E, seq) = A[Len(seq)]
                  /\ \A k \in 1..Len(seq) : A[k] = CopySample(b, A[k - 1], seq[k])
<1> DEFINE n == Len(seq)
           V == CopyState(E)
           h == [p \in V \X (1..n) |-> CopySample(b, p[1], seq[p[2]])]
           IsFold(F) == F = [s \in SUBSET (1..n) |->
                               IF s = {} THEN CopyStart(E) ELSE CopySample(b, F[s \ {Max(s)}], seq[Max(s)])]
           G == CHOOSE F : IsFold(F)
<1>1. n \in Nat /\ DOMAIN seq = 1..n /\ \A k \in 1..n : seq[k] \in SampleType
  BY LenProperties
<1>2. ASSUME NEW acc \in V, NEW k \in 1..n
      PROVE  CopySample(b, acc, seq[k]) \in V /\ h[<<acc, k>>] = CopySample(b, acc, seq[k])
  BY <1>1, CopyType
<1>3. h \in [V \X (1..n) -> V] /\ CopyStart(E) \in V
  <2>1. CopyStart(E) \in V
    BY DEF CopyStart, CopyState
  <2> QED BY <1>2, <2>1
<1>4. CopyLoop(b, E, seq) = G[1..n]
  BY <1>1 DEF CopyLoop, FoldLeft, MapThenFoldSet
<1> HIDE DEF h, V, n
<1>5. PICK F : Folds(F, n, V, CopyStart(E), h)
  BY <1>1, <1>3, FoldExists
<1>6. IsFold(F)
  BY <1>2, <1>5 DEF Folds
<1>7. IsFold(G)
  <2> HIDE DEF IsFold
  <2> QED BY <1>6
<1> DEFINE A == [k \in 0..n |-> G[1..k]]
<1>8. ASSUME NEW k \in 1..n PROVE A[k] = CopySample(b, A[k - 1], seq[k])
  <2>1. /\ Max(1..k) = k /\ (1..k) \ {Max(1..k)} = 1..(k - 1)
        /\ 1..k # {} /\ 1..k \in SUBSET (1..n)
    BY <1>1, Prefix
  <2>2. G[1..k] = CopySample(b, G[1..(k - 1)], seq[k])
    <3> HIDE DEF G
    <3> QED BY <1>7, <2>1
  <2> HIDE DEF G
  <2> QED BY <1>1, <2>2
<1>9. A[0] = CopyStart(E) /\ A[n] = G[1..n]
  <2> HIDE DEF G
  <2> QED BY <1>1, <1>7 DEF n
<1> HIDE DEF A, G, IsFold
<1> QED
  BY <1>4, <1>8, <1>9, Zenon DEF n

\* The states are states of the loop.
LEMMA CopyStates ==
    ASSUME NEW E \in FiniteInts, NEW b \in BeyondType(E), NEW seq \in Seq(SampleType),
           NEW A, A[0] = CopyStart(E), \A k \in 1..Len(seq) : A[k] = CopySample(b, A[k - 1], seq[k])
    PROVE  \A k \in 0..Len(seq) : A[k] \in CopyState(E)
<1> DEFINE n == Len(seq)
           Ok == { k \in Nat : k <= n => A[k] \in CopyState(E) }
<1>1. n \in Nat /\ \A k \in 1..n : seq[k] \in SampleType
  BY LenProperties
<1>2. 0 \in Ok
  <2>1. CopyStart(E) \in CopyState(E)
    BY DEF CopyStart, CopyState
  <2> QED BY <2>1
<1>3. ASSUME NEW k \in Nat, k \in Ok PROVE k + 1 \in Ok
  <2> SUFFICES ASSUME k + 1 <= n PROVE A[k + 1] \in CopyState(E)
    OBVIOUS
  <2>1. k + 1 \in 1..n /\ k + 1 - 1 = k /\ seq[k + 1] \in SampleType /\ A[k] \in CopyState(E)
    BY <1>1, <1>3
  <2>2. A[k + 1] = CopySample(b, A[k], seq[k + 1])
    BY <2>1
  <2> QED BY <2>1, <2>2, CopyType
<1>4. Nat \subseteq Ok
  <2> HIDE DEF Ok
  <2> QED BY <1>2, <1>3, Induction
<1> QED
  BY <1>1, <1>4

\* What is past the end of the events, of what the memory there may hold.
PastType == [time : Garbage, again : 1..2]

LEMMA BeyondEvents ==
    ASSUME NEW E, NEW past \in PastType
    PROVE  Beyond(past, E) \in BeyondType(E)
BY GarbageAssumption DEF Beyond, BeyondType, PastType

\* copy_trace by its loop, and what it gives in any case.
LEMMA CopyReads ==
    ASSUME NEW E \in FiniteInts, NEW seq \in Seq(SampleType), NEW text, NEW past \in PastType
    PROVE  LET acc == CopyLoop(Beyond(past, E), E, seq)
               read == copy_trace(text, seq, E, past)
           IN  /\ acc \in CopyState(E)
               /\ read = Read(acc.ok, text, acc.out \o Held(acc.left, acc.last))
               /\ read.text = text /\ read.ok \in BOOLEAN /\ read.samples \in Seq(SampleType)
<1> DEFINE b == Beyond(past, E)
           acc == CopyLoop(b, E, seq)
           held == Held(acc.left, acc.last)
<1>1. b \in BeyondType(E)
  BY BeyondEvents
<1>2. copy_trace(text, seq, E, past) = Read(acc.ok, text, acc.out \o held)
  BY DEF copy_trace, CopyLoop, CopyStart
<1> HIDE DEF b
<1>3. acc \in CopyState(E)
  <2>1. PICK A : /\ A[0] = CopyStart(E) /\ CopyLoop(b, E, seq) = A[Len(seq)]
                 /\ \A k \in 1..Len(seq) : A[k] = CopySample(b, A[k - 1], seq[k])
    BY <1>1, CopyTurns
  <2>2. Len(seq) \in 0..Len(seq)
    BY LenProperties
  <2> QED BY <1>1, <2>1, <2>2, CopyStates
<1> HIDE DEF acc
<1>4. acc.ok \in BOOLEAN /\ acc.out \in Seq(SampleType) /\ acc.left \in FiniteInts /\ acc.last \in Int
  BY <1>3, FS_Subset DEF CopyState, FiniteInts
<1>5. held \in Seq(SampleType)
  BY <1>4, CoversHeld DEF Covers
<1> HIDE DEF held
<1>6. acc.out \o held \in Seq(SampleType)
  BY <1>4, <1>5, ConcatProperties
<1> QED
  BY <1>2, <1>3, <1>4, <1>6 DEF Read, acc, b, held

-----------------------------------------------------------------------------
(* The files of the simv and out formats.                                     *)

LEMMA AddsSample ==
    ASSUME NEW samples \in Seq(SampleType), NEW x \in Int
    PROVE  /\ AddTime(samples, x) \in Seq(SampleType)
           /\ samples # <<>> => AddPower(samples, x) \in Seq(SampleType)
<1>1. Sample(x, 0) \in SampleType
  BY DEF Sample, SampleType
<1>2. AddTime(samples, x) \in Seq(SampleType)
  <2>1. Append(samples, Sample(x, 0)) \in Seq(SampleType)
    BY <1>1, AppendProperties
  <2> QED BY <2>1 DEF AddTime
<1>3. ASSUME samples # <<>> PROVE AddPower(samples, x) \in Seq(SampleType)
  <2> DEFINE n == Len(samples)
             last == [samples[n] EXCEPT !.power = @ + x]
  <2>1. n \in 1..n /\ samples[n] \in SampleType
    BY <1>3, LenProperties, EmptySeq
  <2>2. last \in SampleType
    BY <2>1 DEF SampleType
  <2>3. AddPower(samples, x) = [samples EXCEPT ![n] = last]
    BY DEF AddPower
  <2>4. n \in 1..Len(samples)
    BY <2>1
  <2> HIDE DEF last, n
  <2>5. [samples EXCEPT ![n] = last] \in Seq(SampleType)
    BY <2>2, <2>4, ExceptSeq
  <2> QED BY <2>3, <2>5
<1> QED
  BY <1>2, <1>3

\* What comes out of the temporary file.
LEMMA PrintedType ==
    ASSUME NEW power \in Int
    PROVE  Printed(power) \in Int
<1>1. ASSUME NEW size \in Nat PROVE Cut(size) \in Int
  <2>1. ASSUME NEW unit \in Int, unit > 0, NEW b \in {0, 1} PROVE unit * (size \div unit + b) \in Int
    <3>1. size \div unit \in Int
      BY <2>1
    <3> QED BY <3>1
  <2> DEFINE unit == IF size < 1000000 THEN 1 ELSE IF size < 10000000 THEN 10 ELSE 100
             up == \/ 2 * (size % unit) > unit
                   \/ 2 * (size % unit) = unit /\ unit > 1 /\ (size \div unit) % 2 = 1
  <2>2. Cut(size) = unit * (size \div unit + (IF up THEN 1 ELSE 0))
    BY DEF Cut
  <2>3. unit \in Int /\ unit > 0 /\ (IF up THEN 1 ELSE 0) \in {0, 1}
    OBVIOUS
  <2> HIDE DEF unit, up
  <2> QED BY <2>1, <2>2, <2>3
<1>2. CASE power >= 0
  BY <1>1, <1>2 DEF Printed
<1>3. CASE ~(power >= 0)
  <2>1. -power \in Nat
    BY <1>3
  <2>2. Cut(-power) \in Int
    BY <1>1, <2>1
  <2> QED BY <1>3, <2>2 DEF Printed
<1> QED
  BY <1>2, <1>3

LEMMA DumpedIs ==
    ASSUME NEW samples \in Seq(SampleType)
    PROVE  /\ Dumped(samples) \in Seq(SampleType) /\ Len(Dumped(samples)) = Len(samples)
           /\ \A i \in 1..Len(samples) : /\ Dumped(samples)[i].time = samples[i].time
                                        /\ Dumped(samples)[i].power = Printed(samples[i].power)
<1> DEFINE n == Len(samples)
           u == Dumped(samples)
<1>1. n \in Nat /\ DOMAIN samples = 1..n /\ \A i \in 1..n : samples[i] \in SampleType
  BY LenProperties
<1>2. u = [i \in 1..n |-> Sample(samples[i].time, Printed(samples[i].power))]
  BY <1>1 DEF Dumped
<1>3. \A i \in 1..n : /\ Sample(samples[i].time, Printed(samples[i].power)) \in SampleType
                     /\ Sample(samples[i].time, Printed(samples[i].power)).time = samples[i].time
                     /\ Sample(samples[i].time, Printed(samples[i].power)).power = Printed(samples[i].power)
  BY <1>1, PrintedType DEF Sample, SampleType
<1> HIDE DEF u, n
<1>4. u \in [1..n -> SampleType] /\ \A i \in 1..n : u[i] = Sample(samples[i].time, Printed(samples[i].power))
  BY <1>2, <1>3
<1>5. u \in Seq(SampleType) /\ Len(u) = n
  BY <1>1, <1>4
<1> QED
  BY <1>3, <1>4, <1>5 DEF u, n

RecordType == [event : Int, m : Text, c : Text]
TraceType == [record : Nat, samples : Seq(SampleType)]
ScanFields == [ok : BOOLEAN, records : Seq(RecordType), at : Nat, current : Seq(SampleType),
               traces : Seq(TraceType), events : FiniteInts, over : BOOLEAN]
Recorded(traces, n) == \A i \in 1..Len(traces) : traces[i].record \in 1..n
ScanState == { s \in ScanFields : Recorded(s.traces, Len(s.records)) }

\* Within a file there is always a record after the one a trace belongs to.
Scanning == { s \in ScanState : s.over \/ s.at \in 1..(Len(s.records) - 1) }

LEMMA ScanEventType ==
    ASSUME NEW o, NEW s \in Scanning, ~s.over, NEW time \in Int
    PROVE  ScanEvent(o, s, time) \in Scanning
<1> DEFINE start(i) == s.records[i].event
           full == time >= start(s.at + 1)
           at == IF full THEN s.at + 1 ELSE s.at
           current == IF full THEN <<>> ELSE s.current
           traces == IF full THEN Append(s.traces, [record |-> s.at, samples |-> Dumped(s.current)]) ELSE s.traces
           offset == time - start(at)
           over == full /\ (at = Len(s.records) \/ Enough(o, Len(traces)))
           new == ScanEvent(o, s, time)
<1>1. /\ s.ok \in BOOLEAN /\ s.records \in Seq(RecordType) /\ s.at \in Nat
      /\ s.current \in Seq(SampleType) /\ s.traces \in Seq(TraceType)
      /\ s.events \in FiniteInts /\ s.over = FALSE
      /\ s = [ok |-> s.ok, records |-> s.records, at |-> s.at, current |-> s.current,
              traces |-> s.traces, events |-> s.events, over |-> s.over]
      /\ Recorded(s.traces, Len(s.records))
  BY DEF Scanning, ScanState, ScanFields
<1>2. s.at \in 1..(Len(s.records) - 1) /\ Len(s.records) \in Nat
  BY LenProperties DEF Scanning, ScanState, ScanFields
<1>3. /\ traces \in Seq(TraceType) /\ Recorded(traces, Len(s.records)) /\ current \in Seq(SampleType)
      /\ at \in Nat /\ at \in 1..Len(s.records) /\ (~over => at \in 1..(Len(s.records) - 1))
  <2>1. [record |-> s.at, samples |-> Dumped(s.current)] \in TraceType
    BY <1>1, DumpedIs DEF TraceType
  <2> DEFINE grown == Append(s.traces, [record |-> s.at, samples |-> Dumped(s.current)])
  <2>2. grown \in Seq(TraceType) /\ Recorded(grown, Len(s.records))
    <3>1. /\ grown \in Seq(TraceType) /\ Len(s.traces) \in Nat /\ Len(grown) = Len(s.traces) + 1
          /\ \A i \in 1..Len(s.traces) : grown[i] = s.traces[i]
          /\ grown[Len(s.traces) + 1] = [record |-> s.at, samples |-> Dumped(s.current)]
      BY <1>1, <2>1, AppendProperties, LenProperties
    <3> HIDE DEF grown
    <3>2. \A i \in 1..Len(grown) : i \in 1..Len(s.traces) \/ i = Len(s.traces) + 1
      BY <3>1
    <3>3. s.at \in 1..Len(s.records)
      BY <1>2
    <3> QED BY <1>1, <3>1, <3>2, <3>3 DEF Recorded
  <2>3. <<>> \in Seq(SampleType)
    OBVIOUS
  <2>4. full => at = s.at + 1
    OBVIOUS
  <2>5. ~full => at = s.at
    OBVIOUS
  <2> HIDE DEF full, at
  <2> QED BY <1>1, <1>2, <2>2, <2>3, <2>4, <2>5
<1>4. offset \in Int
  <2>1. s.records[at] \in RecordType
    BY <1>1, <1>3, LenProperties
  <2>2. s.records[at].event \in Int
    BY <2>1 DEF RecordType
  <2> HIDE DEF at
  <2> QED BY <2>2
<1>5. AddTime(current, offset) \in Seq(SampleType) /\ s.events \union {offset} \in FiniteInts
  <2>1. IsFiniteSet(s.events \union {offset})
    BY <1>1, FS_AddElement DEF FiniteInts
  <2>2. s.events \union {offset} \subseteq Int
    BY <1>1, <1>4 DEF FiniteInts
  <2>3. AddTime(current, offset) \in Seq(SampleType)
    <3> HIDE DEF current, offset
    <3> QED BY <1>3, <1>4, AddsSample
  <2> QED BY <2>1, <2>2, <2>3 DEF FiniteInts
<1>6. \/ new = s
      \/ over /\ new = [s EXCEPT !.traces = traces, !.over = TRUE]
      \/ ~over /\ new = [s EXCEPT !.traces = traces, !.at = at, !.current = current]
      \/ ~over /\ new = [s EXCEPT !.traces = traces, !.at = at, !.current = AddTime(current, offset),
                                  !.events = @ \union {offset}]
  <2>1. s.records[s.at] \in RecordType
    BY <1>1, <1>2, LenProperties
  <2>2. start(s.at) \in Int
    BY <2>1 DEF RecordType
  <2>3. time < start(s.at) <=> ~(time >= start(s.at))
    <3> HIDE DEF start
    <3> QED BY <2>2
  <2> QED BY <2>3 DEF ScanEvent
<1> HIDE DEF traces, current, at, offset, over, new, full
<1>7. CASE over /\ new = [s EXCEPT !.traces = traces, !.over = TRUE]
  <2>1. new \in ScanState
    BY <1>1, <1>3, <1>7 DEF ScanState, ScanFields
  <2>2. new.over
    BY <1>1, <1>7
  <2> QED BY <2>1, <2>2 DEF Scanning, new
<1>8. CASE ~over /\ new = [s EXCEPT !.traces = traces, !.at = at, !.current = current]
  <2>1. new \in ScanState
    BY <1>1, <1>3, <1>8 DEF ScanState, ScanFields
  <2>2. new.at = at /\ new.records = s.records
    BY <1>1, <1>8
  <2> QED BY <1>3, <1>8, <2>1, <2>2 DEF Scanning, new
<1>9. CASE ~over /\ new = [s EXCEPT !.traces = traces, !.at = at, !.current = AddTime(current, offset),
                                    !.events = @ \union {offset}]
  <2>1. new \in ScanState
    BY <1>1, <1>3, <1>5, <1>9 DEF ScanState, ScanFields
  <2>2. new.at = at /\ new.records = s.records
    BY <1>1, <1>9
  <2> QED BY <1>3, <1>9, <2>1, <2>2 DEF Scanning, new
<1> QED
  BY <1>6, <1>7, <1>8, <1>9 DEF new

LEMMA ScanLineType ==
    ASSUME NEW o, NEW s \in Scanning, NEW line \in WaveLine
    PROVE  ScanLine(o, s, line) \in Scanning
<1>1. line.value \in Int
  BY DEF WaveLine
<1>2. CASE s.over
  BY <1>2 DEF ScanLine
<1>3. CASE ~s.over /\ line.kind = "event"
  <2>1. ScanLine(o, s, line) = ScanEvent(o, s, line.value)
    BY <1>3 DEF ScanLine
  <2> QED BY <1>1, <1>3, <2>1, ScanEventType
<1>4. CASE ~s.over /\ line.kind = "power" /\ s.current # <<>>
  <2>1. ScanLine(o, s, line) = [s EXCEPT !.current = AddPower(s.current, line.value)]
    BY <1>4 DEF ScanLine
  <2>2. s \in ScanState /\ s.current \in Seq(SampleType)
    BY DEF Scanning, ScanState, ScanFields
  <2>3. AddPower(s.current, line.value) \in Seq(SampleType)
    BY <1>1, <1>4, <2>2, AddsSample
  <2>4. /\ ScanLine(o, s, line) \in ScanState
        /\ ScanLine(o, s, line).at = s.at /\ ScanLine(o, s, line).records = s.records
    BY <2>1, <2>2, <2>3 DEF ScanState, ScanFields
  <2> QED BY <1>4, <2>4 DEF Scanning
<1>5. CASE ~(s.over \/ line.kind = "event" \/ (line.kind = "power" /\ s.current # <<>>))
  BY <1>5 DEF ScanLine
<1> QED
  BY <1>2, <1>3, <1>4, <1>5

\* A whole file.
ScanLines(o, base, lines) == FoldLeft(LAMBDA acc, line : ScanLine(o, acc, line), base, lines)

\* The states of the scan of a file, line after line.
LineTurns(A, o, base, lines) ==
    /\ A[0] = base /\ ScanLines(o, base, lines) = A[Len(lines)]
    /\ \A k \in 1..Len(lines) : A[k] = ScanLine(o, A[k - 1], lines[k])

LEMMA ScanTurns ==
    ASSUME NEW o, NEW base \in Scanning, NEW lines \in Seq(WaveLine)
    PROVE  \E A : LineTurns(A, o, base, lines)
<1> DEFINE n == Len(lines)
           V == Scanning
           h == [p \in V \X (1..n) |-> ScanLine(o, p[1], lines[p[2]])]
           IsFold(F) == F = [s \in SUBSET (1..n) |->
                               IF s = {} THEN base ELSE ScanLine(o, F[s \ {Max(s)}], lines[Max(s)])]
           G == CHOOSE F : IsFold(F)
<1>1. n \in Nat /\ DOMAIN lines = 1..n /\ \A k \in 1..n : lines[k] \in WaveLine
  BY LenProperties
<1>2. ASSUME NEW acc \in V, NEW k \in 1..n
      PROVE  ScanLine(o, acc, lines[k]) \in V /\ h[<<acc, k>>] = ScanLine(o, acc, lines[k])
  BY <1>1, ScanLineType
<1>3. h \in [V \X (1..n) -> V] /\ base \in V
  BY <1>2
<1>4. ScanLines(o, base, lines) = G[1..n]
  BY <1>1 DEF ScanLines, FoldLeft, MapThenFoldSet
<1> HIDE DEF h, V, n
<1>5. PICK F : Folds(F, n, V, base, h)
  BY <1>1, <1>3, FoldExists
<1>6. IsFold(F)
  BY <1>2, <1>5 DEF Folds
<1>7. IsFold(G)
  <2> HIDE DEF IsFold
  <2> QED BY <1>6
<1> DEFINE A == [k \in 0..n |-> G[1..k]]
<1>8. ASSUME NEW k \in 1..n PROVE A[k] = ScanLine(o, A[k - 1], lines[k])
  <2>1. /\ Max(1..k) = k /\ (1..k) \ {Max(1..k)} = 1..(k - 1)
        /\ 1..k # {} /\ 1..k \in SUBSET (1..n)
    BY <1>1, Prefix
  <2>2. G[1..k] = ScanLine(o, G[1..(k - 1)], lines[k])
    <3> HIDE DEF G
    <3> QED BY <1>7, <2>1
  <2> HIDE DEF G
  <2> QED BY <1>1, <2>2
<1>9. A[0] = base /\ A[n] = G[1..n]
  <2> HIDE DEF G
  <2> QED BY <1>1, <1>7 DEF n
<1> HIDE DEF A, G, IsFold
<1>10. LineTurns(A, o, base, lines)
  BY <1>4, <1>8, <1>9, Zenon DEF n, LineTurns
<1> QED
  BY <1>10, Zenon

LEMMA ScanLinesType ==
    ASSUME NEW o, NEW base \in Scanning, NEW lines \in Seq(WaveLine)
    PROVE  ScanLines(o, base, lines) \in Scanning
<1> DEFINE n == Len(lines)
<1>1. PICK A : LineTurns(A, o, base, lines)
  BY ScanTurns
<1>2. /\ n \in Nat /\ \A k \in 1..n : lines[k] \in WaveLine
      /\ A[0] = base /\ ScanLines(o, base, lines) = A[n] /\ \A k \in 1..n : A[k] = ScanLine(o, A[k - 1], lines[k])
  BY <1>1, LenProperties DEF LineTurns
<1> DEFINE Ok == { k \in Nat : k <= n => A[k] \in Scanning }
<1> HIDE DEF n
<1>3. 0 \in Ok
  BY <1>2
<1>4. ASSUME NEW k \in Nat, k \in Ok PROVE k + 1 \in Ok
  <2> SUFFICES ASSUME k + 1 <= n PROVE A[k + 1] \in Scanning
    OBVIOUS
  <2> DEFINE x == k + 1
  <2>1. x \in 1..n /\ x - 1 = k /\ A[k] \in Scanning
    BY <1>2, <1>4
  <2> HIDE DEF x
  <2>2. A[x] = ScanLine(o, A[k], lines[x]) /\ lines[x] \in WaveLine
    BY <1>2, <2>1
  <2>3. A[x] \in Scanning
    BY <2>1, <2>2, ScanLineType
  <2> QED BY <2>3 DEF x
<1>5. n \in Ok
  <2> HIDE DEF Ok
  <2> QED BY <1>2, <1>3, <1>4, Induction
<1> QED
  BY <1>2, <1>5

SimvFiles ==
    { files \in Seq([records : Seq([event : Nat, m : Text, c : Text]),
                      resolution : Nat \ {0}, lines : Seq(WaveLine)]) :
        \A f \in 2..Len(files) : Len(files[f].records) > 1 }
ScanBase == [ok |-> TRUE, records |-> <<>>, at |-> 0, current |-> <<>>,
             traces |-> <<>>, events |-> {}, over |-> FALSE]

LEMMA ScanFileType ==
    ASSUME NEW o, NEW files \in SimvFiles, NEW k \in 1..Len(files), NEW s \in ScanState,
           k = 1 => s = ScanBase
    PROVE  /\ ScanFile(o, s, files[k]) \in ScanState
           /\ read_timestamps(s, files[k]).ok => read_timestamps(s, files[k]) \in Scanning
<1> DEFINE file == files[k]
           r == file.records
           scaled == [i \in DOMAIN r |-> [r[i] EXCEPT !.event = @ \div file.resolution]]
           read == read_timestamps(s, file)
<1>1. /\ r \in Seq([event : Nat, m : Text, c : Text]) /\ file.resolution \in Nat \ {0}
      /\ file.lines \in Seq(WaveLine) /\ (k # 1 => Len(r) > 1)
  <2>1. /\ files \in Seq([records : Seq([event : Nat, m : Text, c : Text]),
                          resolution : Nat \ {0}, lines : Seq(WaveLine)])
        /\ \A f \in 2..Len(files) : Len(files[f].records) > 1
    BY DEF SimvFiles
  <2>2. file \in [records : Seq([event : Nat, m : Text, c : Text]),
                  resolution : Nat \ {0}, lines : Seq(WaveLine)]
    BY <2>1, ElementOfSeq
  <2>3. k # 1 => k \in 2..Len(files)
    BY <2>1, LenProperties
  <2> QED BY <2>1, <2>2, <2>3
<1> HIDE DEF file
<1>2. scaled \in Seq(RecordType) /\ Len(scaled) = Len(r)
  <2> DEFINE m == Len(r)
  <2>1. m \in Nat /\ DOMAIN r = 1..m /\ \A i \in 1..m : r[i] \in [event : Nat, m : Text, c : Text]
    BY <1>1, LenProperties
  <2> HIDE DEF r, m
  <2>2. ASSUME NEW i \in 1..m PROVE [r[i] EXCEPT !.event = @ \div file.resolution] \in RecordType
    <3>1. r[i] \in [event : Nat, m : Text, c : Text] /\ r[i].event \in Nat
      BY <2>1
    <3>2. r[i].event \div file.resolution \in Int
      BY <1>1, <3>1
    <3> QED BY <3>1, <3>2 DEF RecordType
  <2>3. scaled \in [1..m -> RecordType]
    BY <2>1, <2>2
  <2> HIDE DEF scaled
  <2>4. scaled \in Seq(RecordType) /\ Len(scaled) = m
    BY <2>1, <2>3
  <2> QED BY <2>4 DEF m
<1>3. /\ s.ok \in BOOLEAN /\ s.records \in Seq(RecordType) /\ Len(s.records) \in Nat /\ Len(scaled) \in Nat
      /\ s.traces \in Seq(TraceType) /\ s.events \in FiniteInts /\ Recorded(s.traces, Len(s.records))
  BY <1>2, LenProperties DEF ScanState, ScanFields
<1>4. s.records \o scaled \in Seq(RecordType) /\ Len(s.records \o scaled) = Len(s.records) + Len(scaled)
  BY <1>2, <1>3, ConcatProperties
<1>5. read = [s EXCEPT !.records = s.records \o scaled, !.at = Len(s.records) + 1, !.current = <<>>,
                       !.over = FALSE, !.ok = s.ok /\ Len(s.records) + Len(scaled) > 1]
  BY DEF read_timestamps
<1> HIDE DEF scaled, r
<1>6. /\ read \in ScanState /\ read.records = s.records \o scaled /\ read.at = Len(s.records) + 1
      /\ (read.ok => Len(s.records) + Len(scaled) > 1)
  <2> DEFINE ok == s.ok /\ Len(s.records) + Len(scaled) > 1
             at == Len(s.records) + 1
             recs == s.records \o scaled
  <2>1. ok \in BOOLEAN /\ at \in Nat /\ recs \in Seq(RecordType) /\ <<>> \in Seq(SampleType)
    BY <1>3, <1>4
  <2>2. read = [s EXCEPT !.records = recs, !.at = at, !.current = <<>>, !.over = FALSE, !.ok = ok]
    BY <1>5
  <2>3. Recorded(s.traces, Len(recs))
    <3>1. \A x \in 1..Len(s.records) : x \in 1..Len(recs)
      BY <1>3, <1>4
    <3> HIDE DEF recs
    <3> QED BY <1>3, <3>1 DEF Recorded
  <2> HIDE DEF ok, at, recs, read
  <2>4. read \in ScanState /\ read.records = recs /\ read.at = at /\ read.ok = ok
    BY <2>1, <2>2, <2>3 DEF ScanState, ScanFields
  <2> QED BY <2>4 DEF ok, at, recs
<1>7. ASSUME read.ok PROVE read \in Scanning
  <2>1. k = 1 => Len(s.records) = 0
    BY DEF ScanBase
  <2>2. Len(scaled) > 1
    <3>1. k # 1 => Len(scaled) > 1
      BY <1>1, <1>2
    <3>2. Len(s.records) + Len(scaled) > 1
      BY <1>6, <1>7
    <3> HIDE DEF read
    <3> QED BY <1>3, <2>1, <3>1, <3>2
  <2>3. read.at \in 1..(Len(read.records) - 1)
    BY <1>3, <1>4, <1>6, <2>2
  <2> QED BY <1>6, <2>3 DEF Scanning
<1>8. ASSUME read.ok
      PROVE  ScanLines(o, read, file.lines) \in ScanState
  <2> HIDE DEF read
  <2>1. ScanLines(o, read, file.lines) \in Scanning
    BY <1>1, <1>7, <1>8, ScanLinesType
  <2> QED BY <2>1 DEF Scanning
<1>9. \/ ScanFile(o, s, file) = s
      \/ ScanFile(o, s, file) = read
      \/ read.ok /\ ScanFile(o, s, file) = ScanLines(o, read, file.lines)
  BY DEF ScanFile, ScanLines
<1> HIDE DEF read
<1>10. ScanFile(o, s, file) \in ScanState
  BY <1>6, <1>8, <1>9
<1> QED
  BY <1>7, <1>10 DEF file, read

\* All files.
ScanFiles(o, files) == FoldLeft(LAMBDA acc, file : ScanFile(o, acc, file), ScanBase, files)

\* The states of the scan of the files, one after the other.
FileTurns(A, o, files) ==
    /\ A[0] = ScanBase /\ ScanFiles(o, files) = A[Len(files)]
    /\ \A k \in 0..Len(files) : A[k] \in ScanState
    /\ \A k \in 1..Len(files) : A[k] = ScanFile(o, A[k - 1], files[k])

LEMMA FilesTurns ==
    ASSUME NEW o, NEW files \in SimvFiles
    PROVE  \E A : FileTurns(A, o, files)
<1> DEFINE n == Len(files)
           V == ScanState
           Op(acc, k) == ScanFile(o, acc, files[k])
           h == [p \in V \X (1..n) |-> IF p[2] = 1 THEN Op(ScanBase, 1) ELSE Op(p[1], p[2])]
           IsFold(F) == F = [s \in SUBSET (1..n) |->
                               IF s = {} THEN ScanBase ELSE ScanFile(o, F[s \ {Max(s)}], files[Max(s)])]
           G == CHOOSE F : IsFold(F)
<1>1. n \in Nat /\ DOMAIN files = 1..n
  BY LenProperties DEF SimvFiles
<1>2. ScanBase \in V
  <2>1. {} \in FiniteInts
    BY FS_EmptySet DEF FiniteInts
  <2>2. <<>> \in Seq(RecordType) /\ <<>> \in Seq(SampleType) /\ <<>> \in Seq(TraceType)
    OBVIOUS
  <2>3. Recorded(<<>>, 0)
    BY DEF Recorded
  <2> QED BY <2>1, <2>2, <2>3 DEF ScanBase, ScanState, ScanFields
<1>3. ASSUME NEW acc \in V, NEW k \in 1..n
      PROVE  /\ k = 1 => Op(ScanBase, k) \in V /\ h[<<acc, k>>] = Op(ScanBase, k)
             /\ k # 1 => Op(acc, k) \in V /\ h[<<acc, k>>] = Op(acc, k)
  BY <1>2, ScanFileType
<1>4. h \in [V \X (1..n) -> V]
  BY <1>3
<1>5. ScanFiles(o, files) = G[1..n]
  BY <1>1 DEF ScanFiles, FoldLeft, MapThenFoldSet
<1> HIDE DEF h, V, n, Op
<1>6. PICK F : Folds(F, n, V, ScanBase, h)
  BY <1>1, <1>2, <1>4, FoldExists
<1>7. \A s \in SUBSET (1..n) : s # {} => Max(s) \in 1..n /\ (Max(s) = 1 => s \ {Max(s)} = {})
  <2> TAKE s \in SUBSET (1..n)
  <2> HAVE s # {}
  <2>1. Max(s) \in s /\ \A x \in s : x <= Max(s)
    BY <1>1, Largest
  <2>2. Max(s) = 1 => \A x \in s : x = 1
    BY <1>1, <2>1
  <2> QED BY <2>1, <2>2
<1>8. IsFold(F)
  <2>1. ASSUME NEW s \in SUBSET (1..n), s # {} PROVE F[s] = Op(F[s \ {Max(s)}], Max(s))
    <3>1. F[s] = h[<<F[s \ {Max(s)}], Max(s)>>] /\ F[s \ {Max(s)}] \in V /\ Max(s) \in 1..n /\ F[{}] = ScanBase
      BY <1>6, <2>1 DEF Folds
    <3>2. CASE Max(s) = 1
      BY <1>3, <1>7, <2>1, <3>1, <3>2
    <3>3. CASE Max(s) # 1
      BY <1>3, <3>1, <3>3
    <3> QED BY <3>2, <3>3
  <2>2. F \in [SUBSET (1..n) -> V] /\ F[{}] = ScanBase
    BY <1>6 DEF Folds
  <2> QED BY <2>1, <2>2 DEF Op
<1>9. IsFold(G)
  <2> HIDE DEF IsFold
  <2> QED BY <1>8
<1> HIDE DEF G
<1>10. G[{}] = ScanBase /\ \A s \in SUBSET (1..n) : s # {} => G[s] = Op(G[s \ {Max(s)}], Max(s))
  BY <1>9 DEF Op
<1> DEFINE A == [k \in 0..n |-> G[1..k]]
<1>11. ASSUME NEW k \in 1..n PROVE A[k] = Op(A[k - 1], k)
  <2>1. /\ Max(1..k) = k /\ (1..k) \ {Max(1..k)} = 1..(k - 1)
        /\ 1..k # {} /\ 1..k \in SUBSET (1..n)
    BY <1>1, Prefix
  <2>2. G[1..k] = Op(G[1..(k - 1)], k)
    BY <1>10, <2>1
  <2>3. k \in 0..n /\ k - 1 \in 0..n
    BY <1>1
  <2> QED BY <2>2, <2>3
<1>12. A[0] = ScanBase /\ A[n] = G[1..n]
  <2>1. 1..0 = {} /\ 0 \in 0..n /\ n \in 0..n
    BY <1>1
  <2> QED BY <1>10, <2>1
<1> HIDE DEF A, IsFold
<1>13. \A k \in 0..n : A[k] \in V
  <2> DEFINE Ok == { k \in Nat : k <= n => A[k] \in V }
  <2>1. 0 \in Ok
    BY <1>2, <1>12
  <2>2. ASSUME NEW k \in Nat, k \in Ok PROVE k + 1 \in Ok
    <3> SUFFICES ASSUME k + 1 <= n PROVE A[k + 1] \in V
      OBVIOUS
    <3> DEFINE x == k + 1
               acc == A[k]
    <3>1. x \in 1..n /\ x - 1 = k /\ acc \in V
      BY <1>1, <2>2
    <3>2. A[x] = Op(acc, x)
      <4>1. A[x] = Op(A[x - 1], x)
        BY <1>11, <3>1
      <4> QED BY <3>1, <4>1
    <3>3. x = 1 => acc = ScanBase
      BY <1>12
    <3> HIDE DEF x, acc
    <3>4. CASE x = 1
      BY <1>3, <3>1, <3>2, <3>3, <3>4 DEF x
    <3>5. CASE x # 1
      BY <1>3, <3>1, <3>2, <3>5 DEF x
    <3> QED BY <3>4, <3>5 DEF x
  <2>3. Nat \subseteq Ok
    <3> HIDE DEF Ok
    <3> QED BY <2>1, <2>2, Induction
  <2> QED BY <1>1, <2>3
<1>14. FileTurns(A, o, files)
  BY <1>5, <1>11, <1>12, <1>13 DEF FileTurns, n, V, Op
<1> QED
  BY <1>14, Zenon

LEMMA ScanFilesType ==
    ASSUME NEW o, NEW files \in SimvFiles
    PROVE  ScanFiles(o, files) \in ScanState
<1>1. PICK A : FileTurns(A, o, files)
  BY FilesTurns
<1>2. Len(files) \in 0..Len(files)
  BY LenProperties DEF SimvFiles
<1> QED
  BY <1>1, <1>2 DEF FileTurns

\* What holds of a reader that was opened.
Reads(r) ==
    /\ r.count \in Nat /\ r.events \in FiniteInts
    /\ Len(r.reads) \in Nat /\ Len(r.reads) <= r.count /\ DOMAIN r.reads = 1..Len(r.reads)
    /\ \A i \in 1..Len(r.reads) : r.reads[i].samples \in Seq(SampleType) /\ r.reads[i].text \in Text

\* A reader whose traces come from copy_trace.
CopyReader(n, E, texts, samples, past) ==
    Opened(n, E, [i \in 1..n |-> copy_trace(texts[i], samples[i], E, past)])
Copied(r, n, E, texts, samples, past) ==
    /\ Reads(r) /\ r.events = E /\ Len(r.reads) = n
    /\ \A i \in 1..n : r.reads[i] = copy_trace(texts[i], samples[i], E, past)

LEMMA CopiedReads ==
    ASSUME NEW n \in Nat, NEW E \in FiniteInts, NEW texts \in [1..n -> Text],
           NEW samples \in [1..n -> Seq(SampleType)], NEW past \in PastType
    PROVE  Copied(CopyReader(n, E, texts, samples, past), n, E, texts, samples, past)
<1> DEFINE reads == [i \in 1..n |-> copy_trace(texts[i], samples[i], E, past)]
           r == CopyReader(n, E, texts, samples, past)
<1>1. \A i \in 1..n : reads[i].samples \in Seq(SampleType) /\ reads[i].text \in Text
  <2> TAKE i \in 1..n
  <2>1. samples[i] \in Seq(SampleType) /\ texts[i] \in Text /\ reads[i] = copy_trace(texts[i], samples[i], E, past)
    OBVIOUS
  <2> HIDE DEF reads
  <2> QED BY <2>1, CopyReads
<1>2. DOMAIN reads = 1..n /\ Len(reads) = n
  <2> DEFINE op(i) == copy_trace(texts[i], samples[i], E, past)
  <2> HIDE DEF op
  <2>1. DOMAIN [i \in 1..n |-> op(i)] = 1..n /\ Len([i \in 1..n |-> op(i)]) = n
    OBVIOUS
  <2> QED BY <2>1 DEF op
<1>3. \A i \in 1..n : reads[i] = copy_trace(texts[i], samples[i], E, past)
  OBVIOUS
<1>4. r.count = n /\ r.events = E /\ r.reads = reads
  BY DEF Opened, CopyReader
<1> HIDE DEF reads, r
<1>5. Len(r.reads) = n /\ DOMAIN r.reads = 1..n /\ n <= n
  BY <1>2, <1>4
<1>6. Reads(r)
  BY <1>1, <1>4, <1>5 DEF Reads
<1> QED
  BY <1>3, <1>4, <1>5, <1>6 DEF Copied, r

\* What the readers of waveforms hand to copy_trace.
SimvText(o, s, i) == TextOf(o, s.records[s.traces[i].record])
SimvReader(r, o, files, past) ==
    LET s == ScanFiles(o, files) IN
    /\ r.events = s.events /\ Len(r.reads) = Len(s.traces)
    /\ \A i \in 1..Len(s.traces) : r.reads[i] = copy_trace(SimvText(o, s, i), s.traces[i].samples, s.events, past)

LEMMA SimvReads ==
    ASSUME NEW o, NEW files \in SimvFiles, NEW past \in PastType, OpenSimv(files, o, past).ok
    PROVE  Reads(OpenSimv(files, o, past)) /\ SimvReader(OpenSimv(files, o, past), o, files, past)
<1> DEFINE s == ScanFiles(o, files)
           n == Len(s.traces)
           texts == [i \in 1..n |-> SimvText(o, s, i)]
           samples == [i \in 1..n |-> s.traces[i].samples]
           r == OpenSimv(files, o, past)
<1>1. s \in ScanState
  BY ScanFilesType
<1>2. /\ s.traces \in Seq(TraceType) /\ s.events \in FiniteInts /\ n \in Nat /\ DOMAIN s.traces = 1..n
      /\ s.records \in Seq(RecordType) /\ Recorded(s.traces, Len(s.records))
  BY <1>1, LenProperties DEF ScanState, ScanFields
<1>3. samples \in [1..n -> Seq(SampleType)] /\ texts \in [1..n -> Text]
  <2> HIDE DEF s
  <2>1. ASSUME NEW i \in 1..n PROVE s.traces[i].samples \in Seq(SampleType) /\ SimvText(o, s, i) \in Text
    <3>1. s.traces[i] \in TraceType /\ s.traces[i].record \in 1..Len(s.records)
      BY <1>2, ElementOfSeq DEF Recorded
    <3>2. s.records[s.traces[i].record] \in RecordType
      BY <1>2, <3>1, ElementOfSeq
    <3> QED BY <3>1, <3>2 DEF TraceType, RecordType, SimvText, TextOf
  <2> HIDE DEF n
  <2> QED BY <2>1
<1>4. r = Opened(n, s.events, [i \in 1..n |-> copy_trace(TextOf(o, s.records[s.traces[i].record]), s.traces[i].samples, s.events, past)])
  <2>1. ~NotOpened.ok
    BY DEF NotOpened
  <2> QED BY <1>2, <2>1 DEF OpenSimv, ScanFiles, ScanBase
<1>5. \A i \in 1..n : /\ texts[i] = SimvText(o, s, i) /\ SimvText(o, s, i) = TextOf(o, s.records[s.traces[i].record])
                      /\ samples[i] = s.traces[i].samples
  BY DEF SimvText
<1>6. r = Opened(n, s.events, [i \in 1..n |-> copy_trace(texts[i], samples[i], s.events, past)])
  <2> HIDE DEF texts, samples, s, n
  <2> QED BY <1>4, <1>5
<1> HIDE DEF texts, samples, s, n, r
<1>7. /\ Reads(r) /\ r.events = s.events /\ Len(r.reads) = n
      /\ \A i \in 1..n : r.reads[i] = copy_trace(texts[i], samples[i], s.events, past)
  <2>1. r = CopyReader(n, s.events, texts, samples, past)
    BY <1>6 DEF CopyReader
  <2>2. Copied(CopyReader(n, s.events, texts, samples, past), n, s.events, texts, samples, past)
    BY <1>2, <1>3, CopiedReads
  <2> QED BY <2>1, <2>2 DEF Copied
<1>8. \A i \in 1..n : r.reads[i] = copy_trace(SimvText(o, s, i), s.traces[i].samples, s.events, past)
  BY <1>5, <1>7
<1> QED
  BY <1>7, <1>8 DEF r, SimvReader, n, s

OutState == [ok : BOOLEAN, samples : Seq(SampleType), events : FiniteInts, over : BOOLEAN]
OutBase == [ok |-> TRUE, samples |-> <<>>, events |-> {}, over |-> FALSE]
OutFileType == [m : Text, lines : Seq(WaveLine)]
OutScan(o, lines) == FoldLeft(LAMBDA acc, line : OutLine(o, acc, line), OutBase, lines)

LEMMA OutLineType ==
    ASSUME NEW o, NEW s \in OutState, NEW line \in WaveLine
    PROVE  OutLine(o, s, line) \in OutState
<1>1. /\ line.value \in Int /\ s.samples \in Seq(SampleType) /\ s.events \in FiniteInts
  BY DEF WaveLine, OutState
<1>2. s.events \union {line.value} \in FiniteInts
  <2>1. IsFiniteSet(s.events \union {line.value})
    BY <1>1, FS_AddElement DEF FiniteInts
  <2> QED BY <1>1, <2>1 DEF FiniteInts
<1>3. /\ AddTime(s.samples, line.value) \in Seq(SampleType)
      /\ s.samples # <<>> => AddPower(s.samples, line.value) \in Seq(SampleType)
  BY <1>1, AddsSample
<1> DEFINE over == o.max_time # 0 /\ line.value > o.max_time /\ (o.min_time # 0 => line.value >= o.min_time)
           new == OutLine(o, s, line)
<1>4. \/ new = s
      \/ new = [s EXCEPT !.over = TRUE]
      \/ new = [s EXCEPT !.over = TRUE, !.ok = FALSE]
      \/ s.samples # <<>> /\ new = [s EXCEPT !.samples = AddPower(s.samples, line.value)]
      \/ new = [s EXCEPT !.samples = AddTime(s.samples, line.value), !.events = s.events \union {line.value}]
      \/ new = [s EXCEPT !.over = over]
  BY DEF OutLine
<1>5. over \in BOOLEAN
  OBVIOUS
<1> HIDE DEF over, new
<1>6. new \in OutState
  <2>1. CASE s.samples # <<>> /\ new = [s EXCEPT !.samples = AddPower(s.samples, line.value)]
    BY <1>3, <2>1 DEF OutState
  <2>2. CASE new = [s EXCEPT !.samples = AddTime(s.samples, line.value), !.events = s.events \union {line.value}]
    BY <1>2, <1>3, <2>2 DEF OutState
  <2>3. CASE \/ new = s
             \/ new = [s EXCEPT !.over = TRUE]
             \/ new = [s EXCEPT !.over = TRUE, !.ok = FALSE]
             \/ new = [s EXCEPT !.over = over]
    BY <1>5, <2>3 DEF OutState
  <2> QED BY <1>4, <2>1, <2>2, <2>3
<1> QED
  BY <1>6 DEF new

\* The states of the scan of a file, line after line.
OutTurns(A, o, lines) ==
    /\ A[0] = OutBase /\ OutScan(o, lines) = A[Len(lines)]
    /\ \A k \in 0..Len(lines) : A[k] \in OutState
    /\ \A k \in 1..Len(lines) : A[k] = OutLine(o, A[k - 1], lines[k])

LEMMA OutScanTurns ==
    ASSUME NEW o, NEW lines \in Seq(WaveLine)
    PROVE  \E A : OutTurns(A, o, lines)
<1> DEFINE n == Len(lines)
           V == OutState
           h == [p \in V \X (1..n) |-> OutLine(o, p[1], lines[p[2]])]
           IsFold(F) == F = [s \in SUBSET (1..n) |->
                               IF s = {} THEN OutBase ELSE OutLine(o, F[s \ {Max(s)}], lines[Max(s)])]
           G == CHOOSE F : IsFold(F)
<1>1. n \in Nat /\ DOMAIN lines = 1..n /\ \A k \in 1..n : lines[k] \in WaveLine
  BY LenProperties
<1>2. ASSUME NEW acc \in V, NEW k \in 1..n
      PROVE  OutLine(o, acc, lines[k]) \in V /\ h[<<acc, k>>] = OutLine(o, acc, lines[k])
  BY <1>1, OutLineType
<1>3. h \in [V \X (1..n) -> V] /\ OutBase \in V
  <2>1. {} \in FiniteInts
    BY FS_EmptySet DEF FiniteInts
  <2>2. OutBase \in V
    BY <2>1 DEF OutBase, OutState
  <2> QED BY <1>2, <2>2
<1>4. OutScan(o, lines) = G[1..n]
  BY <1>1 DEF OutScan, FoldLeft, MapThenFoldSet
<1> HIDE DEF h, V, n
<1>5. PICK F : Folds(F, n, V, OutBase, h)
  BY <1>1, <1>3, FoldExists
<1>6. IsFold(F)
  BY <1>2, <1>5 DEF Folds
<1>7. IsFold(G)
  <2> HIDE DEF IsFold
  <2> QED BY <1>6
<1> DEFINE A == [k \in 0..n |-> G[1..k]]
<1>8. ASSUME NEW k \in 1..n PROVE A[k] = OutLine(o, A[k - 1], lines[k])
  <2>1. /\ Max(1..k) = k /\ (1..k) \ {Max(1..k)} = 1..(k - 1)
        /\ 1..k # {} /\ 1..k \in SUBSET (1..n)
    BY <1>1, Prefix
  <2>2. G[1..k] = OutLine(o, G[1..(k - 1)], lines[k])
    <3> HIDE DEF G
    <3> QED BY <1>7, <2>1
  <2> HIDE DEF G
  <2> QED BY <1>1, <2>2
<1>9. A[0] = OutBase /\ A[n] = G[1..n]
  <2> HIDE DEF G
  <2> QED BY <1>1, <1>7 DEF n
<1> HIDE DEF A, G, IsFold
<1>10. \A k \in 0..n : A[k] \in V
  <2> DEFINE Ok == { k \in Nat : k <= n => A[k] \in V }
  <2>1. 0 \in Ok
    BY <1>3, <1>9
  <2>2. ASSUME NEW k \in Nat, k \in Ok PROVE k + 1 \in Ok
    <3> SUFFICES ASSUME k + 1 <= n PROVE A[k + 1] \in V
      OBVIOUS
    <3> DEFINE x == k + 1
    <3>1. x \in 1..n /\ x - 1 = k /\ A[k] \in V
      BY <1>1, <2>2
    <3> HIDE DEF x
    <3>2. A[x] = OutLine(o, A[k], lines[x])
      BY <1>8, <3>1
    <3> QED BY <1>2, <3>1, <3>2 DEF x
  <2>3. Nat \subseteq Ok
    <3> HIDE DEF Ok
    <3> QED BY <2>1, <2>2, Induction
  <2> QED BY <1>1, <2>3
<1>11. OutTurns(A, o, lines)
  BY <1>4, <1>8, <1>9, <1>10, Zenon DEF n, V, OutTurns
<1> QED
  BY <1>11, Zenon

LEMMA OutScanType ==
    ASSUME NEW o, NEW lines \in Seq(WaveLine)
    PROVE  OutScan(o, lines) \in OutState
<1>1. PICK A : OutTurns(A, o, lines)
  BY OutScanTurns
<1>2. Len(lines) \in 0..Len(lines)
  BY LenProperties
<1> QED
  BY <1>1, <1>2 DEF OutTurns

\* The events of finitely many files.
LEMMA AllEvents ==
    ASSUME NEW n \in Nat, NEW E \in [1..n -> FiniteInts]
    PROVE  UNION { E[i] : i \in 1..n } \in FiniteInts
<1> DEFINE S == { E[i] : i \in 1..n }
<1>1. IsFiniteSet(S)
  <2>1. E \in Surjection(1..n, S)
    BY DEF Surjection
  <2>2. IsFiniteSet(1..n)
    BY FS_Interval
  <2> HIDE DEF S
  <2> QED BY <2>1, <2>2, FS_Surjection
<1>2. \A T \in S : IsFiniteSet(T) /\ T \subseteq Int
  BY DEF FiniteInts
<1>3. UNION S \subseteq Int
  BY <1>2
<1>4. IsFiniteSet(UNION S)
  <2> HIDE DEF S
  <2> QED BY <1>1, <1>2, FS_UNION
<1> QED
  BY <1>3, <1>4 DEF FiniteInts

OutEvents(o, files) == UNION { OutScan(o, files[i].lines).events : i \in 1..Len(files) }
OutReader(r, o, files, past) ==
    /\ r.events = OutEvents(o, files) /\ OutEvents(o, files) \in FiniteInts /\ Len(r.reads) = Len(files)
    /\ \A i \in 1..Len(files) :
          r.reads[i] = copy_trace(files[i].m, OutScan(o, files[i].lines).samples, OutEvents(o, files), past)

LEMMA OutReads ==
    ASSUME NEW o, NEW files \in Seq(OutFileType), NEW past \in PastType, OpenOut(files, o, past).ok
    PROVE  Reads(OpenOut(files, o, past)) /\ OutReader(OpenOut(files, o, past), o, files, past)
<1> DEFINE n == Len(files)
           texts == [i \in 1..n |-> files[i].m]
           scan(i) == OutScan(o, files[i].lines)
           samples == [i \in 1..n |-> scan(i).samples]
           E == [i \in 1..n |-> scan(i).events]
           events == UNION { E[i] : i \in 1..n }
           r == OpenOut(files, o, past)
<1>1. n \in Nat /\ DOMAIN files = 1..n
  BY LenProperties
<1>2. ASSUME NEW i \in 1..n
      PROVE  scan(i).samples \in Seq(SampleType) /\ scan(i).events \in FiniteInts /\ files[i].m \in Text
  <2>1. files[i] \in OutFileType
    BY ElementOfSeq
  <2>2. files[i].lines \in Seq(WaveLine) /\ files[i].m \in Text
    BY <2>1 DEF OutFileType
  <2>3. scan(i) \in OutState
    BY <2>2, OutScanType
  <2> HIDE DEF scan
  <2> QED BY <2>2, <2>3 DEF OutState
<1>3. r = Opened(n, UNION { scan(i).events : i \in 1..n },
                 [i \in 1..n |-> copy_trace(files[i].m, scan(i).samples, UNION { scan(j).events : j \in 1..n }, past)])
  <2>1. ~NotOpened.ok
    BY DEF NotOpened
  <2> QED BY <1>1, <2>1 DEF OpenOut, OutScan, OutBase
<1>4. OutEvents(o, files) = UNION { scan(i).events : i \in 1..n }
  BY DEF OutEvents
<1> HIDE DEF scan, n, r
<1>5. samples \in [1..n -> Seq(SampleType)] /\ E \in [1..n -> FiniteInts] /\ texts \in [1..n -> Text]
  BY <1>2
<1>6. UNION { scan(i).events : i \in 1..n } = events
  BY Zenon
<1>7. \A i \in 1..n : texts[i] = files[i].m /\ samples[i] = scan(i).samples
  OBVIOUS
<1>8. r = Opened(n, events, [i \in 1..n |-> copy_trace(texts[i], samples[i], events, past)])
  <2> HIDE DEF events, texts, samples
  <2> QED BY <1>3, <1>6, <1>7
<1> HIDE DEF E, samples, texts
<1>9. events \in FiniteInts
  BY <1>1, <1>5, AllEvents
<1> HIDE DEF events
<1>10. /\ Reads(r) /\ r.events = events /\ Len(r.reads) = n
       /\ \A i \in 1..n : r.reads[i] = copy_trace(texts[i], samples[i], events, past)
  <2>1. r = CopyReader(n, events, texts, samples, past)
    BY <1>8 DEF CopyReader
  <2>2. Copied(CopyReader(n, events, texts, samples, past), n, events, texts, samples, past)
    BY <1>1, <1>5, <1>9, CopiedReads
  <2> QED BY <2>1, <2>2 DEF Copied
<1>11. \A i \in 1..n : r.reads[i] = copy_trace(files[i].m, scan(i).samples, events, past)
  BY <1>7, <1>10
<1> QED
  BY <1>4, <1>6, <1>9, <1>10, <1>11 DEF r, OutReader, n, scan

-----------------------------------------------------------------------------
(* The readers without event lines.                                           *)

LEMMA LimitedType ==
    ASSUME NEW o, o.num_traces \in Nat, NEW n \in Nat
    PROVE  Limited(o, n) \in 0..n /\ (n # 0 => Limited(o, n) # 0)
<1>1. CASE o.num_traces = 0
  BY <1>1 DEF Limited
<1>2. CASE o.num_traces # 0
  <2>1. Limited(o, n) = Min({n, o.num_traces})
    BY <1>2 DEF Limited
  <2>2. Min({n, o.num_traces}) \in {n, o.num_traces} /\ \A x \in {n, o.num_traces} : Min({n, o.num_traces}) <= x
    <3>1. {n, o.num_traces} \subseteq Nat /\ {n, o.num_traces} # {}
      OBVIOUS
    <3> QED BY <3>1, Smallest
  <2>3. Min({n, o.num_traces}) <= n
    BY <2>2
  <2> QED BY <1>2, <2>1, <2>2, <2>3
<1> QED
  BY <1>1, <1>2

\* The samples of a waveform with their numbers.
Numbered(wave) == [i \in DOMAIN wave |-> Sample(i - 1, wave[i])]

LEMMA NumberedType ==
    ASSUME NEW wave \in Seq(Int)
    PROVE  Numbered(wave) \in Seq(SampleType)
<1> DEFINE n == Len(wave)
<1>1. n \in Nat /\ DOMAIN wave = 1..n /\ \A i \in 1..n : wave[i] \in Int
  BY LenProperties
<1> HIDE DEF n
<1>2. \A i \in 1..n : Sample(i - 1, wave[i]) \in SampleType
  BY <1>1 DEF Sample, SampleType
<1>3. Numbered(wave) \in [1..n -> SampleType]
  BY <1>1, <1>2 DEF Numbered
<1> QED
  BY <1>1, <1>3

LEMMA IndexedType ==
    ASSUME NEW o, NEW wave \in Seq(Int)
    PROVE  Indexed(wave, o) \in Seq(SampleType)
<1>1. Indexed(wave, o) = Windowed(o, Numbered(wave))
  BY DEF Indexed, Numbered
<1> QED
  BY <1>1, NumberedType, WindowedSeq

ContestFile == [k : Nat, m : Text, c : Text, valid : BOOLEAN, wave : Seq(Int)]
Mine(o, files) == FoldLeft(LAMBDA acc, f : IF f.k = o.key THEN Append(acc, f) ELSE acc, <<>>, files)

LEMMA MineType ==
    ASSUME NEW o, NEW files \in Seq(ContestFile)
    PROVE  Mine(o, files) \in Seq(ContestFile)
<1> DEFINE n == Len(files)
           V == Seq(ContestFile)
           Op(acc, f) == IF f.k = o.key THEN Append(acc, f) ELSE acc
           h == [p \in V \X (1..n) |-> Op(p[1], files[p[2]])]
           IsFold(F) == F = [s \in SUBSET (1..n) |->
                               IF s = {} THEN <<>> ELSE Op(F[s \ {Max(s)}], files[Max(s)])]
           G == CHOOSE F : IsFold(F)
<1>1. n \in Nat /\ DOMAIN files = 1..n /\ \A k \in 1..n : files[k] \in ContestFile
  BY LenProperties
<1>2. ASSUME NEW acc \in V, NEW k \in 1..n PROVE Op(acc, files[k]) \in V /\ h[<<acc, k>>] = Op(acc, files[k])
  BY <1>1, AppendProperties
<1>3. h \in [V \X (1..n) -> V] /\ <<>> \in V
  BY <1>2
<1>4. Mine(o, files) = G[1..n]
  BY <1>1 DEF Mine, FoldLeft, MapThenFoldSet
<1> HIDE DEF h, V, n, Op
<1>5. PICK F : Folds(F, n, V, <<>>, h)
  BY <1>1, <1>3, FoldExists
<1>6. IsFold(F)
  BY <1>2, <1>5 DEF Folds
<1>7. IsFold(G)
  <2> HIDE DEF IsFold
  <2> QED BY <1>6
<1>8. \A s \in SUBSET (1..n) : s # {} => Max(s) \in 1..n
  BY <1>1, Largest
<1> HIDE DEF G
<1>9. G[{}] = <<>> /\ \A s \in SUBSET (1..n) : s # {} => G[s] = Op(G[s \ {Max(s)}], files[Max(s)])
  BY <1>7
<1>10. ASSUME NEW s \in SUBSET (1..n), s # {}, G[s \ {Max(s)}] \in V PROVE G[s] \in V
  BY <1>2, <1>8, <1>9, <1>10
<1>11. G[1..n] \in V
  BY <1>1, <1>3, <1>9, <1>10, FoldStays
<1> QED
  BY <1>4, <1>11 DEF V

\* The samples numbered from zero.
LEMMA FromZero ==
    ASSUME NEW n \in Nat
    PROVE  0..(n - 1) \in FiniteInts
<1>1. IsFiniteSet(0..(n - 1)) /\ 0..(n - 1) \subseteq Int
  BY FS_Interval
<1> QED
  BY <1>1 DEF FiniteInts

LEMMA ContestReads ==
    ASSUME NEW o, o.num_traces \in Nat, NEW files \in Seq(ContestFile), OpenContest(files, o).ok
    PROVE  Reads(OpenContest(files, o))
<1> DEFINE mine == Mine(o, files)
           m == Len(mine)
           n == Limited(o, m)
           wanted == SubSeq(mine, 1, n)
           samples(f) == IF f.valid THEN Indexed(f.wave, o) ELSE <<>>
           events == 0..(Len(samples(wanted[1])) - 1)
           reads == [i \in 1..n |-> Read(wanted[i].valid, TextOf(o, wanted[i]), samples(wanted[i]))]
           r == OpenContest(files, o)
<1>1. mine \in Seq(ContestFile) /\ m \in Nat
  BY MineType, LenProperties
<1>2. mine # <<>> /\ r = Opened(Len(wanted), events, [i \in DOMAIN wanted |->
                           Read(wanted[i].valid, TextOf(o, wanted[i]), samples(wanted[i]))])
  <2>1. ~NotOpened.ok
    BY DEF NotOpened
  <2> QED BY <2>1 DEF OpenContest, Mine
<1> HIDE DEF mine, r
<1>3. m # 0
  BY <1>1, <1>2
<1>4. n \in 0..m /\ n # 0
  BY <1>1, <1>3, LimitedType
<1> HIDE DEF m, n
<1>5. wanted \in Seq(ContestFile) /\ Len(wanted) = n /\ DOMAIN wanted = 1..n
  <2>1. 1 \in Int /\ n \in 0..Len(mine)
    BY <1>4 DEF m
  <2>2. /\ SubSeq(mine, 1, n) \in Seq(ContestFile)
        /\ Len(SubSeq(mine, 1, n)) = n
    BY <1>1, <1>4 DEF m
  <2> QED BY <2>2, LenProperties
<1> HIDE DEF wanted
<1>6. ASSUME NEW i \in 1..n PROVE samples(wanted[i]) \in Seq(SampleType)
  <2>1. wanted[i] \in ContestFile
    BY <1>5, ElementOfSeq
  <2>2. wanted[i].wave \in Seq(Int)
    BY <2>1 DEF ContestFile
  <2>3. Indexed(wanted[i].wave, o) \in Seq(SampleType) /\ <<>> \in Seq(SampleType)
    BY <2>2, IndexedType
  <2> QED BY <2>3
<1>7. events \in FiniteInts
  <2>1. 1 \in 1..n
    BY <1>4, <1>1
  <2>2. Len(samples(wanted[1])) \in Nat
    <3> HIDE DEF samples
    <3> QED BY <1>6, <2>1, LenProperties
  <2> HIDE DEF samples
  <2> QED BY <2>2, FromZero
<1>8. \A i \in 1..n : reads[i].samples \in Seq(SampleType) /\ reads[i].text \in Text
  <2>1. ASSUME NEW i \in 1..n PROVE TextOf(o, wanted[i]) \in Text
    <3>1. wanted[i] \in ContestFile
      BY <1>5, ElementOfSeq
    <3> QED BY <3>1 DEF ContestFile, TextOf
  <2> HIDE DEF samples
  <2> QED BY <1>6, <2>1 DEF Read
<1>9. DOMAIN reads = 1..n /\ Len(reads) = n
  <2> DEFINE op(i) == Read(wanted[i].valid, TextOf(o, wanted[i]), samples(wanted[i]))
  <2> HIDE DEF op
  <2>1. DOMAIN [i \in 1..n |-> op(i)] = 1..n /\ Len([i \in 1..n |-> op(i)]) = n
    BY <1>4, <1>1
  <2> QED BY <2>1 DEF op
<1>10. r = Opened(n, events, reads)
  BY <1>2, <1>5
<1> HIDE DEF reads, events
<1>11. r.count = n /\ r.events = events /\ r.reads = reads
  BY <1>10 DEF Opened
<1>12. n \in Nat /\ n <= n
  BY <1>1, <1>4
<1>13. /\ Len(r.reads) = n /\ DOMAIN r.reads = 1..n
       /\ \A i \in 1..n : r.reads[i].samples \in Seq(SampleType) /\ r.reads[i].text \in Text
  BY <1>8, <1>9, <1>11
<1> QED
  BY <1>7, <1>11, <1>12, <1>13 DEF Reads, r

\* A list given by its elements.
LEMMA Listed ==
    ASSUME NEW n \in Nat, NEW f
    PROVE  /\ Len([i \in 1..n |-> f[i]]) = n /\ DOMAIN [i \in 1..n |-> f[i]] = 1..n
OBVIOUS

\* The lines of texts, of which none is empty.
LEMMA UntilEmptyIs ==
    ASSUME NEW texts \in Seq(Seq(Nat))
    PROVE  /\ UntilEmpty(texts) \in Seq(Text)
           /\ (\A i \in 1..Len(texts) : texts[i] # <<>>) => UntilEmpty(texts) = texts
<1> DEFINE n == Len(texts)
           empty == {i \in 1..n : texts[i] = <<>>}
<1>1. n \in Nat /\ DOMAIN texts = 1..n /\ \A i \in 1..n : texts[i] \in Seq(Nat)
  BY LenProperties, ElementOfSeq
<1>2. UntilEmpty(texts) = IF empty = {} THEN texts ELSE SubSeq(texts, 1, Min(empty) - 1)
  BY <1>1 DEF UntilEmpty
<1>3. CASE empty = {}
  <2>1. \A i \in 1..n : texts[i] \in Text
    BY <1>1, <1>3 DEF Text
  <2>2. texts \in Seq(Text)
    BY <1>1, <2>1
  <2> QED BY <1>2, <1>3, <2>2
<1>4. CASE empty # {}
  <2> DEFINE m == Min(empty)
             u == SubSeq(texts, 1, m - 1)
  <2>1. m \in empty /\ \A i \in empty : m <= i
    <3>1. empty \subseteq Nat
      BY <1>1
    <3> HIDE DEF empty
    <3> QED BY <1>4, <3>1, Smallest
  <2>2. m \in 1..n /\ m - 1 \in 0..n /\ \A i \in 1..(m - 1) : i \in 1..n /\ texts[i] # <<>>
    <3> HIDE DEF m
    <3>1. m \in 1..n
      BY <2>1
    <3>2. \A i \in 1..(m - 1) : i \in 1..n /\ ~(m <= i)
      BY <1>1, <3>1
    <3> QED BY <1>1, <2>1, <3>1, <3>2
  <2> HIDE DEF m
  <2>3. \A i \in 1..(m - 1) : texts[i] \in Text
    BY <1>1, <2>2 DEF Text
  <2>4. 1 \in Int /\ m - 1 \in Int
    BY <2>2
  <2>5. u \in Seq(Text)
    BY <2>3, <2>4, SubSeqProperties
  <2> HIDE DEF u
  <2>6. UntilEmpty(texts) = u
    BY <1>2, <1>4 DEF u, m
  <2>7. \E i \in 1..n : texts[i] = <<>>
    BY <2>1
  <2> QED BY <2>5, <2>6, <2>7
<1> QED
  BY <1>3, <1>4

\* What the readers of the formats the tool writes give, whatever they read.
LEMMA V3Opened ==
    ASSUME NEW o, NEW dir, Len(UntilEmpty(TextOf(o, dir))) \in Nat, Len(dir.waves) \in Nat,
           ~(o.ciphertext /\ ~dir.both)
    PROVE  LET r == OpenV3(dir, o)
               n == Len(r.reads)
           IN  /\ r.ok /\ r.count = Len(UntilEmpty(TextOf(o, dir)))
               /\ n \in Nat /\ DOMAIN r.reads = 1..n
               /\ n = Min({Len(UntilEmpty(TextOf(o, dir))), Len(dir.waves)})
               /\ n <= Len(UntilEmpty(TextOf(o, dir))) /\ n <= Len(dir.waves)
               /\ r.events = IF dir.waves = <<>> THEN {} ELSE 0..(Len(dir.waves[1]) - 1)
               /\ \A i \in 1..n : r.reads[i] = Read(TRUE, UntilEmpty(TextOf(o, dir))[i], Indexed(dir.waves[i], o))
<1> DEFINE r == OpenV3(dir, o)
           a == Len(UntilEmpty(TextOf(o, dir)))
           b == Len(dir.waves)
           n == Min({a, b})
           f == [i \in 1..n |-> Read(TRUE, UntilEmpty(TextOf(o, dir))[i], Indexed(dir.waves[i], o))]
<1>1. n \in Nat /\ n <= a /\ n <= b
  <2>1. {a, b} \subseteq Nat /\ {a, b} # {}
    OBVIOUS
  <2> HIDE DEF a, b
  <2> QED BY <2>1, Smallest
<1>2. r = Opened(a, IF dir.waves = <<>> THEN {} ELSE 0..(Len(dir.waves[1]) - 1), f)
  BY DEF OpenV3
<1> HIDE DEF n, r
<1>3. Len(f) = n /\ DOMAIN f = 1..n
  <2> DEFINE op(i) == Read(TRUE, UntilEmpty(TextOf(o, dir))[i], Indexed(dir.waves[i], o))
  <2> HIDE DEF op
  <2>1. DOMAIN [i \in 1..n |-> op(i)] = 1..n /\ Len([i \in 1..n |-> op(i)]) = n
    BY <1>1
  <2> QED BY <2>1 DEF op
<1>4. \A i \in 1..n : f[i] = Read(TRUE, UntilEmpty(TextOf(o, dir))[i], Indexed(dir.waves[i], o))
  OBVIOUS
<1> HIDE DEF f
<1>5. /\ r.ok /\ r.count = a /\ r.reads = f
      /\ r.events = IF dir.waves = <<>> THEN {} ELSE 0..(Len(dir.waves[1]) - 1)
  BY <1>2 DEF Opened
<1>6. /\ Len(r.reads) = n /\ DOMAIN r.reads = 1..n
      /\ \A i \in 1..n : r.reads[i] = Read(TRUE, UntilEmpty(TextOf(o, dir))[i], Indexed(dir.waves[i], o))
  BY <1>3, <1>4, <1>5
<1> QED
  BY <1>1, <1>5, <1>6 DEF r, n

SqliteReader(r, o, rows) ==
    /\ r.ok /\ r.count = Len(rows) /\ r.events = {}
    /\ Len(r.reads) = Len(rows) /\ DOMAIN r.reads = 1..Len(rows)
    /\ \A i \in 1..Len(rows) : r.reads[i] = Read(TRUE, rows[i].text, Indexed(rows[i].wave, o))

LEMMA SqliteOpened ==
    ASSUME NEW o, NEW rows, Len(rows) \in Nat, DOMAIN rows = 1..Len(rows)
    PROVE  SqliteReader(OpenSqlite(rows, o), o, rows)
<1> DEFINE r == OpenSqlite(rows, o)
           n == Len(rows)
           f == [i \in 1..n |-> Read(TRUE, rows[i].text, Indexed(rows[i].wave, o))]
<1>1. n \in Nat
  OBVIOUS
<1>2. r = Opened(n, {}, f)
  BY DEF OpenSqlite
<1> HIDE DEF n, r
<1>3. Len(f) = n /\ DOMAIN f = 1..n
  <2> DEFINE op(i) == Read(TRUE, rows[i].text, Indexed(rows[i].wave, o))
  <2> HIDE DEF op
  <2>1. DOMAIN [i \in 1..n |-> op(i)] = 1..n /\ Len([i \in 1..n |-> op(i)]) = n
    BY <1>1
  <2> QED BY <2>1 DEF op
<1>4. \A i \in 1..n : f[i] = Read(TRUE, rows[i].text, Indexed(rows[i].wave, o))
  OBVIOUS
<1> HIDE DEF f
<1>5. r.ok /\ r.count = n /\ r.reads = f /\ r.events = {}
  BY <1>2 DEF Opened
<1> QED
  BY <1>3, <1>4, <1>5 DEF SqliteReader, r, n

ShownTimes(o, file) == {e \in Range(file.times) : InWindow(o, e)}

PackedReader(r, o, file, garbage) ==
    LET n == Limited(o, file.ntraces) IN
    /\ r.ok /\ r.count = n /\ n \in 0..file.ntraces
    /\ r.events = ShownTimes(o, file)
    /\ Len(r.reads) = n /\ DOMAIN r.reads = 1..n
    /\ \A i \in 1..n : r.reads[i] = Read(TRUE, file.body[i].text,
           PackedSamples(file.times, file.body[i].powers, o, garbage[i]))

LEMMA PackedOpened ==
    ASSUME NEW o, o.num_traces \in Nat, NEW file, file.ntraces \in Nat, NEW garbage
    PROVE  PackedReader(OpenPacked(file, o, garbage), o, file, garbage)
<1> DEFINE r == OpenPacked(file, o, garbage)
           n == Limited(o, file.ntraces)
           E == ShownTimes(o, file)
           f == [i \in 1..n |-> Read(TRUE, file.body[i].text,
                                   PackedSamples(file.times, file.body[i].powers, o, garbage[i]))]
<1>1. n \in 0..file.ntraces /\ n \in Nat
  BY LimitedType
<1>2. r = Opened(n, E, f)
  BY DEF OpenPacked, ShownTimes
<1> HIDE DEF n, r, E
<1>3. Len(f) = n /\ DOMAIN f = 1..n
  <2> DEFINE op(i) == Read(TRUE, file.body[i].text, PackedSamples(file.times, file.body[i].powers, o, garbage[i]))
  <2> HIDE DEF op
  <2>1. DOMAIN [i \in 1..n |-> op(i)] = 1..n /\ Len([i \in 1..n |-> op(i)]) = n
    BY <1>1
  <2> QED BY <2>1 DEF op
<1>4. \A i \in 1..n : f[i] = Read(TRUE, file.body[i].text,
                                   PackedSamples(file.times, file.body[i].powers, o, garbage[i]))
  OBVIOUS
<1> HIDE DEF f
<1>5. r.ok /\ r.count = n /\ r.reads = f /\ r.events = E
  BY <1>2 DEF Opened
<1>6. /\ Len(r.reads) = n /\ DOMAIN r.reads = 1..n
      /\ \A i \in 1..n : r.reads[i] = Read(TRUE, file.body[i].text,
                                   PackedSamples(file.times, file.body[i].powers, o, garbage[i]))
  BY <1>3, <1>4, <1>5
<1> QED
  BY <1>1, <1>5, <1>6 DEF PackedReader, r, n, E

\* A[k] is what the loop of packed has after k of the times.
PackedLoop(o, g, times, powers, A) ==
    /\ A[0] = [time |-> g, out |-> <<>>]
    /\ PackedSamples(times, powers, o, g) = A[Len(times)].out
    /\ \A k \in 1..Len(times) :
          A[k] = IF InWindow(o, A[k - 1].time)
                 THEN [time |-> times[k], out |-> Append(A[k - 1].out, Sample(times[k], powers[k]))]
                 ELSE A[k - 1]

LEMMA PackedTurns ==
    ASSUME NEW o, NEW g \in Int, NEW times \in Seq(Int), NEW powers,
           \A i \in 1..Len(times) : powers[i] \in Int
    PROVE  \E A : PackedLoop(o, g, times, powers, A)
<1> DEFINE n == Len(times)
           base == [time |-> g, out |-> <<>>]
           V == [time : Int, out : Seq(SampleType)]
           Op(acc, i) == IF InWindow(o, acc.time)
                         THEN [time |-> times[i], out |-> Append(acc.out, Sample(times[i], powers[i]))]
                         ELSE acc
           ids == [i \in DOMAIN times |-> i]
           h == [p \in V \X (1..n) |-> Op(p[1], ids[p[2]])]
           IsFold(F) == F = [s \in SUBSET (1..n) |->
                               IF s = {} THEN base ELSE Op(F[s \ {Max(s)}], ids[Max(s)])]
           G == CHOOSE F : IsFold(F)
<1>1. n \in Nat /\ DOMAIN times = 1..n /\ \A k \in 1..n : times[k] \in Int
  BY LenProperties
<1>2. Len(ids) = n /\ DOMAIN ids = 1..n /\ \A k \in 1..n : ids[k] = k
  BY <1>1
<1>3. ASSUME NEW acc \in V, NEW k \in 1..n PROVE Op(acc, ids[k]) \in V /\ h[<<acc, k>>] = Op(acc, ids[k])
  <2>1. Sample(times[k], powers[k]) \in SampleType
    BY <1>1 DEF Sample, SampleType
  <2>2. Append(acc.out, Sample(times[k], powers[k])) \in Seq(SampleType)
    BY <2>1, AppendProperties
  <2>3. Op(acc, k) \in V
    BY <1>1, <2>2
  <2> QED BY <1>2, <2>3
<1>4. h \in [V \X (1..n) -> V] /\ base \in V
  <2>1. base \in V
    OBVIOUS
  <2> HIDE DEF Op, V, ids, base
  <2>2. \A p \in V \X (1..n) : Op(p[1], ids[p[2]]) \in V
    BY <1>3
  <2> QED BY <2>1, <2>2
<1>5. PackedSamples(times, powers, o, g) = G[1..n].out
  BY <1>2 DEF PackedSamples, FoldLeft, MapThenFoldSet
<1> HIDE DEF h, V, n, Op, ids, base
<1>6. PICK F : Folds(F, n, V, base, h)
  BY <1>1, <1>4, FoldExists
<1>7. IsFold(F)
  BY <1>3, <1>6 DEF Folds
<1>8. IsFold(G)
  <2> HIDE DEF IsFold
  <2> QED BY <1>7
<1> DEFINE A == [k \in 0..n |-> G[1..k]]
<1>9. ASSUME NEW k \in 1..n PROVE A[k] = Op(A[k - 1], k)
  <2>1. /\ Max(1..k) = k /\ (1..k) \ {Max(1..k)} = 1..(k - 1)
        /\ 1..k # {} /\ 1..k \in SUBSET (1..n)
    BY <1>1, Prefix
  <2>2. G[1..k] = Op(G[1..(k - 1)], k)
    <3> HIDE DEF G
    <3>1. G[1..k] = Op(G[(1..k) \ {Max(1..k)}], ids[Max(1..k)])
      BY <1>8, <2>1
    <3> QED BY <1>2, <2>1, <3>1
  <2> HIDE DEF G
  <2> QED BY <1>1, <2>2
<1>10. A[0] = base /\ A[n] = G[1..n]
  <2> HIDE DEF G
  <2> QED BY <1>1, <1>8
<1> HIDE DEF A, G, IsFold
<1>11. /\ A[0] = base /\ PackedSamples(times, powers, o, g) = A[n].out
       /\ \A k \in 1..n : A[k] = Op(A[k - 1], k)
  BY <1>5, <1>9, <1>10
<1> QED
  BY <1>11, Zenon DEF PackedLoop, Op, n, base

LEMMA PackedSeq ==
    ASSUME NEW o, NEW g \in Int, NEW times \in Seq(Int), NEW powers,
           \A i \in 1..Len(times) : powers[i] \in Int
    PROVE  LET n == Len(times) IN
           /\ PackedSamples(times, powers, o, g) \in Seq(SampleType)
           /\ o.min_time = 0 /\ o.max_time = 0 =>
                PackedSamples(times, powers, o, g) = [i \in 1..n |-> Sample(times[i], powers[i])]
<1>1. PICK A : PackedLoop(o, g, times, powers, A)
  BY PackedTurns
<1> DEFINE n == Len(times)
           seq == [i \in 1..n |-> Sample(times[i], powers[i])]
           open == o.min_time = 0 /\ o.max_time = 0
           Good(k) == A[k].out \in Seq(SampleType) /\ (open => A[k].out = SubSeq(seq, 1, k))
           Ok == { k \in Nat : k <= n => Good(k) }
<1>2. /\ n \in Nat /\ DOMAIN times = 1..n
      /\ \A k \in 1..n : Sample(times[k], powers[k]) \in SampleType /\ seq[k] = Sample(times[k], powers[k])
  BY LenProperties DEF Sample, SampleType
<1>3. seq \in Seq(SampleType) /\ Len(seq) = n
  <2> HIDE DEF n
  <2>1. seq \in [1..n -> SampleType]
    BY <1>2
  <2> QED BY <1>2, <2>1
<1> HIDE DEF n, seq
<1>4. 0 \in Ok
  <2>1. SubSeq(seq, 1, 0) = <<>> /\ <<>> \in Seq(SampleType)
    BY SubSeqEmpty
  <2>2. A[0].out = <<>>
    BY <1>1 DEF PackedLoop
  <2> QED BY <2>1, <2>2
<1>5. ASSUME NEW k \in Nat, k \in Ok PROVE k + 1 \in Ok
  <2> SUFFICES ASSUME k + 1 <= n PROVE Good(k + 1)
    OBVIOUS
  <2>1. k + 1 \in 1..n /\ (k + 1) - 1 = k /\ k \in 0..n
    BY <1>2
  <2>2. Good(k)
    BY <1>2, <1>5, <2>1
  <2>3. A[k + 1] = IF InWindow(o, A[k].time)
                   THEN [time |-> times[k + 1], out |-> Append(A[k].out, seq[k + 1])]
                   ELSE A[k]
    BY <1>1, <1>2, <2>1 DEF PackedLoop, n
  <2>4. A[k + 1].out \in Seq(SampleType)
    BY <1>2, <2>1, <2>2, <2>3, AppendProperties
  <2>5. ASSUME open PROVE A[k + 1].out = SubSeq(seq, 1, k + 1)
    <3>1. InWindow(o, A[k].time)
      BY <2>5 DEF InWindow
    <3>2. A[k + 1].out = Append(A[k].out, seq[k + 1])
      BY <2>3, <3>1
    <3>3. A[k].out = SubSeq(seq, 1, k)
      BY <2>2, <2>5
    <3> QED BY <1>2, <1>3, <2>1, <3>2, <3>3
  <2> QED BY <2>4, <2>5
<1>6. n \in Ok
  <2> HIDE DEF Ok
  <2> QED BY <1>2, <1>4, <1>5, Induction
<1>7. Good(n)
  BY <1>2, <1>6
<1> QED
  BY <1>1, <1>3, <1>7, SubSeqFull DEF PackedLoop, n, seq

LEMMA V3Reads ==
    ASSUME NEW o, NEW dir \in [m : Seq(Seq(Nat)), c : Seq(Seq(Nat)), both : BOOLEAN, waves : Seq(Seq(Int))]
    PROVE  OpenV3(dir, o).ok => Reads(OpenV3(dir, o))
<1> SUFFICES ASSUME OpenV3(dir, o).ok PROVE Reads(OpenV3(dir, o))
  OBVIOUS
<1> DEFINE r == OpenV3(dir, o)
           n == Len(r.reads)
<1>0. ~(o.ciphertext /\ ~dir.both)
  BY DEF OpenV3, NotOpened
<1>1. /\ UntilEmpty(TextOf(o, dir)) \in Seq(Text) /\ dir.waves \in Seq(Seq(Int))
      /\ Len(UntilEmpty(TextOf(o, dir))) \in Nat /\ Len(dir.waves) \in Nat
  <2>1. dir.m \in Seq(Seq(Nat)) /\ dir.c \in Seq(Seq(Nat)) /\ dir.waves \in Seq(Seq(Int))
    OBVIOUS
  <2>2. TextOf(o, dir) \in Seq(Seq(Nat))
    BY <2>1 DEF TextOf
  <2>3. UntilEmpty(TextOf(o, dir)) \in Seq(Text)
    BY <2>2, UntilEmptyIs
  <2> QED BY <2>1, <2>3, LenProperties
<1>2. /\ r.count = Len(UntilEmpty(TextOf(o, dir))) /\ n \in Nat /\ DOMAIN r.reads = 1..n
      /\ n <= r.count /\ n <= Len(dir.waves)
      /\ r.events = IF dir.waves = <<>> THEN {} ELSE 0..(Len(dir.waves[1]) - 1)
      /\ \A i \in 1..n : r.reads[i] = Read(TRUE, UntilEmpty(TextOf(o, dir))[i], Indexed(dir.waves[i], o))
  BY <1>0, <1>1, V3Opened
<1> HIDE DEF r, n
<1>3. ASSUME NEW i \in 1..n PROVE r.reads[i].samples \in Seq(SampleType) /\ r.reads[i].text \in Text
  <2>1. dir.waves[i] \in Seq(Int) /\ UntilEmpty(TextOf(o, dir))[i] \in Text
    BY <1>1, <1>2, ElementOfSeq
  <2>2. r.reads[i].samples = Indexed(dir.waves[i], o) /\ r.reads[i].text = UntilEmpty(TextOf(o, dir))[i]
    <3>1. r.reads[i] = Read(TRUE, UntilEmpty(TextOf(o, dir))[i], Indexed(dir.waves[i], o))
      BY <1>2
    <3> QED BY <3>1 DEF Read
  <2> QED BY <2>1, <2>2, IndexedType
<1>4. r.events \in FiniteInts
  <2>1. CASE dir.waves = <<>>
    BY <1>2, <2>1, FS_EmptySet DEF FiniteInts
  <2>2. CASE dir.waves # <<>>
    <3>1. 1 \in 1..Len(dir.waves)
      BY <1>1, <2>2, EmptySeq
    <3>2. dir.waves[1] \in Seq(Int)
      BY <1>1, <3>1, ElementOfSeq
    <3>3. Len(dir.waves[1]) \in Nat
      BY <3>2, LenProperties
    <3> QED BY <1>2, <2>2, <3>3, FromZero
  <2> QED BY <2>1, <2>2
<1>5. r.count \in Nat
  BY <1>1, <1>2
<1> QED
  BY <1>2, <1>3, <1>4, <1>5 DEF Reads, r, n

LEMMA SqliteReads ==
    ASSUME NEW o, NEW rows \in Seq([text : Text, wave : Seq(Int)])
    PROVE  Reads(OpenSqlite(rows, o))
<1> DEFINE r == OpenSqlite(rows, o)
           n == Len(rows)
<1>1. n \in Nat /\ DOMAIN rows = 1..n
  BY LenProperties
<1>2. /\ r.count = n /\ r.events = {}
      /\ Len(r.reads) = n /\ DOMAIN r.reads = 1..n
      /\ \A i \in 1..n : r.reads[i] = Read(TRUE, rows[i].text, Indexed(rows[i].wave, o))
  <2>1. SqliteReader(r, o, rows)
    BY <1>1, SqliteOpened
  <2> HIDE DEF r
  <2> QED BY <2>1 DEF SqliteReader
<1>3. ASSUME NEW i \in 1..n PROVE r.reads[i].samples \in Seq(SampleType) /\ r.reads[i].text \in Text
  <2>1. rows[i] \in [text : Text, wave : Seq(Int)]
    BY ElementOfSeq
  <2>2. r.reads[i].samples = Indexed(rows[i].wave, o) /\ r.reads[i].text = rows[i].text
    <3>1. r.reads[i] = Read(TRUE, rows[i].text, Indexed(rows[i].wave, o))
      BY <1>2
    <3> HIDE DEF r
    <3> QED BY <3>1 DEF Read
  <2> HIDE DEF r
  <2> QED BY <2>1, <2>2, IndexedType
<1>4. {} \in FiniteInts
  BY FS_EmptySet DEF FiniteInts
<1>5. n <= n
  BY <1>1
<1> HIDE DEF r, n
<1> QED
  BY <1>1, <1>2, <1>3, <1>4, <1>5 DEF Reads, r

LEMMA PackedReads ==
    ASSUME NEW o \in ReaderOptions, NEW file, WellFormed("packed", file),
           NEW garbage \in [1..file.ntraces -> Int]
    PROVE  Reads(OpenPacked(file, o, garbage))
<1> DEFINE r == OpenPacked(file, o, garbage)
           n == Limited(o, file.ntraces)
<1>1. /\ file \in [textlen : Nat, ntraces : Nat, times : Seq(Nat),
                   body : Seq([text : Text, powers : Seq(Int)])]
      /\ file.ntraces <= Len(file.body)
      /\ \A i \in DOMAIN file.body : Len(file.body[i].powers) = Len(file.times)
  BY DEF WellFormed
<1>2. /\ file.ntraces \in Nat /\ file.times \in Seq(Nat)
      /\ file.body \in Seq([text : Text, powers : Seq(Int)])
      /\ Len(file.body) \in Nat /\ DOMAIN file.body = 1..Len(file.body)
      /\ Len(file.times) \in Nat /\ DOMAIN file.times = 1..Len(file.times)
      /\ o.num_traces \in Nat
  BY <1>1, LenProperties DEF ReaderOptions
<1>3. /\ r.count = n /\ n \in 0..file.ntraces
      /\ r.events = ShownTimes(o, file)
      /\ Len(r.reads) = n /\ DOMAIN r.reads = 1..n
      /\ \A i \in 1..n : r.reads[i] = Read(TRUE, file.body[i].text,
             PackedSamples(file.times, file.body[i].powers, o, garbage[i]))
  <2>1. PackedReader(r, o, file, garbage)
    <3>1. o.num_traces \in Nat /\ file.ntraces \in Nat
      BY <1>2
    <3> QED BY <3>1, PackedOpened
  <2> HIDE DEF r
  <2> QED BY <2>1 DEF PackedReader
<1> HIDE DEF r, n
<1>4. ASSUME NEW i \in 1..n PROVE r.reads[i].samples \in Seq(SampleType) /\ r.reads[i].text \in Text
  <2> DEFINE powers == file.body[i].powers
  <2>1. i \in 1..Len(file.body) /\ i \in 1..file.ntraces
    <3>1. n <= file.ntraces /\ n \in Nat /\ file.ntraces <= Len(file.body)
      BY <1>1, <1>2, <1>3
    <3> QED BY <1>2, <3>1
  <2>2. file.body[i] \in [text : Text, powers : Seq(Int)]
    BY <1>2, <2>1, ElementOfSeq
  <2>3. powers \in Seq(Int) /\ Len(powers) = Len(file.times) /\ garbage[i] \in Int
    BY <1>1, <1>2, <2>1, <2>2
  <2>4. \A k \in 1..Len(file.times) : powers[k] \in Int
    <3> HIDE DEF powers
    <3> QED BY <2>3, ElementOfSeq
  <2>5. file.times \in Seq(Int)
    BY <1>2, SeqMonotonic
  <2>6. PackedSamples(file.times, powers, o, garbage[i]) \in Seq(SampleType)
    <3> HIDE DEF powers
    <3> QED BY <2>3, <2>4, <2>5, PackedSeq
  <2>7. /\ r.reads[i].samples = PackedSamples(file.times, powers, o, garbage[i])
        /\ r.reads[i].text = file.body[i].text
    <3>1. r.reads[i] = Read(TRUE, file.body[i].text, PackedSamples(file.times, powers, o, garbage[i]))
      BY <1>3
    <3> HIDE DEF powers
    <3> QED BY <3>1 DEF Read
  <2> HIDE DEF powers
  <2> QED BY <2>2, <2>6, <2>7
<1>5. r.events \in FiniteInts
  <2> DEFINE t == file.times
             S == Range(t)
  <2>1. IsFiniteSet(S) /\ S \subseteq Int
    <3>1. S = { t[i] : i \in 1..Len(t) }
      BY <1>2 DEF Range
    <3>2. t \in Surjection(1..Len(t), S)
      BY <1>2, <3>1, LenProperties DEF Surjection
    <3>3. IsFiniteSet(1..Len(t))
      BY <1>2, FS_Interval
    <3>4. \A i \in 1..Len(t) : t[i] \in Int
      BY <1>2, ElementOfSeq
    <3> HIDE DEF S, t
    <3>5. IsFiniteSet(S)
      BY <3>2, <3>3, FS_Surjection
    <3> QED BY <3>1, <3>4, <3>5
  <2> HIDE DEF S, t
  <2>2. r.events \in SUBSET S
    BY <1>3 DEF ShownTimes, S, t
  <2> QED BY <2>1, <2>2, FS_Subset DEF FiniteInts
<1>6. n \in Nat /\ n <= n
  BY <1>2, <1>3
<1> QED
  BY <1>3, <1>4, <1>5, <1>6 DEF Reads, r

\* The readers of waveforms, by what they hand to copy_trace.
WaveReader(r, format, data, o, past) ==
    /\ format = "simv" => SimvReader(r, o, data, past)
    /\ format = "out" => OutReader(r, o, data, past)

\* All readers.
LEMMA ReaderReads ==
    ASSUME NEW format \in {"simv", "out", "v1", "v2", "v3", "sqlite", "packed"},
           NEW data, WellFormed(format, data), NEW o \in ReaderOptions,
           NEW garbage \in Unset(format, data), OpenReader(format, data, o, garbage).ok
    PROVE  /\ Reads(OpenReader(format, data, o, garbage))
           /\ WaveReader(OpenReader(format, data, o, garbage), format, data, o, garbage)
<1> DEFINE r == OpenReader(format, data, o, garbage)
<1>1. o.num_traces \in Nat
  BY DEF ReaderOptions
<1>2. CASE format = "simv"
  <2>1. data \in SimvFiles /\ garbage \in PastType /\ r = OpenSimv(data, o, garbage)
    BY <1>2 DEF WellFormed, SimvFiles, OpenReader, Unset, PastType
  <2>2. r.ok
    OBVIOUS
  <2> HIDE DEF r
  <2>3. Reads(r) /\ SimvReader(r, o, data, garbage)
    BY <2>1, <2>2, SimvReads
  <2> QED BY <1>2, <2>3 DEF r, WaveReader
<1>3. CASE format = "out"
  <2>1. data \in Seq(OutFileType) /\ garbage \in PastType /\ r = OpenOut(data, o, garbage)
    BY <1>3 DEF WellFormed, OutFileType, OpenReader, Unset, PastType
  <2>2. r.ok
    OBVIOUS
  <2> HIDE DEF r
  <2>3. Reads(r) /\ OutReader(r, o, data, garbage)
    BY <2>1, <2>2, OutReads
  <2> QED BY <1>3, <2>3 DEF r, WaveReader
<1>4. CASE format \in {"v1", "v2"}
  <2>1. data \in Seq(ContestFile) /\ r = OpenContest(data, o)
    BY <1>4 DEF WellFormed, ContestFile, OpenReader
  <2> QED BY <1>1, <1>4, <2>1, ContestReads DEF WaveReader
<1>5. CASE format = "v3"
  <2>1. data \in [m : Seq(Seq(Nat)), c : Seq(Seq(Nat)), both : BOOLEAN, waves : Seq(Seq(Int))] /\ r = OpenV3(data, o)
    BY <1>5 DEF WellFormed, OpenReader
  <2>2. r.ok
    OBVIOUS
  <2> QED BY <1>5, <2>1, <2>2, V3Reads DEF WaveReader
<1>6. CASE format = "sqlite"
  <2>1. data \in Seq([text : Text, wave : Seq(Int)]) /\ r = OpenSqlite(data, o)
    BY <1>6 DEF WellFormed, OpenReader
  <2> QED BY <1>6, <2>1, SqliteReads DEF WaveReader
<1>7. CASE format = "packed"
  <2>1. r = OpenPacked(data, o, garbage) /\ garbage \in [1..data.ntraces -> Int]
    BY <1>7, GarbageAssumption DEF OpenReader, Unset
  <2> QED BY <1>7, <2>1, PackedReads DEF WaveReader
<1> QED
  BY <1>2, <1>3, <1>4, <1>5, <1>6, <1>7

-----------------------------------------------------------------------------
(* An archive that was not closed.                                            *)

\* Nothing is left of no traces.
LEMMA LimitedZero ==
    ASSUME NEW o, o.num_traces \in Nat
    PROVE  Limited(o, 0) = 0
<1>1. CASE o.num_traces = 0
  BY <1>1 DEF Limited
<1>2. CASE o.num_traces # 0
  <2>1. Limited(o, 0) = Min({0, o.num_traces})
    BY <1>2 DEF Limited
  <2>2. \E x \in {0, o.num_traces} : \A y \in {0, o.num_traces} : x <= y
    <3>1. \A y \in {0, o.num_traces} : 0 <= y
      OBVIOUS
    <3> QED
      BY <3>1
  <2>3. /\ Min({0, o.num_traces}) \in {0, o.num_traces}
        /\ \A y \in {0, o.num_traces} : Min({0, o.num_traces}) <= y
    BY <2>2 DEF Min
  <2>4. Min({0, o.num_traces}) <= 0
    BY <2>3
  <2> QED
    BY <2>1, <2>3, <2>4
<1> QED
  BY <1>1, <1>2

\* The formats that are written to one file are recognised by its name.
LEMMA GuessedAsWritten ==
    /\ guess_format(PathOf("packed")) = "packed"
    /\ guess_format(PathOf("sqlite")) = "sqlite"
BY DEF guess_format, PathOf

\* An archive of packed whose header has no trace, and an empty table, are
\* opened as readers without traces.
LEMMA EmptyOpened ==
    ASSUME NEW o, o.num_traces \in Nat, NEW garbage, NEW file, NEW rows
    PROVE  /\ file.ntraces = 0 => OpenReader("packed", file, o, garbage).count = 0
           /\ rows = <<>> => OpenReader("sqlite", rows, o, garbage).count = 0
<1>1. ASSUME file.ntraces = 0 PROVE OpenReader("packed", file, o, garbage).count = 0
  <2>1. OpenReader("packed", file, o, garbage) = OpenPacked(file, o, garbage)
    BY DEF OpenReader
  <2>2. OpenPacked(file, o, garbage).count = Limited(o, file.ntraces)
    BY DEF OpenPacked, Opened
  <2> QED
    BY <1>1, <2>1, <2>2, LimitedZero
<1>2. ASSUME rows = <<>> PROVE OpenReader("sqlite", rows, o, garbage).count = 0
  <2>1. OpenReader("sqlite", rows, o, garbage) = OpenSqlite(rows, o)
    BY DEF OpenReader
  <2>2. OpenSqlite(rows, o).count = Len(rows)
    BY DEF OpenSqlite, Opened
  <2>3. Len(<<>>) = 0
    OBVIOUS
  <2> QED
    BY <1>2, <2>1, <2>2, <2>3
<1> QED
  BY <1>1, <1>2

\* What a file is when only its body is replaced.
LEMMA NewBody ==
    ASSUME NEW file, NEW body,
           file = [textlen |-> 0, ntraces |-> 0, times |-> file.times, body |-> file.body]
    PROVE  [file EXCEPT !.body = body] =
              [textlen |-> 0, ntraces |-> 0, times |-> file.times, body |-> body]
<1>1. \A t, b : [[textlen |-> 0, ntraces |-> 0, times |-> t, body |-> b] EXCEPT !.body = body] =
                   [textlen |-> 0, ntraces |-> 0, times |-> t, body |-> body]
  OBVIOUS
<1> DEFINE t == file.times
           b == file.body
<1>2. file = [textlen |-> 0, ntraces |-> 0, times |-> t, body |-> b]
  OBVIOUS
<1> HIDE DEF t, b
<1>3. [file EXCEPT !.body = body] =
        [[textlen |-> 0, ntraces |-> 0, times |-> t, body |-> b] EXCEPT !.body = body]
  BY <1>2
<1> QED
  BY <1>1, <1>3 DEF t

\* The inductive invariant: until close() the file is as open() left it but
\* for the body; only a conversion that has come to its end is closed.
Unclosed ==
    pc \in {"convert", "stopped"} =>
        /\ job.dst = "packed" =>
              disk = [textlen |-> 0, ntraces |-> 0, times |-> disk.times, body |-> disk.body]
        /\ job.dst = "sqlite" => disk = <<>>
IInv ==
    /\ pc \in {"open", "create", "convert", "closed", "stopped", "reading", "end"}
    /\ converted \in Nat
    /\ pc \in {"open", "create", "convert", "closed", "stopped"} => back = None
    /\ pc \in {"convert", "closed", "stopped"} => path = PathOf(job.dst)
    /\ pc = "closed" => converted = source.count
    /\ Unclosed
    /\ UnfinishedIsEmpty

LEMMA InitInv == Init => IInv
BY DEF Init, IInv, Unclosed, UnfinishedIsEmpty, None

LEMMA OpenInv == IInv /\ Open => IInv'
<1> SUFFICES ASSUME IInv, Open PROVE IInv'
  OBVIOUS
<1>1. pc' \in {"create", "end"} /\ back' = None /\ converted' \in Nat
  BY DEF IInv, Open, later
<1>2. UnfinishedIsEmpty'
  BY <1>1 DEF UnfinishedIsEmpty, None
<1> QED
  BY <1>1, <1>2 DEF IInv, Unclosed

LEMMA CreateFailsInv == IInv /\ CreateFails => IInv'
<1> SUFFICES ASSUME IInv, CreateFails PROVE IInv'
  OBVIOUS
<1>1. /\ pc = "create" /\ pc' = "end"
      /\ UNCHANGED <<job, source, converted, writer, path, disk, opt, back, seen>>
  BY DEF CreateFails, later
<1>2. back' = None /\ UnfinishedIsEmpty'
  BY <1>1 DEF IInv, UnfinishedIsEmpty, None
<1> QED
  BY <1>1, <1>2 DEF IInv, Unclosed

LEMMA CreateInv == IInv /\ Create => IInv'
<1> SUFFICES ASSUME IInv, Create PROVE IInv'
  OBVIOUS
<1>1. /\ pc = "create" /\ pc' = "convert" /\ back' = back /\ converted' = converted
      /\ job' = job /\ path' = PathOf(job.dst)
  BY DEF Create, later
<1>2. back' = None /\ UnfinishedIsEmpty'
  BY <1>1 DEF IInv, UnfinishedIsEmpty
<1>3. Unclosed'
  <2>1. CASE job.dst = "packed"
    <3>1. disk' = [textlen |-> 0, ntraces |-> 0, times |-> Ascending(source.events), body |-> <<>>]
      BY <2>1 DEF Create
    <3> QED
      BY <1>1, <2>1, <3>1 DEF Unclosed
  <2>2. CASE job.dst = "sqlite"
    BY <1>1, <2>2 DEF Create, Unclosed
  <2> QED
    BY <1>1, <2>1, <2>2 DEF Unclosed
<1> QED
  BY <1>1, <1>2, <1>3 DEF IInv

LEMMA ConvertTraceInv == IInv /\ ConvertTrace => IInv'
<1> SUFFICES ASSUME IInv, ConvertTrace PROVE IInv'
  OBVIOUS
<1>1. /\ pc = "convert" /\ pc' = "convert" /\ back' = back /\ job' = job /\ path' = path
      /\ converted' = converted + 1 /\ converted \in Nat
  BY DEF ConvertTrace, later, IInv
<1>2. UnfinishedIsEmpty'
  BY <1>1 DEF UnfinishedIsEmpty
<1>3. Unclosed'
  <2> DEFINE trace == source.reads[converted + 1]
  <2>1. CASE job.dst = "packed"
    <3>1. WritePacked(trace)
      BY <2>1 DEF ConvertTrace
    <3>2. disk = [textlen |-> 0, ntraces |-> 0, times |-> disk.times, body |-> disk.body]
      BY <1>1, <2>1 DEF IInv, Unclosed
    <3>3. disk' = [disk EXCEPT !.body = Append(@, [text |-> trace.text, powers |-> Powers(trace.samples)])]
      BY <3>1 DEF WritePacked
    <3>4. PICK body : disk' = [disk EXCEPT !.body = body]
      BY <3>3
    <3>5. disk' = [textlen |-> 0, ntraces |-> 0, times |-> disk.times, body |-> body]
      BY <3>2, <3>4, NewBody
    <3>6. disk' = [textlen |-> 0, ntraces |-> 0, times |-> disk'.times, body |-> disk'.body]
      BY <3>5
    <3> QED
      BY <1>1, <2>1, <3>6 DEF Unclosed
  <2>2. CASE job.dst = "sqlite"
    <3>1. WriteSqlite(trace)
      BY <2>2 DEF ConvertTrace
    <3> QED
      BY <1>1, <2>2, <3>1 DEF WriteSqlite, IInv, Unclosed
  <2> QED
    BY <1>1, <2>1, <2>2 DEF Unclosed
<1> QED
  BY <1>1, <1>2, <1>3 DEF IInv

LEMMA ConversionFailsInv == IInv /\ ConversionFails => IInv'
<1> SUFFICES ASSUME IInv, ConversionFails PROVE IInv'
  OBVIOUS
<1>1. /\ pc = "convert" /\ pc' = "stopped"
      /\ UNCHANGED <<job, source, converted, writer, path, disk, opt, back, seen>>
  BY DEF ConversionFails, later
<1> QED
  BY <1>1 DEF IInv, Unclosed, UnfinishedIsEmpty

LEMMA CloseInv == IInv /\ Close => IInv'
<1> SUFFICES ASSUME IInv, Close PROVE IInv'
  OBVIOUS
<1>1. /\ pc = "convert" /\ pc' = "closed" /\ converted = source.count
      /\ UNCHANGED <<job, source, converted, writer, path, opt, back, seen>>
  BY DEF Close, later
<1> QED
  BY <1>1 DEF IInv, Unclosed, UnfinishedIsEmpty

LEMMA ReopenInv == IInv /\ Reopen => IInv'
<1> SUFFICES ASSUME IInv, Reopen PROVE IInv'
  OBVIOUS
<1>1. /\ pc \in {"closed", "stopped"} /\ pc' \in {"reading", "end"} /\ opt' \in ReadOptions
      /\ UNCHANGED <<job, source, converted, writer, path, disk, seen>>
  BY DEF Reopen
<1>2. PICK garbage : back' = OpenReader(guess_format(path), disk, opt', garbage)
  BY DEF Reopen
<1>3. opt'.num_traces \in Nat
  BY <1>1, ReadOptionsAssumption DEF ReaderOptions
<1>4. UnfinishedIsEmpty'
  <2> SUFFICES ASSUME job.dst \in {"packed", "sqlite"}, converted < source.count
               PROVE  back'.count = 0
    BY <1>1 DEF UnfinishedIsEmpty
  <2>1. pc = "stopped"
    BY <1>1 DEF IInv
  <2>2. guess_format(path) = job.dst
    BY <1>1, GuessedAsWritten DEF IInv
  <2>3. CASE job.dst = "packed"
    <3>1. disk.ntraces = 0
      BY <2>1, <2>3 DEF IInv, Unclosed
    <3> QED
      BY <1>2, <1>3, <2>2, <2>3, <3>1, EmptyOpened
  <2>4. CASE job.dst = "sqlite"
    <3>1. disk = <<>>
      BY <2>1, <2>4 DEF IInv, Unclosed
    <3> QED
      BY <1>2, <1>3, <2>2, <2>4, <3>1, EmptyOpened
  <2> QED
    BY <2>3, <2>4
<1> QED
  BY <1>1, <1>4 DEF IInv, Unclosed

LEMMA ReadBackInv == IInv /\ (ReadBack \/ ReadEnds) => IInv'
<1> SUFFICES ASSUME IInv, ReadBack \/ ReadEnds PROVE IInv'
  OBVIOUS
<1>1. /\ pc = "reading" /\ pc' \in {"reading", "end"}
      /\ UNCHANGED <<job, source, converted, writer, path, disk, opt, back>>
  BY DEF ReadBack, ReadEnds, later
<1> QED
  BY <1>1 DEF IInv, Unclosed, UnfinishedIsEmpty

\* A conversion that did not come to its end (convert.cpp:36) leaves a packed
\* or sqlite archive in which a later program finds no trace, whatever the
\* input, the options and the traces.
THEOREM UnfinishedArchiveIsEmpty == Spec => []UnfinishedIsEmpty
<1>1. Init => IInv
  BY InitInv
<1>2. IInv /\ [Next]_vars => IInv'
  <2>1. ASSUME IInv, UNCHANGED vars PROVE IInv'
    BY <2>1 DEF vars, later, IInv, Unclosed, UnfinishedIsEmpty
  <2> QED
    BY <2>1, OpenInv, CreateInv, CreateFailsInv, ConvertTraceInv, ConversionFailsInv, CloseInv, ReopenInv,
       ReadBackInv DEF Next
<1>3. IInv => UnfinishedIsEmpty
  BY DEF IInv
<1> QED
  BY <1>1, <1>2, <1>3, PTL DEF Spec

-----------------------------------------------------------------------------
(* The inductive invariant of the archive: at every stage the output is made  *)
(* of the traces converted so far, and so is what is read from it.            *)

\* The reader of the conversion is one.
SourceInv == source.ok => Reads(source)

\* How far the program is.
StageInv ==
    /\ job \in Jobs /\ converted \in Nat
    /\ pc \in {"open", "create", "convert", "closed", "stopped", "reading", "end"}
    /\ pc \in {"create", "convert", "closed", "stopped", "reading"} =>
            source.ok /\ converted <= Len(source.reads)
    /\ pc \in {"open", "create"} => converted = 0
    /\ pc = "closed" => converted = source.count
    /\ pc = "stopped" => converted < source.count
    /\ pc \in {"open", "create", "convert", "closed", "stopped"} => back = None /\ seen = <<>>
    /\ pc = "reading" => back.ok

\* The first n traces, as each format writes them.
Texts(n) == [i \in 1..n |-> source.reads[i].text]
Body(n) == [i \in 1..n |-> [text |-> source.reads[i].text, powers |-> Powers(source.reads[i].samples)]]
Rows(n) == [i \in 1..n |-> [text |-> source.reads[i].text, wave |-> Powers(source.reads[i].samples)]]
Waves(n) == [i \in 1..n |-> PrintedPowers(source.reads[i].samples)]

PackedDisk ==
    /\ \A i \in 1..converted : Len(source.reads[i].samples) = Cardinality(source.events)
    /\ writer = [ok |-> TRUE, textlen |-> writer.textlen, ntraces |-> converted,
                 samples |-> Cardinality(source.events), pending |-> <<>>]
    /\ disk = [textlen |-> disk.textlen, ntraces |-> IF pc = "closed" THEN converted ELSE 0,
               times |-> Ascending(source.events), body |-> Body(converted)]
V3Disk == disk = [m |-> Texts(converted), c |-> <<>>, both |-> FALSE, waves |-> Waves(converted)]
SqliteDisk ==
    /\ writer = [ok |-> TRUE, textlen |-> 0, ntraces |-> 0,
                 samples |-> Cardinality(source.events), pending |-> Rows(converted)]
    /\ disk = IF pc = "closed" THEN Rows(converted) ELSE <<>>

\* What is on the disk until it is read.
DiskInv ==
    pc \in {"convert", "closed", "stopped"} =>
        /\ path = PathOf(job.dst)
        /\ job.dst = "packed" => PackedDisk
        /\ job.dst = "v3" => V3Disk
        /\ job.dst = "sqlite" => SqliteDisk

\* Trace x is read from an archive as trace y of its source.
SameTrace(x, y) ==
    /\ x.ok /\ x.text = y.text
    /\ job.dst # "packed" \/ (opt.min_time = 0 /\ opt.max_time = 0) =>
            x.samples = Restricted(Kept(y))

\* What the later reader gives.
BackInv ==
    back.ok =>
        /\ Len(back.reads) \in Nat /\ Len(back.reads) <= converted
        /\ \A i \in 1..Len(back.reads) : SameTrace(back.reads[i], source.reads[i])
        /\ converted = source.count =>
                Len(back.reads) = IF job.dst = "packed" THEN Limited(opt, converted) ELSE converted

\* What the later program has read.
SeenInv ==
    /\ Len(seen) \in Nat /\ seen = [i \in 1..Len(seen) |-> back.reads[i]]
    /\ back.ok => Len(seen) <= Len(back.reads)
    /\ ~back.ok => seen = <<>>
    /\ pc = "end" /\ back.ok => Len(seen) = Len(back.reads)

ArchiveInv == SourceInv /\ StageInv /\ DiskInv /\ BackInv /\ SeenInv

\* One more trace.
LEMMA OneMore ==
    ASSUME NEW n \in Nat
    PROVE  LET trace == source.reads[n + 1] IN
           /\ Append(Body(n), [text |-> trace.text, powers |-> Powers(trace.samples)]) = Body(n + 1)
           /\ Append(Rows(n), [text |-> trace.text, wave |-> Powers(trace.samples)]) = Rows(n + 1)
           /\ Append(Texts(n), trace.text) = Texts(n + 1)
           /\ Append(Waves(n), PrintedPowers(trace.samples)) = Waves(n + 1)
<1> DEFINE body(i) == [text |-> source.reads[i].text, powers |-> Powers(source.reads[i].samples)]
           row(i) == [text |-> source.reads[i].text, wave |-> Powers(source.reads[i].samples)]
           text(i) == source.reads[i].text
           wave(i) == PrintedPowers(source.reads[i].samples)
<1>1. /\ Body(n) = [i \in 1..n |-> body(i)] /\ Body(n + 1) = [i \in 1..(n + 1) |-> body(i)]
      /\ Rows(n) = [i \in 1..n |-> row(i)] /\ Rows(n + 1) = [i \in 1..(n + 1) |-> row(i)]
      /\ Texts(n) = [i \in 1..n |-> text(i)] /\ Texts(n + 1) = [i \in 1..(n + 1) |-> text(i)]
      /\ Waves(n) = [i \in 1..n |-> wave(i)] /\ Waves(n + 1) = [i \in 1..(n + 1) |-> wave(i)]
  BY DEF Body, Rows, Texts, Waves
<1> HIDE DEF body, row, text, wave
<1>2. /\ Append([i \in 1..n |-> body(i)], body(n + 1)) = [i \in 1..(n + 1) |-> body(i)]
      /\ Append([i \in 1..n |-> row(i)], row(n + 1)) = [i \in 1..(n + 1) |-> row(i)]
      /\ Append([i \in 1..n |-> text(i)], text(n + 1)) = [i \in 1..(n + 1) |-> text(i)]
      /\ Append([i \in 1..n |-> wave(i)], wave(n + 1)) = [i \in 1..(n + 1) |-> wave(i)]
  OBVIOUS
<1> QED
  BY <1>1, <1>2 DEF body, row, text, wave

\* Of no traces.
LEMMA NoneYet == Body(0) = <<>> /\ Rows(0) = <<>> /\ Texts(0) = <<>> /\ Waves(0) = <<>>
<1> DEFINE body(i) == [text |-> source.reads[i].text, powers |-> Powers(source.reads[i].samples)]
           row(i) == [text |-> source.reads[i].text, wave |-> Powers(source.reads[i].samples)]
           text(i) == source.reads[i].text
           wave(i) == PrintedPowers(source.reads[i].samples)
<1>1. /\ Body(0) = [i \in 1..0 |-> body(i)] /\ Rows(0) = [i \in 1..0 |-> row(i)]
      /\ Texts(0) = [i \in 1..0 |-> text(i)] /\ Waves(0) = [i \in 1..0 |-> wave(i)]
  BY DEF Body, Rows, Texts, Waves
<1> HIDE DEF body, row, text, wave
<1> QED
  BY <1>1

\* What a step does not touch.
LEMMA SameSource ==
    ASSUME source' = source, job' = job
    PROVE  /\ SourceInv => SourceInv'
           /\ \A n \in Nat : /\ Body(n)' = Body(n) /\ Rows(n)' = Rows(n)
                             /\ Texts(n)' = Texts(n) /\ Waves(n)' = Waves(n)
BY DEF SourceInv, Reads, Body, Rows, Texts, Waves

LEMMA SameBack ==
    ASSUME source' = source, job' = job, converted' = converted, opt' = opt, back' = back
    PROVE  BackInv => BackInv'
<1>1. \A x, y : SameTrace(x, y)' <=> SameTrace(x, y)
  BY DEF SameTrace, Restricted, Kept
<1>2. \A i : SameTrace(back.reads[i], source.reads[i])' <=> SameTrace(back.reads[i], source.reads[i])
  BY DEF SameTrace, Restricted, Kept
<1> QED
  BY <1>2 DEF BackInv

LEMMA NotRead ==
    ASSUME back' = None, seen' = <<>>
    PROVE  BackInv' /\ SeenInv'
<1>1. ~back'.ok
  BY DEF None
<1>2. Len(seen') = 0 /\ seen' = [i \in 1..0 |-> back'.reads[i]]
  OBVIOUS
<1> QED
  BY <1>1, <1>2 DEF BackInv, SeenInv

LEMMA ArchiveInit == Init => ArchiveInv
<1> SUFFICES ASSUME Init PROVE ArchiveInv
  OBVIOUS
<1>1. /\ job \in Jobs /\ pc = "open" /\ source = None /\ converted = 0 /\ back = None /\ seen = <<>>
  BY DEF Init
<1>2. ~source.ok /\ ~back.ok
  BY <1>1 DEF None
<1>3. Len(seen) = 0 /\ seen = [i \in 1..0 |-> back.reads[i]]
  BY <1>1
<1>4. SourceInv /\ DiskInv /\ BackInv
  BY <1>1, <1>2 DEF SourceInv, DiskInv, BackInv
<1>5. StageInv
  BY <1>1 DEF StageInv
<1>6. SeenInv
  BY <1>1, <1>2, <1>3 DEF SeenInv
<1> QED
  BY <1>4, <1>5, <1>6 DEF ArchiveInv

LEMMA ArchiveOpen == ArchiveInv /\ Open => ArchiveInv'
<1> SUFFICES ASSUME ArchiveInv, Open PROVE ArchiveInv'
  OBVIOUS
<1>1. /\ pc = "open" /\ pc' = IF source'.ok THEN "create" ELSE "end"
      /\ job' = job /\ converted' = converted /\ back' = back /\ seen' = seen
  BY DEF Open, later
<1>2. /\ job \in Jobs /\ converted = 0 /\ back = None /\ seen = <<>>
  BY <1>1 DEF ArchiveInv, StageInv
<1>3. BackInv' /\ SeenInv'
  BY <1>1, <1>2, NotRead
<1>4. PICK garbage \in Unset(job.format, job.data) :
             source' = OpenReader(job.format, job.data, job.opt, garbage)
  BY DEF Open
<1>5. ASSUME source'.ok
      PROVE  Reads(source')
  <2> DEFINE format == job.format
             data == job.data
             o == job.opt
  <2>1. /\ format \in {"simv", "out", "v1", "v2", "v3", "sqlite", "packed"}
        /\ WellFormed(format, data) /\ o \in ReaderOptions
    BY <1>2, JobsAssumption
  <2>2. garbage \in Unset(format, data)
    OBVIOUS
  <2>3. OpenReader(format, data, o, garbage).ok
    BY <1>4, <1>5
  <2> HIDE DEF format, data, o
  <2>4. Reads(OpenReader(format, data, o, garbage))
    BY <2>1, <2>2, <2>3, ReaderReads
  <2> QED BY <1>4, <2>4 DEF format, data, o
<1>6. SourceInv'
  BY <1>1, <1>5 DEF SourceInv
<1>7. StageInv' /\ DiskInv'
  <2>1. source'.ok => Len(source'.reads) \in Nat
    BY <1>5 DEF Reads
  <2> QED BY <1>1, <1>2, <2>1 DEF StageInv, DiskInv
<1> QED
  BY <1>3, <1>6, <1>7 DEF ArchiveInv

LEMMA ArchiveCreateFails == ArchiveInv /\ CreateFails => ArchiveInv'
<1> SUFFICES ASSUME ArchiveInv, CreateFails PROVE ArchiveInv'
  OBVIOUS
<1>1. /\ pc = "create" /\ pc' = "end"
      /\ UNCHANGED <<job, source, converted, writer, path, disk, opt, back, seen>>
  BY DEF CreateFails, later
<1>2. back = None /\ seen = <<>>
  BY <1>1 DEF ArchiveInv, StageInv
<1>3. BackInv' /\ SeenInv'
  BY <1>1, <1>2, NotRead
<1>4. SourceInv'
  BY <1>1, SameSource DEF ArchiveInv
<1>5. StageInv' /\ DiskInv'
  BY <1>1 DEF ArchiveInv, StageInv, DiskInv
<1> QED
  BY <1>3, <1>4, <1>5 DEF ArchiveInv

LEMMA ArchiveCreate == ArchiveInv /\ Create => ArchiveInv'
<1> SUFFICES ASSUME ArchiveInv, Create PROVE ArchiveInv'
  OBVIOUS
<1>1. /\ pc = "create" /\ pc' = "convert" /\ path' = PathOf(job.dst)
      /\ job' = job /\ source' = source /\ converted' = converted /\ back' = back /\ seen' = seen
  BY DEF Create, later
<1>2. /\ job \in Jobs /\ converted = 0 /\ back = None /\ seen = <<>> /\ source.ok
      /\ converted <= Len(source.reads)
  BY <1>1 DEF ArchiveInv, StageInv
<1>3. BackInv' /\ SeenInv'
  BY <1>1, <1>2, NotRead
<1>4. SourceInv'
  BY <1>1, SameSource DEF ArchiveInv
<1>5. StageInv'
  BY <1>1, <1>2 DEF StageInv
<1>6. /\ writer' = [ok |-> TRUE, textlen |-> 0, ntraces |-> 0,
                    samples |-> Cardinality(source.events), pending |-> <<>>]
      /\ job.dst = "packed" => disk' = [textlen |-> 0, ntraces |-> 0,
                                        times |-> Ascending(source.events), body |-> <<>>]
      /\ job.dst = "v3" => disk' = [m |-> <<>>, c |-> <<>>, both |-> FALSE, waves |-> <<>>]
      /\ job.dst = "sqlite" => disk' = <<>>
  BY DEF Create
<1>7. Body(0)' = <<>> /\ Rows(0)' = <<>> /\ Texts(0)' = <<>> /\ Waves(0)' = <<>>
  BY <1>1, NoneYet, SameSource
<1>8. ASSUME job.dst = "packed" PROVE PackedDisk'
  BY <1>1, <1>2, <1>6, <1>7, <1>8 DEF PackedDisk
<1>9. ASSUME job.dst = "v3" PROVE V3Disk'
  BY <1>1, <1>2, <1>6, <1>7, <1>9 DEF V3Disk
<1>10. ASSUME job.dst = "sqlite" PROVE SqliteDisk'
  BY <1>1, <1>2, <1>6, <1>7, <1>10 DEF SqliteDisk
<1>11. DiskInv'
  BY <1>1, <1>8, <1>9, <1>10 DEF DiskInv
<1> QED
  BY <1>3, <1>4, <1>5, <1>11 DEF ArchiveInv

\* The fields of records that are known by name.
LEMMA DiskField ==
    ASSUME NEW d, NEW t, NEW n, NEW times, NEW body,
           d = [textlen |-> t, ntraces |-> n, times |-> times, body |-> body]
    PROVE  /\ \A x : [d EXCEPT !.body = x] = [textlen |-> t, ntraces |-> n, times |-> times, body |-> x]
           /\ \A x : [d EXCEPT !.textlen = x] = [textlen |-> x, ntraces |-> n, times |-> times, body |-> body]
           /\ \A x : [d EXCEPT !.ntraces = x] = [textlen |-> t, ntraces |-> x, times |-> times, body |-> body]
           /\ d.textlen = t /\ d.ntraces = n /\ d.times = times /\ d.body = body
<1> DEFINE r == [textlen |-> t, ntraces |-> n, times |-> times, body |-> body]
<1>1. \A x : [r EXCEPT !.body = x] = [textlen |-> t, ntraces |-> n, times |-> times, body |-> x]
  OBVIOUS
<1>2. \A x : [r EXCEPT !.textlen = x] = [textlen |-> x, ntraces |-> n, times |-> times, body |-> body]
  OBVIOUS
<1>3. \A x : [r EXCEPT !.ntraces = x] = [textlen |-> t, ntraces |-> x, times |-> times, body |-> body]
  OBVIOUS
<1>4. r.textlen = t /\ r.ntraces = n /\ r.times = times /\ r.body = body
  OBVIOUS
<1>5. d = r
  OBVIOUS
<1> HIDE DEF r
<1>6. ASSUME NEW x PROVE [d EXCEPT !.body = x] = [textlen |-> t, ntraces |-> n, times |-> times, body |-> x]
  <2>1. [d EXCEPT !.body = x] = [r EXCEPT !.body = x]
    BY <1>5
  <2> QED BY <1>1, <2>1
<1>7. ASSUME NEW x PROVE [d EXCEPT !.textlen = x] = [textlen |-> x, ntraces |-> n, times |-> times, body |-> body]
  <2>1. [d EXCEPT !.textlen = x] = [r EXCEPT !.textlen = x]
    BY <1>5
  <2> QED BY <1>2, <2>1
<1>8. ASSUME NEW x PROVE [d EXCEPT !.ntraces = x] = [textlen |-> t, ntraces |-> x, times |-> times, body |-> body]
  <2>1. [d EXCEPT !.ntraces = x] = [r EXCEPT !.ntraces = x]
    BY <1>5
  <2> QED BY <1>3, <2>1
<1>9. d.textlen = t /\ d.ntraces = n /\ d.times = times /\ d.body = body
  BY <1>4, <1>5
<1> QED
  BY <1>6, <1>7, <1>8, <1>9, Zenon

LEMMA DiskFields ==
    ASSUME NEW d, NEW t, NEW n, NEW times, NEW body, NEW x, NEW y,
           d = [textlen |-> t, ntraces |-> n, times |-> times, body |-> body]
    PROVE  [d EXCEPT !.textlen = x, !.ntraces = y] = [textlen |-> x, ntraces |-> y, times |-> times, body |-> body]
<1> DEFINE e == [d EXCEPT !.textlen = x]
<1>1. [d EXCEPT !.textlen = x, !.ntraces = y] = [e EXCEPT !.ntraces = y]
  OBVIOUS
<1>2. e = [textlen |-> x, ntraces |-> n, times |-> times, body |-> body]
  BY DiskField
<1> HIDE DEF e
<1>3. [e EXCEPT !.ntraces = y] = [textlen |-> x, ntraces |-> y, times |-> times, body |-> body]
  BY <1>2, DiskField
<1> QED
  BY <1>1, <1>3

LEMMA WriterField ==
    ASSUME NEW w, NEW o, NEW t, NEW n, NEW k, NEW p,
           w = [ok |-> o, textlen |-> t, ntraces |-> n, samples |-> k, pending |-> p]
    PROVE  /\ \A x : [w EXCEPT !.textlen = x] = [ok |-> o, textlen |-> x, ntraces |-> n, samples |-> k, pending |-> p]
           /\ \A x : [w EXCEPT !.ntraces = x] = [ok |-> o, textlen |-> t, ntraces |-> x, samples |-> k, pending |-> p]
           /\ \A x : [w EXCEPT !.pending = x] = [ok |-> o, textlen |-> t, ntraces |-> n, samples |-> k, pending |-> x]
           /\ w.ok = o /\ w.textlen = t /\ w.ntraces = n /\ w.samples = k /\ w.pending = p
<1> DEFINE r == [ok |-> o, textlen |-> t, ntraces |-> n, samples |-> k, pending |-> p]
<1>1. \A x : [r EXCEPT !.textlen = x] = [ok |-> o, textlen |-> x, ntraces |-> n, samples |-> k, pending |-> p]
  OBVIOUS
<1>2. \A x : [r EXCEPT !.ntraces = x] = [ok |-> o, textlen |-> t, ntraces |-> x, samples |-> k, pending |-> p]
  OBVIOUS
<1>3. \A x : [r EXCEPT !.pending = x] = [ok |-> o, textlen |-> t, ntraces |-> n, samples |-> k, pending |-> x]
  OBVIOUS
<1>4. r.ok = o /\ r.textlen = t /\ r.ntraces = n /\ r.samples = k /\ r.pending = p
  OBVIOUS
<1>5. w = r
  OBVIOUS
<1> HIDE DEF r
<1>6. ASSUME NEW x PROVE [w EXCEPT !.textlen = x] = [ok |-> o, textlen |-> x, ntraces |-> n, samples |-> k, pending |-> p]
  <2>1. [w EXCEPT !.textlen = x] = [r EXCEPT !.textlen = x]
    BY <1>5
  <2> QED BY <1>1, <2>1
<1>7. ASSUME NEW x PROVE [w EXCEPT !.ntraces = x] = [ok |-> o, textlen |-> t, ntraces |-> x, samples |-> k, pending |-> p]
  <2>1. [w EXCEPT !.ntraces = x] = [r EXCEPT !.ntraces = x]
    BY <1>5
  <2> QED BY <1>2, <2>1
<1>8. ASSUME NEW x PROVE [w EXCEPT !.pending = x] = [ok |-> o, textlen |-> t, ntraces |-> n, samples |-> k, pending |-> x]
  <2>1. [w EXCEPT !.pending = x] = [r EXCEPT !.pending = x]
    BY <1>5
  <2> QED BY <1>3, <2>1
<1>9. w.ok = o /\ w.textlen = t /\ w.ntraces = n /\ w.samples = k /\ w.pending = p
  BY <1>4, <1>5
<1> QED
  BY <1>6, <1>7, <1>8, <1>9, Zenon

LEMMA WriterFields ==
    ASSUME NEW w, NEW o, NEW t, NEW n, NEW k, NEW p, NEW x, NEW y,
           w = [ok |-> o, textlen |-> t, ntraces |-> n, samples |-> k, pending |-> p]
    PROVE  [w EXCEPT !.textlen = x, !.ntraces = y] = [ok |-> o, textlen |-> x, ntraces |-> y, samples |-> k, pending |-> p]
<1> DEFINE e == [w EXCEPT !.textlen = x]
<1>1. [w EXCEPT !.textlen = x, !.ntraces = y] = [e EXCEPT !.ntraces = y]
  OBVIOUS
<1>2. e = [ok |-> o, textlen |-> x, ntraces |-> n, samples |-> k, pending |-> p]
  BY WriterField
<1> HIDE DEF e
<1>3. [e EXCEPT !.ntraces = y] = [ok |-> o, textlen |-> x, ntraces |-> y, samples |-> k, pending |-> p]
  BY <1>2, WriterField
<1> QED
  BY <1>1, <1>3

LEMMA ArchiveConvert == ArchiveInv /\ ConvertTrace => ArchiveInv'
<1> SUFFICES ASSUME ArchiveInv, ConvertTrace PROVE ArchiveInv'
  OBVIOUS
<1> DEFINE k == converted
           trace == source.reads[k + 1]
<1>1. /\ pc = "convert" /\ pc' = "convert" /\ path' = path /\ job' = job /\ source' = source
      /\ converted' = k + 1 /\ back' = back /\ seen' = seen
      /\ k < Len(source.reads) /\ trace.ok /\ Accepts(trace)
  BY DEF ConvertTrace, later
<1>2. /\ job \in Jobs /\ k \in Nat /\ back = None /\ seen = <<>> /\ source.ok
  BY <1>1 DEF ArchiveInv, StageInv
<1>3. BackInv' /\ SeenInv'
  BY <1>1, <1>2, NotRead
<1>4. SourceInv'
  BY <1>1, SameSource DEF ArchiveInv
<1>5. Len(source.reads) \in Nat
  BY <1>2 DEF ArchiveInv, SourceInv, Reads
<1>6. StageInv'
  BY <1>1, <1>2, <1>5 DEF StageInv
<1>7. PICK n \in Nat : n = k + 1
  BY <1>2
<1>70. /\ Body(n)' = Body(n) /\ Rows(n)' = Rows(n) /\ Texts(n)' = Texts(n) /\ Waves(n)' = Waves(n)
       /\ converted' = n
  BY <1>1, <1>7, SameSource
<1>8. /\ Append(Body(k), [text |-> trace.text, powers |-> Powers(trace.samples)]) = Body(n)
      /\ Append(Rows(k), [text |-> trace.text, wave |-> Powers(trace.samples)]) = Rows(n)
      /\ Append(Texts(k), trace.text) = Texts(n)
      /\ Append(Waves(k), PrintedPowers(trace.samples)) = Waves(n)
  BY <1>2, <1>7, OneMore
<1>9. ASSUME job.dst = "packed" PROVE PackedDisk'
  <2> DEFINE wlen == writer.textlen
             dlen == disk.textlen
  <2>1. /\ \A i \in 1..k : Len(source.reads[i].samples) = Cardinality(source.events)
        /\ writer = [ok |-> TRUE, textlen |-> wlen, ntraces |-> k,
                     samples |-> Cardinality(source.events), pending |-> <<>>]
        /\ disk = [textlen |-> dlen, ntraces |-> 0, times |-> Ascending(source.events), body |-> Body(k)]
    BY <1>1, <1>9 DEF ArchiveInv, DiskInv, PackedDisk
  <2> HIDE DEF wlen, dlen
  <2>2. /\ writer' = [writer EXCEPT !.textlen = Len(trace.text), !.ntraces = writer.ntraces + 1]
        /\ disk' = [disk EXCEPT !.body = Append(disk.body, [text |-> trace.text, powers |-> Powers(trace.samples)])]
    <3>1. WritePacked(trace)
      BY <1>9 DEF ConvertTrace
    <3> QED BY <3>1 DEF WritePacked
  <2>3. Len(trace.samples) = Cardinality(source.events)
    <3>1. Len(trace.samples) = writer.samples
      BY <1>1, <1>9 DEF Accepts
    <3> QED BY <2>1, <3>1, WriterFields
  <2>4. writer' = [ok |-> TRUE, textlen |-> Len(trace.text), ntraces |-> n,
                   samples |-> Cardinality(source.events), pending |-> <<>>]
    <3>1. writer.ntraces = k
      BY <2>1, WriterFields
    <3>2. writer' = [writer EXCEPT !.textlen = Len(trace.text), !.ntraces = n]
      BY <1>7, <2>2, <3>1
    <3> QED BY <2>1, <3>2, WriterFields
  <2>5. disk' = [textlen |-> dlen, ntraces |-> 0, times |-> Ascending(source.events), body |-> Body(n)]
    <3>1. disk.body = Body(k)
      BY <2>1, DiskFields
    <3>2. disk' = [disk EXCEPT !.body = Body(n)]
      BY <1>8, <2>2, <3>1
    <3> QED BY <2>1, <3>2, DiskFields
  <2>6. ASSUME NEW i \in 1..n PROVE Len(source.reads[i].samples) = Cardinality(source.events)
    <3>1. i \in 1..k \/ i = k + 1
      BY <1>2, <1>7
    <3> QED BY <2>1, <2>3, <3>1
  <2>7. writer'.textlen = Len(trace.text) /\ disk'.textlen = dlen
    BY <2>4, <2>5
  <2> HIDE DEF trace
  <2> QED BY <1>1, <1>70, <2>4, <2>5, <2>6, <2>7 DEF PackedDisk
<1>10. ASSUME job.dst = "v3" PROVE V3Disk'
  <2>1. disk = [m |-> Texts(k), c |-> <<>>, both |-> FALSE, waves |-> Waves(k)]
    BY <1>1, <1>10 DEF ArchiveInv, DiskInv, V3Disk
  <2>2. disk' = [disk EXCEPT !.m = Append(disk.m, trace.text), !.waves = Append(disk.waves, PrintedPowers(trace.samples))]
    <3>1. WriteV3(trace)
      BY <1>10 DEF ConvertTrace
    <3> QED BY <3>1 DEF WriteV3
  <2>3. disk.m = Texts(k) /\ disk.waves = Waves(k)
    BY <2>1
  <2>4. disk' = [disk EXCEPT !.m = Texts(n), !.waves = Waves(n)]
    BY <1>8, <2>2, <2>3
  <2>5. disk' = [m |-> Texts(n), c |-> <<>>, both |-> FALSE, waves |-> Waves(n)]
    <3> HIDE DEF k
    <3> QED BY <2>1, <2>4
  <2> QED BY <1>1, <1>70, <2>5 DEF V3Disk
<1>11. ASSUME job.dst = "sqlite" PROVE SqliteDisk'
  <2>1. /\ writer = [ok |-> TRUE, textlen |-> 0, ntraces |-> 0,
                     samples |-> Cardinality(source.events), pending |-> Rows(k)]
        /\ disk = <<>>
    BY <1>1, <1>11 DEF ArchiveInv, DiskInv, SqliteDisk
  <2>2. /\ writer' = [writer EXCEPT !.pending = Append(writer.pending, [text |-> trace.text, wave |-> Powers(trace.samples)])]
        /\ disk' = disk
    <3>1. WriteSqlite(trace)
      BY <1>11 DEF ConvertTrace
    <3> QED BY <3>1 DEF WriteSqlite
  <2>3. writer' = [ok |-> TRUE, textlen |-> 0, ntraces |-> 0,
                   samples |-> Cardinality(source.events), pending |-> Rows(n)]
    <3>1. writer.pending = Rows(k)
      BY <2>1, WriterFields
    <3>2. writer' = [writer EXCEPT !.pending = Rows(n)]
      BY <1>8, <2>2, <3>1
    <3> QED BY <2>1, <3>2, WriterFields
  <2> QED BY <1>1, <1>70, <2>1, <2>2, <2>3 DEF SqliteDisk
<1>12. DiskInv'
  <2>1. path = PathOf(job.dst)
    BY <1>1 DEF ArchiveInv, DiskInv
  <2> QED BY <1>1, <1>9, <1>10, <1>11, <2>1 DEF DiskInv
<1> QED
  BY <1>3, <1>4, <1>6, <1>12 DEF ArchiveInv

LEMMA ArchiveFails == ArchiveInv /\ ConversionFails => ArchiveInv'
<1> SUFFICES ASSUME ArchiveInv, ConversionFails PROVE ArchiveInv'
  OBVIOUS
<1>1. /\ pc = "convert" /\ pc' = "stopped" /\ converted < source.count
      /\ UNCHANGED <<job, source, converted, writer, path, disk, opt, back, seen>>
  BY DEF ConversionFails, later
<1>2. /\ job \in Jobs /\ converted \in Nat /\ back = None /\ seen = <<>> /\ source.ok
      /\ converted <= Len(source.reads)
  BY <1>1 DEF ArchiveInv, StageInv
<1>3. BackInv' /\ SeenInv'
  BY <1>1, <1>2, NotRead
<1>4. SourceInv'
  BY <1>1, SameSource DEF ArchiveInv
<1>5. StageInv'
  BY <1>1, <1>2 DEF StageInv
<1>6. DiskInv'
  <2>1. /\ path = PathOf(job.dst)
        /\ job.dst = "packed" => PackedDisk
        /\ job.dst = "v3" => V3Disk
        /\ job.dst = "sqlite" => SqliteDisk
    BY <1>1 DEF ArchiveInv, DiskInv
  <2>2. job.dst = "packed" => PackedDisk'
    BY <1>1, <2>1 DEF PackedDisk, Body
  <2>3. job.dst = "v3" => V3Disk'
    BY <1>1, <2>1 DEF V3Disk, Texts, Waves
  <2>4. job.dst = "sqlite" => SqliteDisk'
    BY <1>1, <2>1 DEF SqliteDisk, Rows
  <2> QED BY <1>1, <2>1, <2>2, <2>3, <2>4 DEF DiskInv
<1> QED
  BY <1>3, <1>4, <1>5, <1>6 DEF ArchiveInv

LEMMA ArchiveClose == ArchiveInv /\ Close => ArchiveInv'
<1> SUFFICES ASSUME ArchiveInv, Close PROVE ArchiveInv'
  OBVIOUS
<1>1. /\ pc = "convert" /\ pc' = "closed" /\ converted = source.count
      /\ UNCHANGED <<job, source, converted, writer, path, opt, back, seen>>
  BY DEF Close, later
<1>2. /\ job \in Jobs /\ converted \in Nat /\ back = None /\ seen = <<>> /\ source.ok
      /\ converted <= Len(source.reads)
  BY <1>1 DEF ArchiveInv, StageInv
<1>3. BackInv' /\ SeenInv'
  BY <1>1, <1>2, NotRead
<1>4. SourceInv'
  BY <1>1, SameSource DEF ArchiveInv
<1>5. StageInv'
  BY <1>1, <1>2 DEF StageInv
<1>6. DiskInv'
  <2>1. /\ path = PathOf(job.dst)
        /\ job.dst = "packed" => PackedDisk
        /\ job.dst = "v3" => V3Disk
        /\ job.dst = "sqlite" => SqliteDisk
    BY <1>1 DEF ArchiveInv, DiskInv
  <2>2. ASSUME job.dst = "packed" PROVE PackedDisk'
    <3> DEFINE wlen == writer.textlen
               dlen == disk.textlen
    <3>1. /\ \A i \in 1..converted : Len(source.reads[i].samples) = Cardinality(source.events)
          /\ writer = [ok |-> TRUE, textlen |-> wlen, ntraces |-> converted,
                       samples |-> Cardinality(source.events), pending |-> <<>>]
          /\ disk = [textlen |-> dlen, ntraces |-> 0, times |-> Ascending(source.events),
                     body |-> Body(converted)]
      BY <1>1, <2>1, <2>2 DEF PackedDisk
    <3> HIDE DEF wlen, dlen
    <3>2. disk' = [disk EXCEPT !.textlen = wlen, !.ntraces = writer.ntraces]
      BY <2>2 DEF Close, wlen
    <3>3. writer.ntraces = converted
      BY <3>1, WriterFields
    <3>4. disk' = [textlen |-> wlen, ntraces |-> converted, times |-> Ascending(source.events),
                   body |-> Body(converted)]
      BY <3>1, <3>2, <3>3, DiskFields
    <3>5. disk'.textlen = wlen /\ Body(converted)' = Body(converted)
      BY <1>1, <3>4 DEF Body
    <3>6. writer'.textlen = wlen
      BY <1>1 DEF wlen
    <3> QED BY <1>1, <3>1, <3>4, <3>5, <3>6 DEF PackedDisk
  <2>3. ASSUME job.dst = "v3" PROVE V3Disk'
    <3>1. disk' = disk
      BY <2>3 DEF Close
    <3> QED BY <1>1, <2>1, <2>3, <3>1 DEF V3Disk, Texts, Waves
  <2>4. ASSUME job.dst = "sqlite" PROVE SqliteDisk'
    <3>1. disk' = writer.pending
      BY <2>4 DEF Close
    <3>2. writer.pending = Rows(converted) /\ Rows(converted)' = Rows(converted)
      BY <1>1, <2>1, <2>4 DEF SqliteDisk, Rows
    <3> QED BY <1>1, <2>1, <2>4, <3>1, <3>2 DEF SqliteDisk
  <2> QED BY <1>1, <2>1, <2>2, <2>3, <2>4 DEF DiskInv
<1> QED
  BY <1>3, <1>4, <1>5, <1>6 DEF ArchiveInv

\* A directory of v3 is recognised by its files.
LEMMA GuessedV3 == guess_format(PathOf("v3")) = "v3"
<1> DEFINE ranks == <<"simv", "out", "v1", "v2", "v3", "packed">>
           found == {i \in 1..5 : ranks[i] \in {"v3"}}
<1>1. guess_format(PathOf("v3")) = ranks[Min(found \union {6})]
  BY DEF guess_format, PathOf
<1>2. found = {5}
  OBVIOUS
<1>3. Min({5, 6}) = 5
  <2>1. {5, 6} \subseteq Nat /\ {5, 6} # {}
    OBVIOUS
  <2>2. Min({5, 6}) \in {5, 6} /\ \A x \in {5, 6} : Min({5, 6}) <= x
    BY <2>1, Smallest
  <2> QED BY <2>2
<1>4. found \union {6} = {5, 6}
  BY <1>2
<1> HIDE DEF found
<1> QED
  BY <1>1, <1>3, <1>4

\* The samples as the formats keep them are what their readers put together.
LEMMA KeptNumbered ==
    ASSUME NEW y, y.samples \in Seq(SampleType), NEW o
    PROVE  /\ job.dst = "sqlite" => Indexed(Powers(y.samples), o) = Windowed(o, Kept(y))
           /\ job.dst = "v3" => Indexed(PrintedPowers(y.samples), o) = Windowed(o, Kept(y))
<1> DEFINE s == y.samples
<1>1. ASSUME job.dst = "sqlite" PROVE Numbered(Powers(s)) = Kept(y)
  BY <1>1 DEF Numbered, Powers, Kept
<1>2. ASSUME job.dst = "v3" PROVE Numbered(PrintedPowers(s)) = Kept(y)
  BY <1>2 DEF Numbered, PrintedPowers, Kept
<1>3. /\ Indexed(Powers(s), o) = Windowed(o, Numbered(Powers(s)))
      /\ Indexed(PrintedPowers(s), o) = Windowed(o, Numbered(PrintedPowers(s)))
  BY DEF Indexed, Numbered
<1> QED
  BY <1>1, <1>2, <1>3

LEMMA KeptPacked ==
    ASSUME NEW y, y.samples \in Seq(SampleType), source.events \in FiniteInts,
           Len(y.samples) = Cardinality(source.events), job.dst = "packed",
           NEW o, o.min_time = 0, o.max_time = 0, NEW g \in Int
    PROVE  PackedSamples(Ascending(source.events), Powers(y.samples), o, g) = Windowed(o, Kept(y))
<1> DEFINE E == source.events
           n == Cardinality(E)
           s == y.samples
           times == Ascending(E)
           powers == Powers(s)
<1>1. /\ times \in [1..n -> E] /\ n \in Nat /\ E \subseteq Int
  BY AscendingLists DEF FiniteInts
<1>2. Len(s) = n /\ DOMAIN s = 1..n /\ \A i \in 1..n : s[i] \in SampleType
  BY LenProperties, ElementOfSeq
<1>3. \A i \in 1..n : powers[i] = s[i].power /\ powers[i] \in Int
  BY <1>2 DEF Powers, SampleType
<1>4. Kept(y) = [i \in 1..n |-> Sample(times[i], powers[i])]
  BY <1>2 DEF Kept, Powers
<1> HIDE DEF E, n, s, times, powers
<1>5. \A i \in 1..n : times[i] \in Int
  BY <1>1
<1>6. times \in Seq(Int) /\ Len(times) = n
  BY <1>1, <1>5
<1>7. Kept(y) \in Seq(SampleType)
  <2>1. \A i \in 1..n : Sample(times[i], powers[i]) \in SampleType
    BY <1>3, <1>5 DEF Sample, SampleType
  <2>2. Kept(y) \in [1..n -> SampleType]
    BY <1>4, <2>1
  <2> QED BY <1>1, <2>2
<1>8. PackedSamples(times, powers, o, g) = [i \in 1..n |-> Sample(times[i], powers[i])]
  BY <1>3, <1>6, PackedSeq
<1>9. Windowed(o, Kept(y)) = Kept(y)
  BY <1>7, WindowedSeq
<1> QED
  BY <1>4, <1>8, <1>9 DEF E, s, times, powers

LEMMA SameTraceNext ==
    ASSUME job' = job, source' = source, NEW i,
           back'.reads[i].ok, back'.reads[i].text = source.reads[i].text,
           job.dst # "packed" \/ (opt'.min_time = 0 /\ opt'.max_time = 0) =>
                back'.reads[i].samples = Windowed(opt', Kept(source.reads[i]))
    PROVE  SameTrace(back.reads[i], source.reads[i])'
BY DEF SameTrace, Restricted, Kept

\* What the later reader gives, by formats.
LEMMA ReopenPacked ==
    ASSUME ArchiveInv, pc \in {"closed", "stopped"}, job.dst = "packed",
           job' = job, source' = source, converted' = converted,
           opt'.num_traces \in Nat, NEW garbage \in [1..disk.ntraces -> Int],
           back' = OpenPacked(disk, opt', garbage)
    PROVE  BackInv' /\ back'.ok /\ Len(back'.reads) \in Nat
<1> DEFINE k == converted
           n == Limited(opt', disk.ntraces)
<1>1. /\ \A i \in 1..k : Len(source.reads[i].samples) = Cardinality(source.events)
      /\ disk = [textlen |-> disk.textlen, ntraces |-> IF pc = "closed" THEN k ELSE 0,
                 times |-> Ascending(source.events), body |-> Body(k)]
  BY DEF ArchiveInv, DiskInv, PackedDisk
<1>2. /\ source.ok /\ k \in Nat /\ k <= Len(source.reads) /\ (pc = "stopped" => k < source.count)
  BY DEF ArchiveInv, StageInv
<1>3. Reads(source)
  BY <1>2 DEF ArchiveInv, SourceInv
<1>4. /\ source.count \in Nat /\ source.events \in FiniteInts /\ Len(source.reads) \in Nat
      /\ \A i \in 1..k : source.reads[i].samples \in Seq(SampleType)
  BY <1>2, <1>3 DEF Reads
<1>5. /\ disk.ntraces = (IF pc = "closed" THEN k ELSE 0)
      /\ disk.times = Ascending(source.events) /\ disk.body = Body(k)
  <2> DEFINE t == disk.textlen
             m == IF pc = "closed" THEN k ELSE 0
  <2>1. disk = [textlen |-> t, ntraces |-> m, times |-> Ascending(source.events), body |-> Body(k)]
    BY <1>1
  <2> HIDE DEF t, m
  <2>2. disk.ntraces = m /\ disk.times = Ascending(source.events) /\ disk.body = Body(k)
    BY <2>1, DiskField
  <2> QED BY <2>2 DEF m
<1>6. disk.ntraces \in Nat /\ disk.ntraces <= k
  BY <1>2, <1>5
<1>7. PackedReader(back', opt', disk, garbage)
  BY <1>6, PackedOpened
<1>8. /\ back'.ok /\ Len(back'.reads) = n /\ n \in 0..disk.ntraces
      /\ \A i \in 1..n : back'.reads[i] = Read(TRUE, disk.body[i].text,
             PackedSamples(disk.times, disk.body[i].powers, opt', garbage[i]))
  BY <1>7 DEF PackedReader
<1>9. ASSUME NEW i \in 1..n PROVE SameTrace(back.reads[i], source.reads[i])'
  <2> DEFINE y == source.reads[i]
  <2>1. i \in 1..k /\ i \in 1..disk.ntraces
    BY <1>2, <1>6, <1>8
  <2>2. disk.body[i].text = y.text /\ disk.body[i].powers = Powers(y.samples)
    BY <1>5, <2>1 DEF Body
  <2>3. back'.reads[i] = Read(TRUE, y.text, PackedSamples(Ascending(source.events), Powers(y.samples), opt', garbage[i]))
    <3>1. back'.reads[i] = Read(TRUE, disk.body[i].text,
             PackedSamples(disk.times, disk.body[i].powers, opt', garbage[i]))
      BY <1>8
    <3> HIDE DEF y
    <3> QED BY <1>5, <2>2, <3>1
  <2>4. /\ back'.reads[i].ok /\ back'.reads[i].text = y.text
        /\ back'.reads[i].samples = PackedSamples(Ascending(source.events), Powers(y.samples), opt', garbage[i])
    <3> HIDE DEF y
    <3> QED BY <2>3 DEF Read
  <2>5. opt'.min_time = 0 /\ opt'.max_time = 0 => back'.reads[i].samples = Windowed(opt', Kept(y))
    <3>1. y.samples \in Seq(SampleType) /\ Len(y.samples) = Cardinality(source.events) /\ garbage[i] \in Int
      BY <1>1, <1>4, <2>1
    <3> HIDE DEF y
    <3> QED BY <1>4, <2>4, <3>1, KeptPacked
  <2> QED BY <2>4, <2>5, SameTraceNext
<1>10. k = source.count => disk.ntraces = k
  BY <1>2, <1>4, <1>5
<1>11. n \in Nat /\ n <= k
  BY <1>6, <1>8, <1>2
<1>12. k = source.count => Len(back'.reads) = Limited(opt', k)
  BY <1>8, <1>10
<1> QED
  BY <1>8, <1>9, <1>11, <1>12 DEF BackInv

LEMMA ReopenSqlite ==
    ASSUME ArchiveInv, pc \in {"closed", "stopped"}, job.dst = "sqlite",
           job' = job, source' = source, converted' = converted, back' = OpenSqlite(disk, opt')
    PROVE  BackInv' /\ back'.ok /\ Len(back'.reads) \in Nat
<1> DEFINE k == converted
           n == IF pc = "closed" THEN k ELSE 0
<1>1. disk = IF pc = "closed" THEN Rows(k) ELSE <<>>
  BY DEF ArchiveInv, DiskInv, SqliteDisk
<1>2. /\ source.ok /\ k \in Nat /\ k <= Len(source.reads) /\ (pc = "stopped" => k < source.count)
  BY DEF ArchiveInv, StageInv
<1>3. Reads(source)
  BY <1>2 DEF ArchiveInv, SourceInv
<1>4. /\ source.count \in Nat /\ Len(source.reads) \in Nat
      /\ \A i \in 1..k : source.reads[i].samples \in Seq(SampleType)
  BY <1>2, <1>3 DEF Reads
<1>5. /\ Len(disk) = n /\ DOMAIN disk = 1..n /\ n \in Nat
      /\ \A i \in 1..n : /\ disk[i].text = source.reads[i].text
                         /\ disk[i].wave = Powers(source.reads[i].samples)
  <2>1. Len(Rows(k)) = k /\ DOMAIN Rows(k) = 1..k
    <3> DEFINE row(i) == [text |-> source.reads[i].text, wave |-> Powers(source.reads[i].samples)]
    <3>1. Rows(k) = [i \in 1..k |-> row(i)]
      BY DEF Rows
    <3> HIDE DEF row
    <3> QED BY <1>2, <3>1
  <2>2. \A i \in 1..k : /\ Rows(k)[i].text = source.reads[i].text
                        /\ Rows(k)[i].wave = Powers(source.reads[i].samples)
    BY DEF Rows
  <2>3. CASE pc = "closed"
    BY <1>1, <1>2, <2>1, <2>2, <2>3
  <2>4. CASE pc # "closed"
    <3>1. disk = <<>> /\ n = 0
      BY <1>1, <2>4
    <3> HIDE DEF n
    <3> QED BY <3>1
  <2> QED BY <2>3, <2>4
<1> HIDE DEF n
<1>6. /\ back'.ok /\ Len(back'.reads) = n
      /\ \A i \in 1..n : back'.reads[i] = Read(TRUE, disk[i].text, Indexed(disk[i].wave, opt'))
  <2>1. SqliteReader(back', opt', disk)
    BY <1>5, SqliteOpened
  <2> QED BY <1>5, <2>1 DEF SqliteReader
<1>7. n <= k /\ (k = source.count => n = k)
  BY <1>2, <1>4 DEF n
<1>8. ASSUME NEW i \in 1..n PROVE SameTrace(back.reads[i], source.reads[i])'
  <2> DEFINE y == source.reads[i]
  <2>1. i \in 1..k
    BY <1>2, <1>5, <1>7
  <2>2. back'.reads[i] = Read(TRUE, y.text, Indexed(Powers(y.samples), opt'))
    <3>1. back'.reads[i] = Read(TRUE, disk[i].text, Indexed(disk[i].wave, opt'))
      BY <1>6
    <3> QED BY <1>5, <3>1
  <2>3. /\ back'.reads[i].ok /\ back'.reads[i].text = y.text
        /\ back'.reads[i].samples = Indexed(Powers(y.samples), opt')
    <3> HIDE DEF y
    <3> QED BY <2>2 DEF Read
  <2>4. back'.reads[i].samples = Windowed(opt', Kept(y))
    <3>1. y.samples \in Seq(SampleType)
      BY <1>4, <2>1
    <3> HIDE DEF y
    <3> QED BY <2>3, <3>1, KeptNumbered
  <2> QED BY <2>3, <2>4, SameTraceNext
<1> QED
  BY <1>5, <1>6, <1>7, <1>8 DEF BackInv

LEMMA ReopenV3 ==
    ASSUME ArchiveInv, pc \in {"closed", "stopped"}, job.dst = "v3",
           job' = job, source' = source, converted' = converted, back' = OpenV3(disk, opt'), back'.ok
    PROVE  BackInv' /\ Len(back'.reads) \in Nat
<1> DEFINE k == converted
           texts == UntilEmpty(TextOf(opt', disk))
           n == Len(back'.reads)
<1>1. disk = [m |-> Texts(k), c |-> <<>>, both |-> FALSE, waves |-> Waves(k)]
  BY DEF ArchiveInv, DiskInv, V3Disk
<1>2. /\ disk.m = Texts(k) /\ disk.waves = Waves(k)
      /\ ~opt'.ciphertext
  <2>1. ~disk.both
    BY <1>1
  <2> QED BY <1>1, <2>1 DEF OpenV3, NotOpened
<1>3. /\ source.ok /\ k \in Nat /\ k <= Len(source.reads)
  BY DEF ArchiveInv, StageInv
<1>4. Reads(source)
  BY <1>3 DEF ArchiveInv, SourceInv
<1>5. \A i \in 1..k : source.reads[i].samples \in Seq(SampleType) /\ source.reads[i].text \in Text
  BY <1>3, <1>4 DEF Reads
<1>6. /\ Len(Texts(k)) = k /\ \A i \in 1..k : Texts(k)[i] = source.reads[i].text
      /\ Len(Waves(k)) = k /\ \A i \in 1..k : Waves(k)[i] = PrintedPowers(source.reads[i].samples)
  <2> DEFINE text(i) == source.reads[i].text
             wave(i) == PrintedPowers(source.reads[i].samples)
  <2>1. Texts(k) = [i \in 1..k |-> text(i)] /\ Waves(k) = [i \in 1..k |-> wave(i)]
    BY DEF Texts, Waves
  <2> HIDE DEF text, wave
  <2>2. /\ Len(Texts(k)) = k /\ \A i \in 1..k : Texts(k)[i] = text(i)
        /\ Len(Waves(k)) = k /\ \A i \in 1..k : Waves(k)[i] = wave(i)
    BY <1>3, <2>1
  <2> QED BY <2>2 DEF text, wave
<1>7. texts = Texts(k)
  <2>1. TextOf(opt', disk) = Texts(k)
    BY <1>2 DEF TextOf
  <2>2. \A i \in 1..k : source.reads[i].text \in Seq(Nat) /\ source.reads[i].text # <<>>
    BY <1>5 DEF Text
  <2>3. Texts(k) \in Seq(Seq(Nat))
    <3> DEFINE text(i) == source.reads[i].text
    <3>1. Texts(k) = [i \in 1..k |-> text(i)] /\ \A i \in 1..k : text(i) \in Seq(Nat)
      BY <2>2 DEF Texts
    <3> HIDE DEF text
    <3> QED BY <1>3, <3>1
  <2>4. \A i \in 1..Len(Texts(k)) : Texts(k)[i] # <<>>
    BY <1>6, <2>2
  <2>5. UntilEmpty(Texts(k)) = Texts(k)
    BY <2>3, <2>4, UntilEmptyIs
  <2> QED BY <2>1, <2>5
<1>8. Len(texts) \in Nat /\ Len(disk.waves) = k
  BY <1>2, <1>3, <1>6, <1>7
<1> HIDE DEF texts
<1>9. /\ back'.ok /\ n \in Nat /\ n = Min({Len(texts), k}) /\ n <= Len(texts) /\ n <= k
      /\ \A i \in 1..n : back'.reads[i] = Read(TRUE, texts[i], Indexed(disk.waves[i], opt'))
  <2>1. Len(disk.waves) \in Nat /\ Len(UntilEmpty(TextOf(opt', disk))) \in Nat
    BY <1>3, <1>8 DEF texts
  <2>2. ~(opt'.ciphertext /\ ~disk.both)
    BY <1>2
  <2> QED BY <1>8, <2>1, <2>2, V3Opened DEF texts
<1>10. n = k
  <2>1. Len(texts) = k
    BY <1>6, <1>7
  <2>2. Min({k, k}) \in {k, k}
    <3>1. {k, k} \subseteq Nat /\ {k, k} # {}
      BY <1>3
    <3> QED BY <3>1, Smallest
  <2> QED BY <1>9, <2>1, <2>2
<1>11. ASSUME NEW i \in 1..n PROVE SameTrace(back.reads[i], source.reads[i])'
  <2> DEFINE y == source.reads[i]
  <2>1. i \in 1..k
    BY <1>3, <1>9
  <2>2. back'.reads[i] = Read(TRUE, y.text, Indexed(PrintedPowers(y.samples), opt'))
    <3>1. back'.reads[i] = Read(TRUE, texts[i], Indexed(disk.waves[i], opt'))
      BY <1>9
    <3>2. texts[i] = y.text /\ disk.waves[i] = PrintedPowers(y.samples)
      BY <1>2, <1>6, <1>7, <2>1
    <3> QED BY <3>1, <3>2
  <2>3. /\ back'.reads[i].ok /\ back'.reads[i].text = y.text
        /\ back'.reads[i].samples = Indexed(PrintedPowers(y.samples), opt')
    <3> HIDE DEF y
    <3> QED BY <2>2 DEF Read
  <2>4. back'.reads[i].samples = Windowed(opt', Kept(y))
    <3>1. y.samples \in Seq(SampleType)
      BY <1>5, <2>1
    <3> HIDE DEF y
    <3> QED BY <2>3, <3>1, KeptNumbered
  <2> QED BY <2>3, <2>4, SameTraceNext
<1> QED
  BY <1>9, <1>10, <1>11 DEF BackInv

LEMMA ArchiveReopen == ArchiveInv /\ Reopen => ArchiveInv'
<1> SUFFICES ASSUME ArchiveInv, Reopen PROVE ArchiveInv'
  OBVIOUS
<1>1. /\ pc \in {"closed", "stopped"} /\ job.dst # "csv" /\ pc' = (IF back'.ok THEN "reading" ELSE "end")
      /\ opt' \in ReadOptions /\ job' = job /\ source' = source /\ converted' = converted /\ seen' = seen
  BY DEF Reopen
<1>2. /\ job \in Jobs /\ converted \in Nat /\ seen = <<>> /\ source.ok /\ converted <= Len(source.reads)
  BY <1>1 DEF ArchiveInv, StageInv
<1>3. PICK garbage \in Unset(guess_format(path), disk) :
             back' = OpenReader(guess_format(path), disk, opt', garbage)
  BY DEF Reopen
<1>4. opt'.num_traces \in Nat
  BY <1>1, ReadOptionsAssumption DEF ReaderOptions
<1>5. path = PathOf(job.dst)
  BY <1>1 DEF ArchiveInv, DiskInv
<1>6. job.dst \in {"packed", "v3", "sqlite"}
  BY <1>1, <1>2, JobsAssumption
<1>7. guess_format(path) = job.dst
  <2>1. CASE job.dst = "packed"
    <3>1. guess_format(PathOf("packed")) = "packed"
      BY GuessedAsWritten
    <3> QED BY <1>5, <2>1, <3>1, Zenon
  <2>2. CASE job.dst = "sqlite"
    BY <1>5, <2>2, GuessedAsWritten
  <2>3. CASE job.dst = "v3"
    BY <1>5, <2>3, GuessedV3
  <2> QED BY <1>6, <2>1, <2>2, <2>3
<1>8. BackInv' /\ (back'.ok => Len(back'.reads) \in Nat)
  <2> SUFFICES ASSUME back'.ok PROVE BackInv' /\ Len(back'.reads) \in Nat
    BY DEF BackInv
  <2>1. CASE job.dst = "packed"
    <3>1. garbage \in [1..disk.ntraces -> Int]
      <4>1. Garbage \subseteq Int
        BY GarbageAssumption
      <4> QED BY <1>3, <1>7, <2>1, <4>1 DEF Unset
    <3>2. back' = OpenPacked(disk, opt', garbage)
      BY <1>3, <1>7, <2>1 DEF OpenReader
    <3> QED BY <1>1, <1>4, <2>1, <3>1, <3>2, ReopenPacked
  <2>2. CASE job.dst = "sqlite"
    <3>1. back' = OpenSqlite(disk, opt')
      BY <1>3, <1>7, <2>2 DEF OpenReader
    <3> QED BY <1>1, <2>2, <3>1, ReopenSqlite
  <2>3. CASE job.dst = "v3"
    <3>1. back' = OpenV3(disk, opt')
      BY <1>3, <1>7, <2>3 DEF OpenReader
    <3> QED BY <1>1, <2>3, <3>1, ReopenV3
  <2> QED BY <1>6, <2>1, <2>2, <2>3
<1>9. SeenInv'
  <2>1. Len(seen') = 0 /\ seen' = <<>> /\ seen' = [i \in 1..0 |-> back'.reads[i]]
    BY <1>1, <1>2
  <2> QED BY <1>1, <1>8, <2>1 DEF SeenInv
<1>10. SourceInv'
  BY <1>1, SameSource DEF ArchiveInv
<1>11. StageInv' /\ DiskInv'
  BY <1>1, <1>2, <1>8 DEF StageInv, DiskInv
<1> QED
  BY <1>8, <1>9, <1>10, <1>11 DEF ArchiveInv

LEMMA ArchiveReadBack == ArchiveInv /\ ReadBack => ArchiveInv'
<1> SUFFICES ASSUME ArchiveInv, ReadBack PROVE ArchiveInv'
  OBVIOUS
<1> DEFINE n == Len(seen)
<1>1. /\ pc = "reading" /\ pc' = pc /\ n < Len(back.reads) /\ seen' = Append(seen, back.reads[n + 1])
      /\ UNCHANGED <<job, source, converted, writer, path, disk, opt, back>>
  BY DEF ReadBack
<1>2. /\ back.ok /\ job \in Jobs /\ converted \in Nat /\ source.ok /\ converted <= Len(source.reads)
  BY <1>1 DEF ArchiveInv, StageInv
<1>3. Len(back.reads) \in Nat
  BY <1>2 DEF ArchiveInv, BackInv
<1>4. SourceInv' /\ BackInv'
  BY <1>1, SameSource, SameBack DEF ArchiveInv
<1>5. StageInv' /\ DiskInv'
  BY <1>1, <1>2 DEF StageInv, DiskInv
<1>6. SeenInv'
  <2> DEFINE read(i) == back.reads[i]
  <2>1. n \in Nat /\ seen = [i \in 1..n |-> read(i)]
    BY DEF ArchiveInv, SeenInv
  <2> HIDE DEF n, read
  <2>2. /\ Append([i \in 1..n |-> read(i)], read(n + 1)) = [i \in 1..(n + 1) |-> read(i)]
        /\ Len([i \in 1..(n + 1) |-> read(i)]) = n + 1
    BY <2>1
  <2>3. seen' = [i \in 1..(n + 1) |-> read(i)] /\ Len(seen') = n + 1
    BY <1>1, <2>1, <2>2 DEF read, n
  <2>4. Len(seen') \in Nat /\ seen' = [i \in 1..Len(seen') |-> back'.reads[i]]
    BY <1>1, <2>1, <2>3 DEF read
  <2>5. Len(seen') <= Len(back'.reads)
    BY <1>1, <1>3, <2>1, <2>3 DEF n
  <2> QED BY <1>1, <1>2, <2>4, <2>5 DEF SeenInv
<1> QED
  BY <1>4, <1>5, <1>6 DEF ArchiveInv

LEMMA ArchiveReadEnds == ArchiveInv /\ ReadEnds => ArchiveInv'
<1> SUFFICES ASSUME ArchiveInv, ReadEnds PROVE ArchiveInv'
  OBVIOUS
<1>1. /\ pc = "reading" /\ pc' = "end" /\ Len(seen) = Len(back.reads)
      /\ UNCHANGED <<job, source, converted, writer, path, disk, opt, back, seen>>
  BY DEF ReadEnds, later
<1>2. /\ back.ok /\ job \in Jobs /\ converted \in Nat
  BY <1>1 DEF ArchiveInv, StageInv
<1>3. SourceInv' /\ BackInv'
  BY <1>1, SameSource, SameBack DEF ArchiveInv
<1>4. StageInv' /\ DiskInv'
  BY <1>1, <1>2 DEF StageInv, DiskInv
<1>5. SeenInv'
  BY <1>1, <1>2 DEF ArchiveInv, SeenInv
<1> QED
  BY <1>3, <1>4, <1>5 DEF ArchiveInv

LEMMA ArchiveStutters == ArchiveInv /\ UNCHANGED vars => ArchiveInv'
<1> SUFFICES ASSUME ArchiveInv, UNCHANGED vars PROVE ArchiveInv'
  OBVIOUS
<1>1. UNCHANGED <<job, pc, source, converted, writer, path, disk, opt, back, seen>>
  BY DEF vars, later
<1>2. SourceInv' /\ BackInv'
  BY <1>1, SameSource, SameBack DEF ArchiveInv
<1>3. StageInv' /\ SeenInv'
  BY <1>1 DEF ArchiveInv, StageInv, SeenInv
<1>4. DiskInv'
  <2>1. PackedDisk' <=> PackedDisk
    BY <1>1 DEF PackedDisk, Body
  <2>2. V3Disk' <=> V3Disk
    BY <1>1 DEF V3Disk, Texts, Waves
  <2>3. SqliteDisk' <=> SqliteDisk
    BY <1>1 DEF SqliteDisk, Rows
  <2>4. DiskInv
    BY DEF ArchiveInv
  <2> QED BY <1>1, <2>1, <2>2, <2>3, <2>4 DEF DiskInv
<1> QED
  BY <1>2, <1>3, <1>4 DEF ArchiveInv

LEMMA ArchiveInductive == Spec => []ArchiveInv
<1>1. ArchiveInv /\ [Next]_vars => ArchiveInv'
  BY ArchiveOpen, ArchiveCreate, ArchiveCreateFails, ArchiveConvert, ArchiveFails, ArchiveClose, ArchiveReopen,
     ArchiveReadBack, ArchiveReadEnds, ArchiveStutters DEF Next
<1> QED
  BY <1>1, ArchiveInit, PTL DEF Spec

\* What the variables hold: a program that converts has a reader whose traces
\* are at least the converted ones (convert.cpp:29), and every trace a later
\* program is given was read without an error.
THEOREM ArchiveTypes == Spec => []TypeOK
<1>1. ArchiveInv => TypeOK
  <2> SUFFICES ASSUME ArchiveInv PROVE TypeOK
    OBVIOUS
  <2>1. source.ok => Len(source.reads) <= source.count
    BY DEF ArchiveInv, SourceInv, Reads
  <2>2. ASSUME NEW i \in DOMAIN seen PROVE seen[i].ok
    <3>1. i \in 1..Len(seen) /\ seen[i] = back.reads[i]
      BY DEF ArchiveInv, SeenInv
    <3>2. back.ok
      <4>1. CASE ~back.ok
        BY <3>1, <4>1 DEF ArchiveInv, SeenInv
      <4> QED BY <4>1
    <3>3. Len(seen) \in Nat /\ Len(seen) <= Len(back.reads) /\ Len(back.reads) \in Nat
      BY <3>2 DEF ArchiveInv, SeenInv, BackInv
    <3>4. i \in 1..Len(back.reads)
      BY <3>1, <3>3
    <3>5. back.reads[i].ok
      BY <3>2, <3>4 DEF ArchiveInv, BackInv, SameTrace
    <3> QED BY <3>1, <3>5
  <2>3. StageInv
    BY DEF ArchiveInv
  <2> QED BY <2>1, <2>2, <2>3 DEF StageInv, TypeOK
<1> QED
  BY <1>1, ArchiveInductive, PTL

\* Whatever is converted (convert.cpp:25), a later program that can open the
\* output reads from it the converted traces, in order, and all of them if the
\* conversion came to its end.
THEOREM ArchiveIsReadBack == Spec => []ArchiveReadsBack
<1>1. ArchiveInv => ArchiveReadsBack
  <2> SUFFICES ASSUME ArchiveInv, back.ok, pc \in {"reading", "end"}
               PROVE  /\ \A i \in DOMAIN seen :
                           /\ seen[i].text = source.reads[i].text
                           /\ job.dst # "packed" \/ (opt.min_time = 0 /\ opt.max_time = 0) =>
                                 seen[i].samples = Restricted(Kept(source.reads[i]))
                      /\ pc = "end" /\ converted = source.count =>
                           Len(seen) = IF job.dst = "packed" THEN Limited(opt, converted) ELSE converted
    BY DEF ArchiveReadsBack
  <2>1. /\ Len(seen) \in Nat /\ seen = [i \in 1..Len(seen) |-> back.reads[i]]
        /\ Len(seen) <= Len(back.reads) /\ (pc = "end" => Len(seen) = Len(back.reads))
    BY DEF ArchiveInv, SeenInv
  <2>2. /\ Len(back.reads) \in Nat
        /\ \A i \in 1..Len(back.reads) : SameTrace(back.reads[i], source.reads[i])
        /\ converted = source.count =>
              Len(back.reads) = IF job.dst = "packed" THEN Limited(opt, converted) ELSE converted
    BY DEF ArchiveInv, BackInv
  <2>3. ASSUME NEW i \in DOMAIN seen
        PROVE  /\ seen[i].text = source.reads[i].text
               /\ job.dst # "packed" \/ (opt.min_time = 0 /\ opt.max_time = 0) =>
                     seen[i].samples = Restricted(Kept(source.reads[i]))
    <3>1. i \in 1..Len(seen) /\ seen[i] = back.reads[i]
      BY <2>1
    <3>2. i \in 1..Len(back.reads)
      BY <2>1, <2>2, <3>1
    <3> QED BY <2>2, <3>1, <3>2 DEF SameTrace
  <2> QED BY <2>1, <2>2, <2>3
<1> QED
  BY <1>1, ArchiveInductive, PTL

-----------------------------------------------------------------------------
(* What copy_trace makes of samples in order: an event has the power of the   *)
(* first sample that is not before it, or of the last one.                    *)

Rising(seq) == \A i, j \in 1..Len(seq) : i < j => seq[i].time < seq[j].time

HoldsAt(seq, t, p) ==
    IF Len(seq) = 0 THEN p = 0
    ELSE \E j \in 1..Len(seq) : /\ p = seq[j].power /\ (seq[j].time >= t \/ j = Len(seq))
                                /\ \A i \in 1..(j - 1) : seq[i].time < t

\* The same for the samples up to the k-th, none of which is left out.
Filled(seq, k, out) ==
    \A i \in 1..Len(out) : \E j \in 1..k : /\ out[i].power = seq[j].power /\ seq[j].time >= out[i].time
                                           /\ \A l \in 1..(j - 1) : seq[l].time < out[i].time

CopyInv(seq, E, k, acc) ==
    /\ acc \in CopyState(E) /\ acc.ok
    /\ acc.left = { e \in E : k > 0 => e > seq[k].time }
    /\ acc.last = IF k = 0 THEN 0 ELSE seq[k].power
    /\ acc.out # <<>> => k > 0 /\ Last(acc.out).time = seq[k].time
    /\ Filled(seq, k, acc.out)
    /\ Covers(acc.out, E \ acc.left)

LEMMA HeldPowers ==
    ASSUME NEW S \in FiniteInts, NEW p \in Int
    PROVE  /\ Held(S, p) \in Seq(SampleType) /\ Len(Held(S, p)) \in Nat
           /\ \A i \in 1..Len(Held(S, p)) : Held(S, p)[i].time \in S /\ Held(S, p)[i].power = p
<1> DEFINE n == Cardinality(S)
           u == Held(S, p)
           a == Ascending(S)
<1>1. n \in Nat /\ u = [i \in 1..n |-> Sample(a[i], p)]
  BY AscendingLists DEF Held
<1>2. Covers(u, S)
  BY CoversHeld
<1> HIDE DEF n, a
<1>3. Len(u) = n
  <2> DEFINE op(i) == Sample(a[i], p)
  <2>1. u = [i \in 1..n |-> op(i)]
    BY <1>1
  <2> HIDE DEF op, u
  <2> QED BY <1>1, <2>1
<1>4. \A i \in 1..n : u[i].power = p
  BY <1>1 DEF Sample
<1> HIDE DEF u
<1>5. u \in Seq(SampleType) /\ \A i \in 1..Len(u) : u[i].time \in S
  BY <1>2 DEF Covers
<1> QED
  BY <1>1, <1>3, <1>4, <1>5 DEF u

\* A sequence with one element more.
LEMMA OneAfter ==
    ASSUME NEW S, NEW u \in Seq(S), NEW v \in Seq(S), Len(v) = 1
    PROVE  /\ u \o v \in Seq(S) /\ Len(u \o v) = Len(u) + 1
           /\ \A i \in 1..(Len(u) + 1) : (u \o v)[i] = IF i <= Len(u) THEN u[i] ELSE v[i - Len(u)]
<1>1. /\ u \o v \in Seq(S) /\ Len(u \o v) = Len(u) + Len(v)
      /\ \A i \in 1..(Len(u) + Len(v)) : (u \o v)[i] = IF i <= Len(u) THEN u[i] ELSE v[i - Len(u)]
  BY ConcatProperties, Zenon
<1> QED
  BY <1>1

LEMMA CopyInvStep ==
    ASSUME NEW E \in FiniteInts, NEW seq \in Seq(SampleType), Rising(seq),
           \A i \in 1..Len(seq) : seq[i].time \in E,
           NEW k \in Nat, k + 1 <= Len(seq), NEW acc, CopyInv(seq, E, k, acc), NEW beyond \in BeyondType(E)
    PROVE  CopyInv(seq, E, k + 1, CopySample(beyond, acc, seq[k + 1]))
<1> DEFINE n == Len(seq)
           s == seq[k + 1]
           gap == { e \in acc.left : e < s.time }
           held == Held(gap, s.power)
           out == acc.out \o held \o <<s>>
           new == CopySample(beyond, acc, s)
<1>1. /\ n \in Nat /\ k + 1 \in 1..n /\ \A i \in 1..n : seq[i] \in SampleType /\ seq[i].time \in E
      /\ k > 0 => k \in 1..n /\ seq[k].time < seq[k + 1].time
  <2>1. n \in Nat /\ \A i \in 1..n : seq[i] \in SampleType
    BY LenProperties
  <2>2. k + 1 \in 1..n /\ (k > 0 => k \in 1..n)
    BY <2>1
  <2> QED BY <2>1, <2>2 DEF Rising
<1>2. E \subseteq Int /\ IsFiniteSet(E) /\ \A x \in E : x \in Int
  BY DEF FiniteInts
<1>3. /\ s \in SampleType /\ s.time \in Int /\ s.power \in Int /\ s.time \in E
  BY <1>1 DEF SampleType
<1>4. /\ acc \in CopyState(E) /\ acc.ok
      /\ acc.left = { e \in E : k > 0 => e > seq[k].time }
      /\ acc.out # <<>> => k > 0 /\ Last(acc.out).time = seq[k].time
      /\ Filled(seq, k, acc.out) /\ Covers(acc.out, E \ acc.left)
      /\ acc.out \in Seq(SampleType) /\ acc.left \in SUBSET E
  BY DEF CopyInv, CopyState
<1>5. ~(acc.out # <<>> /\ Last(acc.out).time = s.time)
  <2>1. ASSUME acc.out # <<>> PROVE Last(acc.out).time # s.time
    <3>1. k > 0 /\ Last(acc.out).time = seq[k].time /\ seq[k].time \in Int /\ seq[k].time < s.time
      BY <1>1, <1>2, <1>4, <2>1
    <3> QED BY <1>3, <3>1
  <2> QED BY <2>1
<1>6. s.time \in acc.left
  BY <1>1, <1>2, <1>3, <1>4
<1>7. new = [ok |-> TRUE, out |-> out, left |-> acc.left \ (gap \union {s.time}), last |-> s.power]
  <2> DEFINE rest == acc.left \ gap
             pushed == Sample(IF rest = {} THEN beyond.time ELSE Min(rest), s.power)
             left == IF rest = {} THEN beyond.left ELSE rest \ {Min(rest)}
             all == acc.out \o held \o <<pushed>>
  <2>1. new = [ok |-> TRUE, out |-> all, left |-> left, last |-> s.power]
    BY <1>4, <1>5 DEF CopySample
  <2>2. s.time \in rest /\ rest \in SUBSET Int /\ \A e \in rest : s.time <= e
    <3>1. s.time \in rest
      BY <1>3, <1>6
    <3>2. \A e \in rest : e \in E /\ ~(e < s.time)
      BY <1>4
    <3> DEFINE x == s.time
    <3> HIDE DEF rest, x
    <3>3. x \in Int /\ \A e \in rest : e \in Int /\ x <= e
      <4>1. x \in Int
        BY <1>3 DEF x
      <4>2. \A e \in rest : e \in Int /\ ~(e < x)
        BY <1>2, <3>2 DEF x
      <4> QED BY <4>1, <4>2
    <3>4. rest \in SUBSET Int
      BY <3>3
    <3> QED BY <3>1, <3>3, <3>4 DEF x
  <2>3. Sample(s.time, s.power) = s
    BY <1>1 DEF Sample, SampleType
  <2>4. left = acc.left \ (gap \union {s.time}) /\ pushed = s
    <3>1. Min(rest) = s.time /\ rest # {}
      <4> HIDE DEF rest, s
      <4> QED BY <2>2, OneExtreme
    <3>2. rest \ {s.time} = acc.left \ (gap \union {s.time})
      OBVIOUS
    <3> HIDE DEF rest, gap, s
    <3> QED BY <2>3, <3>1, <3>2
  <2>5. all = out
    <3> HIDE DEF pushed, held, s
    <3> QED BY <2>4
  <2> HIDE DEF out, all, left, gap, new, s
  <2> QED BY <2>1, <2>4, <2>5
<1>8. gap \in FiniteInts
  BY <1>2, <1>4, FS_Subset DEF FiniteInts
<1>9. /\ held \in Seq(SampleType) /\ Len(held) \in Nat
      /\ \A i \in 1..Len(held) : held[i].time \in gap /\ held[i].power = s.power
  <2> DEFINE p == s.power
  <2>1. p \in Int
    BY <1>3
  <2> HIDE DEF p, gap
  <2> QED BY <1>8, <2>1, HeldPowers DEF p
<1>10. new \in CopyState(E)
  BY <1>3, <1>4, CopyType
<1> DEFINE a == Len(acc.out)
           b == Len(held)
<1>11. /\ a \in Nat /\ b \in Nat /\ Len(out) = a + b + 1 /\ out \in Seq(SampleType) /\ Last(out) = s
       /\ \A i \in 1..(a + b + 1) : out[i] = IF i <= a THEN acc.out[i] ELSE IF i <= a + b THEN held[i - a] ELSE s
  <2> HIDE DEF held, s
  <2>1. a \in Nat /\ b \in Nat
    BY <1>4, <1>9, LenProperties
  <2>2. /\ acc.out \o held \in Seq(SampleType) /\ Len(acc.out \o held) = a + b
        /\ \A i \in 1..(a + b) : (acc.out \o held)[i] = IF i <= a THEN acc.out[i] ELSE held[i - a]
    BY <1>4, <1>9, ConcatProperties
  <2> DEFINE u == acc.out \o held
             one == <<s>>
  <2>3. one \in Seq(SampleType) /\ Len(one) = 1 /\ one[1] = s
    BY <1>3
  <2> HIDE DEF a, b, u, one
  <2>4. u \in Seq(SampleType)
    BY <2>2 DEF u
  <2>5. /\ u \o one \in Seq(SampleType) /\ Len(u \o one) = Len(u) + 1
        /\ \A i \in 1..(Len(u) + 1) : (u \o one)[i] = IF i <= Len(u) THEN u[i] ELSE one[i - Len(u)]
    BY <2>3, <2>4, OneAfter
  <2>6. out = u \o one
    BY DEF u, one
  <2>7. Len(u) = a + b
    BY <2>2 DEF u
  <2> HIDE DEF out
  <2>8. ASSUME NEW i \in 1..(a + b + 1)
        PROVE  out[i] = IF i <= a THEN acc.out[i] ELSE IF i <= a + b THEN held[i - a] ELSE s
    <3>1. CASE i <= a + b
      <4>1. i \in 1..(a + b) /\ out[i] = u[i]
        BY <2>1, <2>5, <2>6, <2>7, <3>1
      <4> QED BY <2>2, <3>1, <4>1 DEF u
    <3>2. CASE i > a + b
      <4>1. i = a + b + 1 /\ i - Len(u) = 1 /\ ~(i <= a) /\ ~(i <= Len(u))
        BY <2>1, <2>7, <3>2
      <4> QED BY <2>3, <2>5, <2>6, <2>7, <3>2, <4>1
    <3> QED BY <2>1, <3>1, <3>2
  <2>9. a + b + 1 \in 1..(a + b + 1) /\ ~(a + b + 1 <= a) /\ ~(a + b + 1 <= a + b) /\ Len(out) = a + b + 1
    BY <2>1, <2>5, <2>6, <2>7
  <2>10. Last(out) = s
    BY <2>8, <2>9 DEF Last
  <2> QED BY <2>1, <2>5, <2>6, <2>8, <2>9, <2>10
<1> HIDE DEF out, held, a, b
<1>12. Filled(seq, k + 1, out)
  <2>1. ASSUME NEW i \in 1..(a + b + 1)
        PROVE  \E j \in 1..(k + 1) : /\ out[i].power = seq[j].power /\ seq[j].time >= out[i].time
                                     /\ \A l \in 1..(j - 1) : seq[l].time < out[i].time
    <3>1. CASE i <= a
      <4>1. i \in 1..a /\ out[i] = acc.out[i]
        BY <1>11, <3>1
      <4>2. PICK j \in 1..k : /\ acc.out[i].power = seq[j].power /\ seq[j].time >= acc.out[i].time
                              /\ \A l \in 1..(j - 1) : seq[l].time < acc.out[i].time
        BY <1>4, <4>1 DEF Filled, a
      <4>3. j \in 1..(k + 1)
        OBVIOUS
      <4> QED BY <4>1, <4>2, <4>3
    <3>2. CASE a < i /\ i <= a + b
      <4>1. i - a \in 1..b /\ out[i] = held[i - a]
        BY <1>11, <3>2
      <4>2. out[i].time \in gap /\ out[i].power = s.power
        BY <1>9, <4>1 DEF b
      <4>3. out[i].time \in Int /\ out[i].time < s.time /\ (k > 0 => out[i].time > seq[k].time)
        BY <1>2, <1>4, <4>2
      <4>4. \A l \in 1..k : seq[l].time < out[i].time
        <5> TAKE l \in 1..k
        <5>4. k > 0 /\ l <= k /\ l >= 1
          OBVIOUS
        <5>5. k \in 1..n /\ l \in 1..n
          BY <1>1, <5>4
        <5>1. k \in 1..n /\ l \in 1..n /\ seq[l].time \in Int /\ seq[k].time \in Int /\ k > 0
          BY <1>1, <1>2, <5>4, <5>5
        <5>2. l < k => seq[l].time < seq[k].time
          BY <5>1 DEF Rising
        <5>3. l = k \/ l < k
          OBVIOUS
        <5> QED BY <4>3, <5>1, <5>2, <5>3
      <4>5. k + 1 \in 1..(k + 1) /\ (k + 1) - 1 = k /\ out[i].power = seq[k + 1].power /\ seq[k + 1].time >= out[i].time
        BY <1>3, <4>2, <4>3
      <4> QED BY <4>4, <4>5
    <3>3. CASE i = a + b + 1
      <4>1. out[i] = s
        BY <1>11, <3>3
      <4>2. \A l \in 1..k : seq[l].time < s.time
        <5> TAKE l \in 1..k
        <5>1. l \in 1..n /\ l < k + 1
          BY <1>1
        <5> QED BY <1>1, <5>1 DEF Rising
      <4>3. k + 1 \in 1..(k + 1) /\ (k + 1) - 1 = k /\ seq[k + 1].time >= s.time
        BY <1>3
      <4> QED BY <4>1, <4>2, <4>3
    <3> QED BY <1>11, <3>1, <3>2, <3>3
  <2> QED BY <1>11, <2>1 DEF Filled
<1>13. acc.left \ (gap \union {s.time}) = { e \in E : e > s.time }
  <2>1. ASSUME NEW e \in E PROVE e \in acc.left \ (gap \union {s.time}) <=> e > s.time
    <3>1. e \in Int /\ (e > s.time /\ k > 0 => e > seq[k].time)
      <4>1. k > 0 => seq[k].time \in Int /\ seq[k].time < s.time
        BY <1>1, <1>2
      <4> QED BY <1>2, <1>3, <4>1
    <3> QED BY <1>3, <1>4, <3>1
  <2> QED BY <1>4, <2>1
<1>14. Covers(out, E \ (acc.left \ (gap \union {s.time})))
  <2> DEFINE done == E \ acc.left
  <2>1. \A x \in done, y \in acc.left : x < y
    <3> SUFFICES ASSUME NEW x \in done, NEW y \in acc.left PROVE x < y
      OBVIOUS
    <3>1. x \in E /\ y \in E /\ k > 0 /\ ~(x > seq[k].time) /\ y > seq[k].time
      BY <1>4
    <3>2. seq[k].time \in Int
      BY <1>1, <1>2, <3>1
    <3> QED BY <1>2, <3>1, <3>2
  <2>2. Covers(held, gap) /\ Covers(<<s>>, {s.time})
    <3>1. Covers(<<s>>, {s.time})
      <4> HIDE DEF s
      <4> QED BY <1>3, CoversOne
    <3> HIDE DEF gap, s
    <3> QED BY <1>3, <1>8, <3>1, CoversHeld DEF held
  <2>3. Covers(acc.out \o held, done \union gap)
    <3>1. \A x \in done, y \in gap : x < y
      BY <2>1
    <3> HIDE DEF done, gap
    <3> QED BY <1>4, <2>2, <3>1, CoversConcat DEF done
  <2>4. Covers(out, done \union gap \union {s.time})
    <3>1. \A x \in done \union gap, y \in {s.time} : x < y
      BY <1>6, <2>1
    <3> HIDE DEF done, gap, s
    <3> QED BY <2>2, <2>3, <3>1, CoversConcat DEF out
  <2>5. E \ (acc.left \ (gap \union {s.time})) = done \union gap \union {s.time}
    BY <1>3, <1>4
  <2> QED BY <2>4, <2>5
<1> HIDE DEF gap, new, s
<1>15. /\ new.ok /\ new.out = out /\ new.left = { e \in E : e > s.time } /\ new.last = s.power
       /\ Covers(new.out, E \ new.left)
  BY <1>7, <1>13, <1>14
<1>16. k + 1 > 0 /\ k + 1 # 0
  OBVIOUS
<1>17. new.left = { e \in E : k + 1 > 0 => e > seq[k + 1].time }
  BY <1>15, <1>16 DEF s
<1> QED
  BY <1>10, <1>11, <1>12, <1>15, <1>16, <1>17 DEF CopyInv, new, s

\* A trace whose samples are at events, in order, is copied to all events.
LEMMA CopyHolds ==
    ASSUME NEW E \in FiniteInts, NEW seq \in Seq(SampleType), Rising(seq),
           \A i \in 1..Len(seq) : seq[i].time \in E, NEW text, NEW past \in PastType
    PROVE  LET read == copy_trace(text, seq, E, past) IN
           /\ read = Read(TRUE, text, read.samples) /\ Covers(read.samples, E)
           /\ \A i \in 1..Len(read.samples) : HoldsAt(seq, read.samples[i].time, read.samples[i].power)
<1> DEFINE n == Len(seq)
           beyond == Beyond(past, E)
<1>0. beyond \in BeyondType(E)
  BY BeyondEvents
<1>1. PICK A : /\ A[0] = CopyStart(E) /\ CopyLoop(beyond, E, seq) = A[n]
               /\ \A k \in 1..n : A[k] = CopySample(beyond, A[k - 1], seq[k])
  <2> HIDE DEF beyond
  <2> QED BY <1>0, CopyTurns
<1> DEFINE Ok == { k \in Nat : k <= n => CopyInv(seq, E, k, A[k]) }
<1>2. n \in Nat /\ \A i \in 1..n : seq[i] \in SampleType /\ seq[i].time \in Int /\ seq[i].power \in Int
  <2>1. n \in Nat /\ \A i \in 1..n : seq[i] \in SampleType
    BY LenProperties
  <2> QED BY <2>1 DEF SampleType
<1>3. E \subseteq Int /\ IsFiniteSet(E) /\ \A x \in E : x \in Int
  BY DEF FiniteInts
<1>4. 0 \in Ok
  <2>1. CopyStart(E) \in CopyState(E)
    BY DEF CopyStart, CopyState
  <2>2. CopyStart(E) = [ok |-> TRUE, out |-> <<>>, left |-> E, last |-> 0]
    BY DEF CopyStart
  <2>3. ~(0 > 0) /\ E = { e \in E : 0 > 0 => e > seq[0].time }
    OBVIOUS
  <2>4. Filled(seq, 0, <<>>)
    BY DEF Filled
  <2>5. Covers(<<>>, E \ E)
    BY DEF Covers
  <2>6. CopyInv(seq, E, 0, CopyStart(E))
    BY <2>1, <2>2, <2>3, <2>4, <2>5 DEF CopyInv
  <2> QED BY <1>1, <2>6
<1>5. ASSUME NEW k \in Nat, k \in Ok PROVE k + 1 \in Ok
  <2> SUFFICES ASSUME k + 1 <= n PROVE CopyInv(seq, E, k + 1, A[k + 1])
    OBVIOUS
  <2>1. k + 1 \in 1..n /\ (k + 1) - 1 = k /\ k <= n
    BY <1>2
  <2>2. CopyInv(seq, E, k, A[k]) /\ A[k + 1] = CopySample(beyond, A[k], seq[k + 1])
    BY <1>1, <1>5, <2>1
  <2> HIDE DEF beyond
  <2> QED BY <1>0, <2>1, <2>2, CopyInvStep
<1> DEFINE acc == A[n]
           held == Held(acc.left, acc.last)
           out == acc.out \o held
<1>6. CopyInv(seq, E, n, acc)
  <2>1. n \in Ok
    <3> HIDE DEF Ok
    <3> QED BY <1>2, <1>4, <1>5, Induction
  <2> QED BY <1>2, <2>1
<1>7. copy_trace(text, seq, E, past) = Read(TRUE, text, out)
  <2>1. copy_trace(text, seq, E, past) = Read(acc.ok, text, out)
    BY <1>1 DEF copy_trace, CopyLoop, CopyStart
  <2>2. acc.ok = TRUE
    BY <1>6 DEF CopyInv, CopyState
  <2> HIDE DEF acc, out
  <2> QED BY <2>1, <2>2
<1> HIDE DEF acc
<1>8. /\ acc \in CopyState(E) /\ acc.left = { e \in E : n > 0 => e > seq[n].time }
      /\ acc.last = IF n = 0 THEN 0 ELSE seq[n].power
      /\ acc.out # <<>> => n > 0 /\ Last(acc.out).time = seq[n].time
      /\ Filled(seq, n, acc.out) /\ Covers(acc.out, E \ acc.left)
  BY <1>6 DEF CopyInv
<1>9. acc.out \in Seq(SampleType) /\ acc.left \in FiniteInts /\ acc.last \in Int
  BY <1>3, <1>8, FS_Subset DEF CopyState, FiniteInts
<1>10. /\ held \in Seq(SampleType) /\ Len(held) \in Nat
       /\ \A i \in 1..Len(held) : held[i].time \in acc.left /\ held[i].power = acc.last
  BY <1>9, HeldPowers
<1> HIDE DEF held, n
<1>11. /\ out \in Seq(SampleType) /\ Len(acc.out) \in Nat /\ Len(out) = Len(acc.out) + Len(held)
       /\ \A i \in 1..(Len(acc.out) + Len(held)) :
             out[i] = IF i <= Len(acc.out) THEN acc.out[i] ELSE held[i - Len(acc.out)]
  BY <1>9, <1>10, LenProperties, ConcatProperties
<1>12. Covers(out, E)
  <2>1. Covers(Held(acc.left, acc.last), acc.left)
    BY <1>9, CoversHeld
  <2>2. \A x \in E \ acc.left, y \in acc.left : x < y
    <3> SUFFICES ASSUME NEW x \in E \ acc.left, NEW y \in acc.left PROVE x < y
      OBVIOUS
    <3>1. x \in E /\ y \in E /\ n > 0 /\ ~(x > seq[n].time) /\ y > seq[n].time
      BY <1>8
    <3>2. seq[n].time \in Int
      BY <1>2, <3>1 DEF n
    <3> QED BY <1>3, <3>1, <3>2
  <2>3. (E \ acc.left) \union acc.left = E
    BY <1>8 DEF CopyState
  <2>4. Covers(out, (E \ acc.left) \union acc.left)
    BY <1>8, <2>1, <2>2, CoversConcat DEF held
  <2> QED BY <2>3, <2>4
<1> HIDE DEF out
<1> DEFINE a == Len(acc.out)
           b == Len(held)
<1>13. ASSUME NEW i \in 1..Len(out) PROVE HoldsAt(seq, out[i].time, out[i].power)
  <2>0. a \in Nat /\ b \in Nat /\ i \in 1..(a + b) /\ out[i] = IF i <= a THEN acc.out[i] ELSE held[i - a]
    BY <1>10, <1>11
  <2> HIDE DEF a, b
  <2>1. CASE i <= a
    <3>1. i \in 1..a /\ out[i] = acc.out[i]
      BY <2>0, <2>1
    <3>2. PICK j \in 1..n : /\ acc.out[i].power = seq[j].power /\ seq[j].time >= acc.out[i].time
                            /\ \A l \in 1..(j - 1) : seq[l].time < acc.out[i].time
      BY <1>8, <3>1 DEF Filled, a
    <3>3. n # 0
      BY <1>2, <3>2
    <3> QED BY <3>1, <3>2, <3>3 DEF HoldsAt, n
  <2>2. CASE ~(i <= a)
    <3>1. i - a \in 1..b /\ out[i] = held[i - a]
      BY <2>0, <2>2
    <3>2. out[i].time \in acc.left /\ out[i].power = acc.last
      BY <1>10, <3>1 DEF b
    <3>3. out[i].time \in Int /\ (n > 0 => out[i].time > seq[n].time)
      BY <1>3, <1>8, <3>2
    <3>4. CASE n = 0
      <4>1. out[i].power = 0
        BY <1>8, <3>2, <3>4
      <4> QED BY <3>4, <4>1 DEF HoldsAt, n
    <3>5. CASE n # 0
      <4>1. n > 0 /\ n \in 1..n /\ seq[n].time \in Int
        BY <1>2, <3>5
      <4>2. \A l \in 1..(n - 1) : seq[l].time < out[i].time
        <5> TAKE l \in 1..(n - 1)
        <5>1. l \in 1..n /\ l < n
          BY <1>2
        <5>2. seq[l].time < seq[n].time /\ seq[l].time \in Int
          BY <1>2, <4>1, <5>1 DEF Rising, n
        <5> QED BY <3>3, <4>1, <5>2
      <4>3. out[i].power = seq[n].power
        BY <1>8, <3>2, <3>5
      <4> QED BY <3>5, <4>1, <4>2, <4>3 DEF HoldsAt, n
    <3> QED BY <3>4, <3>5
  <2> QED BY <2>1, <2>2
<1>14. copy_trace(text, seq, E, past).samples = out
  BY <1>7 DEF Read
<1> QED
  BY <1>7, <1>12, <1>13, <1>14

-----------------------------------------------------------------------------
(* The lines of one waveform: which belong to the trace of a record, as far   *)
(* as the m-th line.                                                          *)

Start(file, i) == file.records[i].event \div file.resolution
IsEvent(file, l) == file.lines[l].kind = "event"
EventsTo(file, l) == {k \in 1..l : IsEvent(file, k)}
At(file, l) == file.lines[Max(EventsTo(file, l))].value

Belongs(o, file, i, l) ==
    /\ EventsTo(file, l) # {}
    /\ Start(file, i) <= At(file, l) /\ At(file, l) < Start(file, i + 1)
    /\ InWindow(o, At(file, l) - Start(file, i))

OwnTo(o, file, i, m) == {l \in 1..m : Belongs(o, file, i, l)}
TimesTo(o, file, i, m) == {At(file, l) - Start(file, i) : l \in OwnTo(o, file, i, m)}
PowerLines(o, file, i, m, t) ==
    {l \in OwnTo(o, file, i, m) : file.lines[l].kind = "power" /\ At(file, l) - Start(file, i) = t}
LineSum(file, S) == MapThenSumSet(LAMBDA l : file.lines[l].value, S)
PowerTo(o, file, i, m, t) == LineSum(file, PowerLines(o, file, i, m, t))

\* The samples of a trace, as far as the m-th line.
Shows(seq, o, file, i, m) ==
    /\ Covers(seq, TimesTo(o, file, i, m))
    /\ \A j \in 1..Len(seq) : seq[j].power = PowerTo(o, file, i, m, seq[j].time)

\* The same, to the digits that the temporary file keeps.
DumpShows(seq, o, file, i, m) ==
    /\ Covers(seq, TimesTo(o, file, i, m))
    /\ \A j \in 1..Len(seq) : seq[j].power = Printed(PowerTo(o, file, i, m, seq[j].time))

LEMMA DumpCovers ==
    ASSUME NEW S, NEW seq, Covers(seq, S)
    PROVE  Covers(Dumped(seq), S)
<1>1. /\ Dumped(seq) \in Seq(SampleType) /\ Len(Dumped(seq)) = Len(seq)
      /\ \A j \in 1..Len(seq) : Dumped(seq)[j].time = seq[j].time
  BY DumpedIs DEF Covers
<1> QED
  BY <1>1 DEF Covers

LEMMA DumpIs ==
    ASSUME NEW o, NEW file, NEW i, NEW m, NEW seq, Shows(seq, o, file, i, m)
    PROVE  DumpShows(Dumped(seq), o, file, i, m)
<1>1. /\ Len(Dumped(seq)) = Len(seq)
      /\ \A j \in 1..Len(seq) : /\ Dumped(seq)[j].time = seq[j].time
                                 /\ Dumped(seq)[j].power = Printed(seq[j].power)
  BY DumpedIs DEF Shows, Covers
<1>2. Covers(Dumped(seq), TimesTo(o, file, i, m))
  BY DumpCovers DEF Shows
<1> QED
  BY <1>1, <1>2 DEF Shows, DumpShows

FileType == [records : Seq([event : Nat, m : Text, c : Text]), resolution : Nat \ {0}, lines : Seq(WaveLine)]

LEMMA LineSums ==
    ASSUME NEW file \in FileType
    PROVE  /\ LineSum(file, {}) = 0
           /\ \A S \in SUBSET DOMAIN file.lines : LineSum(file, S) \in Int
           /\ \A S \in SUBSET DOMAIN file.lines, l \in DOMAIN file.lines :
                 l \notin S => LineSum(file, S \union {l}) = LineSum(file, S) + file.lines[l].value
<1> DEFINE D == DOMAIN file.lines
           g == [l \in D |-> file.lines[l].value]
<1>1. file.lines \in Seq(WaveLine) /\ D = 1..Len(file.lines) /\ Len(file.lines) \in Nat
  BY LenProperties DEF FileType
<1>2. IsFiniteSet(D) /\ g \in [D -> Int] /\ \A l \in D : g[l] = file.lines[l].value
  <2>3. \A l \in D : file.lines[l] \in WaveLine
    BY <1>1, ElementOfSeq
  <2>1. \A l \in D : file.lines[l].value \in Int
    BY <2>3 DEF WaveLine
  <2>2. IsFiniteSet(D)
    BY <1>1, FS_Interval
  <2> QED BY <2>1, <2>2
<1>3. \A S \in SUBSET D : LineSum(file, S) = Total(g, S)
  <2> TAKE S \in SUBSET D
  <2> DEFINE IsIter(F) == F = [s \in SUBSET S |-> IF s = {} THEN 0
                                 ELSE file.lines[One(s)].value + F[s \ {One(s)}]]
  <2>1. LineSum(file, S) = (CHOOSE F : IsIter(F))[S]
    BY DEF LineSum, MapThenSumSet, MapThenFoldSet, One
  <2>2. \A F : IsIter(F) <=> Adds(g, F, S)
    <3> TAKE F
    <3> DEFINE p(s) == IF s = {} THEN 0 ELSE file.lines[One(s)].value + F[s \ {One(s)}]
               q(s) == IF s = {} THEN 0 ELSE g[One(s)] + F[s \ {One(s)}]
    <3>1. \A s \in SUBSET S : p(s) = q(s)
      BY <1>2 DEF One
    <3> HIDE DEF p, q
    <3>2. [s \in SUBSET S |-> p(s)] = [s \in SUBSET S |-> q(s)]
      BY <3>1
    <3> QED BY <3>2 DEF Adds, p, q
  <2> HIDE DEF IsIter
  <2>3. (CHOOSE F : IsIter(F)) = (CHOOSE F : Adds(g, F, S))
    BY <2>2, Zenon
  <2> QED BY <2>1, <2>3 DEF Total
<1> HIDE DEF g, D
<1>4. /\ Total(g, {}) = 0
      /\ \A S \in SUBSET D : Total(g, S) \in Int
      /\ \A S \in SUBSET D, x \in D : x \notin S => Total(g, S \union {x}) = Total(g, S) + g[x]
  BY <1>2, TotalInsert
<1>5. \A S \in SUBSET D, x \in D : S \union {x} \in SUBSET D
  OBVIOUS
<1>6. /\ LineSum(file, {}) = 0
      /\ \A S \in SUBSET D : LineSum(file, S) \in Int
      /\ \A S \in SUBSET D, l \in D :
            l \notin S => LineSum(file, S \union {l}) = LineSum(file, S) + file.lines[l].value
  BY <1>2, <1>3, <1>4, <1>5
<1> QED
  BY <1>6 DEF D

LEMMA FileTypes ==
    ASSUME NEW file \in FileType
    PROVE  /\ Len(file.lines) \in Nat /\ DOMAIN file.lines = 1..Len(file.lines)
           /\ Len(file.records) \in Nat /\ DOMAIN file.records = 1..Len(file.records)
           /\ \A l \in 1..Len(file.lines) : file.lines[l] \in WaveLine /\ file.lines[l].value \in Int
           /\ \A i \in 1..Len(file.records) : Start(file, i) \in Int
<1>1. /\ file.lines \in Seq(WaveLine) /\ file.records \in Seq([event : Nat, m : Text, c : Text])
      /\ file.resolution \in Nat \ {0}
  BY DEF FileType
<1>2. \A l \in 1..Len(file.lines) : file.lines[l] \in WaveLine
  BY <1>1, ElementOfSeq
<1>3. \A l \in 1..Len(file.lines) : file.lines[l].value \in Int
  BY <1>2 DEF WaveLine
<1>4. \A i \in 1..Len(file.records) : file.records[i].event \in Nat
  <2>1. \A i \in 1..Len(file.records) : file.records[i] \in [event : Nat, m : Text, c : Text]
    BY <1>1, ElementOfSeq
  <2> QED BY <2>1
<1>5. \A i \in 1..Len(file.records) : Start(file, i) \in Int
  BY <1>1, <1>4 DEF Start
<1> QED
  BY <1>1, <1>2, <1>3, <1>5, LenProperties

\* The time of a line is that of the last event up to it.
LEMMA LastEvent ==
    ASSUME NEW file \in FileType, NEW l \in 1..Len(file.lines), EventsTo(file, l) # {}
    PROVE  \E e \in EventsTo(file, l) :
              /\ At(file, l) = file.lines[e].value /\ At(file, l) \in Int
              /\ EventsTo(file, e) # {} /\ At(file, e) = At(file, l)
              /\ \A k \in EventsTo(file, l) : k <= e
<1>1. Len(file.lines) \in Nat /\ \A k \in 1..Len(file.lines) : file.lines[k].value \in Int
  BY FileTypes
<1> DEFINE S == EventsTo(file, l)
           e == Max(S)
<1>2. S \subseteq 1..l /\ l \in Nat /\ S # {}
  BY <1>1 DEF EventsTo
<1> HIDE DEF S
<1>3. e \in S /\ \A k \in S : k <= e
  BY <1>2, Largest
<1> HIDE DEF e
<1>4. e \in 1..l /\ e \in Nat
  BY <1>2, <1>3
<1>11. e \in 1..Len(file.lines)
  <2> DEFINE n == Len(file.lines)
  <2>1. n \in Nat /\ l \in 1..n
    BY <1>1
  <2> HIDE DEF n
  <2>2. e \in 1..n
    BY <1>2, <1>4, <2>1
  <2> QED BY <2>2 DEF n
<1> DEFINE R == EventsTo(file, e)
           d == Max(R)
<1>5. R \subseteq 1..e /\ e \in R /\ R \subseteq S /\ R # {}
  BY <1>2, <1>3, <1>4 DEF EventsTo, S
<1> HIDE DEF R
<1>6. d \in R /\ \A k \in R : k <= d
  BY <1>4, <1>5, Largest
<1> HIDE DEF d
<1>12. d \in Int /\ e <= d /\ d <= e
  BY <1>4, <1>5, <1>6
<1>7. d = e
  BY <1>4, <1>12
<1>8. At(file, l) = file.lines[e].value /\ At(file, e) = file.lines[e].value
  BY <1>7 DEF At, R, S, e, d
<1>9. At(file, l) \in Int
  BY <1>1, <1>8, <1>11
<1>10. R # {}
  BY <1>5
<1> QED
  BY <1>3, <1>8, <1>9, <1>10 DEF S, R

LEMMA EventHere ==
    ASSUME NEW file \in FileType, NEW l \in 1..Len(file.lines), IsEvent(file, l)
    PROVE  EventsTo(file, l) # {} /\ At(file, l) = file.lines[l].value
<1>1. Len(file.lines) \in Nat
  BY FileTypes
<1>2. l \in EventsTo(file, l)
  BY <1>1 DEF EventsTo
<1>3. PICK e \in EventsTo(file, l) : At(file, l) = file.lines[e].value /\ \A k \in EventsTo(file, l) : k <= e
  BY <1>2, LastEvent
<1>4. e <= l /\ l <= e /\ e \in Nat
  BY <1>1, <1>2, <1>3 DEF EventsTo
<1> QED
  BY <1>1, <1>2, <1>3, <1>4

\* In a waveform in order the times of the lines do not fall.
LEMMA TimesRise ==
    ASSUME NEW file \in FileType, InOrder(file), NEW l \in 1..Len(file.lines), NEW k \in 1..l,
           EventsTo(file, k) # {}
    PROVE  /\ EventsTo(file, l) # {} /\ At(file, l) \in Int /\ At(file, k) \in Int
           /\ At(file, k) <= At(file, l)
<1>1. Len(file.lines) \in Nat /\ DOMAIN file.lines = 1..Len(file.lines) /\ k \in 1..Len(file.lines) /\ k <= l
  BY FileTypes
<1>2. EventsTo(file, k) \subseteq EventsTo(file, l)
  BY <1>1 DEF EventsTo
<1>3. PICK d \in EventsTo(file, k) : At(file, k) = file.lines[d].value /\ At(file, k) \in Int
  BY <1>1, LastEvent
<1>4. PICK e \in EventsTo(file, l) : /\ At(file, l) = file.lines[e].value /\ At(file, l) \in Int
                                     /\ \A j \in EventsTo(file, l) : j <= e
  BY <1>2, LastEvent
<1>5. d <= e /\ d \in 1..Len(file.lines) /\ e \in 1..Len(file.lines) /\ IsEvent(file, d) /\ IsEvent(file, e)
  BY <1>1, <1>2, <1>3, <1>4 DEF EventsTo
<1>6. d < e => file.lines[d].value <= file.lines[e].value
  BY <1>1, <1>5 DEF InOrder, IsEvent
<1>7. d = e \/ d < e
  BY <1>5
<1>8. At(file, k) <= At(file, l)
  <2>1. CASE d = e
    BY <1>3, <1>4, <2>1
  <2>2. CASE d < e
    BY <1>3, <1>4, <1>6, <2>2
  <2> QED BY <1>7, <2>1, <2>2
<1> QED
  BY <1>2, <1>3, <1>4, <1>8

\* The last event before a line of a trace is of that trace too.
LEMMA OwnEvent ==
    ASSUME NEW file \in FileType, NEW o, NEW i, NEW l \in 1..Len(file.lines), Belongs(o, file, i, l)
    PROVE  \E e \in EventsTo(file, l) :
              Belongs(o, file, i, e) /\ IsEvent(file, e) /\ e \in 1..l /\ At(file, e) = At(file, l)
<1>1. PICK e \in EventsTo(file, l) : EventsTo(file, e) # {} /\ At(file, e) = At(file, l)
  BY LastEvent DEF Belongs
<1>2. IsEvent(file, e) /\ e \in 1..l
  BY <1>1 DEF EventsTo
<1>3. Belongs(o, file, i, e)
  BY <1>1 DEF Belongs
<1> QED
  BY <1>1, <1>2, <1>3

\* One line more.
LEMMA OwnNext ==
    ASSUME NEW file \in FileType, NEW o, NEW i, NEW m \in Nat
    PROVE  /\ OwnTo(o, file, i, m + 1) = OwnTo(o, file, i, m) \union (IF Belongs(o, file, i, m + 1) THEN {m + 1} ELSE {})
           /\ m + 1 \notin OwnTo(o, file, i, m)
           /\ OwnTo(o, file, i, m) \subseteq 1..m
<1>1. 1..(m + 1) = 1..m \union {m + 1} /\ m + 1 \notin 1..m
  OBVIOUS
<1> QED
  BY <1>1 DEF OwnTo

LEMMA NotOwn ==
    ASSUME NEW file \in FileType, NEW o, NEW i, NEW m \in Nat, ~Belongs(o, file, i, m + 1)
    PROVE  /\ TimesTo(o, file, i, m + 1) = TimesTo(o, file, i, m)
           /\ \A seq : Shows(seq, o, file, i, m) => Shows(seq, o, file, i, m + 1)
           /\ \A seq : DumpShows(seq, o, file, i, m) => DumpShows(seq, o, file, i, m + 1)
<1>1. OwnTo(o, file, i, m + 1) = OwnTo(o, file, i, m)
  BY OwnNext
<1> QED
  BY <1>1 DEF TimesTo, Shows, DumpShows, PowerTo, PowerLines

LEMMA PowersOf ==
    ASSUME NEW file \in FileType, NEW o, NEW i, NEW m \in 0..Len(file.lines), NEW t
    PROVE  /\ PowerLines(o, file, i, m, t) \in SUBSET (1..m)
           /\ PowerLines(o, file, i, m, t) \in SUBSET DOMAIN file.lines
           /\ PowerTo(o, file, i, m, t) \in Int
           /\ t \notin TimesTo(o, file, i, m) => PowerTo(o, file, i, m, t) = 0
<1>1. DOMAIN file.lines = 1..Len(file.lines) /\ Len(file.lines) \in Nat /\ m \in Nat
  BY FileTypes
<1>2. PowerLines(o, file, i, m, t) \in SUBSET (1..m)
  BY DEF PowerLines, OwnTo
<1>3. PowerLines(o, file, i, m, t) \in SUBSET DOMAIN file.lines
  BY <1>1, <1>2
<1>4. t \notin TimesTo(o, file, i, m) => PowerLines(o, file, i, m, t) = {}
  BY DEF PowerLines, TimesTo
<1> QED
  BY <1>2, <1>3, <1>4, LineSums DEF PowerTo

\* An event of the trace adds its time, if it is not there.
LEMMA EventOwn ==
    ASSUME NEW file \in FileType, NEW o, NEW i, NEW m \in Nat, m + 1 <= Len(file.lines),
           Belongs(o, file, i, m + 1), file.lines[m + 1].kind # "power"
    PROVE  /\ TimesTo(o, file, i, m + 1) = TimesTo(o, file, i, m) \union {At(file, m + 1) - Start(file, i)}
           /\ \A t : PowerTo(o, file, i, m + 1, t) = PowerTo(o, file, i, m, t)
<1>1. OwnTo(o, file, i, m + 1) = OwnTo(o, file, i, m) \union {m + 1}
  BY OwnNext
<1>2. \A t : PowerLines(o, file, i, m + 1, t) = PowerLines(o, file, i, m, t)
  BY <1>1 DEF PowerLines
<1> QED
  BY <1>1, <1>2 DEF TimesTo, PowerTo

LEMMA PowerOwn ==
    ASSUME NEW file \in FileType, NEW o, NEW i, NEW m \in Nat, m + 1 <= Len(file.lines),
           Belongs(o, file, i, m + 1), file.lines[m + 1].kind = "power"
    PROVE  LET d == At(file, m + 1) - Start(file, i) IN
           /\ d \in TimesTo(o, file, i, m)
           /\ TimesTo(o, file, i, m + 1) = TimesTo(o, file, i, m)
           /\ \A t : PowerTo(o, file, i, m + 1, t) =
                        IF t = d THEN PowerTo(o, file, i, m, t) + file.lines[m + 1].value
                        ELSE PowerTo(o, file, i, m, t)
<1> DEFINE d == At(file, m + 1) - Start(file, i)
<1>1. m + 1 \in 1..Len(file.lines) /\ m + 1 \in DOMAIN file.lines /\ m \in 0..Len(file.lines)
  BY FileTypes
<1>2. OwnTo(o, file, i, m + 1) = OwnTo(o, file, i, m) \union {m + 1} /\ m + 1 \notin OwnTo(o, file, i, m)
  BY OwnNext
<1>3. PICK e \in 1..(m + 1) : Belongs(o, file, i, e) /\ IsEvent(file, e) /\ At(file, e) = At(file, m + 1)
  BY <1>1, OwnEvent
<1>4. e # m + 1
  BY <1>3 DEF IsEvent
<1>5. e \in 1..m
  BY <1>3, <1>4
<1>6. d \in TimesTo(o, file, i, m)
  BY <1>3, <1>5 DEF TimesTo, OwnTo
<1>7. TimesTo(o, file, i, m + 1) = TimesTo(o, file, i, m)
  BY <1>2, <1>6 DEF TimesTo
<1>8. ASSUME NEW t
      PROVE  PowerTo(o, file, i, m + 1, t) =
                IF t = d THEN PowerTo(o, file, i, m, t) + file.lines[m + 1].value ELSE PowerTo(o, file, i, m, t)
  <2> DEFINE S == PowerLines(o, file, i, m, t)
             T == PowerLines(o, file, i, m + 1, t)
  <2>1. T = IF t = d THEN S \union {m + 1} ELSE S
    BY <1>2 DEF PowerLines
  <2>2. m + 1 \notin S
    BY <1>2 DEF PowerLines
  <2>3. S \in SUBSET DOMAIN file.lines
    BY <1>1, PowersOf
  <2> HIDE DEF S, T, d
  <2>4. CASE t = d
    <3>1. T = S \union {m + 1}
      BY <2>1, <2>4
    <3>2. LineSum(file, T) = LineSum(file, S) + file.lines[m + 1].value
      BY <1>1, <2>2, <2>3, <3>1, LineSums
    <3> QED BY <2>4, <3>2 DEF PowerTo, S, T
  <2>5. CASE t # d
    <3>1. T = S
      BY <2>1, <2>5
    <3> QED BY <2>5, <3>1 DEF PowerTo, S, T
  <2> QED BY <2>4, <2>5
<1> HIDE DEF d
<1>9. /\ d \in TimesTo(o, file, i, m)
      /\ TimesTo(o, file, i, m + 1) = TimesTo(o, file, i, m)
      /\ \A t : PowerTo(o, file, i, m + 1, t) =
                   IF t = d THEN PowerTo(o, file, i, m, t) + file.lines[m + 1].value ELSE PowerTo(o, file, i, m, t)
  BY <1>6, <1>7, <1>8
<1> QED
  BY <1>9 DEF d

\* The waveform has gone past the end of a trace.
Passed(file, i, m) == \E l \in EventsTo(file, m) : file.lines[l].value >= Start(file, i + 1)

Numbers(file) == 1..(Len(file.records) - 1)
EventsOf(o, file, m) == UNION {TimesTo(o, file, i, m) : i \in Numbers(file)}

LEMMA PassedNext ==
    ASSUME NEW file \in FileType, NEW i, NEW m \in Nat
    PROVE  Passed(file, i, m + 1) <=>
              \/ Passed(file, i, m)
              \/ IsEvent(file, m + 1) /\ file.lines[m + 1].value >= Start(file, i + 1)
<1>1. 1..(m + 1) = 1..m \union {m + 1}
  OBVIOUS
<1>2. EventsTo(file, m + 1) = EventsTo(file, m) \union (IF IsEvent(file, m + 1) THEN {m + 1} ELSE {})
  BY <1>1 DEF EventsTo
<1> QED
  BY <1>2 DEF Passed

\* No line after that is of the trace.
LEMMA PassedOver ==
    ASSUME NEW file \in FileType, InOrder(file), NEW o, NEW i \in Numbers(file), NEW m \in Nat,
           m + 1 <= Len(file.lines), Passed(file, i, m)
    PROVE  ~Belongs(o, file, i, m + 1)
<1>1. Len(file.lines) \in Nat /\ Len(file.records) \in Nat /\ Start(file, i + 1) \in Int
      /\ \A l \in 1..Len(file.lines) : file.lines[l].value \in Int
  <2>1. Len(file.records) \in Nat /\ i + 1 \in 1..Len(file.records)
    BY FileTypes DEF Numbers
  <2> QED BY <2>1, FileTypes
<1>2. PICK e \in EventsTo(file, m) : file.lines[e].value >= Start(file, i + 1)
  BY DEF Passed
<1>3. IsEvent(file, e) /\ e \in 1..m /\ e \in 1..Len(file.lines) /\ e \in 1..(m + 1) /\ m + 1 \in 1..Len(file.lines)
  BY <1>1, <1>2 DEF EventsTo
<1>4. EventsTo(file, e) # {} /\ At(file, e) = file.lines[e].value
  BY <1>3, EventHere
<1>5. At(file, m + 1) \in Int /\ At(file, e) <= At(file, m + 1)
  BY <1>3, <1>4, TimesRise
<1>6. ~(At(file, m + 1) < Start(file, i + 1))
  <2>1. file.lines[e].value \in Int
    BY <1>1, <1>3
  <2> QED BY <1>1, <1>2, <1>4, <1>5, <2>1
<1> QED
  BY <1>6 DEF Belongs

\* A waveform that goes past the end of a trace has been in it, and before that
\* was past the end of the trace before.
LEMMA PassedBefore ==
    ASSUME NEW file \in FileType, InOrder(file), NEW i \in Numbers(file), NEW m \in 0..Len(file.lines),
           Passed(file, i, m)
    PROVE  /\ Start(file, i) < Start(file, i + 1)
           /\ \E l \in EventsTo(file, m) : Start(file, i) <= file.lines[l].value /\ file.lines[l].value < Start(file, i + 1)
<1>1. /\ Len(file.lines) \in Nat /\ DOMAIN file.lines = 1..Len(file.lines) /\ m \in Nat /\ m <= Len(file.lines)
      /\ \A l \in 1..Len(file.lines) : file.lines[l].value \in Int
      /\ Start(file, i) \in Int /\ Start(file, i + 1) \in Int
  <2>1. Len(file.records) \in Nat /\ i \in 1..Len(file.records) /\ i + 1 \in 1..Len(file.records)
    BY FileTypes DEF Numbers
  <2> QED BY <2>1, FileTypes
<1>2. PICK e \in EventsTo(file, m) : file.lines[e].value >= Start(file, i + 1)
  BY DEF Passed
<1>3. IsEvent(file, e) /\ e \in 1..m /\ e \in 1..Len(file.lines)
  BY <1>1, <1>2 DEF EventsTo
<1> DEFINE events == {l \in DOMAIN file.lines : file.lines[l].kind = "event"}
<1>4. \E l \in events : Start(file, i) <= file.lines[l].value /\ file.lines[l].value < Start(file, i + 1)
  <2>1. e \in events
    BY <1>1, <1>3 DEF IsEvent
  <2> QED BY <1>2, <2>1 DEF InOrder, Numbers, Start
<1>5. PICK l \in events : Start(file, i) <= file.lines[l].value /\ file.lines[l].value < Start(file, i + 1)
  BY <1>4
<1>6. file.lines[l].value < file.lines[e].value
  <2>1. file.lines[l].value \in Int /\ file.lines[e].value \in Int
    BY <1>1, <1>3, <1>5
  <2> QED BY <1>1, <1>2, <1>5, <2>1
<1>7. ~(e <= l)
  <2>1. l \in 1..Len(file.lines) /\ e \in events
    BY <1>1, <1>3, <1>5 DEF IsEvent
  <2>2. file.lines[l].value \in Int /\ file.lines[e].value \in Int
    BY <1>1, <1>3, <2>1
  <2>3. e < l => file.lines[e].value <= file.lines[l].value
    BY <1>5, <2>1 DEF InOrder
  <2>4. l \in Int /\ e \in Int
    BY <1>1, <2>1, <1>3
  <2>5. e <= l => e = l \/ e < l
    BY <2>4
  <2> QED BY <1>6, <2>2, <2>3, <2>5
<1>8. l \in EventsTo(file, m)
  <2>1. l \in 1..Len(file.lines)
    BY <1>1, <1>5
  <2>2. l \in 1..m
    BY <1>1, <1>3, <1>7, <2>1
  <2> QED BY <1>5, <2>2 DEF EventsTo, IsEvent
<1>9. Start(file, i) < Start(file, i + 1)
  <2>1. file.lines[l].value \in Int
    BY <1>1, <1>5
  <2> QED BY <1>1, <1>5, <2>1
<1> QED
  BY <1>5, <1>8, <1>9

\* Until the waveform goes past the end of a trace it does not go past any later one.
LEMMA NotYet ==
    ASSUME NEW file \in FileType, InOrder(file), NEW i \in Numbers(file), NEW m \in 0..Len(file.lines),
           ~Passed(file, i, m)
    PROVE  \A j \in Numbers(file) : i <= j => ~Passed(file, j, m)
<1> DEFINE Ok == { n \in Nat : i + n \in Numbers(file) => ~Passed(file, i + n, m) }
<1>1. i \in Nat /\ Len(file.records) \in Nat
  BY FileTypes DEF Numbers
<1>2. 0 \in Ok
  <2>1. i + 0 = i
    BY <1>1
  <2> QED BY <2>1
<1>3. ASSUME NEW n \in Nat, n \in Ok PROVE n + 1 \in Ok
  <2> DEFINE j == i + n + 1
  <2> SUFFICES ASSUME j \in Numbers(file), Passed(file, j, m) PROVE FALSE
    <3>1. i + (n + 1) = j /\ n + 1 \in Nat
      BY <1>1
    <3> QED BY <3>1
  <2>1. i + n \in Numbers(file) /\ i + n + 1 = j
    BY <1>1 DEF Numbers
  <2>2. \E l \in EventsTo(file, m) : Start(file, j) <= file.lines[l].value
    BY PassedBefore
  <2>3. PICK l \in EventsTo(file, m) : Start(file, j) <= file.lines[l].value
    BY <2>2
  <2>4. Start(file, j) \in Int /\ file.lines[l].value \in Int
    <3>1. j \in 1..Len(file.records) /\ l \in 1..Len(file.lines)
      BY <1>1, <2>3, FileTypes DEF Numbers, EventsTo
    <3> QED BY <3>1, FileTypes
  <2> HIDE DEF j
  <2>5. file.lines[l].value >= Start(file, j)
    BY <2>3, <2>4
  <2>6. Passed(file, i + n, m)
    BY <2>1, <2>3, <2>5 DEF Passed
  <2> QED BY <1>3, <2>1, <2>6
<1>4. Nat \subseteq Ok
  <2> HIDE DEF Ok
  <2> QED BY <1>2, <1>3, Induction
<1>5. ASSUME NEW j \in Numbers(file), i <= j PROVE ~Passed(file, j, m)
  <2>1. j - i \in Nat /\ i + (j - i) = j
    BY <1>1, <1>5 DEF Numbers
  <2>2. j - i \in Ok
    BY <1>4, <2>1
  <2> QED BY <2>1, <2>2
<1> QED
  BY <1>5

\* Until then there is no line of any later trace.
LEMMA NoneYetOf ==
    ASSUME NEW file \in FileType, InOrder(file), NEW o, NEW i \in Numbers(file), NEW m \in 0..Len(file.lines),
           ~Passed(file, i, m), NEW j \in Numbers(file), i < j, NEW l \in 1..m
    PROVE  ~Belongs(o, file, j, l)
<1>1. Len(file.records) \in Nat /\ Len(file.lines) \in Nat /\ i \in Nat /\ j \in Nat
  BY FileTypes DEF Numbers
<1>2. ~Passed(file, j - 1, m) /\ j - 1 \in Numbers(file) /\ (j - 1) + 1 = j
  <2>1. j - 1 \in Numbers(file) /\ i <= j - 1 /\ (j - 1) + 1 = j
    BY <1>1 DEF Numbers
  <2> QED BY <2>1, NotYet
<1>3. SUFFICES ASSUME EventsTo(file, l) # {} PROVE ~(Start(file, j) <= At(file, l))
  BY DEF Belongs
<1>4. l \in 1..Len(file.lines) /\ m \in Nat /\ l <= m
  BY <1>1
<1>5. PICK e \in EventsTo(file, l) : At(file, l) = file.lines[e].value /\ At(file, l) \in Int
  BY <1>3, <1>4, LastEvent
<1>6. e \in EventsTo(file, m)
  BY <1>4, <1>5 DEF EventsTo
<1>7. Start(file, j) \in Int
  <2>1. j \in 1..Len(file.records)
    BY <1>1 DEF Numbers
  <2> QED BY <2>1, FileTypes
<1>8. ~(file.lines[e].value >= Start(file, j))
  BY <1>2, <1>6 DEF Passed
<1> QED
  BY <1>5, <1>7, <1>8

LEMMA EmptyYet ==
    ASSUME NEW file \in FileType, InOrder(file), NEW o, NEW i \in Numbers(file), NEW m \in 0..Len(file.lines),
           ~Passed(file, i, m), NEW j \in Numbers(file), i < j
    PROVE  TimesTo(o, file, j, m) = {} /\ Shows(<<>>, o, file, j, m)
<1>1. \A l \in 1..m : ~Belongs(o, file, j, l)
  BY NoneYetOf
<1>2. TimesTo(o, file, j, m) = {}
  BY <1>1 DEF TimesTo, OwnTo
<1>3. Covers(<<>>, {})
  BY DEF Covers
<1> QED
  BY <1>2, <1>3 DEF Shows

LEMMA OnlyActive ==
    ASSUME NEW file \in FileType, InOrder(file), NEW o, NEW m \in Nat, m + 1 <= Len(file.lines),
           NEW i \in Numbers(file), NEW x \in Numbers(file),
           Passed(file, i, m) \/ (x < i /\ ~Passed(file, x, m + 1))
    PROVE  ~Belongs(o, file, i, m + 1)
<1>1. m + 1 \in 0..Len(file.lines) /\ m + 1 \in 1..(m + 1)
  BY FileTypes
<1>2. CASE Passed(file, i, m)
  BY <1>2, PassedOver
<1>3. CASE x < i /\ ~Passed(file, x, m + 1)
  BY <1>1, <1>3, NoneYetOf
<1> QED
  BY <1>2, <1>3

\* A time not before the others is added at the end, if it is not there.
LEMMA AddTimeCovers ==
    ASSUME NEW seq, NEW S, Covers(seq, S), NEW d \in Int, \A x \in S : x \in Int /\ x <= d
    PROVE  /\ Covers(AddTime(seq, d), S \union {d})
           /\ \A j \in 1..Len(AddTime(seq, d)) :
                 \/ j \in 1..Len(seq) /\ AddTime(seq, d)[j] = seq[j]
                 \/ d \notin S /\ AddTime(seq, d)[j] = Sample(d, 0)
<1> DEFINE n == Len(seq)
           x == Sample(d, 0)
<1>1. /\ seq \in Seq(SampleType) /\ n \in Nat /\ (n = 0 <=> seq = <<>>) /\ Last(seq) = seq[n]
      /\ \A i, j \in 1..n : i < j => seq[i].time < seq[j].time
      /\ \A i \in 1..n : seq[i].time \in S /\ seq[i].time \in Int /\ seq[i].time <= d
      /\ \A y \in S : \E i \in 1..n : seq[i].time = y
  BY LenProperties, EmptySeq DEF Covers, Last
<1>2. x \in SampleType /\ x.time = d
  BY DEF Sample, SampleType
<1>3. CASE seq # <<>> /\ Last(seq).time = d
  <2>1. AddTime(seq, d) = seq
    BY <1>3 DEF AddTime
  <2>2. n \in 1..n
    BY <1>1, <1>3
  <2>3. S \union {d} = S
    BY <1>1, <1>3, <2>2
  <2> QED BY <2>1, <2>3
<1>4. CASE ~(seq # <<>> /\ Last(seq).time = d)
  <2>1. AddTime(seq, d) = Append(seq, x)
    BY <1>4 DEF AddTime
  <2>2. d \notin S
    <3> SUFFICES ASSUME d \in S PROVE FALSE
      OBVIOUS
    <3>1. PICK i \in 1..n : seq[i].time = d
      BY <1>1
    <3>2. n \in 1..n /\ n # 0 /\ i <= n
      BY <1>1, <3>1
    <3>3. seq[n].time # d
      BY <1>1, <1>4, <3>2
    <3>4. i < n
      BY <1>1, <3>1, <3>2, <3>3
    <3>5. seq[n].time \in Int /\ seq[n].time <= d /\ d < seq[n].time
      BY <1>1, <3>1, <3>2, <3>4
    <3> QED BY <3>5
  <2>3. \A y \in S, z \in {d} : y < z
    BY <2>2
  <2>4. Covers(<<x>>, {d})
    <3> HIDE DEF x
    <3> QED BY <1>2, CoversOne
  <2>5. Covers(seq \o <<x>>, S \union {d})
    <3> DEFINE one == <<x>>
               T == {d}
    <3> HIDE DEF one, T
    <3>1. Covers(one, T) /\ \A y \in S, z \in T : y < z
      BY <2>3, <2>4 DEF one, T
    <3>2. Covers(seq \o one, S \union T)
      BY <3>1, CoversConcat
    <3> QED BY <3>2 DEF one, T
  <2> HIDE DEF x
  <2>6. Append(seq, x) = seq \o <<x>>
    BY <1>1, <1>2
  <2>7. Len(Append(seq, x)) = n + 1 /\ \A j \in 1..(n + 1) : Append(seq, x)[j] = IF j <= n THEN seq[j] ELSE x
    BY <1>1, <1>2, AppendProperties
  <2>8. \A j \in 1..(n + 1) : \/ j \in 1..n /\ Append(seq, x)[j] = seq[j]
                              \/ d \notin S /\ Append(seq, x)[j] = x
    BY <1>1, <2>2, <2>7
  <2> QED BY <2>1, <2>5, <2>6, <2>7, <2>8 DEF x
<1> QED
  BY <1>3, <1>4

\* A power is added to the sample of the last time.
LEMMA AddPowerCovers ==
    ASSUME NEW seq, NEW S, Covers(seq, S), NEW d \in S, \A x \in S : x \in Int /\ x <= d, NEW v \in Int
    PROVE  /\ seq # <<>>
           /\ Covers(AddPower(seq, v), S) /\ Len(AddPower(seq, v)) = Len(seq)
           /\ \A j \in 1..Len(seq) :
                 /\ AddPower(seq, v)[j].time = seq[j].time
                 /\ AddPower(seq, v)[j].power = IF seq[j].time = d THEN seq[j].power + v ELSE seq[j].power
<1> DEFINE n == Len(seq)
           new == AddPower(seq, v)
<1>1. /\ seq \in Seq(SampleType) /\ n \in Nat /\ (n = 0 <=> seq = <<>>) /\ DOMAIN seq = 1..n
      /\ \A i, j \in 1..n : i < j => seq[i].time < seq[j].time
      /\ \A i \in 1..n : seq[i].time \in S /\ seq[i].time \in Int /\ seq[i].time <= d
      /\ \A y \in S : \E i \in 1..n : seq[i].time = y
      /\ \A i \in 1..n : seq[i] \in SampleType
  BY LenProperties, EmptySeq DEF Covers
<1>2. PICK i \in 1..n : seq[i].time = d
  BY <1>1
<1> HIDE DEF n
<1>3. n \in 1..n /\ n # 0
  BY <1>1, <1>2
<1>4. \A j \in 1..n : seq[j].time = d <=> j = n
  <2>1. i = n
    <3>1. ~(i < n)
      <4> SUFFICES ASSUME i < n PROVE FALSE
        OBVIOUS
      <4>1. seq[n].time \in Int /\ seq[n].time <= d /\ d < seq[n].time
        BY <1>1, <1>2, <1>3
      <4> QED BY <4>1
    <3> QED BY <1>1, <3>1
  <2>2. ASSUME NEW j \in 1..n, j # n PROVE seq[j].time # d
    <3>1. j < n
      BY <1>1, <2>2
    <3>2. seq[j].time \in Int /\ seq[n].time = d /\ seq[j].time < seq[n].time
      BY <1>1, <1>2, <1>3, <2>1, <3>1
    <3> QED BY <3>2
  <2> QED BY <1>2, <2>1, <2>2
<1>5. seq # <<>>
  BY <1>1, <1>3
<1>6. new \in Seq(SampleType)
  BY <1>1, <1>5, AddsSample
<1>7. DOMAIN new = 1..n /\ Len(new) = n
  <2>1. DOMAIN new = DOMAIN seq
    BY DEF AddPower
  <2> HIDE DEF new
  <2> QED BY <1>1, <1>6, <2>1, LenProperties
<1>8. \A j \in 1..n : new[j] = IF j = n THEN [seq[n] EXCEPT !.power = @ + v] ELSE seq[j]
  BY <1>1, <1>3 DEF AddPower, n
<1> HIDE DEF new
<1>9. ASSUME NEW j \in 1..n
      PROVE  /\ new[j].time = seq[j].time
             /\ new[j].power = IF seq[j].time = d THEN seq[j].power + v ELSE seq[j].power
  <2>1. seq[n] \in SampleType
    BY <1>1, <1>3
  <2>2. CASE j = n
    <3>1. new[j] = [seq[n] EXCEPT !.power = @ + v]
      BY <1>8, <2>2
    <3> QED BY <1>4, <2>1, <2>2, <3>1 DEF SampleType
  <2>3. CASE j # n
    BY <1>4, <1>8, <2>3
  <2> QED BY <2>2, <2>3
<1>10. Covers(new, S)
  BY <1>1, <1>6, <1>7, <1>9 DEF Covers, n
<1> QED
  BY <1>5, <1>7, <1>9, <1>10 DEF new, n

-----------------------------------------------------------------------------
(* One line of the scan: what it adds to the present trace or ends it.        *)

\* All lines of a trace up to one of its own are not after it.
LEMMA TimesUpTo ==
    ASSUME NEW file \in FileType, InOrder(file), NEW o, NEW i \in Numbers(file), NEW m \in Nat,
           m + 1 <= Len(file.lines)
    PROVE  /\ \A x \in TimesTo(o, file, i, m) : x \in Int
           /\ EventsTo(file, m + 1) # {} => /\ At(file, m + 1) - Start(file, i) \in Int
                                            /\ \A x \in TimesTo(o, file, i, m) : x <= At(file, m + 1) - Start(file, i)
<1>1. m + 1 \in 1..Len(file.lines) /\ Start(file, i) \in Int
  <2>1. Len(file.records) \in Nat /\ Len(file.lines) \in Nat
    BY FileTypes
  <2>2. i \in 1..Len(file.records)
    BY <2>1 DEF Numbers
  <2> QED BY <2>1, <2>2, FileTypes
<1>2. ASSUME NEW x \in TimesTo(o, file, i, m)
      PROVE  /\ x \in Int /\ EventsTo(file, m + 1) # {} /\ At(file, m + 1) \in Int
             /\ x <= At(file, m + 1) - Start(file, i)
  <2>1. PICK l \in OwnTo(o, file, i, m) : x = At(file, l) - Start(file, i)
    BY DEF TimesTo
  <2>2. l \in 1..(m + 1) /\ EventsTo(file, l) # {}
    BY <2>1 DEF OwnTo, Belongs
  <2>3. /\ EventsTo(file, m + 1) # {} /\ At(file, m + 1) \in Int /\ At(file, l) \in Int
        /\ At(file, l) <= At(file, m + 1)
    BY <1>1, <2>2, TimesRise
  <2> QED BY <1>1, <2>1, <2>3
<1>3. ASSUME EventsTo(file, m + 1) # {} PROVE At(file, m + 1) - Start(file, i) \in Int
  <2>1. At(file, m + 1) \in Int
    BY <1>1, <1>3, LastEvent
  <2> QED BY <1>1, <2>1
<1> QED
  BY <1>2, <1>3

LEMMA ShowsTimes ==
    ASSUME NEW file, NEW o, NEW i, NEW m, NEW seq, Shows(seq, o, file, i, m)
    PROVE  seq \in Seq(SampleType) /\ (seq = <<>> <=> TimesTo(o, file, i, m) = {})
<1>1. /\ seq \in Seq(SampleType) /\ Len(seq) \in Nat
      /\ \A j \in 1..Len(seq) : seq[j].time \in TimesTo(o, file, i, m)
      /\ \A x \in TimesTo(o, file, i, m) : \E j \in 1..Len(seq) : seq[j].time = x
  BY LenProperties DEF Shows, Covers
<1>2. seq = <<>> <=> Len(seq) = 0
  BY <1>1, EmptySeq
<1> QED
  BY <1>1, <1>2

\* An event of the trace.
LEMMA EventShows ==
    ASSUME NEW file \in FileType, InOrder(file), NEW o, NEW i \in Numbers(file), NEW m \in Nat,
           m + 1 <= Len(file.lines), IsEvent(file, m + 1), Belongs(o, file, i, m + 1),
           NEW seq, Shows(seq, o, file, i, m)
    PROVE  LET d == file.lines[m + 1].value - Start(file, i) IN
           /\ Shows(AddTime(seq, d), o, file, i, m + 1)
           /\ TimesTo(o, file, i, m + 1) = TimesTo(o, file, i, m) \union {d}
<1> DEFINE d == file.lines[m + 1].value - Start(file, i)
           S == TimesTo(o, file, i, m)
           new == AddTime(seq, d)
<1>1. m + 1 \in 1..Len(file.lines) /\ m \in 0..Len(file.lines)
  BY FileTypes
<1>2. EventsTo(file, m + 1) # {} /\ At(file, m + 1) - Start(file, i) = d
  BY <1>1, EventHere
<1>3. d \in Int /\ \A x \in S : x \in Int /\ x <= d
  BY <1>2, TimesUpTo
<1>4. /\ TimesTo(o, file, i, m + 1) = S \union {d}
      /\ \A t : PowerTo(o, file, i, m + 1, t) = PowerTo(o, file, i, m, t)
  <2>1. file.lines[m + 1].kind # "power"
    BY DEF IsEvent
  <2>2. /\ TimesTo(o, file, i, m + 1) = TimesTo(o, file, i, m) \union {At(file, m + 1) - Start(file, i)}
        /\ \A t : PowerTo(o, file, i, m + 1, t) = PowerTo(o, file, i, m, t)
    BY <2>1, EventOwn
  <2> QED BY <1>2, <2>2
<1>5. /\ Covers(seq, S) /\ \A j \in 1..Len(seq) : seq[j].power = PowerTo(o, file, i, m, seq[j].time)
  BY DEF Shows
<1>6. d \notin S => PowerTo(o, file, i, m, d) = 0
  BY <1>1, PowersOf
<1> HIDE DEF d, S
<1>7. /\ Covers(new, S \union {d})
      /\ \A j \in 1..Len(new) : \/ j \in 1..Len(seq) /\ new[j] = seq[j]
                                \/ d \notin S /\ new[j] = Sample(d, 0)
  BY <1>3, <1>5, AddTimeCovers
<1> HIDE DEF new
<1>8. \A j \in 1..Len(new) : new[j].power = PowerTo(o, file, i, m, new[j].time)
  BY <1>5, <1>6, <1>7 DEF Sample
<1>9. Shows(new, o, file, i, m + 1)
  BY <1>4, <1>7, <1>8 DEF Shows
<1> QED
  BY <1>4, <1>9 DEF d, S, new

\* A power of the trace.
LEMMA PowerShows ==
    ASSUME NEW file \in FileType, InOrder(file), NEW o, NEW i \in Numbers(file), NEW m \in Nat,
           m + 1 <= Len(file.lines), file.lines[m + 1].kind = "power", Belongs(o, file, i, m + 1),
           NEW seq, Shows(seq, o, file, i, m)
    PROVE  /\ seq # <<>> /\ Shows(AddPower(seq, file.lines[m + 1].value), o, file, i, m + 1)
           /\ TimesTo(o, file, i, m + 1) = TimesTo(o, file, i, m)
<1> DEFINE d == At(file, m + 1) - Start(file, i)
           S == TimesTo(o, file, i, m)
           v == file.lines[m + 1].value
           new == AddPower(seq, v)
           p == [t \in S |-> PowerTo(o, file, i, m, t)]
<1>1. m + 1 \in 1..Len(file.lines) /\ m \in 0..Len(file.lines)
  BY FileTypes
<1>2. v \in Int
  BY <1>1, FileTypes
<1>3. d \in Int /\ \A x \in S : x \in Int /\ x <= d
  BY TimesUpTo DEF Belongs
<1>4. /\ d \in S /\ TimesTo(o, file, i, m + 1) = S
      /\ \A t : PowerTo(o, file, i, m + 1, t) =
                   IF t = d THEN PowerTo(o, file, i, m, t) + v ELSE PowerTo(o, file, i, m, t)
  BY PowerOwn
<1>5. /\ Covers(seq, S) /\ \A j \in 1..Len(seq) : seq[j].power = PowerTo(o, file, i, m, seq[j].time)
  BY DEF Shows
<1> HIDE DEF d, S, v
<1>6. /\ seq # <<>>
      /\ Covers(new, S) /\ Len(new) = Len(seq)
      /\ \A j \in 1..Len(seq) :
            /\ new[j].time = seq[j].time
            /\ new[j].power = IF seq[j].time = d THEN seq[j].power + v ELSE seq[j].power
  <2>1. d \in S /\ Covers(seq, S) /\ \A x \in S : x \in Int /\ x <= d
    BY <1>3, <1>4, <1>5
  <2>2. v \in Int
    BY <1>2
  <2>3. /\ seq # <<>>
        /\ Covers(AddPower(seq, v), S) /\ Len(AddPower(seq, v)) = Len(seq)
        /\ \A j \in 1..Len(seq) :
              /\ AddPower(seq, v)[j].time = seq[j].time
              /\ AddPower(seq, v)[j].power = IF seq[j].time = d THEN seq[j].power + v ELSE seq[j].power
    BY <2>1, <2>2, AddPowerCovers
  <2> QED BY <2>3
<1> HIDE DEF new
<1>7. \A j \in 1..Len(new) : new[j].power = PowerTo(o, file, i, m + 1, new[j].time)
  BY <1>4, <1>5, <1>6
<1>8. Shows(new, o, file, i, m + 1)
  BY <1>4, <1>6, <1>7 DEF Shows
<1> QED
  BY <1>4, <1>6, <1>8 DEF S, v, new

\* Another line of the trace.
LEMMA OtherShows ==
    ASSUME NEW file \in FileType, InOrder(file), NEW o, NEW i \in Numbers(file), NEW m \in Nat,
           m + 1 <= Len(file.lines), ~IsEvent(file, m + 1), file.lines[m + 1].kind # "power",
           NEW seq, Shows(seq, o, file, i, m)
    PROVE  Shows(seq, o, file, i, m + 1) /\ TimesTo(o, file, i, m + 1) = TimesTo(o, file, i, m)
<1>1. m + 1 \in 1..Len(file.lines)
  BY FileTypes
<1>2. CASE ~Belongs(o, file, i, m + 1)
  BY <1>2, NotOwn
<1>3. CASE Belongs(o, file, i, m + 1)
  <2> DEFINE d == At(file, m + 1) - Start(file, i)
             S == TimesTo(o, file, i, m)
  <2>1. PICK e \in 1..(m + 1) : Belongs(o, file, i, e) /\ IsEvent(file, e) /\ At(file, e) = At(file, m + 1)
    BY <1>1, <1>3, OwnEvent
  <2>2. e \in 1..m
    BY <2>1
  <2>3. d \in S
    BY <2>1, <2>2 DEF TimesTo, OwnTo
  <2>4. TimesTo(o, file, i, m + 1) = S \union {d} /\ \A t : PowerTo(o, file, i, m + 1, t) = PowerTo(o, file, i, m, t)
    BY <1>3, EventOwn
  <2>5. TimesTo(o, file, i, m + 1) = S
    BY <2>3, <2>4
  <2> QED BY <2>4, <2>5 DEF Shows
<1> QED
  BY <1>2, <1>3

NoLimits(o) == o.num_traces = 0 /\ o.max_time = 0 /\ o.min_time \in Nat

\* What read_timestamps leaves for the scan of a file.
BaseOf(file, base) ==
    /\ base \in Scanning /\ ~base.over /\ base.current = <<>>
    /\ Len(file.records) > 1 /\ Len(base.records) = base.at + Len(file.records) - 1
    /\ \A i \in 1..Len(file.records) : base.records[base.at + i - 1].event = Start(file, i)

\* What an event does that is not before the record: to the present trace, or, if
\* it is past its end, to the next one.
Added(o, s, new, current, d) ==
    /\ new.ok = s.ok /\ new.records = s.records /\ ~new.over
    /\ IF InWindow(o, d)
       THEN new.current = AddTime(current, d) /\ new.events = s.events \union {d}
       ELSE new.current = current /\ new.events = s.events

EventTurn(o, file, base, c, s, time, new) ==
    \/ time < Start(file, c + 1) /\ new = s
    \/ /\ time >= Start(file, c + 1) /\ time < Start(file, c + 2)
       /\ new.traces = s.traces /\ new.at = s.at
       /\ Added(o, s, new, s.current, time - Start(file, c + 1))
    \/ /\ time >= Start(file, c + 1) /\ time >= Start(file, c + 2)
       /\ new.traces = Append(s.traces, [record |-> s.at, samples |-> Dumped(s.current)])
       /\ IF c + 2 = Len(file.records)
          THEN new.over /\ new.ok = s.ok /\ new.records = s.records /\ new.events = s.events
          ELSE new.at = s.at + 1 /\ Added(o, s, new, <<>>, time - Start(file, c + 2))

LEMMA EventTurns ==
    ASSUME NEW o, NoLimits(o), NEW file \in FileType, NEW base, BaseOf(file, base),
           NEW s \in Scanning, ~s.over, s.records = base.records,
           NEW c \in 0..(Len(file.records) - 2), s.at = base.at + c, NEW time \in Int
    PROVE  EventTurn(o, file, base, c, s, time, ScanEvent(o, s, time))
<1> DEFINE start(i) == s.records[i].event
           full == time >= start(s.at + 1)
           at == IF full THEN s.at + 1 ELSE s.at
           current == IF full THEN <<>> ELSE s.current
           traces == IF full THEN Append(s.traces, [record |-> s.at, samples |-> Dumped(s.current)]) ELSE s.traces
           offset == time - start(at)
           over == full /\ (at = Len(s.records) \/ Enough(o, Len(traces)))
           new == ScanEvent(o, s, time)
           N == Len(file.records)
           b == base.at
           x == Start(file, c + 1)
           y == Start(file, c + 2)
<1>1. /\ s.over = FALSE
      /\ s = [ok |-> s.ok, records |-> s.records, at |-> s.at, current |-> s.current,
              traces |-> s.traces, events |-> s.events, over |-> s.over]
  BY DEF Scanning, ScanState, ScanFields
<1>2. N \in Nat /\ N > 1 /\ b \in Nat /\ s.at = b + c /\ c \in Nat /\ c <= N - 2 /\ Len(s.records) = b + N - 1
  BY FileTypes DEF BaseOf, Scanning, ScanState, ScanFields
<1>3. start(s.at) = x /\ start(s.at + 1) = y
  <2>1. c + 1 \in 1..N /\ c + 2 \in 1..N
    BY <1>2
  <2>2. \A i \in 1..N : s.records[b + i - 1].event = Start(file, i)
    BY DEF BaseOf
  <2>3. s.records[b + (c + 1) - 1].event = x /\ s.records[b + (c + 2) - 1].event = y
    BY <2>1, <2>2
  <2>4. b + (c + 1) - 1 = s.at /\ b + (c + 2) - 1 = s.at + 1
    BY <1>2
  <2> HIDE DEF N, b, x, y
  <2> QED BY <2>3, <2>4
<1>4. x \in Int /\ y \in Int
  <2>1. c + 1 \in 1..N /\ c + 2 \in 1..N
    BY <1>2
  <2> QED BY <2>1, FileTypes
<1>5. ~Enough(o, Len(traces))
  BY DEF Enough, NoLimits
<1> HIDE DEF N, b, x, y
<1>6. full <=> time >= y
  BY <1>3
<1>7. full => (at = Len(s.records) <=> c + 2 = N) /\ offset = time - y /\ current = <<>>
              /\ traces = Append(s.traces, [record |-> s.at, samples |-> Dumped(s.current)]) /\ at = s.at + 1
  <2>1. full => at = s.at + 1
    OBVIOUS
  <2>2. s.at + 1 = Len(s.records) <=> c + 2 = N
    BY <1>2
  <2> QED BY <1>3, <2>1, <2>2
<1>8. ~full => offset = time - x /\ current = s.current /\ traces = s.traces /\ at = s.at
  BY <1>3
<1>9. over <=> full /\ c + 2 = N
  BY <1>5, <1>7
<1>10. /\ time < start(s.at) => new = s
       /\ time >= start(s.at) /\ over => new = [s EXCEPT !.traces = traces, !.over = TRUE]
       /\ time >= start(s.at) /\ ~over /\ ~InWindow(o, offset) =>
             new = [s EXCEPT !.traces = traces, !.at = at, !.current = current]
       /\ time >= start(s.at) /\ ~over /\ InWindow(o, offset) =>
             new = [s EXCEPT !.traces = traces, !.at = at, !.current = AddTime(current, offset),
                             !.events = s.events \union {offset}]
  <2>1. time < start(s.at) <=> ~(time >= start(s.at))
    BY <1>3, <1>4
  <2> HIDE DEF start
  <2> QED BY <2>1 DEF ScanEvent, start
<1> HIDE DEF full, at, current, traces, offset, over, new, start
<1>11. CASE time < x
  BY <1>3, <1>10, <1>11 DEF EventTurn, x, new
<1>12. CASE ~(time < x)
  <2>1. time >= x /\ time >= start(s.at)
    BY <1>3, <1>4, <1>12
  <2>2. CASE over
    <3>1. new = [s EXCEPT !.traces = traces, !.over = TRUE]
      BY <1>10, <2>1, <2>2
    <3>2. new.traces = traces /\ new.over /\ new.ok = s.ok /\ new.records = s.records /\ new.events = s.events
      BY <1>1, <3>1
    <3>3. time >= y /\ c + 2 = N /\ traces = Append(s.traces, [record |-> s.at, samples |-> Dumped(s.current)])
      BY <1>6, <1>7, <1>9, <2>2
    <3> QED BY <2>1, <3>2, <3>3 DEF EventTurn, x, y, N, new
  <2>3. CASE ~over
    <3>1. /\ new.traces = traces /\ new.at = at /\ new.ok = s.ok /\ new.records = s.records /\ ~new.over
          /\ IF InWindow(o, offset)
             THEN new.current = AddTime(current, offset) /\ new.events = s.events \union {offset}
             ELSE new.current = current /\ new.events = s.events
      <4>1. CASE InWindow(o, offset)
        <5>1. new = [s EXCEPT !.traces = traces, !.at = at, !.current = AddTime(current, offset),
                              !.events = s.events \union {offset}]
          BY <1>10, <2>1, <2>3, <4>1
        <5> QED BY <1>1, <4>1, <5>1
      <4>2. CASE ~InWindow(o, offset)
        <5>1. new = [s EXCEPT !.traces = traces, !.at = at, !.current = current]
          BY <1>10, <2>1, <2>3, <4>2
        <5> QED BY <1>1, <4>2, <5>1
      <4> QED BY <4>1, <4>2
    <3>2. new.traces = traces /\ new.at = at /\ Added(o, s, new, current, offset)
      BY <3>1 DEF Added
    <3>3. CASE full
      <4>1. c + 2 # N /\ time >= y /\ current = <<>> /\ offset = time - y /\ at = s.at + 1
            /\ traces = Append(s.traces, [record |-> s.at, samples |-> Dumped(s.current)])
        BY <1>6, <1>7, <1>9, <2>3, <3>3
      <4>2. Added(o, s, new, <<>>, time - y)
        BY <3>2, <4>1
      <4> QED BY <2>1, <3>2, <4>1, <4>2 DEF EventTurn, x, y, N, new
    <3>4. CASE ~full
      <4>1. time < y /\ current = s.current /\ offset = time - x /\ at = s.at /\ traces = s.traces
        BY <1>4, <1>6, <1>8, <3>4
      <4>2. Added(o, s, new, s.current, time - x)
        BY <3>2, <4>1
      <4> QED BY <2>1, <3>2, <4>1, <4>2 DEF EventTurn, x, y, new
    <3> QED BY <3>3, <3>4
  <2> QED BY <2>2, <2>3
<1> QED
  BY <1>11, <1>12

\* The state of the scan after m lines, of which the first c traces have ended.
Scanned(o, file, base, c, m, s) ==
    /\ s \in Scanning /\ s.ok = base.ok /\ s.records = base.records
    /\ Len(s.traces) = Len(base.traces) + c
    /\ \A i \in 1..Len(base.traces) : s.traces[i] = base.traces[i]
    /\ \A i \in 1..c : /\ Passed(file, i, m)
                       /\ s.traces[Len(base.traces) + i].record = base.at + i - 1
                       /\ DumpShows(s.traces[Len(base.traces) + i].samples, o, file, i, m)
    /\ s.events = base.events \union EventsOf(o, file, m)
    /\ IF s.over THEN c = Len(file.records) - 1
       ELSE /\ c \in 0..(Len(file.records) - 2) /\ s.at = base.at + c
            /\ ~Passed(file, c + 1, m) /\ Shows(s.current, o, file, c + 1, m)

LEMMA ScannedBase ==
    ASSUME NEW o, NEW file \in FileType, NEW base, BaseOf(file, base), InOrder(file)
    PROVE  Scanned(o, file, base, 0, 0, base)
<1>1. EventsTo(file, 0) = {}
  BY DEF EventsTo
<1>2. \A i : OwnTo(o, file, i, 0) = {}
  BY DEF OwnTo
<1>3. \A i : TimesTo(o, file, i, 0) = {}
  BY <1>2 DEF TimesTo
<1>4. EventsOf(o, file, 0) = {}
  BY <1>3 DEF EventsOf
<1>5. ~Passed(file, 1, 0)
  BY <1>1 DEF Passed
<1>6. Shows(<<>>, o, file, 1, 0)
  <2>1. Covers(<<>>, {})
    BY DEF Covers
  <2> QED BY <1>3, <2>1 DEF Shows
<1>7. Len(file.records) \in Nat /\ Len(file.records) > 1 /\ base.at \in Nat /\ Len(base.traces) \in Nat
  BY FileTypes, LenProperties DEF BaseOf, Scanning, ScanState, ScanFields
<1>8. Len(base.traces) + 0 = Len(base.traces) /\ base.at + 0 = base.at /\ 0 \in 0..(Len(file.records) - 2) /\ 0 + 1 = 1
  BY <1>7
<1> QED
  BY <1>4, <1>5, <1>6, <1>8 DEF Scanned, BaseOf

\* The m+1-st line keeps Scanned: it ends at most the present trace and is at
\* most of the one that is then the present one.
Ends(file, c, m, s, new, d) ==
    \/ d = c /\ new.traces = s.traces
    \/ /\ d = c + 1 /\ ~s.over /\ Passed(file, c + 1, m + 1)
       /\ new.traces = Append(s.traces, [record |-> s.at, samples |-> Dumped(s.current)])

Goes(o, file, base, m, s, new, d, D) ==
    /\ new \in Scanning /\ new.ok = s.ok /\ new.records = s.records /\ new.events = s.events \union D
    /\ \A i \in Numbers(file) : i # d + 1 => ~Belongs(o, file, i, m + 1)
    /\ d + 1 \in Numbers(file) => TimesTo(o, file, d + 1, m + 1) = TimesTo(o, file, d + 1, m) \union D
    /\ D # {} => d + 1 \in Numbers(file)
    /\ IF new.over THEN d = Len(file.records) - 1
       ELSE /\ d \in 0..(Len(file.records) - 2) /\ new.at = base.at + d
            /\ ~Passed(file, d + 1, m + 1) /\ Shows(new.current, o, file, d + 1, m + 1)

LEMMA ScannedNext ==
    ASSUME NEW o, NEW file \in FileType, NEW base, BaseOf(file, base), NEW m \in Nat, NEW c,
           NEW s, Scanned(o, file, base, c, m, s), NEW new, NEW d, NEW D,
           Ends(file, c, m, s, new, d), Goes(o, file, base, m, s, new, d, D)
    PROVE  Scanned(o, file, base, d, m + 1, new)
<1> DEFINE N == Len(file.records)
           b == Len(base.traces)
           t == s.traces
           u == new.traces
           e == [record |-> s.at, samples |-> Dumped(s.current)]
<1>1. N \in Nat /\ N > 1 /\ b \in Nat /\ base.at \in Nat
  BY FileTypes, LenProperties DEF BaseOf, Scanning, ScanState, ScanFields
<1>2. /\ s.records = base.records /\ s.ok = base.ok /\ s \in Scanning
      /\ Len(t) = b + c /\ \A i \in 1..b : t[i] = base.traces[i]
      /\ \A i \in 1..c : /\ Passed(file, i, m) /\ t[b + i].record = base.at + i - 1
                         /\ DumpShows(t[b + i].samples, o, file, i, m)
      /\ s.events = base.events \union EventsOf(o, file, m)
  BY DEF Scanned
<1>3. IF s.over THEN c = N - 1
      ELSE c \in 0..(N - 2) /\ s.at = base.at + c /\ ~Passed(file, c + 1, m) /\ Shows(s.current, o, file, c + 1, m)
  BY DEF Scanned
<1>4. c \in Nat /\ c <= N - 1 /\ \A i \in 1..c : i \in Numbers(file)
  BY <1>1, <1>3 DEF Numbers
<1>5. d = c \/ d = c + 1
  BY DEF Ends
<1>6. t \in Seq(TraceType)
  BY <1>2 DEF Scanning, ScanState, ScanFields
<1>7. \A i \in 1..c : i # d + 1
  BY <1>4, <1>5
<1> HIDE DEF N, b, t, u, e
<1>8. \A i \in 1..c : /\ Passed(file, i, m + 1) /\ t[b + i].record = base.at + i - 1
                      /\ DumpShows(t[b + i].samples, o, file, i, m + 1)
  <2> TAKE i \in 1..c
  <2>1. i \in Numbers(file) /\ ~Belongs(o, file, i, m + 1)
    BY <1>4, <1>7 DEF Goes
  <2>2. DumpShows(t[b + i].samples, o, file, i, m + 1)
    BY <1>2, <2>1, NotOwn
  <2>3. Passed(file, i, m + 1)
    BY <1>2, PassedNext
  <2> QED BY <1>2, <2>2, <2>3
<1>9. new.events = base.events \union EventsOf(o, file, m + 1)
  <2> DEFINE x == d + 1
  <2>1. \A i \in Numbers(file) : i # x => ~Belongs(o, file, i, m + 1)
    BY DEF Goes
  <2>2. x \in Numbers(file) => TimesTo(o, file, x, m + 1) = TimesTo(o, file, x, m) \union D
    BY DEF Goes
  <2>3. D # {} => x \in Numbers(file)
    BY DEF Goes
  <2> HIDE DEF x
  <2>4. EventsOf(o, file, m + 1) = EventsOf(o, file, m) \union D
    <3>1. \A i \in Numbers(file) : i # x => TimesTo(o, file, i, m + 1) = TimesTo(o, file, i, m)
      BY <2>1, NotOwn
    <3> QED BY <2>2, <2>3, <3>1 DEF EventsOf
  <2> QED BY <1>2, <2>4 DEF Goes
<1>10. /\ Len(u) = b + d /\ \A i \in 1..b : u[i] = base.traces[i]
       /\ \A i \in 1..d : /\ Passed(file, i, m + 1) /\ u[b + i].record = base.at + i - 1
                          /\ DumpShows(u[b + i].samples, o, file, i, m + 1)
  <2>1. CASE d = c /\ u = t
    BY <1>2, <1>8, <2>1
  <2>2. CASE /\ d = c + 1 /\ ~s.over /\ Passed(file, c + 1, m + 1) /\ u = Append(t, e)
    <3>1. e \in TraceType /\ e.record = base.at + c /\ e.samples = Dumped(s.current)
      <4>1. Dumped(s.current) \in Seq(SampleType) /\ s.at \in Nat
        BY <1>2, DumpedIs DEF Scanning, ScanState, ScanFields
      <4> QED BY <1>3, <1>4, <2>2, <4>1 DEF e, TraceType
    <3>2. c + 1 \in Numbers(file) /\ Shows(s.current, o, file, c + 1, m)
      BY <1>1, <1>3, <2>2 DEF Numbers, N
    <3>3. c + 1 # d + 1
      BY <1>4, <2>2
    <3>4. ~Belongs(o, file, c + 1, m + 1)
      BY <3>2, <3>3 DEF Goes
    <3>5. DumpShows(e.samples, o, file, c + 1, m + 1)
      <4> DEFINE y == c + 1
      <4>1. ~Belongs(o, file, y, m + 1) /\ Shows(s.current, o, file, y, m)
        BY <3>2, <3>4
      <4> HIDE DEF y
      <4>2. Shows(s.current, o, file, y, m + 1)
        BY <4>1, NotOwn
      <4> QED BY <3>1, <4>2, DumpIs DEF y
    <3> HIDE DEF e
    <3>6. Len(u) = Len(t) + 1 /\ u[Len(t) + 1] = e /\ \A i \in 1..Len(t) : u[i] = t[i]
      BY <1>6, <2>2, <3>1, AppendProperties
    <3>7. Len(u) = b + d
      BY <1>1, <1>2, <1>4, <2>2, <3>6
    <3>8. \A i \in 1..b : u[i] = base.traces[i]
      <4>1. \A i \in 1..b : i \in 1..Len(t)
        BY <1>1, <1>2, <1>4
      <4> QED BY <1>2, <3>6, <4>1
    <3>9. \A i \in 1..c : u[b + i] = t[b + i]
      <4>1. \A i \in 1..c : b + i \in 1..Len(t)
        BY <1>1, <1>2, <1>4
      <4> QED BY <3>6, <4>1
    <3>10. u[b + (c + 1)] = e /\ base.at + (c + 1) - 1 = base.at + c
      <4>1. b + (c + 1) = Len(t) + 1 /\ base.at + (c + 1) - 1 = base.at + c
        BY <1>1, <1>2, <1>4
      <4> QED BY <3>6, <4>1
    <3>11. \A i \in 1..d : i \in 1..c \/ i = c + 1
      BY <1>4, <2>2
    <3>12. ASSUME NEW i \in 1..d
           PROVE  /\ Passed(file, i, m + 1) /\ u[b + i].record = base.at + i - 1
                  /\ DumpShows(u[b + i].samples, o, file, i, m + 1)
      <4>1. CASE i \in 1..c
        BY <1>8, <3>9, <4>1
      <4>2. CASE i = c + 1
        BY <2>2, <3>1, <3>5, <3>10, <4>2
      <4> QED BY <3>11, <4>1, <4>2
    <3> QED BY <3>7, <3>8, <3>12
  <2> QED BY <2>1, <2>2 DEF Ends, u, t, e
<1>11. new \in Scanning /\ new.ok = base.ok /\ new.records = base.records
  BY <1>2 DEF Goes
<1>12. IF new.over THEN d = N - 1
       ELSE d \in 0..(N - 2) /\ new.at = base.at + d /\ ~Passed(file, d + 1, m + 1) /\ Shows(new.current, o, file, d + 1, m + 1)
  BY DEF Goes, N
<1> QED
  BY <1>9, <1>10, <1>11, <1>12 DEF Scanned, N, b, u

\* A line that is of no trace.
LEMMA IdleLine ==
    ASSUME NEW o, NEW file \in FileType, InOrder(file), NEW base, BaseOf(file, base), NEW m \in Nat,
           m + 1 <= Len(file.lines), NEW c, NEW s, Scanned(o, file, base, c, m, s), ~s.over,
           ~Passed(file, c + 1, m + 1), ~Belongs(o, file, c + 1, m + 1),
           NEW new, new \in Scanning, new.ok = s.ok, new.records = s.records, new.events = s.events,
           new.traces = s.traces, new.at = s.at, new.current = s.current, ~new.over
    PROVE  Scanned(o, file, base, c, m + 1, new)
<1> DEFINE x == c + 1
           E == {}
<1>1. c \in 0..(Len(file.records) - 2) /\ s.at = base.at + c /\ ~Passed(file, x, m) /\ Shows(s.current, o, file, x, m)
  BY DEF Scanned
<1>2. x \in Numbers(file) /\ c \in Nat
  BY <1>1, FileTypes DEF Numbers
<1>3. \A i \in Numbers(file) : i # x => Passed(file, i, m) \/ x < i
  <2>1. \A i \in Numbers(file) : i # x => i \in 1..c \/ x < i
    BY <1>2 DEF Numbers
  <2>2. \A i \in 1..c : Passed(file, i, m)
    BY DEF Scanned
  <2> HIDE DEF x
  <2> QED BY <2>1, <2>2
<1>4. ~Passed(file, x, m + 1) /\ ~Belongs(o, file, x, m + 1)
  OBVIOUS
<1> HIDE DEF x, E
<1>5. \A i \in Numbers(file) : i # x => ~Belongs(o, file, i, m + 1)
  BY <1>2, <1>3, <1>4, OnlyActive
<1>6. TimesTo(o, file, x, m + 1) = TimesTo(o, file, x, m) /\ Shows(s.current, o, file, x, m + 1)
  BY <1>1, <1>2, <1>4, NotOwn
<1>7. Ends(file, c, m, s, new, c)
  BY DEF Ends
<1>8. Goes(o, file, base, m, s, new, c, E)
  BY <1>1, <1>4, <1>5, <1>6 DEF Goes, x, E
<1> QED
  BY <1>7, <1>8, ScannedNext

LEMMA EventStep ==
    ASSUME NEW o, NoLimits(o), NEW file \in FileType, InOrder(file), NEW base, BaseOf(file, base), NEW m \in Nat,
           m + 1 <= Len(file.lines), IsEvent(file, m + 1),
           NEW c, NEW s, Scanned(o, file, base, c, m, s), ~s.over,
           NEW new, new = ScanEvent(o, s, file.lines[m + 1].value), new \in Scanning
    PROVE  \E d \in {c, c + 1} : Scanned(o, file, base, d, m + 1, new)
<1> DEFINE N == Len(file.records)
           t == file.lines[m + 1].value
           x == c + 1
           y == c + 2
           E == {}
<1>1. /\ c \in 0..(N - 2) /\ s.at = base.at + c /\ ~Passed(file, x, m) /\ Shows(s.current, o, file, x, m)
      /\ s \in Scanning /\ s.records = base.records /\ \A i \in 1..c : Passed(file, i, m)
  BY DEF Scanned
<1>2. /\ N \in Nat /\ N > 1 /\ c \in Nat /\ x \in Numbers(file) /\ x + 1 = y /\ c + 1 = x /\ x \in Nat /\ y \in Nat
      /\ t \in Int /\ Start(file, x) \in Int /\ Start(file, y) \in Int /\ m + 1 \in 1..Len(file.lines)
      /\ m + 1 \in 0..Len(file.lines) /\ m \in 0..Len(file.lines) /\ Numbers(file) = 1..(N - 1)
  <2>1. N \in Nat /\ N > 1 /\ Len(file.lines) \in Nat
    BY FileTypes DEF BaseOf
  <2>2. /\ c \in Nat /\ x \in 1..(N - 1) /\ x + 1 = y /\ x \in Nat /\ y \in Nat /\ x \in 1..N /\ y \in 1..N
        /\ m + 1 \in 1..Len(file.lines) /\ m + 1 \in 0..Len(file.lines) /\ m \in 0..Len(file.lines)
    BY <1>1, <2>1
  <2>3. t \in Int /\ Start(file, x) \in Int /\ Start(file, y) \in Int
    BY <2>2, FileTypes
  <2> QED BY <2>1, <2>2, <2>3 DEF Numbers
<1>3. EventTurn(o, file, base, c, s, t, new)
  BY <1>1, <1>2, EventTurns
<1>4. EventsTo(file, m + 1) # {} /\ At(file, m + 1) = t
  BY <1>2, EventHere
<1>5. \A i \in Numbers(file) : i # x => Passed(file, i, m) \/ x < i
  <2>1. \A i \in Numbers(file) : i # x => i \in 1..c \/ x < i
    BY <1>2
  <2> HIDE DEF x
  <2> QED BY <1>1, <2>1
<1>6. \A i : Passed(file, i, m + 1) <=> Passed(file, i, m) \/ t >= Start(file, i + 1)
  BY PassedNext
<1>7. ASSUME t < Start(file, x), new = s PROVE Scanned(o, file, base, c, m + 1, new)
  <2>1. ~Passed(file, x, m + 1)
    <3>1. ASSUME Passed(file, x, m + 1) PROVE FALSE
      <4>1. Start(file, x) < Start(file, x + 1)
        BY <1>2, <3>1, PassedBefore
      <4>2. ~(t >= Start(file, x + 1))
        <5> HIDE DEF t, x, y
        <5> QED BY <1>2, <1>7, <4>1
      <4> QED BY <1>1, <1>6, <3>1, <4>2
    <3> QED BY <3>1
  <2>2. ~Belongs(o, file, x, m + 1)
    <3> HIDE DEF t, x, y
    <3>1. ~(Start(file, x) <= t)
      BY <1>2, <1>7
    <3> QED BY <1>4, <3>1 DEF Belongs
  <2> QED BY <1>7, <2>1, <2>2, IdleLine
<1>8. ASSUME t >= Start(file, x), t < Start(file, y), new.traces = s.traces, new.at = s.at,
             Added(o, s, new, s.current, t - Start(file, x))
      PROVE  Scanned(o, file, base, c, m + 1, new)
  <2> DEFINE d == t - Start(file, x)
             D == IF InWindow(o, d) THEN {d} ELSE {}
  <2>1. ~Passed(file, x, m + 1)
    <3>1. ~(t >= Start(file, x + 1))
      <4> HIDE DEF t, x, y
      <4> QED BY <1>2, <1>8
    <3> QED BY <1>1, <1>6, <3>1
  <2>2. Belongs(o, file, x, m + 1) <=> InWindow(o, d)
    <3>1. Start(file, x) <= t /\ t < Start(file, x + 1)
      <4> HIDE DEF t, x, y
      <4> QED BY <1>2, <1>8
    <3> QED BY <1>4, <3>1 DEF Belongs
  <2> HIDE DEF x
  <2>3. \A i \in Numbers(file) : i # x => ~Belongs(o, file, i, m + 1)
    BY <1>2, <1>5, <2>1, OnlyActive
  <2>4. new.ok = s.ok /\ new.records = s.records /\ ~new.over
    BY <1>8 DEF Added
  <2>5. /\ new.events = s.events \union D
        /\ TimesTo(o, file, x, m + 1) = TimesTo(o, file, x, m) \union D
        /\ Shows(new.current, o, file, x, m + 1)
    <3>1. CASE InWindow(o, d)
      <4>1. new.current = AddTime(s.current, d) /\ new.events = s.events \union {d} /\ D = {d}
        BY <1>8, <3>1 DEF Added
      <4>2. Shows(AddTime(s.current, d), o, file, x, m + 1) /\ TimesTo(o, file, x, m + 1) = TimesTo(o, file, x, m) \union {d}
        <5>1. Belongs(o, file, x, m + 1)
          BY <2>2, <3>1
        <5> DEFINE seq == s.current
        <5>2. Shows(seq, o, file, x, m)
          BY <1>1
        <5> HIDE DEF seq, t, d, D, N, y
        <5>3. /\ Shows(AddTime(seq, file.lines[m + 1].value - Start(file, x)), o, file, x, m + 1)
              /\ TimesTo(o, file, x, m + 1) = TimesTo(o, file, x, m) \union {file.lines[m + 1].value - Start(file, x)}
          BY <1>2, <5>1, <5>2, EventShows
        <5> QED BY <5>3 DEF seq, d, t
      <4> QED BY <4>1, <4>2
    <3>2. CASE ~InWindow(o, d)
      <4>1. new.current = s.current /\ new.events = s.events /\ D = {}
        BY <1>8, <3>2 DEF Added
      <4>2. ~Belongs(o, file, x, m + 1)
        BY <2>2, <3>2
      <4>3. TimesTo(o, file, x, m + 1) = TimesTo(o, file, x, m) /\ Shows(s.current, o, file, x, m + 1)
        BY <1>1, <4>2, NotOwn
      <4> QED BY <4>1, <4>3
    <3> QED BY <3>1, <3>2
  <2> HIDE DEF D, d, t, N
  <2>6. Ends(file, c, m, s, new, c)
    BY <1>8 DEF Ends
  <2>7. Goes(o, file, base, m, s, new, c, D)
    <3>1. c + 1 = x /\ x \in Numbers(file) /\ new.at = base.at + c
      BY <1>1, <1>2, <1>8
    <3> QED BY <1>1, <2>1, <2>3, <2>4, <2>5, <3>1 DEF Goes, N
  <2> QED BY <2>6, <2>7, ScannedNext
<1>9. ASSUME t >= Start(file, x), t >= Start(file, y),
             new.traces = Append(s.traces, [record |-> s.at, samples |-> Dumped(s.current)]),
             IF y = N
             THEN new.over /\ new.ok = s.ok /\ new.records = s.records /\ new.events = s.events
             ELSE new.at = s.at + 1 /\ Added(o, s, new, <<>>, t - Start(file, y))
      PROVE  Scanned(o, file, base, x, m + 1, new)
  <2>1. Passed(file, x, m + 1) /\ ~Belongs(o, file, x, m + 1)
    <3>1. t >= Start(file, x + 1) /\ ~(t < Start(file, x + 1))
      <4> HIDE DEF t, x, y
      <4> QED BY <1>2, <1>9
    <3> QED BY <1>4, <1>6, <3>1 DEF Belongs
  <2>2. Ends(file, c, m, s, new, x)
    BY <1>9, <2>1 DEF Ends
  <2>3. CASE y = N
    <3> HIDE DEF t, x, y, N
    <3>1. \A i \in Numbers(file) : i # x => Passed(file, i, m)
      <4>1. \A i \in Numbers(file) : ~(x < i)
        BY <1>2, <2>3
      <4> QED BY <1>5, <4>1
    <3>2. \A i \in Numbers(file) : ~Belongs(o, file, i, m + 1)
      BY <1>2, <2>1, <3>1, OnlyActive
    <3>3. x + 1 \notin Numbers(file) /\ x = N - 1
      BY <1>2, <2>3
    <3>4. new.over /\ new.ok = s.ok /\ new.records = s.records /\ new.events = s.events
      BY <1>9, <2>3
    <3>5. new.events = s.events \union E
      BY <3>4 DEF E
    <3>6. Goes(o, file, base, m, s, new, x, E)
      BY <3>2, <3>3, <3>4, <3>5 DEF Goes, N, E
    <3> QED BY <2>2, <3>6, ScannedNext
  <2>4. CASE y # N
    <3> DEFINE d == t - Start(file, y)
               D == IF InWindow(o, d) THEN {d} ELSE {}
               none == <<>>
    <3> HIDE DEF t, x, y, N
    <3>1. /\ y \in Numbers(file) /\ x < y /\ x \in 0..(N - 2) /\ base.at \in Nat
          /\ Start(file, y + 1) \in Int
      <4>1. y \in 1..(N - 1) /\ x < y /\ x \in 0..(N - 2) /\ y + 1 \in 1..N
        BY <1>1, <1>2, <2>4 DEF x, y
      <4>2. Start(file, y + 1) \in Int
        BY <4>1, FileTypes DEF N
      <4>3. base.at \in Nat
        BY DEF BaseOf, Scanning, ScanState, ScanFields
      <4> QED BY <1>2, <4>1, <4>2, <4>3
    <3>2. ~Passed(file, y, m + 1) /\ t < Start(file, y + 1)
      <4>1. ~Passed(file, y, m)
        BY <1>1, <1>2, <3>1, NotYet
      <4>2. ASSUME t >= Start(file, y + 1) PROVE FALSE
        <5>1. Passed(file, y, m + 1)
          BY <1>6, <4>2
        <5>2. PICK l \in EventsTo(file, m + 1) : Start(file, y) <= file.lines[l].value /\ file.lines[l].value < Start(file, y + 1)
          BY <1>2, <3>1, <5>1, PassedBefore
        <5>3. (l \in 1..m /\ IsEvent(file, l)) \/ l = m + 1
          BY <1>2, <5>2 DEF EventsTo
        <5>4. l # m + 1
          BY <1>2, <3>1, <4>2, <5>2 DEF t
        <5>5. l \in EventsTo(file, m) /\ l \in 1..Len(file.lines)
          BY <1>2, <5>3, <5>4 DEF EventsTo
        <5>6. file.lines[l].value \in Int
          BY <5>5, FileTypes
        <5>7. file.lines[l].value >= Start(file, x + 1)
          BY <1>2, <5>2, <5>6
        <5>8. Passed(file, x, m)
          BY <5>5, <5>7 DEF Passed
        <5> QED BY <1>1, <5>8
      <4> QED BY <1>2, <1>6, <3>1, <4>1, <4>2
    <3>3. Belongs(o, file, y, m + 1) <=> InWindow(o, d)
      <4>1. Start(file, y) <= t
        BY <1>2, <1>9
      <4> QED BY <1>4, <3>2, <4>1 DEF Belongs
    <3>4. \A i \in Numbers(file) : i # y => ~Belongs(o, file, i, m + 1)
      <4>1. \A i \in Numbers(file) : i # y => i = x \/ Passed(file, i, m) \/ y < i
        <5>1. \A i \in Numbers(file) : x < i /\ i # y => y < i
          BY <1>2
        <5> QED BY <1>5, <5>1
      <4>2. ASSUME NEW i \in Numbers(file), i # y PROVE ~Belongs(o, file, i, m + 1)
        <5>1. CASE i = x
          BY <2>1, <5>1
        <5>2. CASE Passed(file, i, m) \/ y < i
          BY <3>1, <3>2, <5>2, OnlyActive
        <5> QED BY <4>1, <4>2, <5>1, <5>2
      <4> QED BY <4>2
    <3>5. Shows(none, o, file, y, m)
      BY <1>1, <1>2, <3>1, EmptyYet DEF none
    <3>6. new.at = s.at + 1 /\ Added(o, s, new, none, d)
      BY <1>9, <2>4 DEF none
    <3> HIDE DEF none
    <3>7. new.ok = s.ok /\ new.records = s.records /\ ~new.over
      BY <3>6 DEF Added
    <3>8. /\ new.events = s.events \union D
          /\ TimesTo(o, file, y, m + 1) = TimesTo(o, file, y, m) \union D
          /\ Shows(new.current, o, file, y, m + 1)
      <4>1. CASE InWindow(o, d)
        <5>1. new.current = AddTime(none, d) /\ new.events = s.events \union {d} /\ D = {d}
          BY <3>6, <4>1 DEF Added
        <5>2. Belongs(o, file, y, m + 1)
          BY <3>3, <4>1
        <5>3. /\ Shows(AddTime(none, file.lines[m + 1].value - Start(file, y)), o, file, y, m + 1)
              /\ TimesTo(o, file, y, m + 1) = TimesTo(o, file, y, m) \union {file.lines[m + 1].value - Start(file, y)}
          BY <1>2, <3>1, <3>5, <5>2, EventShows
        <5> QED BY <5>1, <5>3 DEF t
      <4>2. CASE ~InWindow(o, d)
        <5>1. new.current = none /\ new.events = s.events /\ D = {}
          BY <3>6, <4>2 DEF Added
        <5>2. ~Belongs(o, file, y, m + 1)
          BY <3>3, <4>2
        <5>3. TimesTo(o, file, y, m + 1) = TimesTo(o, file, y, m) /\ Shows(none, o, file, y, m + 1)
          BY <3>5, <5>2, NotOwn
        <5> QED BY <5>1, <5>3
      <4> QED BY <4>1, <4>2
    <3> HIDE DEF D, d
    <3>9. new.at = base.at + x
      <4>1. base.at + c + 1 = base.at + x
        <5> DEFINE b == base.at
        <5>1. b \in Nat /\ c \in Nat /\ x \in Nat /\ c + 1 = x
          BY <1>2, <3>1
        <5> HIDE DEF b
        <5>2. b + c + 1 = b + x
          BY <5>1
        <5> QED BY <5>2 DEF b
      <4>2. s.at = base.at + c
        BY <1>1
      <4> QED BY <3>6, <4>1, <4>2
    <3>10. Goes(o, file, base, m, s, new, x, D)
      <4>1. x + 1 = y
        BY <1>2
      <4> QED BY <3>1, <3>2, <3>4, <3>7, <3>8, <3>9, <4>1 DEF Goes, N
    <3> QED BY <2>2, <3>10, ScannedNext
  <2> QED BY <2>3, <2>4
<1> QED
  BY <1>3, <1>7, <1>8, <1>9 DEF EventTurn

\* Any other line: it adds to the present trace, if that has a sample.
LEMMA OtherStep ==
    ASSUME NEW o, NoLimits(o), NEW file \in FileType, InOrder(file), NEW base, BaseOf(file, base), NEW m \in Nat,
           m + 1 <= Len(file.lines), ~IsEvent(file, m + 1),
           NEW c, NEW s, Scanned(o, file, base, c, m, s), ~s.over,
           NEW new, new = ScanLine(o, s, file.lines[m + 1]), new \in Scanning
    PROVE  Scanned(o, file, base, c, m + 1, new)
<1> DEFINE N == Len(file.records)
           line == file.lines[m + 1]
           x == c + 1
           E == {}
           power == line.kind = "power" /\ s.current # <<>>
<1>1. /\ c \in 0..(N - 2) /\ s.at = base.at + c /\ ~Passed(file, x, m) /\ Shows(s.current, o, file, x, m)
      /\ s \in Scanning /\ s.records = base.records /\ \A i \in 1..c : Passed(file, i, m)
  BY DEF Scanned
<1>2. /\ N \in Nat /\ N > 1 /\ c \in Nat /\ x \in Numbers(file) /\ c + 1 = x /\ x \in Nat
      /\ Start(file, x) \in Int /\ Start(file, x + 1) \in Int /\ m + 1 \in 1..Len(file.lines)
      /\ Numbers(file) = 1..(N - 1) /\ Len(file.lines) \in Nat
  <2>1. N \in Nat /\ N > 1 /\ Len(file.lines) \in Nat
    BY FileTypes DEF BaseOf
  <2>2. /\ c \in Nat /\ x \in 1..(N - 1) /\ x \in Nat /\ x \in 1..N /\ x + 1 \in 1..N /\ m + 1 \in 1..Len(file.lines)
    BY <1>1, <2>1
  <2>3. Start(file, x) \in Int /\ Start(file, x + 1) \in Int
    BY <2>2, FileTypes
  <2> QED BY <2>1, <2>2, <2>3 DEF Numbers
<1>3. ~Passed(file, x, m + 1)
  BY <1>1, PassedNext
<1>4. \A i \in Numbers(file) : i # x => Passed(file, i, m) \/ x < i
  <2>1. \A i \in Numbers(file) : i # x => i \in 1..c \/ x < i
    BY <1>2
  <2> HIDE DEF x
  <2> QED BY <1>1, <2>1
<1>5. \A i \in Numbers(file) : i # x => ~Belongs(o, file, i, m + 1)
  <2> HIDE DEF x
  <2> QED BY <1>2, <1>3, <1>4, OnlyActive
<1>6. s = [ok |-> s.ok, records |-> s.records, at |-> s.at, current |-> s.current,
           traces |-> s.traces, events |-> s.events, over |-> s.over]
  BY <1>1 DEF Scanning, ScanState, ScanFields
<1>7. /\ power => new = [s EXCEPT !.current = AddPower(s.current, line.value)]
      /\ ~power => new = s
  BY DEF ScanLine, IsEvent
<1>8. /\ new.ok = s.ok /\ new.records = s.records /\ new.at = s.at /\ new.traces = s.traces /\ new.events = s.events
      /\ ~new.over
      /\ power => new.current = AddPower(s.current, line.value)
  <2> HIDE DEF line
  <2>1. CASE power
    BY <1>6, <1>7, <2>1
  <2>2. CASE ~power
    BY <1>7, <2>2
  <2> QED BY <2>1, <2>2
<1>9. new.over = FALSE
  <2> HIDE DEF line
  <2>1. CASE power
    BY <1>1, <1>6, <1>7, <2>1 DEF Scanning, ScanState, ScanFields
  <2>2. CASE ~power
    BY <1>1, <1>7, <2>2 DEF Scanning, ScanState, ScanFields
  <2> QED BY <2>1, <2>2
<1>10. Shows(new.current, o, file, x, m + 1) /\ TimesTo(o, file, x, m + 1) = TimesTo(o, file, x, m)
  <2> DEFINE seq == s.current
  <2>0. Shows(seq, o, file, x, m)
    BY <1>1
  <2>1. CASE line.kind # "power"
    <3>1. new.current = seq
      BY <1>7, <2>1
    <3> HIDE DEF seq, x
    <3>2. Shows(seq, o, file, x, m + 1) /\ TimesTo(o, file, x, m + 1) = TimesTo(o, file, x, m)
      BY <1>2, <2>0, <2>1, OtherShows
    <3> QED BY <3>1, <3>2
  <2>2. CASE line.kind = "power" /\ s.current = <<>>
    <3>1. new.current = seq /\ seq = <<>>
      BY <1>7, <2>2
    <3> HIDE DEF seq, x
    <3>2. TimesTo(o, file, x, m) = {}
      BY <2>0, <3>1, ShowsTimes
    <3>3. ~Belongs(o, file, x, m + 1)
      BY <2>2, <3>2, PowerOwn
    <3>4. Shows(seq, o, file, x, m + 1) /\ TimesTo(o, file, x, m + 1) = TimesTo(o, file, x, m)
      BY <2>0, <3>3, NotOwn
    <3> QED BY <3>1, <3>4
  <2>3. CASE power
    <3>1. new.current = AddPower(seq, line.value) /\ seq # <<>> /\ line.kind = "power"
      BY <1>8, <2>3
    <3> HIDE DEF seq, x, power
    <3>2. TimesTo(o, file, x, m) # {}
      BY <2>0, <3>1, ShowsTimes
    <3>3. PICK k \in OwnTo(o, file, x, m) : TRUE
      BY <3>2 DEF TimesTo
    <3>4. k \in 1..m /\ Belongs(o, file, x, k)
      BY DEF OwnTo
    <3>5. k \in 1..(m + 1) /\ EventsTo(file, k) # {} /\ Start(file, x) <= At(file, k) /\ InWindow(o, At(file, k) - Start(file, x))
      BY <3>4 DEF Belongs
    <3>6. EventsTo(file, m + 1) # {} /\ At(file, m + 1) \in Int /\ At(file, k) \in Int /\ At(file, k) <= At(file, m + 1)
      BY <1>2, <3>5, TimesRise
    <3>7. At(file, m + 1) < Start(file, x + 1)
      <4>1. PICK e \in EventsTo(file, m + 1) : At(file, m + 1) = file.lines[e].value
        BY <1>2, <3>6, LastEvent
      <4>2. ~(file.lines[e].value >= Start(file, x + 1))
        BY <1>3, <4>1 DEF Passed
      <4> QED BY <1>2, <3>6, <4>1, <4>2
    <3>8. Start(file, x) <= At(file, m + 1) /\ InWindow(o, At(file, m + 1) - Start(file, x))
      <4> DEFINE a == At(file, k)
                 b == At(file, m + 1)
                 z == Start(file, x)
                 low == o.min_time
      <4>1. a \in Int /\ b \in Int /\ z \in Int /\ low \in Nat /\ z <= a /\ a <= b /\ (low # 0 => a - z >= low)
        BY <1>2, <3>5, <3>6 DEF InWindow, NoLimits
      <4> HIDE DEF a, b, z, low
      <4>2. z <= b /\ (low # 0 => b - z >= low)
        BY <4>1
      <4> QED BY <4>2 DEF a, b, z, low, InWindow, NoLimits
    <3>9. Belongs(o, file, x, m + 1)
      BY <3>6, <3>7, <3>8 DEF Belongs
    <3>10. Shows(AddPower(seq, file.lines[m + 1].value), o, file, x, m + 1) /\ TimesTo(o, file, x, m + 1) = TimesTo(o, file, x, m)
      BY <1>2, <2>0, <3>1, <3>9, PowerShows
    <3> QED BY <3>1, <3>10
  <2> QED BY <2>1, <2>2, <2>3
<1>11. Ends(file, c, m, s, new, c)
  BY <1>8 DEF Ends
<1> HIDE DEF x, E, N
<1>12. Goes(o, file, base, m, s, new, c, E)
  BY <1>1, <1>2, <1>3, <1>5, <1>8, <1>9, <1>10 DEF Goes, E, N, x
<1> QED
  BY <1>11, <1>12, ScannedNext

LEMMA ScanStep ==
    ASSUME NEW o, NoLimits(o), NEW file \in FileType, InOrder(file), NEW base, BaseOf(file, base), NEW m \in Nat,
           m + 1 <= Len(file.lines), NEW c, NEW s, Scanned(o, file, base, c, m, s)
    PROVE  \E d \in {c, c + 1} : Scanned(o, file, base, d, m + 1, ScanLine(o, s, file.lines[m + 1]))
<1> DEFINE line == file.lines[m + 1]
           new == ScanLine(o, s, line)
           N == Len(file.records)
           E == {}
<1>1. s \in Scanning
  BY DEF Scanned
<1>2. m + 1 \in 1..Len(file.lines) /\ line \in WaveLine /\ N \in Nat /\ N > 1
  <2>1. m + 1 \in 1..Len(file.lines) /\ N \in Nat /\ N > 1
    BY FileTypes DEF BaseOf
  <2> QED BY <2>1, FileTypes
<1>3. new \in Scanning
  BY <1>1, <1>2, ScanLineType
<1>4. CASE s.over
  <2>1. new = s
    BY <1>4 DEF ScanLine
  <2>2. c = N - 1 /\ \A i \in 1..c : Passed(file, i, m)
    BY <1>4 DEF Scanned
  <2>3. \A i \in Numbers(file) : Passed(file, i, m) /\ i # c + 1
    BY <1>2, <2>2 DEF Numbers
  <2>4. \A i \in Numbers(file) : ~Belongs(o, file, i, m + 1)
    BY <2>3, PassedOver
  <2> HIDE DEF N, new, line
  <2>5. c + 1 \notin Numbers(file)
    BY <2>3
  <2>6. Ends(file, c, m, s, new, c)
    BY <2>1 DEF Ends
  <2>7. Goes(o, file, base, m, s, new, c, E)
    BY <1>1, <1>4, <2>1, <2>2, <2>4, <2>5 DEF Goes, E, N
  <2>8. Scanned(o, file, base, c, m + 1, new)
    BY <2>6, <2>7, ScannedNext
  <2> QED BY <2>8 DEF new, line
<1>5. CASE ~s.over /\ IsEvent(file, m + 1)
  <2>1. new = ScanEvent(o, s, file.lines[m + 1].value)
    <3>1. ~s.over /\ line.kind = "event"
      BY <1>5 DEF IsEvent
    <3> HIDE DEF line
    <3>2. ScanLine(o, s, line) = ScanEvent(o, s, line.value)
      BY <3>1 DEF ScanLine
    <3> QED BY <3>2 DEF line
  <2> HIDE DEF new, line, N
  <2>2. \E d \in {c, c + 1} : Scanned(o, file, base, d, m + 1, new)
    <3>1. ~s.over
      BY <1>5
    <3>2. IsEvent(file, m + 1)
      BY <1>5
    <3> QED BY <1>3, <2>1, <3>1, <3>2, EventStep
  <2> QED BY <2>2 DEF new, line
<1>6. CASE ~s.over /\ ~IsEvent(file, m + 1)
  <2>1. new = ScanLine(o, s, file.lines[m + 1])
    OBVIOUS
  <2> HIDE DEF new, line, N
  <2>2. Scanned(o, file, base, c, m + 1, new)
    BY <1>3, <1>6, <2>1, OtherStep
  <2> QED BY <2>2 DEF new, line
<1> QED
  BY <1>4, <1>5, <1>6

\* A whole file: some number of its traces have ended, the first ones.
LEMMA FileScanned ==
    ASSUME NEW o, NoLimits(o), NEW file \in FileType, InOrder(file), NEW base, BaseOf(file, base)
    PROVE  \E c : Scanned(o, file, base, c, Len(file.lines), ScanLines(o, base, file.lines))
<1> DEFINE n == Len(file.lines)
<1>1. n \in Nat /\ base \in Scanning /\ file.lines \in Seq(WaveLine)
  BY FileTypes DEF BaseOf, FileType
<1>2. PICK A : LineTurns(A, o, base, file.lines)
  BY <1>1, ScanTurns
<1> DEFINE Ok == { k \in Nat : k <= n => \E c : Scanned(o, file, base, c, k, A[k]) }
<1>3. A[0] = base /\ A[n] = ScanLines(o, base, file.lines) /\ \A k \in 1..n : A[k] = ScanLine(o, A[k - 1], file.lines[k])
  BY <1>2 DEF LineTurns
<1>4. 0 \in Ok
  <2>1. Scanned(o, file, base, 0, 0, base)
    BY ScannedBase
  <2> QED BY <1>3, <2>1
<1>5. ASSUME NEW k \in Nat, k \in Ok PROVE k + 1 \in Ok
  <2> SUFFICES ASSUME k + 1 <= n PROVE \E c : Scanned(o, file, base, c, k + 1, A[k + 1])
    OBVIOUS
  <2>1. k + 1 \in 1..n /\ (k + 1) - 1 = k /\ k <= n
    BY <1>1
  <2>2. A[k + 1] = ScanLine(o, A[k], file.lines[k + 1])
    BY <1>3, <2>1
  <2>3. PICK c : Scanned(o, file, base, c, k, A[k])
    BY <1>5, <2>1
  <2> DEFINE s == A[k]
  <2>4. Scanned(o, file, base, c, k, s) /\ k + 1 <= Len(file.lines)
    BY <2>3
  <2> HIDE DEF s, n
  <2>5. \E d \in {c, c + 1} : Scanned(o, file, base, d, k + 1, ScanLine(o, s, file.lines[k + 1]))
    BY <2>4, ScanStep
  <2> QED BY <2>2, <2>5 DEF s
<1>6. n \in Ok
  <2> HIDE DEF Ok
  <2> QED BY <1>1, <1>4, <1>5, Induction
<1> QED
  BY <1>1, <1>3, <1>6

\* FlattenSeq, one sequence after the other.
Joins(B, seqs) ==
    /\ B[0] = <<>> /\ FlattenSeq(seqs) = B[Len(seqs)]
    /\ \A k \in 1..Len(seqs) : B[k] = B[k - 1] \o seqs[k]

-----------------------------------------------------------------------------
(* From the ended traces of the files to the traces of the reader.            *)

LEMMA FlattenTurns ==
    ASSUME NEW T, NEW seqs \in Seq(Seq(T))
    PROVE  \E B \in [0..Len(seqs) -> Seq(T)] : Joins(B, seqs)
<1> DEFINE n == Len(seqs)
           V == Seq(T)
           none == <<>>
           h == [p \in V \X (1..n) |-> p[1] \o seqs[p[2]]]
           IsFlat(g) == g = [i \in 1..n |-> IF i = 1 THEN seqs[i] ELSE g[i - 1] \o seqs[i]]
           G == CHOOSE g : IsFlat(g)
<1>1. n \in Nat /\ DOMAIN seqs = 1..n /\ (\A k \in 1..n : seqs[k] \in V) /\ none \in V
  BY LenProperties
<1>2. ASSUME NEW acc \in V, NEW k \in 1..n PROVE acc \o seqs[k] \in V /\ h[<<acc, k>>] = acc \o seqs[k]
  BY <1>1, ConcatProperties
<1>3. h \in [V \X (1..n) -> V]
  <2> HIDE DEF V
  <2>1. \A p \in V \X (1..n) : p[1] \o seqs[p[2]] \in V
    BY <1>2
  <2> QED BY <2>1
<1>4. n # 0 => FlattenSeq(seqs) = G[n]
  BY DEF FlattenSeq
<1>5. n = 0 => FlattenSeq(seqs) = none
  BY EmptySeq DEF FlattenSeq
<1> HIDE DEF h, V, n, none
<1>6. PICK F : Folds(F, n, V, none, h)
  BY <1>1, <1>3, FoldExists
<1> DEFINE A == [k \in 0..n |-> F[1..k]]
<1>7. A[0] = none /\ \A k \in 0..n : A[k] \in V
  <2>1. F \in [SUBSET (1..n) -> V] /\ F[{}] = none
    BY <1>6 DEF Folds
  <2>2. 1..0 = {} /\ 0 \in 0..n /\ \A k \in 0..n : 1..k \in SUBSET (1..n)
    BY <1>1
  <2> QED BY <2>1, <2>2
<1>8. ASSUME NEW k \in 1..n PROVE A[k] = A[k - 1] \o seqs[k]
  <2>1. /\ Max(1..k) = k /\ (1..k) \ {Max(1..k)} = 1..(k - 1)
        /\ 1..k # {} /\ 1..k \in SUBSET (1..n)
    BY <1>1, Prefix
  <2>2. F[1..k] = h[<<F[1..(k - 1)], k>>]
    BY <1>6, <2>1 DEF Folds
  <2>3. k \in 0..n /\ k - 1 \in 0..n /\ A[k] = F[1..k] /\ A[k - 1] = F[1..(k - 1)]
    BY <1>1
  <2>4. A[k - 1] \in V
    BY <1>7, <2>3
  <2> HIDE DEF A
  <2> QED BY <1>2, <2>2, <2>3, <2>4
<1> HIDE DEF A
<1>9. IsFlat([i \in 1..n |-> A[i]])
  <2> DEFINE g == [i \in 1..n |-> A[i]]
             e(i) == IF i = 1 THEN seqs[i] ELSE g[i - 1] \o seqs[i]
  <2>1. ASSUME NEW i \in 1..n PROVE A[i] = e(i)
    <3>1. CASE i = 1
      <4>3. A[i] = A[i - 1] \o seqs[i]
        BY <1>8
      <4>4. i - 1 = 0
        BY <3>1
      <4>1. A[i] = none \o seqs[i] /\ seqs[i] \in V
        BY <1>1, <1>7, <4>3, <4>4
      <4>2. none \o seqs[i] = seqs[i]
        BY <4>1, ConcatEmptySeq DEF none, V
      <4> QED BY <3>1, <4>1, <4>2
    <3>2. CASE i # 1
      <4>1. i - 1 \in 1..n
        BY <1>1, <3>2
      <4>2. g[i - 1] = A[i - 1]
        BY <4>1
      <4> QED BY <1>8, <3>2, <4>2
    <3> QED BY <3>1, <3>2
  <2> HIDE DEF e
  <2>2. g = [i \in 1..n |-> e(i)]
    BY <2>1
  <2> QED BY <2>2 DEF e
<1>10. IsFlat(G)
  <2> HIDE DEF IsFlat
  <2> QED BY <1>9
<1>11. \A i \in 1..n : G[i] = A[i]
  <2> DEFINE Ok == { k \in Nat : k + 1 \in 1..n => G[k + 1] = A[k + 1] }
  <2>0. \A i \in 1..n : G[i] = IF i = 1 THEN seqs[i] ELSE G[i - 1] \o seqs[i]
    <3> HIDE DEF G
    <3> QED BY <1>10
  <2>1. 0 \in Ok
    <3>1. ASSUME 1 \in 1..n PROVE G[1] = A[1]
      <4> DEFINE g == [i \in 1..n |-> A[i]]
      <4>1. g[1] = A[1]
        BY <3>1
      <4>2. g[1] = seqs[1]
        <5> HIDE DEF g
        <5>1. \A i \in 1..n : g[i] = IF i = 1 THEN seqs[i] ELSE g[i - 1] \o seqs[i]
          BY <1>9 DEF g
        <5> QED BY <3>1, <5>1
      <4>3. G[1] = seqs[1]
        <5> HIDE DEF G
        <5> QED BY <2>0, <3>1
      <4> QED BY <4>1, <4>2, <4>3
    <3> HIDE DEF G, IsFlat
    <3> QED BY <3>1
  <2>2. ASSUME NEW k \in Nat, k \in Ok PROVE k + 1 \in Ok
    <3> SUFFICES ASSUME k + 2 \in 1..n PROVE G[k + 2] = A[k + 2]
      <4> HIDE DEF G
      <4>1. (k + 1) + 1 = k + 2
        OBVIOUS
      <4> QED BY <4>1
    <3> HIDE DEF G
    <3>1. k + 1 \in 1..n /\ (k + 2) - 1 = k + 1 /\ k + 2 # 1
      BY <1>1
    <3>2. G[k + 1] = A[k + 1]
      BY <2>2, <3>1
    <3>3. A[k + 2] = A[k + 1] \o seqs[k + 2]
      BY <1>8, <3>1
    <3>4. G[k + 2] = G[k + 1] \o seqs[k + 2]
      BY <2>0, <3>1
    <3> QED BY <3>2, <3>3, <3>4
  <2>3. Nat \subseteq Ok
    <3> HIDE DEF Ok
    <3> QED BY <2>1, <2>2, Induction
  <2> HIDE DEF G
  <2>4. ASSUME NEW i \in 1..n PROVE G[i] = A[i]
    <3>1. i - 1 \in Nat /\ (i - 1) + 1 = i
      BY <1>1
    <3> QED BY <2>3, <3>1
  <2> QED BY <2>4
<1> HIDE DEF G, IsFlat
<1>12. FlattenSeq(seqs) = A[n]
  <2>1. CASE n = 0
    BY <1>5, <1>7, <2>1
  <2>2. CASE n # 0
    <3>1. n \in 1..n
      BY <1>1, <2>2
    <3> QED BY <1>4, <1>11, <2>2, <3>1
  <2> QED BY <2>1, <2>2
<1>13. A \in [0..n -> V]
  <2>1. A = [k \in 0..n |-> A[k]]
    BY DEF A
  <2> QED BY <1>7, <2>1
<1>14. Joins(A, seqs)
  BY <1>7, <1>8, <1>12 DEF Joins, n, none
<1> QED
  BY <1>13, <1>14 DEF n, V

\* The power a trace has at a time, and the trace, of the sums of its lines.
HeldPower(o, file, i, t) ==
    LET times == TimesTo(o, file, i, Len(file.lines))
        ahead == {u \in times : u >= t}
    IN  IF times = {} THEN 0
        ELSE Printed(PowerTo(o, file, i, Len(file.lines), IF ahead = {} THEN Max(times) ELSE Min(ahead)))

HeldSamples(o, file, i, E) ==
    [n \in 1..Cardinality(E) |-> Sample(Ascending(E)[n], HeldPower(o, file, i, Ascending(E)[n]))]

RecordRead(o, file, i, E) == Read(TRUE, TextOf(o, file.records[i]), HeldSamples(o, file, i, E))

LEMMA HeldIs ==
    ASSUME NEW file, NEW o, NEW i, NEW seq, DumpShows(seq, o, file, i, Len(file.lines)),
           NEW t \in Int, NEW p, HoldsAt(seq, t, p)
    PROVE  p = HeldPower(o, file, i, t)
<1> DEFINE m == Len(file.lines)
           T == TimesTo(o, file, i, m)
           n == Len(seq)
           ahead == {u \in T : u >= t}
<1>1. /\ seq \in Seq(SampleType) /\ n \in Nat
      /\ \A j, k \in 1..n : j < k => seq[j].time < seq[k].time
      /\ \A j \in 1..n : seq[j].time \in T /\ seq[j].power = Printed(PowerTo(o, file, i, m, seq[j].time))
      /\ \A x \in T : \E j \in 1..n : seq[j].time = x
  BY LenProperties DEF DumpShows, Covers
<1>2. \A j \in 1..n : seq[j].time \in Int
  <2>1. \A j \in 1..n : seq[j] \in SampleType
    BY <1>1, ElementOfSeq
  <2> QED BY <2>1 DEF SampleType
<1>3. T \in SUBSET Int
  BY <1>1, <1>2
<1> HIDE DEF m, T
<1>4. CASE n = 0
  <2>1. T = {}
    BY <1>1, <1>4
  <2>2. p = 0
    BY <1>4 DEF HoldsAt
  <2> QED BY <2>1, <2>2 DEF HeldPower, T, m
<1>5. CASE n # 0
  <2>1. PICK j \in 1..n : /\ p = seq[j].power /\ (seq[j].time >= t \/ j = n)
                          /\ \A k \in 1..(j - 1) : seq[k].time < t
    BY <1>5 DEF HoldsAt
  <2> DEFINE u == seq[j].time
  <2>2. u \in T /\ u \in Int /\ p = Printed(PowerTo(o, file, i, m, u))
    BY <1>1, <1>2, <2>1
  <2> HIDE DEF u
  <2>3. CASE u >= t
    <3>1. u \in ahead /\ ahead \in SUBSET Int
      BY <1>3, <2>2, <2>3
    <3>2. ASSUME NEW x \in ahead PROVE u <= x
      <4>1. x \in T /\ x >= t
        OBVIOUS
      <4>2. PICK k \in 1..n : seq[k].time = x
        BY <1>1, <4>1
      <4>3. ~(k < j)
        <5>1. ASSUME k < j PROVE FALSE
          <6>1. k \in 1..(j - 1)
            BY <1>1, <5>1
          <6>2. seq[k].time < t /\ seq[k].time \in Int
            BY <1>2, <2>1, <6>1
          <6> QED BY <4>1, <4>2, <6>2
        <5> QED BY <5>1
      <4>4. k = j \/ j < k
        BY <1>1, <4>3
      <4>5. j < k => u < x
        BY <1>1, <4>2 DEF u
      <4>6. k = j => u = x
        BY <4>2 DEF u
      <4>7. x \in Int
        BY <1>3, <4>1
      <4> HIDE DEF ahead
      <4> QED BY <2>2, <4>4, <4>5, <4>6, <4>7
    <3>3. Min(ahead) = u /\ ahead # {} /\ T # {}
      <4> HIDE DEF ahead
      <4>1. Min(ahead) = u
        BY <3>1, <3>2, OneExtreme
      <4> QED BY <2>2, <3>1, <4>1
    <3> QED BY <2>2, <3>3 DEF HeldPower, T, m
  <2>4. CASE ~(u >= t)
    <3>1. j = n
      BY <2>1, <2>4 DEF u
    <3>2. ASSUME NEW x \in T PROVE x <= u /\ ~(x >= t)
      <4>1. PICK k \in 1..n : seq[k].time = x
        BY <1>1
      <4>2. k = j \/ k < j
        BY <1>1, <3>1
      <4>3. k < j => x < u
        BY <1>1, <4>1 DEF u
      <4>4. k = j => x = u
        BY <4>1 DEF u
      <4>5. x \in Int
        BY <1>3
      <4> QED BY <2>2, <2>4, <4>2, <4>3, <4>4, <4>5
    <3>3. Max(T) = u
      BY <1>3, <2>2, <3>2, OneExtreme
    <3>4. ahead = {} /\ T # {}
      BY <2>2, <3>2
    <3> QED BY <2>2, <3>3, <3>4 DEF HeldPower, T, m
  <2> QED BY <2>3, <2>4
<1> QED
  BY <1>4, <1>5

\* What is read of a scanned trace.
LEMMA TraceRead ==
    ASSUME NEW file \in FileType, NEW o, NEW i, NEW E \in FiniteInts,
           TimesTo(o, file, i, Len(file.lines)) \subseteq E,
           NEW seq, DumpShows(seq, o, file, i, Len(file.lines)), NEW text, NEW past \in PastType
    PROVE  copy_trace(text, seq, E, past) = Read(TRUE, text, HeldSamples(o, file, i, E))
<1> DEFINE read == copy_trace(text, seq, E, past)
           u == read.samples
           a == Ascending(E)
           N == Cardinality(E)
<1>1. seq \in Seq(SampleType) /\ Rising(seq) /\ \A j \in 1..Len(seq) : seq[j].time \in E
  BY DEF DumpShows, Covers, Rising
<1>2. /\ read = Read(TRUE, text, u) /\ Covers(u, E)
      /\ \A j \in 1..Len(u) : HoldsAt(seq, u[j].time, u[j].power)
  BY <1>1, CopyHolds
<1>3. E \in SUBSET Int /\ \A x \in E : x \in Int
  BY DEF FiniteInts
<1> HIDE DEF read, u
<1>4. Times(u) = a /\ Len(u) = N /\ u \in Seq(SampleType)
  BY <1>2, <1>3, CoversAll DEF Covers
<1>5. N \in Nat /\ DOMAIN u = 1..N /\ \A j \in 1..N : u[j] \in SampleType
  BY <1>4, LenProperties, ElementOfSeq
<1> HIDE DEF a, N
<1>6. ASSUME NEW j \in 1..N PROVE u[j] = Sample(a[j], HeldPower(o, file, i, a[j]))
  <2>1. u[j].time = a[j]
    BY <1>4, <1>5 DEF Times
  <2>2. HoldsAt(seq, u[j].time, u[j].power) /\ u[j].time \in Int
    <3>1. u[j].time \in E
      BY <1>2, <1>4 DEF Covers
    <3> QED BY <1>2, <1>3, <1>4, <3>1
  <2> DEFINE t == u[j].time
             p == u[j].power
  <2>3. p = HeldPower(o, file, i, t)
    <3>1. HoldsAt(seq, t, p) /\ t \in Int
      BY <2>2
    <3> HIDE DEF t, p
    <3> QED BY <3>1, HeldIs
  <2>4. u[j] = [time |-> u[j].time, power |-> u[j].power]
    BY <1>5 DEF SampleType
  <2> QED BY <2>1, <2>3, <2>4 DEF Sample
<1>7. u = [j \in 1..N |-> Sample(a[j], HeldPower(o, file, i, a[j]))]
  <2>1. u = [j \in 1..N |-> u[j]]
    BY <1>4, <1>5
  <2> QED BY <1>6, <2>1
<1> QED
  BY <1>2, <1>7 DEF HeldSamples, a, N, read

\* The traces SimvExact speaks of.
LEMMA SimvTraceIs ==
    ASSUME NEW files, NEW f, files[f] \in FileType, NEW i, NEW o
    PROVE  LET file == files[f] IN
           /\ \A E : SimvTrace(files, f, i, o, E).times = TimesTo(o, file, i, Len(file.lines))
           /\ \A E : SimvTrace(files, f, i, o, E).complete <=> Passed(file, i, Len(file.lines))
           /\ \A E \in FiniteInts : SimvTrace(files, f, i, o, E).read = RecordRead(o, file, i, E)
<1> DEFINE file == files[f]
           m == Len(file.lines)
           own == {l \in DOMAIN file.lines :
                     /\ \E k \in 1..l : file.lines[k].kind = "event"
                     /\ file.records[i].event \div file.resolution
                           <= file.lines[Max({k \in 1..l : file.lines[k].kind = "event"})].value
                     /\ file.lines[Max({k \in 1..l : file.lines[k].kind = "event"})].value
                           < file.records[i + 1].event \div file.resolution
                     /\ InWindow(o, file.lines[Max({k \in 1..l : file.lines[k].kind = "event"})].value
                                       - file.records[i].event \div file.resolution)}
           T == TimesTo(o, file, i, m)
<1>1. DOMAIN file.lines = 1..m /\ m \in Nat
  BY FileTypes
<1>2. own = OwnTo(o, file, i, m)
  <2>1. \A l : (\E k \in 1..l : file.lines[k].kind = "event") <=> EventsTo(file, l) # {}
    BY DEF EventsTo, IsEvent
  <2> QED BY <1>1, <2>1 DEF OwnTo, Belongs, At, Start, EventsTo, IsEvent
<1> DEFINE start(n) == file.records[n].event \div file.resolution
           at(l) == file.lines[Max({k \in 1..l : file.lines[k].kind = "event"})].value
           times == {at(l) - start(i) : l \in own}
           power(t) == Printed(LineSum(file, {l \in own : file.lines[l].kind = "power" /\ at(l) - start(i) = t}))
           ahead(t) == {u \in times : u >= t}
           held(t) == IF times = {} THEN 0
                      ELSE power(IF ahead(t) = {} THEN Max(times) ELSE Min(ahead(t)))
           grid(E) == Ascending(E)
           trace(E) ==
               [times |-> times,
                complete |-> \E l \in DOMAIN file.lines : file.lines[l].kind = "event" /\ file.lines[l].value >= start(i + 1),
                read |-> Read(TRUE, TextOf(o, file.records[i]), [n \in DOMAIN grid(E) |-> Sample(grid(E)[n], held(grid(E)[n]))])]
<1>3. \A E : SimvTrace(files, f, i, o, E) = trace(E)
  BY DEF SimvTrace, LineSum
<1>4. \A l : at(l) = At(file, l)
  BY DEF At, EventsTo, IsEvent
<1>5. \A n : start(n) = Start(file, n)
  BY DEF Start
<1> DEFINE passes == \E l \in DOMAIN file.lines : file.lines[l].kind = "event" /\ file.lines[l].value >= start(i + 1)
<1>6. passes <=> Passed(file, i, m)
  BY <1>1, <1>5 DEF Passed, EventsTo, IsEvent
<1> HIDE DEF at, start, own, m
<1>7. times = T
  BY <1>2, <1>4, <1>5 DEF TimesTo
<1>8. \A t : power(t) = Printed(PowerTo(o, file, i, m, t))
  <2> TAKE t
  <2>1. {l \in own : file.lines[l].kind = "power" /\ at(l) - start(i) = t} = PowerLines(o, file, i, m, t)
    BY <1>2, <1>4, <1>5 DEF PowerLines
  <2> QED BY <2>1 DEF PowerTo
<1> HIDE DEF times, power, T
<1>9. \A t : held(t) = HeldPower(o, file, i, t)
  <2> TAKE t
  <2>1. ahead(t) = {u \in T : u >= t}
    BY <1>7
  <2> HIDE DEF ahead
  <2> QED BY <1>7, <1>8, <2>1 DEF HeldPower, T, m
<1> HIDE DEF held, passes
<1>10. ASSUME NEW E \in FiniteInts
       PROVE  [n \in DOMAIN grid(E) |-> Sample(grid(E)[n], held(grid(E)[n]))] = HeldSamples(o, file, i, E)
  <2>1. DOMAIN Ascending(E) = 1..Cardinality(E)
    BY AscendingLists
  <2> QED BY <1>9, <2>1 DEF HeldSamples
<1>11. \A E : /\ trace(E).times = times /\ (trace(E).complete <=> passes)
              /\ trace(E).read = Read(TRUE, TextOf(o, file.records[i]), [n \in DOMAIN grid(E) |-> Sample(grid(E)[n], held(grid(E)[n]))])
  BY DEF passes
<1> HIDE DEF trace, file
<1>12. \A E : SimvTrace(files, f, i, o, E).times = TimesTo(o, file, i, m)
  BY <1>3, <1>7, <1>11 DEF T
<1>13. \A E : SimvTrace(files, f, i, o, E).complete <=> Passed(file, i, m)
  BY <1>3, <1>6, <1>11
<1>14. \A E \in FiniteInts : SimvTrace(files, f, i, o, E).read = RecordRead(o, file, i, E)
  BY <1>3, <1>10, <1>11 DEF RecordRead
<1> QED
  BY <1>12, <1>13, <1>14 DEF file, m

Scaled(file) == [i \in DOMAIN file.records |-> [file.records[i] EXCEPT !.event = @ \div file.resolution]]

\* What the scan of a whole file, of which the first c traces have ended, adds.
FileAdds(o, file, s, new, c) ==
    /\ Len(file.records) > 1 /\ c \in Nat
    /\ {i \in Numbers(file) : Passed(file, i, Len(file.lines))} = 1..c
    /\ new.records = s.records \o Scaled(file)
    /\ new.events = s.events \union EventsOf(o, file, Len(file.lines))
    /\ Len(new.traces) = Len(s.traces) + c
    /\ \A i \in 1..Len(s.traces) : new.traces[i] = s.traces[i]
    /\ \A i \in 1..c : /\ new.traces[Len(s.traces) + i].record = Len(s.records) + i
                       /\ DumpShows(new.traces[Len(s.traces) + i].samples, o, file, i, Len(file.lines))

LEMMA ScaledRecords ==
    ASSUME NEW file \in FileType
    PROVE  /\ Scaled(file) \in Seq(RecordType) /\ Len(Scaled(file)) = Len(file.records)
           /\ \A i \in 1..Len(file.records) : /\ Scaled(file)[i].event = Start(file, i)
                                              /\ \A o : TextOf(o, Scaled(file)[i]) = TextOf(o, file.records[i])
<1> DEFINE r == file.records
           n == Len(r)
           d == file.resolution
           one(i) == [r[i] EXCEPT !.event = @ \div d]
<1>1. r \in Seq([event : Nat, m : Text, c : Text]) /\ d \in Nat \ {0} /\ n \in Nat /\ DOMAIN r = 1..n
  BY LenProperties DEF FileType
<1>2. \A i \in 1..n : r[i] \in [event : Nat, m : Text, c : Text]
  BY <1>1, ElementOfSeq
<1>3. Scaled(file) = [i \in 1..n |-> one(i)]
  BY <1>1 DEF Scaled
<1>4. \A i \in 1..n : Start(file, i) = r[i].event \div d
  BY DEF Start
<1> HIDE DEF r, n, d
<1>5. ASSUME NEW i \in 1..n
      PROVE  one(i) \in RecordType /\ one(i).event = r[i].event \div d /\ one(i).m = r[i].m /\ one(i).c = r[i].c
  <2>1. r[i] \in [event : Nat, m : Text, c : Text] /\ r[i].event \in Nat
    BY <1>2
  <2>2. r[i].event \div d \in Int
    BY <1>1, <2>1
  <2> QED BY <2>1, <2>2 DEF RecordType
<1> HIDE DEF one
<1> DEFINE u == Scaled(file)
<1>6. u \in [1..n -> RecordType] /\ \A i \in 1..n : u[i] = one(i)
  BY <1>3, <1>5
<1> HIDE DEF u
<1>7. u \in Seq(RecordType) /\ Len(u) = n
  BY <1>1, <1>6
<1>8. \A i \in 1..n : u[i].event = Start(file, i) /\ \A o : TextOf(o, u[i]) = TextOf(o, r[i])
  BY <1>4, <1>5, <1>6 DEF TextOf
<1> QED
  BY <1>7, <1>8 DEF u, n, r

\* The first traces of a file end, and no other.
LEMMA FirstEnd ==
    ASSUME NEW o, NEW file \in FileType, InOrder(file), NEW base, BaseOf(file, base), NEW c, NEW s,
           Scanned(o, file, base, c, Len(file.lines), s)
    PROVE  c \in Nat /\ {i \in Numbers(file) : Passed(file, i, Len(file.lines))} = 1..c
<1> DEFINE N == Len(file.records)
           m == Len(file.lines)
<1>1. /\ \A i \in 1..c : Passed(file, i, m)
      /\ IF s.over THEN c = N - 1 ELSE c \in 0..(N - 2) /\ ~Passed(file, c + 1, m)
  BY DEF Scanned
<1>2. N \in Nat /\ N > 1 /\ m \in Nat /\ Numbers(file) = 1..(N - 1)
  BY FileTypes DEF BaseOf, Numbers
<1>3. c \in Nat /\ c <= N - 1
  BY <1>1, <1>2
<1>4. \A i \in Numbers(file) : i \notin 1..c => ~Passed(file, i, m)
  <2>1. CASE s.over
    BY <1>1, <1>2, <2>1
  <2>2. CASE ~s.over
    <3> DEFINE x == c + 1
    <3>1. x \in Numbers(file) /\ ~Passed(file, x, m) /\ m \in 0..m
      BY <1>1, <1>2, <2>2
    <3>2. \A i \in Numbers(file) : i \notin 1..c => x <= i
      BY <1>2, <1>3
    <3> HIDE DEF x
    <3>3. \A i \in Numbers(file) : x <= i => ~Passed(file, i, m)
      BY <3>1, NotYet
    <3> QED BY <3>2, <3>3
  <2> QED BY <2>1, <2>2
<1>5. 1..c \subseteq Numbers(file)
  BY <1>2, <1>3
<1> QED
  BY <1>1, <1>3, <1>4, <1>5

LEMMA FileStep ==
    ASSUME NEW o, NoLimits(o), NEW files \in SimvFiles, NEW k \in 1..Len(files), InOrder(files[k]),
           NEW s \in ScanState, k = 1 => s = ScanBase,
           NEW new, new = ScanFile(o, s, files[k]), new.ok
    PROVE  s.ok /\ \E c : FileAdds(o, files[k], s, new, c)
<1> DEFINE file == files[k]
           N == Len(file.records)
           read == read_timestamps(s, file)
           b == Len(s.records)
           recs == s.records \o Scaled(file)
<1>1. file \in FileType /\ (k # 1 => N > 1)
  <2>1. /\ files \in Seq(FileType) /\ \A f \in 2..Len(files) : Len(files[f].records) > 1
    BY DEF SimvFiles, FileType
  <2>2. k # 1 => k \in 2..Len(files)
    BY <2>1, LenProperties
  <2> QED BY <2>1, <2>2, ElementOfSeq
<1>2. s.ok
  <2>1. ASSUME ~s.ok PROVE FALSE
    <3>1. new = s
      BY <2>1 DEF ScanFile
    <3> QED BY <2>1, <3>1
  <2> QED BY <2>1
<1>3. ~Enough(o, Len(s.traces))
  BY DEF Enough, NoLimits
<1> HIDE DEF file
<1>4. read = [s EXCEPT !.records = recs, !.at = b + 1, !.current = <<>>,
                       !.over = FALSE, !.ok = s.ok /\ b + Len(Scaled(file)) > 1]
  BY DEF read_timestamps, Scaled
<1>5. /\ Scaled(file) \in Seq(RecordType) /\ Len(Scaled(file)) = N
      /\ \A i \in 1..N : Scaled(file)[i].event = Start(file, i)
  BY <1>1, ScaledRecords
<1>6. /\ b \in Nat /\ N \in Nat /\ s.records \in Seq(RecordType) /\ s.traces \in Seq(TraceType) /\ s.events \in FiniteInts
      /\ s.ok \in BOOLEAN
  BY <1>1, FileTypes, LenProperties DEF ScanState, ScanFields
<1> DEFINE scaled == Scaled(file)
<1>7. /\ recs \in Seq(RecordType) /\ Len(recs) = b + N
      /\ \A i \in 1..(b + N) : recs[i] = IF i <= b THEN s.records[i] ELSE scaled[i - b]
  <2> HIDE DEF scaled, N
  <2> QED BY <1>5, <1>6, ConcatProperties DEF scaled
<1>8. /\ read.records = recs /\ read.at = b + 1 /\ read.current = <<>> /\ read.over = FALSE /\ read.traces = s.traces
      /\ read.events = s.events /\ read.ok = (s.ok /\ b + N > 1) /\ read \in ScanState
  <2> DEFINE ok == s.ok /\ b + N > 1
             at == b + 1
  <2>1. ok \in BOOLEAN /\ at \in Nat /\ <<>> \in Seq(SampleType)
    BY <1>6
  <2>2. read = [s EXCEPT !.records = recs, !.at = at, !.current = <<>>, !.over = FALSE, !.ok = ok]
    BY <1>4, <1>5
  <2>3. Recorded(s.traces, Len(recs))
    <3>1. Recorded(s.traces, b)
      BY DEF ScanState
    <3>2. \A x \in 1..b : x \in 1..Len(recs)
      <4>1. Len(recs) = b + N
        BY <1>7
      <4> HIDE DEF recs, b, N
      <4> QED BY <1>6, <4>1
    <3>3. \A i \in 1..Len(s.traces) : s.traces[i].record \in 1..b
      BY <3>1 DEF Recorded
    <3> HIDE DEF recs, b
    <3> QED BY <3>2, <3>3 DEF Recorded
  <2> HIDE DEF ok, at, recs, read
  <2>4. s \in ScanFields
    BY DEF ScanState
  <2>5. /\ read.records = recs /\ read.at = at /\ read.current = <<>> /\ read.over = FALSE /\ read.traces = s.traces
        /\ read.events = s.events /\ read.ok = ok /\ read \in ScanFields
    BY <1>7, <2>1, <2>2, <2>4 DEF ScanFields
  <2> QED BY <2>3, <2>5 DEF ScanState, ok, at
<1>9. new = IF ~read.ok THEN read ELSE ScanLines(o, read, file.lines)
  BY <1>2, <1>3 DEF ScanFile, ScanLines, file
<1> HIDE DEF read, recs, b, N, scaled
<1>10. read.ok
  <2>1. ASSUME ~read.ok PROVE FALSE
    <3>1. new = read
      BY <1>9, <2>1
    <3> QED BY <2>1, <3>1
  <2> QED BY <2>1
<1>11. N > 1
  <2>1. CASE k = 1
    <3>1. b = 0
      BY <2>1 DEF ScanBase, b
    <3>2. b + N > 1
      BY <1>8, <1>10
    <3> QED BY <1>6, <3>1, <3>2
  <2> QED BY <1>1, <2>1
<1>12. BaseOf(file, read)
  <2>1. read \in Scanning
    <3>1. b + 1 \in 1..(b + N - 1)
      BY <1>6, <1>11
    <3>2. read.at \in 1..(b + N - 1) /\ Len(read.records) = b + N
      BY <1>7, <1>8, <3>1
    <3>3. read.at \in 1..(Len(read.records) - 1)
      <4> DEFINE len == Len(read.records)
                 at == read.at
      <4>1. at \in 1..(b + N - 1) /\ len = b + N
        BY <3>2
      <4> HIDE DEF len, at
      <4>2. at \in 1..(len - 1)
        BY <1>6, <4>1
      <4> QED BY <4>2 DEF len, at
    <3>4. read \in ScanState
      BY <1>8
    <3> QED BY <3>3, <3>4 DEF Scanning
  <2>2. ASSUME NEW i \in 1..N PROVE read.records[read.at + i - 1].event = Start(file, i)
    <3>1. (b + 1) + i - 1 = b + i /\ b + i \in 1..(b + N) /\ ~(b + i <= b) /\ (b + i) - b = i
      BY <1>6
    <3>2. recs[b + i] = scaled[i]
      <4> DEFINE x == b + i
      <4>1. x \in 1..(b + N) /\ ~(x <= b) /\ x - b = i
        BY <3>1
      <4> HIDE DEF x
      <4>2. recs[x] = scaled[i]
        BY <1>7, <4>1
      <4> QED BY <4>2 DEF x
    <3>3. read.records[read.at + i - 1] = scaled[i]
      BY <1>8, <3>1, <3>2
    <3>4. scaled[i].event = Start(file, i)
      BY <1>5 DEF scaled
    <3> QED BY <3>3, <3>4
  <2>3. Len(read.records) = read.at + N - 1
    <3>1. b + N = (b + 1) + N - 1
      BY <1>6
    <3> QED BY <1>7, <1>8, <3>1
  <2> QED BY <1>8, <1>11, <2>1, <2>2, <2>3 DEF BaseOf, N
<1>13. InOrder(file)
  BY DEF file
<1>14. PICK c : Scanned(o, file, read, c, Len(file.lines), new)
  BY <1>1, <1>9, <1>10, <1>12, <1>13, FileScanned
<1>15. c \in Nat /\ {i \in Numbers(file) : Passed(file, i, Len(file.lines))} = 1..c
  BY <1>1, <1>12, <1>13, <1>14, FirstEnd
<1>16. /\ new.records = recs /\ new.events = s.events \union EventsOf(o, file, Len(file.lines))
       /\ Len(new.traces) = Len(s.traces) + c
       /\ \A i \in 1..Len(s.traces) : new.traces[i] = s.traces[i]
       /\ \A i \in 1..c : /\ new.traces[Len(s.traces) + i].record = read.at + i - 1
                          /\ DumpShows(new.traces[Len(s.traces) + i].samples, o, file, i, Len(file.lines))
  BY <1>8, <1>14 DEF Scanned
<1>17. \A i \in 1..c : read.at + i - 1 = b + i
  <2>1. \A i \in 1..c : (b + 1) + i - 1 = b + i
    BY <1>6, <1>15
  <2> QED BY <1>8, <2>1
<1>18. FileAdds(o, file, s, new, c)
  BY <1>11, <1>15, <1>16, <1>17 DEF FileAdds, recs, b, N
<1> QED
  BY <1>2, <1>18 DEF file

FileReads(o, file, E) ==
    [i \in 1..Cardinality({n \in Numbers(file) : Passed(file, n, Len(file.lines))}) |-> RecordRead(o, file, i, E)]

\* The traces of a scan are read as w says.
Told(o, E, past, s, w) ==
    /\ Len(s.traces) = Len(w)
    /\ \A j \in 1..Len(w) :
          /\ s.traces[j].record \in 1..Len(s.records)
          /\ copy_trace(TextOf(o, s.records[s.traces[j].record]), s.traces[j].samples, E, past) = w[j]

LEMMA ToldNext ==
    ASSUME NEW o, NEW file \in FileType, NEW s \in ScanState, NEW new, NEW c, FileAdds(o, file, s, new, c),
           NEW E \in FiniteInts, NEW past \in PastType, EventsOf(o, file, Len(file.lines)) \subseteq E,
           NEW T, NEW w \in Seq(T), NEW v \in Seq(T), v = FileReads(o, file, E), Told(o, E, past, s, w)
    PROVE  Told(o, E, past, new, w \o v)
<1> DEFINE b == Len(s.records)
           N == Len(file.records)
           m == Len(file.lines)
           recs == new.records
           t == new.traces
           scaled == Scaled(file)
           a == Len(w)
           rd(j) == copy_trace(TextOf(o, recs[t[j].record]), t[j].samples, E, past)
<1>1. /\ N > 1 /\ c \in Nat /\ {n \in Numbers(file) : Passed(file, n, m)} = 1..c
      /\ recs = s.records \o scaled /\ Len(t) = Len(s.traces) + c
      /\ \A i \in 1..Len(s.traces) : t[i] = s.traces[i]
      /\ \A i \in 1..c : t[Len(s.traces) + i].record = b + i /\ DumpShows(t[Len(s.traces) + i].samples, o, file, i, m)
  BY DEF FileAdds
<1>2. b \in Nat /\ N \in Nat /\ m \in Nat /\ s.records \in Seq(RecordType) /\ a \in Nat /\ scaled \in Seq(RecordType) /\ Len(scaled) = N
  BY FileTypes, ScaledRecords, LenProperties DEF ScanState, ScanFields
<1>3. Len(s.traces) = a
  BY DEF Told
<1>4. Len(v) = c /\ \A i \in 1..c : v[i] = RecordRead(o, file, i, E)
  <2>1. Cardinality(1..c) = c
    BY <1>1, FS_Interval
  <2> DEFINE op(i) == RecordRead(o, file, i, E)
  <2>2. v = [i \in 1..c |-> op(i)]
    BY <1>1, <2>1 DEF FileReads
  <2> HIDE DEF op
  <2>3. Len(v) = c /\ \A i \in 1..c : v[i] = op(i)
    BY <1>1, <2>2
  <2> QED BY <2>3 DEF op
<1>5. /\ Len(recs) = b + N
      /\ \A i \in 1..(b + N) : recs[i] = IF i <= b THEN s.records[i] ELSE scaled[i - b]
  <2> HIDE DEF scaled, N, recs
  <2> QED BY <1>1, <1>2, ConcatProperties
<1> DEFINE wv == w \o v
<1>6. /\ Len(wv) = a + c
      /\ \A i \in 1..(a + c) : wv[i] = IF i <= a THEN w[i] ELSE v[i - a]
  BY <1>2, <1>4, ConcatProperties
<1>7. ASSUME NEW i \in 1..c PROVE i \in Numbers(file) /\ i \in 1..N
  <2>1. i \in Numbers(file)
    BY <1>1
  <2> QED BY <1>2, <2>1 DEF Numbers
<1> HIDE DEF b, N, m, recs, t, scaled, a, wv
<1>8. ASSUME NEW j \in 1..(a + c) PROVE t[j].record \in 1..Len(recs) /\ rd(j) = wv[j]
  <2>1. CASE j <= a
    <3>1. j \in 1..a /\ wv[j] = w[j] /\ t[j] = s.traces[j]
      BY <1>1, <1>2, <1>3, <1>6, <2>1
    <3> DEFINE r == s.traces[j].record
    <3>2. r \in 1..b /\ copy_trace(TextOf(o, s.records[r]), s.traces[j].samples, E, past) = w[j]
      BY <3>1 DEF Told, a, b
    <3>3. t[j].record = r
      BY <3>1
    <3> HIDE DEF r
    <3>4. r \in 1..(b + N) /\ r <= b
      BY <1>2, <3>2
    <3>5. recs[r] = s.records[r]
      BY <1>5, <3>4
    <3> QED BY <1>5, <3>1, <3>2, <3>3, <3>4, <3>5
  <2>2. CASE ~(j <= a)
    <3> DEFINE i == j - a
               r == b + i
    <3>1. i \in 1..c /\ a + i = j
      BY <1>1, <1>2, <2>2
    <3>2. wv[j] = v[i]
      BY <1>6, <2>2
    <3>3. t[a + i].record = r /\ DumpShows(t[a + i].samples, o, file, i, m)
      BY <1>1, <1>3, <3>1
    <3> HIDE DEF i
    <3>4. i \in Numbers(file) /\ i \in 1..N /\ wv[j] = RecordRead(o, file, i, E)
      BY <1>4, <1>7, <3>1, <3>2
    <3>5. r \in 1..(b + N) /\ ~(r <= b) /\ r - b = i
      BY <1>2, <3>4
    <3> HIDE DEF r
    <3>6. recs[r] = scaled[i]
      BY <1>5, <3>5
    <3>7. TextOf(o, recs[r]) = TextOf(o, file.records[i])
      BY <3>4, <3>6, ScaledRecords DEF N, scaled
    <3>8. TimesTo(o, file, i, m) \subseteq E
      BY <3>4 DEF EventsOf, m
    <3> DEFINE seq == t[j].samples
               text == TextOf(o, recs[r])
    <3>9. DumpShows(seq, o, file, i, m) /\ t[j].record = r
      BY <3>1, <3>3
    <3> HIDE DEF seq, text
    <3>10. copy_trace(text, seq, E, past) = Read(TRUE, text, HeldSamples(o, file, i, E))
      BY <3>8, <3>9, TraceRead DEF m
    <3>11. rd(j) = copy_trace(text, seq, E, past)
      BY <3>9 DEF seq, text
    <3> QED BY <1>5, <3>4, <3>5, <3>7, <3>9, <3>10, <3>11 DEF RecordRead, text
  <2> QED BY <2>1, <2>2
<1>9. Len(t) = a + c /\ Len(wv) = a + c
  BY <1>1, <1>3, <1>6
<1> QED
  BY <1>8, <1>9 DEF Told, t, recs, wv

AllTimes(o, files) == UNION {EventsOf(o, files[f], Len(files[f].lines)) : f \in DOMAIN files}

\* The reader of simulations, for all files in order.
LEMMA SimvReadsAre ==
    ASSUME NEW o, NoLimits(o), NEW files \in SimvFiles, \A f \in DOMAIN files : InOrder(files[f]),
           NEW past \in PastType, OpenSimv(files, o, past).ok
    PROVE  /\ AllTimes(o, files) \in FiniteInts
           /\ OpenSimv(files, o, past).reads = FlattenSeq([f \in DOMAIN files |-> FileReads(o, files[f], AllTimes(o, files))])
<1> DEFINE n == Len(files)
           times(f) == EventsOf(o, files[f], Len(files[f].lines))
           E == AllTimes(o, files)
           s == ScanFiles(o, files)
<1>1. n \in Nat /\ DOMAIN files = 1..n /\ \A f \in 1..n : files[f] \in FileType
  <2>1. files \in Seq(FileType)
    BY DEF SimvFiles, FileType
  <2> QED BY <2>1, LenProperties, ElementOfSeq
<1>2. PICK A : FileTurns(A, o, files)
  BY FilesTurns
<1>3. /\ A[0] = ScanBase /\ s = A[n] /\ \A k \in 0..n : A[k] \in ScanState
      /\ \A k \in 1..n : A[k] = ScanFile(o, A[k - 1], files[k])
  BY <1>2 DEF FileTurns
<1>4. /\ s.ok
      /\ OpenSimv(files, o, past).reads =
            [i \in DOMAIN s.traces |-> copy_trace(TextOf(o, s.records[s.traces[i].record]), s.traces[i].samples, s.events, past)]
  <2>1. ~NotOpened.ok
    BY DEF NotOpened
  <2> QED BY <2>1 DEF OpenSimv, ScanFiles, ScanBase, Opened
<1> HIDE DEF s, n
<1>5. ASSUME NEW k \in Nat, k + 1 <= n, A[k + 1].ok
      PROVE  /\ A[k].ok /\ A[k] \in ScanState /\ A[k + 1] \in ScanState /\ k + 1 \in 1..n
             /\ \E c : FileAdds(o, files[k + 1], A[k], A[k + 1], c)
  <2> DEFINE x == k + 1
             acc == A[k]
             new == A[k + 1]
  <2>1. x \in 1..n /\ x - 1 = k /\ k \in 0..n /\ x \in 0..n
    BY <1>1, <1>5
  <2>2. acc \in ScanState /\ new \in ScanState /\ new = ScanFile(o, acc, files[x]) /\ (x = 1 => acc = ScanBase)
    <3>1. A[x] = ScanFile(o, A[x - 1], files[x])
      BY <1>3, <2>1
    <3> QED BY <1>3, <2>1, <3>1
  <2>3. new.ok /\ InOrder(files[x]) /\ x \in 1..Len(files)
    BY <1>1, <1>5, <2>1 DEF n
  <2> HIDE DEF x, acc, new
  <2>4. acc.ok /\ \E c : FileAdds(o, files[x], acc, new, c)
    BY <2>2, <2>3, FileStep
  <2> QED BY <2>1, <2>2, <2>4 DEF x, acc, new
<1>6. s.events = E
  <2> DEFINE Ok == { k \in Nat : k <= n /\ A[k].ok => A[k].events = UNION {times(f) : f \in 1..k} }
  <2>1. 0 \in Ok
    <3>1. A[0].events = {} /\ {times(f) : f \in 1..0} = {}
      BY <1>3 DEF ScanBase
    <3> QED BY <3>1
  <2>2. ASSUME NEW k \in Nat, k \in Ok PROVE k + 1 \in Ok
    <3> SUFFICES ASSUME k + 1 <= n, A[k + 1].ok PROVE A[k + 1].events = UNION {times(f) : f \in 1..(k + 1)}
      OBVIOUS
    <3>1. PICK c : A[k].ok /\ FileAdds(o, files[k + 1], A[k], A[k + 1], c)
      BY <1>5
    <3>2. A[k + 1].events = A[k].events \union times(k + 1)
      BY <3>1 DEF FileAdds
    <3>3. A[k].events = UNION {times(f) : f \in 1..k}
      BY <1>1, <2>2, <3>1
    <3>4. 1..(k + 1) = 1..k \union {k + 1}
      OBVIOUS
    <3> HIDE DEF times
    <3> QED BY <3>2, <3>3, <3>4
  <2>3. n \in Ok
    <3> HIDE DEF Ok
    <3> QED BY <1>1, <2>1, <2>2, Induction
  <2> QED BY <1>1, <1>3, <1>4, <2>3 DEF AllTimes
<1>7. E \in FiniteInts
  <2>1. n \in 0..n
    BY <1>1
  <2>2. s \in ScanState
    BY <1>3, <2>1
  <2> QED BY <1>6, <2>2 DEF ScanState, ScanFields
<1> DEFINE seqs == [f \in 1..n |-> FileReads(o, files[f], E)]
           T == UNION {{RecordRead(o, files[f], i, E) : i \in Nat} : f \in 1..n}
<1> HIDE DEF E
<1>8. \A f \in 1..n : FileReads(o, files[f], E) \in Seq(T)
  <2> TAKE f \in 1..n
  <2> DEFINE file == files[f]
             N == Len(file.records)
             P == {i \in Numbers(file) : Passed(file, i, Len(file.lines))}
             c == Cardinality(P)
             op(i) == RecordRead(o, file, i, E)
  <2>1. N \in Nat /\ P \subseteq 1..(N - 1)
    BY <1>1, FileTypes DEF Numbers
  <2>2. c \in Nat
    <3> HIDE DEF P, N
    <3> DEFINE M == N - 1
    <3>1. M \in Int /\ 1 \in Int /\ P \subseteq 1..M
      BY <2>1
    <3> HIDE DEF M
    <3>2. IsFiniteSet(1..M)
      BY <3>1, FS_Interval
    <3>3. IsFiniteSet(P)
      BY <3>1, <3>2, FS_Subset
    <3> QED BY <3>3, FS_CardinalityType
  <2>3. \A i \in 1..c : op(i) \in T
    <3> HIDE DEF c, file
    <3>1. \A i \in 1..c : i \in Nat
      BY <2>2
    <3> QED BY <3>1 DEF file
  <2>4. FileReads(o, file, E) = [i \in 1..c |-> op(i)]
    BY DEF FileReads
  <2> HIDE DEF c, op, T, file
  <2>5. [i \in 1..c |-> op(i)] \in Seq(T)
    BY <2>2, <2>3
  <2> QED BY <2>4, <2>5 DEF file
<1> HIDE DEF T
<1>9. seqs \in Seq(Seq(T)) /\ Len(seqs) = n /\ \A f \in 1..n : seqs[f] = FileReads(o, files[f], E)
  <2> DEFINE op(f) == FileReads(o, files[f], E)
  <2>1. seqs = [f \in 1..n |-> op(f)] /\ \A f \in 1..n : op(f) \in Seq(T)
    BY <1>8
  <2> HIDE DEF op, seqs
  <2>2. seqs \in Seq(Seq(T)) /\ Len(seqs) = n /\ \A f \in 1..n : seqs[f] = op(f)
    BY <1>1, <2>1
  <2> QED BY <2>2 DEF op
<1> HIDE DEF seqs
<1>10. PICK B \in [0..n -> Seq(T)] : Joins(B, seqs)
  BY <1>9, FlattenTurns
<1>11. B[0] = <<>> /\ FlattenSeq(seqs) = B[n] /\ \A k \in 1..n : B[k] = B[k - 1] \o seqs[k]
  BY <1>9, <1>10 DEF Joins
<1>12. Told(o, E, past, s, B[n])
  <2> DEFINE Ok == { k \in Nat : k <= n /\ A[k].ok => Told(o, E, past, A[k], B[k]) }
  <2>1. 0 \in Ok
    <3>1. A[0].traces = <<>> /\ B[0] = <<>>
      BY <1>3, <1>11 DEF ScanBase
    <3>2. Told(o, E, past, A[0], B[0])
      BY <3>1 DEF Told
    <3> QED BY <3>2
  <2>2. ASSUME NEW k \in Nat, k \in Ok PROVE k + 1 \in Ok
    <3> SUFFICES ASSUME k + 1 <= n, A[k + 1].ok PROVE Told(o, E, past, A[k + 1], B[k + 1])
      OBVIOUS
    <3> DEFINE x == k + 1
               acc == A[k]
               new == A[k + 1]
               w == B[k]
               v == seqs[k + 1]
               file == files[k + 1]
    <3>1. PICK c : FileAdds(o, file, acc, new, c)
      BY <1>5
    <3>2. acc.ok /\ acc \in ScanState /\ x \in 1..n /\ x - 1 = k /\ k \in 0..n /\ k <= n
      BY <1>1, <1>5
    <3>3. Told(o, E, past, acc, w) /\ w \in Seq(T) /\ v \in Seq(T) /\ v = FileReads(o, file, E) /\ file \in FileType
      BY <1>1, <1>8, <1>9, <1>10, <2>2, <3>2
    <3>4. B[k + 1] = w \o v
      <4>1. B[x] = B[x - 1] \o seqs[x]
        BY <1>11, <3>2
      <4> QED BY <3>2, <4>1
    <3>5. EventsOf(o, file, Len(file.lines)) \subseteq E
      BY <1>1, <3>2 DEF E, AllTimes
    <3> HIDE DEF acc, new, w, v, file
    <3>6. Told(o, E, past, new, w \o v)
      BY <1>7, <3>1, <3>2, <3>3, <3>5, ToldNext
    <3> QED BY <3>4, <3>6 DEF new
  <2>3. n \in Ok
    <3> HIDE DEF Ok
    <3> QED BY <1>1, <2>1, <2>2, Induction
  <2> QED BY <1>1, <1>3, <1>4, <2>3
<1>13. OpenSimv(files, o, past).reads = B[n]
  <2> DEFINE w == B[n]
             l == Len(w)
             rd(i) == copy_trace(TextOf(o, s.records[s.traces[i].record]), s.traces[i].samples, E, past)
  <2>1. n \in 0..n
    BY <1>1
  <2>2. w \in Seq(T) /\ s.traces \in Seq(TraceType)
    BY <1>3, <1>10, <2>1 DEF ScanState, ScanFields
  <2>3. DOMAIN s.traces = 1..l /\ \A i \in 1..l : rd(i) = w[i]
    BY <1>12, <2>2, LenProperties DEF Told
  <2>4. OpenSimv(files, o, past).reads = [i \in 1..l |-> rd(i)]
    BY <1>4, <1>6, <2>3
  <2> HIDE DEF w, rd
  <2>5. w = [i \in 1..l |-> w[i]]
    BY <2>2
  <2> QED BY <2>3, <2>4, <2>5 DEF w
<1>14. seqs = [f \in DOMAIN files |-> FileReads(o, files[f], E)]
  BY <1>1 DEF seqs
<1> QED
  BY <1>7, <1>11, <1>13, <1>14 DEF E

\* What SimvExact says the reader of the files hands out.
ExactReads(files, o) ==
    LET numbers(f) == 1..(Len(files[f].records) - 1)
        events == UNION {UNION {SimvTrace(files, f, i, o, {}).times : i \in numbers(f)} : f \in DOMAIN files}
        trace(f, i) == SimvTrace(files, f, i, o, events)
        mine(f) == LET all == [i \in numbers(f) |-> trace(f, i)] IN
                     [i \in 1..Cardinality({n \in numbers(f) : all[n].complete}) |-> all[i].read]
    IN  FlattenSeq([f \in DOMAIN files |-> mine(f)])

LEMMA OpenedExact ==
    ASSUME NEW o, NoLimits(o), NEW data \in SimvFiles, \A f \in DOMAIN data : InOrder(data[f]),
           NEW past \in PastType, OpenSimv(data, o, past).ok
    PROVE  OpenSimv(data, o, past).reads = ExactReads(data, o)
<1> DEFINE D == DOMAIN data
           numbers(f) == 1..(Len(data[f].records) - 1)
           own(f) == UNION {SimvTrace(data, f, i, o, {}).times : i \in numbers(f)}
           events == UNION {own(f) : f \in D}
           all(f) == [i \in numbers(f) |-> SimvTrace(data, f, i, o, events)]
           ended(f) == {n \in numbers(f) : all(f)[n].complete}
           mine(f) == [i \in 1..Cardinality(ended(f)) |-> all(f)[i].read]
           E == AllTimes(o, data)
<1>1. \A f \in D : data[f] \in FileType /\ Len(data[f].records) \in Nat
  <2>1. data \in Seq(FileType)
    BY DEF SimvFiles, FileType
  <2>2. \A f \in D : data[f] \in FileType
    BY <2>1, LenProperties, ElementOfSeq
  <2> QED BY <2>2, FileTypes
<1>2. E \in FiniteInts /\ OpenSimv(data, o, past).reads = FlattenSeq([f \in D |-> FileReads(o, data[f], E)])
  BY SimvReadsAre
<1>3. \A f \in D : own(f) = EventsOf(o, data[f], Len(data[f].lines))
  <2> TAKE f \in D
  <2>1. \A i : SimvTrace(data, f, i, o, {}).times = TimesTo(o, data[f], i, Len(data[f].lines))
    BY <1>1, SimvTraceIs
  <2> QED BY <2>1 DEF EventsOf, Numbers
<1>4. events = E
  <2> HIDE DEF own
  <2> QED BY <1>3 DEF AllTimes
<1> HIDE DEF E, events, own
<1>5. ASSUME NEW f \in D PROVE mine(f) = FileReads(o, data[f], E)
  <2> DEFINE file == data[f]
             N == numbers(f)
             a == all(f)
             P == {n \in N : Passed(file, n, Len(file.lines))}
             c == Cardinality(P)
  <2>1. \A i \in N : a[i] = SimvTrace(data, f, i, o, E)
    BY <1>4
  <2>2. \A i : /\ SimvTrace(data, f, i, o, E).complete <=> Passed(file, i, Len(file.lines))
               /\ SimvTrace(data, f, i, o, E).read = RecordRead(o, file, i, E)
    BY <1>1, <1>2, SimvTraceIs
  <2>3. N = Numbers(file)
    BY DEF Numbers
  <2> HIDE DEF a
  <2>4. {n \in N : a[n].complete} = P
    BY <2>1, <2>2
  <2>5. \A i \in 1..c : i \in N
    <3> DEFINE M == Len(file.records) - 1
    <3>1. M \in Int /\ 1 \in Int /\ N = 1..M /\ P \subseteq 1..M
      BY <1>1
    <3> HIDE DEF M, N, P
    <3>2. IsFiniteSet(1..M) /\ Cardinality(1..M) = IF 1 > M THEN 0 ELSE M - 1 + 1
      BY <3>1, FS_Interval
    <3>3. c <= Cardinality(1..M) /\ c \in Nat
      BY <3>1, <3>2, FS_Subset, FS_CardinalityType
    <3> HIDE DEF c
    <3>4. \A i \in 1..c : i \in 1..M
      BY <3>1, <3>2, <3>3
    <3> QED BY <3>1, <3>4
  <2> QED BY <2>1, <2>2, <2>3, <2>4, <2>5 DEF FileReads, a
<1>6. [f \in D |-> mine(f)] = [f \in D |-> FileReads(o, data[f], E)]
  <2> HIDE DEF mine, D
  <2> QED BY <1>5
<1> QED
  BY <1>2, <1>6 DEF ExactReads, events, own

\* The reader of the conversion is what was opened.
SourceOpened ==
    /\ job \in Jobs
    /\ source.ok => \E garbage \in Unset(job.format, job.data) :
                       source = OpenReader(job.format, job.data, job.opt, garbage)

LEMMA SourceIsOpened == Spec => []SourceOpened
<1>1. Init => SourceOpened
  BY DEF Init, SourceOpened, None
<1>2. SourceOpened /\ [Next]_vars => SourceOpened'
  <2> SUFFICES ASSUME SourceOpened, [Next]_vars PROVE SourceOpened'
    OBVIOUS
  <2>1. CASE Open
    <3>1. PICK garbage \in Unset(job.format, job.data) : source' = OpenReader(job.format, job.data, job.opt, garbage)
      BY <2>1 DEF Open
    <3>2. job' = job
      BY <2>1 DEF Open
    <3> QED BY <3>1, <3>2 DEF SourceOpened
  <2>2. CASE job' = job /\ source' = source
    BY <2>2 DEF SourceOpened
  <2>3. Open \/ (job' = job /\ source' = source)
    BY DEF Next, vars, Create, CreateFails, ConvertTrace, ConversionFails, Close, Reopen, ReadBack, ReadEnds
  <2> QED BY <2>1, <2>2, <2>3
<1> QED
  BY <1>1, <1>2, PTL DEF Spec

\* trace_reader_simv (trace_format_simv.cpp:117): the traces of any number of
\* simulation files, read by one scan, are those of their records, each with
\* the sums of its own lines at all events, to six digits, and its own text.
\* The hypothesis is on the simulator: no event goes back, and there is one in
\* the interval of every record that the waveform goes past (the scan moves on
\* by one record an event).
THEOREM SimvIsExact ==
    ASSUME \A j \in Jobs : j.format = "simv" => \A f \in DOMAIN j.data : InOrder(j.data[f])
    PROVE  Spec => []SimvExact
<1>1. SourceOpened => SimvExact
  <2> SUFFICES ASSUME SourceOpened, source.ok, job.format = "simv", job.opt.num_traces = 0, job.opt.max_time = 0
               PROVE  source.reads = ExactReads(job.data, job.opt)
    BY DEF SimvExact, ExactReads
  <2> DEFINE data == job.data
             o == job.opt
  <2>1. PICK past \in PastType : source = OpenSimv(data, o, past)
    BY DEF SourceOpened, OpenReader, Unset, PastType
  <2>2. WellFormed("simv", data) /\ o \in ReaderOptions /\ \A f \in DOMAIN data : InOrder(data[f])
    BY JobsAssumption DEF SourceOpened
  <2>3. data \in SimvFiles
    BY <2>2 DEF WellFormed, SimvFiles
  <2>4. NoLimits(o) /\ OpenSimv(data, o, past).ok
    BY <2>1, <2>2 DEF NoLimits, ReaderOptions
  <2> HIDE DEF data, o
  <2> QED BY <2>1, <2>2, <2>3, <2>4, OpenedExact DEF data, o
<1> QED
  BY <1>1, SourceIsOpened, PTL

-----------------------------------------------------------------------------
(* Waveforms whose times do not go back: a trace that is copied has its       *)
(* samples at events, in order.                                               *)

OnEvents(seq, E) == seq \in Seq(SampleType) /\ Rising(seq) /\ \A i \in 1..Len(seq) : seq[i].time \in E
NotAfter(seq, t) == \A i \in 1..Len(seq) : seq[i].time <= t

LEMMA NoneOnEvents == \A E : OnEvents(<<>>, E)
<1>1. Len(<<>>) = 0 /\ 1..0 = {} /\ <<>> \in Seq(SampleType)
  OBVIOUS
<1> QED
  BY <1>1 DEF OnEvents, Rising

LEMMA OnMoreEvents ==
    ASSUME NEW E, NEW F, NEW seq, OnEvents(seq, E)
    PROVE  OnEvents(seq, E \union F)
BY DEF OnEvents

LEMMA OwnTimes ==
    ASSUME NEW E, NEW seq, OnEvents(seq, E)
    PROVE  /\ Covers(seq, {seq[i].time : i \in 1..Len(seq)})
           /\ \A i \in 1..Len(seq) : seq[i] \in SampleType /\ seq[i].time \in Int
<1>1. \A i \in 1..Len(seq) : seq[i] \in SampleType
  BY ElementOfSeq DEF OnEvents
<1>2. \A i \in 1..Len(seq) : seq[i].time \in Int
  BY <1>1 DEF SampleType
<1> QED
  BY <1>1, <1>2 DEF Covers, OnEvents, Rising

LEMMA TimeOnEvents ==
    ASSUME NEW E, NEW seq, OnEvents(seq, E), NEW d \in Int, NotAfter(seq, d)
    PROVE  OnEvents(AddTime(seq, d), E \union {d}) /\ NotAfter(AddTime(seq, d), d)
<1> DEFINE S == {seq[i].time : i \in 1..Len(seq)}
           new == AddTime(seq, d)
<1>1. S \subseteq E
  BY DEF OnEvents
<1>2. Covers(seq, S) /\ \A x \in S : x \in Int /\ x <= d
  BY OwnTimes DEF NotAfter
<1> HIDE DEF S, new
<1>3. Covers(new, S \union {d})
  BY <1>2, AddTimeCovers DEF new
<1>4. \A i \in 1..Len(new) : new[i].time \in S \union {d}
  BY <1>3 DEF Covers
<1>5. OnEvents(new, E \union {d})
  BY <1>1, <1>3 DEF Covers, OnEvents, Rising
<1>6. NotAfter(new, d)
  BY <1>2, <1>4 DEF NotAfter
<1> QED
  BY <1>5, <1>6 DEF new

LEMMA PowerOnEvents ==
    ASSUME NEW E, NEW seq, OnEvents(seq, E), seq # <<>>, NEW v \in Int
    PROVE  /\ OnEvents(AddPower(seq, v), E)
           /\ \A t : NotAfter(seq, t) => NotAfter(AddPower(seq, v), t)
<1> DEFINE n == Len(seq)
           S == {seq[i].time : i \in 1..n}
           d == seq[n].time
           new == AddPower(seq, v)
<1>1. n \in Nat /\ n # 0
  BY LenProperties, EmptySeq DEF OnEvents
<1>2. Covers(seq, S) /\ \A i \in 1..n : seq[i].time \in Int
  BY OwnTimes
<1>3. d \in S /\ \A x \in S : x \in Int /\ x <= d
  <2>1. n \in 1..n
    BY <1>1
  <2>2. ASSUME NEW i \in 1..n PROVE seq[i].time <= d
    <3>1. CASE i = n
      BY <1>2, <2>1, <3>1
    <3>2. CASE i # n
      <4>1. i < n
        BY <1>1, <3>2
      <4>2. seq[i].time < seq[n].time
        BY <2>1, <4>1 DEF OnEvents, Rising
      <4> QED BY <1>2, <2>1, <4>2
    <3> QED BY <3>1, <3>2
  <2> QED BY <1>2, <2>1, <2>2
<1> HIDE DEF S, d
<1>4. Covers(new, S) /\ Len(new) = n /\ \A i \in 1..n : new[i].time = seq[i].time
  BY <1>2, <1>3, AddPowerCovers
<1> HIDE DEF new, n
<1>5. OnEvents(new, E)
  BY <1>4 DEF Covers, OnEvents, Rising, n
<1>6. \A t : NotAfter(seq, t) => NotAfter(new, t)
  BY <1>4 DEF NotAfter, n
<1> QED
  BY <1>5, <1>6 DEF new

LEMMA DumpOnEvents ==
    ASSUME NEW E, NEW seq, OnEvents(seq, E)
    PROVE  OnEvents(Dumped(seq), E)
<1>1. /\ Dumped(seq) \in Seq(SampleType) /\ Len(Dumped(seq)) = Len(seq)
      /\ \A i \in 1..Len(seq) : Dumped(seq)[i].time = seq[i].time
  BY DumpedIs DEF OnEvents
<1> QED
  BY <1>1 DEF OnEvents, Rising

\* A trace on events is handed out with a sample at each of them.
LEMMA OnEventsCopied ==
    ASSUME NEW E \in FiniteInts, NEW seq, OnEvents(seq, E), NEW text, NEW past \in PastType
    PROVE  /\ copy_trace(text, seq, E, past).ok
           /\ Times(copy_trace(text, seq, E, past).samples) = Ascending(E)
<1> DEFINE read == copy_trace(text, seq, E, past)
<1>1. read = Read(TRUE, text, read.samples) /\ Covers(read.samples, E)
  BY CopyHolds DEF OnEvents
<1> HIDE DEF read
<1>2. read.ok
  BY <1>1 DEF Read
<1>3. E \in SUBSET Int
  BY DEF FiniteInts
<1>4. Times(read.samples) = Ascending(E)
  BY <1>1, <1>3, CoversAll
<1> QED
  BY <1>2, <1>4 DEF read

\* The scan of simulation files: the traces that have ended, and the present one.
TracesOn(s) == \A i \in 1..Len(s.traces) : OnEvents(s.traces[i].samples, s.events)

LEMMA ScanEventOn ==
    ASSUME NEW o, NEW s \in Scanning, ~s.over, NEW time \in Int, TracesOn(s), OnEvents(s.current, s.events),
           NotAfter(s.current, time - s.records[s.at].event)
    PROVE  LET new == ScanEvent(o, s, time) IN
           /\ TracesOn(new) /\ OnEvents(new.current, new.events)
           /\ ~new.over => NotAfter(new.current, time - new.records[new.at].event)
<1> DEFINE start(i) == s.records[i].event
           full == time >= start(s.at + 1)
           at == IF full THEN s.at + 1 ELSE s.at
           current == IF full THEN <<>> ELSE s.current
           ended == [record |-> s.at, samples |-> Dumped(s.current)]
           traces == IF full THEN Append(s.traces, ended) ELSE s.traces
           offset == time - start(at)
           over == full /\ (at = Len(s.records) \/ Enough(o, Len(traces)))
           new == ScanEvent(o, s, time)
<1>1. /\ s.records \in Seq(RecordType) /\ s.at \in Nat /\ s.current \in Seq(SampleType)
      /\ s.traces \in Seq(TraceType) /\ s.over = FALSE
      /\ s = [ok |-> s.ok, records |-> s.records, at |-> s.at, current |-> s.current,
              traces |-> s.traces, events |-> s.events, over |-> s.over]
      /\ s.at \in 1..(Len(s.records) - 1) /\ Len(s.records) \in Nat
  BY LenProperties DEF Scanning, ScanState, ScanFields
<1>2. start(s.at) \in Int /\ start(s.at + 1) \in Int
  <2>1. s.at \in 1..Len(s.records) /\ s.at + 1 \in 1..Len(s.records)
    BY <1>1
  <2>2. s.records[s.at] \in RecordType /\ s.records[s.at + 1] \in RecordType
    BY <1>1, <2>1, ElementOfSeq
  <2> QED BY <2>2 DEF RecordType
<1>3. offset \in Int
  BY <1>2
<1>4. \/ new = s
      \/ new = [s EXCEPT !.traces = traces, !.over = TRUE]
      \/ new = [s EXCEPT !.traces = traces, !.at = at, !.current = current]
      \/ new = [s EXCEPT !.traces = traces, !.at = at, !.current = AddTime(current, offset),
                         !.events = s.events \union {offset}]
  <2>1. time < start(s.at) <=> ~(time >= start(s.at))
    BY <1>2
  <2> HIDE DEF start
  <2> QED BY <2>1 DEF ScanEvent, start
<1>5. ASSUME NEW i \in 1..Len(traces) PROVE OnEvents(traces[i].samples, s.events)
  <2>1. CASE ~full
    BY <2>1 DEF TracesOn
  <2>2. CASE full
    <3>1. OnEvents(Dumped(s.current), s.events)
      BY DumpOnEvents
    <3>2. ended \in TraceType /\ ended.samples = Dumped(s.current)
      BY <1>1, DumpedIs DEF TraceType
    <3> HIDE DEF ended
    <3>3. /\ Len(traces) = Len(s.traces) + 1 /\ traces[Len(s.traces) + 1] = ended /\ Len(s.traces) \in Nat
          /\ \A j \in 1..Len(s.traces) : traces[j] = s.traces[j]
      BY <1>1, <2>2, <3>2, AppendProperties, LenProperties
    <3> HIDE DEF traces
    <3>4. i \in 1..Len(s.traces) \/ i = Len(s.traces) + 1
      BY <3>3
    <3> QED BY <3>1, <3>2, <3>3, <3>4 DEF TracesOn
  <2> QED BY <2>1, <2>2
<1>6. OnEvents(current, s.events) /\ NotAfter(current, offset)
  <2>1. CASE full
    <3>1. current = <<>> /\ Len(<<>>) = 0 /\ 1..0 = {}
      BY <2>1
    <3> QED BY <3>1, NoneOnEvents DEF NotAfter
  <2>2. CASE ~full
    <3>1. current = s.current /\ offset = time - s.records[s.at].event
      BY <2>2
    <3> QED BY <3>1
  <2> QED BY <2>1, <2>2
<1> HIDE DEF traces, current, at, over, full, ended
<1>7. /\ OnEvents(AddTime(current, offset), s.events \union {offset})
      /\ NotAfter(AddTime(current, offset), offset)
  <2> HIDE DEF offset
  <2> QED BY <1>3, <1>6, TimeOnEvents
<1> HIDE DEF new
<1>8. CASE new = s
  BY <1>8 DEF new
<1>9. CASE new = [s EXCEPT !.traces = traces, !.over = TRUE]
  <2>1. new.traces = traces /\ new.events = s.events /\ new.current = s.current /\ new.over = TRUE
    BY <1>1, <1>9
  <2> QED BY <1>5, <2>1 DEF new, TracesOn
<1>10. CASE new = [s EXCEPT !.traces = traces, !.at = at, !.current = current]
  <2>1. /\ new.traces = traces /\ new.events = s.events /\ new.current = current /\ new.at = at
        /\ new.records = s.records
    BY <1>1, <1>10
  <2>2. time - new.records[new.at].event = offset
    BY <2>1
  <2> QED BY <1>5, <1>6, <2>1, <2>2 DEF new, TracesOn
<1>11. CASE new = [s EXCEPT !.traces = traces, !.at = at, !.current = AddTime(current, offset),
                            !.events = s.events \union {offset}]
  <2>1. /\ new.traces = traces /\ new.events = s.events \union {offset} /\ new.current = AddTime(current, offset)
        /\ new.at = at /\ new.records = s.records
    BY <1>1, <1>11
  <2>2. time - new.records[new.at].event = offset
    BY <2>1
  <2> HIDE DEF offset
  <2>3. \A i \in 1..Len(traces) : OnEvents(traces[i].samples, s.events \union {offset})
    BY <1>5, OnMoreEvents
  <2>4. TracesOn(new)
    BY <2>1, <2>3 DEF TracesOn
  <2> QED BY <1>7, <2>1, <2>2, <2>4 DEF new
<1> QED
  BY <1>4, <1>8, <1>9, <1>10, <1>11

\* After m lines of a file.
ScanOn(lines, m, s) ==
    /\ s \in Scanning /\ TracesOn(s) /\ OnEvents(s.current, s.events)
    /\ ~s.over => \A l \in TimeLines("simv", lines) :
                     l > m => NotAfter(s.current, lines[l].value - s.records[s.at].event)

LEMMA WaveTimes ==
    ASSUME NEW lines \in Seq(WaveLine), NEW format
    PROVE  /\ Len(lines) \in Nat /\ DOMAIN lines = 1..Len(lines) /\ TimeLines(format, lines) \subseteq 1..Len(lines)
           /\ \A l \in 1..Len(lines) : lines[l] \in WaveLine /\ lines[l].value \in Int
<1>1. Len(lines) \in Nat /\ DOMAIN lines = 1..Len(lines) /\ \A l \in 1..Len(lines) : lines[l] \in WaveLine
  BY LenProperties, ElementOfSeq
<1>2. \A l \in 1..Len(lines) : lines[l].value \in Int
  BY <1>1 DEF WaveLine
<1> QED
  BY <1>1, <1>2 DEF TimeLines

\* The bound on the samples moves on with the times of the lines.
LEMMA NotAfterLater ==
    ASSUME NEW format, NEW lines \in Seq(WaveLine), Forward(format, lines), NEW k \in TimeLines(format, lines),
           NEW start \in Int, NEW E, NEW seq, OnEvents(seq, E), NotAfter(seq, lines[k].value - start)
    PROVE  \A l \in TimeLines(format, lines) : l > k => NotAfter(seq, lines[l].value - start)
<1> SUFFICES ASSUME NEW l \in TimeLines(format, lines), l > k, NEW i \in 1..Len(seq)
             PROVE  seq[i].time <= lines[l].value - start
  BY DEF NotAfter
<1>1. k \in Int /\ l \in Int /\ lines[k].value \in Int /\ lines[l].value \in Int
  <2>1. k \in 1..Len(lines) /\ l \in 1..Len(lines)
    BY WaveTimes
  <2> QED BY <2>1, WaveTimes
<1>2. lines[k].value <= lines[l].value
  BY <1>1 DEF Forward
<1>3. seq[i].time \in Int /\ seq[i].time <= lines[k].value - start
  BY OwnTimes DEF NotAfter
<1> QED
  BY <1>1, <1>2, <1>3

LEMMA ScanOnNext ==
    ASSUME NEW o, NEW lines \in Seq(WaveLine), Forward("simv", lines), NEW m \in Nat, m + 1 <= Len(lines),
           NEW s, ScanOn(lines, m, s)
    PROVE  ScanOn(lines, m + 1, ScanLine(o, s, lines[m + 1]))
<1> DEFINE k == m + 1
           line == lines[k]
           new == ScanLine(o, s, line)
           times == TimeLines("simv", lines)
<1>1. k \in 1..Len(lines) /\ line \in WaveLine /\ line.value \in Int
  BY WaveTimes
<1>2. /\ s \in Scanning /\ TracesOn(s) /\ OnEvents(s.current, s.events)
      /\ ~s.over => \A l \in times : l > m => NotAfter(s.current, lines[l].value - s.records[s.at].event)
  BY DEF ScanOn
<1>3. new \in Scanning
  BY <1>1, <1>2, ScanLineType
<1>4. \A l \in times : l > k => l > m
  <2>1. \A l \in times : l \in Int
    BY WaveTimes
  <2> QED BY <2>1
<1> HIDE DEF times
<1>5. CASE new = s
  <2>1. ScanOn(lines, k, new)
    BY <1>2, <1>4, <1>5 DEF ScanOn, times
  <2> QED BY <2>1
<1>6. CASE ~s.over /\ line.kind = "event"
  <2>1. new = ScanEvent(o, s, line.value)
    <3> HIDE DEF line
    <3>1. ScanLine(o, s, line) = ScanEvent(o, s, line.value)
      BY <1>6 DEF ScanLine
    <3> QED BY <3>1
  <2>2. k \in times /\ k > m
    BY <1>1, <1>6, WaveTimes DEF TimeLines, times
  <2>3. NotAfter(s.current, line.value - s.records[s.at].event)
    BY <1>2, <1>6, <2>2
  <2> HIDE DEF new, line, k
  <2>4. /\ TracesOn(new) /\ OnEvents(new.current, new.events)
        /\ ~new.over => NotAfter(new.current, line.value - new.records[new.at].event)
    BY <1>1, <1>2, <1>6, <2>1, <2>3, ScanEventOn
  <2>5. ASSUME ~new.over
        PROVE  \A l \in times : l > k => NotAfter(new.current, lines[l].value - new.records[new.at].event)
    <3> DEFINE start == new.records[new.at].event
    <3>1. start \in Int
      <4>1. new.records \in Seq(RecordType) /\ Len(new.records) \in Nat /\ new.at \in 1..(Len(new.records) - 1)
        BY <1>3, <2>5, LenProperties DEF Scanning, ScanState, ScanFields
      <4>2. new.at \in 1..Len(new.records)
        BY <4>1
      <4>3. new.records[new.at] \in RecordType
        BY <4>1, <4>2, ElementOfSeq
      <4> QED BY <4>3 DEF RecordType
    <3>2. NotAfter(new.current, lines[k].value - start)
      BY <2>4, <2>5 DEF line
    <3> HIDE DEF start
    <3>3. \A l \in times : l > k => NotAfter(new.current, lines[l].value - start)
      BY <2>2, <2>4, <3>1, <3>2, NotAfterLater DEF times
    <3> QED BY <3>3 DEF start
  <2>6. ScanOn(lines, k, new)
    BY <1>3, <2>4, <2>5 DEF ScanOn, times
  <2> QED BY <2>6 DEF new, line, k
<1>7. CASE ~s.over /\ line.kind = "power" /\ s.current # <<>>
  <2>1. new = [s EXCEPT !.current = AddPower(s.current, line.value)]
    BY <1>7 DEF ScanLine
  <2>2. s = [ok |-> s.ok, records |-> s.records, at |-> s.at, current |-> s.current,
             traces |-> s.traces, events |-> s.events, over |-> s.over]
    BY <1>2 DEF Scanning, ScanState, ScanFields
  <2> HIDE DEF new, line, k
  <2>3. /\ new.current = AddPower(s.current, line.value) /\ new.traces = s.traces /\ new.events = s.events
        /\ new.records = s.records /\ new.at = s.at
    BY <2>1, <2>2
  <2>4. /\ OnEvents(new.current, new.events)
        /\ \A t : NotAfter(s.current, t) => NotAfter(new.current, t)
    BY <1>1, <1>2, <1>7, <2>3, PowerOnEvents
  <2>5. TracesOn(new)
    BY <1>2, <2>3 DEF TracesOn
  <2>6. \A l \in times : l > k => NotAfter(new.current, lines[l].value - new.records[new.at].event)
    BY <1>2, <1>4, <1>7, <2>3, <2>4
  <2>7. ScanOn(lines, k, new)
    BY <1>3, <2>4, <2>5, <2>6 DEF ScanOn, times
  <2> QED BY <2>7 DEF new, line, k
<1>8. \/ new = s
      \/ ~s.over /\ line.kind = "event"
      \/ ~s.over /\ line.kind = "power" /\ s.current # <<>>
  BY DEF ScanLine
<1> QED
  BY <1>5, <1>6, <1>7, <1>8

LEMMA ScanLinesOn ==
    ASSUME NEW o, NEW base \in Scanning, TracesOn(base), base.current = <<>>,
           NEW lines \in Seq(WaveLine), Forward("simv", lines)
    PROVE  TracesOn(ScanLines(o, base, lines))
<1> DEFINE n == Len(lines)
<1>1. PICK A : LineTurns(A, o, base, lines)
  BY ScanTurns
<1>2. /\ n \in Nat /\ A[0] = base /\ ScanLines(o, base, lines) = A[n]
      /\ \A k \in 1..n : A[k] = ScanLine(o, A[k - 1], lines[k])
  BY <1>1, LenProperties DEF LineTurns
<1> DEFINE Ok == { k \in Nat : k <= n => ScanOn(lines, k, A[k]) }
<1> HIDE DEF n
<1>3. 0 \in Ok
  <2>1. OnEvents(base.current, base.events)
    BY NoneOnEvents
  <2>2. Len(<<>>) = 0 /\ 1..0 = {}
    OBVIOUS
  <2>3. \A t : NotAfter(base.current, t)
    BY <2>2 DEF NotAfter
  <2>4. ScanOn(lines, 0, base)
    BY <2>1, <2>3 DEF ScanOn
  <2> QED BY <1>2, <2>4
<1>4. ASSUME NEW k \in Nat, k \in Ok PROVE k + 1 \in Ok
  <2> SUFFICES ASSUME k + 1 <= n PROVE ScanOn(lines, k + 1, A[k + 1])
    OBVIOUS
  <2> DEFINE x == k + 1
  <2>1. x \in 1..n /\ x - 1 = k /\ ScanOn(lines, k, A[k])
    BY <1>2, <1>4
  <2>2. A[x] = ScanLine(o, A[x - 1], lines[x])
    <3> HIDE DEF x
    <3> QED BY <1>2, <2>1
  <2>3. A[k + 1] = ScanLine(o, A[k], lines[k + 1])
    BY <2>1, <2>2
  <2>4. ScanOn(lines, k + 1, ScanLine(o, A[k], lines[k + 1]))
    BY <2>1, ScanOnNext DEF n
  <2> QED BY <2>3, <2>4
<1>5. n \in Ok
  <2> HIDE DEF Ok
  <2> QED BY <1>2, <1>3, <1>4, Induction
<1> QED
  BY <1>2, <1>5 DEF ScanOn

LEMMA ScanFileOn ==
    ASSUME NEW o, NEW files \in SimvFiles, NEW k \in 1..Len(files), NEW s \in ScanState,
           k = 1 => s = ScanBase, TracesOn(s), Forward("simv", files[k].lines)
    PROVE  TracesOn(ScanFile(o, s, files[k]))
<1> DEFINE file == files[k]
           read == read_timestamps(s, file)
<1>1. file.lines \in Seq(WaveLine)
  <2>1. file \in [records : Seq([event : Nat, m : Text, c : Text]),
                  resolution : Nat \ {0}, lines : Seq(WaveLine)]
    BY ElementOfSeq DEF SimvFiles
  <2> HIDE DEF file
  <2> QED BY <2>1
<1>2. read.ok => read \in Scanning
  BY ScanFileType
<1> HIDE DEF file
<1>3. read.traces = s.traces /\ read.events = s.events /\ read.current = <<>>
  BY DEF read_timestamps, ScanState, ScanFields
<1> HIDE DEF read
<1>4. TracesOn(read)
  BY <1>3 DEF TracesOn
<1>5. read.ok => TracesOn(ScanLines(o, read, file.lines))
  BY <1>1, <1>2, <1>3, <1>4, ScanLinesOn DEF file
<1>6. \/ ScanFile(o, s, file) = s
      \/ ScanFile(o, s, file) = read
      \/ read.ok /\ ScanFile(o, s, file) = ScanLines(o, read, file.lines)
  BY DEF ScanFile, ScanLines, read
<1>7. TracesOn(ScanFile(o, s, file))
  BY <1>4, <1>5, <1>6
<1> QED
  BY <1>7 DEF file

\* All traces of the files are on the events of them all.
LEMMA ScanFilesOn ==
    ASSUME NEW o, NEW files \in SimvFiles, \A f \in DOMAIN files : Forward("simv", files[f].lines)
    PROVE  TracesOn(ScanFiles(o, files))
<1> DEFINE n == Len(files)
<1>1. PICK A : FileTurns(A, o, files)
  BY FilesTurns
<1>2. n \in Nat /\ DOMAIN files = 1..n
  BY LenProperties DEF SimvFiles
<1>3. /\ A[0] = ScanBase /\ ScanFiles(o, files) = A[n]
      /\ \A k \in 0..n : A[k] \in ScanState
      /\ \A k \in 1..n : A[k] = ScanFile(o, A[k - 1], files[k])
  BY <1>1 DEF FileTurns
<1> DEFINE Ok == { k \in Nat : k <= n => TracesOn(A[k]) }
<1> HIDE DEF n
<1>4. 0 \in Ok
  <2>1. ScanBase.traces = <<>> /\ Len(<<>>) = 0 /\ 1..0 = {}
    BY DEF ScanBase
  <2>2. TracesOn(ScanBase)
    BY <2>1 DEF TracesOn
  <2> QED BY <1>3, <2>2
<1>5. ASSUME NEW k \in Nat, k \in Ok PROVE k + 1 \in Ok
  <2> SUFFICES ASSUME k + 1 <= n PROVE TracesOn(A[k + 1])
    OBVIOUS
  <2> DEFINE x == k + 1
  <2>1. x \in 1..n /\ x - 1 = k /\ k \in 0..n /\ TracesOn(A[k]) /\ (x = 1 => k = 0)
    BY <1>2, <1>5
  <2> HIDE DEF x
  <2>2. A[x] = ScanFile(o, A[k], files[x]) /\ A[k] \in ScanState /\ (x = 1 => A[k] = ScanBase)
    BY <1>3, <2>1
  <2>3. Forward("simv", files[x].lines) /\ x \in 1..Len(files)
    BY <1>2, <2>1 DEF n
  <2>4. TracesOn(ScanFile(o, A[k], files[x]))
    BY <2>1, <2>2, <2>3, ScanFileOn
  <2> QED BY <2>2, <2>4 DEF x
<1>6. n \in Ok
  <2> HIDE DEF Ok
  <2> QED BY <1>2, <1>4, <1>5, Induction
<1> QED
  BY <1>2, <1>3, <1>6

\* The scan of a waveform file, after m lines.
OutOn(lines, m, s) ==
    /\ s \in OutState /\ OnEvents(s.samples, s.events)
    /\ \A l \in TimeLines("out", lines) : l > m => NotAfter(s.samples, lines[l].value - 0)

LEMMA OutOnNext ==
    ASSUME NEW o, NEW lines \in Seq(WaveLine), Forward("out", lines), NEW m \in Nat, m + 1 <= Len(lines),
           NEW s, OutOn(lines, m, s)
    PROVE  OutOn(lines, m + 1, OutLine(o, s, lines[m + 1]))
<1> DEFINE k == m + 1
           line == lines[k]
           new == OutLine(o, s, line)
           times == TimeLines("out", lines)
           over == o.max_time # 0 /\ line.value > o.max_time /\ (o.min_time # 0 => line.value >= o.min_time)
<1>1. k \in 1..Len(lines) /\ line \in WaveLine /\ line.value \in Int
  BY WaveTimes
<1>2. /\ s \in OutState /\ OnEvents(s.samples, s.events)
      /\ \A l \in times : l > m => NotAfter(s.samples, lines[l].value - 0)
  BY DEF OutOn
<1>3. new \in OutState
  BY <1>1, <1>2, OutLineType
<1>4. \A l \in times : l > k => l > m
  <2>1. \A l \in times : l \in Int
    BY WaveTimes
  <2> QED BY <2>1
<1>5. s = [ok |-> s.ok, samples |-> s.samples, events |-> s.events, over |-> s.over]
  BY <1>2 DEF OutState
<1>6. \/ new = s
      \/ new = [s EXCEPT !.over = TRUE]
      \/ new = [s EXCEPT !.over = TRUE, !.ok = FALSE]
      \/ new = [s EXCEPT !.over = over]
      \/ s.samples # <<>> /\ new = [s EXCEPT !.samples = AddPower(s.samples, line.value)]
      \/ /\ line.kind \in {"event", "inner"}
         /\ new = [s EXCEPT !.samples = AddTime(s.samples, line.value), !.events = s.events \union {line.value}]
  BY DEF OutLine
<1> HIDE DEF over, new
<1>7. CASE new.samples = s.samples /\ new.events = s.events
  <2>1. OutOn(lines, k, new)
    BY <1>2, <1>3, <1>4, <1>7 DEF OutOn, times
  <2> QED BY <2>1 DEF new
<1>8. CASE s.samples # <<>> /\ new = [s EXCEPT !.samples = AddPower(s.samples, line.value)]
  <2>1. new.samples = AddPower(s.samples, line.value) /\ new.events = s.events
    BY <1>5, <1>8
  <2>2. /\ OnEvents(new.samples, new.events)
        /\ \A t : NotAfter(s.samples, t) => NotAfter(new.samples, t)
    BY <1>1, <1>2, <1>8, <2>1, PowerOnEvents
  <2>3. OutOn(lines, k, new)
    BY <1>2, <1>3, <1>4, <2>2 DEF OutOn, times
  <2> QED BY <2>3 DEF new
<1>9. CASE /\ line.kind \in {"event", "inner"}
           /\ new = [s EXCEPT !.samples = AddTime(s.samples, line.value), !.events = s.events \union {line.value}]
  <2> DEFINE d == line.value - 0
  <2>1. /\ new.samples = AddTime(s.samples, line.value) /\ new.events = s.events \union {line.value}
    BY <1>5, <1>9
  <2>2. k \in times /\ k > m
    BY <1>1, <1>9, WaveTimes DEF TimeLines
  <2>3. d \in Int /\ d = line.value /\ NotAfter(s.samples, d)
    BY <1>1, <1>2, <2>2
  <2> HIDE DEF d, times
  <2>4. OnEvents(new.samples, new.events) /\ NotAfter(new.samples, d)
    <3>1. OnEvents(AddTime(s.samples, d), s.events \union {d}) /\ NotAfter(AddTime(s.samples, d), d)
      BY <1>2, <2>3, TimeOnEvents
    <3>2. AddTime(s.samples, d) = new.samples /\ s.events \union {d} = new.events
      BY <2>1, <2>3
    <3> QED BY <3>1, <3>2
  <2>5. NotAfter(new.samples, lines[k].value - 0)
    BY <2>4 DEF d
  <2>6. \A l \in times : l > k => NotAfter(new.samples, lines[l].value - 0)
    <3> HIDE DEF k
    <3>1. 0 \in Int
      OBVIOUS
    <3> QED BY <2>2, <2>4, <2>5, <3>1, NotAfterLater DEF times
  <2>7. OutOn(lines, k, new)
    BY <1>3, <2>4, <2>6 DEF OutOn, times
  <2> QED BY <2>7 DEF new
<1>10. CASE \/ new = s
            \/ new = [s EXCEPT !.over = TRUE]
            \/ new = [s EXCEPT !.over = TRUE, !.ok = FALSE]
            \/ new = [s EXCEPT !.over = over]
  <2>1. new.samples = s.samples /\ new.events = s.events
    BY <1>5, <1>10
  <2> QED BY <1>7, <2>1
<1> QED
  BY <1>6, <1>8, <1>9, <1>10

LEMMA OutScanOn ==
    ASSUME NEW o, NEW lines \in Seq(WaveLine), Forward("out", lines)
    PROVE  OnEvents(OutScan(o, lines).samples, OutScan(o, lines).events)
<1> DEFINE n == Len(lines)
<1>1. PICK A : OutTurns(A, o, lines)
  BY OutScanTurns
<1>2. /\ n \in Nat /\ A[0] = OutBase /\ OutScan(o, lines) = A[n] /\ A[0] \in OutState
      /\ \A k \in 1..n : A[k] = OutLine(o, A[k - 1], lines[k])
  BY <1>1, LenProperties DEF OutTurns
<1> DEFINE Ok == { k \in Nat : k <= n => OutOn(lines, k, A[k]) }
<1> HIDE DEF n
<1>3. 0 \in Ok
  <2>1. OutBase.samples = <<>> /\ Len(<<>>) = 0 /\ 1..0 = {}
    BY DEF OutBase
  <2>2. OnEvents(OutBase.samples, OutBase.events) /\ \A t : NotAfter(OutBase.samples, t)
    BY <2>1, NoneOnEvents DEF NotAfter
  <2>3. OutOn(lines, 0, OutBase)
    BY <1>2, <2>2 DEF OutOn
  <2> QED BY <1>2, <2>3
<1>4. ASSUME NEW k \in Nat, k \in Ok PROVE k + 1 \in Ok
  <2> SUFFICES ASSUME k + 1 <= n PROVE OutOn(lines, k + 1, A[k + 1])
    OBVIOUS
  <2> DEFINE x == k + 1
  <2>1. x \in 1..n /\ x - 1 = k /\ OutOn(lines, k, A[k])
    BY <1>2, <1>4
  <2>2. A[x] = OutLine(o, A[x - 1], lines[x])
    <3> HIDE DEF x
    <3> QED BY <1>2, <2>1
  <2>3. A[k + 1] = OutLine(o, A[k], lines[k + 1])
    BY <2>1, <2>2
  <2>4. OutOn(lines, k + 1, OutLine(o, A[k], lines[k + 1]))
    BY <2>1, OutOnNext DEF n
  <2> QED BY <2>3, <2>4
<1>5. n \in Ok
  <2> HIDE DEF Ok
  <2> QED BY <1>2, <1>3, <1>4, Induction
<1> QED
  BY <1>2, <1>5 DEF OutOn

\* copy_trace (trace_format.cpp:96): the readers of waveforms hand out, of every
\* input whose times do not go back and for all options, no rejected trace and
\* each with one sample at each event, in order.
THEOREM EventsAlwaysAgree == Spec => []EventsAgree
<1>1. SourceOpened => EventsAgree
  <2> DEFINE data == job.data
             o == job.opt
             format == job.format
  <2> SUFFICES ASSUME SourceOpened, source.ok, format \in {"simv", "out"},
                      \A f \in DOMAIN data : Forward(format, data[f].lines)
               PROVE  \A i \in DOMAIN source.reads :
                         source.reads[i].ok /\ Times(source.reads[i].samples) = Ascending(source.events)
    BY DEF EventsAgree
  <2>1. PICK past \in Unset(format, data) : source = OpenReader(format, data, o, past)
    BY DEF SourceOpened
  <2>2. past \in PastType /\ WellFormed(format, data) /\ o \in ReaderOptions
    BY <2>1, JobsAssumption, GarbageAssumption DEF SourceOpened, Unset, PastType
  <2> HIDE DEF data, o, format
  <2>3. Reads(source) /\ WaveReader(source, format, data, o, past)
    BY <2>1, <2>2, ReaderReads
  <2>4. DOMAIN source.reads = 1..Len(source.reads)
    BY <2>3 DEF Reads
  <2>5. CASE format = "simv"
    <3> DEFINE s == ScanFiles(o, data)
    <3>1. data \in SimvFiles
      BY <2>2, <2>5 DEF WellFormed, SimvFiles
    <3>2. SimvReader(source, o, data, past)
      BY <2>3, <2>5 DEF WaveReader
    <3>3. s \in ScanState /\ TracesOn(s)
      BY <2>5, <3>1, ScanFilesType, ScanFilesOn
    <3>4. s.events \in FiniteInts
      BY <3>3 DEF ScanState, ScanFields
    <3>5. /\ source.events = s.events /\ Len(source.reads) = Len(s.traces)
          /\ \A i \in 1..Len(s.traces) :
                source.reads[i] = copy_trace(SimvText(o, s, i), s.traces[i].samples, s.events, past)
      BY <3>2 DEF SimvReader
    <3> HIDE DEF s
    <3>6. ASSUME NEW i \in 1..Len(s.traces)
          PROVE  source.reads[i].ok /\ Times(source.reads[i].samples) = Ascending(source.events)
      <4>1. OnEvents(s.traces[i].samples, s.events)
        BY <3>3 DEF TracesOn
      <4> QED BY <2>2, <3>4, <3>5, <4>1, OnEventsCopied
    <3> QED BY <2>4, <3>5, <3>6
  <2>6. CASE format = "out"
    <3> DEFINE E == OutEvents(o, data)
               scan(i) == OutScan(o, data[i].lines)
    <3>1. data \in Seq(OutFileType)
      BY <2>2, <2>6 DEF WellFormed, OutFileType
    <3>2. /\ source.events = E /\ E \in FiniteInts /\ Len(source.reads) = Len(data)
          /\ \A i \in 1..Len(data) : source.reads[i] = copy_trace(data[i].m, scan(i).samples, E, past)
      BY <2>3, <2>6 DEF WaveReader, OutReader
    <3>3. ASSUME NEW i \in 1..Len(data)
          PROVE  source.reads[i].ok /\ Times(source.reads[i].samples) = Ascending(source.events)
      <4>1. data[i].lines \in Seq(WaveLine) /\ DOMAIN data = 1..Len(data)
        <5>1. data[i] \in OutFileType
          BY <3>1, ElementOfSeq
        <5> QED BY <3>1, <5>1, LenProperties DEF OutFileType
      <4>2. OnEvents(scan(i).samples, scan(i).events)
        BY <2>6, <4>1, OutScanOn
      <4>3. scan(i).events \subseteq E
        BY DEF OutEvents
      <4> HIDE DEF E, scan
      <4>4. OnEvents(scan(i).samples, E)
        BY <4>2, <4>3 DEF OnEvents
      <4>5. source.reads[i] = copy_trace(data[i].m, scan(i).samples, E, past)
        BY <3>2
      <4> QED BY <2>2, <3>2, <4>4, <4>5, OnEventsCopied
    <3> QED BY <2>4, <3>2, <3>3
  <2> QED BY <2>5, <2>6
<1> QED
  BY <1>1, SourceIsOpened, PTL
=============================================================================
