---------------------------- MODULE AttackSumsProofs ----------------------------
(* The sums of the attacks, proved for any traces, guesses and divisions of    *)
(* the traces among the workers: that the report's differentials are those of  *)
(* the textbook over all traces.  First sums of sequences and the covariance,  *)
(* which the code computes from five sums and the textbook from all pairs.     *)
EXTENDS AttackSums, InductionFacts, SequenceTheorems

\* A sum, as what there is after k turns of the loop.
LEMMA SumTurns ==
    ASSUME NEW n \in Nat, NEW x \in [1..n -> Int]
    PROVE  \E A \in [0..n -> Int] : /\ A[0] = 0 /\ SumSeq(x) = A[n]
                                    /\ \A k \in 1..n : A[k] = A[k - 1] + x[k]
<1> DEFINE Op(acc, a) == Plus(acc, a)
           h == [p \in Int \X (1..n) |-> Op(p[1], x[p[2]])]
           IsFold(F) == F = [s \in SUBSET (1..n) |->
                               IF s = {} THEN 0 ELSE Op(F[s \ {Max(s)}], x[Max(s)])]
           G == CHOOSE F : IsFold(F)
<1>1. ASSUME NEW acc \in Int, NEW k \in 1..n
      PROVE  Op(acc, x[k]) \in Int /\ h[<<acc, k>>] = Op(acc, x[k])
  BY DEF Plus
<1>2. h \in [Int \X (1..n) -> Int]
  BY <1>1
<1>3. SumSeq(x) = G[1..n]
  BY DEF SumSeq, FoldLeft, MapThenFoldSet
<1> HIDE DEF h, Op
<1>4. PICK F : Folds(F, n, Int, 0, h)
  BY <1>2, 0 \in Int, FoldExists
<1>5. IsFold(F)
  BY <1>1, <1>4 DEF Folds
<1>6. IsFold(G)
  <2> HIDE DEF IsFold
  <2> QED BY <1>5
<1>7. \A s \in SUBSET (1..n) : s # {} => Max(s) \in 1..n
  BY Largest
<1> DEFINE A == [k \in 0..n |-> G[1..k]]
<1>8. ASSUME NEW k \in 1..n PROVE A[k] = Op(A[k - 1], x[k])
  <2>1. /\ Max(1..k) = k /\ (1..k) \ {Max(1..k)} = 1..(k - 1)
        /\ 1..k # {} /\ 1..k \in SUBSET (1..n)
    BY Prefix
  <2>2. G[1..k] = Op(G[1..(k - 1)], x[k])
    <3> HIDE DEF G
    <3> QED BY <1>6, <2>1
  <2> HIDE DEF G
  <2> QED BY <2>2
<1>9. A[0] = 0 /\ A[n] = G[1..n] /\ DOMAIN A = 0..n
  <2> HIDE DEF G
  <2>1. 1..0 = {} /\ {} \in SUBSET (1..n) /\ 0 \in 0..n /\ n \in 0..n
    OBVIOUS
  <2>2. G[{}] = 0
    BY <1>6, <2>1
  <2> QED BY <2>1, <2>2
<1> HIDE DEF A, G, IsFold
<1>10. \A k \in Nat : k <= n => A[k] \in Int
  <2> DEFINE Ok == { k \in Nat : k <= n => A[k] \in Int }
  <2>1. 0 \in Ok
    BY <1>9
  <2>2. ASSUME NEW k \in Nat, k \in Ok PROVE k + 1 \in Ok
    <3> SUFFICES ASSUME k + 1 <= n PROVE A[k + 1] \in Int
      OBVIOUS
    <3>1. k + 1 \in 1..n /\ (k + 1) - 1 = k /\ A[k] \in Int
      BY <2>2
    <3> QED BY <1>1, <1>8, <3>1
  <2> HIDE DEF Ok
  <2>3. Nat \subseteq Ok
    BY <2>1, <2>2, Induction
  <2> QED BY <2>3 DEF Ok
<1>11. A \in [0..n -> Int]
  <2>1. A = [k \in 0..n |-> A[k]]
    BY DEF A
  <2> QED BY <1>10, <2>1
<1> QED
  BY <1>3, <1>8, <1>9, <1>11 DEF Op, Plus

\* Whatever grows by the terms of the sum one after the other is the sum.
LEMMA SumIs ==
    ASSUME NEW n \in Nat, NEW x \in [1..n -> Int],
           NEW B, B[0] = 0, \A k \in 1..n : B[k] = B[k - 1] + x[k]
    PROVE  SumSeq(x) = B[n] /\ SumSeq(x) \in Int
<1>1. PICK A \in [0..n -> Int] : /\ A[0] = 0 /\ SumSeq(x) = A[n]
                                 /\ \A k \in 1..n : A[k] = A[k - 1] + x[k]
  BY SumTurns
<1> DEFINE Ok == { k \in Nat : k <= n => A[k] = B[k] }
<1>2. 0 \in Ok
  BY <1>1
<1>3. ASSUME NEW k \in Nat, k \in Ok PROVE k + 1 \in Ok
  <2> SUFFICES ASSUME k + 1 <= n PROVE A[k + 1] = B[k + 1]
    OBVIOUS
  <2>1. k + 1 \in 1..n /\ (k + 1) - 1 = k /\ A[k] = B[k]
    BY <1>3
  <2> QED BY <1>1, <2>1
<1> HIDE DEF Ok
<1>4. n \in Ok
  BY <1>2, <1>3, Induction
<1> QED
  BY <1>1, <1>4 DEF Ok

\* A sum grows by what is appended.
LEMMA SumAppend ==
    ASSUME NEW n \in Nat, NEW x \in [1..n -> Int], NEW y \in [1..(n + 1) -> Int],
           \A i \in 1..n : y[i] = x[i]
    PROVE  /\ SumSeq(x) \in Int /\ SumSeq(y) \in Int
           /\ SumSeq(y) = SumSeq(x) + y[n + 1]
           /\ n = 0 => SumSeq(x) = 0
<1>1. PICK A \in [0..n -> Int] : /\ A[0] = 0 /\ SumSeq(x) = A[n]
                                 /\ \A k \in 1..n : A[k] = A[k - 1] + x[k]
  BY SumTurns
<1> DEFINE B == [k \in 0..(n + 1) |-> IF k <= n THEN A[k] ELSE A[n] + y[n + 1]]
<1>2. B[0] = 0 /\ B[n + 1] = A[n] + y[n + 1] /\ \A k \in 1..(n + 1) : B[k] = B[k - 1] + y[k]
  BY <1>1
<1> HIDE DEF B
<1>3. SumSeq(y) = B[n + 1] /\ SumSeq(y) \in Int
  BY <1>2, n + 1 \in Nat, SumIs
<1> QED
  BY <1>1, <1>2, <1>3

\* The sum of a concatenation.
LEMMA SumConcat ==
    ASSUME NEW m \in Nat, NEW n \in Nat, NEW x \in [1..m -> Int], NEW y \in [1..n -> Int],
           NEW z \in [1..(m + n) -> Int],
           \A i \in 1..m : z[i] = x[i], \A i \in 1..n : z[m + i] = y[i]
    PROVE  SumSeq(z) = SumSeq(x) + SumSeq(y)
<1>1. PICK A \in [0..m -> Int] : /\ A[0] = 0 /\ SumSeq(x) = A[m]
                                 /\ \A k \in 1..m : A[k] = A[k - 1] + x[k]
  BY SumTurns
<1>2. PICK B \in [0..n -> Int] : /\ B[0] = 0 /\ SumSeq(y) = B[n]
                                 /\ \A k \in 1..n : B[k] = B[k - 1] + y[k]
  BY SumTurns
<1> DEFINE C == [k \in 0..(m + n) |-> IF k <= m THEN A[k] ELSE A[m] + B[k - m]]
<1>3. ASSUME NEW k \in 1..(m + n) PROVE C[k] = C[k - 1] + z[k]
  <2>1. CASE k <= m
    BY <1>1, <2>1
  <2>2. CASE k = m + 1
    <3>1. 1 \in 1..n /\ z[m + 1] = y[1] /\ B[1] = B[0] + y[1]
      BY <1>2, <2>2
    <3> QED BY <1>1, <1>2, <2>2, <3>1
  <2>3. CASE k > m + 1
    <3> DEFINE i == k - m
    <3>1. i \in 1..n /\ k = m + i /\ i - 1 = (k - 1) - m /\ i - 1 \in 0..n
      BY <2>3
    <3>2. z[k] = y[i] /\ B[i] = B[i - 1] + y[i]
      BY <1>2, <3>1
    <3>3. C[k] = A[m] + B[i] /\ C[k - 1] = A[m] + B[i - 1]
      BY <2>3, <3>1
    <3>4. A[m] \in Int /\ B[i] \in Int /\ B[i - 1] \in Int /\ y[i] \in Int
      BY <1>1, <1>2, <3>1
    <3>5. A[m] + B[i] = (A[m] + B[i - 1]) + y[i]
      <4> HIDE DEF i
      <4>1. \A a, b, c \in Int : a + (b + c) = (a + b) + c
        OBVIOUS
      <4> QED BY <3>2, <3>4, <4>1
    <3> QED BY <3>2, <3>3, <3>5
  <2> QED BY <2>1, <2>2, <2>3
<1>4. C[0] = 0 /\ C[m + n] = A[m] + B[n]
  <2>1. CASE n = 0
    BY <1>1, <1>2, <2>1
  <2>2. CASE n > 0
    <3>1. m + n \in 0..(m + n) /\ ~(m + n <= m) /\ (m + n) - m = n
      BY <2>2
    <3> QED BY <1>1, <3>1
  <2> QED BY <2>1, <2>2
<1> HIDE DEF C
<1>5. SumSeq(z) = C[m + n]
  BY <1>3, <1>4, m + n \in Nat, SumIs
<1> QED
  BY <1>1, <1>2, <1>4, <1>5

\* The sum of numbers that are not negative, and of squares.
LEMMA SumNat ==
    ASSUME NEW n \in Nat, NEW x \in [1..n -> Int], \A i \in 1..n : x[i] >= 0
    PROVE  SumSeq(x) \in Nat
<1>1. PICK A \in [0..n -> Int] : /\ A[0] = 0 /\ SumSeq(x) = A[n]
                                 /\ \A k \in 1..n : A[k] = A[k - 1] + x[k]
  BY SumTurns
<1> DEFINE Ok == { k \in Nat : k <= n => A[k] >= 0 }
<1>2. 0 \in Ok
  BY <1>1
<1>3. ASSUME NEW k \in Nat, k \in Ok PROVE k + 1 \in Ok
  <2> SUFFICES ASSUME k + 1 <= n PROVE A[k + 1] >= 0
    OBVIOUS
  <2>1. k + 1 \in 1..n /\ (k + 1) - 1 = k /\ A[k] >= 0 /\ A[k] \in Int
    BY <1>1, <1>3
  <2> QED BY <1>1, <2>1
<1> HIDE DEF Ok
<1>4. n \in Ok
  BY <1>2, <1>3, Induction
<1> QED
  BY <1>1, <1>4 DEF Ok

-----------------------------------------------------------------------------
(* The covariance.                                                            *)

LEMMA Square == ASSUME NEW a \in Int PROVE a * a \in Int /\ a * a >= 0
  OBVIOUS

LEMMA ShiftedStep ==
    ASSUME NEW k \in Int, NEW P \in Int, NEW X \in Int, NEW Y \in Int,
           NEW a \in Int, NEW b \in Int, NEW x \in Int, NEW y \in Int
    PROVE  (P + x * y) - b * (X + x) - a * (Y + y) + (k + 1) * (a * b)
             = (P - b * X - a * Y + k * (a * b)) + (x - a) * (y - b)
  OBVIOUS

LEMMA CovarianceStep ==
    ASSUME NEW n \in Int, NEW P \in Int, NEW X \in Int, NEW Y \in Int, NEW x \in Int, NEW y \in Int
    PROVE  (n + 1) * (P + x * y) - (X + x) * (Y + y)
             = (n * P - X * Y) + (P - y * X - x * Y + n * (x * y))
  OBVIOUS

\* The partial sums of a sequence.
IsSum(A, n, x) == A \in [0..n -> Int] /\ A[0] = 0 /\ \A k \in 1..n : A[k] = A[k - 1] + x[k]

\* The sum of the products of differences from a point, and what it comes to.
Products(x, y, n) == [i \in 1..n |-> x[i] * y[i]]
Shifted(x, y, m, a, b) == [i \in 1..m |-> (x[i] - a) * (y[i] - b)]
Moved(P, X, Y, m, a, b) == P[m] - b * X[m] - a * Y[m] + m * (a * b)

LEMMA ShiftedProducts ==
    ASSUME NEW n \in Nat, NEW x \in [1..n -> Int], NEW y \in [1..n -> Int],
           NEW P, IsSum(P, n, Products(x, y, n)),
           NEW X, IsSum(X, n, x), NEW Y, IsSum(Y, n, y),
           NEW m \in 0..n, NEW a \in Int, NEW b \in Int
    PROVE  SumSeq(Shifted(x, y, m, a, b)) = Moved(P, X, Y, m, a, b)
<1> DEFINE z == [i \in 1..m |-> (x[i] - a) * (y[i] - b)]
           B == [k \in 0..m |-> P[k] - b * X[k] - a * Y[k] + k * (a * b)]
<1>1. z \in [1..m -> Int] /\ m \in Nat
  OBVIOUS
<1>2. B[0] = 0
  BY DEF IsSum
<1>3. ASSUME NEW k \in 1..m PROVE B[k] = B[k - 1] + z[k]
  <2>1. k \in 1..n /\ k - 1 \in 0..n /\ k - 1 \in 0..m /\ (k - 1) + 1 = k /\ k - 1 \in Int
    OBVIOUS
  <2>2. /\ P[k - 1] \in Int /\ X[k - 1] \in Int /\ Y[k - 1] \in Int
        /\ x[k] \in Int /\ y[k] \in Int
    BY <2>1 DEF IsSum
  <2>3. P[k] = P[k - 1] + x[k] * y[k] /\ X[k] = X[k - 1] + x[k] /\ Y[k] = Y[k - 1] + y[k]
    BY <2>1 DEF IsSum, Products
  <2>4. P[k] - b * X[k] - a * Y[k] + k * (a * b)
          = (P[k - 1] - b * X[k - 1] - a * Y[k - 1] + (k - 1) * (a * b)) + (x[k] - a) * (y[k] - b)
    <3> DEFINE c == k - 1
               p == P[c]
               u == X[c]
               v == Y[c]
               s == x[k]
               t == y[k]
    <3>1. c \in Int /\ c + 1 = k /\ p \in Int /\ u \in Int /\ v \in Int /\ s \in Int /\ t \in Int
      BY <2>2
    <3>2. P[k] = p + s * t /\ X[k] = u + s /\ Y[k] = v + t
      BY <2>3
    <3> HIDE DEF c, p, u, v, s, t
    <3>3. (p + s * t) - b * (u + s) - a * (v + t) + (c + 1) * (a * b)
            = (p - b * u - a * v + c * (a * b)) + (s - a) * (t - b)
      BY <3>1, ShiftedStep
    <3>4. P[k] - b * X[k] - a * Y[k] + k * (a * b)
            = (p - b * u - a * v + c * (a * b)) + (s - a) * (t - b)
      BY <3>1, <3>2, <3>3
    <3> QED BY <3>4 DEF c, p, u, v, s, t
  <2> QED BY <2>1, <2>4
<1>4. B[m] = P[m] - b * X[m] - a * Y[m] + m * (a * b)
  OBVIOUS
<1> HIDE DEF B, z
<1>5. SumSeq(z) = B[m]
  BY <1>1, <1>2, <1>3, SumIs
<1> QED
  BY <1>4, <1>5 DEF z, Shifted, Moved

\* Five sums make the covariance.
LEMMA CovarianceIs ==
    ASSUME NEW n \in Nat, NEW x \in [1..n -> Int], NEW y \in [1..n -> Int]
    PROVE  /\ Covariance(x, y) \in Int
           /\ n * SumSeq([i \in 1..n |-> x[i] * y[i]]) - SumSeq(x) * SumSeq(y) = Covariance(x, y)
<1> DEFINE z == [i \in 1..n |-> x[i] * y[i]]
           D(j) == SumSeq([i \in 1..(j - 1) |-> (x[i] - x[j]) * (y[i] - y[j])])
           d == [j \in 1..n |-> D(j)]
<1>1. z \in [1..n -> Int]
  OBVIOUS
<1>2. Covariance(x, y) = SumSeq(d)
  BY DEF Covariance
<1> HIDE DEF z
<1>3. PICK P : IsSum(P, n, z) /\ SumSeq(z) = P[n]
  BY <1>1, SumTurns DEF IsSum
<1>4. PICK X : IsSum(X, n, x) /\ SumSeq(x) = X[n]
  BY SumTurns DEF IsSum
<1>5. PICK Y : IsSum(Y, n, y) /\ SumSeq(y) = Y[n]
  BY SumTurns DEF IsSum
<1>6. ASSUME NEW j \in 1..n
      PROVE  D(j) = P[j - 1] - y[j] * X[j - 1] - x[j] * Y[j - 1] + (j - 1) * (x[j] * y[j])
  <2>1. j - 1 \in 0..n /\ x[j] \in Int /\ y[j] \in Int
    OBVIOUS
  <2>2. IsSum(P, n, Products(x, y, n))
    BY <1>3 DEF z, Products
  <2>3. SumSeq(Shifted(x, y, j - 1, x[j], y[j]))
          = P[j - 1] - y[j] * X[j - 1] - x[j] * Y[j - 1] + (j - 1) * (x[j] * y[j])
    <3> DEFINE m == j - 1
               a == x[j]
               b == y[j]
    <3>1. m \in 0..n /\ a \in Int /\ b \in Int
      BY <2>1
    <3> HIDE DEF m, a, b, D, d
    <3>2. SumSeq(Shifted(x, y, m, a, b)) = Moved(P, X, Y, m, a, b)
      BY <1>4, <1>5, <2>2, <3>1, ShiftedProducts
    <3> QED BY <3>2 DEF m, a, b, Moved
  <2> QED BY <2>3 DEF Shifted
<1> HIDE DEF D
<1> DEFINE B == [k \in 0..n |-> k * P[k] - X[k] * Y[k]]
<1>7. ASSUME NEW j \in 1..n PROVE d[j] \in Int /\ B[j] = B[j - 1] + d[j]
  <2>1. j - 1 \in 0..n /\ j \in 0..n /\ (j - 1) + 1 = j /\ j - 1 \in Int
    OBVIOUS
  <2>2. /\ P[j - 1] \in Int /\ X[j - 1] \in Int /\ Y[j - 1] \in Int
        /\ x[j] \in Int /\ y[j] \in Int
    BY <1>3, <1>4, <1>5, <2>1 DEF IsSum
  <2>3. P[j] = P[j - 1] + x[j] * y[j] /\ X[j] = X[j - 1] + x[j] /\ Y[j] = Y[j - 1] + y[j]
    BY <1>3, <1>4, <1>5 DEF IsSum, z
  <2>4. j * P[j] - X[j] * Y[j]
          = ((j - 1) * P[j - 1] - X[j - 1] * Y[j - 1])
            + (P[j - 1] - y[j] * X[j - 1] - x[j] * Y[j - 1] + (j - 1) * (x[j] * y[j]))
    <3> DEFINE c == j - 1
               p == P[c]
               u == X[c]
               v == Y[c]
               s == x[j]
               t == y[j]
    <3>1. c \in Int /\ c + 1 = j /\ p \in Int /\ u \in Int /\ v \in Int /\ s \in Int /\ t \in Int
      BY <2>2
    <3>2. P[j] = p + s * t /\ X[j] = u + s /\ Y[j] = v + t
      BY <2>3
    <3> HIDE DEF c, p, u, v, s, t
    <3>3. (c + 1) * (p + s * t) - (u + s) * (v + t) = (c * p - u * v) + (p - t * u - s * v + c * (s * t))
      BY <3>1, CovarianceStep
    <3>4. j * P[j] - X[j] * Y[j] = (c * p - u * v) + (p - t * u - s * v + c * (s * t))
      BY <3>1, <3>2, <3>3
    <3> QED BY <3>4 DEF c, p, u, v, s, t
  <2>5. d[j] = P[j - 1] - y[j] * X[j - 1] - x[j] * Y[j - 1] + (j - 1) * (x[j] * y[j])
    BY <1>6
  <2>6. d[j] \in Int
    <3> HIDE DEF d
    <3> QED BY <2>1, <2>2, <2>5
  <2> QED BY <2>1, <2>4, <2>5, <2>6
<1>8. B[0] = 0 /\ B[n] = n * P[n] - X[n] * Y[n]
  BY <1>3, <1>4, <1>5 DEF IsSum
<1>9. d \in [1..n -> Int]
  BY <1>7
<1> HIDE DEF d, B
<1>10. SumSeq(d) = B[n] /\ SumSeq(d) \in Int
  BY <1>7, <1>8, <1>9, SumIs
<1> QED
  BY <1>2, <1>3, <1>4, <1>5, <1>8, <1>10 DEF z

\* A variance is not negative, and moving the origin changes nothing.
LEMMA VarianceNat ==
    ASSUME NEW n \in Nat, NEW x \in [1..n -> Int]
    PROVE  Covariance(x, x) \in Nat
<1> DEFINE e(j) == [i \in 1..(j - 1) |-> (x[i] - x[j]) * (x[i] - x[j])]
           d == [j \in 1..n |-> SumSeq(e(j))]
<1>1. ASSUME NEW j \in 1..n PROVE SumSeq(e(j)) \in Nat
  <2>1. j - 1 \in Nat
    OBVIOUS
  <2>2. ASSUME NEW i \in 1..(j - 1) PROVE e(j)[i] \in Int /\ e(j)[i] >= 0
    <3>1. x[i] - x[j] \in Int
      OBVIOUS
    <3> QED BY <3>1, Square
  <2>3. e(j) \in [1..(j - 1) -> Int]
    BY <2>2
  <2> HIDE DEF e
  <2> QED BY <2>1, <2>2, <2>3, SumNat
<1>2. Covariance(x, x) = SumSeq(d)
  BY DEF Covariance
<1> HIDE DEF e
<1>3. d \in [1..n -> Int] /\ \A j \in 1..n : d[j] >= 0
  BY <1>1
<1> QED
  <2> HIDE DEF d
  <2> QED BY <1>2, <1>3, SumNat

LEMMA CovarianceMoved ==
    ASSUME NEW n \in Nat, NEW x \in [1..n -> Int], NEW y \in [1..n -> Int], NEW c \in Int,
           NEW z \in [1..n -> Int], \A i \in 1..n : z[i] = y[i] - c
    PROVE  Covariance(x, z) = Covariance(x, y) /\ Covariance(z, z) = Covariance(y, y)
<1>1. \A i, j \in 1..n : z[i] - z[j] = y[i] - y[j]
  OBVIOUS
<1>2. ASSUME NEW j \in 1..n
      PROVE  /\ [i \in 1..(j - 1) |-> (x[i] - x[j]) * (z[i] - z[j])]
                   = [i \in 1..(j - 1) |-> (x[i] - x[j]) * (y[i] - y[j])]
             /\ [i \in 1..(j - 1) |-> (z[i] - z[j]) * (z[i] - z[j])]
                   = [i \in 1..(j - 1) |-> (y[i] - y[j]) * (y[i] - y[j])]
  <2>1. \A i \in 1..(j - 1) : i \in 1..n
    OBVIOUS
  <2> QED BY <1>1, <2>1, Zenon
<1>3. DOMAIN x = 1..n /\ DOMAIN y = 1..n /\ DOMAIN z = 1..n
  OBVIOUS
<1> QED
  BY <1>2, <1>3, Zenon DEF Covariance

-----------------------------------------------------------------------------
(* Sums over traces.  Everything the attacks accumulate is the sum of some     *)
(* number f[t] of each trace t.                                                *)

Numbers == [Samples -> Int]
Values(traces, f) == [i \in DOMAIN traces |-> f[traces[i]]]
SumOf(traces, f) == SumSeq(Values(traces, f))

\* b has one trace t more than a; c has the traces of a and of b.
Grown(a, b, t) == Len(b) = Len(a) + 1 /\ \A f \in Numbers : SumOf(b, f) = SumOf(a, f) + f[t]
Joined(a, b, c) ==
    Len(c) = Len(a) + Len(b) /\ \A f \in Numbers : SumOf(c, f) = SumOf(a, f) + SumOf(b, f)

LEMMA ValuesType ==
    ASSUME NEW traces \in Seq(Samples), NEW f \in Numbers
    PROVE  /\ Values(traces, f) \in [1..Len(traces) -> Int] /\ Len(traces) \in Nat
           /\ SumOf(traces, f) \in Int /\ SumOf(<<>>, f) = 0
<1>1. Len(traces) \in Nat /\ DOMAIN traces = 1..Len(traces) /\ \A i \in 1..Len(traces) : traces[i] \in Samples
  BY LenProperties
<1>2. Values(traces, f) \in [1..Len(traces) -> Int]
  BY <1>1 DEF Values, Numbers
<1>3. PICK A \in [0..Len(traces) -> Int] : SumSeq(Values(traces, f)) = A[Len(traces)]
  BY <1>1, <1>2, SumTurns
<1>4. SumOf(<<>>, f) = 0
  <2>1. Values(<<>>, f) \in [1..0 -> Int]
    BY DEF Values
  <2>2. PICK B \in [0..0 -> Int] : B[0] = 0 /\ SumSeq(Values(<<>>, f)) = B[0]
    BY <2>1, SumTurns, 0 \in Nat
  <2> QED BY <2>2 DEF SumOf
<1> QED
  BY <1>1, <1>2, <1>3, <1>4 DEF SumOf

LEMMA AppendGrows ==
    ASSUME NEW a \in Seq(Samples), NEW t \in Samples
    PROVE  Grown(a, Append(a, t), t) /\ Append(a, t) \in Seq(Samples)
<1> DEFINE b == Append(a, t)
           n == Len(a)
<1>1. b \in Seq(Samples) /\ Len(b) = n + 1 /\ n \in Nat /\ b[n + 1] = t /\ \A i \in 1..n : b[i] = a[i]
  BY AppendProperties, LenProperties
<1>2. DOMAIN a = 1..n /\ DOMAIN b = 1..(n + 1)
  BY <1>1, LenProperties
<1> HIDE DEF b, n
<1>3. ASSUME NEW f \in Numbers PROVE SumOf(b, f) = SumOf(a, f) + f[t]
  <2>1. Values(a, f) \in [1..n -> Int]
    BY ValuesType DEF n
  <2>2. Values(b, f) \in [1..(n + 1) -> Int]
    BY <1>1, ValuesType
  <2>3. \A i \in 1..n : Values(b, f)[i] = Values(a, f)[i]
    BY <1>1, <1>2 DEF Values
  <2>4. Values(b, f)[n + 1] = f[t]
    BY <1>1, <1>2 DEF Values
  <2> QED BY <1>1, <2>1, <2>2, <2>3, <2>4, SumAppend DEF SumOf
<1> QED
  BY <1>1, <1>3 DEF Grown, b, n

LEMMA ConcatJoins ==
    ASSUME NEW a \in Seq(Samples), NEW b \in Seq(Samples)
    PROVE  Joined(a, b, a \o b) /\ a \o b \in Seq(Samples)
<1> DEFINE c == a \o b
           m == Len(a)
           n == Len(b)
<1>1. c \in Seq(Samples) /\ Len(c) = m + n /\ n \in Nat /\ m \in Nat
  BY ConcatProperties, LenProperties
<1>2. DOMAIN a = 1..m /\ DOMAIN b = 1..n /\ DOMAIN c = 1..(m + n)
  BY <1>1, LenProperties
<1>3. \A i \in 1..m : c[i] = a[i]
  BY <1>1, ConcatProperties
<1>4. \A i \in 1..n : c[m + i] = b[i]
  <2> TAKE i \in 1..n
  <2>1. m + i \in 1..(m + n) /\ ~(m + i <= m) /\ (m + i) - m = i
    BY <1>1
  <2> QED BY <1>1, <2>1, ConcatProperties
<1> HIDE DEF c, m, n
<1>5. ASSUME NEW f \in Numbers PROVE SumOf(c, f) = SumOf(a, f) + SumOf(b, f)
  <2>1. Values(a, f) \in [1..m -> Int] /\ Values(b, f) \in [1..n -> Int]
    BY ValuesType DEF m, n
  <2>2. Values(c, f) \in [1..(m + n) -> Int]
    BY <1>1, ValuesType
  <2>3. \A i \in 1..m : Values(c, f)[i] = Values(a, f)[i]
    <3>1. \A i \in 1..m : i \in 1..(m + n)
      BY <1>1
    <3> QED BY <1>2, <1>3, <3>1, Zenon DEF Values
  <2>4. \A i \in 1..n : Values(c, f)[m + i] = Values(b, f)[i]
    <3>1. \A i \in 1..n : m + i \in 1..(m + n)
      BY <1>1
    <3> QED BY <1>2, <1>4, <3>1, Zenon DEF Values
  <2> QED BY <1>1, <2>1, <2>2, <2>3, <2>4, SumConcat DEF SumOf
<1> QED
  BY <1>1, <1>5 DEF Joined, c, m, n

\* A worker's new trace is new in the concatenation.
LEMMA WorkerGrows ==
    ASSUME NEW a \in Seq(Samples), NEW b \in Seq(Samples), NEW t \in Samples
    PROVE  Grown(a \o b, Append(a, t) \o b, t) /\ Grown(a \o b, a \o Append(b, t), t)
<1> DEFINE at == Append(a, t)
           bt == Append(b, t)
<1>1. at \in Seq(Samples) /\ bt \in Seq(Samples) /\ Grown(a, at, t) /\ Grown(b, bt, t)
  BY AppendGrows
<1> HIDE DEF at, bt
<1>2. Joined(a, b, a \o b) /\ Joined(at, b, at \o b) /\ Joined(a, bt, a \o bt)
  BY <1>1, ConcatJoins
<1>3. Len(a) \in Nat /\ Len(b) \in Nat
  BY LenProperties
<1>4. Len(at \o b) = Len(a \o b) + 1 /\ Len(a \o bt) = Len(a \o b) + 1
  BY <1>1, <1>2, <1>3 DEF Grown, Joined
<1>5. ASSUME NEW f \in Numbers
      PROVE  SumOf(at \o b, f) = SumOf(a \o b, f) + f[t] /\ SumOf(a \o bt, f) = SumOf(a \o b, f) + f[t]
  <2>1. SumOf(a, f) \in Int /\ SumOf(b, f) \in Int /\ f[t] \in Int
    BY ValuesType DEF Numbers
  <2>2. /\ SumOf(at, f) = SumOf(a, f) + f[t] /\ SumOf(bt, f) = SumOf(b, f) + f[t]
        /\ SumOf(a \o b, f) = SumOf(a, f) + SumOf(b, f)
        /\ SumOf(at \o b, f) = SumOf(at, f) + SumOf(b, f)
        /\ SumOf(a \o bt, f) = SumOf(a, f) + SumOf(bt, f)
    BY <1>1, <1>2 DEF Grown, Joined
  <2> QED BY <2>1, <2>2
<1> QED
  BY <1>4, <1>5 DEF Grown, at, bt

-----------------------------------------------------------------------------
(* What the instances hold, as sums over the traces they stand for.           *)

\* The weights, for each guess and trace.
CpaWeights == [k \in Guesses |-> [t \in Samples |-> Ones(t.message, k) - center]]
KnownKeyWeights == [k \in {0} |-> [t \in Samples |-> KnownWeight(t.message)]]

PowerAt(e) == [t \in Samples |-> t.power[e]]
SquareAt(e) == [t \in Samples |-> t.power[e] * t.power[e]]
WeightOf(wt, k) == [t \in Samples |-> wt[k][t]]
SquareOf(wt, k) == [t \in Samples |-> wt[k][t] * wt[k][t]]
ProductAt(wt, k, e) == [t \in Samples |-> t.power[e] * wt[k][t]]

SumsOf(traces, guesses, wt) ==
    [n |-> Len(traces), t1 |-> [e \in Events |-> SumOf(traces, PowerAt(e))],
     t2 |-> [e \in Events |-> SumOf(traces, SquareAt(e))],
     w1 |-> [k \in guesses |-> SumOf(traces, WeightOf(wt, k))],
     w2 |-> [k \in guesses |-> SumOf(traces, SquareOf(wt, k))],
     tw |-> [k \in guesses |-> [e \in Events |-> SumOf(traces, ProductAt(wt, k, e))]]]

InGroup(k, g) == [t \in Samples |-> IF Group(Ones(t.message, k)) = g THEN 1 ELSE 0]
PowerInGroup(k, g, e) == [t \in Samples |-> IF Group(Ones(t.message, k)) = g THEN t.power[e] ELSE 0]

BinsOf(traces) ==
    [k \in Guesses |-> [binsz |-> [g \in 0..2 |-> SumOf(traces, InGroup(k, g))],
                        diffs |-> [g \in 0..1 |-> [e \in Events |->
                                        SumOf(traces, PowerInGroup(k, g, e))]]]]

HasWeight(v) == [t \in Samples |-> IF KnownWeight(t.message) = v THEN 1 ELSE 0]
PeakAtWeight(v) == [t \in Samples |-> IF KnownWeight(t.message) = v THEN Peak(t.power) ELSE 0]
StatesOf(traces) ==
    [pow |-> [v \in 0..(num_states - 1) |-> SumOf(traces, PeakAtWeight(v))],
     num |-> [v \in 0..(num_states - 1) |-> SumOf(traces, HasWeight(v))]]

\* All of these are numbers.
LEMMA WeightsAreNumbers ==
    ASSUME SumsWellFormed
    PROVE  /\ \A t \in Samples, k \in Guesses : Ones(t.message, k) \in Nat
           /\ \A t \in Samples : KnownWeight(t.message) \in Nat
           /\ center \in Int
           /\ CpaWeights \in [Guesses -> Numbers] /\ KnownKeyWeights \in [{0} -> Numbers]
<1>1. ASSUME NEW x, IsFiniteSet(x), NEW bits PROVE Weight(x, bits) \in Nat
  <2>1. IsFiniteSet(x \intersect bits)
    BY <1>1, FS_Subset, x \intersect bits \subseteq x
  <2> QED BY <2>1, FS_CardinalityType DEF Weight
<1>2. \A t \in Samples, k \in Guesses : Ones(t.message, k) \in Nat
  BY <1>1 DEF Ones, SumsWellFormed
<1>3. ASSUME NEW t \in Samples PROVE KnownWeight(t.message) \in Nat
  <2> DEFINE S == DOMAIN KnownKey
             w(b) == Weight(compute[t.message][b][KnownKey[b]], 0..7)
             g == [b \in S |-> w(b)]
             IsFold(F) == F = [s \in SUBSET S |->
                                  IF s = {} THEN 0 ELSE w(One(s)) + F[s \ {One(s)}]]
             G == CHOOSE F : IsFold(F)
  <2>1. IsFiniteSet(S) /\ \A b \in S : w(b) \in Nat
    BY <1>1 DEF SumsWellFormed
  <2>2. KnownWeight(t.message) = G[S]
    BY DEF KnownWeight, MapThenSumSet, MapThenFoldSet, One
  <2> HIDE DEF w
  <2>3. g \in [S -> Nat]
    BY <2>1
  <2>4. PICK F \in [SUBSET S -> Nat] : Adds(g, F, S)
    BY <2>1, <2>3, SumExists
  <2>5. \A s \in SUBSET S : s # {} => One(s) \in S
    BY DEF One
  <2>6. \A s \in SUBSET S : s # {} => g[One(s)] = w(One(s))
    BY <2>5
  <2>7. IsFold(F)
    BY <2>4, <2>6, Zenon DEF Adds
  <2>8. IsFold(G)
    <3> HIDE DEF IsFold
    <3> QED BY <2>7
  <2>9. Adds(g, G, S)
    BY <2>8, <2>6, Zenon DEF Adds
  <2> HIDE DEF G, g, S
  <2>10. G[S] \in Nat
    BY <2>1, <2>3, <2>9, SumsGrow
  <2> QED BY <2>2, <2>10
<1>4. center \in Int
  BY DEF center, SumsWellFormed
<1>5. \A t \in Samples, k \in Guesses : Ones(t.message, k) - center \in Int
  BY <1>2, <1>4
<1> QED
  BY <1>2, <1>3, <1>4, <1>5 DEF CpaWeights, KnownKeyWeights, Numbers

LEMMA ValuesAreNumbers ==
    ASSUME SumsWellFormed
    PROVE  /\ \A e \in Events : PowerAt(e) \in Numbers /\ SquareAt(e) \in Numbers
           /\ \A k \in Guesses, g \in 0..2 : InGroup(k, g) \in Numbers
           /\ \A k \in Guesses, g \in 0..2, e \in Events : PowerInGroup(k, g, e) \in Numbers
           /\ \A v : HasWeight(v) \in Numbers /\ PeakAtWeight(v) \in Numbers
           /\ \A t \in Samples : Peak(t.power) \in Int
<1>1. \A t \in Samples, e \in Events : t.power[e] \in Int /\ t.power[e] * t.power[e] \in Int
  BY Square DEF SumsWellFormed, Events
<1>2. ASSUME NEW t \in Samples PROVE Peak(t.power) \in Int
  <2> DEFINE S == { t.power[e] : e \in Events }
             T == S \union {0}
  <2>1. IsFiniteSet(Events)
    BY FS_Interval DEF SumsWellFormed, Events
  <2>2. IsFiniteSet(S)
    <3> DEFINE f == [e \in Events |-> t.power[e]]
    <3>1. f \in Surjection(Events, S)
      BY DEF Surjection
    <3> HIDE DEF f, S
    <3> QED BY <2>1, <3>1, FS_Surjection
  <2>3. T \subseteq Int /\ T # {}
    BY <1>1
  <2> HIDE DEF S
  <2>4. IsFiniteSet(T)
    BY <2>2, FS_AddElement
  <2> HIDE DEF T
  <2>5. Max(T) \in Int
    BY <2>3, <2>4, LargestOfFinite
  <2> QED BY <2>5 DEF Peak, S, T
<1> QED
  BY <1>1, <1>2 DEF PowerAt, SquareAt, InGroup, PowerInGroup, HasWeight, PeakAtWeight, Numbers

LEMMA WeightValues ==
    ASSUME SumsWellFormed, NEW guesses, NEW wt \in [guesses -> Numbers], NEW k \in guesses
    PROVE  /\ WeightOf(wt, k) \in Numbers /\ SquareOf(wt, k) \in Numbers
           /\ \A e \in Events : ProductAt(wt, k, e) \in Numbers
<1>1. \A t \in Samples : wt[k][t] \in Int
  BY DEF Numbers
<1>2. \A t \in Samples, e \in Events : t.power[e] \in Int
  BY DEF SumsWellFormed, Events
<1>3. \A a, b \in Int : a * b \in Int
  OBVIOUS
<1> QED
  BY <1>1, <1>2, <1>3 DEF WeightOf, SquareOf, ProductAt, Numbers

\* attack_cpa::process adds a trace to the sums, for any weights.
LEMMA AddSums ==
    ASSUME SumsWellFormed, NEW guesses, NEW wt \in [guesses -> Numbers],
           NEW a, NEW b, NEW t \in Samples, Grown(a, b, t)
    PROVE  Add(SumsOf(a, guesses, wt), t.power, [k \in guesses |-> wt[k][t]]) = SumsOf(b, guesses, wt)
<1> DEFINE s == SumsOf(a, guesses, wt)
           weight == [k \in guesses |-> wt[k][t]]
<1>1. Len(b) = Len(a) + 1 /\ \A f \in Numbers : SumOf(b, f) = SumOf(a, f) + f[t]
  BY DEF Grown
<1>2. \A e \in Events : /\ SumOf(b, PowerAt(e)) = s.t1[e] + t.power[e]
                         /\ SumOf(b, SquareAt(e)) = s.t2[e] + t.power[e] * t.power[e]
  BY <1>1, ValuesAreNumbers DEF SumsOf, PowerAt, SquareAt
<1>3. \A k \in guesses : /\ SumOf(b, WeightOf(wt, k)) = s.w1[k] + weight[k]
                          /\ SumOf(b, SquareOf(wt, k)) = s.w2[k] + weight[k] * weight[k]
  BY <1>1, WeightValues DEF SumsOf, WeightOf, SquareOf
<1>4. \A k \in guesses, e \in Events : SumOf(b, ProductAt(wt, k, e)) = s.tw[k][e] + t.power[e] * weight[k]
  BY <1>1, WeightValues DEF SumsOf, ProductAt
<1>5. s.n = Len(a) /\ DOMAIN s.w1 = guesses
  BY DEF SumsOf
<1> HIDE DEF s, weight
<1>6. Add(s, t.power, weight) = SumsOf(b, guesses, wt)
  BY <1>1, <1>2, <1>3, <1>4, <1>5 DEF Add, SumsOf
<1> QED
  BY <1>6 DEF s, weight

\* attack_cpa::coalesce adds the sums of two instances.
LEMMA CoalescedSums ==
    ASSUME SumsWellFormed, NEW wt \in [Guesses -> Numbers], NEW a, NEW b, NEW c, Joined(a, b, c)
    PROVE  Coalesced(SumsOf(a, Guesses, wt), SumsOf(b, Guesses, wt)) = SumsOf(c, Guesses, wt)
<1> DEFINE s == SumsOf(a, Guesses, wt)
           o == SumsOf(b, Guesses, wt)
<1>1. Len(c) = Len(a) + Len(b) /\ \A f \in Numbers : SumOf(c, f) = SumOf(a, f) + SumOf(b, f)
  BY DEF Joined
<1>2. \A e \in Events : /\ SumOf(c, PowerAt(e)) = s.t1[e] + o.t1[e]
                         /\ SumOf(c, SquareAt(e)) = s.t2[e] + o.t2[e]
  BY <1>1, ValuesAreNumbers DEF SumsOf
<1>3. \A k \in Guesses : /\ SumOf(c, WeightOf(wt, k)) = s.w1[k] + o.w1[k]
                          /\ SumOf(c, SquareOf(wt, k)) = s.w2[k] + o.w2[k]
  BY <1>1, WeightValues DEF SumsOf
<1>4. \A k \in Guesses, e \in Events : SumOf(c, ProductAt(wt, k, e)) = s.tw[k][e] + o.tw[k][e]
  BY <1>1, WeightValues DEF SumsOf
<1>5. s.n = Len(a) /\ o.n = Len(b)
  BY DEF SumsOf
<1> HIDE DEF s, o
<1>6. Coalesced(s, o) = SumsOf(c, Guesses, wt)
  BY <1>1, <1>2, <1>3, <1>4, <1>5 DEF Coalesced, SumsOf
<1> QED
  BY <1>6 DEF s, o

\* attack_dpa::process and coalesce.
LEMMA BinnedSums ==
    ASSUME SumsWellFormed, NEW a \in Seq(Samples), NEW b, NEW t \in Samples, Grown(a, b, t)
    PROVE  Binned(BinsOf(a), t) = BinsOf(b)
<1> DEFINE s == BinsOf(a)
           G(k) == Group(Ones(t.message, k))
<1>1. \A f \in Numbers : SumOf(b, f) = SumOf(a, f) + f[t]
  BY DEF Grown
<1>2. \A k \in Guesses, g \in 0..2 : SumOf(b, InGroup(k, g)) = s[k].binsz[g] + (IF G(k) = g THEN 1 ELSE 0)
  BY <1>1, ValuesAreNumbers DEF BinsOf, InGroup
<1>3. \A k \in Guesses, g \in 0..1, e \in Events :
        SumOf(b, PowerInGroup(k, g, e)) = s[k].diffs[g][e] + (IF G(k) = g THEN t.power[e] ELSE 0)
  <2> TAKE k \in Guesses, g \in 0..1, e \in Events
  <2>1. PowerInGroup(k, g, e) \in Numbers
    BY ValuesAreNumbers, g \in 0..2
  <2>2. SumOf(b, PowerInGroup(k, g, e)) = SumOf(a, PowerInGroup(k, g, e)) + PowerInGroup(k, g, e)[t]
    BY <1>1, <2>1
  <2>3. PowerInGroup(k, g, e)[t] = IF G(k) = g THEN t.power[e] ELSE 0
    BY DEF PowerInGroup
  <2>4. s[k].diffs[g][e] = SumOf(a, PowerInGroup(k, g, e))
    BY DEF BinsOf
  <2> QED BY <2>2, <2>3, <2>4
<1>4. ASSUME NEW k \in Guesses
      PROVE  Binned(s, t)[k] = BinsOf(b)[k]
  <2>1. G(k) \in 0..2
    BY DEF Group
  <2> DEFINE w == G(k)
  <2>2. /\ s[k].binsz \in [0..2 -> Int]
        /\ \A g \in 0..1, e \in Events : s[k].diffs[g][e] \in Int
    BY ValuesType, ValuesAreNumbers DEF BinsOf
  <2>3. \A g \in 0..1, e \in Events :
          SumOf(b, PowerInGroup(k, g, e)) = s[k].diffs[g][e] + (IF w = g THEN t.power[e] ELSE 0)
    BY <1>3
  <2>4. \A g \in 0..2 : SumOf(b, InGroup(k, g)) = s[k].binsz[g] + (IF w = g THEN 1 ELSE 0)
    BY <1>2
  <2>5. Binned(s, t)[k] = [binsz |-> [s[k].binsz EXCEPT ![w] = @ + 1],
                           diffs |-> [h \in 0..1 |-> IF h # w THEN s[k].diffs[h]
                                        ELSE [e \in Events |-> s[k].diffs[h][e] + t.power[e]]]]
    BY DEF Binned
  <2>6. DOMAIN s[k].binsz = 0..2 /\ \A g \in 0..1 : s[k].diffs[g] = [e \in Events |-> s[k].diffs[g][e]]
    BY DEF BinsOf
  <2>7. BinsOf(b)[k] = [binsz |-> [g \in 0..2 |-> SumOf(b, InGroup(k, g))],
                        diffs |-> [g \in 0..1 |-> [e \in Events |->
                                        SumOf(b, PowerInGroup(k, g, e))]]]
    BY DEF BinsOf
  <2> HIDE DEF w, s
  <2>8. [s[k].binsz EXCEPT ![w] = @ + 1] = [g \in 0..2 |-> SumOf(b, InGroup(k, g))]
    <3> DEFINE bins == s[k].binsz
               new == [bins EXCEPT ![w] = @ + 1]
    <3>1. bins \in [0..2 -> Int] /\ w \in 0..2
      BY <2>1, <2>2 DEF w
    <3> HIDE DEF bins
    <3>2. \A g \in 0..2 : new[g] = bins[g] + (IF w = g THEN 1 ELSE 0)
      BY <3>1
    <3>3. new = [g \in 0..2 |-> new[g]]
      BY <3>1
    <3> HIDE DEF new
    <3>4. new = [g \in 0..2 |-> SumOf(b, InGroup(k, g))]
      BY <2>4, <3>2, <3>3 DEF bins
    <3> QED BY <3>4 DEF new, bins
  <2>9. [h \in 0..1 |-> IF h # w THEN s[k].diffs[h]
                        ELSE [e \in Events |-> s[k].diffs[h][e] + t.power[e]]]
          = [g \in 0..1 |-> [e \in Events |-> SumOf(b, PowerInGroup(k, g, e))]]
    <3>1. ASSUME NEW h \in 0..1
          PROVE  (IF h # w THEN s[k].diffs[h] ELSE [e \in Events |-> s[k].diffs[h][e] + t.power[e]])
                    = [e \in Events |-> SumOf(b, PowerInGroup(k, h, e))]
      BY <2>2, <2>3, <2>6
    <3> QED BY <3>1
  <2> QED BY <2>5, <2>7, <2>8, <2>9
<1>5. Binned(s, t) = [k \in Guesses |-> Binned(s, t)[k]] /\ BinsOf(b) = [k \in Guesses |-> BinsOf(b)[k]]
  BY DEF Binned, BinsOf
<1> HIDE DEF s
<1>6. Binned(s, t) = BinsOf(b)
  BY <1>4, <1>5
<1> QED
  BY <1>6 DEF s

LEMMA CoalescedBins ==
    ASSUME SumsWellFormed, NEW a, NEW b, NEW c, Joined(a, b, c)
    PROVE  BinsCoalesced(BinsOf(a), BinsOf(b)) = BinsOf(c)
<1>1. \A f \in Numbers : SumOf(c, f) = SumOf(a, f) + SumOf(b, f)
  BY DEF Joined
<1>2. \A k \in Guesses, g \in 0..2 :
        SumOf(c, InGroup(k, g)) = SumOf(a, InGroup(k, g)) + SumOf(b, InGroup(k, g))
  BY <1>1, ValuesAreNumbers
<1>3. \A k \in Guesses, g \in 0..1, e \in Events :
        SumOf(c, PowerInGroup(k, g, e)) = SumOf(a, PowerInGroup(k, g, e)) + SumOf(b, PowerInGroup(k, g, e))
  BY <1>1, ValuesAreNumbers
<1> QED
  BY <1>2, <1>3 DEF BinsCoalesced, BinsOf

\* attack_relpow::process.
LEMMA ProfiledSums ==
    ASSUME SumsWellFormed, NEW a \in Seq(Samples), NEW b, NEW t \in Samples, Grown(a, b, t)
    PROVE  Profiled(StatesOf(a), t) = StatesOf(b)
<1> DEFINE s == StatesOf(a)
           v == KnownWeight(t.message)
           D == 0..(num_states - 1)
<1>1. \A f \in Numbers : SumOf(b, f) = SumOf(a, f) + f[t]
  BY DEF Grown
<1>2. \A u \in D : /\ SumOf(b, PeakAtWeight(u)) = s.pow[u] + (IF v = u THEN Peak(t.power) ELSE 0)
                    /\ SumOf(b, HasWeight(u)) = s.num[u] + (IF v = u THEN 1 ELSE 0)
  <2> TAKE u \in D
  <2>1. PeakAtWeight(u) \in Numbers /\ HasWeight(u) \in Numbers
    BY ValuesAreNumbers
  <2>2. /\ SumOf(b, PeakAtWeight(u)) = SumOf(a, PeakAtWeight(u)) + PeakAtWeight(u)[t]
        /\ SumOf(b, HasWeight(u)) = SumOf(a, HasWeight(u)) + HasWeight(u)[t]
    BY <1>1, <2>1
  <2>3. /\ PeakAtWeight(u)[t] = IF v = u THEN Peak(t.power) ELSE 0
        /\ HasWeight(u)[t] = IF v = u THEN 1 ELSE 0
    BY DEF PeakAtWeight, HasWeight
  <2>4. s.pow[u] = SumOf(a, PeakAtWeight(u)) /\ s.num[u] = SumOf(a, HasWeight(u))
    BY DEF StatesOf
  <2> QED BY <2>2, <2>3, <2>4
<1>3. s.pow \in [D -> Int] /\ s.num \in [D -> Int] /\ Peak(t.power) \in Int
  BY ValuesType, ValuesAreNumbers DEF StatesOf
<1>4. s = [pow |-> s.pow, num |-> s.num]
  BY DEF StatesOf
<1>5. StatesOf(b) = [pow |-> [u \in D |-> SumOf(b, PeakAtWeight(u))],
                     num |-> [u \in D |-> SumOf(b, HasWeight(u))]]
  BY DEF StatesOf
<1> DEFINE pow == s.pow
           num == s.num
           peak == Peak(t.power)
<1> HIDE DEF D, s, v, pow, num, peak
<1>6. CASE v \notin D
  <2>1. [u \in D |-> SumOf(b, PeakAtWeight(u))] = s.pow /\ [u \in D |-> SumOf(b, HasWeight(u))] = s.num
    <3>1. \A u \in D : SumOf(b, PeakAtWeight(u)) = pow[u] + 0 /\ SumOf(b, HasWeight(u)) = num[u] + 0
      BY <1>2, <1>6 DEF pow, num
    <3>2. \A u \in D : SumOf(b, PeakAtWeight(u)) = pow[u] /\ SumOf(b, HasWeight(u)) = num[u]
      BY <1>3, <3>1 DEF pow, num
    <3>3. pow = [u \in D |-> pow[u]] /\ num = [u \in D |-> num[u]]
      BY <1>3 DEF pow, num
    <3> QED BY <3>2, <3>3 DEF pow, num
  <2>2. Profiled(s, t) = s
    BY <1>3, <1>6 DEF Profiled, v
  <2> QED BY <1>4, <1>5, <2>1, <2>2 DEF s
<1>7. CASE v \in D
  <2>1. /\ [u \in D |-> SumOf(b, PeakAtWeight(u))] = [s.pow EXCEPT ![v] = @ + Peak(t.power)]
        /\ [u \in D |-> SumOf(b, HasWeight(u))] = [s.num EXCEPT ![v] = @ + 1]
    <3> DEFINE pow2 == [pow EXCEPT ![v] = @ + peak]
               num2 == [num EXCEPT ![v] = @ + 1]
    <3>1. pow \in [D -> Int] /\ num \in [D -> Int] /\ peak \in Int
      BY <1>3 DEF pow, num, peak
    <3>2. /\ \A u \in D : pow2[u] = pow[u] + (IF v = u THEN peak ELSE 0)
          /\ \A u \in D : num2[u] = num[u] + (IF v = u THEN 1 ELSE 0)
      BY <1>7, <3>1
    <3>3. pow2 = [u \in D |-> pow2[u]] /\ num2 = [u \in D |-> num2[u]]
      BY <3>1
    <3> HIDE DEF pow2, num2
    <3>4. pow2 = [u \in D |-> SumOf(b, PeakAtWeight(u))] /\ num2 = [u \in D |-> SumOf(b, HasWeight(u))]
      BY <1>2, <3>2, <3>3 DEF pow, num, peak
    <3> QED BY <3>4 DEF pow2, num2, pow, num, peak
  <2>2. Profiled(s, t) = [pow |-> [s.pow EXCEPT ![v] = @ + Peak(t.power)], num |-> [s.num EXCEPT ![v] = @ + 1]]
    BY <1>3, <1>7 DEF Profiled, v
  <2> QED BY <1>5, <2>1, <2>2 DEF s
<1> QED
  BY <1>6, <1>7

-----------------------------------------------------------------------------
(* What the reports make of the sums.                                         *)

\* The coefficients that there are: one without a variance is zero.
Coefficients == { c \in [cov : Int, tv : Nat, hv : Nat] : c.tv = 0 \/ c.hv = 0 => c.cov = 0 }

LEMMA TextbookCorrelation ==
    ASSUME SumsWellFormed, NEW a \in Seq(Samples), NEW guesses, NEW wt \in [guesses -> Numbers],
           NEW k \in guesses, NEW e \in Events
    PROVE  /\ IsCorrelation(Correlation(SumsOf(a, guesses, wt), k, e), Powers(a, e), Values(a, wt[k]))
           /\ Correlation(SumsOf(a, guesses, wt), k, e) \in Coefficients
<1> DEFINE n == Len(a)
           x == Powers(a, e)
           w == Values(a, wt[k])
           s == SumsOf(a, guesses, wt)
<1>1. n \in Nat /\ DOMAIN a = 1..n /\ \A i \in 1..n : a[i] \in Samples
  BY LenProperties
<1>2. x = Values(a, PowerAt(e)) /\ w = Values(a, WeightOf(wt, k))
  <2>1. \A i \in 1..n : PowerAt(e)[a[i]] = a[i].power[e] /\ WeightOf(wt, k)[a[i]] = wt[k][a[i]]
    BY <1>1 DEF PowerAt, WeightOf
  <2> QED BY <1>1, <2>1, Zenon DEF Powers, Values
<1>3. x \in [1..n -> Int] /\ w \in [1..n -> Int]
  BY <1>2, ValuesType, ValuesAreNumbers, WeightValues
<1>4. /\ [i \in 1..n |-> x[i] * x[i]] = Values(a, SquareAt(e))
      /\ [i \in 1..n |-> w[i] * w[i]] = Values(a, SquareOf(wt, k))
      /\ [i \in 1..n |-> x[i] * w[i]] = Values(a, ProductAt(wt, k, e))
  <2>1. \A i \in 1..n : /\ SquareAt(e)[a[i]] = x[i] * x[i]
                        /\ SquareOf(wt, k)[a[i]] = w[i] * w[i]
                        /\ ProductAt(wt, k, e)[a[i]] = x[i] * w[i]
    BY <1>1 DEF SquareAt, SquareOf, ProductAt, Powers, Values
  <2> QED BY <1>1, <2>1, Zenon DEF Values
<1>5. /\ s.n = n /\ s.t1[e] = SumSeq(x) /\ s.w1[k] = SumSeq(w)
      /\ s.t2[e] = SumSeq(Values(a, SquareAt(e))) /\ s.w2[k] = SumSeq(Values(a, SquareOf(wt, k)))
      /\ s.tw[k][e] = SumSeq(Values(a, ProductAt(wt, k, e)))
  <2> HIDE DEF x, w
  <2> QED BY <1>2 DEF SumsOf, SumOf
<1> HIDE DEF n, x, w, s
<1>6. /\ s.n * s.tw[k][e] - s.t1[e] * s.w1[k] = Covariance(x, w) /\ Covariance(x, w) \in Int
      /\ s.n * s.t2[e] - s.t1[e] * s.t1[e] = Covariance(x, x) /\ Covariance(x, x) \in Nat
      /\ s.n * s.w2[k] - s.w1[k] * s.w1[k] = Covariance(w, w) /\ Covariance(w, w) \in Nat
  <2>1. /\ n * SumSeq([i \in 1..n |-> x[i] * w[i]]) - SumSeq(x) * SumSeq(w) = Covariance(x, w)
        /\ Covariance(x, w) \in Int
    BY <1>1, <1>3, CovarianceIs
  <2>2. n * SumSeq([i \in 1..n |-> x[i] * x[i]]) - SumSeq(x) * SumSeq(x) = Covariance(x, x)
    BY <1>1, <1>3, CovarianceIs
  <2>3. n * SumSeq([i \in 1..n |-> w[i] * w[i]]) - SumSeq(w) * SumSeq(w) = Covariance(w, w)
    BY <1>1, <1>3, CovarianceIs
  <2>4. Covariance(x, x) \in Nat /\ Covariance(w, w) \in Nat
    BY <1>1, <1>3, VarianceNat
  <2> QED BY <1>4, <1>5, <2>1, <2>2, <2>3, <2>4
<1>7. s.t1[e] * s.w1[k] = s.w1[k] * s.t1[e]
  <2>1. s.t1[e] \in Int /\ s.w1[k] \in Int
    BY <1>2, <1>5, ValuesType, ValuesAreNumbers, WeightValues DEF SumOf
  <2> QED BY <2>1
<1>8. Correlation(s, k, e) = [cov |-> IF Covariance(x, x) = 0 \/ Covariance(w, w) = 0 THEN 0 ELSE Covariance(x, w),
                              tv |-> Covariance(x, x), hv |-> Covariance(w, w)]
  BY <1>6, <1>7 DEF Correlation
<1>9. IsCorrelation(Correlation(s, k, e), x, w) /\ Correlation(s, k, e) \in Coefficients
  BY <1>6, <1>8 DEF IsCorrelation, Coefficients
<1> QED
  BY <1>9 DEF s, x, w

\* Taking the center off the weights changes nothing.
LEMMA CenteredCorrelation ==
    ASSUME SumsWellFormed, NEW a \in Seq(Samples), NEW k \in Guesses, NEW e \in Events, NEW c,
           IsCorrelation(c, Powers(a, e), Values(a, CpaWeights[k]))
    PROVE  IsCorrelation(c, Powers(a, e), Weights(a, k))
<1> DEFINE n == Len(a)
           x == Powers(a, e)
           y == Weights(a, k)
           z == Values(a, CpaWeights[k])
<1>1. n \in Nat /\ DOMAIN a = 1..n /\ \A i \in 1..n : a[i] \in Samples
  BY LenProperties
<1>2. z \in [1..n -> Int]
  BY ValuesType, WeightsAreNumbers
<1>3. y \in [1..n -> Int] /\ \A i \in 1..n : z[i] = y[i] - center
  <2>1. \A i \in 1..n : Ones(a[i].message, k) \in Int /\ y[i] = Ones(a[i].message, k)
    BY <1>1, WeightsAreNumbers DEF Weights
  <2>2. \A i \in 1..n : z[i] = Ones(a[i].message, k) - center
    BY <1>1 DEF Values, CpaWeights
  <2>3. y \in [1..n -> Int]
    BY <1>1, <2>1 DEF Weights
  <2> QED BY <2>1, <2>2, <2>3
<1>4. x \in [1..n -> Int] /\ center \in Int
  BY <1>1, WeightsAreNumbers DEF Powers, SumsWellFormed, Events
<1> HIDE DEF n, x, y, z
<1>5. Covariance(x, z) = Covariance(x, y) /\ Covariance(z, z) = Covariance(y, y)
  BY <1>1, <1>2, <1>3, <1>4, CovarianceMoved
<1> QED
  BY <1>5 DEF IsCorrelation, x, y, z

-----------------------------------------------------------------------------
(* Interval maxima.                                                           *)

\* Fractions: a/b > c/d and c/d > e/f, the denominators multiplied out.
LEMMA Fractions ==
    ASSUME NEW a \in Int, NEW b \in Int, NEW c \in Int, NEW d \in Int, NEW e \in Int, NEW f \in Int,
           b > 0, d > 0, f >= 0, a * d > c * b, ~(e * d > c * f)
    PROVE  ~(e * b > a * f)
<1> SUFFICES ASSUME e * b > a * f PROVE FALSE
  OBVIOUS
<1>1. e * b * d > a * f * d
  BY SMTT(30)
<1>2. a * d * f >= c * b * f
  BY SMTT(30)
<1>3. e * d * b <= c * f * b
  BY SMTT(30)
<1> QED
  BY <1>1, <1>2, <1>3, SMTT(30)

\* What an interval maximum can be.
Maximal(m) == m \in Coefficients /\ m.cov >= 0 /\ m.tv > 0 /\ m.hv > 0

LEMMA Positive == ASSUME NEW a \in Int, NEW b \in Int, a > 0, b > 0 PROVE a * b \in Int /\ a * b > 0
  BY SMTT(30)

\* Larger, seen from an interval maximum.
Squares(c, d) == (c.cov * c.cov) * (d.tv * d.hv)
LEMMA LargerIs ==
    ASSUME NEW c \in Coefficients, NEW d, Maximal(d)
    PROVE  Larger(c, d) <=> c.cov > 0 /\ Squares(c, d) > Squares(d, c)
<1>1. /\ c.cov \in Int /\ c.tv \in Nat /\ c.hv \in Nat /\ d.cov \in Int /\ d.cov >= 0
      /\ d.tv \in Nat /\ d.hv \in Nat /\ d.tv > 0 /\ d.hv > 0
  BY DEF Coefficients, Maximal
<1>2. CASE c.cov <= 0
  BY <1>1, <1>2 DEF Larger
<1>3. CASE c.cov > 0 /\ d.cov = 0
  <2>1. c.cov * c.cov > 0 /\ d.tv * d.hv > 0 /\ c.cov * c.cov \in Int /\ d.tv * d.hv \in Int
    BY <1>1, <1>3, Positive
  <2>2. Squares(c, d) > 0
    BY <2>1, Positive DEF Squares
  <2>3. c.tv * c.hv \in Int
    BY <1>1
  <2>4. Squares(d, c) = 0
    BY <1>3, <2>3 DEF Squares
  <2>5. Larger(c, d)
    BY <1>1, <1>3 DEF Larger
  <2> QED BY <1>3, <2>2, <2>4, <2>5
<1>4. CASE c.cov > 0 /\ d.cov > 0
  <2>1. Larger(c, d) <=> c.cov * c.cov * d.tv * d.hv > d.cov * d.cov * c.tv * c.hv
    BY <1>1, <1>4 DEF Larger
  <2>2. \A p, q, r \in Int : p * q * r = p * (q * r)
    OBVIOUS
  <2>3. c.cov * c.cov \in Int /\ d.cov * d.cov \in Int
    BY <1>1
  <2>4. /\ c.cov * c.cov * d.tv * d.hv = Squares(c, d)
        /\ d.cov * d.cov * c.tv * c.hv = Squares(d, c)
    BY <1>1, <2>2, <2>3 DEF Squares
  <2> QED BY <1>4, <2>1, <2>4
<1> QED
  BY <1>1, <1>2, <1>3, <1>4

\* A larger coefficient is a maximum too and keeps what the old one was.
LEMMA LargerTakesOver ==
    ASSUME NEW c \in Coefficients, NEW d, Maximal(d), Larger(c, d)
    PROVE  /\ Maximal(c) /\ ~Larger(c, c)
           /\ \A x \in Coefficients : ~Larger(x, d) => ~Larger(x, c)
<1>1. c.cov > 0 /\ Squares(c, d) > Squares(d, c)
  BY LargerIs
<1>2. Maximal(c)
  BY <1>1 DEF Maximal, Coefficients
<1>3. ~(Squares(c, c) > Squares(c, c))
  <2>1. c.cov \in Int /\ c.tv \in Int /\ c.hv \in Int
    BY DEF Coefficients
  <2>2. \A p, q, r \in Int : (p * p) * (q * r) \in Int
    OBVIOUS
  <2>3. Squares(c, c) \in Int
    BY <2>1, <2>2 DEF Squares
  <2> QED BY <2>3
<1>4. ASSUME NEW x \in Coefficients, ~Larger(x, d) PROVE ~Larger(x, c)
  <2>1. CASE x.cov <= 0
    BY <1>2, <2>1, LargerIs DEF Coefficients
  <2>2. CASE x.cov > 0
    <3> DEFINE a == c.cov * c.cov
               b == c.tv * c.hv
               p == d.cov * d.cov
               q == d.tv * d.hv
               e == x.cov * x.cov
               f == x.tv * x.hv
    <3>1. /\ c.cov \in Int /\ c.tv \in Int /\ c.hv \in Int /\ c.tv > 0 /\ c.hv > 0
          /\ d.cov \in Int /\ d.tv \in Int /\ d.hv \in Int /\ d.tv > 0 /\ d.hv > 0
          /\ x.cov \in Int /\ x.tv \in Int /\ x.hv \in Int
      BY <1>2 DEF Maximal, Coefficients
    <3>2. x.tv > 0 /\ x.hv > 0
      BY <2>2 DEF Coefficients
    <3>3. a \in Int /\ p \in Int /\ e \in Int
      BY <3>1
    <3>4. b \in Int /\ b > 0 /\ q \in Int /\ q > 0 /\ f \in Int /\ f > 0
      BY <3>1, <3>2, Positive
    <3>5. a * q > p * b
      BY <1>1 DEF Squares
    <3>6. ~(e * q > p * f)
      BY <1>4, <2>2, LargerIs DEF Squares
    <3> HIDE DEF a, b, p, q, e, f
    <3>7. ~(e * b > a * f)
      BY <3>3, <3>4, <3>5, <3>6, Fractions
    <3>8. ~(Squares(x, c) > Squares(c, x))
      BY <3>7 DEF Squares, a, b, e, f
    <3> QED BY <1>2, <3>8, LargerIs
  <2> QED BY <2>1, <2>2 DEF Coefficients
<1> QED
  BY <1>2, <1>3, <1>4, LargerIs

\* The differences that there are, and the maxima.
Differences == { d \in [num : Int, den : Nat] : d.den = 0 => d.num = 0 }
Greatest(m) == m \in Differences /\ m.den > 0

LEMMA MoreTakesOver ==
    ASSUME NEW c \in Differences, NEW d, Greatest(d), MoreThan(c, d)
    PROVE  /\ Greatest(c) /\ ~MoreThan(c, c)
           /\ \A x \in Differences : ~MoreThan(x, d) => ~MoreThan(x, c)
<1>1. c.num \in Int /\ c.den \in Nat /\ d.num \in Int /\ d.den \in Nat /\ d.den > 0
  BY DEF Differences, Greatest
<1>2. c.num * d.den > d.num * c.den
  BY DEF MoreThan
<1>3. c.den # 0
  <2> SUFFICES ASSUME c.den = 0 PROVE FALSE
    OBVIOUS
  <2>1. c.num = 0
    BY DEF Differences
  <2> QED BY <1>1, <1>2, <2>1
<1>4. Greatest(c)
  BY <1>1, <1>3 DEF Greatest
<1>5. ~MoreThan(c, c)
  <2>1. c.num * c.den \in Int
    BY <1>1
  <2> QED BY <2>1 DEF MoreThan
<1>6. ASSUME NEW x \in Differences, ~MoreThan(x, d) PROVE ~MoreThan(x, c)
  <2>1. x.num \in Int /\ x.den \in Nat /\ ~(x.num * d.den > d.num * x.den)
    BY <1>6 DEF Differences, MoreThan
  <2>2. ~(x.num * c.den > c.num * x.den)
    <3> DEFINE a == c.num
               b == c.den
               p == d.num
               q == d.den
               e == x.num
               f == x.den
    <3>1. a \in Int /\ b \in Int /\ p \in Int /\ q \in Int /\ e \in Int /\ f \in Int
      BY <1>1, <2>1
    <3>2. b > 0 /\ q > 0 /\ f >= 0
      BY <1>1, <1>3, <2>1
    <3>3. a * q > p * b /\ ~(e * q > p * f)
      BY <1>2, <2>1
    <3> HIDE DEF a, b, p, q, e, f
    <3>4. ~(e * b > a * f)
      BY <3>1, <3>2, <3>3, Fractions
    <3> QED BY <3>4 DEF a, b, e, f
  <2> QED BY <2>2 DEF MoreThan
<1> QED
  BY <1>4, <1>5, <1>6

LEMMA LargestCoefficientTurns ==
    ASSUME NEW n \in Nat, NEW v \in [1..n -> Coefficients]
    PROVE  \E A \in [0..n -> Coefficients] :
              /\ A[0] = Zero /\ FoldLeft(MaxCorrelation, Zero, v) = A[n]
              /\ \A k \in 1..n : A[k] = MaxCorrelation(A[k - 1], v[k])
<1> DEFINE Op(acc, a) == MaxCorrelation(acc, a)
           V == Coefficients
           h == [p \in V \X (1..n) |-> Op(p[1], v[p[2]])]
           IsFold(F) == F = [s \in SUBSET (1..n) |->
                               IF s = {} THEN Zero ELSE Op(F[s \ {Max(s)}], v[Max(s)])]
           G == CHOOSE F : IsFold(F)
<1>1. ASSUME NEW acc \in V, NEW k \in 1..n
      PROVE  Op(acc, v[k]) \in V /\ h[<<acc, k>>] = Op(acc, v[k])
  BY DEF MaxCorrelation
<1>2. h \in [V \X (1..n) -> V] /\ Zero \in V
  <2>1. Zero \in V
    BY DEF Zero, Coefficients
  <2>2. h \in [V \X (1..n) -> V]
    BY <1>1
  <2> QED BY <2>1, <2>2
<1>3. FoldLeft(MaxCorrelation, Zero, v) = G[1..n]
  BY DEF FoldLeft, MapThenFoldSet
<1> HIDE DEF h, Op, V
<1>4. PICK F : Folds(F, n, V, Zero, h)
  BY <1>2, FoldExists
<1>5. IsFold(F)
  BY <1>1, <1>4 DEF Folds
<1>6. IsFold(G)
  <2> HIDE DEF IsFold
  <2> QED BY <1>5
<1> DEFINE A == [k \in 0..n |-> G[1..k]]
<1>7. ASSUME NEW k \in 1..n PROVE A[k] = Op(A[k - 1], v[k])
  <2>1. /\ Max(1..k) = k /\ (1..k) \ {Max(1..k)} = 1..(k - 1)
        /\ 1..k # {} /\ 1..k \in SUBSET (1..n)
    BY Prefix
  <2>2. G[1..k] = Op(G[1..(k - 1)], v[k])
    <3> HIDE DEF G
    <3> QED BY <1>6, <2>1
  <2> HIDE DEF G
  <2> QED BY <2>2
<1>8. A[0] = Zero /\ A[n] = G[1..n] /\ DOMAIN A = 0..n
  <2> HIDE DEF G
  <2>1. 1..0 = {} /\ {} \in SUBSET (1..n) /\ 0 \in 0..n /\ n \in 0..n
    OBVIOUS
  <2>2. G[{}] = Zero
    BY <1>6, <2>1
  <2> QED BY <2>1, <2>2
<1> HIDE DEF A, G, IsFold
<1>9. \A k \in Nat : k <= n => A[k] \in V
  <2> DEFINE Ok == { k \in Nat : k <= n => A[k] \in V }
  <2>1. 0 \in Ok
    BY <1>2, <1>8
  <2>2. ASSUME NEW k \in Nat, k \in Ok PROVE k + 1 \in Ok
    <3> SUFFICES ASSUME k + 1 <= n PROVE A[k + 1] \in V
      OBVIOUS
    <3>1. k + 1 \in 1..n /\ (k + 1) - 1 = k /\ A[k] \in V
      BY <2>2
    <3> QED BY <1>1, <1>7, <3>1
  <2> HIDE DEF Ok
  <2>3. Nat \subseteq Ok
    BY <2>1, <2>2, Induction
  <2> QED BY <2>3 DEF Ok
<1>10. A \in [0..n -> V]
  <2>1. A = [k \in 0..n |-> A[k]]
    BY DEF A
  <2> QED BY <1>9, <2>1
<1> QED
  BY <1>3, <1>7, <1>8, <1>10 DEF Op, V

\* record_interval of cpa: the maximum is one of the coefficients, or zero, and
\* none of them is larger.
LEMMA LargestCoefficientIs ==
    ASSUME NEW n \in Nat, NEW v \in [1..n -> Coefficients]
    PROVE  LET m == FoldLeft(MaxCorrelation, Zero, v) IN
           /\ Maximal(m) /\ (m = Zero \/ \E i \in 1..n : m = v[i])
           /\ \A i \in 1..n : ~Larger(v[i], m)
<1>1. PICK A \in [0..n -> Coefficients] :
              /\ A[0] = Zero /\ FoldLeft(MaxCorrelation, Zero, v) = A[n]
              /\ \A k \in 1..n : A[k] = MaxCorrelation(A[k - 1], v[k])
  BY LargestCoefficientTurns
<1> DEFINE Good(k) == /\ Maximal(A[k]) /\ (A[k] = Zero \/ \E i \in 1..k : A[k] = v[i])
                      /\ \A i \in 1..k : ~Larger(v[i], A[k])
           Ok == { k \in Nat : k <= n => Good(k) }
<1>2. 0 \in Ok
  BY <1>1 DEF Maximal, Zero, Coefficients
<1>3. ASSUME NEW k \in Nat, k \in Ok PROVE k + 1 \in Ok
  <2> SUFFICES ASSUME k + 1 <= n PROVE Good(k + 1)
    OBVIOUS
  <2> DEFINE j == k + 1
  <2>1. j \in 1..n /\ j - 1 = k /\ Good(k) /\ \A i \in 1..j : i = j \/ i \in 1..k
    BY <1>3
  <2>2. A[j] = MaxCorrelation(A[k], v[j]) /\ v[j] \in Coefficients /\ \A i \in 1..j : v[i] \in Coefficients
    BY <1>1, <2>1
  <2>3. 1..k \subseteq 1..j /\ j \in 1..j
    OBVIOUS
  <2> HIDE DEF j
  <2>4. CASE Larger(v[j], A[k])
    <3>1. A[j] = v[j]
      BY <2>2, <2>4 DEF MaxCorrelation
    <3>2. /\ Maximal(v[j]) /\ ~Larger(v[j], v[j])
          /\ \A x \in Coefficients : ~Larger(x, A[k]) => ~Larger(x, v[j])
      BY <2>1, <2>2, <2>4, LargerTakesOver
    <3>3. \A i \in 1..j : ~Larger(v[i], v[j])
      BY <2>1, <2>2, <3>2
    <3> QED BY <2>3, <3>1, <3>2, <3>3 DEF j
  <2>5. CASE ~Larger(v[j], A[k])
    <3>1. A[j] = A[k]
      BY <2>2, <2>5 DEF MaxCorrelation
    <3>2. \A i \in 1..j : ~Larger(v[i], A[k])
      BY <2>1, <2>5
    <3> QED BY <2>1, <2>3, <3>1, <3>2 DEF j
  <2> QED BY <2>4, <2>5
<1> HIDE DEF Ok
<1>4. n \in Ok
  BY <1>2, <1>3, Induction
<1>5. Good(n)
  BY <1>4 DEF Ok
<1> QED
  BY <1>1, <1>5

LEMMA GreatestDifferenceTurns ==
    ASSUME NEW n \in Nat, NEW v \in [1..n -> Differences]
    PROVE  \E A \in [0..n -> Differences] :
              /\ A[0] = NoDifference /\ FoldLeft(MaxDifference, NoDifference, v) = A[n]
              /\ \A k \in 1..n : A[k] = MaxDifference(A[k - 1], v[k])
<1> DEFINE Op(acc, a) == MaxDifference(acc, a)
           V == Differences
           h == [p \in V \X (1..n) |-> Op(p[1], v[p[2]])]
           IsFold(F) == F = [s \in SUBSET (1..n) |->
                               IF s = {} THEN NoDifference ELSE Op(F[s \ {Max(s)}], v[Max(s)])]
           G == CHOOSE F : IsFold(F)
<1>1. ASSUME NEW acc \in V, NEW k \in 1..n
      PROVE  Op(acc, v[k]) \in V /\ h[<<acc, k>>] = Op(acc, v[k])
  BY DEF MaxDifference
<1>2. h \in [V \X (1..n) -> V] /\ NoDifference \in V
  <2>1. NoDifference \in V
    BY DEF NoDifference, Differences
  <2>2. h \in [V \X (1..n) -> V]
    BY <1>1
  <2> QED BY <2>1, <2>2
<1>3. FoldLeft(MaxDifference, NoDifference, v) = G[1..n]
  BY DEF FoldLeft, MapThenFoldSet
<1> HIDE DEF h, Op, V
<1>4. PICK F : Folds(F, n, V, NoDifference, h)
  BY <1>2, FoldExists
<1>5. IsFold(F)
  BY <1>1, <1>4 DEF Folds
<1>6. IsFold(G)
  <2> HIDE DEF IsFold
  <2> QED BY <1>5
<1> DEFINE A == [k \in 0..n |-> G[1..k]]
<1>7. ASSUME NEW k \in 1..n PROVE A[k] = Op(A[k - 1], v[k])
  <2>1. /\ Max(1..k) = k /\ (1..k) \ {Max(1..k)} = 1..(k - 1)
        /\ 1..k # {} /\ 1..k \in SUBSET (1..n)
    BY Prefix
  <2>2. G[1..k] = Op(G[1..(k - 1)], v[k])
    <3> HIDE DEF G
    <3> QED BY <1>6, <2>1
  <2> HIDE DEF G
  <2> QED BY <2>2
<1>8. A[0] = NoDifference /\ A[n] = G[1..n] /\ DOMAIN A = 0..n
  <2> HIDE DEF G
  <2>1. 1..0 = {} /\ {} \in SUBSET (1..n) /\ 0 \in 0..n /\ n \in 0..n
    OBVIOUS
  <2>2. G[{}] = NoDifference
    BY <1>6, <2>1
  <2> QED BY <2>1, <2>2
<1> HIDE DEF A, G, IsFold
<1>9. \A k \in Nat : k <= n => A[k] \in V
  <2> DEFINE Ok == { k \in Nat : k <= n => A[k] \in V }
  <2>1. 0 \in Ok
    BY <1>2, <1>8
  <2>2. ASSUME NEW k \in Nat, k \in Ok PROVE k + 1 \in Ok
    <3> SUFFICES ASSUME k + 1 <= n PROVE A[k + 1] \in V
      OBVIOUS
    <3>1. k + 1 \in 1..n /\ (k + 1) - 1 = k /\ A[k] \in V
      BY <2>2
    <3> QED BY <1>1, <1>7, <3>1
  <2> HIDE DEF Ok
  <2>3. Nat \subseteq Ok
    BY <2>1, <2>2, Induction
  <2> QED BY <2>3 DEF Ok
<1>10. A \in [0..n -> V]
  <2>1. A = [k \in 0..n |-> A[k]]
    BY DEF A
  <2> QED BY <1>9, <2>1
<1> QED
  BY <1>3, <1>7, <1>8, <1>10 DEF Op, V

\* The same for dpa.
LEMMA GreatestDifferenceIs ==
    ASSUME NEW n \in Nat, NEW v \in [1..n -> Differences]
    PROVE  LET m == FoldLeft(MaxDifference, NoDifference, v) IN
           /\ Greatest(m) /\ (m = NoDifference \/ \E i \in 1..n : m = v[i])
           /\ \A i \in 1..n : ~MoreThan(v[i], m)
<1>1. PICK A \in [0..n -> Differences] :
              /\ A[0] = NoDifference /\ FoldLeft(MaxDifference, NoDifference, v) = A[n]
              /\ \A k \in 1..n : A[k] = MaxDifference(A[k - 1], v[k])
  BY GreatestDifferenceTurns
<1> DEFINE Good(k) == /\ Greatest(A[k]) /\ (A[k] = NoDifference \/ \E i \in 1..k : A[k] = v[i])
                      /\ \A i \in 1..k : ~MoreThan(v[i], A[k])
           Ok == { k \in Nat : k <= n => Good(k) }
<1>2. 0 \in Ok
  BY <1>1 DEF Greatest, NoDifference, Differences
<1>3. ASSUME NEW k \in Nat, k \in Ok PROVE k + 1 \in Ok
  <2> SUFFICES ASSUME k + 1 <= n PROVE Good(k + 1)
    OBVIOUS
  <2> DEFINE j == k + 1
  <2>1. j \in 1..n /\ j - 1 = k /\ Good(k) /\ \A i \in 1..j : i = j \/ i \in 1..k
    BY <1>3
  <2>2. A[j] = MaxDifference(A[k], v[j]) /\ v[j] \in Differences /\ \A i \in 1..j : v[i] \in Differences
    BY <1>1, <2>1
  <2>3. 1..k \subseteq 1..j /\ j \in 1..j
    OBVIOUS
  <2> HIDE DEF j
  <2>4. CASE MoreThan(v[j], A[k])
    <3>1. A[j] = v[j]
      BY <2>2, <2>4 DEF MaxDifference
    <3>2. /\ Greatest(v[j]) /\ ~MoreThan(v[j], v[j])
          /\ \A x \in Differences : ~MoreThan(x, A[k]) => ~MoreThan(x, v[j])
      BY <2>1, <2>2, <2>4, MoreTakesOver
    <3>3. \A i \in 1..j : ~MoreThan(v[i], v[j])
      BY <2>1, <2>2, <3>2
    <3> QED BY <2>3, <3>1, <3>2, <3>3 DEF j
  <2>5. CASE ~MoreThan(v[j], A[k])
    <3>1. A[j] = A[k]
      BY <2>2, <2>5 DEF MaxDifference
    <3>2. \A i \in 1..j : ~MoreThan(v[i], A[k])
      BY <2>1, <2>5
    <3> QED BY <2>1, <2>3, <3>1, <3>2 DEF j
  <2> QED BY <2>4, <2>5
<1> HIDE DEF Ok
<1>4. n \in Ok
  BY <1>2, <1>3, Induction
<1>5. Good(n)
  BY <1>4 DEF Ok
<1> QED
  BY <1>1, <1>5

-----------------------------------------------------------------------------
(* The two groups of dpa and the groups of relpow.                            *)

\* A count, and the sum over what was counted when that is nothing.
LEMMA CountIs ==
    ASSUME NEW n \in Nat, NEW c \in [1..n -> Int], \A i \in 1..n : c[i] \in {0, 1},
           NEW p \in [1..n -> Int], \A i \in 1..n : c[i] = 0 => p[i] = 0
    PROVE  SumSeq(c) \in 0..n /\ (SumSeq(c) = 0 => SumSeq(p) = 0)
<1>1. PICK A \in [0..n -> Int] : /\ A[0] = 0 /\ SumSeq(c) = A[n]
                                 /\ \A k \in 1..n : A[k] = A[k - 1] + c[k]
  BY SumTurns
<1>2. PICK B \in [0..n -> Int] : /\ B[0] = 0 /\ SumSeq(p) = B[n]
                                 /\ \A k \in 1..n : B[k] = B[k - 1] + p[k]
  BY SumTurns
<1> DEFINE Ok == { k \in Nat : k <= n => A[k] \in 0..k /\ (A[k] = 0 => B[k] = 0) }
<1>3. 0 \in Ok
  BY <1>1, <1>2
<1>4. ASSUME NEW k \in Nat, k \in Ok PROVE k + 1 \in Ok
  <2> SUFFICES ASSUME k + 1 <= n PROVE A[k + 1] \in 0..(k + 1) /\ (A[k + 1] = 0 => B[k + 1] = 0)
    OBVIOUS
  <2>1. k + 1 \in 1..n /\ (k + 1) - 1 = k /\ A[k] \in 0..k /\ (A[k] = 0 => B[k] = 0)
    BY <1>4
  <2>2. A[k + 1] = A[k] + c[k + 1] /\ B[k + 1] = B[k] + p[k + 1]
    BY <1>1, <1>2, <2>1
  <2>3. /\ c[k + 1] \in {0, 1} /\ (c[k + 1] = 0 => p[k + 1] = 0)
        /\ B[k] \in Int
    BY <2>1
  <2>4. CASE c[k + 1] = 0
    <3>1. A[k + 1] = A[k] /\ B[k + 1] = B[k]
      BY <2>1, <2>2, <2>3, <2>4
    <3> QED BY <2>1, <3>1
  <2>5. CASE c[k + 1] = 1
    <3>1. A[k + 1] = A[k] + 1
      BY <2>2, <2>5
    <3> QED BY <2>1, <3>1
  <2> QED BY <2>3, <2>4, <2>5
<1> HIDE DEF Ok
<1>5. n \in Ok
  BY <1>3, <1>4, Induction
<1> QED
  BY <1>1, <1>2, <1>5 DEF Ok

\* What has been counted of the traces.
LEMMA CountedTraces ==
    ASSUME NEW a \in Seq(Samples), NEW c \in Numbers, \A t \in Samples : c[t] \in {0, 1},
           NEW p \in Numbers, \A t \in Samples : c[t] = 0 => p[t] = 0
    PROVE  SumOf(a, c) \in 0..Len(a) /\ (SumOf(a, c) = 0 => SumOf(a, p) = 0)
<1> DEFINE n == Len(a)
<1>1. n \in Nat /\ DOMAIN a = 1..n /\ \A i \in 1..n : a[i] \in Samples
  BY LenProperties
<1>2. Values(a, c) \in [1..n -> Int] /\ Values(a, p) \in [1..n -> Int]
  BY ValuesType
<1>3. \A i \in 1..n : /\ Values(a, c)[i] \in {0, 1}
                      /\ Values(a, c)[i] = 0 => Values(a, p)[i] = 0
  BY <1>1 DEF Values
<1> HIDE DEF n
<1>4. /\ SumSeq(Values(a, c)) \in 0..n
      /\ SumSeq(Values(a, c)) = 0 => SumSeq(Values(a, p)) = 0
  BY <1>1, <1>2, <1>3, CountIs
<1> QED
  BY <1>4 DEF SumOf, n

\* The threshold that setup accepts keeps the groups apart.
LEMMA Groups ==
    ASSUME SumsWellFormed, NEW w \in Nat
    PROVE  Group(w) \in 0..2 /\ (Group(w) = 0 <=> w <= m_min) /\ (Group(w) = 1 <=> w >= m_max)
<1>1. m_min \in Int /\ m_max \in Int /\ m_min < m_max
  BY DEF SumsWellFormed, m_min, m_max
<1> QED
  BY <1>1 DEF Group

LEMMA BinTypes ==
    ASSUME SumsWellFormed, NEW a \in Seq(Samples), NEW k \in Guesses, NEW g \in 0..2
    PROVE  /\ SumOf(a, InGroup(k, g)) \in 0..Len(a)
           /\ \A e \in Events : SumOf(a, InGroup(k, g)) = 0 => SumOf(a, PowerInGroup(k, g, e)) = 0
<1>1. InGroup(k, g) \in Numbers /\ \A t \in Samples : InGroup(k, g)[t] \in {0, 1}
  BY ValuesAreNumbers DEF InGroup
<1>2. SumOf(a, InGroup(k, g)) \in 0..Len(a)
  BY <1>1, CountedTraces
<1>3. ASSUME NEW e \in Events, SumOf(a, InGroup(k, g)) = 0 PROVE SumOf(a, PowerInGroup(k, g, e)) = 0
  <2>1. /\ PowerInGroup(k, g, e) \in Numbers
        /\ \A t \in Samples : InGroup(k, g)[t] = 0 => PowerInGroup(k, g, e)[t] = 0
    BY ValuesAreNumbers DEF InGroup, PowerInGroup
  <2> QED BY <1>1, <1>3, <2>1, CountedTraces
<1> QED
  BY <1>2, <1>3

\* The places of the traces of low and of high weight.
Low(a, k) == { i \in DOMAIN Weights(a, k) : Weights(a, k)[i] <= m_min }
High(a, k) == { i \in DOMAIN Weights(a, k) : Weights(a, k)[i] >= m_max }

LEMMA TextbookDifference ==
    ASSUME SumsWellFormed, NEW a \in Seq(Samples), NEW k \in Guesses, NEW e \in Events
    PROVE  LET d == Difference(BinsOf(a), k, e)
               x == Powers(a, e) IN
           /\ d.den = Count(x, High(a, k)) * Count(x, Low(a, k))
           /\ d.num = SumOver(x, High(a, k)) * Count(x, Low(a, k)) - SumOver(x, Low(a, k)) * Count(x, High(a, k))
           /\ d \in Differences
<1> DEFINE n == Len(a)
           x == Powers(a, e)
           d == Difference(BinsOf(a), k, e)
           lo == SumOf(a, InGroup(k, 0))
           hi == SumOf(a, InGroup(k, 1))
           plo == SumOf(a, PowerInGroup(k, 0, e))
           phi == SumOf(a, PowerInGroup(k, 1, e))
<1>1. n \in Nat /\ DOMAIN a = 1..n /\ \A i \in 1..n : a[i] \in Samples
  BY LenProperties
<1>2. DOMAIN x = 1..n /\ \A i \in 1..n : x[i] = a[i].power[e]
  BY <1>1 DEF Powers
<1>3. \A i \in 1..n : /\ i \in Low(a, k) <=> Group(Ones(a[i].message, k)) = 0
                      /\ i \in High(a, k) <=> Group(Ones(a[i].message, k)) = 1
  BY <1>1, WeightsAreNumbers, Groups DEF Low, High, Weights
<1>4. Count(x, Low(a, k)) = lo /\ Count(x, High(a, k)) = hi
  <2>1. \A i \in 1..n : /\ InGroup(k, 0)[a[i]] = IF i \in Low(a, k) THEN 1 ELSE 0
                        /\ InGroup(k, 1)[a[i]] = IF i \in High(a, k) THEN 1 ELSE 0
    BY <1>1, <1>3 DEF InGroup
  <2>2. /\ Values(a, InGroup(k, 0)) = [i \in 1..n |-> IF i \in Low(a, k) THEN 1 ELSE 0]
        /\ Values(a, InGroup(k, 1)) = [i \in 1..n |-> IF i \in High(a, k) THEN 1 ELSE 0]
    BY <1>1, <2>1, Zenon DEF Values
  <2> HIDE DEF x
  <2> QED BY <1>2, <2>2 DEF Count, SumOf
<1>5. SumOver(x, Low(a, k)) = plo /\ SumOver(x, High(a, k)) = phi
  <2>1. \A i \in 1..n : /\ PowerInGroup(k, 0, e)[a[i]] = IF i \in Low(a, k) THEN x[i] ELSE 0
                        /\ PowerInGroup(k, 1, e)[a[i]] = IF i \in High(a, k) THEN x[i] ELSE 0
    BY <1>1, <1>2, <1>3 DEF PowerInGroup
  <2> HIDE DEF x
  <2>2. /\ Values(a, PowerInGroup(k, 0, e)) = [i \in 1..n |-> IF i \in Low(a, k) THEN x[i] ELSE 0]
        /\ Values(a, PowerInGroup(k, 1, e)) = [i \in 1..n |-> IF i \in High(a, k) THEN x[i] ELSE 0]
    BY <1>1, <2>1, Zenon DEF Values
  <2> QED BY <1>2, <2>2 DEF SumOver, SumOf
<1>6. d = [num |-> phi * lo - plo * hi, den |-> lo * hi]
  BY DEF Difference, BinsOf
<1>7. /\ lo \in Nat /\ hi \in Nat /\ plo \in Int /\ phi \in Int
      /\ lo = 0 => plo = 0
      /\ hi = 0 => phi = 0
  <2>1. lo \in 0..n /\ hi \in 0..n /\ (lo = 0 => plo = 0) /\ (hi = 0 => phi = 0)
    BY BinTypes
  <2>2. plo \in Int /\ phi \in Int
    BY ValuesType, ValuesAreNumbers
  <2> QED BY <1>1, <2>1, <2>2
<1> HIDE DEF x, d, lo, hi, plo, phi
<1>8. lo * hi \in Nat /\ phi * lo - plo * hi \in Int /\ lo * hi = hi * lo
  BY <1>7
<1>9. lo * hi = 0 => phi * lo - plo * hi = 0
  <2> SUFFICES ASSUME lo * hi = 0 PROVE phi * lo - plo * hi = 0
    OBVIOUS
  <2>1. lo = 0 \/ hi = 0
    BY <1>7, Positive
  <2> QED BY <1>7, <2>1
<1>10. d \in Differences
  BY <1>6, <1>8, <1>9 DEF Differences
<1> QED
  BY <1>4, <1>5, <1>6, <1>8, <1>10 DEF d, x

LEMMA TextbookStates ==
    ASSUME SumsWellFormed, NEW a \in Seq(Samples), NEW v
    PROVE  LET has == { i \in DOMAIN a : KnownWeight(a[i].message) = v }
               peaks == [i \in DOMAIN a |-> Peak(a[i].power)] IN
           /\ SumOf(a, HasWeight(v)) = Count(peaks, has) /\ SumOf(a, PeakAtWeight(v)) = SumOver(peaks, has)
           /\ SumOf(a, HasWeight(v)) \in 0..Len(a)
<1> DEFINE has == { i \in DOMAIN a : KnownWeight(a[i].message) = v }
           peaks == [i \in DOMAIN a |-> Peak(a[i].power)]
<1>1. \A i \in DOMAIN a : a[i] \in Samples
  BY LenProperties
<1>2. \A i \in DOMAIN a : /\ HasWeight(v)[a[i]] = IF i \in has THEN 1 ELSE 0
                          /\ PeakAtWeight(v)[a[i]] = IF i \in has THEN peaks[i] ELSE 0
  BY <1>1 DEF HasWeight, PeakAtWeight
<1>3. DOMAIN peaks = DOMAIN a
  OBVIOUS
<1>4. HasWeight(v) \in Numbers /\ PeakAtWeight(v) \in Numbers
  BY ValuesAreNumbers
<1>5. SumOf(a, HasWeight(v)) \in 0..Len(a)
  <2> DEFINE c == HasWeight(v)
             p == PeakAtWeight(v)
  <2>1. \A t \in Samples : c[t] \in {0, 1} /\ (c[t] = 0 => p[t] = 0)
    BY DEF HasWeight, PeakAtWeight
  <2> HIDE DEF c, p, has, peaks
  <2>2. c \in Numbers /\ p \in Numbers
    BY <1>4 DEF c, p
  <2>3. SumOf(a, c) \in 0..Len(a)
    BY <2>1, <2>2, CountedTraces
  <2> QED BY <2>3 DEF c
<1> HIDE DEF has, peaks
<1>6. /\ Values(a, HasWeight(v)) = [i \in DOMAIN peaks |-> IF i \in has THEN 1 ELSE 0]
      /\ Values(a, PeakAtWeight(v)) = [i \in DOMAIN peaks |-> IF i \in has THEN peaks[i] ELSE 0]
  BY <1>2, <1>3, Zenon DEF Values
<1>7. SumOf(a, HasWeight(v)) = Count(peaks, has) /\ SumOf(a, PeakAtWeight(v)) = SumOver(peaks, has)
  BY <1>6 DEF SumOf, Count, SumOver
<1> QED
  BY <1>5, <1>7 DEF has, peaks

-----------------------------------------------------------------------------
(* The inductive invariant: every instance holds the sums over the traces it  *)
(* stands for, whichever way the traces came to it.                           *)

Stands(i) == IF i = 0 THEN merged ELSE processed[i]
AllTraces == processed[1] \o processed[2]
Rows == [cpa : [Guesses -> Coefficients], dpa : [Guesses -> Differences]]

SumsInv ==
    /\ processed \in [Workers -> Seq(Samples)] /\ merged \in Seq(Samples)
    /\ Len(processed[1]) + Len(processed[2]) <= MaxTraces /\ Len(merged) <= MaxTraces
    /\ cpa = [i \in Instances |-> SumsOf(Stands(i), Guesses, CpaWeights)]
    /\ dpa = [i \in Instances |-> BinsOf(Stands(i))]
    /\ pscc = SumsOf(AllTraces, {0}, KnownKeyWeights)
    /\ relpow = StatesOf(AllTraces)
    /\ maxes \in Seq(Rows) /\ Len(maxes) <= MaxReports
    /\ maxes # <<>> => maxes[Len(maxes)] = [cpa |-> CpaMaxes(cpa[0]), dpa |-> DpaMaxes(dpa[0])]

LEMMA InitSums == SumsWellFormed /\ Init => SumsInv
<1> SUFFICES ASSUME SumsWellFormed, Init PROVE SumsInv
  OBVIOUS
<1>1. processed = [w \in Workers |-> <<>>] /\ merged = <<>> /\ maxes = <<>>
  BY DEF Init
<1>2. <<>> \in Seq(Samples) /\ Len(<<>>) = 0 /\ <<>> \o <<>> = <<>> /\ <<>> \in Seq(Rows)
  BY EmptySeq, ConcatEmptySeq
<1>3. \A f \in Numbers : SumOf(<<>>, f) = 0
  BY <1>2, ValuesType
<1>4. ASSUME NEW guesses, NEW wt \in [guesses -> Numbers]
      PROVE  SumsOf(<<>>, guesses, wt) = NoSums(guesses)
  <2>1. /\ \A e \in Events : SumOf(<<>>, PowerAt(e)) = 0 /\ SumOf(<<>>, SquareAt(e)) = 0
        /\ \A k \in guesses : SumOf(<<>>, WeightOf(wt, k)) = 0 /\ SumOf(<<>>, SquareOf(wt, k)) = 0
        /\ \A k \in guesses, e \in Events : SumOf(<<>>, ProductAt(wt, k, e)) = 0
    BY <1>3, <1>4, ValuesAreNumbers, WeightValues
  <2> QED BY <1>2, <2>1 DEF SumsOf, NoSums
<1>5. BinsOf(<<>>) = NoBins
  <2>1. /\ \A k \in Guesses, g \in 0..2 : SumOf(<<>>, InGroup(k, g)) = 0
        /\ \A k \in Guesses, g \in 0..1, e \in Events : SumOf(<<>>, PowerInGroup(k, g, e)) = 0
    BY <1>3, ValuesAreNumbers
  <2> QED BY <2>1 DEF BinsOf, NoBins
<1>6. StatesOf(<<>>) = NoStates
  <2>1. \A v : SumOf(<<>>, HasWeight(v)) = 0 /\ SumOf(<<>>, PeakAtWeight(v)) = 0
    BY <1>3, ValuesAreNumbers
  <2> QED BY <2>1 DEF StatesOf, NoStates
<1>7. \A i \in Instances : Stands(i) = <<>>
  BY <1>1 DEF Stands, Instances, Workers
<1>8. AllTraces = <<>>
  BY <1>1, <1>2 DEF AllTraces, Workers
<1>9. cpa = [i \in Instances |-> SumsOf(Stands(i), Guesses, CpaWeights)]
  BY <1>4, <1>7, WeightsAreNumbers DEF Init
<1>10. dpa = [i \in Instances |-> BinsOf(Stands(i))]
  BY <1>5, <1>7 DEF Init
<1>11. pscc = SumsOf(AllTraces, {0}, KnownKeyWeights) /\ relpow = StatesOf(AllTraces)
  BY <1>4, <1>6, <1>8, WeightsAreNumbers DEF Init
<1>12. processed[1] = <<>> /\ processed[2] = <<>>
  BY <1>1 DEF Workers
<1>13. processed \in [Workers -> Seq(Samples)]
  BY <1>1, <1>2
<1>14. MaxTraces \in Nat /\ MaxReports \in Nat
  BY DEF SumsWellFormed
<1>15. Len(processed[1]) + Len(processed[2]) <= MaxTraces /\ Len(merged) <= MaxTraces
  <2>1. Len(processed[1]) = 0 /\ Len(processed[2]) = 0 /\ Len(merged) = 0
    BY <1>1, <1>2, <1>12, Zenon
  <2> QED BY <1>14, <2>1
<1>16. /\ maxes \in Seq(Rows) /\ Len(maxes) <= MaxReports
       /\ maxes # <<>> => maxes[Len(maxes)] = [cpa |-> CpaMaxes(cpa[0]), dpa |-> DpaMaxes(dpa[0])]
  BY <1>1, <1>2, <1>14
<1> QED
  BY <1>1, <1>2, <1>9, <1>10, <1>11, <1>13, <1>15, <1>16, Zenon DEF SumsInv

\* A trace is added to the instance of its worker and to those that take all.
LEMMA ProcessSums ==
    ASSUME SumsWellFormed, SumsInv, NEW w \in Workers, NEW trace \in Samples, process(w, trace)
    PROVE  SumsInv'
<1> DEFINE old == processed[w]
           new == Append(old, trace)
<1>1. /\ processed \in [Workers -> Seq(Samples)] /\ merged \in Seq(Samples)
      /\ Len(processed[1]) + Len(processed[2]) <= MaxTraces
      /\ cpa = [i \in Instances |-> SumsOf(Stands(i), Guesses, CpaWeights)]
      /\ dpa = [i \in Instances |-> BinsOf(Stands(i))]
      /\ pscc = SumsOf(AllTraces, {0}, KnownKeyWeights) /\ relpow = StatesOf(AllTraces)
  BY DEF SumsInv
<1>2. /\ Len(processed[1]) + Len(processed[2]) < MaxTraces
      /\ processed' = [processed EXCEPT ![w] = new]
      /\ cpa' = [cpa EXCEPT ![w] = Add(cpa[w], trace.power, CpaWeight(trace.message))]
      /\ dpa' = [dpa EXCEPT ![w] = Binned(dpa[w], trace)]
      /\ pscc' = Add(pscc, trace.power, [k \in {0} |-> KnownWeight(trace.message)])
      /\ relpow' = Profiled(relpow, trace) /\ maxes' = maxes /\ merged' = merged
  BY DEF process
<1>3. w \in Instances /\ w # 0 /\ Stands(w) = old /\ old \in Seq(Samples)
  BY <1>1 DEF Instances, Workers, Stands
<1>4. Grown(old, new, trace) /\ new \in Seq(Samples)
  BY <1>3, AppendGrows
<1>5. \A i \in Instances : Stands(i)' = IF i = w THEN new ELSE Stands(i)
  <2> TAKE i \in Instances
  <2>1. Stands(i)' = IF i = 0 THEN merged' ELSE processed'[i]
    BY DEF Stands
  <2>2. i # 0 => i \in Workers
    BY DEF Instances
  <2> HIDE DEF new
  <2> QED BY <1>1, <1>2, <1>3, <2>1, <2>2 DEF Stands
<1>6. cpa' = [i \in Instances |-> SumsOf(Stands(i)', Guesses, CpaWeights)]
  <2>1. CpaWeight(trace.message) = [k \in Guesses |-> CpaWeights[k][trace]]
    BY DEF CpaWeight, CpaWeights
  <2>2. cpa[w] = SumsOf(old, Guesses, CpaWeights)
    BY <1>1, <1>3
  <2>3. Add(cpa[w], trace.power, CpaWeight(trace.message)) = SumsOf(new, Guesses, CpaWeights)
    BY <1>4, <2>1, <2>2, AddSums, WeightsAreNumbers
  <2> HIDE DEF new, old
  <2>4. \A i \in Instances : cpa'[i] = SumsOf(Stands(i)', Guesses, CpaWeights)
    BY <1>1, <1>2, <1>5, <2>3
  <2>5. DOMAIN cpa' = Instances /\ cpa' = [i \in DOMAIN cpa' |-> cpa'[i]]
    BY <1>1, <1>2
  <2> QED BY <2>4, <2>5
<1>7. dpa' = [i \in Instances |-> BinsOf(Stands(i)')]
  <2>1. dpa[w] = BinsOf(old)
    BY <1>1, <1>3
  <2>2. Binned(dpa[w], trace) = BinsOf(new)
    BY <1>3, <1>4, <2>1, BinnedSums
  <2> HIDE DEF new, old
  <2>3. \A i \in Instances : dpa'[i] = BinsOf(Stands(i)')
    BY <1>1, <1>2, <1>5, <2>2
  <2>4. DOMAIN dpa' = Instances /\ dpa' = [i \in DOMAIN dpa' |-> dpa'[i]]
    BY <1>1, <1>2
  <2> QED BY <2>3, <2>4
<1>8. /\ Grown(AllTraces, AllTraces', trace) /\ AllTraces \in Seq(Samples)
      /\ Len(processed'[1]) + Len(processed'[2]) <= MaxTraces
      /\ processed' \in [Workers -> Seq(Samples)]
  <2>1. processed[1] \in Seq(Samples) /\ processed[2] \in Seq(Samples)
    BY <1>1 DEF Workers
  <2>2. AllTraces \in Seq(Samples)
    BY <2>1, ConcatJoins DEF AllTraces
  <2>3. Len(processed[1]) \in Nat /\ Len(processed[2]) \in Nat /\ Len(new) = Len(old) + 1
    BY <1>4, <2>1, LenProperties DEF Grown
  <2>7. Len(processed[1]) + Len(processed[2]) < MaxTraces
    BY <1>2
  <2>8. Len(processed[1]) \in Nat /\ Len(processed[2]) \in Nat
    BY <2>3
  <2>6. processed' \in [Workers -> Seq(Samples)]
    <3> HIDE DEF new
    <3> QED BY <1>1, <1>2, <1>4
  <2>4. CASE w = 1
    <3>1. processed'[1] = new /\ processed'[2] = processed[2]
      BY <1>1, <1>2, <2>4 DEF Workers
    <3>2. Grown(AllTraces, AllTraces', trace)
      BY <2>1, <2>4, <3>1, WorkerGrows DEF AllTraces
    <3> DEFINE p == Len(processed[1])
               q == Len(processed[2])
    <3>4. Len(processed'[1]) = p + 1 /\ Len(processed'[2]) = q
      BY <2>3, <2>4, <3>1, Zenon
    <3>5. MaxTraces \in Nat /\ p \in Nat /\ q \in Nat /\ p + q < MaxTraces
      BY <2>7, <2>8 DEF SumsWellFormed
    <3> HIDE DEF p, q
    <3>3. Len(processed'[1]) + Len(processed'[2]) <= MaxTraces
      BY <3>4, <3>5
    <3> QED BY <2>2, <2>6, <3>2, <3>3
  <2>5. CASE w = 2
    <3>1. processed'[1] = processed[1] /\ processed'[2] = new
      BY <1>1, <1>2, <2>5 DEF Workers
    <3>2. Grown(AllTraces, AllTraces', trace)
      BY <2>1, <2>5, <3>1, WorkerGrows DEF AllTraces
    <3> DEFINE p == Len(processed[1])
               q == Len(processed[2])
    <3>4. Len(processed'[1]) = p /\ Len(processed'[2]) = q + 1
      BY <2>3, <2>5, <3>1, Zenon
    <3>5. MaxTraces \in Nat /\ p \in Nat /\ q \in Nat /\ p + q < MaxTraces
      BY <2>7, <2>8 DEF SumsWellFormed
    <3> HIDE DEF p, q
    <3>3. Len(processed'[1]) + Len(processed'[2]) <= MaxTraces
      BY <3>4, <3>5
    <3> QED BY <2>2, <2>6, <3>2, <3>3
  <2> QED BY <2>4, <2>5 DEF Workers
<1>9. pscc' = SumsOf(AllTraces', {0}, KnownKeyWeights)
  <2>1. [k \in {0} |-> KnownWeight(trace.message)] = [k \in {0} |-> KnownKeyWeights[k][trace]]
    BY DEF KnownKeyWeights
  <2> DEFINE b == AllTraces'
             weight == [k \in {0} |-> KnownKeyWeights[k][trace]]
  <2>2. Grown(AllTraces, b, trace) /\ KnownKeyWeights \in [{0} -> Numbers]
    BY <1>8, WeightsAreNumbers
  <2> HIDE DEF b
  <2>3. Add(SumsOf(AllTraces, {0}, KnownKeyWeights), trace.power, weight) = SumsOf(b, {0}, KnownKeyWeights)
    BY <2>2, AddSums
  <2> QED BY <1>1, <1>2, <2>1, <2>3 DEF b
<1>10. relpow' = StatesOf(AllTraces')
  BY <1>1, <1>2, <1>8, ProfiledSums
<1>11. cpa'[0] = cpa[0] /\ dpa'[0] = dpa[0]
  BY <1>1, <1>2, <1>3 DEF Instances
<1>12. /\ maxes' \in Seq(Rows) /\ Len(maxes') <= MaxReports /\ Len(merged') <= MaxTraces
       /\ maxes' # <<>> => maxes'[Len(maxes')] = [cpa |-> CpaMaxes(cpa'[0]), dpa |-> DpaMaxes(dpa'[0])]
  BY <1>2, <1>11 DEF SumsInv
<1> HIDE DEF new, old
<1> QED
  BY <1>1, <1>2, <1>6, <1>7, <1>8, <1>9, <1>10, <1>12 DEF SumsInv

\* The last row of maxima is that of the sums that the report holds.
LEMMA RowOfMaxima ==
    ASSUME SumsWellFormed, NEW a \in Seq(Samples)
    PROVE  [cpa |-> CpaMaxes(SumsOf(a, Guesses, CpaWeights)), dpa |-> DpaMaxes(BinsOf(a))] \in Rows
<1> DEFINE s == SumsOf(a, Guesses, CpaWeights)
           b == BinsOf(a)
           c(k) == [e \in Events |-> Correlation(s, k, e)]
           d(k) == [e \in Events |-> Difference(b, k, e)]
<1>1. Events = 1..m_nevents /\ m_nevents \in Nat
  BY DEF SumsWellFormed, Events
<1>2. \A k \in Guesses : c(k) \in [1..m_nevents -> Coefficients] /\ d(k) \in [1..m_nevents -> Differences]
  BY <1>1, WeightsAreNumbers, TextbookCorrelation, TextbookDifference
<1>3. ASSUME NEW k \in Guesses
      PROVE  /\ FoldLeft(MaxCorrelation, Zero, c(k)) \in Coefficients
             /\ FoldLeft(MaxDifference, NoDifference, d(k)) \in Differences
  <2> DEFINE ck == c(k)
             dk == d(k)
  <2>1. ck \in [1..m_nevents -> Coefficients] /\ dk \in [1..m_nevents -> Differences]
    BY <1>2
  <2> HIDE DEF ck, dk
  <2>2. FoldLeft(MaxCorrelation, Zero, ck) \in Coefficients
    BY <1>1, <2>1, LargestCoefficientIs DEF Maximal
  <2>3. FoldLeft(MaxDifference, NoDifference, dk) \in Differences
    BY <1>1, <2>1, GreatestDifferenceIs DEF Greatest
  <2> QED BY <2>2, <2>3 DEF ck, dk
<1>4. CpaMaxes(s) \in [Guesses -> Coefficients] /\ DpaMaxes(b) \in [Guesses -> Differences]
  <2> HIDE DEF s, b
  <2> QED BY <1>3 DEF CpaMaxes, DpaMaxes
<1> HIDE DEF s, b
<1>5. [cpa |-> CpaMaxes(s), dpa |-> DpaMaxes(b)] \in Rows
  BY <1>4 DEF Rows
<1> QED
  BY <1>5 DEF s, b

\* A report takes the place of whatever the sums at 0 were.
LEMMA ReportSums ==
    ASSUME SumsWellFormed, SumsInv, record_interval
    PROVE  SumsInv'
<1> DEFINE all == AllTraces
           row == [cpa |-> CpaMaxes(SumsOf(all, Guesses, CpaWeights)), dpa |-> DpaMaxes(BinsOf(all))]
<1>1. /\ processed \in [Workers -> Seq(Samples)] /\ merged \in Seq(Samples)
      /\ Len(processed[1]) + Len(processed[2]) <= MaxTraces
      /\ cpa = [i \in Instances |-> SumsOf(Stands(i), Guesses, CpaWeights)]
      /\ dpa = [i \in Instances |-> BinsOf(Stands(i))]
      /\ pscc = SumsOf(AllTraces, {0}, KnownKeyWeights) /\ relpow = StatesOf(AllTraces)
      /\ maxes \in Seq(Rows) /\ Len(maxes) <= MaxReports
  BY DEF SumsInv
<1>2. /\ Len(maxes) < MaxReports
      /\ cpa' = [cpa EXCEPT ![0] = Coalesced(cpa[1], cpa[2])]
      /\ dpa' = [dpa EXCEPT ![0] = BinsCoalesced(dpa[1], dpa[2])]
      /\ maxes' = Append(maxes, [cpa |-> CpaMaxes(cpa'[0]), dpa |-> DpaMaxes(dpa'[0])])
      /\ merged' = all
      /\ processed' = processed /\ pscc' = pscc /\ relpow' = relpow
  BY DEF record_interval, Clone, AllTraces
<1>3. processed[1] \in Seq(Samples) /\ processed[2] \in Seq(Samples)
  BY <1>1 DEF Workers
<1>4. Joined(processed[1], processed[2], all) /\ all \in Seq(Samples)
  BY <1>3, ConcatJoins DEF AllTraces
<1>5. 0 \in Instances /\ 1 \in Instances /\ 2 \in Instances /\ Stands(1) = processed[1] /\ Stands(2) = processed[2]
  BY DEF Instances, Workers, Stands
<1>6. \A i \in Instances : Stands(i)' = IF i = 0 THEN all ELSE Stands(i)
  BY <1>2, Zenon DEF Stands
<1>7. AllTraces' = all
  BY <1>2 DEF AllTraces
<1> HIDE DEF all
<1>8. Coalesced(cpa[1], cpa[2]) = SumsOf(all, Guesses, CpaWeights) /\ BinsCoalesced(dpa[1], dpa[2]) = BinsOf(all)
  <2>1. /\ cpa[1] = SumsOf(processed[1], Guesses, CpaWeights) /\ dpa[1] = BinsOf(processed[1])
        /\ cpa[2] = SumsOf(processed[2], Guesses, CpaWeights) /\ dpa[2] = BinsOf(processed[2])
    BY <1>1, <1>5
  <2> QED BY <1>4, <2>1, CoalescedSums, CoalescedBins, WeightsAreNumbers
<1>9. cpa' = [i \in Instances |-> SumsOf(Stands(i)', Guesses, CpaWeights)]
  <2>1. \A i \in Instances : cpa'[i] = SumsOf(Stands(i)', Guesses, CpaWeights)
    BY <1>1, <1>2, <1>6, <1>8
  <2>2. DOMAIN cpa' = Instances /\ cpa' = [i \in DOMAIN cpa' |-> cpa'[i]]
    BY <1>1, <1>2
  <2> QED BY <2>1, <2>2
<1>10. dpa' = [i \in Instances |-> BinsOf(Stands(i)')]
  <2>1. \A i \in Instances : dpa'[i] = BinsOf(Stands(i)')
    BY <1>1, <1>2, <1>6, <1>8
  <2>2. DOMAIN dpa' = Instances /\ dpa' = [i \in DOMAIN dpa' |-> dpa'[i]]
    BY <1>1, <1>2
  <2> QED BY <2>1, <2>2
<1>11. cpa'[0] = SumsOf(all, Guesses, CpaWeights) /\ dpa'[0] = BinsOf(all)
  BY <1>5, <1>6, <1>9, <1>10
<1>12. maxes' = Append(maxes, row) /\ row = [cpa |-> CpaMaxes(cpa'[0]), dpa |-> DpaMaxes(dpa'[0])] /\ row \in Rows
  BY <1>2, <1>4, <1>11, RowOfMaxima
<1> HIDE DEF row
<1>13. /\ maxes' \in Seq(Rows) /\ Len(maxes') = Len(maxes) + 1 /\ maxes'[Len(maxes')] = row
       /\ Len(maxes) \in Nat
  BY <1>1, <1>12, AppendProperties, LenProperties
<1>14. Len(maxes') <= MaxReports
  <2>1. MaxReports \in Nat
    BY DEF SumsWellFormed
  <2> QED BY <1>2, <1>13, <2>1
<1>15. Len(merged') <= MaxTraces
  <2>1. Len(all) = Len(processed[1]) + Len(processed[2])
    BY <1>3, ConcatProperties DEF all, AllTraces
  <2> QED BY <1>1, <1>2, <2>1
<1>16. pscc' = SumsOf(AllTraces', {0}, KnownKeyWeights) /\ relpow' = StatesOf(AllTraces')
  BY <1>1, <1>2, <1>7 DEF all
<1>17. /\ processed' \in [Workers -> Seq(Samples)] /\ merged' \in Seq(Samples)
       /\ Len(processed'[1]) + Len(processed'[2]) <= MaxTraces
  BY <1>1, <1>2, <1>4
<1>18. maxes' # <<>> => maxes'[Len(maxes')] = [cpa |-> CpaMaxes(cpa'[0]), dpa |-> DpaMaxes(dpa'[0])]
  BY <1>12, <1>13
<1> QED
  BY <1>9, <1>10, <1>13, <1>14, <1>15, <1>16, <1>17, <1>18, Zenon DEF SumsInv

LEMMA NextSums == SumsWellFormed /\ SumsInv /\ [Next]_vars => SumsInv'
<1> SUFFICES ASSUME SumsWellFormed, SumsInv, [Next]_vars PROVE SumsInv'
  OBVIOUS
<1>1. CASE record_interval
  BY <1>1, ReportSums
<1>2. CASE \E w \in Workers, trace \in Samples : process(w, trace)
  BY <1>2, ProcessSums
<1>3. CASE UNCHANGED vars
  BY <1>3 DEF SumsInv, Stands, AllTraces, vars
<1> QED
  BY <1>1, <1>2, <1>3 DEF Next

LEMMA SumsTypes == SumsWellFormed /\ SumsInv => TypeOK
<1> SUFFICES ASSUME SumsWellFormed, SumsInv PROVE TypeOK
  OBVIOUS
<1>1. /\ processed \in [Workers -> Seq(Samples)] /\ merged \in Seq(Samples)
      /\ Len(processed[1]) + Len(processed[2]) <= MaxTraces /\ Len(merged) <= MaxTraces
      /\ cpa = [i \in Instances |-> SumsOf(Stands(i), Guesses, CpaWeights)]
      /\ dpa = [i \in Instances |-> BinsOf(Stands(i))]
      /\ relpow = StatesOf(AllTraces) /\ Len(maxes) <= MaxReports
  BY DEF SumsInv
<1>2. MaxTraces \in Nat /\ Len(processed[1]) + Len(processed[2]) <= MaxTraces /\ Len(merged) <= MaxTraces
  BY <1>1 DEF SumsWellFormed
<1>3. processed[1] \in Seq(Samples) /\ processed[2] \in Seq(Samples)
  BY <1>1 DEF Workers
<1>4. Len(processed[1]) \in Nat /\ Len(processed[2]) \in Nat /\ Len(merged) \in Nat
  BY <1>1, <1>3, LenProperties
<1>5. AllTraces \in Seq(Samples) /\ Len(AllTraces) = Len(processed[1]) + Len(processed[2])
  BY <1>3, ConcatProperties DEF AllTraces
<1>6. \A i \in Instances : Stands(i) \in Seq(Samples) /\ Len(Stands(i)) \in 0..MaxTraces
  <2> DEFINE p == Len(processed[1])
             q == Len(processed[2])
             m == Len(merged)
  <2>2. p \in Nat /\ q \in Nat /\ m \in Nat /\ p + q <= MaxTraces /\ m <= MaxTraces /\ MaxTraces \in Nat
    BY <1>2, <1>4
  <2> HIDE DEF p, q, m
  <2>3. p \in 0..MaxTraces /\ q \in 0..MaxTraces /\ m \in 0..MaxTraces
    BY <2>2
  <2>1. Len(processed[1]) \in 0..MaxTraces /\ Len(processed[2]) \in 0..MaxTraces /\ Len(merged) \in 0..MaxTraces
    BY <2>3 DEF p, q, m
  <2> QED BY <1>1, <1>3, <2>1, Zenon DEF Stands, Instances, Workers
<1>7. ASSUME NEW i \in Instances
      PROVE  /\ cpa[i].n \in 0..MaxTraces
             /\ \A k \in Guesses : dpa[i][k].binsz \in [0..2 -> 0..MaxTraces]
  <2>1. cpa[i].n = Len(Stands(i))
    BY <1>1 DEF SumsOf
  <2>2. ASSUME NEW k \in Guesses PROVE dpa[i][k].binsz \in [0..2 -> 0..MaxTraces]
    <3> DEFINE s == Stands(i)
    <3>1. s \in Seq(Samples) /\ Len(s) \in 0..MaxTraces
      BY <1>6
    <3>2. dpa[i][k].binsz = [g \in 0..2 |-> SumOf(s, InGroup(k, g))]
      BY <1>1 DEF BinsOf
    <3> HIDE DEF s
    <3>3. \A g \in 0..2 : SumOf(s, InGroup(k, g)) \in 0..Len(s)
      BY <3>1, BinTypes
    <3>4. \A g \in 0..2 : SumOf(s, InGroup(k, g)) \in 0..MaxTraces
      BY <1>2, <3>1, <3>3
    <3> QED BY <3>2, <3>4
  <2> QED BY <1>6, <2>1, <2>2
<1>8. relpow.num \in [0..(num_states - 1) -> 0..MaxTraces]
  <2>1. relpow.num = [v \in 0..(num_states - 1) |-> SumOf(AllTraces, HasWeight(v))]
    BY <1>1 DEF StatesOf
  <2>2. \A v : SumOf(AllTraces, HasWeight(v)) \in 0..Len(AllTraces)
    BY <1>5, TextbookStates
  <2>3. \A v : SumOf(AllTraces, HasWeight(v)) \in 0..MaxTraces
    <3> DEFINE p == Len(processed[1])
               q == Len(processed[2])
               n == Len(AllTraces)
    <3>1. p \in Nat /\ q \in Nat /\ p + q <= MaxTraces /\ MaxTraces \in Nat /\ n = p + q
      BY <1>2, <1>4, <1>5
    <3> HIDE DEF p, q, n
    <3>2. n \in 0..MaxTraces /\ \A x \in 0..n : x \in 0..MaxTraces
      BY <3>1
    <3> QED BY <2>2, <3>2 DEF n
  <2> QED BY <2>1, <2>3
<1> QED
  BY <1>1, <1>7, <1>8 DEF TypeOK

\* The first line of MergedIsTextbook, for one guess and one event.
LEMMA ReportIsTextbook ==
    ASSUME SumsWellFormed, SumsInv, NEW k \in Guesses, NEW e \in Events
    PROVE  LET x == Powers(merged, e)
               w == Weights(merged, k)
               low == { i \in DOMAIN w : w[i] <= m_min }
               high == { i \in DOMAIN w : w[i] >= m_max }
               d == Difference(dpa[0], k, e) IN
           /\ IsCorrelation(Correlation(cpa[0], k, e), x, w)
           /\ d.den = Count(x, high) * Count(x, low)
           /\ d.num = SumOver(x, high) * Count(x, low) - SumOver(x, low) * Count(x, high)
<1>1. merged \in Seq(Samples) /\ cpa[0] = SumsOf(merged, Guesses, CpaWeights) /\ dpa[0] = BinsOf(merged)
  BY DEF SumsInv, Instances, Stands
<1>2. IsCorrelation(Correlation(cpa[0], k, e), Powers(merged, e), Weights(merged, k))
  <2>1. IsCorrelation(Correlation(cpa[0], k, e), Powers(merged, e), Values(merged, CpaWeights[k]))
    BY <1>1, TextbookCorrelation, WeightsAreNumbers
  <2> DEFINE c == Correlation(cpa[0], k, e)
  <2> HIDE DEF c
  <2>2. IsCorrelation(c, Powers(merged, e), Weights(merged, k))
    BY <1>1, <2>1, CenteredCorrelation DEF c
  <2> QED BY <2>2 DEF c
<1>3. LET d == Difference(dpa[0], k, e)
          x == Powers(merged, e) IN
      /\ d.den = Count(x, High(merged, k)) * Count(x, Low(merged, k))
      /\ d.num = SumOver(x, High(merged, k)) * Count(x, Low(merged, k))
                   - SumOver(x, Low(merged, k)) * Count(x, High(merged, k))
  BY <1>1, TextbookDifference
<1> QED
  BY <1>2, <1>3, Zenon DEF High, Low

\* The last row bounds what the report holds.
LEMMA RowBounds ==
    ASSUME SumsWellFormed, SumsInv, maxes # <<>>, NEW k \in Guesses
    PROVE  LET row == maxes[Len(maxes)]
               differences == { Difference(dpa[0], k, e) : e \in Events }
               correlations == { Correlation(cpa[0], k, e) : e \in Events } IN
           /\ row.dpa[k].den # 0 /\ row.dpa[k] \in differences \union {NoDifference}
           /\ \A d \in differences : ~MoreThan(d, row.dpa[k])
           /\ row.cpa[k] \in correlations \union {Zero}
           /\ \A c \in correlations : ~Larger(c, row.cpa[k])
<1> DEFINE c == [e \in Events |-> Correlation(cpa[0], k, e)]
           d == [e \in Events |-> Difference(dpa[0], k, e)]
           row == maxes[Len(maxes)]
           top == row.cpa[k]
           most == row.dpa[k]
<1>1. /\ merged \in Seq(Samples) /\ cpa[0] = SumsOf(merged, Guesses, CpaWeights) /\ dpa[0] = BinsOf(merged)
      /\ row = [cpa |-> CpaMaxes(cpa[0]), dpa |-> DpaMaxes(dpa[0])]
  BY DEF SumsInv, Instances, Stands
<1>2. Events = 1..m_nevents /\ m_nevents \in Nat
  BY DEF SumsWellFormed, Events
<1>3. c \in [1..m_nevents -> Coefficients] /\ d \in [1..m_nevents -> Differences]
  BY <1>1, <1>2, WeightsAreNumbers, TextbookCorrelation, TextbookDifference
<1>4. /\ { Difference(dpa[0], k, e) : e \in Events } = { d[i] : i \in 1..m_nevents }
      /\ { Correlation(cpa[0], k, e) : e \in Events } = { c[i] : i \in 1..m_nevents }
  BY <1>2
<1>5. top = FoldLeft(MaxCorrelation, Zero, c) /\ most = FoldLeft(MaxDifference, NoDifference, d)
  BY <1>1 DEF CpaMaxes, DpaMaxes
<1> HIDE DEF c, d, row
<1>6. /\ top = Zero \/ \E i \in 1..m_nevents : top = c[i]
      /\ \A i \in 1..m_nevents : ~Larger(c[i], top)
  BY <1>2, <1>3, <1>5, LargestCoefficientIs
<1>7. /\ Greatest(most) /\ (most = NoDifference \/ \E i \in 1..m_nevents : most = d[i])
      /\ \A i \in 1..m_nevents : ~MoreThan(d[i], most)
  BY <1>2, <1>3, <1>5, GreatestDifferenceIs
<1>8. most.den # 0
  BY <1>7 DEF Greatest, Differences
<1> HIDE DEF top, most
<1>9. /\ most.den # 0 /\ most \in { d[i] : i \in 1..m_nevents } \union {NoDifference}
      /\ \A x \in { d[i] : i \in 1..m_nevents } : ~MoreThan(x, most)
      /\ top \in { c[i] : i \in 1..m_nevents } \union {Zero}
      /\ \A x \in { c[i] : i \in 1..m_nevents } : ~Larger(x, top)
  BY <1>6, <1>7, <1>8
<1> QED
  BY <1>4, <1>9, Zenon DEF top, most, row

LEMMA SumsTextbook == SumsWellFormed /\ SumsInv => MergedIsTextbook
<1> SUFFICES ASSUME SumsWellFormed, SumsInv PROVE MergedIsTextbook
  OBVIOUS
<1> DEFINE all == AllTraces
<1>1. /\ processed \in [Workers -> Seq(Samples)]
      /\ pscc = SumsOf(all, {0}, KnownKeyWeights) /\ relpow = StatesOf(all)
  BY DEF SumsInv
<1>2. all \in Seq(Samples)
  <2>1. processed[1] \in Seq(Samples) /\ processed[2] \in Seq(Samples)
    BY <1>1 DEF Workers
  <2> QED BY <2>1, ConcatJoins DEF AllTraces
<1> HIDE DEF all
<1>3. \A e \in Events : IsCorrelation(Correlation(pscc, 0, e), Powers(all, e), KnownWeights(all))
  <2> TAKE e \in Events
  <2>1. Values(all, KnownKeyWeights[0]) = KnownWeights(all)
    <3>1. \A i \in DOMAIN all : all[i] \in Samples
      BY <1>2, LenProperties
    <3>2. \A i \in DOMAIN all : KnownKeyWeights[0][all[i]] = KnownWeight(all[i].message)
      BY <3>1 DEF KnownKeyWeights
    <3> QED BY <3>2 DEF Values, KnownWeights
  <2>2. IsCorrelation(Correlation(pscc, 0, e), Powers(all, e), Values(all, KnownKeyWeights[0]))
    BY <1>1, <1>2, TextbookCorrelation, WeightsAreNumbers
  <2> QED BY <2>1, <2>2
<1>4. \A v \in DOMAIN relpow.num :
        LET has == { i \in DOMAIN all : KnownWeight(all[i].message) = v }
            peaks == [i \in DOMAIN all |-> Peak(all[i].power)] IN
        relpow.num[v] = Count(peaks, has) /\ relpow.pow[v] = SumOver(peaks, has)
  <2> TAKE v \in DOMAIN relpow.num
  <2>1. relpow.num[v] = SumOf(all, HasWeight(v)) /\ relpow.pow[v] = SumOf(all, PeakAtWeight(v))
    BY <1>1 DEF StatesOf
  <2> QED BY <1>2, <2>1, TextbookStates
<1> QED
  BY <1>3, <1>4, ReportIsTextbook, RowBounds, Zenon DEF MergedIsTextbook, all, AllTraces

-----------------------------------------------------------------------------

\* The sums keep their types and the groups and states never count more than
\* the traces there are, for any number of events, guesses, traces and reports:
\* the m_binsz of attack_dpa::process and the m_nums of attack_relpow::process.
THEOREM SumTypes == ASSUME SumsWellFormed PROVE Spec => []TypeOK
<1>1. SumsInv => TypeOK
  BY SumsTypes
<1>2. Init => SumsInv
  BY InitSums
<1>3. SumsInv /\ [Next]_vars => SumsInv'
  BY NextSums
<1> QED
  BY <1>1, <1>2, <1>3, PTL DEF Spec

\* However the scheduler shares the traces out between the worker threads, and
\* whenever reports clone and coalesce their instances, the differentials that
\* compute_diffs makes of the merged sums are the textbook's over all traces,
\* the difference from the center of the weights cancels, and record_interval
\* keeps the largest of them.
THEOREM DifferentialsAreTextbook == ASSUME SumsWellFormed PROVE Spec => []MergedIsTextbook
<1>1. SumsInv => MergedIsTextbook
  BY SumsTextbook
<1>2. Init => SumsInv
  BY InitSums
<1>3. SumsInv /\ [Next]_vars => SumsInv'
  BY NextSums
<1> QED
  BY <1>1, <1>2, <1>3, PTL DEF Spec
===============================================================================
