--------------------------- MODULE InductionFacts ---------------------------
(* Induction for the proofs: facts about sets of numbers, the existence of    *)
(* the functions that the folds of the community modules define by recursion, *)
(* and what two of these folds compute.  The folds take operators, so their   *)
(* users expand them and cite Recursion for the function they find.           *)
EXTENDS Integers, Sequences, FiniteSetsExt, FiniteSetTheorems, WellFoundedInduction, TLAPS

\* Every set of numbers that is not empty has a smallest element.
LEMMA Smallest ==
    ASSUME NEW S, S \subseteq Nat, S # {}
    PROVE  Min(S) \in S /\ \A x \in S : Min(S) <= x
<1>1. PICK x \in S : \A y \in S : ~(<<y, x>> \in OpToRel(<, Nat))
  BY NatLessThanWellFounded, WFMin
<1>2. \A m, n \in Nat : m < n => <<m, n>> \in OpToRel(<, Nat)
  BY DEF OpToRel
<1>3. \A y \in S : ~(y < x)
  BY <1>1, <1>2, Zenon
<1>4. \A y \in S : x <= y
  BY <1>3
<1> QED
  BY <1>4 DEF Min

\* A set with a bound has a largest one.
LEMMA Largest ==
    ASSUME NEW n \in Nat, NEW S, S \subseteq 1..n, S # {}
    PROVE  Max(S) \in S /\ \A x \in S : x <= Max(S)
<1> DEFINE below == { n - x : x \in S }
<1>1. below \subseteq Nat /\ below # {}
  <2>1. \A x \in S : n - x \in Nat
    OBVIOUS
  <2>2. PICK x \in S : TRUE
    OBVIOUS
  <2>3. n - x \in below
    OBVIOUS
  <2> QED
    BY <2>1, <2>3
<1> HIDE DEF below
<1>2. PICK m \in below : \A y \in below : m <= y
  BY <1>1, Smallest
<1>3. PICK x \in S : m = n - x
  BY DEF below
<1>4. \A y \in S : y <= x
  <2> TAKE y \in S
  <2>1. m <= n - y
    BY <1>2 DEF below
  <2> QED
    BY <2>1, <1>3
<1> QED
  BY <1>4 DEF Max

\* Induction, for a set in place of a predicate.
LEMMA Induction ==
    ASSUME NEW S, 0 \in S, \A n \in Nat : n \in S => n + 1 \in S
    PROVE  Nat \subseteq S
<1> SUFFICES ASSUME ~(Nat \subseteq S) PROVE FALSE
  OBVIOUS
<1> DEFINE rest == Nat \ S
<1>1. PICK n \in rest : \A y \in rest : n <= y
  BY Smallest
<1>2. n # 0 /\ n - 1 \in Nat
  OBVIOUS
<1>3. n - 1 \in S
  BY <1>1, <1>2
<1> QED
  BY <1>2, <1>3

\* A finite set of numbers has a largest one.
LEMMA LargestOfFinite ==
    ASSUME NEW T, IsFiniteSet(T), T \subseteq Int, T # {}
    PROVE  Max(T) \in T /\ \A x \in T : x <= Max(T)
<1> DEFINE HasMax(s) == \E m \in s : \A x \in s : x <= m
           Ok == { n \in Nat : \A s \in SUBSET T : Cardinality(s) = n + 1 => HasMax(s) }
<1>1. \A s \in SUBSET T :
        /\ IsFiniteSet(s) /\ Cardinality(s) \in Nat
        /\ Cardinality(s) = 0 <=> s = {}
        /\ \A x \in s : Cardinality(s \ {x}) = Cardinality(s) - 1
  BY FS_Subset, FS_CardinalityType, FS_RemoveElement, FS_EmptySet
<1>2. 0 \in Ok
  <2>1. ASSUME NEW s \in SUBSET T, Cardinality(s) = 1 PROVE HasMax(s)
    <3>1. PICK x \in s : TRUE
      BY <1>1, <2>1
    <3>2. s \ {x} \in SUBSET T /\ Cardinality(s \ {x}) = 0
      BY <1>1, <2>1, <3>1
    <3>3. s \ {x} = {} /\ x \in Int
      BY <1>1, <3>1, <3>2
    <3>4. \A y \in s : y <= x
      BY <3>3
    <3> QED BY <3>1, <3>4
  <2> HIDE DEF HasMax
  <2> QED BY <2>1
<1>3. ASSUME NEW n \in Nat, n \in Ok PROVE n + 1 \in Ok
  <2>1. ASSUME NEW s \in SUBSET T, Cardinality(s) = (n + 1) + 1 PROVE HasMax(s)
    <3>1. PICK x \in s : TRUE
      BY <1>1, <2>1
    <3>2. s \ {x} \in SUBSET T /\ Cardinality(s \ {x}) = n + 1
      BY <1>1, <2>1, <3>1
    <3>3. HasMax(s \ {x})
      BY <1>3, <3>2
    <3>4. PICK m \in s \ {x} : \A y \in s \ {x} : y <= m
      BY <3>3
    <3>5. m \in Int /\ x \in Int /\ \A y \in s : y \in Int
      BY <3>1, <3>4
    <3>6. CASE x <= m
      BY <3>4, <3>5, <3>6
    <3>7. CASE m <= x
      BY <3>1, <3>4, <3>5, <3>7
    <3> QED BY <3>5, <3>6, <3>7
  <2> HIDE DEF HasMax
  <2> QED BY <2>1, n + 1 \in Nat
<1>4. Nat \subseteq Ok
  <2> HIDE DEF Ok
  <2> QED BY <1>2, <1>3, Induction
<1>5. HasMax(T)
  <2>1. Cardinality(T) \in Nat /\ Cardinality(T) # 0
    BY <1>1, T \in SUBSET T
  <2>2. Cardinality(T) - 1 \in Nat /\ Cardinality(T) = (Cardinality(T) - 1) + 1
    BY <2>1
  <2> HIDE DEF HasMax
  <2> QED BY <1>4, <2>2
<1> QED
  BY <1>5 DEF Max

-----------------------------------------------------------------------------
\* F is defined by recursion over the subsets of D: base for the empty set,
\* and one step h for the element c takes out.
Recursive(F, D, base, h, c) ==
    \A s \in SUBSET D : F[s] = IF s = {} THEN base ELSE h[<<F[s \ {c[s]}], c[s]>>]

\* Such a function exists on every finite set.
LEMMA Recursion ==
    ASSUME NEW D, IsFiniteSet(D), NEW V, NEW base \in V, NEW h \in [V \X D -> V],
           NEW c, \A s \in SUBSET D : s # {} => c[s] \in s
    PROVE  \E F \in [SUBSET D -> V] : Recursive(F, D, base, h, c)
<1> DEFINE small(n) == { s \in SUBSET D : Cardinality(s) <= n }
           body(F, s) == IF s = {} THEN base ELSE h[<<F[s \ {c[s]}], c[s]>>]
           Exists == { n \in Nat : \E F \in [small(n) -> V] : \A s \in small(n) : F[s] = body(F, s) }
<1>1. \A s \in SUBSET D :
        /\ IsFiniteSet(s) /\ Cardinality(s) \in Nat /\ Cardinality(s) <= Cardinality(D)
        /\ Cardinality(s) = 0 <=> s = {}
        /\ s # {} => s \ {c[s]} \in SUBSET D /\ Cardinality(s \ {c[s]}) = Cardinality(s) - 1
  BY FS_Subset, FS_CardinalityType, FS_RemoveElement, FS_EmptySet
<1>2. 0 \in Exists
  <2> DEFINE F == [s \in small(0) |-> base]
  <2>1. \A s \in small(0) : s = {}
    <3> TAKE s \in small(0)
    <3>1. s \in SUBSET D /\ Cardinality(s) <= 0
      OBVIOUS
    <3>2. Cardinality(s) = 0
      <4>1. Cardinality(s) \in Nat
        BY <1>1, <3>1
      <4> QED BY <3>1, <4>1
    <3> QED BY <1>1, <3>1, <3>2
  <2>2. F \in [small(0) -> V] /\ \A s \in small(0) : F[s] = body(F, s)
    BY <2>1
  <2> HIDE DEF F
  <2> QED
    BY <2>2
<1>3. ASSUME NEW n \in Nat, n \in Exists PROVE n + 1 \in Exists
  <2>1. PICK F \in [small(n) -> V] : \A s \in small(n) : F[s] = body(F, s)
    BY <1>3
  <2> DEFINE G == [s \in small(n + 1) |-> IF s \in small(n) THEN F[s] ELSE body(F, s)]
  <2>2. ASSUME NEW s \in small(n + 1), s # {}
        PROVE  s \ {c[s]} \in small(n) /\ s \ {c[s]} \in small(n + 1) /\ c[s] \in D
    <3>1. s \in SUBSET D /\ Cardinality(s) <= n + 1
      OBVIOUS
    <3>2. /\ Cardinality(s) \in Nat /\ s \ {c[s]} \in SUBSET D
          /\ Cardinality(s \ {c[s]}) = Cardinality(s) - 1
      BY <1>1, <2>2, <3>1
    <3>3. Cardinality(s \ {c[s]}) <= n /\ Cardinality(s \ {c[s]}) <= n + 1
      BY <3>1, <3>2
    <3> QED BY <2>2, <3>1, <3>2, <3>3
  <2>3. ASSUME NEW s \in small(n + 1) PROVE G[s] \in V
    <3>1. CASE s \in small(n)
      BY <3>1
    <3>2. CASE s = {}
      BY <3>2
    <3>3. CASE s \notin small(n) /\ s # {}
      <4>1. F[s \ {c[s]}] \in V /\ c[s] \in D
        BY <2>2, <3>3
      <4> QED
        BY <3>3, <4>1
    <3> QED BY <3>1, <3>2, <3>3
  <2>4. ASSUME NEW s \in small(n + 1) PROVE G[s] = body(G, s)
    <3>1. CASE s = {}
      <4>1. {} \in small(n)
        <5>1. Cardinality({}) = 0 /\ {} \in SUBSET D
          BY FS_EmptySet
        <5> QED BY <5>1
      <4> QED BY <2>1, <3>1, <4>1
    <3>2. CASE s # {}
      <4>1. G[s \ {c[s]}] = F[s \ {c[s]}]
        BY <2>2, <3>2
      <4>2. G[s] = body(F, s)
        BY <2>1
      <4> HIDE DEF G
      <4> QED BY <3>2, <4>1, <4>2
    <3> QED BY <3>1, <3>2
  <2>5. G \in [small(n + 1) -> V]
    BY <2>3
  <2>6. \E H \in [small(n + 1) -> V] : \A s \in small(n + 1) : H[s] = body(H, s)
    <3> HIDE DEF G, small, body
    <3>1. \A s \in small(n + 1) : G[s] = body(G, s)
      BY <2>4
    <3> QED BY <2>5, <3>1, Zenon
  <2>7. n + 1 \in Nat
    OBVIOUS
  <2> HIDE DEF small, body
  <2> QED
    BY <2>6, <2>7, Zenon
<1>4. Cardinality(D) \in Exists
  <2> HIDE DEF Exists
  <2> QED
    BY <1>1, <1>2, <1>3, Induction
<1>5. small(Cardinality(D)) = SUBSET D
  BY <1>1
<1> QED
  BY <1>4, <1>5 DEF Recursive

-----------------------------------------------------------------------------
\* The element that MapThenSumSet takes out, and the function it defines.
One(s) == CHOOSE x \in s : TRUE
Adds(g, F, S) == F = [s \in SUBSET S |-> IF s = {} THEN 0 ELSE g[One(s)] + F[s \ {One(s)}]]

\* It exists for numbers.
LEMMA SumExists ==
    ASSUME NEW S, IsFiniteSet(S), NEW g \in [S -> Nat]
    PROVE  \E F \in [SUBSET S -> Nat] : Adds(g, F, S)
<1> DEFINE h == [p \in Nat \X S |-> g[p[2]] + p[1]]
           c == [s \in SUBSET S |-> One(s)]
<1>1. h \in [Nat \X S -> Nat] /\ \A n \in Nat, x \in S : h[<<n, x>>] = g[x] + n
  OBVIOUS
<1>2. \A s \in SUBSET S : c[s] = One(s) /\ (s # {} => c[s] \in s)
  BY DEF One
<1> HIDE DEF h, c
<1>3. PICK F \in [SUBSET S -> Nat] : Recursive(F, S, 0, h, c)
  BY <1>1, <1>2, Recursion
<1>4. ASSUME NEW s \in SUBSET S
      PROVE  F[s] = IF s = {} THEN 0 ELSE g[One(s)] + F[s \ {One(s)}]
  <2>1. F[s] = IF s = {} THEN 0 ELSE h[<<F[s \ {c[s]}], c[s]>>]
    BY <1>3 DEF Recursive
  <2>2. CASE s # {}
    <3>1. One(s) \in S /\ F[s \ {One(s)}] \in Nat
      BY <1>2, <2>2
    <3> QED BY <1>1, <1>2, <2>1, <2>2, <3>1
  <2> QED BY <2>1, <2>2
<1>5. F = [s \in SUBSET S |-> IF s = {} THEN 0 ELSE g[One(s)] + F[s \ {One(s)}]]
  BY <1>4
<1> QED
  BY <1>5 DEF Adds

\* A sum grows with its terms.
LEMMA SumsGrow ==
    ASSUME NEW S, IsFiniteSet(S), NEW f \in [S -> Nat], NEW g \in [S -> Nat],
           \A x \in S : f[x] <= g[x],
           NEW F, Adds(f, F, S), NEW G, Adds(g, G, S)
    PROVE  /\ F[S] \in Nat /\ G[S] \in Nat /\ F[S] <= G[S]
           /\ (\E x \in S : f[x] < g[x]) => F[S] < G[S]
<1> DEFINE less(s) == \E x \in s : f[x] < g[x]
           Good(s) == F[s] \in Nat /\ G[s] \in Nat /\ F[s] <= G[s] /\ (less(s) => F[s] < G[s])
           Ok == { n \in Nat : \A s \in SUBSET S : Cardinality(s) = n => Good(s) }
<1>1. \A s \in SUBSET S :
        /\ IsFiniteSet(s) /\ Cardinality(s) \in Nat
        /\ Cardinality(s) = 0 <=> s = {}
        /\ s # {} => One(s) \in s /\ Cardinality(s \ {One(s)}) = Cardinality(s) - 1
  BY FS_Subset, FS_CardinalityType, FS_RemoveElement, FS_EmptySet DEF One
<1>2. ASSUME NEW s \in SUBSET S
      PROVE  /\ F[s] = IF s = {} THEN 0 ELSE f[One(s)] + F[s \ {One(s)}]
             /\ G[s] = IF s = {} THEN 0 ELSE g[One(s)] + G[s \ {One(s)}]
  BY DEF Adds
<1>3. 0 \in Ok
  <2>1. Good({})
    <3>1. F[{}] = 0 /\ G[{}] = 0 /\ ~less({})
      BY <1>2
    <3> QED BY <3>1
  <2>2. ASSUME NEW s \in SUBSET S, Cardinality(s) = 0 PROVE Good(s)
    <3>1. s = {}
      BY <1>1, <2>2
    <3> QED BY <2>1, <3>1
  <2> HIDE DEF Good
  <2> QED BY <2>2
<1>4. ASSUME NEW n \in Nat, n \in Ok PROVE n + 1 \in Ok
  <2>1. ASSUME NEW s \in SUBSET S, Cardinality(s) = n + 1 PROVE Good(s)
    <3> DEFINE x == One(s)
               r == s \ {x}
    <3>1. s # {} /\ x \in s /\ r \in SUBSET S /\ Cardinality(r) = n
      BY <1>1, <2>1
    <3>2. Good(r)
      BY <1>4, <3>1
    <3>3. F[s] = f[x] + F[r] /\ G[s] = g[x] + G[r]
      BY <1>2, <3>1
    <3>4. less(s) => less(r) \/ f[x] < g[x]
      OBVIOUS
    <3>5. f[x] \in Nat /\ g[x] \in Nat /\ f[x] <= g[x]
      BY <3>1
    <3> HIDE DEF x, r, less
    <3> QED BY <3>2, <3>3, <3>4, <3>5
  <2> HIDE DEF Good
  <2> QED BY <2>1, n + 1 \in Nat
<1>5. Good(S)
  <2> HIDE DEF Good
  <2>1. Nat \subseteq Ok
    <3> HIDE DEF Ok
    <3> QED BY <1>3, <1>4, Induction
  <2> QED BY <1>1, <2>1
<1> QED
  BY <1>5

\* What MapThenSumSet gives for a set.
Total(g, S) == (CHOOSE F : Adds(g, F, S))[S]
Totals(g, G, D) == G \in [SUBSET D -> Int] /\ Adds(g, G, D) /\ \A S \in SUBSET D : Total(g, S) = G[S]

\* The function exists for whole numbers too, and is the only one.
LEMMA TotalExists ==
    ASSUME NEW D, IsFiniteSet(D), NEW g \in [D -> Int]
    PROVE  \E G : Totals(g, G, D)
<1> DEFINE h == [p \in Int \X D |-> g[p[2]] + p[1]]
           c == [s \in SUBSET D |-> One(s)]
<1>1. h \in [Int \X D -> Int] /\ \A n \in Int, x \in D : h[<<n, x>>] = g[x] + n
  OBVIOUS
<1>2. \A s \in SUBSET D : c[s] = One(s) /\ (s # {} => c[s] \in s)
  BY DEF One
<1> HIDE DEF h, c
<1>3. PICK G \in [SUBSET D -> Int] : Recursive(G, D, 0, h, c)
  BY <1>1, <1>2, Recursion, 0 \in Int
<1>4. \A s \in SUBSET D : G[s] = IF s = {} THEN 0 ELSE g[One(s)] + G[s \ {One(s)}]
  <2> TAKE s \in SUBSET D
  <2>1. G[s] = IF s = {} THEN 0 ELSE h[<<G[s \ {c[s]}], c[s]>>]
    BY <1>3 DEF Recursive
  <2>2. CASE s # {}
    <3>1. One(s) \in D /\ G[s \ {One(s)}] \in Int
      BY <1>2, <2>2
    <3> QED BY <1>1, <1>2, <2>1, <2>2, <3>1
  <2> QED BY <2>1, <2>2
<1>5. Adds(g, G, D)
  <2>1. G = [s \in SUBSET D |-> IF s = {} THEN 0 ELSE g[One(s)] + G[s \ {One(s)}]]
    BY <1>4
  <2> QED BY <2>1 DEF Adds
<1>6. ASSUME NEW S \in SUBSET D PROVE Total(g, S) = G[S]
  <2> DEFINE F == CHOOSE F : Adds(g, F, S)
             Ok == { n \in Nat : \A s \in SUBSET S : Cardinality(s) = n => F[s] = G[s] }
  <2>1. Adds(g, F, S)
    <3> DEFINE R == [s \in SUBSET S |-> G[s]]
    <3>1. \A s \in SUBSET S : R[s] = IF s = {} THEN 0 ELSE g[One(s)] + R[s \ {One(s)}]
      BY <1>4
    <3>2. R = [s \in SUBSET S |-> IF s = {} THEN 0 ELSE g[One(s)] + R[s \ {One(s)}]]
      <4> DEFINE q(s) == IF s = {} THEN 0 ELSE g[One(s)] + R[s \ {One(s)}]
      <4>1. \A s \in SUBSET S : R[s] = q(s)
        BY <3>1
      <4>2. R = [s \in SUBSET S |-> R[s]]
        OBVIOUS
      <4> HIDE DEF R, q
      <4>3. R = [s \in SUBSET S |-> q(s)]
        BY <4>1, <4>2
      <4> QED BY <4>3 DEF q
    <3> HIDE DEF R
    <3>3. Adds(g, R, S)
      BY <3>2 DEF Adds
    <3> QED BY <3>3
  <2> HIDE DEF F
  <2>2. \A s \in SUBSET S : F[s] = IF s = {} THEN 0 ELSE g[One(s)] + F[s \ {One(s)}]
    BY <2>1 DEF Adds
  <2>3. \A s \in SUBSET S :
          /\ IsFiniteSet(s) /\ Cardinality(s) \in Nat
          /\ Cardinality(s) = 0 <=> s = {}
          /\ s # {} => One(s) \in s /\ Cardinality(s \ {One(s)}) = Cardinality(s) - 1
    BY FS_Subset, FS_CardinalityType, FS_RemoveElement, FS_EmptySet DEF One
  <2>4. 0 \in Ok
    BY <1>4, <2>2, <2>3
  <2>5. ASSUME NEW n \in Nat, n \in Ok PROVE n + 1 \in Ok
    <3>1. ASSUME NEW s \in SUBSET S, Cardinality(s) = n + 1 PROVE F[s] = G[s]
      <4>1. s # {} /\ s \ {One(s)} \in SUBSET S /\ Cardinality(s \ {One(s)}) = n
        BY <2>3, <3>1
      <4>2. F[s \ {One(s)}] = G[s \ {One(s)}]
        BY <2>5, <4>1
      <4> QED BY <1>4, <2>2, <4>1, <4>2
    <3> QED BY <3>1, n + 1 \in Nat
  <2>6. Nat \subseteq Ok
    <3> HIDE DEF Ok
    <3> QED BY <2>4, <2>5, Induction
  <2>7. F[S] = G[S]
    BY <2>3, <2>6
  <2> QED BY <2>7 DEF Total, F
<1> QED
  BY <1>3, <1>5, <1>6 DEF Totals

\* It does not matter which element is taken out first.
LEMMA TotalInsert ==
    ASSUME NEW D, IsFiniteSet(D), NEW g \in [D -> Int]
    PROVE  /\ Total(g, {}) = 0
           /\ \A S \in SUBSET D : Total(g, S) \in Int
           /\ \A S \in SUBSET D, x \in D : x \notin S => Total(g, S \union {x}) = Total(g, S) + g[x]
<1>0. PICK G : Totals(g, G, D)
  BY TotalExists
<1>1. G \in [SUBSET D -> Int] /\ Adds(g, G, D) /\ \A S \in SUBSET D : Total(g, S) = G[S]
  BY <1>0 DEF Totals
<1>2. \A s \in SUBSET D : G[s] = IF s = {} THEN 0 ELSE g[One(s)] + G[s \ {One(s)}]
  BY <1>1 DEF Adds
<1>3. \A s \in SUBSET D :
        /\ IsFiniteSet(s) /\ Cardinality(s) \in Nat
        /\ Cardinality(s) = 0 <=> s = {}
        /\ s # {} => One(s) \in s
        /\ \A x \in s : Cardinality(s \ {x}) = Cardinality(s) - 1
  BY FS_Subset, FS_CardinalityType, FS_RemoveElement, FS_EmptySet DEF One
<1> DEFINE Takes(s) == \A x \in s : G[s] = G[s \ {x}] + g[x]
           Ok == { n \in Nat : \A s \in SUBSET D : Cardinality(s) = n => Takes(s) }
<1>4. 0 \in Ok
  BY <1>3
<1>5. ASSUME NEW n \in Nat, n \in Ok PROVE n + 1 \in Ok
  <2>1. ASSUME NEW s \in SUBSET D, Cardinality(s) = n + 1, NEW x \in s PROVE G[s] = G[s \ {x}] + g[x]
    <3> DEFINE y == One(s)
               r == (s \ {x}) \ {y}
    <3>1. y \in s /\ s # {}
      BY <1>3
    <3>2. s \ {x} \in SUBSET D /\ s \ {y} \in SUBSET D /\ Cardinality(s \ {x}) = n /\ Cardinality(s \ {y}) = n
      BY <1>3, <2>1, <3>1
    <3>3. r \in SUBSET D /\ g[x] \in Int /\ g[y] \in Int /\ G[r] \in Int /\ G[s \ {x}] \in Int /\ G[s \ {y}] \in Int
      <4>1. r \in SUBSET D /\ x \in D /\ y \in D
        BY <3>1
      <4>2. G \in [SUBSET D -> Int]
        BY <1>1
      <4> HIDE DEF r, y
      <4> QED BY <3>2, <4>1, <4>2
    <3>4. G[s] = g[y] + G[s \ {y}]
      BY <1>2, <3>1
    <3> HIDE DEF y
    <3>5. CASE x = y
      BY <3>3, <3>4, <3>5
    <3>6. CASE x # y
      <4>1. x \in s \ {y} /\ y \in s \ {x} /\ (s \ {y}) \ {x} = r
        BY <3>1, <3>6
      <4>2. G[s \ {y}] = G[r] + g[x]
        BY <1>5, <3>2, <4>1
      <4>3. G[s \ {x}] = G[r] + g[y]
        BY <1>5, <3>2, <4>1
      <4> HIDE DEF r
      <4> QED BY <3>3, <3>4, <4>2, <4>3
    <3> QED BY <3>5, <3>6
  <2> QED BY <2>1, n + 1 \in Nat
<1>6. Nat \subseteq Ok
  <2> HIDE DEF Ok
  <2> QED BY <1>4, <1>5, Induction
<1>7. ASSUME NEW S \in SUBSET D, NEW x \in D, x \notin S
      PROVE  Total(g, S \union {x}) = Total(g, S) + g[x]
  <2> DEFINE s == S \union {x}
  <2>1. s \in SUBSET D /\ x \in s /\ s \ {x} = S
    BY <1>7
  <2> HIDE DEF s
  <2>2. G[s] = G[s \ {x}] + g[x]
    BY <1>3, <1>6, <2>1
  <2> QED BY <1>1, <2>1, <2>2 DEF s
<1>8. Total(g, {}) = 0
  BY <1>1, <1>2
<1> QED
  BY <1>1, <1>7, <1>8

-----------------------------------------------------------------------------
\* FoldLeft takes the last element of a prefix out.
LEMMA Prefix ==
    ASSUME NEW n \in Nat, NEW k \in 1..n
    PROVE  /\ Max(1..k) = k /\ (1..k) \ {Max(1..k)} = 1..(k - 1)
           /\ 1..k # {} /\ 1..k \in SUBSET (1..n) /\ 1..(k - 1) \in SUBSET (1..n) /\ 1..0 = {}
<1>1. 1..k # {} /\ 1..k \subseteq 1..k /\ k \in Nat
  OBVIOUS
<1>2. Max(1..k) \in 1..k /\ \A x \in 1..k : x <= Max(1..k)
  BY <1>1, Largest
<1>3. Max(1..k) = k
  BY <1>2
<1> QED
  BY <1>1, <1>3

\* The function that FoldLeft defines, for a step h over the positions.
Folds(F, n, V, base, h) ==
    /\ F \in [SUBSET (1..n) -> V]
    /\ \A s \in SUBSET (1..n) :
        /\ s = {} => F[s] = base
        /\ s # {} => /\ Max(s) \in 1..n /\ F[s \ {Max(s)}] \in V
                     /\ F[s] = h[<<F[s \ {Max(s)}], Max(s)>>]

LEMMA FoldExists ==
    ASSUME NEW n \in Nat, NEW V, NEW base \in V, NEW h \in [V \X (1..n) -> V]
    PROVE  \E F : Folds(F, n, V, base, h)
<1> DEFINE c == [s \in SUBSET (1..n) |-> Max(s)]
<1>1. \A s \in SUBSET (1..n) : c[s] = Max(s) /\ (s # {} => c[s] \in s /\ Max(s) \in 1..n)
  BY Largest
<1>2. IsFiniteSet(1..n)
  BY FS_Interval
<1> HIDE DEF c
<1>3. PICK F \in [SUBSET (1..n) -> V] : Recursive(F, 1..n, base, h, c)
  BY <1>1, <1>2, Recursion
<1>4. ASSUME NEW s \in SUBSET (1..n)
      PROVE  /\ s = {} => F[s] = base
             /\ s # {} => /\ Max(s) \in 1..n /\ F[s \ {Max(s)}] \in V
                          /\ F[s] = h[<<F[s \ {Max(s)}], Max(s)>>]
  <2>1. F[s] = IF s = {} THEN base ELSE h[<<F[s \ {c[s]}], c[s]>>]
    BY <1>3 DEF Recursive
  <2>2. s \ {Max(s)} \in SUBSET (1..n)
    OBVIOUS
  <2> QED BY <1>1, <2>1, <2>2
<1> QED
  BY <1>4 DEF Folds

\* What each step of a fold keeps, its result has.
LEMMA FoldStays ==
    ASSUME NEW n \in Nat, NEW V, NEW G, G[{}] \in V,
           \A s \in SUBSET (1..n) : s # {} /\ G[s \ {Max(s)}] \in V => G[s] \in V
    PROVE  G[1..n] \in V
<1> DEFINE Ok == { k \in Nat : k <= n => G[1..k] \in V }
<1>1. 0 \in Ok
  <2>1. 1..0 = {}
    OBVIOUS
  <2> QED BY <2>1
<1>2. ASSUME NEW k \in Nat, k \in Ok PROVE k + 1 \in Ok
  <2> SUFFICES ASSUME k + 1 <= n PROVE G[1..(k + 1)] \in V
    OBVIOUS
  <2>1. k + 1 \in 1..n /\ (k + 1) - 1 = k /\ k <= n
    OBVIOUS
  <2>2. /\ (1..(k + 1)) \ {Max(1..(k + 1))} = 1..k
        /\ 1..(k + 1) # {} /\ 1..(k + 1) \in SUBSET (1..n)
    BY <2>1, Prefix
  <2> QED BY <1>2, <2>1, <2>2
<1> HIDE DEF Ok
<1>3. n \in Ok
  BY <1>1, <1>2, Induction
<1> QED
  BY <1>3 DEF Ok
=============================================================================
