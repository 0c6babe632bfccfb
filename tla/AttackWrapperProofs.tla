-------------------------- MODULE AttackWrapperProofs --------------------------
(* The attack wrapper, proved for any number of traces, any list of them, any *)
(* greeting and pipes that hold a trace.                                      *)
(*                                                                            *)
(* First the list of the traces (TraceSource): what trace_dir_findkey finds   *)
(* in a sorted list is the first entry of the key that has num_dbkey smaller  *)
(* ones, from which on the traces of that key follow one another in their     *)
(* order.  The code counts the changes of the key along the list; Wanted      *)
(* counts keys and traces and says nothing of places.                         *)
(*                                                                            *)
(* Then the two semaphores: as long as the attack program lives, the main     *)
(* thread does not copy next_trace while the trace thread fills it.  Then the *)
(* invariant IInv, which says for every place of the three threads what is in *)
(* the pipes, and from it: the types, that no write to the attack program     *)
(* finds its pipe full, and that the result file is the one that ResultFile   *)
(* promises.                                                                  *)
EXTENDS AttackWrapper, InductionFacts, SequenceTheorems, TLAPS

\* index_key of trace_dir_findkey counts these.
Changes(list, i) == {j \in 2..i : list[j].key # list[j - 1].key}

\* What trace_dir_init makes of the entries it is given.
Sorted(kind, list) ==
    /\ Len(list) \in Nat /\ DOMAIN list = 1..Len(list)
    /\ \A i \in DOMAIN list : list[i] \in Entry
    /\ \A i, j \in DOMAIN list : i < j => ~tracecmp(kind, list[j], list[i])

\* The remainder by which trace_dir_findkey turns "not found" into 0.
LEMMA Remainder ==
    ASSUME NEW n \in Nat, NEW x \in 0..(n + 1)
    PROVE  x % (n + 1) = IF x = n + 1 THEN 0 ELSE x
<1>1. CASE x = n + 1
  BY <1>1, SMT
<1>2. CASE x < n + 1
  BY <1>2, SMT
<1> QED
  BY <1>1, <1>2

LEMMA ListedFiles ==
    ASSUME NEW kind, NEW entries, entries \subseteq Entry, IsFiniteSet(entries),
           NEW list \in trace_dir_init(kind, entries), NEW number \in Nat
    PROVE  /\ Len(list) \in Nat /\ DOMAIN list = 1..Len(list)
           /\ \A i \in DOMAIN list : list[i] \in entries
           /\ \A i, j \in DOMAIN list : i < j => ~tracecmp(kind, list[j], list[i])
           /\ trace_dir_findkey(list, number) \in 0..Len(list)
<1> DEFINE S == {e \in entries : e.usable}
           n == Cardinality(S)
<1>1. IsFiniteSet(S) /\ n \in Nat
  <2>1. S \in SUBSET entries
    OBVIOUS
  <2>2. IsFiniteSet(S)
    BY <2>1, FS_Subset
  <2> QED
    BY <2>2, FS_CardinalityType
<1>2. list \in [1..n -> S] /\ \A i, j \in DOMAIN list :
                                  i < j => ~tracecmp(kind, list[j], list[i])
  BY DEF trace_dir_init, SetToSeqs
<1>3. Len(list) = n /\ DOMAIN list = 1..n
  BY <1>1, <1>2
<1>4. trace_dir_findkey(list, number) \in 0..Len(list)
  <2> DEFINE T == {i \in DOMAIN list : Cardinality(Changes(list, i)) = number}
                    \union {Len(list) + 1}
  <2>1. T \subseteq 1..(n + 1) /\ T # {}
    <3>1. \A i \in 1..n : i \in 1..(n + 1)
      <4> HIDE DEF n
      <4> QED BY <1>1
    <3>2. n + 1 \in 1..(n + 1)
      <4> HIDE DEF n
      <4> QED BY <1>1
    <3> QED
      BY <1>3, <3>1, <3>2, Zenon
  <2>2. Min(T) \in T
    <3>1. T \subseteq Nat
      <4> HIDE DEF T, n
      <4> QED BY <2>1
    <3> QED
      BY <2>1, <3>1, Smallest, Zenon
  <2>3. Min(T) \in 0..(n + 1)
    BY <1>1, <1>3, <2>2
  <2>4. Min(T) % (n + 1) \in 0..n
    <3> HIDE DEF T, n
    <3> QED BY <1>1, <2>3, Remainder
  <2> QED
    BY <1>3, <2>4 DEF trace_dir_findkey, Changes
<1> QED
  BY <1>1, <1>2, <1>3, <1>4

LEMMA FilesSorted ==
    ASSUME NEW kind, NEW entries, entries \subseteq Entry, IsFiniteSet(entries),
           NEW list \in trace_dir_init(kind, entries)
    PROVE  Sorted(kind, list)
BY ListedFiles DEF Sorted

\* The search stops at the first place with so many changes before it.
LEMMA FoundKey ==
    ASSUME NEW kind, NEW list, Sorted(kind, list), NEW number \in Nat,
           NEW first, first = trace_dir_findkey(list, number), first # 0
    PROVE  /\ first \in DOMAIN list /\ Cardinality(Changes(list, first)) = number
           /\ \A i \in DOMAIN list :
                Cardinality(Changes(list, i)) = number => first <= i
<1> DEFINE n == Len(list)
           P == {i \in DOMAIN list : Cardinality(Changes(list, i)) = number}
           T == P \union {n + 1}
<1>1. n \in Nat /\ DOMAIN list = 1..n
  BY DEF Sorted
<1>2. first = Min(T) % (n + 1)
  BY Zenon DEF trace_dir_findkey, Changes
<1>3. P \subseteq 1..n
  BY <1>1
<1> HIDE DEF n, P
<1>4. T \subseteq Nat /\ T # {} /\ T \subseteq 0..(n + 1)
  BY <1>1, <1>3
<1>5. Min(T) \in T /\ \A x \in T : Min(T) <= x
  <2> HIDE DEF T
  <2> QED BY <1>4, Smallest, Zenon
<1>6. PICK m : m = Min(T)
  OBVIOUS
<1>7. m \in 0..(n + 1) /\ m \in T /\ \A x \in T : m <= x
  <2> HIDE DEF T
  <2> QED BY <1>4, <1>5, <1>6, Zenon
<1>8. first = IF m = n + 1 THEN 0 ELSE m
  BY <1>1, <1>2, <1>6, <1>7, Remainder
<1>9. first \in P /\ \A x \in P : first <= x
  BY <1>7, <1>8
<1> QED
  BY <1>9, Zenon DEF P

LEMMA ChangesFinite ==
    ASSUME NEW list, NEW i \in Nat
    PROVE  IsFiniteSet(Changes(list, i)) /\ Cardinality(Changes(list, i)) \in Nat
<1>1. Changes(list, i) \in SUBSET (2..i)
  BY DEF Changes
<1>2. IsFiniteSet(Changes(list, i))
  BY <1>1, FS_Interval, FS_Subset
<1> QED
  BY <1>2, FS_CardinalityType

\* There the key begins, since the place before it has fewer changes.
LEMMA KeyBegins ==
    ASSUME NEW kind, NEW list, Sorted(kind, list), NEW number \in Nat,
           NEW first, first = trace_dir_findkey(list, number), first # 0,
           NEW i \in DOMAIN list, i < first
    PROVE  list[i].key < list[first].key
<1>1. /\ first \in DOMAIN list /\ Cardinality(Changes(list, first)) = number
      /\ \A j \in DOMAIN list :
           Cardinality(Changes(list, j)) = number => first <= j
  BY FoundKey, Zenon
<1>2. /\ first \in Nat /\ i \in Nat /\ first - 1 \in DOMAIN list /\ first - 1 \in Nat
      /\ i <= first - 1 /\ first \in 2..first
  BY <1>1 DEF Sorted
<1>3. list[first].key # list[first - 1].key
  <2> SUFFICES ASSUME list[first].key = list[first - 1].key PROVE FALSE
    OBVIOUS
  <2>1. Changes(list, first) = Changes(list, first - 1)
    <3>1. \A j : j \in 2..first <=> j \in 2..(first - 1) \/ j = first
      BY <1>2
    <3> QED
      BY <3>1, <1>2 DEF Changes
  <2>2. first <= first - 1
    BY <1>1, <1>2, <2>1
  <2> QED
    BY <1>2, <2>2
<1>4. /\ list[first - 1] \in Entry /\ list[first] \in Entry /\ list[i] \in Entry
      /\ ~tracecmp(kind, list[first], list[first - 1])
      /\ i < first - 1 => ~tracecmp(kind, list[first - 1], list[i])
  BY <1>1, <1>2 DEF Sorted
<1>5. /\ list[first - 1].key \in Nat /\ list[first].key \in Nat /\ list[i].key \in Nat
      /\ ~(list[first].key < list[first - 1].key)
      /\ i = first - 1 \/ ~(list[first - 1].key < list[i].key)
  BY <1>2, <1>4 DEF tracecmp, Entry
<1> QED
  BY <1>3, <1>5

LEMMA Ascending ==
    ASSUME NEW kind, NEW list, Sorted(kind, list)
    PROVE  /\ \A i \in DOMAIN list : list[i].key \in Nat /\ Stamp(kind, list[i]) \in Nat
           /\ \A i, j \in DOMAIN list : i <= j =>
                /\ list[i].key <= list[j].key
                /\ list[i].key = list[j].key =>
                     Stamp(kind, list[i]) <= Stamp(kind, list[j])
<1>1. \A i \in DOMAIN list :
        /\ list[i].key \in Nat /\ list[i].text \in Nat /\ list[i].index \in Nat
        /\ Stamp(kind, list[i]) = IF kind = "dir" THEN list[i].text ELSE list[i].index
  BY DEF Sorted, Entry, Stamp
<1>2. \A i, j \in DOMAIN list : i < j =>
        /\ list[i].key <= list[j].key
        /\ list[i].key = list[j].key => Stamp(kind, list[i]) <= Stamp(kind, list[j])
  <2> SUFFICES ASSUME NEW i \in DOMAIN list, NEW j \in DOMAIN list, i < j
               PROVE  /\ list[i].key <= list[j].key
                      /\ list[i].key = list[j].key =>
                           Stamp(kind, list[i]) <= Stamp(kind, list[j])
    OBVIOUS
  <2>1. ~tracecmp(kind, list[j], list[i])
    BY DEF Sorted
  <2> QED
    BY <1>1, <2>1 DEF tracecmp
<1>3. \A i, j \in DOMAIN list : i <= j => i < j \/ i = j
  BY DEF Sorted
<1>4. \A i \in DOMAIN list : list[i].key <= list[i].key
                              /\ Stamp(kind, list[i]) <= Stamp(kind, list[i])
  BY <1>1
<1> QED
  BY <1>1, <1>2, <1>3, <1>4

LEMMA KeysFinite ==
    ASSUME NEW kind, NEW list, Sorted(kind, list)
    PROVE  IsFiniteSet(KeysOf(list)) /\ Cardinality(KeysOf(list)) \in Nat
<1> DEFINE f == [i \in DOMAIN list |-> list[i].key]
<1>1. f \in Surjection(DOMAIN list, KeysOf(list))
  BY DEF Surjection, KeysOf
<1>2. IsFiniteSet(DOMAIN list)
  BY FS_Interval DEF Sorted
<1>3. IsFiniteSet(KeysOf(list))
  BY <1>1, <1>2, FS_Surjection, Zenon
<1> QED
  BY <1>3, FS_CardinalityType

\* Every change before a place leaves one smaller key behind.
LEMMA RankIsChanges ==
    ASSUME NEW kind, NEW list, Sorted(kind, list), NEW i \in DOMAIN list
    PROVE  Rank(list[i].key, list) = Cardinality(Changes(list, i))
<1> DEFINE S == Changes(list, i)
           T == {x \in KeysOf(list) : x < list[i].key}
           f == [j \in S |-> list[j - 1].key]
<1>1. Len(list) \in Nat /\ DOMAIN list = 1..Len(list)
  BY DEF Sorted
<1>2. \A a \in DOMAIN list : list[a].key \in Nat
  BY Ascending, Zenon
<1>3. \A a, b \in DOMAIN list : a <= b => list[a].key <= list[b].key
  BY Ascending, Zenon
<1>4. \A j \in S : /\ j \in Nat /\ j <= i /\ j - 1 \in DOMAIN list /\ j \in DOMAIN list
                   /\ list[j - 1].key < list[j].key
  <2> TAKE j \in S
  <2>1. j \in Nat /\ j <= i /\ j - 1 \in DOMAIN list /\ j \in DOMAIN list /\ j - 1 <= j
        /\ list[j].key # list[j - 1].key
    BY <1>1 DEF Changes
  <2> QED
    BY <1>2, <1>3, <2>1
<1>5. f \in [S -> T]
  <2> SUFFICES ASSUME NEW j \in S PROVE list[j - 1].key \in T
    OBVIOUS
  <2>1. list[j - 1].key < list[i].key
    BY <1>2, <1>3, <1>4
  <2> QED
    BY <1>4, <2>1 DEF KeysOf
<1>6. \A j, k \in S : j < k => f[j] < f[k]
  <2> SUFFICES ASSUME NEW j \in S, NEW k \in S, j < k
               PROVE  list[j - 1].key < list[k - 1].key
    OBVIOUS
  <2>1. j <= k - 1
    BY <1>4
  <2> QED
    BY <1>2, <1>3, <1>4, <2>1
<1>7. f \in Injection(S, T)
  <2>1. \A j, k \in S : j < k \/ k < j \/ j = k
    BY <1>4
  <2>2. \A j \in S : f[j] \in Nat
    BY <1>2, <1>4
  <2>3. \A j, k \in S : f[j] = f[k] => j = k
    <3> HIDE DEF f
    <3> QED BY <1>6, <2>1, <2>2
  <2> QED
    BY <1>5, <2>3 DEF Injection, IsInjective
<1>8. \A x \in T : \E j \in S : f[j] = x
  <2> TAKE x \in T
  <2>1. PICK a \in DOMAIN list : list[a].key = x
    BY DEF KeysOf
  <2>2. a < i
    BY <1>1, <1>2, <1>3, <2>1
  <2> DEFINE Later == {b \in DOMAIN list : a < b /\ list[b].key # x}
  <2>3. Later \subseteq Nat /\ i \in Later
    BY <1>1, <1>2, <2>2
  <2>4. Later # {}
    BY <2>3
  <2> HIDE DEF Later
  <2>5. PICK j : j \in Later /\ \A b \in Later : j <= b
    BY <2>3, <2>4, Smallest
  <2> USE DEF Later
  <2>6. /\ j \in 2..i /\ j - 1 \in DOMAIN list /\ a <= j - 1 /\ j - 1 < j /\ j \in DOMAIN list
        /\ list[j].key # x
    BY <1>1, <2>2, <2>3, <2>5
  <2>7. list[j - 1].key = x
    <3> SUFFICES ASSUME list[j - 1].key # x PROVE FALSE
      OBVIOUS
    <3>1. a < j - 1
      BY <1>1, <2>1, <2>6
    <3>2. j <= j - 1
      BY <2>5, <2>6, <3>1
    <3> QED
      BY <1>1, <2>6, <3>2
  <2>8. j \in S
    BY <2>6, <2>7 DEF Changes
  <2> QED
    BY <2>7, <2>8
<1>9. f \in Bijection(S, T)
  BY <1>5, <1>7, <1>8 DEF Bijection, Surjection
<1>10. IsFiniteSet(S)
  BY <1>1, ChangesFinite
<1>11. Cardinality(T) = Cardinality(S)
  <2> HIDE DEF S, T, f
  <2> QED BY <1>9, <1>10, FS_Bijection DEF ExistsBijection
<1> QED
  BY <1>11 DEF Rank

LEMMA SmallerKeysFewer ==
    ASSUME NEW kind, NEW list, Sorted(kind, list),
           NEW k \in KeysOf(list), NEW m \in KeysOf(list), k < m
    PROVE  Rank(k, list) < Rank(m, list) /\ Rank(k, list) \in Nat /\ Rank(m, list) \in Nat
<1> DEFINE S == {x \in KeysOf(list) : x < k}
           T == {x \in KeysOf(list) : x < m}
<1>1. \A x \in KeysOf(list) : x \in Nat
  BY Ascending DEF KeysOf
<1>2. S \in SUBSET T /\ k \in T /\ k \notin S
  BY <1>1
<1>3. IsFiniteSet(T)
  <2>1. T \in SUBSET KeysOf(list)
    OBVIOUS
  <2> QED
    BY <2>1, KeysFinite, FS_Subset
<1>4. /\ IsFiniteSet(S) /\ Cardinality(S) <= Cardinality(T)
      /\ Cardinality(S) = Cardinality(T) => S = T
  <2> HIDE DEF S, T
  <2> QED BY <1>2, <1>3, FS_Subset, FS_CardinalityType
<1>5. Cardinality(S) # Cardinality(T)
  <2> HIDE DEF S, T
  <2> QED BY <1>2, <1>4
<1>6. Cardinality(S) \in Nat /\ Cardinality(T) \in Nat
  BY <1>3, <1>4, FS_CardinalityType
<1>7. Cardinality(S) < Cardinality(T)
  BY <1>4, <1>5, <1>6
<1> QED
  BY <1>6, <1>7 DEF Rank

\* The key that trace_dir_findkey finds is the one with num_dbkey smaller ones.
LEMMA KeyFound ==
    ASSUME NEW kind, NEW list, Sorted(kind, list), NEW number \in Nat,
           NEW first, first = trace_dir_findkey(list, number), first # 0
    PROVE  /\ KeyNumber(list, number) = list[first].key
           /\ number < Cardinality(KeysOf(list))
<1> DEFINE k == list[first].key
<1>1. first \in DOMAIN list /\ Cardinality(Changes(list, first)) = number
  BY FoundKey, Zenon
<1>2. k \in KeysOf(list) /\ Rank(k, list) = number
  BY <1>1, RankIsChanges DEF KeysOf
<1>3. \A x \in KeysOf(list) : x \in Nat
  BY Ascending DEF KeysOf
<1>4. \A x \in KeysOf(list) : Rank(x, list) = number => x = k
  <2> SUFFICES ASSUME NEW x \in KeysOf(list), Rank(x, list) = number, x # k PROVE FALSE
    OBVIOUS
  <2>1. x < k \/ k < x
    BY <1>2, <1>3
  <2>2. x < k => Rank(x, list) < Rank(k, list)
    BY <1>2, SmallerKeysFewer, Zenon
  <2>3. k < x => Rank(k, list) < Rank(x, list)
    BY <1>2, SmallerKeysFewer, Zenon
  <2> QED
    BY <1>2, <2>1, <2>2, <2>3
<1>5. KeyNumber(list, number) = k
  BY <1>2, <1>4, Zenon DEF KeyNumber
<1>6. number < Cardinality(KeysOf(list))
  <2> DEFINE S == {x \in KeysOf(list) : x < k}
  <2>1. S \in SUBSET KeysOf(list) /\ k \notin S
    BY <1>2, <1>3
  <2>2. Cardinality(S) = number
    BY <1>2 DEF Rank
  <2> HIDE DEF S
  <2>3. Cardinality(S) <= Cardinality(KeysOf(list))
        /\ Cardinality(S) # Cardinality(KeysOf(list))
    BY <1>2, <2>1, KeysFinite, FS_Subset
  <2> QED
    BY <2>2, <2>3, KeysFinite
<1> QED
  BY <1>5, <1>6

\* trace_dir_findkey finds a key whenever there are enough of them: the ranks of
\* n keys are the numbers below n, and every rank is the number of changes before
\* a place.
THEOREM KeyFoundIfThere ==
    ASSUME NEW kind, NEW list, Sorted(kind, list), NEW number \in Nat
    PROVE  trace_dir_findkey(list, number) # 0 <=> number < Cardinality(KeysOf(list))
<1> DEFINE K == KeysOf(list)
           n == Cardinality(K)
           f == [k \in K |-> Rank(k, list)]
<1>1. IsFiniteSet(K) /\ n \in Nat /\ \A k \in K : k \in Nat
  BY KeysFinite, Ascending DEF KeysOf
<1>2. \A k \in K : Rank(k, list) \in 0..(n - 1)
  <2> TAKE k \in K
  <2> DEFINE S == {x \in K : x < k}
  <2>1. S \in SUBSET K /\ k \notin S
    BY <1>1
  <2>2. Cardinality(S) <= n /\ Cardinality(S) # n /\ Cardinality(S) \in Nat
    <3> HIDE DEF S, K
    <3> QED BY <1>1, <2>1, FS_Subset, FS_CardinalityType
  <2>3. Cardinality(S) \in 0..(n - 1)
    <3> HIDE DEF S, n
    <3> QED BY <1>1, <2>2
  <2> QED
    BY <2>3 DEF Rank
<1>3. \A k, m \in K : Rank(k, list) = Rank(m, list) => k = m
  <2> SUFFICES ASSUME NEW k \in K, NEW m \in K, Rank(k, list) = Rank(m, list), k # m
               PROVE  FALSE
    OBVIOUS
  <2>1. k < m \/ m < k
    BY <1>1
  <2> QED
    BY <2>1, SmallerKeysFewer
<1>4. f \in Injection(K, 0..(n - 1))
  BY <1>2, <1>3 DEF Injection, IsInjective
<1>5. f \in Surjection(K, 0..(n - 1))
  <2>1. IsFiniteSet(0..(n - 1)) /\ Cardinality(0..(n - 1)) = n
    <3> HIDE DEF n
    <3>1. n - 1 \in Int /\ (IF 0 > n - 1 THEN 0 ELSE n - 1 - 0 + 1) = n
      BY <1>1
    <3> QED
      BY <3>1, FS_Interval
  <2> HIDE DEF f, K
  <2> QED BY <1>4, <2>1, FS_Injection
<1>6. CASE number < n
  <2>1. number \in 0..(n - 1)
    <3> HIDE DEF n
    <3> QED BY <1>1, <1>6
  <2>2. PICK k \in K : Rank(k, list) = number
    BY <1>5, <2>1 DEF Surjection
  <2>3. PICK i \in DOMAIN list : list[i].key = k
    BY DEF KeysOf
  <2>4. Cardinality(Changes(list, i)) = number
    BY <2>2, <2>3, RankIsChanges
  <2> DEFINE N == Len(list)
             T == {j \in DOMAIN list : Cardinality(Changes(list, j)) = number}
                    \union {N + 1}
  <2>5. N \in Nat /\ DOMAIN list = 1..N
    BY DEF Sorted
  <2>6. i \in T /\ i \in 1..N /\ \A x \in T : x \in 1..(N + 1)
    <3> HIDE DEF N
    <3> QED BY <2>4, <2>5
  <2>7. trace_dir_findkey(list, number) = Min(T) % (N + 1)
    BY Zenon DEF trace_dir_findkey, Changes
  <2> HIDE DEF T, N
  <2>8. T \subseteq Nat /\ T # {}
    BY <2>5, <2>6
  <2>9. Min(T) \in T /\ Min(T) <= i
    BY <2>6, <2>8, Smallest
  <2>10. PICK m : m = Min(T)
    OBVIOUS
  <2>11. m \in 1..N
    BY <2>5, <2>6, <2>9, <2>10
  <2>12. m % (N + 1) = m
    BY <2>5, <2>11, Remainder
  <2> QED
    BY <1>6, <2>5, <2>7, <2>10, <2>11, <2>12
<1>7. trace_dir_findkey(list, number) # 0 => number < n
  BY KeyFound, Zenon
<1> QED
  BY <1>6, <1>7

\* Among the traces of one key, the place in the sorted list is the order wanted.
LEMMA EarlierPlaces ==
    ASSUME NEW kind, NEW list, Sorted(kind, list), NEW i \in DOMAIN list
    PROVE  Earlier(kind, i, list) = {j \in PlacesOf(list[i].key, list) : j < i}
<1>1. Len(list) \in Nat /\ DOMAIN list = 1..Len(list)
  BY DEF Sorted
<1>2. \A a \in DOMAIN list : Stamp(kind, list[a]) \in Nat
  BY Ascending, Zenon
<1>3. \A a, b \in DOMAIN list : a <= b /\ list[a].key = list[b].key =>
                                   Stamp(kind, list[a]) <= Stamp(kind, list[b])
  BY Ascending, Zenon
<1>4. \A j \in PlacesOf(list[i].key, list) :
        j \in DOMAIN list /\ list[j].key = list[i].key
  BY DEF PlacesOf
<1>5. \A j \in PlacesOf(list[i].key, list) :
        \/ Stamp(kind, list[j]) < Stamp(kind, list[i])
        \/ Stamp(kind, list[j]) = Stamp(kind, list[i]) /\ j < i
        <=> j < i
  <2> TAKE j \in PlacesOf(list[i].key, list)
  <2>1. /\ j <= i => Stamp(kind, list[j]) <= Stamp(kind, list[i])
        /\ i <= j => Stamp(kind, list[i]) <= Stamp(kind, list[j])
    BY <1>3, <1>4
  <2> QED
    BY <1>1, <1>2, <1>4, <2>1
<1> QED
  BY <1>5 DEF Earlier

\* From the found place on, the list holds what is wanted, in that order, as long
\* as the key is the same.
THEOREM WantedFound ==
    ASSUME NEW kind, NEW list, Sorted(kind, list), NEW number \in Nat,
           NEW first, first = trace_dir_findkey(list, number), first # 0,
           NEW m \in Nat \ {0}, first + m - 1 \in DOMAIN list,
           list[first + m - 1].key = list[first].key
    PROVE  /\ Len(Wanted(kind, list, number)) \in Nat
           /\ m <= Len(Wanted(kind, list, number))
           /\ Wanted(kind, list, number)[m] = list[first + m - 1]
<1> DEFINE key == list[first].key
           ours == PlacesOf(key, list)
           Found(n, i) == Cardinality(Earlier(kind, i, list)) = n - 1
           W == Wanted(kind, list, number)
           p == first + m - 1
<1>1. Len(list) \in Nat /\ DOMAIN list = 1..Len(list) /\ first \in DOMAIN list
  BY FoundKey DEF Sorted
<1>2. first \in Nat /\ p \in Nat /\ first <= p /\ p \in DOMAIN list
  BY <1>1
<1>3. W = [n \in 1..Cardinality(ours) |-> list[CHOOSE i \in ours : Found(n, i)]]
  <2>1. KeyNumber(list, number) = key /\ number < Cardinality(KeysOf(list))
    BY KeyFound, Zenon
  <2>2. ~(Cardinality(KeysOf(list)) <= number)
    BY <2>1, KeysFinite
  <2> DEFINE G(s) ==
        [n \in 1..Cardinality(s) |->
            list[CHOOSE i \in s : Cardinality(Earlier(kind, i, list)) = n - 1]]
  <2>3. W = G(PlacesOf(KeyNumber(list, number), list))
    BY <2>2 DEF Wanted
  <2>4. W = G(ours)
    <3> HIDE DEF G
    <3> QED BY <2>1, <2>3
  <2> QED
    BY <2>4
<1>4. \A i \in DOMAIN list : list[i].key \in Nat
  BY Ascending, Zenon
<1>5. \A i \in first..p : i \in ours
  <2> TAKE i \in first..p
  <2>1. i \in DOMAIN list /\ first <= i /\ i <= p
    BY <1>1, <1>2
  <2>2. list[first].key <= list[i].key /\ list[i].key <= list[p].key
    BY <1>1, <1>2, <2>1, Ascending, Zenon
  <2>3. list[i].key = key
    BY <1>1, <1>2, <1>4, <2>1, <2>2
  <2> QED
    BY <2>1, <2>3 DEF PlacesOf
<1>6. \A i \in ours : i \in DOMAIN list /\ list[i].key = key /\ first <= i /\ i \in Nat
  <2> TAKE i \in ours
  <2>1. i \in DOMAIN list /\ list[i].key = key /\ i \in Nat
    BY <1>1 DEF PlacesOf
  <2>2. ~(i < first)
    BY <1>4, <2>1, <1>1, KeyBegins
  <2> QED
    BY <1>2, <2>1, <2>2
<1>7. IsFiniteSet(ours) /\ Cardinality(ours) \in Nat
  <2>1. IsFiniteSet(DOMAIN list) /\ ours \in SUBSET (DOMAIN list)
    BY <1>1, <1>6, FS_Interval
  <2>2. IsFiniteSet(ours)
    BY <2>1, FS_Subset
  <2> QED
    BY <2>2, FS_CardinalityType
<1>8. Cardinality(first..p) = m /\ Cardinality(first..(p - 1)) = m - 1
  <2>1. p \in Int /\ p - 1 \in Int /\ first \in Int
    BY <1>2
  <2>2. Cardinality(first..p) = IF first > p THEN 0 ELSE p - first + 1
    <3> HIDE DEF p
    <3> QED BY <2>1, FS_Interval
  <2>3. Cardinality(first..(p - 1)) = IF first > p - 1 THEN 0 ELSE p - 1 - first + 1
    <3> HIDE DEF p
    <3> QED BY <2>1, FS_Interval
  <2> QED
    BY <1>2, <2>2, <2>3
<1>9. m <= Cardinality(ours)
  <2>1. first..p \in SUBSET ours
    BY <1>5
  <2> HIDE DEF ours, p
  <2>2. Cardinality(first..p) <= Cardinality(ours)
    BY <1>7, <2>1, FS_Subset
  <2> QED
    BY <1>8, <2>2
<1>10. \A i \in ours : Earlier(kind, i, list) = {j \in ours : j < i}
  BY <1>6, EarlierPlaces
<1>11. p \in ours /\ Found(m, p)
  <2>1. p \in first..p
    BY <1>2
  <2>2. p \in ours
    BY <1>5, <2>1
  <2>3. {j \in ours : j < p} = first..(p - 1)
    <3>1. \A j \in ours : j < p => j \in first..(p - 1)
      BY <1>2, <1>6
    <3>2. \A j \in first..(p - 1) : j \in ours /\ j < p
      BY <1>2, <1>5
    <3> QED
      BY <3>1, <3>2
  <2> QED
    BY <1>8, <1>10, <2>2, <2>3
<1>12. \A i, j \in ours : i < j =>
         Cardinality(Earlier(kind, i, list)) # Cardinality(Earlier(kind, j, list))
  <2> SUFFICES ASSUME NEW i \in ours, NEW j \in ours, i < j
               PROVE  Cardinality(Earlier(kind, i, list))
                        # Cardinality(Earlier(kind, j, list))
    OBVIOUS
  <2> DEFINE S == {a \in ours : a < i}
             T == {a \in ours : a < j}
  <2>1. S \in SUBSET T /\ i \in T /\ i \notin S
    BY <1>6
  <2>2. IsFiniteSet(T)
    <3>1. T \in SUBSET ours
      OBVIOUS
    <3> QED
      BY <1>7, <3>1, FS_Subset
  <2>3. Cardinality(S) # Cardinality(T)
    <3> HIDE DEF S, T
    <3> QED BY <2>1, <2>2, FS_Subset
  <2> QED
    BY <1>10, <2>3
<1>13. \A i \in ours : Found(m, i) => i = p
  <2> SUFFICES ASSUME NEW i \in ours, Found(m, i), i # p PROVE FALSE
    OBVIOUS
  <2>1. i < p \/ p < i
    BY <1>2, <1>6
  <2> QED
    BY <1>11, <1>12, <2>1
<1>14. (CHOOSE i \in ours : Found(m, i)) = p
  <2> HIDE DEF Found, ours, p
  <2> QED BY <1>11, <1>13
<1>15. Len(W) = Cardinality(ours)
  BY <1>3, <1>7
<1>16. m \in 1..Cardinality(ours)
  BY <1>7, <1>9
<1>17. W[m] = list[p]
  <2> HIDE DEF Found, ours, p, W
  <2> QED BY <1>3, <1>14, <1>16
<1> QED
  BY <1>7, <1>9, <1>15, <1>17

-----------------------------------------------------------------------------

Copying == mpc \in {"copy", "copy_samples"}
Fetching == tpc \in {"fetch", "texts"}

\* There is one permission: it is in one of the semaphores or held by one of
\* the two threads.
Permissions ==
    to_read + to_write + (IF Copying THEN 1 ELSE 0) + (IF Fetching THEN 1 ELSE 0)

\* The inductive invariant.  An interrupted sem_wait makes a second permission
\* out of nothing, but only a SIGCHLD interrupts it, which in fork mode tells
\* that the attack program has ended and in FIFO mode does not exist.
OnePermission ==
    /\ to_read \in Nat /\ to_write \in Nat
    /\ sigchld => mode = "fork" /\ ~AttackAlive
    /\ AttackAlive \/ mode = "fifo" => Permissions <= 1

-----------------------------------------------------------------------------
\* An attack program that has ended stays so.
LEMMA NoRevival == [Next]_vars /\ AttackAlive' => AttackAlive
<1> SUFFICES ASSUME [Next]_vars, ~AttackAlive PROVE ~AttackAlive'
  OBVIOUS
<1>1. CASE UNCHANGED <<apc>>
  BY <1>1 DEF AttackAlive
<1>2. CASE Attack \/ AttackDies
  BY <1>2 DEF Attack, AttackDies, AttackAlive, read_num, write_data, read_trace, AttackEnds
<1>3. CASE Main
  BY <1>1, <1>3 DEF Main, attackVars, SendFails, send_num_iterations, wait_start_attack_phase,
        NothingToRead, GetTrace, CopyText, CopySamples, send_trace, read_result,
        wait_trace_thread_termination, WaitChild
<1>4. CASE Signals \/ TraceThread \/ UNCHANGED vars
  BY <1>1, <1>4 DEF Signals, TraceThread, vars, attackVars, sig_chld_handler, Interrupted,
        AwaitWritable, NoMoreTraces, ParseSamples, FillTexts
<1> QED
  BY <1>2, <1>3, <1>4 DEF Next

\* Nothing is posted at first.
LEMMA InitPermission == Init => OnePermission
  BY DEF Init, OnePermission, Permissions, Copying, Fetching, AttackAlive

\* The main thread takes a permission before it copies and posts it afterwards.
LEMMA MainPermission ==
    ASSUME OnePermission, Main
    PROVE  OnePermission'
<1>1. UNCHANGED <<mode, apc, sigchld>> /\ (AttackAlive' <=> AttackAlive)
  BY DEF Main, setup, attackVars, AttackAlive, SendFails, send_num_iterations,
        wait_start_attack_phase, NothingToRead, GetTrace, CopyText, CopySamples, send_trace,
        read_result, wait_trace_thread_termination, WaitChild
<1>2. CASE SendFails \/ send_num_iterations \/ NothingToRead
  BY <1>1, <1>2 DEF OnePermission, Permissions, Copying, Fetching, SendFails,
        send_num_iterations, NothingToRead, threadVars, semaphores
<1>3. CASE wait_start_attack_phase
  BY <1>1, <1>3 DEF OnePermission, Permissions, Copying, Fetching, wait_start_attack_phase,
        semaphores
<1>4. CASE GetTrace
  BY <1>1, <1>4 DEF OnePermission, Permissions, Copying, Fetching, GetTrace, threadVars
<1>5. CASE CopyText \/ CopySamples
  BY <1>1, <1>5 DEF OnePermission, Permissions, Copying, Fetching, CopyText, CopySamples,
        threadVars, semaphores
<1>6. CASE send_trace \/ read_result \/ wait_trace_thread_termination \/ WaitChild
  BY <1>1, <1>6 DEF OnePermission, Permissions, Copying, Fetching, send_trace, read_result,
        wait_trace_thread_termination, WaitChild, threadVars, semaphores
<1> QED
  BY <1>2, <1>3, <1>4, <1>5, <1>6 DEF Main

\* The trace thread takes one before it fetches and posts it afterwards.
LEMMA ThreadPermission ==
    ASSUME OnePermission, TraceThread
    PROVE  OnePermission'
<1>1. UNCHANGED <<mode, apc, sigchld>> /\ (AttackAlive' <=> AttackAlive)
  BY DEF TraceThread, setup, attackVars, AttackAlive, AwaitWritable, NoMoreTraces,
        ParseSamples, FillTexts
<1>2. CASE AwaitWritable
  BY <1>1, <1>2 DEF OnePermission, Permissions, Copying, Fetching, AwaitWritable, mainVars
<1>3. CASE NoMoreTraces
  BY <1>1, <1>3 DEF OnePermission, Permissions, Copying, Fetching, NoMoreTraces, threadVars,
        semaphores
<1>4. CASE ParseSamples
  BY <1>1, <1>4 DEF OnePermission, Permissions, Copying, Fetching, ParseSamples, mainVars,
        semaphores
<1>5. CASE FillTexts
  BY <1>1, <1>5 DEF OnePermission, Permissions, Copying, Fetching, FillTexts, mainVars
<1> QED
  BY <1>2, <1>3, <1>4, <1>5 DEF TraceThread

\* A signal is delivered only when the attack program has ended.
LEMMA SignalPermission ==
    ASSUME OnePermission, Signals
    PROVE  OnePermission'
<1>1. sigchld /\ ~sigchld' /\ UNCHANGED <<mode, apc, to_read, to_write>>
  BY DEF Signals, sig_chld_handler, Interrupted, setup, attackVars, semaphores
<1>2. mode' = "fork" /\ ~AttackAlive'
  BY <1>1 DEF OnePermission, AttackAlive
<1> QED
  BY <1>1, <1>2 DEF OnePermission

\* The attack program touches neither semaphore; its end raises the signal.
LEMMA AttackPermission ==
    ASSUME OnePermission, Attack \/ AttackDies \/ UNCHANGED vars
    PROVE  OnePermission'
<1>1. UNCHANGED <<mode, mpc, tpc, to_read, to_write>>
  BY DEF Attack, AttackDies, read_num, write_data, read_trace, AttackEnds, vars, setup,
        mainVars, threadVars, semaphores
<1>2. AttackAlive' => AttackAlive
  BY NoRevival DEF Next
<1>3. sigchld' => mode' = "fork" /\ ~AttackAlive'
  BY <1>1, <1>2 DEF OnePermission, Attack, AttackDies, read_num, write_data, read_trace,
        AttackEnds, vars, AttackAlive
<1>4. Permissions' = Permissions
  BY <1>1 DEF Permissions, Copying, Fetching
<1> QED
  BY <1>1, <1>2, <1>3, <1>4 DEF OnePermission

\* OnePermission is inductive.
LEMMA NextPermission == OnePermission /\ [Next]_vars => OnePermission'
  BY MainPermission, ThreadPermission, SignalPermission, AttackPermission DEF Next

\* Two holders would be two permissions.
LEMMA PermissionExcludes == OnePermission => CopyExcludesFetch
  BY DEF OnePermission, Permissions, Copying, Fetching, CopyExcludesFetch

\* get_trace_from_trace_thread never copies a trace that trace_thread_routine is
\* filling, unless the attack program of fork mode has ended.
THEOREM NoTornTraces == Spec => []CopyExcludesFetch
  BY InitPermission, NextPermission, PermissionExcludes, PTL DEF Spec

-----------------------------------------------------------------------------
(* What is in the pipes and where each thread is.                            *)

first == trace_dir_findkey(files, num_dbkey)
W(n) == files[first + n - 1]
Value == {Nothing} \union UNION {inp.entries : inp \in Inputs}

\* The samples are those of e, as far as its file goes.
Sampled(trace, e) == trace["head"] = e /\ (e.points = NumPoints => trace["tail"] = e)
PiecesOf(trace) ==
    [i \in 1..Len(Fields) |-> [field |-> Fields[i], trace |-> trace[Fields[i]]]]
AnswerTo(trace) == [i \in 1..AnswerPieces |-> [piece |-> i, of |-> PiecesOf(trace)]]

\* The elements of s are those of whole after the first n.
Window(s, whole, n) == \A i \in 1..Len(s) : s[i] = whole[n + i]

Message == {num_iterations} \union [field : {"text", "head", "tail"}, trace : Value]
Reply == {"LF", ".", "other"} \union [piece : Nat, of : Seq(Message)]

\* What is known of every state, that of a wrapper that has failed included.
Typed ==
    /\ TypeOK
    /\ down \in Seq(Message) /\ got \in Seq(Message)
    /\ up \in Seq(Reply) /\ out \in Seq(Reply) /\ received \in Seq(Reply)
    /\ records \in Seq([text : Value, result : Seq(Reply)])
    /\ apc \in {"read_num", "write"} => out # <<>>
    /\ apc = "read" => told > 0
    /\ apc = "read_num" => down \in {<<>>, <<num_iterations>>}

\* The trace thread goes through the list from the first trace of the key on,
\* and what it has taken was of that key.
OfKey(n) == first + n - 1 \in DOMAIN files /\ W(n).key = correct_key
Listed ==
    /\ source \in {"dir", "db"} /\ \E inp \in Inputs :
            inp.source = source /\ files \in trace_dir_init(source, inp.entries)
    /\ first = 0 => mpc = "failed"
    /\ place = first + trace_num
    /\ \A n \in 1..trace_num : OfKey(n)
    /\ tpc = "texts" => OfKey(trace_num + 1)

Fetched ==
    /\ mpc \in {"send_num", "wait_start"} => tpc = "none" /\ to_read = 0 /\ to_write = 0
    /\ tpc = "none" => trace_num = 0
    /\ tpc # "done" => trace_num < num_iterations
    /\ trace_num > 0 => next_trace["text"] = W(trace_num)
    /\ trace_num > 0 /\ tpc # "texts" => Sampled(next_trace, W(trace_num))
    /\ tpc = "texts" => Sampled(next_trace, W(trace_num + 1))

\* The main thread has taken every trace but those that to_read counts, unless
\* it was interrupted, once, while it waited for the last one.
Looping == mpc \in {"get", "copy", "copy_samples", "send", "read"}
Taken == current_trace_num + (IF mpc \in {"copy", "copy_samples", "send", "read"} THEN 1 ELSE 0)
HandedOver ==
    Running /\ mpc \notin {"send_num", "wait_start"} =>
        \/ trace_num = Taken + to_read /\ Permissions <= 1
        \/ /\ NoReader /\ mpc \in {"copy", "copy_samples", "send"}
           /\ trace_num + 1 = Taken + to_read /\ Taken = num_iterations /\ Permissions <= 2

Counted ==
    /\ mpc \in {"send_num", "wait_start"} => current_trace_num = 0
    /\ Looping => current_trace_num < num_iterations
    /\ mpc \in {"join", "wait", "succeeded"} => current_trace_num = num_iterations
    /\ Len(records) = current_trace_num

\* Unless nobody reads it, the trace that is sent is the next one of the list.
Current ==
    /\ (mpc \in {"copy_samples", "send"} /\ ~NoReader) \/ mpc = "read"
            => current_trace["text"] = W(current_trace_num + 1)
    /\ (mpc = "send" /\ ~NoReader) \/ mpc = "read"
            => Sampled(current_trace, W(current_trace_num + 1))

\* The attack program is still reading the first n pieces of the current trace.
Sending(n) ==
    /\ up = <<>> /\ out = <<>> /\ Len(got) + Len(down) = n
    /\ Window(got, PiecesOf(current_trace), 0)
    /\ Window(down, PiecesOf(current_trace), Len(got))
    /\ told = num_iterations - current_trace_num /\ apc \in {"read", "dead"}

\* It has read them all, and its answer is on its way.
Answering ==
    /\ down = <<>> /\ got = <<>>
    /\ Len(received) + Len(up) + Len(out) = AnswerPieces
    /\ Window(received, AnswerTo(current_trace), 0)
    /\ Window(up, AnswerTo(current_trace), Len(received))
    /\ Window(out, AnswerTo(current_trace), Len(received) + Len(up))
    /\ told = num_iterations - current_trace_num - 1
    /\ IF out # <<>> THEN apc \in {"write", "dead"}
       ELSE IF told > 0 THEN apc \in {"read", "dead"} ELSE apc \in {"exit", "ended", "dead"}

\* Before the marker: n bytes of the greeting have been looked at.
Greeting(w, n) ==
    /\ n + Len(up) + Len(out) = Len(w)
    /\ Window(up, w, n) /\ Window(out, w, n + Len(up))
    /\ seen < 3
    /\ seen >= 1 => n >= seen /\ w[n] = ready[seen]
    /\ seen = 2 => w[n - 1] = "LF"

Exchanging ==
    /\ mpc \in {"send_num", "wait_start"} =>
        /\ got = <<>> /\ \E p \in Preambles : \E n \in 0..Len(p) + 3 : Greeting(p \o ready, n)
        /\ \/ /\ apc \in {"read_num", "dead"} /\ up = <<>> /\ out # <<>>
              /\ down = IF mpc = "send_num" THEN <<>> ELSE <<num_iterations>>
           \/ /\ down = <<>> /\ told = num_iterations /\ mpc = "wait_start"
              /\ apc \in {IF out = <<>> THEN "read" ELSE "write", "dead"}
    /\ mpc \in {"get", "copy", "copy_samples"} => Sending(0)
    /\ mpc = "send" => sent < Len(Fields) /\ Sending(sent)
    /\ mpc = "read" => \/ Sending(Len(Fields)) /\ received = <<>> /\ Len(got) < Len(Fields)
                       \/ Answering /\ Len(received) < AnswerPieces
    /\ mpc \in {"join", "wait"} => apc \in {"exit", "ended", "dead"}

IInv == Typed /\ OnePermission /\ Listed /\ Fetched /\ HandedOver /\ Counted /\ Current /\ Exchanging

-----------------------------------------------------------------------------
(* Lemmas.                                                                   *)

\* The three pieces of a trace, the two of an answer.
LEMMA Pieces ==
    /\ Fields = <<"text", "head", "tail">> /\ Len(Fields) = 3 /\ AnswerPieces = 2
    /\ Fields[1] = "text" /\ Fields[2] = "head" /\ Fields[3] = "tail"
BY DEF Fields, AnswerPieces

\* What a write adds to a pipe.
LEMMA Pushed ==
    ASSUME NEW S, NEW s \in Seq(S), NEW x \in S
    PROVE  /\ Append(s, x) \in Seq(S) /\ Len(Append(s, x)) = Len(s) + 1
           /\ \A i \in 1..Len(s) : Append(s, x)[i] = s[i]
           /\ Append(s, x)[Len(s) + 1] = x
BY AppendProperties

\* What a read leaves in it.
LEMMA Popped ==
    ASSUME NEW S, NEW s \in Seq(S), s # <<>>
    PROVE  /\ Head(s) \in S /\ Head(s) = s[1] /\ Tail(s) \in Seq(S)
           /\ Len(s) > 0 /\ Len(Tail(s)) = Len(s) - 1
           /\ \A i \in 1..Len(s) - 1 : Tail(s)[i] = s[i + 1]
BY HeadTailProperties, EmptySeq

LEMMA WindowPush ==
    ASSUME NEW S, NEW s \in Seq(S), NEW x \in S, NEW whole, NEW n \in Nat,
           Window(s, whole, n), x = whole[n + Len(s) + 1]
    PROVE  Window(Append(s, x), whole, n)
<1>1. Len(s) \in Nat
  BY LenProperties
<1> QED
  BY <1>1, Pushed DEF Window

LEMMA WindowPop ==
    ASSUME NEW S, NEW s \in Seq(S), s # <<>>, NEW whole, NEW n \in Nat, Window(s, whole, n)
    PROVE  Head(s) = whole[n + 1] /\ Window(Tail(s), whole, n + 1)
<1>1. Len(s) \in Nat /\ Len(s) > 0 /\ Head(s) = s[1] /\ Len(Tail(s)) = Len(s) - 1
  BY LenProperties, Popped
<1>2. ASSUME NEW i \in 1..Len(Tail(s)) PROVE Tail(s)[i] = whole[(n + 1) + i]
  <2>1. Tail(s)[i] = s[i + 1] /\ i + 1 \in 1..Len(s)
    BY <1>1, <1>2, Popped
  <2>2. s[i + 1] = whole[n + (i + 1)] /\ n + (i + 1) = (n + 1) + i
    BY <2>1 DEF Window
  <2> QED
    BY <2>1, <2>2
<1> QED
  BY <1>1, <1>2 DEF Window

\* The main thread gives up; whatever happens to the signal.
LEMMA FailingStep ==
    ASSUME IInv, OnePermission', mpc' = "failed", sigchld' \in BOOLEAN,
           UNCHANGED <<setup, seen, current_trace_num, current_trace, sent, received, records,
                       threadVars, semaphores, pipes, attackVars>>
    PROVE  IInv'
<1> USE DEF setup, threadVars, semaphores, pipes, attackVars
<1>1. Typed'
  BY DEF IInv, Typed, TypeOK
<1>2. Listed'
  BY DEF IInv, Listed, first, OfKey, W, correct_key
<1>3. Fetched'
  BY DEF IInv, Fetched, first, W, Sampled
<1>4. HandedOver' /\ Current' /\ Exchanging'
  BY DEF HandedOver, Current, Exchanging, Running
<1>5. Counted'
  BY DEF IInv, Counted, Looping
<1> QED
  BY <1>1, <1>2, <1>3, <1>4, <1>5 DEF IInv

\* A pipe without a reader stays so.
LEMMA ReaderGone == [Next]_vars /\ mode' = mode /\ NoReader => NoReader'
  BY NoRevival DEF NoReader

\* The attack program disturbs neither the threads nor what they have fetched.
LEMMA AttackFrame ==
    ASSUME IInv, Attack \/ AttackDies
    PROVE  (Listed /\ Fetched /\ HandedOver /\ Counted /\ Current)'
<1>1. UNCHANGED <<setup, mainVars, threadVars, semaphores>>
  BY DEF Attack, AttackDies, read_num, write_data, read_trace, AttackEnds
<1>2. NoReader => NoReader'
  BY <1>1, ReaderGone DEF Next, setup
<1> USE DEF setup, mainVars, threadVars, semaphores
<1>3. Listed' /\ Fetched'
  BY <1>1 DEF IInv, Listed, Fetched, first, OfKey, W, correct_key, Sampled
<1>4. HandedOver'
  BY <1>1, <1>2 DEF IInv, HandedOver, Running, Taken, Permissions, Copying, Fetching
<1>5. Counted'
  BY <1>1 DEF IInv, Counted, Looping
<1>6. Current'
  BY <1>1, <1>2 DEF IInv, Current, first, W, Sampled
<1> QED
  BY <1>3, <1>4, <1>5, <1>6

\* The number of traces is read before anything else.
LEMMA StepReadNum ==
    ASSUME IInv, read_num
    PROVE  (Typed /\ Exchanging)'
<1> USE DEF read_num, setup, mainVars, threadVars, semaphores
<1>1. down = <<num_iterations>> /\ down' = <<>> /\ told' = num_iterations
  <2>1. down = <<num_iterations>>
    BY DEF IInv, Typed
  <2>2. Head(<<num_iterations>>) = num_iterations /\ Tail(<<num_iterations>>) = <<>>
    OBVIOUS
  <2> QED
    BY <2>1, <2>2
<1>2. Typed'
  <2>1. /\ TypeOK' /\ down' \in Seq(Message) /\ got' \in Seq(Message)
        /\ up' \in Seq(Reply) /\ out' \in Seq(Reply) /\ received' \in Seq(Reply)
        /\ records' \in Seq([text : Value, result : Seq(Reply)])
    BY <1>1, WrapperAssumption, PipeAssumption DEF IInv, Typed, TypeOK
  <2>2. apc' = "write" /\ out' = out /\ out # <<>>
    BY DEF IInv, Typed
  <2> QED
    BY <2>1, <2>2, <1>1 DEF Typed
<1>3. Exchanging'
  BY <1>1 DEF IInv, Exchanging, Greeting, Sending, Answering
<1> QED
  BY <1>2, <1>3

\* A byte of the greeting or a piece of the answer is written.
LEMMA StepWrite ==
    ASSUME IInv, write_data
    PROVE  (Typed /\ Exchanging)'
<1> USE DEF write_data, setup, mainVars, threadVars, semaphores
<1>1. up \in Seq(Reply) /\ out \in Seq(Reply) /\ out # <<>>
  BY DEF IInv, Typed
<1>2. /\ Head(out) \in Reply /\ Head(out) = out[1] /\ out' \in Seq(Reply) /\ Len(out) \in Nat
      /\ Len(out) > 0 /\ Len(out') = Len(out) - 1
      /\ \A i \in 1..Len(out') : out'[i] = out[i + 1]
  BY <1>1, Popped, LenProperties
<1>3. /\ up' \in Seq(Reply) /\ Len(up') = Len(up) + 1 /\ Len(up) \in Nat
      /\ \A i \in 1..Len(up) : up'[i] = up[i]
      /\ up'[Len(up) + 1] = out[1]
  BY <1>1, <1>2, Pushed, LenProperties
<1>4. out' = <<>> <=> Len(out') = 0
  BY <1>2, EmptySeq
<1>5. Typed'
  BY <1>2, <1>3, PipeAssumption DEF IInv, Typed, TypeOK
<1>6. Len(out) = 1 => out' = <<>>
  BY <1>2, <1>4
<1>7. ASSUME NEW w, NEW n \in Nat, Greeting(w, n)
      PROVE  Greeting(w, n)'
  <2>1. Window(up', w, n) /\ Window(out', w, n + Len(up'))
    <3>1. n + Len(up) \in Nat /\ (n + Len(up)) + 1 = n + Len(up')
      BY <1>3
    <3>2. Window(up, w, n) /\ Window(out, w, n + Len(up))
      BY <1>7 DEF Greeting
    <3>3. Head(out) = w[(n + Len(up)) + 1] /\ Window(out', w, (n + Len(up)) + 1)
      BY <1>1, <3>1, <3>2, WindowPop
    <3> QED
      BY <1>1, <1>2, <3>1, <3>2, <3>3, WindowPush
  <2>2. n + Len(up') + Len(out') = Len(w)
    BY <1>2, <1>3, <1>7 DEF Greeting
  <2> QED
    BY <1>7, <2>1, <2>2 DEF Greeting
<1>8. ASSUME Answering PROVE Answering'
  <2> DEFINE n == Len(received)
  <2>1. n \in Nat /\ n + Len(up) \in Nat /\ (n + Len(up)) + 1 = n + Len(up')
    BY <1>3, LenProperties DEF IInv, Typed
  <2>2. Window(up, AnswerTo(current_trace), n) /\ Window(out, AnswerTo(current_trace), n + Len(up))
    BY <1>8 DEF Answering
  <2>3. /\ Head(out) = AnswerTo(current_trace)[(n + Len(up)) + 1]
        /\ Window(out', AnswerTo(current_trace), (n + Len(up)) + 1)
    BY <1>1, <2>1, <2>2, WindowPop
  <2>4. Window(up', AnswerTo(current_trace), n)
    BY <1>1, <1>2, <2>1, <2>2, <2>3, WindowPush
  <2>5. n + Len(up') + Len(out') = AnswerPieces
    BY <1>2, <1>3, <1>8, <2>1 DEF Answering
  <2>6. Window(out', AnswerTo(current_trace), n + Len(up'))
    BY <2>1, <2>3
  <2> QED
    BY <1>8, <2>4, <2>5, <2>6 DEF Answering
<1>9. Exchanging'
  <2>1. mpc \in {"send_num", "wait_start"} => mpc = "wait_start" /\ down = <<>> /\ told = num_iterations
    BY DEF IInv, Exchanging
  <2>2. mpc \notin {"get", "copy", "copy_samples", "send", "join", "wait"}
    BY DEF IInv, Exchanging, Sending
  <2>3. ASSUME mpc = "wait_start" PROVE \E p \in Preambles : \E n \in 0..Len(p) + 3 : Greeting(p \o ready, n)'
    <3>1. PICK p \in Preambles : \E n \in 0..Len(p) + 3 : Greeting(p \o ready, n)
      BY <2>3 DEF IInv, Exchanging
    <3>2. PICK n \in 0..Len(p) + 3 : Greeting(p \o ready, n)
      BY <3>1
    <3> QED
      BY <1>7, <3>2
  <2>4. ASSUME mpc = "wait_start" PROVE got = <<>> /\ apc' \in {IF out' = <<>> THEN "read" ELSE "write"}
    BY <2>1, <2>4, WrapperAssumption DEF IInv, Exchanging
  <2>5. ASSUME mpc = "read" PROVE Answering /\ Len(received) < AnswerPieces
    BY <2>5, <1>1 DEF IInv, Exchanging, Sending
  <2> QED
    BY <1>8, <2>1, <2>2, <2>3, <2>4, <2>5 DEF Exchanging
<1> QED
  BY <1>5, <1>9

\* Three pieces in a row make a trace.
LEMMA WholeTrace ==
    ASSUME NEW S, NEW s \in Seq(S), Len(s) = Len(Fields), NEW trace,
           Window(s, PiecesOf(trace), 0)
    PROVE  s = PiecesOf(trace)
<1>1. s \in [1..Len(s) -> S] /\ Len(s) = 3
  BY LenProperties, Pieces
<1>2. DOMAIN PiecesOf(trace) = 1..3
  BY Pieces DEF PiecesOf
<1>3. \A i \in 1..3 : s[i] = PiecesOf(trace)[i]
  BY <1>1 DEF Window
<1> QED
  BY <1>1, <1>2, <1>3, Pieces DEF PiecesOf

\* A piece of a trace is read; the last one makes the answer.
LEMMA StepReadTrace ==
    ASSUME IInv, read_trace
    PROVE  (Typed /\ Exchanging)'
<1> USE DEF setup, mainVars, threadVars, semaphores
<1>1. /\ down \in Seq(Message) /\ got \in Seq(Message) /\ down # <<>>
      /\ told \in 1..num_iterations /\ sent \in 0..3
  BY WrapperAssumption, Pieces DEF IInv, Typed, TypeOK, read_trace
<1>2. /\ Head(down) \in Message /\ down' \in Seq(Message) /\ Len(down) \in Nat
      /\ Len(down) > 0 /\ Len(down') = Len(down) - 1
  BY <1>1, Popped, LenProperties DEF read_trace
<1>3. /\ Append(got, Head(down)) \in Seq(Message) /\ Len(got) \in Nat
      /\ Len(Append(got, Head(down))) = Len(got) + 1
  BY <1>1, <1>2, Pushed, LenProperties
<1>start. /\ down' = Tail(down)
      /\ UNCHANGED <<mode, source, files>>
      /\ UNCHANGED <<mpc, seen, current_trace_num, current_trace, sent, received, records>>
      /\ UNCHANGED <<tpc, trace_num, place, next_trace, to_read, to_write, up, sigchld>>
  BY DEF read_trace, mainVars, threadVars, semaphores
<1>told. told - 1 \in 0..num_iterations
  BY <1>1, WrapperAssumption
<1>last. LastPiece => Len(got) = 2
  <2>1. \A n \in Nat : n + 1 = 3 => n = 2
    OBVIOUS
  <2> QED
    BY <1>3, <2>1, Pieces DEF LastPiece
<1>4. Running => mpc \in {"send", "read"}
  BY <1>1 DEF IInv, Exchanging, Running, Sending, Answering, Typed, TypeOK, read_trace
<1>5. ASSUME Running
      PROVE  /\ Sending(IF mpc = "send" THEN sent ELSE Len(Fields))
             /\ mpc = "read" => received = <<>> /\ Len(got) < Len(Fields)
             /\ mpc = "send" => sent < Len(Fields)
  BY <1>1, <1>4, <1>5 DEF IInv, Exchanging, Answering
<1>6. ASSUME Running PROVE Window(Append(got, Head(down)), PiecesOf(current_trace), 0)
                           /\ Window(down', PiecesOf(current_trace), Len(got) + 1)
  <2>1. Window(got, PiecesOf(current_trace), 0) /\ Window(down, PiecesOf(current_trace), Len(got))
    BY <1>5, <1>6 DEF Sending
  <2>2. /\ Head(down) = PiecesOf(current_trace)[Len(got) + 1]
        /\ Window(down', PiecesOf(current_trace), Len(got) + 1)
    BY <1>start, <1>1, <1>3, <2>1, WindowPop
  <2>3. 0 + Len(got) + 1 = Len(got) + 1
    BY <1>3
  <2> QED
    BY <1>1, <1>2, <2>1, <2>2, <2>3, WindowPush
<1>7. CASE ~LastPiece
  <2>1. got' = Append(got, Head(down)) /\ UNCHANGED <<apc, told, out>>
    BY <1>7 DEF read_trace
  <2>2. Typed'
    <3>1. Len(down) <= Capacity
      BY DEF IInv, Typed, TypeOK
    <3>2. Len(down') <= Capacity
      BY <1>2, <3>1, PipeAssumption
    <3>3. apc = "read" /\ told > 0
      BY DEF IInv, Typed, read_trace
    <3> QED
      BY <1>start, <1>2, <1>3, <2>1, <3>2, <3>3 DEF IInv, Typed, TypeOK
  <2>3. ASSUME Running, NEW n \in Nat, Sending(n) PROVE Sending(n)'
    <3>1. Len(got') = Len(got) + 1 /\ UNCHANGED <<up, apc, told, out, current_trace_num, current_trace>>
      BY <1>start, <1>3, <2>1
    <3>2. Window(got', PiecesOf(current_trace), 0) /\ Window(down', PiecesOf(current_trace), Len(got'))
      BY <1>6, <2>1, <2>3, <3>1
    <3>3. Len(got') + Len(down') = n
      <4>1. Len(got) + Len(down) = n
        BY <2>3 DEF Sending
      <4> QED
        BY <1>2, <1>3, <3>1, <4>1
    <3> QED
      BY <2>3, <3>1, <3>2, <3>3 DEF Sending
  <2>4. Running => Len(got) + 1 < 3
    BY <1>1, <1>2, <1>3, <1>5, <1>7, Pieces DEF Sending, LastPiece
  <2>5. mpc = "send" /\ Running => Sending(sent)'
    BY <1>start, <1>1, <1>5, <2>3
  <2>6. mpc = "read" /\ Running => Sending(3)' /\ Len(got') < 3 /\ received = <<>>
    BY <1>3, <1>5, <2>1, <2>3, <2>4, Pieces
  <2> QED
    BY <1>start, <1>4, <1>5, <2>2, <2>5, <2>6, Pieces DEF Exchanging, Running, Sending
<1>8. CASE LastPiece
  <2> DEFINE whole == Append(got, Head(down))
  <2>1. /\ got' = <<>> /\ told' = told - 1 /\ apc' = "write"
        /\ out' = [i \in 1..AnswerPieces |-> [piece |-> i, of |-> whole]]
    BY <1>8 DEF read_trace
  <2>2. out' \in Seq(Reply) /\ Len(out') = 2 /\ out' # <<>>
    BY <1>3, <2>1, Pieces, IsASeq, LenProperties, EmptySeq DEF Reply
  <2>3. Typed'
    <3>1. /\ UNCHANGED <<setup, mainVars, threadVars, semaphores, up, sigchld>>
          /\ got' \in Seq(Message) /\ told' \in 0..num_iterations /\ Len(down') <= Capacity
      <4>1. Len(down) <= Capacity
        BY DEF IInv, Typed, TypeOK
      <4>2. Len(down') <= Capacity
        BY <1>2, <4>1, PipeAssumption
      <4>3. told' \in 0..num_iterations /\ got' \in Seq(Message)
        BY <1>told, <2>1, EmptySeq
      <4> QED
        BY <1>start, <4>2, <4>3
    <3> QED
      BY <1>2, <2>1, <2>2, <3>1 DEF IInv, Typed, TypeOK
  <2>4. ASSUME Running PROVE mpc = "read" /\ Answering' /\ received' = <<>>
    <3>1. mpc = "read" /\ Len(got) + Len(down) = 3 /\ Len(got) = 2
      <4>1. Len(got) = 2
        BY <1>last, <1>8
      <4>2. Len(got) + Len(down) = IF mpc = "send" THEN sent ELSE 3
        BY <1>5, <2>4, Pieces DEF Sending
      <4>3. mpc = "send" => sent < 3
        BY <1>5, <2>4, Pieces
      <4> QED
        BY <1>1, <1>2, <1>4, <2>4, <4>1, <4>2, <4>3
    <3>2. down' = <<>> /\ received = <<>>
      BY <1>2, <1>5, <2>4, <3>1, EmptySeq
    <3>3. whole = PiecesOf(current_trace)
      <4>1. Len(whole) = Len(Fields) /\ Window(whole, PiecesOf(current_trace), 0)
        BY <1>3, <1>6, <2>4, <3>1, Pieces
      <4> QED
        BY <1>3, <4>1, WholeTrace
    <3>4. out' = AnswerTo(current_trace)
      BY <2>1, <3>3 DEF AnswerTo
    <3>5. up' = <<>> /\ told = num_iterations - current_trace_num
      BY <1>start, <1>5, <2>1, <2>4 DEF Sending
    <3>6. Window(received', AnswerTo(current_trace), 0) /\ Window(up', AnswerTo(current_trace), 0)
          /\ Len(received') = 0 /\ Len(up') = 0
      BY <1>start, <3>2, <3>5, EmptySeq DEF Window
    <3>7. Window(out', AnswerTo(current_trace), 0 + 0)
      BY <2>2, <3>4 DEF Window
    <3> QED
      BY <1>start, <2>1, <2>2, <3>1, <3>2, <3>4, <3>5, <3>6, <3>7, Pieces DEF Answering
  <2>5. Exchanging'
    BY <1>start, <1>4, <2>4, Pieces, EmptySeq DEF Exchanging, Running
  <2> QED
    BY <2>3, <2>5
<1> QED
  BY <1>7, <1>8

\* The attack program ends or dies, wherever it is.
LEMMA StepEnd ==
    ASSUME IInv, AttackEnds \/ AttackDies
    PROVE  (Typed /\ Exchanging)'
<1> USE DEF AttackEnds, AttackDies, setup, mainVars, threadVars, semaphores, pipes
<1>1. apc' \in {"ended", "dead"} /\ (apc' = "ended" => apc = "exit") /\ sigchld' \in BOOLEAN
      /\ apc # "none"
  BY DEF AttackAlive
<1>2. Typed'
  BY <1>1 DEF IInv, Typed, TypeOK
<1>3. Exchanging'
  BY <1>1 DEF IInv, Exchanging, Greeting, Sending, Answering
<1> QED
  BY <1>2, <1>3

\* A step of the trace thread that does not end the wrapper leaves the main
\* thread and the attack program alone.
LEMMA ThreadFrame ==
    ASSUME IInv, AwaitWritable \/ ParseSamples \/ FillTexts
    PROVE  (Counted /\ Current /\ Exchanging)'
<1>1. UNCHANGED <<setup, mainVars, pipes, attackVars>>
  BY DEF AwaitWritable, ParseSamples, FillTexts
<1> USE <1>1 DEF setup, mainVars, pipes, attackVars
<1>2. Counted'
  BY DEF IInv, Counted, Looping
<1>3. Current'
  BY DEF IInv, Current, NoReader, AttackAlive, first, W, Sampled
<1>4. Exchanging'
  BY DEF IInv, Exchanging, Greeting, Sending, Answering
<1> QED
  BY <1>2, <1>3, <1>4

\* What the list holds at a place that may be read is a trace.
LEMMA FileValue ==
    ASSUME Listed, NEW i \in DOMAIN files
    PROVE  files[i] \in Value
<1>1. PICK inp \in Inputs : files \in trace_dir_init(inp.source, inp.entries)
  BY DEF Listed
<1>2. files[i] \in inp.entries
  BY <1>1, InputAssumption, ListedFiles
<1> QED
  BY <1>2 DEF Value

LEMMA FirstType == Listed => first \in 0..Len(files) /\ Len(files) \in Nat
  BY ListedFiles, InputAssumption, WrapperAssumption DEF Listed, first

\* AwaitWritable, ParseSamples and FillTexts: the list, the trace and the count.
LEMMA StepAwait ==
    ASSUME IInv, AwaitWritable
    PROVE  (Typed /\ Listed /\ Fetched /\ HandedOver)'
<1> USE DEF AwaitWritable, setup, mainVars, pipes, attackVars
<1>1. to_write \in 1..2 /\ to_write' \in 0..2 /\ to_write' = to_write - 1
  BY DEF IInv, Typed, TypeOK
<1>2. Typed'
  BY <1>1 DEF IInv, Typed, TypeOK
<1>3. Listed' /\ Fetched'
  BY DEF IInv, Listed, Fetched, first, OfKey, W, correct_key, Sampled
<1>4. to_read \in 0..1 /\ Permissions' = Permissions /\ (NoReader' <=> NoReader)
  BY <1>1 DEF Permissions, Copying, Fetching, NoReader, AttackAlive, IInv, Typed, TypeOK
<1>5. HandedOver'
  BY <1>4 DEF IInv, HandedOver, Running, Taken
<1> QED
  BY <1>2, <1>3, <1>5

LEMMA StepParse ==
    ASSUME IInv, ParseSamples
    PROVE  (Typed /\ Listed /\ Fetched /\ HandedOver)'
<1> USE DEF ParseSamples, setup, mainVars, semaphores, pipes, attackVars
<1>1. place = first + trace_num /\ trace_num \in Nat /\ first \in Nat
  BY FirstType, WrapperAssumption DEF IInv, Typed, TypeOK, Listed
<1>2. place = first + (trace_num + 1) - 1
  BY <1>1
<1>3. files[place] \in Value /\ OfKey(trace_num + 1)
  BY <1>2, FileValue DEF IInv, CanGetTrace, OfKey, W
<1>4. next_trace \in Trace /\ next_trace' \in Trace
  BY <1>3 DEF IInv, Typed, TypeOK, Trace, Value
<1>5. Typed'
  BY <1>4 DEF IInv, Typed, TypeOK
<1>6. Listed'
  BY <1>3 DEF IInv, Listed, first, OfKey, W, correct_key
<1>7. Sampled(next_trace', W(trace_num + 1)) /\ next_trace'["text"] = next_trace["text"]
  BY <1>2, <1>4 DEF Sampled, W, Trace
<1>8. Fetched'
  BY <1>7 DEF IInv, Fetched, first, W, Sampled
<1>9. HandedOver'
  BY DEF IInv, HandedOver, Running, Taken, Permissions, Copying, Fetching, NoReader, AttackAlive
<1> QED
  BY <1>5, <1>6, <1>8, <1>9

LEMMA StepFill ==
    ASSUME IInv, FillTexts
    PROVE  (Typed /\ Listed /\ Fetched /\ HandedOver)'
<1> USE DEF FillTexts, setup, mainVars, pipes, attackVars
<1>1. /\ place = first + trace_num /\ trace_num \in Nat /\ first \in Nat
      /\ trace_num < num_iterations /\ num_iterations \in Nat
  <2>1. first \in Nat /\ trace_num \in 0..num_iterations
    BY FirstType DEF IInv, Typed, TypeOK
  <2>2. place = first + trace_num /\ trace_num < num_iterations
    BY DEF IInv, Listed, Fetched
  <2> QED
    BY <2>1, <2>2, WrapperAssumption
<1>2. /\ place = first + (trace_num + 1) - 1 /\ place' = first + (trace_num + 1)
      /\ trace_num + 1 \in 0..num_iterations
      /\ trace_num + 1 # num_iterations => trace_num + 1 < num_iterations
  BY <1>1
<1>3. files[place] \in Value /\ OfKey(trace_num + 1)
  BY <1>2, FileValue DEF IInv, Listed, OfKey
<1>4. next_trace \in Trace /\ next_trace' \in Trace
  BY <1>3 DEF IInv, Typed, TypeOK, Trace, Value
<1>5. Listed'
  <2>1. \A n \in 1..trace_num + 1 : OfKey(n)
    BY <1>1, <1>3 DEF IInv, Listed
  <2>2. \A n \in 1..trace_num' : OfKey(n)'
    BY <2>1 DEF OfKey, first, W, correct_key
  <2> QED
    BY <1>2, <2>2 DEF IInv, Listed, first
<1>6. /\ next_trace'["text"] = W(trace_num + 1)
      /\ Sampled(next_trace, W(trace_num + 1)) => Sampled(next_trace', W(trace_num + 1))
  BY <1>2, <1>4 DEF Sampled, W, Trace
<1>7. Fetched'
  BY <1>1, <1>2, <1>6 DEF IInv, Fetched, first, W, Sampled
<1>8. /\ to_read \in Nat /\ to_write \in Nat /\ current_trace_num \in Nat
      /\ Permissions' = Permissions /\ (NoReader' <=> NoReader)
  BY DEF IInv, Permissions, OnePermission, Copying, Fetching, NoReader, AttackAlive, Typed, TypeOK
<1>9. HandedOver'
  BY <1>1, <1>8 DEF IInv, HandedOver, Running, Taken
<1>10. Running' => to_read' \in 0..1
  <2>1. Taken \in Nat /\ Taken' = Taken
    BY <1>8 DEF Taken
  <2>2. Permissions' \in Nat /\ to_read' \in Nat /\ to_read' <= Permissions'
    BY <1>8 DEF Permissions, Copying, Fetching
  <2>3. mpc \notin {"send_num", "wait_start"}
    BY DEF IInv, Fetched
  <2> QED
    BY <1>1, <1>2, <1>8, <1>9, <2>1, <2>2, <2>3 DEF HandedOver
<1>11. Typed'
  <2>1. Running /\ trace_num' \in 0..num_iterations /\ tpc' \in {"done", "sem_wait"}
    BY <1>2
  <2>2. to_read' \in 0..1
    BY <1>10, <2>1 DEF Running
  <2> QED
    BY <1>4, <2>1, <2>2 DEF IInv, Typed, TypeOK
<1> QED
  BY <1>5, <1>7, <1>9, <1>11

\* The main thread goes on without touching the list or the trace thread's trace.
LEMMA MainFrame ==
    ASSUME IInv, Running, UNCHANGED <<setup, threadVars>>,
           mpc' \in {"send_num", "wait_start"} => mpc = "send_num" /\ UNCHANGED semaphores
    PROVE  (Listed /\ Fetched)'
<1> USE DEF setup, threadVars, semaphores
<1>1. Listed'
  BY DEF IInv, Listed, first, OfKey, W, correct_key, Running
<1>2. Fetched'
  BY DEF IInv, Fetched, first, W, Sampled
<1> QED
  BY <1>1, <1>2

\* The number of traces is sent.
LEMMA StepSendNum ==
    ASSUME IInv, send_num_iterations
    PROVE  (Typed /\ Listed /\ Fetched /\ HandedOver /\ Counted /\ Current /\ Exchanging)'
<1> USE DEF send_num_iterations, setup, threadVars, semaphores, attackVars
<1>1. down = <<>> /\ down' = <<num_iterations>> /\ apc \in {"read_num", "dead"}
  BY DEF IInv, Exchanging
<1>2. down' \in Seq(Message) /\ Len(down') = 1
  BY <1>1, EmptySeq, Pushed DEF Message
<1>3. Typed'
  BY <1>1, <1>2, PipeAssumption, Pieces DEF IInv, Typed, TypeOK
<1>4. Exchanging'
  BY <1>1 DEF IInv, Exchanging, Greeting
<1>5. HandedOver' /\ Counted' /\ Current'
  BY DEF IInv, HandedOver, Counted, Looping, Current
<1>6. Listed' /\ Fetched'
  BY MainFrame DEF Running
<1> QED
  BY <1>3, <1>4, <1>5, <1>6

\* Each step of the loop up to the first piece that is sent.
LEMMA StepGet ==
    ASSUME IInv, GetTrace \/ CopyText \/ CopySamples
    PROVE  (Typed /\ Listed /\ Fetched /\ Counted /\ Exchanging)'
<1> USE DEF GetTrace, CopyText, CopySamples, setup, threadVars, semaphores, pipes, attackVars
<1>1. current_trace \in Trace /\ next_trace \in Trace /\ current_trace' \in Trace
  BY DEF IInv, Typed, TypeOK, Trace
<1>2. Listed' /\ Fetched' /\ Counted'
  <2>1. Running /\ mpc' \notin {"send_num", "wait_start"} /\ UNCHANGED <<setup, threadVars>>
    BY DEF Running
  <2>2. Listed' /\ Fetched'
    BY <2>1, MainFrame
  <2>3. Counted'
    BY DEF IInv, Counted, Looping
  <2> QED
    BY <2>2, <2>3
<1>3. Exchanging'
  <2>1. Sending(0) /\ mpc' \in {"copy", "copy_samples", "send"} /\ (mpc' = "send" => sent' = 0)
    BY DEF IInv, Exchanging
  <2>2. got = <<>> /\ down = <<>>
    BY <2>1, LenProperties, EmptySeq DEF Sending, IInv, Typed
  <2>3. Sending(0)'
    BY <2>1, <2>2, EmptySeq DEF Sending, Window
  <2> QED
    BY <2>1, <2>3, Pieces DEF Exchanging
<1>4. mpc = "copy_samples" => to_write \in 0..1
  BY DEF IInv, OnePermission, HandedOver, Permissions, Copying, Fetching, Typed, TypeOK, Running
<1>5. Typed'
  BY <1>1, <1>4, Pieces DEF IInv, Typed, TypeOK
<1> QED
  BY <1>2, <1>3, <1>5

LEMMA GetHandedOver ==
    ASSUME IInv, GetTrace \/ CopyText \/ CopySamples
    PROVE  HandedOver'
<1> USE DEF GetTrace, CopyText, CopySamples, setup, threadVars, semaphores, attackVars
<1>1. /\ to_read \in Nat /\ to_write \in Nat /\ current_trace_num \in Nat /\ trace_num \in Nat
      /\ num_iterations \in Nat
  BY WrapperAssumption DEF IInv, OnePermission, Typed, TypeOK
<1>2. NoReader' <=> NoReader
  BY DEF NoReader, AttackAlive
<1>3. CASE GetTrace
  BY <1>1, <1>2, <1>3 DEF IInv, HandedOver, Running, Taken, Permissions, Copying, Fetching
<1>4. CASE CopyText
  BY <1>1, <1>2, <1>4 DEF IInv, HandedOver, Running, Taken, Permissions, Copying, Fetching
<1>5. CASE CopySamples
  BY <1>1, <1>2, <1>5 DEF IInv, HandedOver, Running, Taken, Permissions, Copying, Fetching
<1> QED
  BY <1>3, <1>4, <1>5

\* While somebody reads it, what is copied is the next trace of the list.
LEMMA GetCurrent ==
    ASSUME IInv, GetTrace \/ CopyText \/ CopySamples
    PROVE  Current'
<1> USE DEF GetTrace, CopyText, CopySamples, setup, threadVars, semaphores, attackVars
<1>1. /\ to_read \in Nat /\ to_write \in Nat /\ current_trace_num \in Nat /\ trace_num \in Nat
      /\ current_trace \in Trace /\ next_trace \in Trace
  BY DEF IInv, OnePermission, Typed, TypeOK
<1>2. NoReader' <=> NoReader
  BY DEF NoReader, AttackAlive
<1>3. ASSUME ~NoReader, mpc \in {"copy", "copy_samples"}
      PROVE  trace_num = current_trace_num + 1 /\ tpc # "texts"
  <2>1. trace_num = Taken + to_read /\ Permissions <= 1
    BY <1>3 DEF IInv, HandedOver, Running
  <2>2. to_read = 0 /\ ~Fetching
    BY <1>1, <1>3, <2>1 DEF Permissions, Copying
  <2>3. Taken = current_trace_num + 1
    BY <1>3 DEF Taken
  <2> QED
    BY <1>1, <2>1, <2>2, <2>3 DEF Fetching
<1>4. ASSUME ~NoReader, mpc \in {"copy", "copy_samples"}
      PROVE  next_trace["text"] = W(current_trace_num + 1)
             /\ Sampled(next_trace, W(current_trace_num + 1))
  BY <1>1, <1>3, <1>4 DEF IInv, Fetched
<1>5. CASE GetTrace
  BY <1>5 DEF Current
<1>6. CASE CopyText
  BY <1>1, <1>2, <1>4, <1>6 DEF Current, first, W, Trace
<1>7. CASE CopySamples
  BY <1>1, <1>2, <1>4, <1>7 DEF IInv, Current, first, W, Trace, Sampled
<1> QED
  BY <1>5, <1>6, <1>7

\* The greeting ends with the marker, and has it nowhere else.
LEMMA GreetingWord ==
    ASSUME NEW p \in Preambles
    PROVE  /\ p \o ready \in Seq({"LF", ".", "other"})
           /\ Len(p) \in Nat /\ Len(p \o ready) = Len(p) + 3
           /\ \A a \in Nat : /\ a >= 1 /\ a + 2 <= Len(p) + 3
                             /\ (p \o ready)[a] = "LF" /\ (p \o ready)[a + 1] = "."
                             /\ (p \o ready)[a + 2] = "LF"
                             => a = Len(p) + 1
<1> DEFINE B == {"LF", ".", "other"}
<1>1. p \in Seq(B) /\ ready \in Seq(B) /\ Len(ready) = 3
  BY PreambleAssumption DEF ready
<1>2. PICK w : w = p \o ready
  OBVIOUS
<1>3. w \in Seq(B) /\ Len(p) \in Nat /\ Len(w) = Len(p) + 3
  <2>1. w \in Seq(B) /\ Len(w) = Len(p) + Len(ready)
    BY <1>1, <1>2, ConcatProperties
  <2> QED
    BY <1>1, <2>1, LenProperties
<1>4. ASSUME NEW a \in Nat, a >= 1, a + 2 <= Len(p) + 3, w[a] = "LF", w[a + 1] = ".", w[a + 2] = "LF"
      PROVE  a = Len(p) + 1
  <2>1. \A i \in a..a + 2 : w[i] \in B
    BY <1>3, <1>4, ElementOfSeq
  <2>2. PICK t : t = SubSeq(w, a, a + 2)
    OBVIOUS
  <2>3. t \in Seq(B) /\ Len(t) = 3 /\ \A i \in 1..3 : t[i] = w[a + i - 1]
    <3>1. a \in Int /\ a + 2 \in Int /\ a <= a + 2 /\ (a + 2) - a + 1 = 3
      OBVIOUS
    <3> QED
      BY <2>1, <2>2, <3>1, SubSeqProperties
  <2>4. t[1] = w[a] /\ t[2] = w[a + 1] /\ t[3] = w[a + 2]
    BY <2>3
  <2>5. \A i \in 1..3 : t[i] = ready[i]
    BY <1>4, <2>4 DEF ready
  <2>6. t = ready
    BY <1>1, <2>3, <2>5, SeqEqual
  <2>7. a \notin 1..Len(p)
    <3>1. \A i \in 1..Len(p) : SubSeq(w, i, i + 2) # ready
      BY <1>2, PreambleAssumption
    <3> QED
      BY <2>2, <2>6, <3>1
  <2> QED
    BY <1>3, <1>4, <2>7
<1> QED
  BY <1>2, <1>3, <1>4

\* A byte of the greeting is looked at.
LEMMA StepWaitStart ==
    ASSUME IInv, wait_start_attack_phase
    PROVE  (Typed /\ Listed /\ Fetched /\ HandedOver /\ Counted /\ Current /\ Exchanging)'
<1> USE DEF wait_start_attack_phase, setup, attackVars
<1>1. PICK p \in Preambles : \E n \in 0..Len(p) + 3 : Greeting(p \o ready, n)
  BY DEF IInv, Exchanging
<1>word. PICK w : w = p \o ready
  OBVIOUS
<1>2. PICK n \in 0..Len(p) + 3 : Greeting(w, n)
  BY <1>1, <1>word
<1>3. /\ n \in Nat /\ Len(p) \in Nat /\ Len(w) = Len(p) + 3
      /\ up \in Seq(Reply) /\ out \in Seq(Reply) /\ up # <<>>
  BY <1>1, <1>2, <1>word, GreetingWord DEF IInv, Typed
<1>4. /\ Len(up) \in Nat /\ Len(out) \in Nat /\ Len(up) > 0 /\ Len(up') = Len(up) - 1
      /\ up' \in Seq(Reply)
  BY <1>3, Popped, LenProperties
<1>5. Window(up, w, n) /\ Window(out, w, n + Len(up)) /\ n + Len(up) + Len(out) = Len(w)
  BY <1>2 DEF Greeting
<1>6. Head(up) = w[n + 1] /\ Window(up', w, n + 1)
  BY <1>3, <1>5, WindowPop
<1>7. /\ seen \in 0..2 /\ (seen >= 1 => n >= seen /\ w[n] = ready[seen])
      /\ (seen = 2 => w[n - 1] = "LF")
  <2>1. seen \in 0..3
    BY DEF IInv, Typed, TypeOK
  <2>2. /\ seen < 3 /\ (seen >= 1 => n >= seen /\ w[n] = ready[seen])
        /\ (seen = 2 => w[n - 1] = "LF")
    BY <1>2 DEF Greeting
  <2> QED
    BY <2>1, <2>2
<1>8. ready[1] = "LF" /\ ready[2] = "." /\ ready[3] = "LF"
  BY DEF ready
<1>9. /\ seen' \in 0..3
      /\ seen' = 1 => w[n + 1] = "LF"
      /\ seen' = 2 => w[n + 1] = "." /\ w[n] = "LF"
      /\ seen' = 3 => w[n + 1] = "LF" /\ w[n] = "." /\ w[n - 1] = "LF" /\ n >= 2
      /\ seen' <= n + 1
  <2>1. seen' = expects(seen, w[n + 1])
    BY <1>6
  <2>2. CASE seen = 0
    BY <1>3, <2>1, <2>2 DEF expects
  <2>3. CASE seen = 1
    BY <1>3, <1>7, <1>8, <2>1, <2>3 DEF expects
  <2>4. CASE seen = 2
    BY <1>3, <1>7, <1>8, <2>1, <2>4 DEF expects
  <2> QED
    BY <1>7, <2>2, <2>3, <2>4
<1>10. current_trace_num = 0 /\ got = <<>> /\ tpc = "none" /\ to_read = 0 /\ to_write = 0
       /\ down = <<>> /\ told = num_iterations /\ apc \in {IF out = <<>> THEN "read" ELSE "write", "dead"}
  BY DEF IInv, Exchanging, Counted, Fetched
<1>11. CASE seen' = 3
  <2>1. mpc' = "get" /\ tpc' = "sem_wait" /\ to_read' = 0 /\ to_write' = 1
    BY <1>11
  <2>2. n + 1 = Len(w)
    <3>1. PICK a \in Nat : a = n - 1
      BY <1>9, <1>11
    <3>2. a >= 1 /\ a + 2 = n + 1 /\ a + 1 = n /\ n + 1 <= Len(w)
      BY <1>3, <1>4, <1>5, <1>9, <1>11, <3>1
    <3>3. w[a] = "LF" /\ w[a + 1] = "." /\ w[a + 2] = "LF"
      BY <1>9, <1>11, <3>1, <3>2
    <3>4. a = Len(p) + 1
      BY <1>3, <1>word, <3>2, <3>3, GreetingWord
    <3> QED
      BY <1>3, <3>2, <3>4
  <2>3. up' = <<>> /\ out = <<>>
    BY <1>3, <1>4, <1>5, <2>2, EmptySeq
  <2>4. Sending(0)'
    BY <1>10, <2>3, EmptySeq, WrapperAssumption DEF Sending, Window
  <2>5. Exchanging'
    BY <2>1, <2>4 DEF Exchanging
  <2>6. Typed'
    BY <1>4, <1>9, <2>1, <2>3, EmptySeq, PipeAssumption, Pieces DEF IInv, Typed, TypeOK
  <2>7. trace_num = 0
    BY <1>10 DEF IInv, Fetched
  <2>8. Listed' /\ Fetched' /\ Counted'
    BY <1>10, <2>1, <2>7, WrapperAssumption
       DEF IInv, Listed, Fetched, Counted, Looping, first, OfKey, W, correct_key
  <2>9. HandedOver' /\ Current'
    BY <1>10, <2>1, <2>7 DEF HandedOver, Current, Taken, Permissions, Copying, Fetching
  <2> QED
    BY <2>5, <2>6, <2>8, <2>9
<1>12. CASE seen' # 3
  <2>1. UNCHANGED <<mpc, tpc, semaphores>>
    BY <1>12
  <2>2. Greeting(w, n + 1)'
    <3>1. (n + 1) + Len(up') + Len(out) = Len(w) /\ n + Len(up) = (n + 1) + Len(up')
      BY <1>3, <1>4, <1>5
    <3>2. seen' < 3 /\ (seen' >= 1 => n + 1 >= seen' /\ w[n + 1] = ready[seen'])
          /\ (seen' = 2 => w[(n + 1) - 1] = "LF")
      <4>1. seen' \in 0..2 /\ (n + 1) - 1 = n
        BY <1>3, <1>9, <1>12
      <4> QED
        BY <1>8, <1>9, <4>1
    <3> QED
      BY <1>5, <1>6, <3>1, <3>2 DEF Greeting
  <2>3. n + 1 \in 0..Len(p) + 3
    BY <1>3, <1>4, <1>5
  <2>4. Exchanging'
    BY <1>1, <1>word, <1>10, <2>1, <2>2, <2>3 DEF Exchanging
  <2>5. Typed'
    BY <1>4, <1>9, <2>1, EmptySeq, PipeAssumption, Pieces DEF IInv, Typed, TypeOK, semaphores
  <2>6. Listed' /\ Fetched' /\ Counted' /\ HandedOver' /\ Current'
    BY <1>10, <2>1 DEF IInv, Listed, Fetched, Counted, Looping, HandedOver, Current,
       first, OfKey, W, correct_key, semaphores
  <2> QED
    BY <2>4, <2>5, <2>6
<1> QED
  BY <1>11, <1>12

\* A piece of the trace is sent.
LEMMA StepSend ==
    ASSUME IInv, send_trace
    PROVE  (Typed /\ Listed /\ Fetched /\ HandedOver /\ Counted /\ Current /\ Exchanging)'
<1> USE DEF setup, threadVars, semaphores, attackVars
<1>1. /\ mpc = "send" /\ ~NoReader /\ Len(down) < Capacity
      /\ down' = Append(down, [field |-> Fields[sent + 1],
                               trace |-> current_trace[Fields[sent + 1]]])
      /\ sent' = sent + 1
      /\ UNCHANGED <<mode, source, files, seen, current_trace_num, current_trace, records, tpc,
                     trace_num, place, next_trace, to_read, to_write, up, apc, told, got, out, sigchld>>
  BY DEF send_trace
<1>2. IF sent' = Len(Fields) THEN mpc' = "read" /\ received' = <<>> ELSE UNCHANGED <<mpc, received>>
  BY DEF send_trace
<1>3. /\ down \in Seq(Message) /\ Len(down) \in Nat /\ Len(got) \in Nat /\ Len(Fields) = 3
      /\ sent \in Nat /\ sent < 3 /\ Sending(sent)
  BY <1>1, LenProperties, Pieces DEF IInv, Typed, TypeOK, Exchanging
<1>4. PICK x : x = PiecesOf(current_trace)[sent + 1]
  OBVIOUS
<1>5. x \in Message /\ down' = Append(down, x)
  <2>1. sent + 1 \in {1, 2, 3}
    BY <1>3
  <2>2. x = [field |-> Fields[sent + 1], trace |-> current_trace[Fields[sent + 1]]]
    BY <1>3, <1>4, <2>1 DEF PiecesOf
  <2>3. Fields[sent + 1] \in {"text", "head", "tail"}
    BY <2>1, Pieces
  <2>4. current_trace[Fields[sent + 1]] \in Value
    BY <2>3 DEF IInv, Typed, TypeOK, Trace, Value
  <2> QED
    BY <1>1, <2>2, <2>3, <2>4 DEF Message
<1>6. down' \in Seq(Message) /\ Len(down') = Len(down) + 1
  BY <1>3, <1>5, Pushed
<1>count. PICK n \in Nat : n = sent + 1
  BY <1>3
<1>7. Sending(n)'
  <2>1. Len(got) + Len(down) = sent /\ Window(down, PiecesOf(current_trace), Len(got))
    BY <1>3 DEF Sending
  <2>2. x = PiecesOf(current_trace)[Len(got) + Len(down) + 1]
    BY <1>4, <2>1
  <2>3. Window(down', PiecesOf(current_trace), Len(got))
    BY <1>3, <1>5, <2>1, <2>2, WindowPush
  <2>4. Len(got) + Len(down') = n
    BY <1>3, <1>6, <1>count, <2>1
  <2> QED
    BY <1>1, <1>3, <2>3, <2>4 DEF Sending
<1>8. Typed'
  <2>1. Len(down') <= Capacity /\ sent' \in 0..3
    BY <1>1, <1>3, <1>6, PipeAssumption
  <2>2. mpc' \in {"send", "read"} /\ received' \in Seq(Reply) /\ Len(received') <= AnswerPieces
    <3>1. received \in Seq(Reply) /\ Len(received) <= AnswerPieces /\ <<>> \in Seq(Reply)
          /\ Len(<<>>) <= AnswerPieces
      BY EmptySeq, Pieces DEF IInv, Typed, TypeOK
    <3> QED
      BY <1>1, <1>2, <3>1
  <2>3. apc # "read_num"
    BY <1>1 DEF IInv, Exchanging, Sending
  <2> QED
    BY <1>1, <1>3, <1>6, <2>1, <2>2, <2>3 DEF IInv, Typed, TypeOK
<1>9. Listed' /\ Fetched' /\ Counted'
  <2>1. Running /\ mpc' \in {"send", "read"}
    BY <1>1, <1>2 DEF Running
  <2>2. Counted'
    BY <1>1, <2>1 DEF IInv, Counted, Looping
  <2> QED
    BY <1>1, <2>1, <2>2, MainFrame
<1>10. HandedOver' /\ Current'
  <2>1. (NoReader' <=> NoReader) /\ mpc' \in {"send", "read"}
    BY <1>1, <1>2 DEF NoReader, AttackAlive
  <2>2. trace_num = Taken + to_read /\ Permissions <= 1
    BY <1>1 DEF IInv, HandedOver, Running
  <2>3. Taken' = Taken /\ Permissions' = Permissions
    BY <1>1, <2>1 DEF Taken, Permissions, Copying, Fetching
  <2>4. HandedOver'
    BY <1>1, <2>2, <2>3 DEF HandedOver
  <2>5. Current'
    BY <1>1, <2>1 DEF IInv, Current, first, W, Sampled
  <2> QED
    BY <2>4, <2>5
<1>11. Exchanging'
  <2>1. CASE sent + 1 = 3
    <3>1. mpc' = "read" /\ received' = <<>>
      BY <1>1, <1>2, <1>3, <2>1
    <3>2. Len(got) < 3
      <4>1. Len(got) + Len(down) = sent
        BY <1>3 DEF Sending
      <4> QED
        BY <1>3, <4>1
    <3> QED
      BY <1>1, <1>3, <1>7, <1>count, <2>1, <3>1, <3>2 DEF Exchanging
  <2>2. CASE sent + 1 # 3
    <3>1. mpc' = "send" /\ sent + 1 < 3
      BY <1>1, <1>2, <1>3, <2>2
    <3> QED
      BY <1>1, <1>3, <1>7, <1>count, <3>1 DEF Exchanging
  <2> QED
    BY <2>1, <2>2
<1> QED
  BY <1>8, <1>9, <1>10, <1>11

\* A piece of the answer is read, in its order.
LEMMA ReadsAnswer ==
    ASSUME IInv, read_result
    PROVE  /\ Answering /\ Len(received) \in {0, 1} /\ Len(received') = Len(received) + 1
           /\ received' \in Seq(Reply) /\ up' \in Seq(Reply) /\ Len(up') = Len(up) - 1
           /\ Len(up) \in Nat \ {0} /\ Len(out) \in Nat
           /\ Window(received', AnswerTo(current_trace), 0)
           /\ Window(up', AnswerTo(current_trace), Len(received'))
<1>1. /\ mpc = "read" /\ up # <<>> /\ up' = Tail(up) /\ received' = Append(received, Head(up))
      /\ up \in Seq(Reply) /\ received \in Seq(Reply) /\ out \in Seq(Reply)
  BY DEF read_result, IInv, Typed
<1>2. Answering /\ Len(received) \in {0, 1}
  <2>1. Answering /\ Len(received) < 2
    BY <1>1, Pieces DEF IInv, Exchanging, Sending
  <2> QED
    <3>1. \A n \in Nat : n < 2 => n \in {0, 1}
      OBVIOUS
    <3> QED
      BY <1>1, <2>1, <3>1, LenProperties
<1>3. /\ Head(up) \in Reply /\ up' \in Seq(Reply) /\ Len(up') = Len(up) - 1
      /\ Len(up) \in Nat \ {0} /\ Len(out) \in Nat
  BY <1>1, Popped, LenProperties
<1>4. received' \in Seq(Reply) /\ Len(received') = Len(received) + 1
  BY <1>1, <1>3, Pushed
<1>5. /\ Window(received, AnswerTo(current_trace), 0)
      /\ Window(up, AnswerTo(current_trace), Len(received))
  BY <1>2 DEF Answering
<1>6. /\ Head(up) = AnswerTo(current_trace)[Len(received) + 1]
      /\ Window(up', AnswerTo(current_trace), Len(received) + 1)
  BY <1>1, <1>2, <1>5, WindowPop
<1>7. Window(received', AnswerTo(current_trace), 0)
  <2>1. 0 + Len(received) + 1 = Len(received) + 1
    BY <1>2
  <2> QED
    BY <1>1, <1>3, <1>5, <1>6, <2>1, WindowPush
<1> QED
  BY <1>2, <1>3, <1>4, <1>6, <1>7

\* The last piece makes the answer whole.
LEMMA WholeAnswer ==
    ASSUME IInv, read_result, Len(received') = AnswerPieces
    PROVE  received' = AnswerTo(current_trace)
<1>1. received' \in [1..Len(received') -> Reply] /\ Len(received') = 2
  BY ReadsAnswer, LenProperties, Pieces
<1>2. DOMAIN AnswerTo(current_trace) = 1..2
  BY Pieces DEF AnswerTo
<1>3. \A i \in 1..2 : received'[i] = AnswerTo(current_trace)[i]
  BY <1>1, ReadsAnswer DEF Window
<1> QED
  BY <1>1, <1>2, <1>3, Pieces DEF AnswerTo

\* A read of the answer; the last one writes the record.
LEMMA StepRead ==
    ASSUME IInv, read_result
    PROVE  (Typed /\ Listed /\ Fetched /\ HandedOver /\ Counted /\ Current /\ Exchanging)'
<1> USE DEF setup, threadVars, semaphores, attackVars
<1>1. /\ mpc = "read"
      /\ UNCHANGED <<mode, source, files, seen, current_trace, sent, tpc, trace_num, place,
                     next_trace, to_read, to_write, down, apc, told, got, out, sigchld>>
  BY DEF read_result
<1>2. /\ current_trace_num \in Nat /\ current_trace_num < num_iterations /\ num_iterations \in Nat
      /\ Len(up) <= Capacity /\ Capacity \in Nat
      /\ records \in Seq([text : Value, result : Seq(Reply)]) /\ Len(records) = current_trace_num
      /\ current_trace["text"] \in Value
  BY <1>1, WrapperAssumption, PipeAssumption DEF IInv, Typed, TypeOK, Counted, Looping, Trace, Value
<1>3. /\ Answering /\ received' \in Seq(Reply) /\ up' \in Seq(Reply)
      /\ Len(received) \in {0, 1} /\ Len(received') = Len(received) + 1
      /\ Len(up') = Len(up) - 1 /\ Len(up) \in Nat \ {0} /\ Len(out) \in Nat
      /\ Len(received) + Len(up) + Len(out) = 2 /\ told = num_iterations - current_trace_num - 1
      /\ down = <<>> /\ got = <<>>
  BY ReadsAnswer, Pieces DEF Answering
<1>4. trace_num = Taken + to_read /\ Permissions <= 1
  BY <1>1 DEF IInv, HandedOver, Running
<1>5. CASE Len(received') = AnswerPieces
  <2>1. /\ records' = Append(records, [text |-> current_trace["text"], result |-> received'])
        /\ current_trace_num' = current_trace_num + 1
        /\ mpc' = IF current_trace_num' = num_iterations THEN "join" ELSE "get"
    BY <1>5 DEF read_result, dump_result_to_file
  <2>2. /\ records' \in Seq([text : Value, result : Seq(Reply)])
        /\ Len(records') = current_trace_num + 1
    BY <1>2, <1>3, <2>1, Pushed
  <2>3. current_trace_num + 1 \in 0..num_iterations
        /\ (mpc' = "get" => current_trace_num + 1 < num_iterations)
        /\ (mpc' = "join" => current_trace_num + 1 = num_iterations) /\ mpc' \in {"get", "join"}
    BY <1>2, <2>1
  <2>4. Typed'
    <3>1. Len(up') <= Capacity /\ apc # "read_num"
      BY <1>2, <1>3 DEF Answering
    <3>2. Len(received') <= AnswerPieces
      BY <1>5, Pieces
    <3> QED
      BY <1>1, <1>3, <2>1, <2>2, <2>3, <3>1, <3>2 DEF IInv, Typed, TypeOK
  <2>5. Counted' /\ Listed' /\ Fetched'
    <3>1. Counted'
      BY <2>1, <2>2, <2>3 DEF Counted, Looping
    <3> QED
      BY <1>1, <2>3, <3>1, MainFrame DEF Running
  <2>6. HandedOver' /\ Current'
    <3>1. Taken' = Taken /\ Permissions' = Permissions
      BY <1>1, <1>2, <2>1, <2>3 DEF Taken, Permissions, Copying, Fetching
    <3> QED
      BY <1>1, <1>4, <2>3, <3>1 DEF HandedOver, Current
  <2>7. Exchanging'
    <3>1. Len(up') = 0 /\ Len(out) = 0
      <4>1. \A r, u, o \in Nat : r + u + o = 2 /\ r + 1 = 2 /\ u # 0 => u - 1 = 0 /\ o = 0
        OBVIOUS
      <4>2. Len(received) \in Nat
        BY <1>3
      <4>3. Len(received) + 1 = 2
        BY <1>3, <1>5, Pieces, Zenon
      <4> QED
        BY <1>3, <4>1, <4>2, <4>3
    <3>2. up' = <<>> /\ out = <<>>
      BY <1>3, <3>1, EmptySeq DEF IInv, Typed
    <3>3. IF told > 0 THEN apc \in {"read", "dead"} ELSE apc \in {"exit", "ended", "dead"}
      BY <1>3, <3>2 DEF Answering
    <3>4. told = num_iterations - current_trace_num'
      BY <1>2, <1>3, <2>1
    <3>5. mpc' = "get" => Sending(0)'
      BY <1>1, <1>2, <1>3, <2>1, <2>3, <3>2, <3>3, <3>4, EmptySeq DEF Sending, Window
    <3>6. mpc' = "join" => apc \in {"exit", "ended", "dead"}
      BY <1>2, <1>3, <2>3, <3>3
    <3> QED
      BY <1>1, <2>3, <3>5, <3>6 DEF Exchanging
  <2> QED
    BY <2>4, <2>5, <2>6, <2>7
<1>6. CASE Len(received') # AnswerPieces
  <2>1. UNCHANGED <<mpc, records, current_trace_num>>
    BY <1>6 DEF read_result
  <2>2. Len(received') = 1
    BY <1>3, <1>6, Pieces
  <2>3. Typed'
    <3>1. Len(up') <= Capacity /\ apc # "read_num" /\ Len(received') <= AnswerPieces
      BY <1>2, <1>3, <2>2, Pieces DEF Answering
    <3> QED
      BY <1>1, <1>3, <2>1, <3>1 DEF IInv, Typed, TypeOK
  <2>4. Counted' /\ Listed' /\ Fetched' /\ Current'
    <3>1. Counted' /\ Current'
      BY <1>1, <2>1 DEF IInv, Counted, Looping, Current, first, W, Sampled
    <3> QED
      BY <1>1, <2>1, <3>1, MainFrame DEF Running
  <2>5. HandedOver'
    BY <1>1, <1>4, <2>1 DEF HandedOver, Taken, Permissions, Copying, Fetching
  <2>6. Answering'
    <3>1. Len(received') + Len(up') + Len(out) = 2 /\ Len(received') + Len(up') = Len(received) + Len(up)
      BY <1>3
    <3>2. Window(out, AnswerTo(current_trace), Len(received') + Len(up'))
      BY <1>3, <3>1 DEF Answering
    <3> QED
      BY <1>1, <1>3, <2>1, <3>1, <3>2, ReadsAnswer, Pieces DEF Answering
  <2>7. Exchanging'
    BY <1>1, <2>1, <2>2, <2>6, Pieces DEF Exchanging
  <2> QED
    BY <2>3, <2>4, <2>5, <2>7
<1> QED
  BY <1>5, <1>6

\* The wrapper ends in its order, or the signal is taken for normal.
LEMMA StepFinish ==
    ASSUME IInv, wait_trace_thread_termination \/ WaitChild \/ (sig_chld_handler /\ mpc' = mpc)
    PROVE  (Typed /\ Listed /\ Fetched /\ HandedOver /\ Counted /\ Current /\ Exchanging)'
<1> USE DEF setup, threadVars, semaphores, pipes, attackVars
<1>1. /\ UNCHANGED <<setup, seen, current_trace_num, current_trace, sent, received, records,
                     threadVars, semaphores, pipes, attackVars>>
      /\ Running /\ sigchld' \in BOOLEAN
      /\ mpc' = mpc \/ (mpc \in {"join", "wait"} /\ mpc' \in {"wait", "succeeded"})
  BY DEF wait_trace_thread_termination, WaitChild, sig_chld_handler, Running, IInv, Typed, TypeOK
<1>2. (NoReader' <=> NoReader) /\ (mpc' \in {"send_num", "wait_start"} => mpc' = mpc)
  BY <1>1 DEF NoReader, AttackAlive
<1>3. Typed'
  BY <1>1 DEF IInv, Typed, TypeOK
<1>4. Listed'
  BY <1>1 DEF IInv, Listed, first, OfKey, W, correct_key, Running
<1>5. Fetched'
  BY <1>1, <1>2 DEF IInv, Fetched, first, W, Sampled
<1>6. HandedOver'
  BY <1>1, <1>2 DEF IInv, HandedOver, Taken, Permissions, Copying, Fetching, Running
<1>7. Counted'
  BY <1>1 DEF IInv, Counted, Looping
<1>8. Current'
  BY <1>1, <1>2 DEF IInv, Current, first, W, Sampled
<1>9. Exchanging'
  BY <1>1 DEF IInv, Exchanging, Greeting, Sending, Answering
<1> QED
  BY <1>3, <1>4, <1>5, <1>6, <1>7, <1>8, <1>9

\* A sem_wait is interrupted: only when the last trace is waited for.
LEMMA StepInterrupted ==
    ASSUME IInv, Interrupted, mpc' = "copy"
    PROVE  (Typed /\ Listed /\ Fetched /\ HandedOver /\ Counted /\ Current /\ Exchanging)'
<1> USE DEF setup, threadVars, semaphores, pipes, attackVars
<1>1. /\ UNCHANGED <<setup, seen, current_trace_num, current_trace, sent, received, records,
                     threadVars, semaphores, pipes, attackVars>>
      /\ mpc = "get" /\ to_read = 0 /\ sigchld' \in BOOLEAN /\ sigchld
      /\ current_trace_num >= num_iterations - 1
  BY DEF Interrupted, LastIteration
<1>2. Typed'
  BY <1>1 DEF IInv, Typed, TypeOK
<1>3. Listed' /\ Fetched' /\ Counted'
  <2>1. Counted'
    BY <1>1 DEF IInv, Counted, Looping
  <2> QED
    BY <1>1, <2>1, MainFrame DEF Running
<1>4. current_trace_num + 1 = num_iterations /\ trace_num = current_trace_num /\ Permissions <= 1
  <2>1. current_trace_num < num_iterations /\ current_trace_num \in Nat /\ trace_num \in Nat
    BY <1>1 DEF IInv, Counted, Looping, Typed, TypeOK
  <2>2. trace_num = current_trace_num /\ Permissions <= 1
    BY <1>1, <2>1 DEF IInv, HandedOver, Running, Taken
  <2> QED
    BY <1>1, <2>1, <2>2, WrapperAssumption
<1>5. HandedOver'
  <2>1. NoReader'
    BY <1>1 DEF IInv, OnePermission, NoReader, AttackAlive
  <2>2. to_write \in Nat /\ Permissions' <= 2
    BY <1>1, <1>4 DEF Permissions, Copying, Fetching, IInv, OnePermission
  <2>3. Taken' = num_iterations
    BY <1>1, <1>4 DEF Taken
  <2> QED
    <3>1. trace_num + 1 = Taken' + to_read'
      BY <1>1, <1>4, <2>3, WrapperAssumption
    <3> QED
      BY <1>1, <2>1, <2>2, <2>3, <3>1 DEF HandedOver
<1>6. Current'
  BY DEF Current
<1>7. Exchanging'
  BY <1>1 DEF IInv, Exchanging, Sending
<1> QED
  BY <1>2, <1>3, <1>5, <1>6, <1>7

-----------------------------------------------------------------------------
\* The first state: nothing is sent, and the greeting is yet to be written.
LEMMA InitInv == Init => IInv
<1> SUFFICES ASSUME Init PROVE IInv
  OBVIOUS
<1> USE DEF Init
<1>1. PICK p \in Preambles : out = p \o ready
  OBVIOUS
<1>2. PICK w : w = p \o ready
  OBVIOUS
<1>3. /\ w \in Seq({"LF", ".", "other"}) /\ Len(w) = Len(p) + 3 /\ Len(p) \in Nat /\ out = w
  BY <1>1, <1>2, GreetingWord
<1>4. out \in Seq(Reply) /\ out # <<>>
  <2>1. out \in Seq(Reply)
    BY <1>3, SeqMonotonic DEF Reply
  <2>2. Len(w) # 0
    BY <1>3
  <2> QED
    BY <1>3, <2>1, <2>2, EmptySeq
<1>5. NoTrace \in Trace
  BY DEF NoTrace, Trace
<1>6. Typed
  <2>1. mpc \in {"send_num", "failed"} /\ apc \in {"read_num", "none"} /\ mode \in Modes
    OBVIOUS
  <2>2. num_iterations \in Nat /\ Capacity \in Nat /\ Len(<<>>) = 0 /\ Len(Fields) = 3 /\ AnswerPieces = 2
    BY EmptySeq, WrapperAssumption, PipeAssumption, Pieces
  <2>3. TypeOK
    <3>1. /\ seen \in 0..3 /\ sent \in 0..Len(Fields) /\ Len(received) <= AnswerPieces
          /\ current_trace_num \in 0..num_iterations /\ trace_num \in 0..num_iterations
          /\ told \in 0..num_iterations /\ to_read \in 0..1 /\ to_write \in 0..2
      BY <2>2
    <3>2. Len(down) <= Capacity /\ Len(up) <= Capacity
      BY <2>2
    <3>3. /\ current_trace \in Trace /\ next_trace \in Trace /\ tpc = "none"
          /\ sigchld \in BOOLEAN
      BY <1>5
    <3> HIDE DEF Init
    <3> QED
      BY <2>1, <3>1, <3>2, <3>3 DEF TypeOK
  <2>4. /\ <<>> \in Seq(Message) /\ <<>> \in Seq(Reply)
        /\ <<>> \in Seq([text : Value, result : Seq(Reply)])
    BY EmptySeq
  <2> QED
    BY <1>4, <2>1, <2>3, <2>4 DEF Typed
<1>7. Listed
  <2>1. PICK inp \in Inputs : source = inp.source /\ files \in trace_dir_init(inp.source, inp.entries)
    OBVIOUS
  <2>2. source \in {"dir", "db"} /\ first \in Nat
    BY <2>1, InputAssumption, WrapperAssumption, ListedFiles DEF first
  <2> QED
    BY <2>1, <2>2 DEF Listed, first
<1>8. Fetched /\ Counted
  BY EmptySeq, WrapperAssumption DEF Fetched, Counted, Looping
<1>9. HandedOver /\ Current
  BY DEF HandedOver, Current, Running
<1>10. Exchanging
  <2>1. Greeting(w, 0)
    BY <1>3, EmptySeq DEF Greeting, Window
  <2>2. 0 \in 0..Len(p) + 3
    BY <1>3
  <2>3. \E q \in Preambles : \E n \in 0..Len(q) + 3 : Greeting(q \o ready, n)
    BY <1>1, <1>2, <2>1, <2>2
  <2> QED
    BY <1>4, <2>3 DEF Exchanging
<1> QED
  BY <1>6, <1>7, <1>8, <1>9, <1>10, InitPermission DEF IInv

\* Every step of the wrapper, its trace thread and the attack program.
LEMMA NextInv == IInv /\ [Next]_vars => IInv'
<1> SUFFICES ASSUME IInv, [Next]_vars PROVE IInv'
  OBVIOUS
<1>1. OnePermission'
  BY NextPermission DEF IInv
<1> USE DEF setup, threadVars, semaphores, pipes, attackVars
<1>2. CASE SendFails \/ NothingToRead \/ NoMoreTraces
  BY <1>1, <1>2, FailingStep DEF SendFails, NothingToRead, NoMoreTraces, IInv, Typed, TypeOK
<1>3. CASE send_num_iterations \/ wait_start_attack_phase \/ send_trace \/ read_result
  BY <1>1, <1>3, StepSendNum, StepWaitStart, StepSend, StepRead DEF IInv
<1>4. CASE GetTrace \/ CopyText \/ CopySamples
  BY <1>1, <1>4, StepGet, GetHandedOver, GetCurrent DEF IInv
<1>5. CASE wait_trace_thread_termination \/ WaitChild
  BY <1>1, <1>5, StepFinish DEF IInv
<1>6. CASE sig_chld_handler
  <2>1. CASE mpc' = mpc
    BY <1>1, <1>6, <2>1, StepFinish DEF IInv
  <2>2. CASE mpc' = "failed"
    BY <1>1, <1>6, <2>2, FailingStep DEF sig_chld_handler
  <2> QED
    BY <1>6, <2>1, <2>2 DEF sig_chld_handler
<1>7. CASE Interrupted
  <2>1. CASE mpc' = "copy"
    BY <1>1, <1>7, <2>1, StepInterrupted DEF IInv
  <2>2. CASE mpc' = "failed"
    BY <1>1, <1>7, <2>2, FailingStep DEF Interrupted
  <2> QED
    BY <1>7, <2>1, <2>2 DEF Interrupted
<1>8. CASE AwaitWritable \/ ParseSamples \/ FillTexts
  BY <1>1, <1>8, ThreadFrame, StepAwait, StepParse, StepFill DEF IInv
<1>9. CASE Attack \/ AttackDies
  BY <1>1, <1>9, AttackFrame, StepReadNum, StepWrite, StepReadTrace, StepEnd DEF IInv, Attack
<1>10. CASE UNCHANGED vars
  <2> USE <1>10 DEF vars, mainVars
  <2>1. Typed' /\ Counted'
    BY DEF IInv, Typed, TypeOK, Counted, Looping
  <2>2. Listed' /\ Fetched'
    BY DEF IInv, Listed, Fetched, first, OfKey, W, correct_key, Sampled
  <2>3. HandedOver' /\ Current'
    BY DEF IInv, HandedOver, Current, Running, Taken, Permissions, Copying, Fetching, NoReader,
       AttackAlive, first, W, Sampled
  <2>4. Exchanging'
    BY DEF IInv, Exchanging, Greeting, Sending, Answering
  <2> QED
    BY <1>1, <2>1, <2>2, <2>3, <2>4 DEF IInv
<1> QED
  BY <1>2, <1>3, <1>4, <1>5, <1>6, <1>7, <1>8, <1>9, <1>10 DEF Next, Main, Signals, TraceThread

LEMMA Invariance == Spec => []IInv
  BY InitInv, NextInv, PTL DEF Spec

\* Every variable keeps its type: among others, a semaphore of the trace thread
\* is never posted twice, and no more traces are counted than are asked for.
THEOREM WrapperTypes == Spec => []TypeOK
<1>1. IInv => TypeOK
  BY DEF IInv, Typed
<1> QED
  BY <1>1, Invariance, PTL

\* send_data finds room in the pipe to the attack program whenever it is called:
\* the answer to a trace is read before the next one is sent.
THEOREM SendsNeverBlock == Spec => []NeverWouldBlock
<1>1. ASSUME IInv PROVE NeverWouldBlock
  <2>1. down \in Seq(Message) /\ Len(down) \in Nat /\ Len(got) \in Nat
    BY <1>1, LenProperties DEF IInv, Typed
  <2>2. CASE mpc = "send_num"
    <3>1. down = <<>>
      BY <1>1, <2>2 DEF IInv, Exchanging
    <3> QED
      BY <3>1, EmptySeq, PipeAssumption, Pieces DEF NeverWouldBlock
  <2>3. CASE mpc = "send"
    <3>1. sent < 3 /\ Len(got) + Len(down) = sent
      BY <1>1, <2>3, Pieces DEF IInv, Exchanging, Sending
    <3>2. Len(down) < 3
      BY <2>1, <3>1
    <3> QED
      BY <2>1, <3>2, PipeAssumption, Pieces DEF NeverWouldBlock
  <2> QED
    BY <2>2, <2>3 DEF NeverWouldBlock
<1> QED
  BY <1>1, Invariance, PTL

-----------------------------------------------------------------------------
(* The result file.                                                          *)

\* The answer to a trace is that of its three pieces.
LEMMA AnswerOfTrace ==
    ASSUME NEW e, NEW trace
    PROVE  FileRecord([text |-> e, result |-> AnswerTo(trace)]) =
             [text |-> e,
              answer |-> [text |-> trace["text"], head |-> trace["head"], tail |-> trace["tail"]]]
<1> DEFINE of == PiecesOf(trace)
<1>1. AnswerTo(trace) = [p \in 1..AnswerPieces |-> [piece |-> p, of |-> of]]
  BY DEF AnswerTo
<1>2. AnswerTo(trace)[1].of = of
  BY Pieces DEF AnswerTo
<1>3. /\ of = [i \in 1..3 |-> [field |-> Fields[i], trace |-> trace[Fields[i]]]]
  BY Pieces DEF PiecesOf
<1>4. /\ of[1].trace = trace["text"] /\ of[2].trace = trace["head"] /\ of[3].trace = trace["tail"]
      /\ DOMAIN of = 1..3
  BY <1>3, Pieces
<1>5. [f \in DOMAIN of |-> of[f].field] = Fields
  BY <1>3, <1>4 DEF Fields
<1> HIDE DEF of
<1> QED
  BY <1>1, <1>2, <1>4, <1>5 DEF FileRecord

\* When an answer is complete, the current trace is the next one wanted.
LEMMA NextWanted ==
    ASSUME IInv, mpc = "read"
    PROVE  LET wanted == Wanted(source, files, num_dbkey) IN
           /\ Len(records) < num_iterations
           /\ Len(wanted) \in Nat /\ Len(records) < Len(wanted)
           /\ current_trace["text"] = wanted[Len(records) + 1]
           /\ Sampled(current_trace, wanted[Len(records) + 1])
<1> DEFINE k == current_trace_num
           wanted == Wanted(source, files, num_dbkey)
<1>1. /\ Len(records) = k /\ k \in Nat /\ k < num_iterations
      /\ current_trace["text"] = W(k + 1) /\ Sampled(current_trace, W(k + 1))
  BY WrapperAssumption DEF IInv, Typed, TypeOK, Counted, Looping, Current
<1>2. k + 1 \in 1..trace_num
  <2>1. trace_num = k + 1 + to_read /\ trace_num \in Nat /\ to_read \in Nat
    BY WrapperAssumption DEF IInv, Typed, TypeOK, HandedOver, Running, Taken
  <2> QED
    BY <1>1, <2>1
<1>3. OfKey(k + 1) /\ first # 0
  BY <1>2 DEF IInv, Listed
<1>4. Sorted(source, files)
  BY FilesSorted, InputAssumption DEF IInv, Listed
<1>5. /\ first + (k + 1) - 1 \in DOMAIN files
      /\ files[first + (k + 1) - 1].key = files[first].key
      /\ W(k + 1) = files[first + (k + 1) - 1]
  BY <1>3 DEF OfKey, W, correct_key, first
<1>6. k + 1 \in Nat \ {0} /\ num_dbkey \in Nat
  BY <1>1, WrapperAssumption
<1>7. first = trace_dir_findkey(files, num_dbkey)
  BY DEF first
<1> HIDE DEF first, k
<1>8. Len(wanted) \in Nat /\ k + 1 <= Len(wanted) /\ wanted[k + 1] = files[first + (k + 1) - 1]
  <2>1. PICK m : m = k + 1
    OBVIOUS
  <2>2. /\ m \in Nat \ {0} /\ first + m - 1 \in DOMAIN files
        /\ files[first + m - 1].key = files[first].key
    BY <1>5, <1>6, <2>1, Zenon
  <2>3. /\ Len(wanted) \in Nat /\ m <= Len(wanted) /\ wanted[m] = files[first + m - 1]
    BY <1>3, <1>4, <1>6, <1>7, <2>2, WantedFound
  <2> QED
    BY <2>1, <2>3, Zenon
<1>9. k < Len(wanted)
  <2> HIDE DEF wanted
  <2> QED BY <1>1, <1>8
<1> QED
  BY <1>1, <1>5, <1>8, <1>9

\* The last piece of an answer appends the record that is due.
LEMMA ReadRecords ==
    ASSUME IInv, read_result, Len(received') = AnswerPieces
    PROVE  File!Record
<1> DEFINE wanted == Wanted(source, files, num_dbkey)
           entry == wanted[Len(records) + 1]
           new == [text |-> current_trace["text"], result |-> received']
<1>1. /\ mpc = "read" /\ mpc' # "succeeded" /\ mpc' # "failed"
      /\ source' = source /\ files' = files /\ records' = Append(records, new)
  BY DEF read_result, dump_result_to_file, setup
<1>2. /\ Len(records) < num_iterations /\ Len(records) < Len(wanted)
      /\ current_trace["text"] = entry /\ Sampled(current_trace, entry)
  BY <1>1, NextWanted
<1>3. FileRecord(new) =
        [text |-> entry,
         answer |-> [text |-> entry, head |-> entry, tail |-> current_trace["tail"]]]
  BY <1>2, WholeAnswer, AnswerOfTrace DEF Sampled
<1>4. /\ current_trace["tail"] \in Value
      /\ records \in Seq([text : Value, result : Seq(Reply)])
      /\ new \in [text : Value, result : Seq(Reply)]
  BY ReadsAnswer DEF IInv, Typed, TypeOK, Trace, Value
<1>5. /\ FileRecords' = Append(FileRecords, FileRecord(new))
      /\ Len(FileRecords) = Len(records)
  <2> DEFINE Kept == [text : Value, result : Seq(Reply)]
             S == {FileRecord(r) : r \in Kept}
             n == Len(records)
  <2>1. /\ records' \in Seq(Kept) /\ Len(records') = n + 1 /\ n \in Nat
        /\ \A i \in 1..n : records'[i] = records[i]
        /\ records'[n + 1] = new
    BY <1>1, <1>4, Pushed, LenProperties
  <2>2. /\ DOMAIN records = 1..n /\ DOMAIN records' = 1..(n + 1)
        /\ \A i \in 1..n : records[i] \in Kept
        /\ \A i \in 1..(n + 1) : records'[i] \in Kept
    <3> HIDE DEF Kept
    <3> QED BY <1>4, <2>1, LenProperties, ElementOfSeq
  <2>3. FileRecord(new) \in S /\ \A r \in Kept : FileRecord(r) \in S
    BY <1>4
  <2> HIDE DEF new, S, Kept, n
  <2>4. FileRecords' = [i \in 1..(n + 1) |-> FileRecord(records'[i])]
    BY <2>2 DEF FileRecords, FileRecord
  <2>5. FileRecords = [i \in 1..n |-> FileRecord(records[i])]
    BY <2>2 DEF FileRecords
  <2>6. FileRecords \in Seq(S) /\ Len(FileRecords) = n
    <3>1. \A i \in 1..n : FileRecord(records[i]) \in S
      BY <2>2, <2>3
    <3>2. FileRecords \in [1..n -> S]
      BY <2>5, <3>1, Zenon
    <3> QED
      BY <2>1, <3>2, IsASeq, LenProperties
  <2>7. FileRecords' \in Seq(S) /\ Len(FileRecords') = n + 1
    <3>1. \A i \in 1..(n + 1) : FileRecord(records'[i]) \in S
      BY <2>2, <2>3
    <3>2. FileRecords' \in [1..(n + 1) -> S] /\ n + 1 \in Nat
      BY <2>1, <2>4, <3>1
    <3> QED
      BY <3>2, IsASeq, LenProperties
  <2>8. /\ Append(FileRecords, FileRecord(new)) \in Seq(S)
        /\ Len(Append(FileRecords, FileRecord(new))) = n + 1
        /\ \A i \in 1..n : Append(FileRecords, FileRecord(new))[i] = FileRecords[i]
        /\ Append(FileRecords, FileRecord(new))[n + 1] = FileRecord(new)
    BY <2>3, <2>6, Pushed
  <2>9. \A i \in 1..(n + 1) : FileRecords'[i] = Append(FileRecords, FileRecord(new))[i]
    <3>1. \A i \in 1..n : FileRecords'[i] = FileRecords[i]
      <4>1. \A i \in 1..n : i \in 1..(n + 1)
        BY <2>1
      <4> QED
        BY <2>1, <2>4, <2>5, <4>1, Zenon
    <3>2. FileRecords'[n + 1] = FileRecord(new)
      <4>1. n + 1 \in 1..(n + 1)
        BY <2>1
      <4> QED
        BY <2>1, <2>4, <4>1, Zenon
    <3>3. \A i \in 1..(n + 1) : i \in 1..n \/ i = n + 1
      BY <2>1
    <3> QED
      BY <2>8, <3>1, <3>2, <3>3, Zenon
  <2> QED
    BY <2>6, <2>7, <2>8, <2>9, SeqEqual DEF n
<1>6. FileStatus = "running" /\ FileStatus' = "running"
  BY <1>1 DEF FileStatus
<1> DEFINE answer == [text |-> entry, head |-> entry, tail |-> current_trace["tail"]]
<1>7. File!IsAnswer(answer, entry)
  BY <1>2 DEF File!IsAnswer, Sampled
<1>8. current_trace["tail"] \in (UNION {inp.entries : inp \in Inputs}) \union {Nothing}
  BY <1>4 DEF Value
<1>9. Wanted(source, files, num_dbkey)' = wanted
  BY <1>1
<1>10. FileRecords' = Append(FileRecords, [text |-> entry, answer |-> answer])
  BY <1>3, <1>5
<1>11. \E tail \in (UNION {inp.entries : inp \in Inputs}) \union {Nothing} :
         LET a == [text |-> entry, head |-> entry, tail |-> tail] IN
         /\ File!IsAnswer(a, entry)
         /\ FileRecords' = Append(FileRecords, [text |-> entry, answer |-> a])
  <2> WITNESS current_trace["tail"] \in (UNION {inp.entries : inp \in Inputs}) \union {Nothing}
  <2> QED
    BY <1>7, <1>10
<1> QED
  BY <1>2, <1>5, <1>6, <1>9, <1>11, Zenon DEF File!Record

\* What the result file does not see.
LEMMA UnseenStep ==
    ASSUME UNCHANGED <<source, files, records>>, mpc' = mpc \/ (Running /\ Running')
    PROVE  UNCHANGED File!vars
<1>1. FileStatus' = FileStatus
  BY DEF FileStatus, Running
<1>2. FileRecords' = FileRecords
  BY DEF FileRecords, FileRecord
<1>3. Wanted(source, files, num_dbkey)' = Wanted(source, files, num_dbkey)
  OBVIOUS
<1> QED
  BY <1>1, <1>2, <1>3 DEF File!vars

\* The wrapper ends with an error, at whatever point.
LEMMA FailingRecords ==
    ASSUME UNCHANGED <<source, files, records>>, Running, mpc' = "failed"
    PROVE  File!Fail
<1>1. FileStatus = "running" /\ FileStatus' = "failed"
  BY DEF FileStatus, Running
<1>2. FileRecords' = FileRecords
  BY DEF FileRecords, FileRecord
<1>3. Wanted(source, files, num_dbkey)' = Wanted(source, files, num_dbkey)
  OBVIOUS
<1> QED
  BY <1>1, <1>2, <1>3 DEF File!Fail

\* The wrapper ends normally: only when all records are there.
LEMMA SucceedingRecords ==
    ASSUME IInv, UNCHANGED <<source, files, records>>, mpc \in {"join", "wait"},
           mpc' = "succeeded"
    PROVE  File!Succeed
<1>1. FileStatus = "running" /\ FileStatus' = "complete"
  BY DEF FileStatus
<1>2. FileRecords' = FileRecords
  BY DEF FileRecords, FileRecord
<1>3. Wanted(source, files, num_dbkey)' = Wanted(source, files, num_dbkey)
  OBVIOUS
<1>4. Len(FileRecords) = num_iterations
  <2>1. Len(records) = num_iterations /\ num_iterations \in Nat
    BY WrapperAssumption DEF IInv, Counted
  <2>2. DOMAIN records = 1..num_iterations
    BY <2>1, LenProperties DEF IInv, Typed
  <2> QED
    BY <2>1, <2>2 DEF FileRecords
<1> QED
  BY <1>1, <1>2, <1>3, <1>4 DEF File!Succeed

LEMMA FileInit == Init => File!Init
<1> SUFFICES ASSUME Init PROVE File!Init
  OBVIOUS
<1>1. mpc \in {"failed", "send_num"} /\ records = <<>>
  BY DEF Init
<1>2. FileStatus \in {"running", "failed"}
  BY <1>1 DEF FileStatus
<1>3. FileRecords = <<>>
  BY <1>1 DEF FileRecords
<1> QED
  BY <1>2, <1>3 DEF File!Init

LEMMA FileNext == IInv /\ [Next]_vars => [File!Next]_File!vars
<1> SUFFICES ASSUME IInv, [Next]_vars PROVE File!Next \/ UNCHANGED File!vars
  OBVIOUS
<1> USE DEF setup, mainVars
<1>1. CASE SendFails \/ NothingToRead \/ NoMoreTraces
  BY <1>1, FailingRecords DEF SendFails, NothingToRead, NoMoreTraces, Running, File!Next
<1>2. CASE send_num_iterations \/ wait_start_attack_phase \/ GetTrace \/ CopyText
           \/ CopySamples \/ send_trace
  <2>1. UNCHANGED <<source, files, records>> /\ Running /\ Running'
    BY <1>2 DEF send_num_iterations, wait_start_attack_phase, GetTrace, CopyText, CopySamples,
                send_trace, Running
  <2> QED
    BY <2>1, UnseenStep
<1>3. CASE read_result
  <2>1. CASE Len(received') = AnswerPieces
    BY <1>3, <2>1, ReadRecords DEF File!Next
  <2>2. CASE Len(received') # AnswerPieces
    <3>1. UNCHANGED <<source, files, records, mpc>>
      BY <1>3, <2>2 DEF read_result
    <3> QED
      BY <3>1, UnseenStep
  <2> QED
    BY <2>1, <2>2
<1>4. CASE wait_trace_thread_termination \/ WaitChild
  <2>1. /\ UNCHANGED <<source, files, records>> /\ mpc \in {"join", "wait"}
        /\ mpc' = "succeeded" \/ (Running /\ Running')
    BY <1>4 DEF wait_trace_thread_termination, WaitChild, Running
  <2>2. CASE mpc' = "succeeded"
    BY <2>1, <2>2, SucceedingRecords DEF File!Next
  <2> QED
    BY <2>1, <2>2, UnseenStep
<1>5. CASE Signals
  <2>1. /\ UNCHANGED <<source, files, records>> /\ Running
        /\ mpc' = "failed" \/ mpc' = mpc \/ Running'
    BY <1>5 DEF Signals, sig_chld_handler, Interrupted, Running
  <2>2. CASE mpc' = "failed"
    BY <2>1, <2>2, FailingRecords DEF File!Next
  <2> QED
    BY <2>1, <2>2, UnseenStep
<1>6. CASE AwaitWritable \/ ParseSamples \/ FillTexts \/ Attack \/ AttackDies \/ UNCHANGED vars
  <2>1. UNCHANGED <<source, files, records, mpc>>
    BY <1>6 DEF AwaitWritable, ParseSamples, FillTexts, Attack, AttackDies, read_num, write_data,
                read_trace, AttackEnds, vars
  <2> QED
    BY <2>1, UnseenStep
<1> QED
  BY <1>1, <1>2, <1>3, <1>4, <1>5, <1>6 DEF Next, Main, TraceThread

\* The wrapper implements ResultFile: the i-th record holds the i-th trace of the
\* attacked key and the attack program's answer to that trace alone, and success
\* is reported only when all records are there (send_data, read_data,
\* dump_result_to_file, trace_dir_findkey and the semaphores together).
THEOREM WritesWantedRecords == Spec => FileSpec
<1>1. Init => File!Init
  BY FileInit
<1>2. IInv /\ [Next]_vars => [File!Next]_File!vars
  BY FileNext
<1> QED
  BY <1>1, <1>2, Invariance, PTL DEF Spec, FileSpec, File!Spec
================================================================================
