-------------------------- MODULE ContestResultsProofs --------------------------
(* What compute_results reports, proved for all result files: one pass over   *)
(* the curves finds the start of the stretch at their end in which a metric   *)
(* passes its threshold, and the three metrics, accumulated apart, agree.     *)
EXTENDS ContestResults, InductionFacts

\* What is known of one metric after iter turns of the loop.
Tracked(m) ==
    /\ first[m] \in 0..(iter - 1) \union {Never}
    /\ first[m] # Never => Passes(m, first[m] + 1)
    /\ \A i \in 0..(iter - 1) : i < first[m] => ~Passes(m, i + 1)
    /\ stable[m] \in 0..(iter - 1) \union {Never}
    /\ stable[m] = Never /\ iter > 0 => ~Passes(m, iter)
    /\ stable[m] # Never =>
        /\ \A i \in stable[m]..(iter - 1) : Passes(m, i + 1)
        /\ stable[m] > 0 => ~Passes(m, stable[m])

\* The inductive invariant: while files are read only the number of iterations
\* matters, from StartMetrics on every metric is tracked.
LoopInv ==
    /\ num_iterations \in Nat
    /\ pc \in {"metrics", "done"} =>
        /\ iter \in 0..num_iterations
        /\ first \in [Metrics -> Nat] /\ stable \in [Metrics -> Nat]
        /\ \A m \in Metrics : Tracked(m)
    /\ pc = "done" => iter = num_iterations

-----------------------------------------------------------------------------
\* The smallest element of a set of integers is the one below all others.
LEMMA SmallestIsMin ==
    ASSUME NEW S \in SUBSET Int, NEW x \in S, \A y \in S : x <= y
    PROVE  Min(S) = x
<1>1. \E y \in S : \A z \in S : y <= z
  OBVIOUS
<1>2. Min(S) \in S /\ \A z \in S : Min(S) <= z
  BY <1>1, Zenon DEF Min
<1>3. Min(S) \in Int /\ Min(S) <= x /\ x <= Min(S)
  BY <1>2
<1> QED
  BY <1>3

\* Whether a metric passes is decided by the accumulated counts alone.
LEMMA PassesUnchanged ==
    ASSUME NEW m, NEW i, UNCHANGED <<accumulators, num_experiments>>
    PROVE  Passes(m, i) <=> Passes(m, i)'
  BY DEF Passes, Exceeds, accumulators

\* Initially only the number of iterations is constrained.
LEMMA InitLoop == Init => LoopInv
  BY DEF Init, LoopInv

\* Reading a file sets the number of iterations.
LEMMA ParseLoop ==
    ASSUME FilesWellFormed, LoopInv, NEW f \in Files, Parse(f)
    PROVE  LoopInv'
  BY DEF FilesWellFormed, LoopInv, Parse

\* Before the first turn nothing has been found.
LEMMA StartLoop ==
    ASSUME LoopInv, StartMetrics
    PROVE  LoopInv'
<1>1. num_iterations' = num_iterations /\ num_iterations \in Nat /\ iter' = 0 /\ pc' = "metrics"
  BY DEF LoopInv, StartMetrics, accumulators
<1>2. Never' = Never /\ Never \in Nat /\ Never > 0
  BY <1>1 DEF Never
<1>3. \A m \in Metrics : first'[m] = Never /\ stable'[m] = Never
  BY DEF StartMetrics
<1>4. first' \in [Metrics -> Nat] /\ stable' \in [Metrics -> Nat]
  BY <1>2 DEF StartMetrics
<1>5. ASSUME NEW m \in Metrics PROVE Tracked(m)'
  BY <1>1, <1>2, <1>3 DEF Tracked
<1> QED
  BY <1>1, <1>4, <1>5 DEF LoopInv

\* A turn of the loop moves what is known by one iteration.
LEMMA TurnLoop ==
    ASSUME LoopInv, MetricsOf
    PROVE  LoopInv'
<1>1. /\ pc = "metrics" /\ pc' = "metrics"
      /\ num_iterations' = num_iterations /\ num_iterations \in Nat
      /\ iter \in Nat /\ iter < num_iterations /\ iter' = iter + 1
  BY DEF LoopInv, MetricsOf, accumulators
<1>2. Never' = Never /\ Never \in Nat /\ iter < Never - 1
  BY <1>1 DEF Never
<1>3. UNCHANGED <<accumulators, num_experiments>>
  BY DEF MetricsOf
<1>4. first \in [Metrics -> Nat] /\ stable \in [Metrics -> Nat]
  BY <1>1 DEF LoopInv
<1>5. ASSUME NEW m \in Metrics
      PROVE  /\ first'[m] = IF Passes(m, iter + 1) /\ iter < first[m] THEN iter ELSE first[m]
             /\ stable'[m] = Stable(m, iter)
             /\ first'[m] \in Nat /\ stable'[m] \in Nat
  BY <1>1, <1>2, <1>4 DEF MetricsOf, Stable
<1>6. first' \in [Metrics -> Nat] /\ stable' \in [Metrics -> Nat]
  BY <1>5 DEF MetricsOf
<1>7. ASSUME NEW m \in Metrics PROVE Tracked(m)'
  <2> DEFINE P(i) == Passes(m, i)
  <2>1. \A i : Passes(m, i)' <=> P(i)
    BY <1>3, PassesUnchanged
  <2>2. Tracked(m)
    BY <1>1 DEF LoopInv
  <2>3. /\ first[m] \in 0..(iter - 1) \union {Never}
        /\ first[m] # Never => P(first[m] + 1)
        /\ \A i \in 0..(iter - 1) : i < first[m] => ~P(i + 1)
    BY <2>2 DEF Tracked
  <2>4. /\ stable[m] \in 0..(iter - 1) \union {Never}
        /\ stable[m] = Never /\ iter > 0 => ~P(iter)
        /\ stable[m] # Never =>
            /\ \A i \in stable[m]..(iter - 1) : P(i + 1)
            /\ stable[m] > 0 => ~P(stable[m])
    BY <2>2 DEF Tracked
  <2>5. first'[m] = IF P(iter + 1) /\ iter < first[m] THEN iter ELSE first[m]
    BY <1>5
  <2>6. stable'[m] = IF P(iter + 1) /\ iter < stable[m] THEN iter
                     ELSE IF ~P(iter + 1) /\ iter > stable[m] THEN Never ELSE stable[m]
    BY <1>5 DEF Stable
  <2> HIDE DEF P
  <2>7. /\ first'[m] \in 0..iter \union {Never}
        /\ first'[m] # Never => P(first'[m] + 1)
        /\ \A i \in 0..iter : i < first'[m] => ~P(i + 1)
    BY <1>1, <1>2, <2>3, <2>5
  <2>8. /\ stable'[m] \in 0..iter \union {Never}
        /\ stable'[m] = Never => ~P(iter + 1)
        /\ stable'[m] # Never =>
            /\ \A i \in stable'[m]..iter : P(i + 1)
            /\ stable'[m] > 0 => ~P(stable'[m])
    <3>1. CASE P(iter + 1) /\ stable[m] = Never
      BY <3>1, <1>1, <1>2, <2>4, <2>6
    <3>2. CASE P(iter + 1) /\ stable[m] # Never
      BY <3>2, <1>1, <1>2, <2>4, <2>6
    <3>3. CASE ~P(iter + 1)
      BY <3>3, <1>1, <1>2, <2>4, <2>6
    <3> QED BY <3>1, <3>2, <3>3
  <2>9. iter' - 1 = iter /\ iter' > 0
    BY <1>1
  <2> QED
    BY <1>1, <1>2, <2>1, <2>7, <2>8, <2>9 DEF Tracked
<1> QED
  BY <1>1, <1>6, <1>7 DEF LoopInv

\* The other steps leave the loop's variables alone.
LEMMA RestLoop ==
    ASSUME LoopInv, Output \/ UNCHANGED vars \/ \E f \in Files : Exit(f)
    PROVE  LoopInv'
<1>1. UNCHANGED <<accumulators, num_experiments, iter, first, stable>>
  BY DEF Output, Exit, vars, accumulators
<1>2. \A m, i : Passes(m, i)' <=> Passes(m, i)
  BY <1>1, PassesUnchanged
<1>3. num_iterations' = num_iterations /\ Never' = Never
  BY <1>1 DEF accumulators, Never
<1>4. \A m : Tracked(m) => Tracked(m)'
  BY <1>1, <1>2, <1>3 DEF Tracked
<1>5. pc' \in {"metrics", "done"} => pc \in {"metrics", "done"}
  BY DEF Output, Exit, vars
<1>6. pc' = "done" => iter = num_iterations
  BY DEF Output, Exit, vars, LoopInv
<1> QED
  BY <1>1, <1>3, <1>4, <1>5, <1>6 DEF LoopInv

\* LoopInv is inductive.
LEMMA NextLoop == FilesWellFormed /\ LoopInv /\ [Next]_vars => LoopInv'
  BY ParseLoop, StartLoop, TurnLoop, RestLoop DEF Next

-----------------------------------------------------------------------------
\* At the end, what is known of each metric is what the names of the reported
\* iterations say.
LEMMA LoopEnd == LoopInv => StableFromEnd
<1> SUFFICES ASSUME LoopInv, pc = "done", NEW m \in Metrics
             PROVE  LET passing == { i \in 0..(num_iterations - 1) : Passes(m, i + 1) }
                        tails == { i \in passing : i..(num_iterations - 1) \subseteq passing }
                    IN  /\ first[m] = Min(passing \union {Never})
                        /\ stable[m] = Min(tails \union {Never})
  BY DEF StableFromEnd
<1> DEFINE P(i) == Passes(m, i)
           last == num_iterations - 1
           passing == { i \in 0..last : P(i + 1) }
           tails == { i \in passing : i..last \subseteq passing }
<1>1. iter = num_iterations /\ num_iterations \in Nat /\ Tracked(m)
  BY DEF LoopInv
<1>2. Never \in Nat /\ Never > last /\ last \in Int
  BY <1>1 DEF Never
<1>3. /\ first[m] \in 0..last \union {Never}
      /\ first[m] # Never => P(first[m] + 1)
      /\ \A i \in 0..last : i < first[m] => ~P(i + 1)
  BY <1>1 DEF Tracked
<1>4. /\ stable[m] \in 0..last \union {Never}
      /\ stable[m] = Never /\ num_iterations > 0 => ~P(last + 1)
      /\ stable[m] # Never =>
          /\ \A i \in stable[m]..last : P(i + 1)
          /\ stable[m] > 0 => ~P(stable[m])
  BY <1>1 DEF Tracked
<1> HIDE DEF P
<1>5. first[m] = Min(passing \union {Never})
  <2>1. first[m] \in passing \union {Never} /\ passing \union {Never} \in SUBSET Int
    BY <1>2, <1>3
  <2>2. \A y \in passing \union {Never} : first[m] <= y
    BY <1>2, <1>3
  <2> HIDE DEF passing
  <2> QED BY <2>1, <2>2, SmallestIsMin
<1>6. stable[m] = Min(tails \union {Never})
  <2>1. stable[m] \in tails \union {Never} /\ tails \union {Never} \in SUBSET Int
    BY <1>2, <1>4
  <2>2. ASSUME NEW y \in tails PROVE stable[m] <= y
    <3>1. y \in 0..last /\ \A i \in y..last : P(i + 1)
      OBVIOUS
    <3>2. P(last + 1) /\ num_iterations > 0
      BY <3>1, <1>1, <1>2
    <3>3. stable[m] # Never
      BY <3>2, <1>4
    <3>4. CASE y < stable[m]
      <4>1. stable[m] - 1 \in y..last /\ stable[m] > 0
        BY <3>1, <3>3, <3>4, <1>2, <1>4
      <4>2. P(stable[m] - 1 + 1)
        BY <3>1, <4>1
      <4> QED BY <4>1, <4>2, <3>3, <1>2, <1>4
    <3> QED BY <3>1, <3>4, <1>2, <1>4
  <2>3. stable[m] <= Never
    BY <1>2, <1>4
  <2> HIDE DEF tails
  <2> QED BY <2>1, <2>2, <2>3, SmallestIsMin
<1> QED
  BY <1>5, <1>6 DEF P

\* compute_metrics reports, for any result files of any length, the first
\* iteration at which a metric passes and the start of the stretch at the end
\* in which it passes throughout.
THEOREM ReportedIterations ==
    ASSUME FilesWellFormed
    PROVE  Spec => []StableFromEnd
<1>1. FilesWellFormed
  OBVIOUS
<1>2. LoopInv /\ [Next]_vars => LoopInv'
  BY <1>1, NextLoop
<1> QED
  BY <1>2, InitLoop, LoopEnd, PTL DEF Spec

-----------------------------------------------------------------------------
(* The three metrics tell one story.                                          *)

\* What has been accumulated of iteration i when n files were added up.
Missed(n, psr) == [b \in SubkeyBytes |-> n - psr[b]]
Agree(n, gsr, psr, pge) ==
    /\ gsr \in 0..n /\ psr \in [SubkeyBytes -> 0..n] /\ pge \in [SubkeyBytes -> Nat]
    /\ \A b \in SubkeyBytes :
        /\ gsr <= psr[b]
        /\ pge[b] \in (psr[b] + 2 * (n - psr[b]))..(psr[b] + Worst * (n - psr[b]))
    /\ \A F : Adds(Missed(n, psr), F, SubkeyBytes) => gsr >= n - F[SubkeyBytes]

\* The inductive invariant of the accumulators.
RanksInv ==
    /\ pc \in {"files", "metrics", "done", "exit"}
    /\ num_experiments \in 1..MaxFiles /\ num_iterations \in Nat
    /\ parsed \in Seq(Files) /\ Len(parsed) <= num_experiments
    /\ parsed = <<>> => gsr_acc = <<>>
    /\ parsed # <<>> =>
        /\ DOMAIN gsr_acc = 1..num_iterations /\ DOMAIN pge_acc = 1..num_iterations
        /\ \A i \in 1..num_iterations : Agree(Len(parsed), gsr_acc[i], psr_acc[i], pge_acc[i])
    /\ pc \in {"metrics", "done"} => Len(parsed) = num_experiments

\* Nothing has been missed yet.
LEMMA AgreeBase ==
    ASSUME ResultsWellFormed
    PROVE  Agree(0, 0, [b \in SubkeyBytes |-> 0], [b \in SubkeyBytes |-> 0])
<1> DEFINE zero == [b \in SubkeyBytes |-> 0]
<1>1. Missed(0, zero) \in [SubkeyBytes -> Nat] /\ \A b \in SubkeyBytes : Missed(0, zero)[b] = 0
  BY DEF Missed
<1>2. ASSUME NEW F, Adds(Missed(0, zero), F, SubkeyBytes)
      PROVE  0 >= 0 - F[SubkeyBytes]
  <2>1. F[SubkeyBytes] \in Nat
    BY <1>1, <1>2, SumsGrow DEF ResultsWellFormed
  <2> QED BY <2>1
<1>3. zero \in [SubkeyBytes -> 0..0] /\ zero \in [SubkeyBytes -> Nat]
  OBVIOUS
<1>4. \A b \in SubkeyBytes : 0 <= zero[b] /\ 0 \in (zero[b] + 2 * (0 - zero[b]))..(zero[b] + Worst * (0 - zero[b]))
  BY DEF ResultsWellFormed
<1> QED
  BY <1>2, <1>3, <1>4 DEF Agree

\* One more file, with its places of one iteration.
LEMMA AgreeStep ==
    ASSUME ResultsWellFormed, NEW n \in Nat, NEW gsr, NEW psr, NEW pge, Agree(n, gsr, psr, pge),
           NEW places \in [SubkeyBytes -> 0..Worst],
           NEW gsr2, gsr2 = gsr + (IF \A b \in SubkeyBytes : places[b] = 1 THEN 1 ELSE 0),
           NEW psr2, psr2 = [b \in SubkeyBytes |-> psr[b] + Right(places[b])],
           NEW pge2, pge2 = [b \in SubkeyBytes |-> pge[b] + Rank(places[b])]
    PROVE  Agree(n + 1, gsr2, psr2, pge2)
<1> DEFINE all == \A b \in SubkeyBytes : places[b] = 1
           old == Missed(n, psr)
           new == Missed(n + 1, psr2)
<1>1. /\ gsr \in 0..n /\ psr \in [SubkeyBytes -> 0..n] /\ pge \in [SubkeyBytes -> Nat]
      /\ Worst \in Nat /\ Worst >= 2 /\ IsFiniteSet(SubkeyBytes)
  BY DEF Agree, ResultsWellFormed
<1>2. ASSUME NEW b \in SubkeyBytes
      PROVE  /\ psr2[b] = psr[b] + (IF places[b] = 1 THEN 1 ELSE 0) /\ psr[b] \in 0..n
             /\ pge2[b] = pge[b] + Rank(places[b]) /\ pge[b] \in Nat
             /\ places[b] = 1 => Rank(places[b]) = 1
             /\ places[b] # 1 => Rank(places[b]) \in 2..Worst
             /\ gsr <= psr[b]
             /\ pge[b] \in (psr[b] + 2 * (n - psr[b]))..(psr[b] + Worst * (n - psr[b]))
  <2>1. places[b] \in 0..Worst
    OBVIOUS
  <2>2. psr2[b] = psr[b] + Right(places[b]) /\ pge2[b] = pge[b] + Rank(places[b])
    OBVIOUS
  <2>3. /\ places[b] = 1 => Rank(places[b]) = 1
        /\ places[b] # 1 => Rank(places[b]) \in 2..Worst
    BY <1>1, <2>1 DEF Rank, Absent
  <2> QED
    BY <1>1, <2>2, <2>3 DEF Agree, Right
<1>3. gsr2 \in 0..(n + 1) /\ \A b \in SubkeyBytes : psr2[b] \in 0..(n + 1) /\ pge2[b] \in Nat /\ gsr2 <= psr2[b]
  <2>1. gsr2 \in 0..(n + 1)
    BY <1>1
  <2>2. ASSUME NEW b \in SubkeyBytes PROVE psr2[b] \in 0..(n + 1) /\ pge2[b] \in Nat /\ gsr2 <= psr2[b]
    <3>1. Rank(places[b]) \in Nat
      BY <1>1, <1>2
    <3>2. gsr2 = gsr \/ (gsr2 = gsr + 1 /\ places[b] = 1)
      BY <1>1
    <3> QED BY <1>1, <1>2, <3>1, <3>2
  <2> QED BY <2>1, <2>2
<1>4. ASSUME NEW b \in SubkeyBytes
      PROVE  pge2[b] \in (psr2[b] + 2 * ((n + 1) - psr2[b]))..(psr2[b] + Worst * ((n + 1) - psr2[b]))
  <2> DEFINE m == n - psr[b]
  <2>1. m \in Nat /\ (n + 1) - psr2[b] = IF places[b] = 1 THEN m ELSE m + 1
    BY <1>1, <1>2
  <2>2. Worst * (m + 1) = Worst * m + Worst /\ Worst * m \in Nat
    BY <1>1, <2>1
  <2>3. pge[b] >= psr[b] + 2 * m /\ pge[b] <= psr[b] + Worst * m
    BY <1>2
  <2> DEFINE top == Worst * m
             top2 == Worst * (m + 1)
  <2> HIDE DEF m, top, top2
  <2>4. CASE places[b] = 1
    <3>1. pge2[b] = pge[b] + 1 /\ psr2[b] = psr[b] + 1 /\ (n + 1) - psr2[b] = m
      BY <1>2, <2>1, <2>4
    <3>2. pge[b] + 1 \in (psr[b] + 1 + 2 * m)..(psr[b] + 1 + top)
      BY <1>2, <2>1, <2>2, <2>3 DEF top
    <3> QED BY <3>1, <3>2 DEF top
  <2>5. CASE places[b] # 1
    <3>1. pge2[b] = pge[b] + Rank(places[b]) /\ psr2[b] = psr[b] /\ (n + 1) - psr2[b] = m + 1
      BY <1>1, <1>2, <2>1, <2>5
    <3>2. Rank(places[b]) \in 2..Worst
      BY <1>2, <2>5
    <3>3. pge[b] + Rank(places[b]) \in (psr[b] + 2 * (m + 1))..(psr[b] + top2)
      BY <1>1, <1>2, <2>1, <2>2, <2>3, <3>2 DEF top, top2
    <3> QED BY <3>1, <3>3 DEF top2
  <2> QED BY <2>4, <2>5
<1>5. ASSUME NEW G, Adds(new, G, SubkeyBytes)
      PROVE  gsr2 >= (n + 1) - G[SubkeyBytes]
  <2>1. ASSUME NEW b \in SubkeyBytes
        PROVE  /\ old[b] \in Nat /\ new[b] \in Nat /\ old[b] <= new[b]
               /\ places[b] # 1 => old[b] < new[b]
    <3>1. old[b] = n - psr[b]
      BY ONLY b \in SubkeyBytes DEF Missed
    <3>2. new[b] = (n + 1) - psr2[b]
      BY ONLY b \in SubkeyBytes DEF Missed
    <3> HIDE DEF old, new
    <3> QED BY <1>1, <1>2, <3>1, <3>2
  <2>2. old \in [SubkeyBytes -> Nat] /\ new \in [SubkeyBytes -> Nat]
    BY <2>1 DEF Missed
  <2> HIDE DEF old, new
  <2>3. PICK F : Adds(old, F, SubkeyBytes)
    BY <1>1, <2>2, SumExists
  <2>4. gsr >= n - F[SubkeyBytes]
    BY <2>3 DEF Agree, old
  <2>5. /\ F[SubkeyBytes] \in Nat /\ G[SubkeyBytes] \in Nat /\ F[SubkeyBytes] <= G[SubkeyBytes]
        /\ (\E b \in SubkeyBytes : old[b] < new[b]) => F[SubkeyBytes] < G[SubkeyBytes]
    BY <1>1, <1>5, <2>1, <2>2, <2>3, SumsGrow
  <2>6. CASE all
    BY <1>1, <2>4, <2>5, <2>6
  <2>7. CASE ~all
    BY <1>1, <2>1, <2>4, <2>5, <2>7
  <2> QED BY <2>6, <2>7
<1>6. psr2 \in [SubkeyBytes -> 0..(n + 1)] /\ pge2 \in [SubkeyBytes -> Nat]
  BY <1>3
<1>7. \A b \in SubkeyBytes : gsr2 <= psr2[b]
  BY <1>3
<1>8. \A G : Adds(Missed(n + 1, psr2), G, SubkeyBytes) => gsr2 >= (n + 1) - G[SubkeyBytes]
  BY <1>5
<1> HIDE DEF all, old, new
<1> QED
  BY ONLY <1>3, <1>4, <1>6, <1>7, <1>8 DEF Agree

LEMMA InitRanks ==
    ASSUME ResultsWellFormed, Init
    PROVE  RanksInv
  BY DEF Init, RanksInv, ResultsWellFormed

\* parse_result_file adds the places of a file to what is there; the first
\* file finds nothing.
LEMMA ParseRanks ==
    ASSUME ResultsWellFormed, RanksInv, NEW f \in Files, Parse(f)
    PROVE  RanksInv'
<1> DEFINE n == Len(parsed)
<1>1. /\ pc = "files" /\ pc' = "files" /\ num_experiments' = num_experiments
      /\ parsed' = Append(parsed, f) /\ num_iterations' = f.iterations
      /\ n < num_experiments /\ Len(f.places) >= f.iterations
      /\ parsed # <<>> => f.iterations = num_iterations
  BY DEF Parse, Accepted
<1>2. /\ num_experiments \in 1..MaxFiles /\ MaxFiles \in Nat /\ n \in Nat
      /\ f.iterations \in Nat /\ parsed \in Seq(Files)
  BY DEF RanksInv, ResultsWellFormed, FilesWellFormed
<1>3. parsed' \in Seq(Files) /\ Len(parsed') = n + 1 /\ parsed' # <<>>
  BY <1>1, <1>2
<1>4. ASSUME NEW i \in 1..f.iterations
      PROVE  Agree(n + 1, gsr_acc'[i], psr_acc'[i], pge_acc'[i])
  <2> DEFINE places == f.places[i]
             gsr == IF parsed = <<>> THEN 0 ELSE gsr_acc[i]
             psr == [b \in SubkeyBytes |-> Before(psr_acc, i, b)]
             pge == [b \in SubkeyBytes |-> Before(pge_acc, i, b)]
  <2>1. places \in [SubkeyBytes -> 0..Worst]
    BY <1>1 DEF ResultsWellFormed
  <2>2. gsr_acc'[i] = gsr + (IF \A b \in SubkeyBytes : places[b] = 1 THEN 1 ELSE 0)
    BY DEF Parse, AllRight
  <2>3. psr_acc'[i] = [b \in SubkeyBytes |-> psr[b] + Right(places[b])]
    BY DEF Parse
  <2>4. pge_acc'[i] = [b \in SubkeyBytes |-> pge[b] + Rank(places[b])]
    BY DEF Parse
  <2>5. Agree(n, gsr, psr, pge)
    <3>1. CASE parsed = <<>>
      <4>1. n = 0
        BY <3>1 DEF RanksInv
      <4>2. gsr = 0 /\ psr = [b \in SubkeyBytes |-> 0] /\ pge = [b \in SubkeyBytes |-> 0]
        BY <3>1 DEF Before
      <4> HIDE DEF n, gsr, psr, pge
      <4> QED BY <4>1, <4>2, AgreeBase
    <3>2. CASE parsed # <<>>
      <4>1. Agree(n, gsr_acc[i], psr_acc[i], pge_acc[i])
        BY <1>1, <3>2 DEF RanksInv
      <4>2. psr_acc[i] \in [SubkeyBytes -> 0..n] /\ pge_acc[i] \in [SubkeyBytes -> Nat]
        BY <4>1 DEF Agree
      <4>3. gsr = gsr_acc[i] /\ psr = psr_acc[i] /\ pge = pge_acc[i]
        BY <3>2, <4>2 DEF Before
      <4> HIDE DEF n, gsr, psr, pge
      <4> QED BY <4>1, <4>3
    <3> QED BY <3>1, <3>2
  <2>6. n \in Nat
    BY <1>2
  <2> HIDE DEF n, gsr, psr, pge, places
  <2> QED BY ONLY ResultsWellFormed, <2>1, <2>2, <2>3, <2>4, <2>5, <2>6, AgreeStep
<1>5. DOMAIN gsr_acc' = 1..f.iterations /\ DOMAIN pge_acc' = 1..f.iterations
  BY DEF Parse
<1> QED
  BY <1>1, <1>2, <1>3, <1>4, <1>5 DEF RanksInv

\* Nothing else changes what was accumulated.
LEMMA RestRanks ==
    ASSUME RanksInv, StartMetrics \/ MetricsOf \/ Output \/ UNCHANGED vars \/ \E f \in Files : Exit(f)
    PROVE  RanksInv'
<1>1. UNCHANGED <<parsed, num_experiments, num_iterations, pge_acc, psr_acc, gsr_acc>>
  BY DEF StartMetrics, MetricsOf, Output, Exit, vars, accumulators
<1>2. /\ pc' \in {"files", "metrics", "done", "exit"}
      /\ pc' \in {"metrics", "done"} => pc \in {"metrics", "done"} \/ Len(parsed) = num_experiments
  BY DEF StartMetrics, MetricsOf, Output, Exit, vars, RanksInv
<1> QED
  BY <1>1, <1>2 DEF RanksInv

LEMMA NextRanks == ResultsWellFormed /\ RanksInv /\ [Next]_vars => RanksInv'
  BY ParseRanks, RestRanks DEF Next

-----------------------------------------------------------------------------
\* The sum of the misses, as the property takes it.
LEMMA MissedTotal ==
    ASSUME ResultsWellFormed, NEW n \in Nat, NEW psr \in [SubkeyBytes -> 0..n]
    PROVE  \E F : /\ Adds(Missed(n, psr), F, SubkeyBytes)
                  /\ MapThenSumSet(LAMBDA b : n - psr[b], SubkeyBytes) = F[SubkeyBytes]
<1> DEFINE IsIter(F) == F = [s \in SUBSET SubkeyBytes |->
                                IF s = {} THEN 0 ELSE (n - psr[One(s)]) + F[s \ {One(s)}]]
           G == CHOOSE F : IsIter(F)
<1>1. Missed(n, psr) \in [SubkeyBytes -> Nat]
  BY DEF Missed
<1>2. PICK F : Adds(Missed(n, psr), F, SubkeyBytes)
  BY <1>1, SumExists DEF ResultsWellFormed
<1>3. ASSUME NEW H PROVE Adds(Missed(n, psr), H, SubkeyBytes) <=> IsIter(H)
  <2>1. \A s \in SUBSET SubkeyBytes : s # {} => One(s) \in SubkeyBytes
    BY DEF One
  <2>2. \A b \in SubkeyBytes : Missed(n, psr)[b] = n - psr[b]
    BY DEF Missed
  <2>3. [s \in SUBSET SubkeyBytes |-> IF s = {} THEN 0 ELSE (n - psr[One(s)]) + H[s \ {One(s)}]]
        = [s \in SUBSET SubkeyBytes |-> IF s = {} THEN 0 ELSE Missed(n, psr)[One(s)] + H[s \ {One(s)}]]
    BY <2>1, <2>2
  <2> QED BY <2>3 DEF Adds
<1>4. IsIter(G)
  <2>1. IsIter(F)
    BY <1>2, <1>3
  <2> HIDE DEF IsIter
  <2> QED BY <2>1
<1>5. MapThenSumSet(LAMBDA b : n - psr[b], SubkeyBytes) = G[SubkeyBytes]
  BY DEF MapThenSumSet, MapThenFoldSet, One
<1> QED
  BY <1>3, <1>4, <1>5

\* If the whole subkey passes its threshold, so does its weakest byte.
LEMMA WeakestPasses ==
    ASSUME ResultsWellFormed, RanksInv, parsed # <<>>, NEW i \in 1..num_iterations,
           Passes("gsr", i)
    PROVE  Passes("psr", i)
<1> DEFINE counts == { psr_acc[i][b] : b \in SubkeyBytes }
<1>1. /\ gsr_acc[i] \in Nat /\ psr_acc[i] \in [SubkeyBytes -> Nat] /\ num_experiments \in Nat
      /\ \A b \in SubkeyBytes : gsr_acc[i] <= psr_acc[i][b]
  <2>1. Agree(Len(parsed), gsr_acc[i], psr_acc[i], pge_acc[i])
    BY DEF RanksInv
  <2>2. Len(parsed) \in Nat /\ num_experiments \in Nat
    BY DEF RanksInv, ResultsWellFormed
  <2> QED BY <2>1, <2>2 DEF Agree
<1>2. counts \subseteq Nat /\ counts # {}
  BY <1>1 DEF ResultsWellFormed
<1>3. Min(counts) \in counts
  BY <1>2, Smallest
<1>4. Min(counts) \in Nat /\ gsr_acc[i] <= Min(counts)
  BY <1>1, <1>3
<1>5. 5 * gsr_acc[i] >= 4 * num_experiments
  BY DEF Passes, Exceeds
<1> HIDE DEF counts
<1>6. 5 * Min(counts) >= 4 * num_experiments
  BY <1>1, <1>4, <1>5
<1> QED
  BY <1>6 DEF Passes, Exceeds, counts

\* Each accumulated number is in range, and so are the reported iterations.
LEMMA RanksTypes == ResultsWellFormed /\ LoopInv /\ RanksInv => TypeOK
<1> SUFFICES ASSUME ResultsWellFormed, LoopInv, RanksInv PROVE TypeOK
  OBVIOUS
<1>1. /\ pc \in {"files", "metrics", "done", "exit"}
      /\ num_experiments \in 1..MaxFiles /\ Len(parsed) <= num_experiments /\ Len(parsed) \in Nat
      /\ MaxFiles \in Nat
  BY DEF RanksInv, ResultsWellFormed
<1>2. ASSUME parsed # <<>>, NEW i \in 1..num_iterations
      PROVE  /\ gsr_acc[i] \in 0..num_experiments
             /\ psr_acc[i] \in [SubkeyBytes -> 0..num_experiments]
             /\ pge_acc[i] \in [SubkeyBytes -> Nat]
  <2>1. Agree(Len(parsed), gsr_acc[i], psr_acc[i], pge_acc[i])
    BY <1>2 DEF RanksInv
  <2> QED BY <1>1, <2>1 DEF Agree
<1>3. ASSUME pc \in {"metrics", "done"}
      PROVE  first \in [Metrics -> 0..Never] /\ stable \in [Metrics -> 0..Never]
  <2>1. /\ num_iterations \in Nat /\ iter \in 0..num_iterations
        /\ first \in [Metrics -> Nat] /\ stable \in [Metrics -> Nat]
    BY <1>3 DEF LoopInv
  <2>2. ASSUME NEW m \in Metrics PROVE first[m] \in 0..Never /\ stable[m] \in 0..Never
    <3>1. first[m] \in 0..(iter - 1) \union {Never} /\ stable[m] \in 0..(iter - 1) \union {Never}
      BY <1>3 DEF LoopInv, Tracked
    <3> QED BY <2>1, <3>1 DEF Never
  <2> QED BY <2>1, <2>2
<1>4. parsed # <<>> => DOMAIN pge_acc = 1..num_iterations
  BY DEF RanksInv
<1> QED
  BY <1>1, <1>2, <1>3, <1>4 DEF TypeOK

\* The rates follow from the places.
LEMMA RanksEnd == ResultsWellFormed /\ LoopInv /\ RanksInv => RatesFollowRanks
<1> SUFFICES ASSUME ResultsWellFormed, LoopInv, RanksInv PROVE RatesFollowRanks
  OBVIOUS
<1> DEFINE n == Len(parsed)
<1>1. n \in Nat /\ num_iterations \in Nat /\ num_experiments \in Nat /\ num_experiments > 0
  BY DEF RanksInv, ResultsWellFormed
<1>2. ASSUME NEW i \in DOMAIN gsr_acc
      PROVE  /\ gsr_acc[i] >= n - MapThenSumSet(LAMBDA b : n - psr_acc[i][b], SubkeyBytes)
             /\ \A b \in SubkeyBytes :
                 /\ gsr_acc[i] <= psr_acc[i][b]
                 /\ pge_acc[i][b] \in (psr_acc[i][b] + 2 * (n - psr_acc[i][b]))
                                        ..(psr_acc[i][b] + Worst * (n - psr_acc[i][b]))
  <2>1. parsed # <<>>
    BY DEF RanksInv
  <2>2. Agree(n, gsr_acc[i], psr_acc[i], pge_acc[i])
    BY <2>1 DEF RanksInv
  <2>3. psr_acc[i] \in [SubkeyBytes -> 0..n]
    BY <2>2 DEF Agree
  <2> HIDE DEF n
  <2>4. PICK F : /\ Adds(Missed(n, psr_acc[i]), F, SubkeyBytes)
                 /\ MapThenSumSet(LAMBDA b : n - psr_acc[i][b], SubkeyBytes) = F[SubkeyBytes]
    BY <1>1, <2>3, MissedTotal
  <2> QED BY <2>2, <2>4 DEF Agree
<1>3. ASSUME pc = "done" PROVE first["gsr"] >= first["psr"] /\ stable["gsr"] >= stable["psr"]
  <2> DEFINE g(i) == Passes("gsr", i)
             p(i) == Passes("psr", i)
             last == num_iterations - 1
  <2>1. Tracked("gsr") /\ Tracked("psr") /\ iter = num_iterations
    BY <1>3 DEF LoopInv, Metrics
  <2>2. parsed # <<>>
    BY <1>1, <1>3 DEF RanksInv
  <2>3. \A i \in 0..last : g(i + 1) => p(i + 1)
    BY <1>1, <2>2, WeakestPasses
  <2>4. /\ first["gsr"] \in 0..last \union {Never} /\ first["psr"] \in 0..last \union {Never}
        /\ first["gsr"] # Never => g(first["gsr"] + 1)
        /\ \A i \in 0..last : i < first["psr"] => ~p(i + 1)
    BY <2>1 DEF Tracked
  <2>5. /\ stable["gsr"] \in 0..last \union {Never} /\ stable["psr"] \in 0..last \union {Never}
        /\ stable["gsr"] # Never => \A i \in stable["gsr"]..last : g(i + 1)
        /\ stable["psr"] = Never /\ num_iterations > 0 => ~p(num_iterations)
        /\ stable["psr"] # Never /\ stable["psr"] > 0 => ~p(stable["psr"])
    BY <2>1 DEF Tracked
  <2> HIDE DEF g, p
  <2>6. first["gsr"] >= first["psr"]
    BY <1>1, <2>3, <2>4 DEF Never
  <2>7. stable["gsr"] >= stable["psr"]
    <3>1. CASE stable["gsr"] = Never
      BY <1>1, <2>5, <3>1 DEF Never
    <3>2. CASE stable["gsr"] # Never /\ stable["psr"] = Never
      <4>1. last \in stable["gsr"]..last /\ last \in 0..last /\ last + 1 = num_iterations
        BY <1>1, <2>5, <3>2 DEF Never
      <4>2. p(last + 1)
        BY <2>3, <2>5, <3>2, <4>1
      <4> QED BY <1>1, <2>5, <3>2, <4>1, <4>2
    <3>3. CASE stable["gsr"] # Never /\ stable["psr"] # Never /\ stable["gsr"] < stable["psr"]
      <4>1. stable["psr"] - 1 \in stable["gsr"]..last /\ stable["psr"] - 1 \in 0..last
        BY <1>1, <2>5, <3>3 DEF Never
      <4>2. p(stable["psr"] - 1 + 1)
        BY <2>3, <2>5, <3>3, <4>1
      <4>3. stable["psr"] - 1 + 1 = stable["psr"]
        BY <1>1, <2>5 DEF Never
      <4>4. p(stable["psr"])
        BY <4>2, <4>3
      <4> QED BY <1>1, <2>5, <3>3, <4>1, <4>4
    <3>4. stable["gsr"] \in Int /\ stable["psr"] \in Int
      BY <1>1, <2>5 DEF Never
    <3> QED BY <3>1, <3>2, <3>3, <3>4
  <2> QED BY <2>6, <2>7
<1> HIDE DEF n
<1> QED
  BY <1>2, <1>3 DEF RatesFollowRanks, n

\* What compute_results accumulates and reports is in range, for result files
\* whose lists have at most Worst places.
THEOREM ResultTypes ==
    ASSUME ResultsWellFormed
    PROVE  Spec => []TypeOK
<1>1. ResultsWellFormed /\ FilesWellFormed
  BY DEF ResultsWellFormed
<1>2. Init => LoopInv /\ RanksInv
  BY <1>1, InitLoop, InitRanks
<1>3. LoopInv /\ RanksInv /\ [Next]_vars => (LoopInv /\ RanksInv)'
  BY <1>1, NextLoop, NextRanks
<1>4. LoopInv /\ RanksInv => TypeOK
  BY <1>1, RanksTypes
<1> QED
  BY <1>2, <1>3, <1>4, PTL DEF Spec

\* parse_result_file (compute_results.c:314) accumulates three metrics that
\* cannot contradict each other, whatever the files say: a whole subkey is
\* right in no more experiments than its weakest byte, in no fewer than its
\* bytes' misses leave, and never passes its threshold before them.
THEOREM MetricsAgree ==
    ASSUME ResultsWellFormed
    PROVE  Spec => []RatesFollowRanks
<1>1. ResultsWellFormed /\ FilesWellFormed
  BY DEF ResultsWellFormed
<1>2. Init => LoopInv /\ RanksInv
  BY <1>1, InitLoop, InitRanks
<1>3. LoopInv /\ RanksInv /\ [Next]_vars => (LoopInv /\ RanksInv)'
  BY <1>1, NextLoop, NextRanks
<1>4. LoopInv /\ RanksInv => RatesFollowRanks
  BY <1>1, RanksEnd
<1> QED
  BY <1>2, <1>3, <1>4, PTL DEF Spec
=================================================================================
