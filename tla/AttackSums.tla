------------------------------ MODULE AttackSums ------------------------------
(* The arithmetic of the attacks: what attack_cpa.cpp, attack_dpa.cpp,        *)
(* attack_pscc.cpp and attack_relpow.cpp add up over the traces, how the sums *)
(* of several workers are merged, and what the reports make of them.  In      *)
(* AttackEngine, which has the threads and the locks, these sums are tallies  *)
(* of traces; here each operation is one step.                                *)
(*                                                                            *)
(* A trace is [message, power]: power is its samples, one for each event.  A   *)
(* target, of which the attacks take the weight alone, is the set of the      *)
(* places of its ones.                                                        *)
(* Floating point numbers are exact here: a coefficient of correlation is     *)
(* [cov, tv, hv], its covariance and the two variances, each times the        *)
(* square of the number of traces, and a difference of means two fractions.   *)
EXTENDS Integers, FiniteSetsExt, SequencesExt

CONSTANTS
    Samples,       \* the traces there are
    m_nevents,     \* the number of events
    Guesses,       \* 0 .. m_guesses - 1
    compute,       \* m_crypto->compute: [message -> [byte -> [guess -> target]]]
    AttackedByte,  \* parameter byte of cpa and dpa
    KnownKey,      \* of pscc and relpow: [byte -> guess], for the bytes summed
    EstimateBits,  \* m_crypto->estimate_bits()
    Offset, TargetBits, Thresh,   \* parameters offset, bits and thresh
    MaxTraces,     \* bound: traces processed
    MaxReports     \* bound: reports taken

Workers == {1, 2}

\* What setup accepts (attack_dpa.cpp:115 for the threshold), the crypto
\* instance computes and a trace holds.
SumsWellFormed ==
    /\ m_nevents \in Nat /\ MaxTraces \in Nat /\ MaxReports \in Nat
    /\ \A t \in Samples :
        /\ t.power \in [1..m_nevents -> Int]
        /\ \A k \in Guesses : IsFiniteSet(compute[t.message][AttackedByte][k])
        /\ \A b \in DOMAIN KnownKey : IsFiniteSet(compute[t.message][b][KnownKey[b]])
    /\ IsFiniteSet(DOMAIN KnownKey) /\ EstimateBits \in Nat
    /\ TargetBits \in Nat \ {0} /\ Thresh \in 0..(TargetBits - 1)
    /\ TargetBits > 1 => TargetBits - Thresh - 1 < Thresh

VARIABLES
    processed,     \* history: the traces of each worker, in order
    cpa, dpa,      \* the sums of each worker and, at 0, of the report
    pscc, relpow,  \* these run with a single worker
    maxes,         \* m_maxes: a row of interval maxima for each report
    merged         \* history: the traces that the report's sums stand for

vars == <<processed, cpa, dpa, pscc, relpow, maxes, merged>>
Instances == {0} \union Workers
Events == 1..m_nevents

-----------------------------------------------------------------------------
\* The weight of a target: the number of ones in the bits of the mask.
Weight(x, bits) == Cardinality(x \intersect bits)
mask == Offset..(Offset + TargetBits - 1)

NoSums(guesses) ==
    [n |-> 0, t1 |-> [e \in Events |-> 0], t2 |-> [e \in Events |-> 0],
     w1 |-> [k \in guesses |-> 0], w2 |-> [k \in guesses |-> 0],
     tw |-> [k \in guesses |-> [e \in Events |-> 0]]]

\* A weight of zero adds nothing, so the test for it is left out.
Add(s, power, weight) ==
    [n |-> s.n + 1,
     t1 |-> [e \in Events |-> s.t1[e] + power[e]],
     t2 |-> [e \in Events |-> s.t2[e] + power[e] * power[e]],
     w1 |-> [k \in DOMAIN s.w1 |-> s.w1[k] + weight[k]],
     w2 |-> [k \in DOMAIN s.w1 |-> s.w2[k] + weight[k] * weight[k]],
     tw |-> [k \in DOMAIN s.w1 |-> [e \in Events |-> s.tw[k][e] + power[e] * weight[k]]]]

\* attack_cpa::process
center == TargetBits \div 2
Ones(message, k) == Weight(compute[message][AttackedByte][k], mask)
CpaWeight(message) == [k \in Guesses |-> Ones(message, k) - center]

\* Mutant: the number of traces is that of the last instance merged.
Coalesced_n(s, o) ==
    [n |-> o.n,
     t1 |-> [e \in Events |-> s.t1[e] + o.t1[e]], t2 |-> [e \in Events |-> s.t2[e] + o.t2[e]],
     w1 |-> [k \in Guesses |-> s.w1[k] + o.w1[k]], w2 |-> [k \in Guesses |-> s.w2[k] + o.w2[k]],
     tw |-> [k \in Guesses |-> [e \in Events |-> s.tw[k][e] + o.tw[k][e]]]]

\* attack_cpa::coalesce
Coalesced(s, o) ==
    [n |-> s.n + o.n,
     t1 |-> [e \in Events |-> s.t1[e] + o.t1[e]], t2 |-> [e \in Events |-> s.t2[e] + o.t2[e]],
     w1 |-> [k \in Guesses |-> s.w1[k] + o.w1[k]], w2 |-> [k \in Guesses |-> s.w2[k] + o.w2[k]],
     tw |-> [k \in Guesses |-> [e \in Events |-> s.tw[k][e] + o.tw[k][e]]]]

\* compute_diffs: zero where a variance is
Correlation(s, k, e) ==
    LET cov == s.n * s.tw[k][e] - s.w1[k] * s.t1[e]
        tv  == s.n * s.t2[e] - s.t1[e] * s.t1[e]
        hv  == s.n * s.w2[k] - s.w1[k] * s.w1[k]
    IN  [cov |-> IF tv = 0 \/ hv = 0 THEN 0 ELSE cov, tv |-> tv, hv |-> hv]

\* c is a larger coefficient than d.
Larger(c, d) ==
    LET square(x) == IF x.cov < 0 THEN -(x.cov * x.cov) ELSE x.cov * x.cov
    IN  CASE c.cov <= 0 /\ d.cov >= 0 -> FALSE
          [] c.cov > 0 /\ d.cov <= 0  -> TRUE
          [] OTHER -> square(c) * d.tv * d.hv > square(d) * c.tv * c.hv

-----------------------------------------------------------------------------
(* attack_dpa: two groups, of low and of high weight, and the rest *)

m_min == IF TargetBits > 1 THEN TargetBits - Thresh - 1 ELSE 0
m_max == IF TargetBits > 1 THEN Thresh ELSE 1

NoBins == [k \in Guesses |-> [binsz |-> [g \in 0..2 |-> 0],
                              diffs |-> [g \in 0..1 |-> [e \in Events |-> 0]]]]

Group(weight) == IF weight <= m_min THEN 0 ELSE IF weight >= m_max THEN 1 ELSE 2

Binned(s, trace) ==
    [k \in Guesses |->
        LET g == Group(Ones(trace.message, k)) IN
        [binsz |-> [s[k].binsz EXCEPT ![g] = @ + 1],
         diffs |-> [h \in 0..1 |-> IF h # g THEN s[k].diffs[h]
                                   ELSE [e \in Events |-> s[k].diffs[h][e] + trace.power[e]]]]]

BinsCoalesced(s, o) ==
    [k \in Guesses |-> [binsz |-> [g \in 0..2 |-> s[k].binsz[g] + o[k].binsz[g]],
                        diffs |-> [g \in 0..1 |-> [e \in Events |->
                                        s[k].diffs[g][e] + o[k].diffs[g][e]]]]]

\* compute_diffs: the mean of the high group less that of the low one, as a
\* fraction; with an empty group the code divides 0 by 0 and den is 0 too.
Difference(s, k, e) ==
    [num |-> s[k].diffs[1][e] * s[k].binsz[0] - s[k].diffs[0][e] * s[k].binsz[1],
     den |-> s[k].binsz[0] * s[k].binsz[1]]

-----------------------------------------------------------------------------
(* attack_pscc and attack_relpow: the weight of all bytes under a known key *)

KnownWeight(message) ==
    MapThenSumSet(LAMBDA b : Weight(compute[message][b][KnownKey[b]], 0..7), DOMAIN KnownKey)

num_states == EstimateBits * Cardinality(DOMAIN KnownKey)

NoStates == [pow |-> [v \in 0..(num_states - 1) |-> 0], num |-> [v \in 0..(num_states - 1) |-> 0]]

\* The peak is the largest sample, or 0 if none is positive.
Peak(power) == Max({ power[e] : e \in Events } \union {0})

\* A weight of num_states is past the end of both arrays; what it overwrites
\* there is in no sum.
Profiled(s, trace) ==
    LET v == KnownWeight(trace.message)
    IN  IF v \notin DOMAIN s.pow THEN s
        ELSE [pow |-> [s.pow EXCEPT ![v] = @ + Peak(trace.power)],
              num |-> [s.num EXCEPT ![v] = @ + 1]]

-----------------------------------------------------------------------------
Init ==
    /\ processed = [w \in Workers |-> <<>>]
    /\ cpa = [i \in Instances |-> NoSums(Guesses)] /\ dpa = [i \in Instances |-> NoBins]
    /\ pscc = NoSums({0}) /\ relpow = NoStates
    /\ maxes = <<>> /\ merged = <<>>

\* process: worker w adds a trace to the sums of its instance; the attacks with
\* a known key are run alongside, by one worker.
process(w, trace) ==
    /\ Len(processed[1]) + Len(processed[2]) < MaxTraces
    /\ processed' = [processed EXCEPT ![w] = Append(@, trace)]
    /\ cpa' = [cpa EXCEPT ![w] = Add(@, trace.power, CpaWeight(trace.message))]
    /\ dpa' = [dpa EXCEPT ![w] = Binned(@, trace)]
    /\ pscc' = Add(pscc, trace.power, [k \in {0} |-> KnownWeight(trace.message)])
    /\ relpow' = Profiled(relpow, trace)
    /\ UNCHANGED <<maxes, merged>>

\* Interval maxima start at 0 and keep the larger of themselves and the value
\* of each event; a value that is not a number is never the larger one.
MaxCorrelation(m, c) == IF Larger(c, m) THEN c ELSE m
Zero == [cov |-> 0, tv |-> 1, hv |-> 1]
CpaMaxes(s) ==
    [k \in Guesses |-> FoldLeft(MaxCorrelation, Zero, [e \in Events |-> Correlation(s, k, e)])]

MoreThan(c, d) == c.num * d.den > d.num * c.den
MaxDifference(m, c) == IF MoreThan(c, m) THEN c ELSE m
NoDifference == [num |-> 0, den |-> 1]
DpaMaxes(s) ==
    [k \in Guesses |-> FoldLeft(MaxDifference, NoDifference, [e \in Events |-> Difference(s, k, e)])]

\* Mutant: the report's sums are kept and the first worker's added to them.
Clone_added(report, first) == Coalesced(report, first)

\* The report's own sums are overwritten.
Clone(report, first) == first

\* compute and record_interval of the report: clone of the first worker's
\* instance, coalesce of the others, and a row of maxima.
record_interval ==
    /\ Len(maxes) < MaxReports
    /\ cpa' = [cpa EXCEPT ![0] = Coalesced(Clone(cpa[0], cpa[1]), cpa[2])]
    /\ dpa' = [dpa EXCEPT ![0] = BinsCoalesced(dpa[1], dpa[2])]
    /\ maxes' = Append(maxes, [cpa |-> CpaMaxes(cpa'[0]), dpa |-> DpaMaxes(dpa'[0])])
    /\ merged' = processed[1] \o processed[2]
    /\ UNCHANGED <<processed, pscc, relpow>>

Next == record_interval \/ \E w \in Workers, trace \in Samples : process(w, trace)

Spec == Init /\ [][Next]_vars

-----------------------------------------------------------------------------
TypeOK ==
    /\ \A i \in Instances : /\ cpa[i].n \in 0..MaxTraces
                            /\ \A k \in Guesses : dpa[i][k].binsz \in [0..2 -> 0..MaxTraces]
    /\ Len(maxes) <= MaxReports
    /\ relpow.num \in [0..(num_states - 1) -> 0..MaxTraces]

\* The sum of a sequence of numbers.
Plus(a, b) == a + b
SumSeq(x) == FoldLeft(Plus, 0, x)

\* The covariance of two sequences, as the sum over all pairs of places of the
\* products of the differences; the textbook's, times the square of the length.
Covariance(x, y) ==
    SumSeq([j \in DOMAIN x |-> SumSeq([i \in 1..(j - 1) |-> (x[i] - x[j]) * (y[i] - y[j])])])

IsCorrelation(c, x, y) ==
    /\ c.tv = Covariance(x, x) /\ c.hv = Covariance(y, y)
    /\ c.cov = IF c.tv = 0 \/ c.hv = 0 THEN 0 ELSE Covariance(x, y)

\* Of each of the traces: its power at an event, and its weights.
Powers(traces, e) == [i \in DOMAIN traces |-> traces[i].power[e]]
Weights(traces, k) == [i \in DOMAIN traces |-> Ones(traces[i].message, k)]
KnownWeights(traces) == [i \in DOMAIN traces |-> KnownWeight(traces[i].message)]

\* How many there are in a set of places, and the sum of a sequence over it.
Count(x, places) == SumSeq([i \in DOMAIN x |-> IF i \in places THEN 1 ELSE 0])
SumOver(x, places) == SumSeq([i \in DOMAIN x |-> IF i \in places THEN x[i] ELSE 0])

\* However the traces were divided among the workers and however often reports
\* were taken in between, the report's differentials are those of the textbook
\* over all traces: the correlation of power and weight, and the difference
\* of the mean power of two groups; the same for the attacks with a known key.
\* The last row of maxima bounds them all, and a guess with an empty group,
\* whose difference is not a number, adds nothing to it.
MergedIsTextbook ==
    LET all == processed[1] \o processed[2] IN
    /\ \A k \in Guesses, e \in Events :
        LET x == Powers(merged, e)
            w == Weights(merged, k)
            low == { i \in DOMAIN w : w[i] <= m_min }
            high == { i \in DOMAIN w : w[i] >= m_max }
            d == Difference(dpa[0], k, e) IN
        /\ IsCorrelation(Correlation(cpa[0], k, e), x, w)
        /\ d.den = Count(x, high) * Count(x, low)
        /\ d.num = SumOver(x, high) * Count(x, low) - SumOver(x, low) * Count(x, high)
    /\ maxes # <<>> => \A k \in Guesses :
        LET row == maxes[Len(maxes)]
            differences == { Difference(dpa[0], k, e) : e \in Events }
            correlations == { Correlation(cpa[0], k, e) : e \in Events } IN
        /\ row.dpa[k].den # 0 /\ row.dpa[k] \in differences \union {NoDifference}
        /\ \A d \in differences : ~MoreThan(d, row.dpa[k])
        /\ row.cpa[k] \in correlations \union {Zero}
        /\ \A c \in correlations : ~Larger(c, row.cpa[k])
    /\ \A e \in Events :
        IsCorrelation(Correlation(pscc, 0, e), Powers(all, e), KnownWeights(all))
    /\ \A v \in DOMAIN relpow.num :
        LET has == { i \in DOMAIN all : KnownWeight(all[i].message) = v }
            peaks == [i \in DOMAIN all |-> Peak(all[i].power)] IN
        relpow.num[v] = Count(peaks, has) /\ relpow.pow[v] = SumOver(peaks, has)
===============================================================================
