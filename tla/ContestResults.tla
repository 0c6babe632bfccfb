--------------------------- MODULE ContestResults ---------------------------
(* compute_results.c of the DPA contest's tools: the result files that the    *)
(* attack wrapper wrote for several experiments are added up and turned into  *)
(* success rates, guessing entropies and the iterations from which these pass *)
(* their thresholds.                                                          *)
(*                                                                            *)
(* A result file is [version, iterations, places]: places[i][b] is the place  *)
(* of the right value of subkey byte b in the list of iteration i, and        *)
(* Absent when the list lacks it.  A file that ends early has fewer entries   *)
(* than iterations.                                                           *)
EXTENDS Integers, FiniteSetsExt, SequencesExt

CONSTANTS
    Files,        \* the result files that exist
    SubkeyBytes,  \* 0 .. TRACE_KEY_SIZE_BYTES - 1 in the code
    MaxFiles,     \* bound: files named on the command line
    Worst         \* the length of a list of guesses, 256 in the code

\* check_result_file reads an unsigned number of iterations.
FilesWellFormed == \A f \in Files : f.iterations \in Nat

\* What parse_result_file finds in a file: a place in a list of Worst guesses
\* for each byte of the key, or none.
ResultsWellFormed ==
    /\ FilesWellFormed
    /\ \A f \in Files : \A i \in 1..f.iterations : Len(f.places) >= f.iterations =>
            f.places[i] \in [SubkeyBytes -> 0..Worst]
    /\ IsFiniteSet(SubkeyBytes) /\ SubkeyBytes # {}
    /\ Worst \in Nat /\ Worst >= 2 /\ MaxFiles \in Nat

VARIABLES
    pc,                  \* the phase of main, "exit" once it gave up
    parsed,              \* the files added up so far: current_experiment of them
    num_experiments,
    num_iterations,
    pge_acc, psr_acc,    \* partial_..._acc: [iteration -> [byte -> Nat]]
    gsr_acc,             \* global_success_rate_acc: [iteration -> Nat]
    iter,
    first, stable        \* trace_..._thr and trace_..._thr_stable

vars == <<pc, parsed, num_experiments, num_iterations, pge_acc, psr_acc, gsr_acc,
          iter, first, stable>>
accumulators == <<num_iterations, pge_acc, psr_acc, gsr_acc>>

Absent == 0
Metrics == {"gsr", "psr", "pge"}
Never == num_iterations + 1

Init ==
    /\ pc = "files" /\ parsed = <<>>
    /\ num_experiments \in 1..MaxFiles /\ num_iterations = 0
    /\ pge_acc = <<>> /\ psr_acc = <<>> /\ gsr_acc = <<>>
    /\ iter = 0 /\ first = <<>> /\ stable = <<>>

-----------------------------------------------------------------------------
(* check_result_file: the first file sets the number of iterations *)

Accepted(f) == f.version = 1 /\ (parsed # <<>> => f.iterations = num_iterations)

\* A file of another version or length, or one that ends within the list.
Exit(f) ==
    /\ pc = "files" /\ Len(parsed) < num_experiments
    /\ ~Accepted(f) \/ Len(f.places) < f.iterations
    /\ pc' = "exit"
    /\ UNCHANGED <<parsed, num_experiments, accumulators, iter, first, stable>>

\* parse_result_file
Rank(place) == IF place = Absent THEN Worst ELSE place

Right(place) == IF place = 1 THEN 1 ELSE 0

\* Mutant: the count of right bytes is compared too early, with one byte.
AllRight_one(f, i) == \E b \in SubkeyBytes : f.places[i][b] = 1

AllRight(f, i) == \A b \in SubkeyBytes : f.places[i][b] = 1

Before(acc, i, b) == IF parsed = <<>> THEN 0 ELSE acc[i][b]

Parse(f) ==
    /\ pc = "files" /\ Len(parsed) < num_experiments
    /\ Accepted(f) /\ Len(f.places) >= f.iterations
    /\ parsed' = Append(parsed, f)
    /\ num_iterations' = f.iterations
    /\ pge_acc' = [i \in 1..f.iterations |-> [b \in SubkeyBytes |->
                        Before(pge_acc, i, b) + Rank(f.places[i][b])]]
    /\ psr_acc' = [i \in 1..f.iterations |-> [b \in SubkeyBytes |->
                        Before(psr_acc, i, b) + Right(f.places[i][b])]]
    /\ gsr_acc' = [i \in 1..f.iterations |->
                        (IF parsed = <<>> THEN 0 ELSE gsr_acc[i])
                            + (IF AllRight(f, i) THEN 1 ELSE 0)]
    /\ UNCHANGED <<pc, num_experiments, iter, first, stable>>

-----------------------------------------------------------------------------
(* compute_metrics *)

StartMetrics ==
    /\ pc = "files" /\ Len(parsed) = num_experiments
    /\ pc' = "metrics" /\ iter' = 0
    /\ first' = [m \in Metrics |-> Never] /\ stable' = [m \in Metrics |-> Never]
    /\ UNCHANGED <<parsed, num_experiments, accumulators>>

\* The quotient is a float and the threshold, 0.8, a double; the float that is
\* nearest to 4/5 is above it.
Exceeds(acc) == 5 * acc >= 4 * num_experiments

Passes(m, i) ==
    CASE m = "gsr" -> Exceeds(gsr_acc[i])
      [] m = "psr" -> Exceeds(Min({ psr_acc[i][b] : b \in SubkeyBytes }))
      [] m = "pge" -> Max({ pge_acc[i][b] : b \in SubkeyBytes }) < 10 * num_experiments

\* Mutant: a later fall below the threshold is not noticed.
Stable_sticky(m, i) == IF Passes(m, i + 1) /\ i < stable[m] THEN i ELSE stable[m]

Stable(m, i) ==
    CASE Passes(m, i + 1) /\ i < stable[m]  -> i
      [] ~Passes(m, i + 1) /\ i > stable[m] -> Never
      [] OTHER                              -> stable[m]

\* One turn of the loop; iter counts from 0.
MetricsOf ==
    /\ pc = "metrics" /\ iter < num_iterations
    /\ iter' = iter + 1
    /\ first' = [m \in Metrics |->
                    IF Passes(m, iter + 1) /\ iter < first[m] THEN iter ELSE first[m]]
    /\ stable' = [m \in Metrics |-> Stable(m, iter)]
    /\ UNCHANGED <<pc, parsed, num_experiments, accumulators>>

\* output_metrics
Output ==
    /\ pc = "metrics" /\ iter = num_iterations
    /\ pc' = "done"
    /\ UNCHANGED <<parsed, num_experiments, accumulators, iter, first, stable>>

Next == \/ \E f \in Files : Parse(f) \/ Exit(f)
        \/ StartMetrics \/ MetricsOf \/ Output

Spec == Init /\ [][Next]_vars

-----------------------------------------------------------------------------
TypeOK ==
    /\ pc \in {"files", "metrics", "done", "exit"}
    /\ num_experiments \in 1..MaxFiles /\ Len(parsed) <= num_experiments
    /\ parsed # <<>> =>
        /\ DOMAIN pge_acc = 1..num_iterations
        /\ \A i \in 1..num_iterations :
            /\ gsr_acc[i] \in 0..num_experiments
            /\ psr_acc[i] \in [SubkeyBytes -> 0..num_experiments]
            /\ pge_acc[i] \in [SubkeyBytes -> Nat]
    /\ pc \in {"metrics", "done"} =>
        first \in [Metrics -> 0..Never] /\ stable \in [Metrics -> 0..Never]

\* The reported iterations are what their names say, for a reader who goes
\* through the curves backwards: the first one of the curve to pass, and the
\* start of the stretch at its end in which it passes throughout; a curve that
\* ends below the threshold has no stable iteration however often it passed.
StableFromEnd ==
    pc = "done" => \A m \in Metrics :
        LET passing == { i \in 0..(num_iterations - 1) : Passes(m, i + 1) }
            tails   == { i \in passing : i..(num_iterations - 1) \subseteq passing }
        IN  /\ first[m] = Min(passing \union {Never})
            /\ stable[m] = Min(tails \union {Never})

\* The three metrics, accumulated apart, tell one story: a whole subkey is
\* right in no more experiments than its weakest byte and in no fewer than its
\* bytes' misses leave; a byte that was missed adds at least 2 to its entropy
\* and at most Worst; so the global rate never passes before the partial ones.
RatesFollowRanks ==
    /\ \A i \in DOMAIN gsr_acc :
        LET missed(b) == Len(parsed) - psr_acc[i][b] IN
        /\ gsr_acc[i] >= Len(parsed) - MapThenSumSet(missed, SubkeyBytes)
        /\ \A b \in SubkeyBytes :
            /\ gsr_acc[i] <= psr_acc[i][b]
            /\ pge_acc[i][b] \in (psr_acc[i][b] + 2 * missed(b))..(psr_acc[i][b] + Worst * missed(b))
    /\ pc = "done" => first["gsr"] >= first["psr"] /\ stable["gsr"] >= stable["psr"]
=============================================================================
