------------------------------ MODULE ResultFile ------------------------------
(* What the attack wrapper promises about its result file, without pipes,     *)
(* threads and signals: it gets one record after the other, the i-th made of  *)
(* the texts of the i-th trace of the attacked key and of the answer of the   *)
(* attack program to that very trace; the wrapper reports success only when   *)
(* all records are there.                                                     *)
EXTENDS Naturals, Sequences

CONSTANTS
    \* How many traces are asked for.
    Iterations,
    \* Every trace, as entries of a trace source (see TraceSource).
    Traces,
    \* The number of points of a complete trace.
    NumPoints,
    \* No trace: samples that were never written.
    Nothing

VARIABLES
    wanted,     \* the traces of the attacked key, in order
    records,    \* the contents of the result file
    status      \* "running", "complete" or "failed"

vars == <<wanted, records, status>>

\* An answer is described by the traces whose texts, first samples and last
\* samples the attack program had been given when it computed it.  The last
\* samples are those of an earlier trace when a file is too short.
IsAnswer(a, trace) ==
    /\ a.text = trace /\ a.head = trace
    /\ trace.points = NumPoints => a.tail = trace

\* Without a trace of the key the wrapper fails at once.
Init == records = <<>> /\ status \in {"running", "failed"}

Record ==
    /\ status = "running"
    /\ Len(records) < Iterations /\ Len(records) < Len(wanted)
    /\ LET trace == wanted[Len(records) + 1] IN
         \E tail \in Traces \union {Nothing} :
            LET answer == [text |-> trace, head |-> trace, tail |-> tail] IN
            /\ IsAnswer(answer, trace)
            /\ records' = Append(records, [text |-> trace, answer |-> answer])
    /\ UNCHANGED <<wanted, status>>

Succeed ==
    /\ status = "running" /\ Len(records) = Iterations
    /\ status' = "complete"
    /\ UNCHANGED <<wanted, records>>

Fail ==
    /\ status = "running" /\ status' = "failed"
    /\ UNCHANGED <<wanted, records>>

Next == Record \/ Succeed \/ Fail

Spec == Init /\ [][Next]_vars
=============================================================================
