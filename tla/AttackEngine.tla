---------------------------- MODULE AttackEngine ----------------------------
(***************************************************************************)
(* The attack engine: attack_engine.cpp, attack_thread.cpp and the         *)
(* process / clone / coalesce / record_interval operations of the attack   *)
(* instances (attack_cpa.cpp, attack_dpa.cpp, attack_pscc.cpp,             *)
(* attack_relpow.cpp) that its threads call on shared objects.             *)
(*                                                                         *)
(* The main thread starts one report thread and NThreads workers, joins    *)
(* the workers, stops and joins the report thread and writes the results.  *)
(* A worker repeatedly calls next_trace, which under the engine's mutex    *)
(* may first merge every worker's accumulators into the report instance    *)
(* (report_thread::compute) and then reads one trace; the worker then      *)
(* accumulates that trace into its own attack instance.  The report thread *)
(* sleeps on a condition variable and turns each merged state into one row *)
(* of interval maxima.                                                     *)
(*                                                                         *)
(* Data abstraction.  An attack instance is the number of times each trace *)
(* was added to its first group of accumulators (bins: m_binsz, or m_t1    *)
(* and m_t2) and to its last one (sums: m_diffs, or m_w1, m_w2, m_tw and   *)
(* m_traces): process() and clone() go through both groups in this order,  *)
(* so a state read in the middle of process() differs in the two.          *)
(***************************************************************************)
EXTENDS Integers, FiniteSets

CONSTANTS
    NumTraces,         \* m_reader->trace_count()
    RequestedThreads,  \* options::num_threads
    ReportTick,        \* options::report_tick, 0 when not given
    CloneLocks,        \* what clone() and coalesce() lock: "source", the mutex
                       \*   of the worker's instance (cpa); "self", that of the
                       \*   report instance (dpa); "nothing", they copy no
                       \*   state either (pscc, relpow)
    TraceKinds,        \* the kinds of trace the input may hold besides "good"
    MaxBad,            \* bound: the number of traces that are not "good"
    SpuriousWakeups,   \* may the condition variable wake up unnotified?
    Nobody, Reporter   \* no owner of a lock; the report thread's instance

ASSUME OptionsAssumption ==
    /\ NumTraces \in Nat \ {0}
    /\ RequestedThreads \in Nat
    /\ ReportTick \in Nat
    /\ MaxBad \in Nat

ASSUME KindsAssumption ==
    /\ CloneLocks \in {"source", "self", "nothing"}
    /\ TraceKinds \subseteq {"short", "badtext", "unreadable"}
    /\ SpuriousWakeups \in BOOLEAN

-----------------------------------------------------------------------------
(* attack_setup: the values derived from the options. *)

Interval == IF ReportTick # 0 THEN ReportTick ELSE NumTraces

\* Mutant: the interval that the end of the input cuts short has no row.
ReportsRoundedDown == NumTraces \div Interval

Reports == 1 + ((NumTraces - 1) \div Interval)

\* max(num_threads, 1), and a single worker when the interval is below that
NThreads == LET asked == IF RequestedThreads > 1 THEN RequestedThreads ELSE 1
            IN  IF Interval < asked THEN 1 ELSE asked

Workers   == 1 .. NThreads       \* worker w is m_threads[w - 1]
Traces    == 1 .. NumTraces
Instances == Workers \cup {Reporter}

ASSUME NamesAssumption ==
    /\ Nobody \notin Instances
    /\ Reporter \notin Workers

NoTrace  == 0
Tally    == [Traces -> Nat]
Empty    == [t \in Traces |-> 0]

\* What record_interval sees: the merged accumulators, and the number of
\* entries of m_threads they were merged from (the loop counter of compute).
Snapshot == [bins : Tally, sums : Tally, from : Nat]

VARIABLES
    kind,        \* kind[t]: what is wrong with trace t, or "good"
    next,        \* the reader's position: the trace the next read returns
    index,       \* attack_engine::m_index
    engineLock,  \* owner of attack_engine::m_mutex
    rtLock,      \* owner of report_thread::m_mutex
    instLock,    \* instLock[i]: owner of the m_mutex of attack instance i
    listed,      \* m_threads.size()
    bins, sums,  \* bins[i][t], sums[i][t]: how often instance i holds trace t
    wpc,         \* wpc[w]: where worker w is
    cur,         \* cur[w]: the last trace read into worker w's pt
    mapped,      \* mapped[w]: size of worker w's time map, 0 when empty
    copy,        \* the entry of m_threads that compute() is about to merge
    rtIndex,     \* report_thread::m_index
    covers,      \* entries merged by the last finished compute(), 0: none yet
    running,     \* report_thread::m_running
    rtpc,        \* where the report thread is
    rows,        \* rows[n]: the states whose maximum is row n of m_maxes
    mpc          \* where the main thread is, or how the process ended

input   == <<kind>>
reader  == <<next, index>>
locks   == <<engineLock, rtLock>>
worker  == <<wpc, cur, mapped>>
data    == <<bins, sums, instLock>>
report  == <<copy, rtIndex, covers>>
rthread == <<running, rtpc, rows>>
mthread == <<listed, mpc>>
vars == <<input, reader, locks, worker, data, report, rthread, mthread>>

-----------------------------------------------------------------------------
Kinds == {"good"} \cup TraceKinds

Init ==
    /\ kind \in {k \in [Traces -> Kinds] :
                    Cardinality({t \in Traces : k[t] # "good"}) <= MaxBad}
    /\ next = 1
    /\ index = 0
    /\ engineLock = Nobody
    /\ rtLock = Nobody
    /\ instLock = [i \in Instances |-> Nobody]
    /\ listed = 0
    /\ bins = [i \in Instances |-> Empty]
    /\ sums = [i \in Instances |-> Empty]
    /\ wpc = [w \in Workers |-> "unborn"]
    /\ cur = [w \in Workers |-> NoTrace]
    /\ mapped = [w \in Workers |-> 0]
    /\ copy = 1
    /\ rtIndex = 0
    /\ covers = 0
    /\ running = TRUE
    /\ rtpc = "start"
    /\ rows = [n \in 0 .. Reports - 1 |-> {}]
    /\ mpc = "spawn"

\* The process still runs: run() has not returned and nothing has crashed.
Alive == mpc \notin {"done", "failed", "crashed"}

At(w, l)      == Alive /\ wpc[w] = l
ReporterAt(l) == Alive /\ rtpc = l

-----------------------------------------------------------------------------
(* The main thread: attack_setup's spawn loop, join_all, attack_shutdown. *)

\* create() succeeds and create_thread starts the worker, which may run
\* before the main thread pushes it on m_threads.
LaunchWorker ==
    /\ mpc = "spawn"
    /\ wpc' = [wpc EXCEPT ![listed + 1] = "call"]
    /\ mpc' = "push"
    /\ UNCHANGED <<input, reader, locks, cur, mapped, data, report, rthread, listed>>

\* setup() rejects the parameters; they are the same for every worker, so it
\* is the first one that fails.  run() returns false.
SetupFails ==
    /\ mpc = "spawn"
    /\ listed = 0
    /\ mpc' = "failed"
    /\ UNCHANGED <<input, reader, locks, worker, data, report, rthread, listed>>

\* Mutant: the spawn loop runs once too often.
LastThreadOffByOne == listed = NThreads

LastThread == listed + 1 = NThreads

PushThread ==
    /\ mpc = "push"
    /\ listed' = listed + 1
    /\ mpc' = IF LastThread THEN "join" ELSE "spawn"
    /\ UNCHANGED <<input, reader, locks, worker, data, report, rthread>>

JoinAll ==
    /\ mpc = "join"
    /\ \A w \in Workers : wpc[w] = "exited"
    /\ mpc' = "terminate"
    /\ UNCHANGED <<input, reader, locks, worker, data, report, rthread, listed>>

\* Mutant: the flag or the state changes and nobody is notified.
NotNotified == rtpc

\* notify_one on the condition variable only the report thread waits on
Notified == IF rtpc = "waiting" THEN "woken" ELSE rtpc

Terminate ==
    /\ mpc = "terminate"
    /\ rtLock = Nobody
    /\ running' = FALSE
    /\ rtpc' = Notified
    /\ mpc' = "joinreporter"
    /\ UNCHANGED <<input, reader, locks, worker, data, report, rows, listed>>

JoinReporter ==
    /\ mpc = "joinreporter"
    /\ rtpc = "done"
    /\ mpc' = "report"
    /\ UNCHANGED <<input, reader, locks, worker, data, report, rthread, listed>>

\* Has clone() ever given the report instance its sizes and its contents?
Cloned == covers > 0 /\ CloneLocks # "nothing"

\* get_diffs, get_maxes and write_results read the report instance; one that
\* was never cloned has uninitialised members, and reading them may crash.
WriteResults ==
    /\ mpc = "report"
    /\ mpc' \in IF Cloned THEN {"done"} ELSE {"done", "crashed"}
    /\ UNCHANGED <<input, reader, locks, worker, data, report, rthread, listed>>

Main == \/ LaunchWorker \/ SetupFails \/ PushThread \/ JoinAll
        \/ Terminate \/ JoinReporter \/ WriteResults

-----------------------------------------------------------------------------
(* The report thread. *)

\* Takes its mutex and waits, which releases it.
ReporterWaits ==
    /\ ReporterAt("start")
    /\ rtLock = Nobody
    /\ rtpc' = "waiting"
    /\ UNCHANGED <<input, reader, locks, worker, data, report, running, rows, mthread>>

ReporterStops ==
    /\ ReporterAt("woken")
    /\ rtLock = Nobody
    /\ ~running
    /\ rtpc' = "done"
    /\ UNCHANGED <<input, reader, locks, worker, data, report, running, rows, mthread>>

Merged == [bins |-> bins[Reporter], sums |-> sums[Reporter], from |-> covers]

\* record_interval(m_index): each entry of row m_index becomes the maximum of
\* itself and the merged state's differential, which depends on the set of
\* states recorded in that row only.
ReporterRecords ==
    /\ ReporterAt("woken")
    /\ rtLock = Nobody
    /\ running
    /\ Cloned
    /\ instLock[Reporter] = Nobody
    /\ rows' = [rows EXCEPT ![rtIndex] = @ \cup {Merged}]
    /\ rtpc' = "waiting"
    /\ UNCHANGED <<input, reader, locks, worker, data, report, running, mthread>>

\* The same call on an instance that was never cloned: its uninitialised
\* members bound the loops, which do nothing or write out of bounds.  pscc and
\* relpow record nothing.
ReporterRecordsNothing ==
    /\ ReporterAt("woken")
    /\ rtLock = Nobody
    /\ running
    /\ ~Cloned
    /\ rtpc' = "waiting"
    /\ mpc' \in IF CloneLocks = "nothing" THEN {mpc} ELSE {mpc, "crashed"}
    /\ UNCHANGED <<input, reader, locks, worker, data, report, running, rows, listed>>

SpuriousWakeup ==
    /\ SpuriousWakeups
    /\ ReporterAt("waiting")
    /\ rtpc' = "woken"
    /\ UNCHANGED <<input, reader, locks, worker, data, report, running, rows, mthread>>

ReportThread == \/ ReporterWaits \/ ReporterStops
                \/ ReporterRecords \/ ReporterRecordsNothing

-----------------------------------------------------------------------------
(* Worker w in next_trace, first part: the interval report. *)

\* Mutant: the interval is reported one trace early.
ReportDueEarly == (index + 1) % Interval = 0 \/ index = NumTraces

\* index && (!(index % interval) || index == num_traces)
ReportDue == index # 0 /\ (index % Interval = 0 \/ index = NumTraces)

EnterNextTrace(w) ==
    /\ At(w, "call")
    /\ engineLock = Nobody
    /\ engineLock' = w
    /\ wpc' = [wpc EXCEPT ![w] = IF ReportDue THEN "compute" ELSE "read"]
    /\ UNCHANGED <<input, reader, rtLock, cur, mapped, data, report, rthread, mthread>>

BeginCompute(w) ==
    /\ At(w, "compute")
    /\ rtLock = Nobody
    /\ rtLock' = w
    /\ copy' = 1
    /\ wpc' = [wpc EXCEPT ![w] = "merge"]
    /\ UNCHANGED <<input, reader, engineLock, cur, mapped, data, rtIndex, covers, rthread, mthread>>

\* Mutant: clone and coalesce lock the instance they write.
CopyLockTarget(source) == Reporter

\* The mutex that clone and coalesce hold while they read instance `source'.
CopyLock(source) == IF CloneLocks = "source" THEN source ELSE Reporter

\* Mutant: the report instance is not reset before the merge.
CopiedWithoutReset(tally, source) ==
    [tally EXCEPT ![Reporter] =
        [t \in Traces |-> tally[Reporter][t] + tally[source][t]]]

\* Mutant: coalesce overwrites what the earlier entries contributed.
CopiedOverwriting(tally, source) == [tally EXCEPT ![Reporter] = tally[source]]

\* The report instance's tally after clone (entry 1) or coalesce (the others)
\* of entry `source': clone overwrites it, coalesce adds to it.
Copied(tally, source) ==
    [tally EXCEPT ![Reporter] =
        IF source = 1 THEN tally[source]
        ELSE [t \in Traces |-> tally[Reporter][t] + tally[source][t]]]

\* clone(threads.front()->attack()) or coalesce(threads[copy - 1]->attack()):
\* the lock and the first accumulators, then the last ones and the unlock.
CopyBins(w) ==
    /\ At(w, "merge")
    /\ CloneLocks # "nothing"
    /\ instLock[CopyLock(copy)] = Nobody
    /\ instLock' = [instLock EXCEPT ![CopyLock(copy)] = w]
    /\ bins' = Copied(bins, copy)
    /\ wpc' = [wpc EXCEPT ![w] = "copysums"]
    /\ UNCHANGED <<input, reader, locks, cur, mapped, sums, report, rthread, mthread>>

CopySums(w) ==
    /\ At(w, "copysums")
    /\ instLock' = [instLock EXCEPT ![CopyLock(copy)] = Nobody]
    /\ sums' = Copied(sums, copy)
    /\ copy' = copy + 1
    /\ wpc' = [wpc EXCEPT ![w] = "merge"]
    /\ UNCHANGED <<input, reader, locks, cur, mapped, bins, rtIndex, covers, rthread, mthread>>

\* clone of pscc and relpow has an empty body, so the instance their coalesce
\* adds to was never set up and bounds its loops with uninitialised members.
CopyNothing(w) ==
    /\ At(w, "merge")
    /\ CloneLocks = "nothing"
    /\ copy' = copy + 1
    /\ mpc' \in IF copy = 1 THEN {mpc} ELSE {mpc, "crashed"}
    /\ UNCHANGED <<input, reader, locks, worker, data, rtIndex, covers, rthread, listed>>

\* compute()'s loop over m_threads, at its next entry.
CopyEntry(w) == copy <= listed /\ (CopyBins(w) \/ CopyNothing(w))

\* compute() reads m_threads with the engine's mutex held, but attack_setup
\* appends to it without: a read during push_back may see freed storage, and
\* front() of the still empty vector is a null pointer's target.
ReadThreadsDuringPush(w) ==
    /\ At(w, "merge")
    /\ mpc = "push"
    /\ mpc' = "crashed"
    /\ UNCHANGED <<input, reader, locks, worker, data, report, rthread, listed>>

EndCompute(w) ==
    /\ At(w, "merge")
    /\ copy > 1
    /\ copy > listed
    /\ rtIndex' = (index - 1) \div Interval
    /\ covers' = copy - 1
    /\ rtLock' = Nobody
    /\ rtpc' = Notified
    /\ wpc' = [wpc EXCEPT ![w] = "read"]
    /\ UNCHANGED <<input, reader, engineLock, cur, mapped, data, copy, running, rows, mthread>>

-----------------------------------------------------------------------------
(* Worker w in next_trace, second part: the next trace. *)

\* Mutant: an early return keeps the engine's mutex.
ExitsLocked(w) == /\ engineLock' = engineLock
                  /\ wpc' = [wpc EXCEPT ![w] = "exited"]

\* The lock_guard releases the mutex on every return.
Exits(w) == /\ engineLock' = Nobody
            /\ wpc' = [wpc EXCEPT ![w] = "exited"]

NoMoreTraces(w) ==
    /\ At(w, "read")
    /\ index >= NumTraces
    /\ Exits(w)
    /\ UNCHANGED <<input, reader, rtLock, cur, mapped, data, report, rthread, mthread>>

\* m_reader->read fails: the reader is past its last trace, or cannot read the
\* next one; some readers have then moved past it (v1, v2), some not (v3).
ReadFails(w) ==
    /\ At(w, "read")
    /\ index < NumTraces
    /\ \/ /\ next > NumTraces
          /\ next' = next
       \/ /\ next <= NumTraces
          /\ kind[next] = "unreadable"
          /\ next' \in {next, next + 1}
    /\ Exits(w)
    /\ UNCHANGED <<input, index, rtLock, cur, mapped, data, report, rthread, mthread>>

ReadTrace(w) ==
    /\ At(w, "read")
    /\ index < NumTraces
    /\ next <= NumTraces
    /\ kind[next] # "unreadable"
    /\ cur' = [cur EXCEPT ![w] = next]
    /\ next' = next + 1
    /\ wpc' = [wpc EXCEPT ![w] = "count"]
    /\ UNCHANGED <<input, index, locks, mapped, data, report, rthread, mthread>>

CountTrace(w) ==
    /\ At(w, "count")
    /\ index' = index + 1
    /\ engineLock' = Nobody
    /\ wpc' = [wpc EXCEPT ![w] = "check"]
    /\ UNCHANGED <<input, next, rtLock, cur, mapped, data, report, rthread, mthread>>

\* The number of events of a trace: all agree except the "short" ones.
Size(t) == IF kind[t] = "short" THEN 1 ELSE 2

\* The trace has as many events as the worker's earlier ones, if any, and its
\* text has the length of the cipher's block.
Acceptable(w) == /\ mapped[w] \in {0, Size(cur[w])}
                 /\ kind[cur[w]] # "badtext"

\* A trace that is not acceptable ends the worker: next_trace returns false
\* for the event count, attack_thread::run returns for the text.
RejectTrace(w) ==
    /\ At(w, "check")
    /\ ~Acceptable(w)
    /\ wpc' = [wpc EXCEPT ![w] = "exited"]
    /\ UNCHANGED <<input, reader, locks, cur, mapped, data, report, rthread, mthread>>

AcceptTrace(w) ==
    /\ At(w, "check")
    /\ Acceptable(w)
    /\ mapped' = [mapped EXCEPT ![w] = Size(cur[w])]
    /\ wpc' = [wpc EXCEPT ![w] = "process"]
    /\ UNCHANGED <<input, reader, locks, cur, data, report, rthread, mthread>>

-----------------------------------------------------------------------------
(* Worker w in process(): its instance's mutex held from the first            *)
(* accumulators to the last (pscc and relpow take no mutex, and nobody else   *)
(* reads their instances before the workers have exited).                     *)

ProcessBins(w) ==
    /\ At(w, "process")
    /\ instLock[w] = Nobody
    /\ instLock' = [instLock EXCEPT ![w] = w]
    /\ bins' = [bins EXCEPT ![w][cur[w]] = @ + 1]
    /\ wpc' = [wpc EXCEPT ![w] = "processsums"]
    /\ UNCHANGED <<input, reader, locks, cur, mapped, sums, report, rthread, mthread>>

ProcessSums(w) ==
    /\ At(w, "processsums")
    /\ instLock' = [instLock EXCEPT ![w] = Nobody]
    /\ sums' = [sums EXCEPT ![w][cur[w]] = @ + 1]
    /\ wpc' = [wpc EXCEPT ![w] = "call"]
    /\ UNCHANGED <<input, reader, locks, cur, mapped, bins, report, rthread, mthread>>

Worker(w) ==
    \/ EnterNextTrace(w) \/ BeginCompute(w) \/ CopyEntry(w) \/ CopySums(w)
    \/ ReadThreadsDuringPush(w) \/ EndCompute(w)
    \/ NoMoreTraces(w) \/ ReadFails(w) \/ ReadTrace(w) \/ CountTrace(w)
    \/ RejectTrace(w) \/ AcceptTrace(w) \/ ProcessBins(w) \/ ProcessSums(w)

-----------------------------------------------------------------------------
Next == \/ Main
        \/ ReportThread
        \/ SpuriousWakeup
        \/ \E w \in Workers : Worker(w)

Spec == Init /\ [][Next]_vars

\* The scheduler runs every thread that can run.  Weak fairness is enough: a
\* worker's contention for a mutex ends with the finitely many traces.  A
\* spurious wakeup is never owed.
Fairness == /\ WF_vars(Main)
            /\ WF_vars(ReportThread)
            /\ \A w \in Workers : WF_vars(Worker(w))

FairSpec == Spec /\ Fairness

-----------------------------------------------------------------------------
\* Every variable has its type.
TypeOK ==
    /\ kind \in [Traces -> Kinds]
    /\ next \in 1 .. NumTraces + 1
    /\ index \in 0 .. NumTraces
    /\ engineLock \in Workers \cup {Nobody}
    /\ rtLock \in Workers \cup {Nobody}
    /\ instLock \in [Instances -> Workers \cup {Nobody}]
    /\ listed \in 0 .. NThreads
    /\ bins \in [Instances -> Tally]
    /\ sums \in [Instances -> Tally]
    /\ wpc \in [Workers -> {"unborn", "call", "compute", "merge", "copysums",
                            "read", "count", "check", "process",
                            "processsums", "exited"}]
    /\ cur \in [Workers -> Traces \cup {NoTrace}]
    /\ mapped \in [Workers -> 0 .. 2]
    /\ copy \in 1 .. NThreads + 1
    /\ rtIndex \in Nat
    /\ covers \in 0 .. NThreads
    /\ running \in BOOLEAN
    /\ rtpc \in {"start", "waiting", "woken", "done"}
    /\ rows \in [0 .. Reports - 1 -> SUBSET Snapshot]
    /\ mpc \in {"spawn", "push", "join", "terminate", "joinreporter", "report",
                "done", "failed", "crashed"}

\* A trace is added at most once to any instance, the report instance
\* included however often and from however many workers it is merged, and no
\* trace is ever taken by two workers.
Took(w, t) == cur[w] = t \/ bins[w][t] # 0 \/ sums[w][t] # 0

CountedOnce ==
    /\ \A i \in Instances, t \in Traces : bins[i][t] <= 1 /\ sums[i][t] <= 1
    /\ \A u, v \in Workers, t \in Traces : Took(u, t) /\ Took(v, t) => u = v

\* The number of traces that row n reports on, from write_maxes_report's label
\* m_interval * (i + 1) and the end of the input.
Boundary(n) == IF (n + 1) * Interval < NumTraces THEN (n + 1) * Interval
                                                 ELSE NumTraces

Held(tally) == Cardinality({t \in Traces : tally[t] # 0})

\* A finished compute() names an existing row of the interval table.
RecordInBounds == covers > 0 => rtIndex \in 0 .. Reports - 1

\* Row n never reports on more traces than were read up to its boundary (said of
\* their number: nothing is in the row that the reader had not handed out), and
\* when all workers were listed it misses at most one trace for each worker
\* other than the one that ran compute().
IntervalsExact ==
    \A n \in 0 .. Reports - 1 : \A s \in rows[n] :
        /\ Held(s.bins) <= Boundary(n) /\ Held(s.sums) <= Boundary(n)
        /\ s.from = NThreads => Held(s.sums) + NThreads - 1 >= Boundary(n)

\* Interval reports see each trace entirely or not at all, as "copy the
\* contents of inst" promises (attack_manager.h:69).
RecordsUntorn ==
    \A n \in 0 .. Reports - 1 : \A s \in rows[n] : s.bins = s.sums

\* If the last compute() ran after the last trace was read and merged all the
\* workers, the results written at the end hold every accumulated trace.
FinalMerged ==
    (mpc = "done" /\ covers = NThreads /\ rtIndex = Reports - 1) =>
        \A w \in Workers, t \in Traces :
            sums[w][t] # 0 => bins[Reporter][t] # 0 /\ sums[Reporter][t] # 0

\* The workers always finish, whatever is wrong with the input.
WorkersFinish == <>(~Alive \/ \A w \in Workers : wpc[w] = "exited")

\* A shutdown that finds the report thread in its wait completes.
ShutdownCompletes == (mpc = "terminate" /\ rtpc # "start") ~> ~Alive

-----------------------------------------------------------------------------
(* What the repository says of the engine and the code does not do. *)

\* attack_engine.h:49: "execute the attack and write the results"; once the
\* attack has started, run() returns or the process has crashed.
RunReturns == <>~Alive

=============================================================================
