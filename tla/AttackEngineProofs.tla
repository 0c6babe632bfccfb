------------------------- MODULE AttackEngineProofs -------------------------
(***************************************************************************)
(* Proofs about AttackEngine for every number of traces and workers, every *)
(* report interval, every kind of attack and every mixture of bad traces.  *)
(***************************************************************************)
EXTENDS AttackEngine, FiniteSetTheorems, TLAPS

-----------------------------------------------------------------------------
(* The inductive invariant. *)

\* The engine's mutex is held exactly in the guarded part of next_trace, the
\* report thread's mutex exactly in compute() (attack_engine.cpp:222, 51).
Guarded  == {"compute", "merge", "copysums", "read", "count"}
Merging  == {"merge", "copysums"}

LockInv ==
    \A w \in Workers :
        /\ wpc[w] \in Guarded <=> engineLock = w
        /\ wpc[w] \in Merging <=> rtLock = w

\* What the guards passed so far have established for a thread's next step.
ProgressInv ==
    /\ mpc \in {"spawn", "push"} => listed < NThreads
    /\ mpc = "spawn" => \A w \in Workers : w > listed => wpc[w] = "unborn"
    /\ mpc = "push" => \A w \in Workers : w > listed + 1 => wpc[w] = "unborn"
    /\ \A w \in Workers :
        /\ wpc[w] \in {"compute", "merge", "copysums"} => index > 0
        /\ wpc[w] = "copysums" => copy <= listed
        /\ wpc[w] = "count" => index < NumTraces
        /\ wpc[w] \in {"count", "check", "process", "processsums"}
             => cur[w] \in Traces

\* A trace belongs to the worker that took it: it lies behind the reader, no
\* other worker took it, and it is in the worker's instance at most once,
\* not yet while the worker is on its way to process it.
OwnerInv ==
    /\ \A w \in Workers, t \in Traces : Took(w, t) => t < next
    /\ \A u, v \in Workers, t \in Traces : Took(u, t) /\ Took(v, t) => u = v
    /\ \A w \in Workers, t \in Traces : bins[w][t] <= 1 /\ sums[w][t] <= 1
    /\ \A w \in Workers :
        /\ wpc[w] \in {"count", "check", "process"} => bins[w][cur[w]] = 0
        /\ wpc[w] \in {"count", "check", "process", "processsums"}
             => sums[w][cur[w]] = 0

\* While a merge is under way, a trace in the report instance is held by a
\* worker that has already been merged: one of entries 1 to n.
Holds(w, t) == bins[w][t] # 0 \/ sums[w][t] # 0

Contributed(tally, n) ==
    \A t \in Traces :
        tally[Reporter][t] # 0 => \E u \in Workers : u <= n /\ Holds(u, t)

MergeInv ==
    /\ \A t \in Traces : bins[Reporter][t] <= 1 /\ sums[Reporter][t] <= 1
    /\ CloneLocks = "nothing" => bins[Reporter] = Empty /\ sums[Reporter] = Empty
    /\ \A w \in Workers :
        /\ wpc[w] = "merge" /\ copy > 1 =>
             Contributed(bins, copy - 1) /\ Contributed(sums, copy - 1)
        /\ wpc[w] = "copysums" =>
             /\ CloneLocks # "nothing"
             /\ Contributed(bins, copy)
             /\ copy > 1 => Contributed(sums, copy - 1)

IInv == TypeOK /\ LockInv /\ ProgressInv /\ OwnerInv /\ MergeInv

-----------------------------------------------------------------------------
(* The options. *)

\* The engine has at least one worker and one trace per interval.
LEMMA ConstantsOK == /\ NThreads \in Nat \ {0}
                     /\ Interval \in Nat \ {0}
  BY OptionsAssumption DEF NThreads, Interval

\* No worker's number stands for the report thread's instance or for nobody.
LEMMA NamesOK == /\ Workers \subseteq Instances
                 /\ Reporter \in Instances
                 /\ \A w \in Workers : w # Reporter /\ w # Nobody /\ w \in Nat /\ w > 0
  BY NamesAssumption, ConstantsOK DEF Instances, Workers

-----------------------------------------------------------------------------
(* The initial states. *)

LEMMA InitIInv == Init => IInv
<1>. SUFFICES ASSUME Init PROVE IInv
  OBVIOUS
<1>. USE ConstantsOK, NamesOK, OptionsAssumption DEF Init
<1>1. TypeOK
  BY DEF TypeOK, Tally, Empty, Traces, Kinds, NoTrace
<1>2. LockInv
  BY DEF LockInv, Guarded, Merging
<1>3. ProgressInv
  BY DEF ProgressInv, Workers
<1>4. OwnerInv
  BY DEF OwnerInv, Took, Empty, NoTrace, Traces
<1>5. MergeInv
  BY DEF MergeInv, Empty
<1>. QED
  BY <1>1, <1>2, <1>3, <1>4, <1>5 DEF IInv

-----------------------------------------------------------------------------
(* Type correctness. *)

LEMMA TypeStep == IInv /\ [Next]_vars => TypeOK'
<1>. SUFFICES ASSUME IInv, [Next]_vars PROVE TypeOK'
  OBVIOUS
<1>. USE ConstantsOK, NamesOK, OptionsAssumption
     DEF IInv, TypeOK, vars, input, reader, locks, worker, data, report,
         rthread, mthread
<1>1. CASE Main
  <2>1. CASE LaunchWorker  BY <2>1 DEF LaunchWorker, Workers
  <2>2. CASE SetupFails    BY <2>2 DEF SetupFails
  <2>3. CASE PushThread
    BY <2>3 DEF PushThread, LastThread, ProgressInv
  <2>4. CASE JoinAll       BY <2>4 DEF JoinAll
  <2>5. CASE Terminate     BY <2>5 DEF Terminate, Notified
  <2>6. CASE JoinReporter  BY <2>6 DEF JoinReporter
  <2>7. CASE WriteResults  BY <2>7 DEF WriteResults
  <2>. QED
    BY <1>1, <2>1, <2>2, <2>3, <2>4, <2>5, <2>6, <2>7 DEF Main
<1>2. CASE ReportThread
  <2>1. CASE ReporterWaits  BY <2>1 DEF ReporterWaits
  <2>2. CASE ReporterStops  BY <2>2 DEF ReporterStops
  <2>3. CASE ReporterRecords
    <3>1. Merged \in Snapshot
      BY DEF Merged, Snapshot
    <3>. QED
      BY <2>3, <3>1 DEF ReporterRecords
  <2>4. CASE ReporterRecordsNothing
    BY <2>4 DEF ReporterRecordsNothing
  <2>. QED
    BY <1>2, <2>1, <2>2, <2>3, <2>4 DEF ReportThread
<1>3. CASE SpuriousWakeup
  BY <1>3 DEF SpuriousWakeup
<1>4. ASSUME NEW w \in Workers, Worker(w) PROVE TypeOK'
  <2>1. CASE EnterNextTrace(w)  BY <2>1 DEF EnterNextTrace
  <2>2. CASE BeginCompute(w)    BY <2>2 DEF BeginCompute
  <2>3. CASE copy <= listed /\ CopyBins(w)
    <3>1. Copied(bins, copy) \in [Instances -> Tally]
      BY <2>3 DEF CopyBins, Copied, Tally, Workers
    <3>. QED
      BY <2>3, <3>1 DEF CopyBins, CopyLock
  <2>4. CASE CopySums(w)
    <3>1. copy \in Workers
      BY <2>4 DEF CopySums, ProgressInv, At, Workers
    <3>2. Copied(sums, copy) \in [Instances -> Tally]
      BY <3>1 DEF Copied, Tally
    <3>3. copy + 1 \in 1 .. NThreads + 1
      BY <3>1 DEF Workers
    <3>. QED
      BY <2>4, <3>2, <3>3 DEF CopySums
  <2>5. CASE copy <= listed /\ CopyNothing(w)     BY <2>5 DEF CopyNothing
  <2>6. CASE ReadThreadsDuringPush(w)
    BY <2>6 DEF ReadThreadsDuringPush
  <2>7. CASE EndCompute(w)
    <3>1. index > 0
      BY <2>7 DEF EndCompute, ProgressInv, At
    <3>2. (index - 1) \div Interval \in Nat
      BY ONLY <3>1, index \in Nat, Interval \in Nat \ {0}
    <3>. QED
      BY <2>7, <3>2 DEF EndCompute, Notified
  <2>8. CASE NoMoreTraces(w)    BY <2>8 DEF NoMoreTraces, Exits
  <2>9. CASE ReadFails(w)       BY <2>9 DEF ReadFails, Exits
  <2>10. CASE ReadTrace(w)      BY <2>10 DEF ReadTrace, Traces
  <2>11. CASE CountTrace(w)     BY <2>11 DEF CountTrace, ProgressInv, At
  <2>12. CASE RejectTrace(w)    BY <2>12 DEF RejectTrace
  <2>13. CASE AcceptTrace(w)    BY <2>13 DEF AcceptTrace, Size
  <2>14. CASE ProcessBins(w)
    <3>1. cur[w] \in Traces
      BY <2>14 DEF ProcessBins, ProgressInv, At
    <3>2. bins' = [bins EXCEPT ![w] = [bins[w] EXCEPT ![cur[w]] = @ + 1]]
      BY <2>14 DEF ProcessBins
    <3>3. [bins[w] EXCEPT ![cur[w]] = @ + 1] \in Tally
      BY <3>1 DEF Tally
    <3>4. bins' \in [Instances -> Tally]
      BY <3>2, <3>3
    <3>. QED
      BY <2>14, <3>4 DEF ProcessBins
  <2>15. CASE ProcessSums(w)
    <3>1. cur[w] \in Traces
      BY <2>15 DEF ProcessSums, ProgressInv, At
    <3>2. sums' = [sums EXCEPT ![w] = [sums[w] EXCEPT ![cur[w]] = @ + 1]]
      BY <2>15 DEF ProcessSums
    <3>3. [sums[w] EXCEPT ![cur[w]] = @ + 1] \in Tally
      BY <3>1 DEF Tally
    <3>4. sums' \in [Instances -> Tally]
      BY <3>2, <3>3
    <3>. QED
      BY <2>15, <3>4 DEF ProcessSums
  <2>. QED
    BY <1>4, <2>1, <2>2, <2>3, <2>4, <2>5, <2>6, <2>7, <2>8, <2>9, <2>10,
       <2>11, <2>12, <2>13, <2>14, <2>15 DEF Worker, CopyEntry
<1>5. CASE UNCHANGED vars
  BY <1>5
<1>. QED
  BY <1>1, <1>2, <1>3, <1>4, <1>5 DEF Next

-----------------------------------------------------------------------------
(* The two mutexes. *)

LEMMA LockStep == IInv /\ [Next]_vars => LockInv'
<1>. SUFFICES ASSUME IInv, [Next]_vars PROVE LockInv'
  OBVIOUS
<1>. USE NamesOK DEF IInv, TypeOK, LockInv, Guarded, Merging, locks, worker
<1>1. CASE LaunchWorker
  <2>1. listed + 1 \in Workers /\ wpc[listed + 1] = "unborn"
    BY <1>1, ConstantsOK DEF LaunchWorker, ProgressInv, Workers
  <2>. QED
    BY <1>1, <2>1 DEF LaunchWorker
<1>2. CASE UNCHANGED <<locks, worker>>
  BY <1>2
<1>3. ASSUME NEW w \in Workers, Worker(w) PROVE LockInv'
  <2>. USE DEF At
  <2>1. CASE EnterNextTrace(w)  BY <2>1 DEF EnterNextTrace
  <2>2. CASE BeginCompute(w)    BY <2>2 DEF BeginCompute
  <2>3. CASE copy <= listed /\ CopyBins(w)        BY <2>3 DEF CopyBins
  <2>4. CASE CopySums(w)        BY <2>4 DEF CopySums
  <2>5. CASE (copy <= listed /\ CopyNothing(w)) \/ ReadThreadsDuringPush(w)
    BY <2>5, <1>2 DEF CopyNothing, ReadThreadsDuringPush
  <2>6. CASE EndCompute(w)      BY <2>6 DEF EndCompute
  <2>7. CASE NoMoreTraces(w)    BY <2>7 DEF NoMoreTraces, Exits
  <2>8. CASE ReadFails(w)       BY <2>8 DEF ReadFails, Exits
  <2>9. CASE ReadTrace(w)       BY <2>9 DEF ReadTrace
  <2>10. CASE CountTrace(w)     BY <2>10 DEF CountTrace
  <2>11. CASE RejectTrace(w)    BY <2>11 DEF RejectTrace
  <2>12. CASE AcceptTrace(w)    BY <2>12 DEF AcceptTrace
  <2>13. CASE ProcessBins(w)    BY <2>13 DEF ProcessBins
  <2>14. CASE ProcessSums(w)    BY <2>14 DEF ProcessSums
  <2>. QED
    BY <1>3, <2>1, <2>2, <2>3, <2>4, <2>5, <2>6, <2>7, <2>8, <2>9, <2>10,
       <2>11, <2>12, <2>13, <2>14 DEF Worker, CopyEntry
<1>4. Next => LaunchWorker \/ UNCHANGED <<locks, worker>>
                           \/ \E w \in Workers : Worker(w)
  BY DEF Next, Main, ReportThread, SetupFails, PushThread, JoinAll, Terminate,
         JoinReporter, WriteResults, ReporterWaits, ReporterStops,
         ReporterRecords, ReporterRecordsNothing, SpuriousWakeup
<1>. QED
  BY <1>1, <1>2, <1>3, <1>4 DEF vars

-----------------------------------------------------------------------------
(* What a thread knows from its earlier steps. *)

LEMMA ProgressStep == IInv /\ [Next]_vars => ProgressInv'
<1>. SUFFICES ASSUME IInv, [Next]_vars PROVE ProgressInv'
  OBVIOUS
<1>. USE NamesOK, ConstantsOK
     DEF IInv, TypeOK, ProgressInv, reader, worker, report, mthread
<1>1. CASE Main
  <2>1. CASE LaunchWorker  BY <2>1 DEF LaunchWorker, Workers
  <2>2. CASE SetupFails    BY <2>2 DEF SetupFails
  <2>3. CASE PushThread    BY <2>3 DEF PushThread, LastThread
  <2>4. CASE JoinAll \/ Terminate \/ JoinReporter \/ WriteResults
    BY <2>4 DEF JoinAll, Terminate, JoinReporter, WriteResults
  <2>. QED
    BY <1>1, <2>1, <2>2, <2>3, <2>4 DEF Main
<1>2. CASE ReportThread \/ SpuriousWakeup
  BY <1>2 DEF ReportThread, SpuriousWakeup, ReporterWaits, ReporterStops,
              ReporterRecords, ReporterRecordsNothing
<1>3. ASSUME NEW w \in Workers, Worker(w) PROVE ProgressInv'
  <2>. USE DEF At, LockInv, Guarded, Merging
  <2>1. CASE EnterNextTrace(w)  BY <2>1 DEF EnterNextTrace, ReportDue
  <2>2. CASE BeginCompute(w)    BY <2>2 DEF BeginCompute
  <2>3. CASE copy <= listed /\ CopyBins(w)        BY <2>3 DEF CopyBins
  <2>4. CASE CopySums(w)        BY <2>4 DEF CopySums
  <2>5. CASE copy <= listed /\ CopyNothing(w)     BY <2>5 DEF CopyNothing
  <2>6. CASE ReadThreadsDuringPush(w)
    BY <2>6 DEF ReadThreadsDuringPush
  <2>7. CASE EndCompute(w)      BY <2>7 DEF EndCompute
  <2>8. CASE NoMoreTraces(w) \/ ReadFails(w)
    BY <2>8 DEF NoMoreTraces, ReadFails, Exits
  <2>9. CASE ReadTrace(w)       BY <2>9 DEF ReadTrace, Traces
  <2>10. CASE CountTrace(w)     BY <2>10 DEF CountTrace
  <2>11. CASE RejectTrace(w)    BY <2>11 DEF RejectTrace
  <2>12. CASE AcceptTrace(w)    BY <2>12 DEF AcceptTrace
  <2>13. CASE ProcessBins(w)    BY <2>13 DEF ProcessBins
  <2>14. CASE ProcessSums(w)    BY <2>14 DEF ProcessSums
  <2>. QED
    BY <1>3, <2>1, <2>2, <2>3, <2>4, <2>5, <2>6, <2>7, <2>8, <2>9, <2>10,
       <2>11, <2>12, <2>13, <2>14 DEF Worker, CopyEntry
<1>4. CASE UNCHANGED vars
  BY <1>4 DEF vars
<1>. QED
  BY <1>1, <1>2, <1>3, <1>4 DEF Next

-----------------------------------------------------------------------------
(* Ownership of the traces. *)

LEMMA OwnerStep == IInv /\ [Next]_vars => OwnerInv'
<1>. SUFFICES ASSUME IInv, [Next]_vars PROVE OwnerInv'
  OBVIOUS
<1>. USE NamesOK DEF IInv, TypeOK, OwnerInv, Took, reader, worker, data
<1>1. CASE LaunchWorker
  <2>1. wpc' = [wpc EXCEPT ![listed + 1] = "call"]
    BY <1>1 DEF LaunchWorker
  <2>. QED
    BY <1>1, <2>1 DEF LaunchWorker
<1>2. CASE UNCHANGED <<reader, worker, data>>
  BY <1>2
<1>3. ASSUME NEW w \in Workers, Worker(w) PROVE OwnerInv'
  <2>. USE DEF At
  <2>1. CASE EnterNextTrace(w)  BY <2>1 DEF EnterNextTrace
  <2>2. CASE BeginCompute(w)    BY <2>2 DEF BeginCompute
  <2>3. CASE copy <= listed /\ CopyBins(w)        BY <2>3 DEF CopyBins, Copied
  <2>4. CASE CopySums(w)        BY <2>4 DEF CopySums, Copied
  <2>5. CASE (copy <= listed /\ CopyNothing(w)) \/ ReadThreadsDuringPush(w)
    BY <2>5, <1>2 DEF CopyNothing, ReadThreadsDuringPush
  <2>6. CASE EndCompute(w)      BY <2>6 DEF EndCompute
  <2>7. CASE NoMoreTraces(w)    BY <2>7 DEF NoMoreTraces, Exits
  <2>8. CASE ReadFails(w)
    <3>1. next' \in Nat /\ next' >= next
      BY <2>8 DEF ReadFails
    <3>. QED
      BY <2>8, <3>1 DEF ReadFails, Exits, Traces
  <2>9. CASE ReadTrace(w)
    <3>1. /\ next' = next + 1 /\ next \in Traces
          /\ cur' = [cur EXCEPT ![w] = next]
          /\ wpc' = [wpc EXCEPT ![w] = "count"]
          /\ UNCHANGED <<bins, sums>>
      BY <2>9 DEF ReadTrace, Traces
    <3>2. \A u \in Workers : ~Took(u, next)
      BY <3>1 DEF Traces
    <3>3. \A u \in Workers, t \in Traces :
            Took(u, t)' => Took(u, t) \/ (u = w /\ t = next)
      BY <3>1
    <3>4. \A u \in Workers, t \in Traces : Took(u, t)' => t < next'
      BY <3>1, <3>3 DEF Traces
    <3>5. \A u, v \in Workers, t \in Traces :
            Took(u, t)' /\ Took(v, t)' => u = v
      BY <3>2, <3>3
    <3>6. bins[w][next] = 0 /\ sums[w][next] = 0
      BY <3>2
    <3>. QED
      BY <3>1, <3>4, <3>5, <3>6
  <2>10. CASE CountTrace(w)     BY <2>10 DEF CountTrace
  <2>11. CASE RejectTrace(w)    BY <2>11 DEF RejectTrace
  <2>12. CASE AcceptTrace(w)    BY <2>12 DEF AcceptTrace
  <2>13. CASE ProcessBins(w)
    <3>1. cur[w] \in Traces /\ bins[w][cur[w]] = 0
      BY <2>13 DEF ProcessBins, ProgressInv
    <3>2. /\ bins' = [bins EXCEPT ![w] = [bins[w] EXCEPT ![cur[w]] = 1]]
          /\ wpc' = [wpc EXCEPT ![w] = "processsums"]
          /\ UNCHANGED <<next, cur, sums>>
      BY <2>13, <3>1 DEF ProcessBins
    <3>3. \A u \in Workers, t \in Traces : Took(u, t)' => Took(u, t)
      BY <3>1, <3>2 DEF Tally
    <3>4. \A u \in Workers, t \in Traces : bins'[u][t] <= 1
      BY <3>1, <3>2 DEF Tally
    <3>5. \A u \in Workers : u # w => bins'[u] = bins[u]
      BY <3>2
    <3>. QED
      BY <2>13, <3>2, <3>3, <3>4, <3>5 DEF ProcessBins
  <2>14. CASE ProcessSums(w)
    <3>1. cur[w] \in Traces /\ sums[w][cur[w]] = 0
      BY <2>14 DEF ProcessSums, ProgressInv
    <3>2. /\ sums' = [sums EXCEPT ![w] = [sums[w] EXCEPT ![cur[w]] = 1]]
          /\ wpc' = [wpc EXCEPT ![w] = "call"]
          /\ UNCHANGED <<next, cur, bins>>
      BY <2>14, <3>1 DEF ProcessSums
    <3>3. \A u \in Workers, t \in Traces : Took(u, t)' => Took(u, t)
      BY <3>1, <3>2 DEF Tally
    <3>4. \A u \in Workers, t \in Traces : sums'[u][t] <= 1
      BY <3>1, <3>2 DEF Tally
    <3>5. \A u \in Workers : u # w => sums'[u] = sums[u]
      BY <3>2
    <3>. QED
      BY <2>14, <3>2, <3>3, <3>4, <3>5 DEF ProcessSums
  <2>. QED
    BY <1>3, <2>1, <2>2, <2>3, <2>4, <2>5, <2>6, <2>7, <2>8, <2>9, <2>10,
       <2>11, <2>12, <2>13, <2>14 DEF Worker, CopyEntry
<1>4. Next => LaunchWorker \/ UNCHANGED <<reader, worker, data>>
                           \/ \E w \in Workers : Worker(w)
  BY DEF Next, Main, ReportThread, SetupFails, PushThread, JoinAll, Terminate,
         JoinReporter, WriteResults, ReporterWaits, ReporterStops,
         ReporterRecords, ReporterRecordsNothing, SpuriousWakeup
<1>. QED
  BY <1>1, <1>2, <1>3, <1>4 DEF vars

-----------------------------------------------------------------------------
(* The merge. *)

\* clone of entry 1, or coalesce of entry p onto entries 1 to p - 1, leaves
\* each trace at most once in the report instance: the entries' owners differ.
LEMMA CopiedOnce ==
  ASSUME IInv,
         NEW STATE tally, tally \in [Instances -> Tally],
         NEW STATE p, p \in Workers,
         \A u \in Workers, t \in Traces :
            tally[u][t] <= 1 /\ (tally[u][t] # 0 => Holds(u, t)),
         \A t \in Traces : tally[Reporter][t] <= 1,
         p > 1 => Contributed(tally, p - 1)
  PROVE  /\ \A t \in Traces : Copied(tally, p)[Reporter][t] <= 1
         /\ Contributed(Copied(tally, p), p)
         /\ \A u \in Workers : Copied(tally, p)[u] = tally[u]
<1>. USE NamesOK
<1>1. \A u \in Workers : Copied(tally, p)[u] = tally[u]
  BY DEF Copied
<1>2. CASE p = 1
  <2>1. Copied(tally, p)[Reporter] = tally[p]
    BY <1>2 DEF Copied
  <2>. QED
    BY <1>1, <1>2, <2>1 DEF Contributed
<1>3. CASE p # 1
  <2>1. \A t \in Traces :
          Copied(tally, p)[Reporter][t] = tally[Reporter][t] + tally[p][t]
    BY <1>3 DEF Copied
  <2>2. \A i \in Instances, t \in Traces : tally[i][t] \in Nat
    BY DEF Tally
  <2>3. Contributed(tally, p - 1)
    BY <1>3
  <2>4. \A t \in Traces : tally[Reporter][t] = 0 \/ tally[p][t] = 0
    <3>1. SUFFICES ASSUME NEW t \in Traces, tally[Reporter][t] # 0,
                          tally[p][t] # 0
                   PROVE  FALSE
      OBVIOUS
    <3>2. PICK u \in Workers : u <= p - 1 /\ Holds(u, t)
      BY <2>3, <3>1 DEF Contributed
    <3>3. u = p
      BY <3>1, <3>2 DEF IInv, OwnerInv, Took, Holds
    <3>. QED
      BY <3>2, <3>3
  <2>5. \A t \in Traces : Copied(tally, p)[Reporter][t] <= 1
    BY <2>1, <2>2, <2>4
  <2>6. Contributed(Copied(tally, p), p)
    <3>1. SUFFICES ASSUME NEW t \in Traces, Copied(tally, p)[Reporter][t] # 0
                   PROVE  \E u \in Workers : u <= p /\ Holds(u, t)
      BY DEF Contributed
    <3>2. CASE tally[p][t] # 0
      BY <3>2
    <3>3. CASE tally[Reporter][t] # 0
      <4>1. PICK u \in Workers : u <= p - 1 /\ Holds(u, t)
        BY <2>3, <3>3 DEF Contributed
      <4>. QED
        BY <4>1
    <3>. QED
      BY <2>1, <2>2, <3>1, <3>2, <3>3
  <2>. QED
    BY <1>1, <2>5, <2>6
<1>. QED
  BY <1>2, <1>3

\* Workers' instances only gain traces.
LEMMA HoldsStays ==
  ASSUME IInv, [Next]_vars, NEW u \in Workers, NEW t \in Traces, Holds(u, t)
  PROVE  Holds(u, t)'
<1>. USE NamesOK DEF Holds, data
<1>1. CASE UNCHANGED <<bins, sums>>
  BY <1>1
<1>2. ASSUME NEW w \in Workers, Worker(w) PROVE Holds(u, t)'
  <2>1. CASE copy <= listed /\ CopyBins(w)
    <3>1. bins'[u] = bins[u]
      BY <2>1 DEF CopyBins, Copied, IInv, TypeOK
    <3>. QED
      BY <2>1, <3>1 DEF CopyBins
  <2>2. CASE CopySums(w)
    <3>1. sums'[u] = sums[u]
      BY <2>2 DEF CopySums, Copied, IInv, TypeOK
    <3>. QED
      BY <2>2, <3>1 DEF CopySums
  <2>3. CASE ProcessBins(w)
    <3>1. bins[u][t] \in Nat
      BY DEF IInv, TypeOK, Tally
    <3>2. bins[u][t] # 0 => bins'[u][t] # 0
      BY <2>3, <3>1 DEF ProcessBins, IInv, TypeOK, Tally
    <3>. QED
      BY <2>3, <3>2 DEF ProcessBins
  <2>4. CASE ProcessSums(w)
    <3>1. sums[u][t] \in Nat
      BY DEF IInv, TypeOK, Tally
    <3>2. sums[u][t] # 0 => sums'[u][t] # 0
      BY <2>4, <3>1 DEF ProcessSums, IInv, TypeOK, Tally
    <3>. QED
      BY <2>4, <3>2 DEF ProcessSums
  <2>5. CASE UNCHANGED <<bins, sums>>
    BY <2>5
  <2>. QED
    BY <1>2, <2>1, <2>2, <2>3, <2>4, <2>5
       DEF Worker, CopyEntry, EnterNextTrace, BeginCompute, CopyNothing,
           ReadThreadsDuringPush, EndCompute, NoMoreTraces, ReadFails,
           ReadTrace, CountTrace, RejectTrace, AcceptTrace
<1>3. Next => UNCHANGED <<bins, sums>> \/ \E w \in Workers : Worker(w)
  BY DEF Next, Main, ReportThread, LaunchWorker, SetupFails, PushThread,
         JoinAll, Terminate, JoinReporter, WriteResults, ReporterWaits,
         ReporterStops, ReporterRecords, ReporterRecordsNothing, SpuriousWakeup
<1>. QED
  BY <1>1, <1>2, <1>3 DEF vars

\* A step that leaves the report instance and compute()'s position alone and
\* starts no merge keeps MergeInv.
LEMMA QuietMerge ==
  ASSUME IInv, [Next]_vars, copy' = copy,
         bins'[Reporter] = bins[Reporter], sums'[Reporter] = sums[Reporter],
         \A w \in Workers : wpc'[w] \in Merging => wpc'[w] = wpc[w]
  PROVE  MergeInv'
<1>1. \A u \in Workers, t \in Traces : Holds(u, t) => Holds(u, t)'
  BY HoldsStays
<1>2. \A n : Contributed(bins, n) => Contributed(bins, n)'
  BY <1>1 DEF Contributed
<1>3. \A n : Contributed(sums, n) => Contributed(sums, n)'
  BY <1>1 DEF Contributed
<1>4. ASSUME NEW w \in Workers, wpc'[w] = "merge", copy > 1
      PROVE  Contributed(bins, copy - 1)' /\ Contributed(sums, copy - 1)'
  BY <1>2, <1>3, <1>4 DEF IInv, MergeInv, Merging
<1>5. ASSUME NEW w \in Workers, wpc'[w] = "copysums"
      PROVE  /\ CloneLocks # "nothing"
             /\ Contributed(bins, copy)'
             /\ copy > 1 => Contributed(sums, copy - 1)'
  BY <1>2, <1>3, <1>5 DEF IInv, MergeInv, Merging
<1>. QED
  BY <1>4, <1>5 DEF IInv, MergeInv

LEMMA MergeStep == IInv /\ [Next]_vars => MergeInv'
<1>. SUFFICES ASSUME IInv, [Next]_vars PROVE MergeInv'
  OBVIOUS
<1>. USE NamesOK DEF Merging
<1>1. CASE LaunchWorker
  BY <1>1, QuietMerge DEF LaunchWorker, IInv, TypeOK, data, report
<1>2. CASE UNCHANGED <<worker, data, copy>>
  BY <1>2, QuietMerge DEF worker, data
<1>3. ASSUME NEW w \in Workers, Worker(w) PROVE MergeInv'
  <2>. USE DEF At
  <2>1. \A v \in Workers : v # w /\ rtLock = w => wpc[v] \notin Merging
    BY DEF IInv, LockInv
  <2>2. \A v \in Workers : v # w /\ engineLock = w => wpc[v] \notin Merging
    BY DEF IInv, LockInv, Guarded
  <2>3. CASE BeginCompute(w)
    <3>1. /\ bins' = bins /\ sums' = sums /\ copy' = 1
          /\ wpc' = [wpc EXCEPT ![w] = "merge"]
          /\ engineLock = w
      BY <2>3 DEF BeginCompute, data, IInv, LockInv, Guarded
    <3>2. \A v \in Workers : wpc'[v] \in Merging => v = w /\ wpc'[v] = "merge"
      BY <2>2, <3>1 DEF IInv, TypeOK
    <3>. QED
      BY <3>1, <3>2 DEF MergeInv, IInv
  <2>4. CASE copy <= listed /\ CopyBins(w)
    <3>1. /\ copy \in Workers /\ wpc[w] = "merge"
          /\ bins' = Copied(bins, copy) /\ sums' = sums /\ copy' = copy
          /\ wpc' = [wpc EXCEPT ![w] = "copysums"]
          /\ CloneLocks # "nothing"
      BY <2>4, ConstantsOK DEF CopyBins, report, IInv, TypeOK, Workers
    <3>2. \A v \in Workers : wpc'[v] \in Merging => v = w
      BY <2>1, <3>1 DEF IInv, TypeOK, LockInv
    <3>3. copy > 1 => Contributed(bins, copy - 1) /\ Contributed(sums, copy - 1)
      BY <3>1 DEF IInv, MergeInv
    <3>4. /\ \A t \in Traces : bins'[Reporter][t] <= 1
          /\ Contributed(Copied(bins, copy), copy)
      <4>1. bins \in [Instances -> Tally]
        BY DEF IInv, TypeOK
      <4>2. \A u \in Workers, t \in Traces :
              bins[u][t] <= 1 /\ (bins[u][t] # 0 => Holds(u, t))
        BY DEF IInv, OwnerInv, Holds
      <4>3. \A t \in Traces : bins[Reporter][t] <= 1
        BY DEF IInv, MergeInv
      <4>4. copy > 1 => Contributed(bins, copy - 1)
        BY <3>3
      <4>5. /\ \A t \in Traces : Copied(bins, copy)[Reporter][t] <= 1
            /\ Contributed(Copied(bins, copy), copy)
        BY <3>1, <4>1, <4>2, <4>3, <4>4, CopiedOnce
      <4>. QED
        BY <3>1, <4>5
    <3>5. \A u \in Workers, t \in Traces : Holds(u, t) => Holds(u, t)'
      BY HoldsStays
    <3>6. Contributed(bins, copy)'
      BY <3>1, <3>4, <3>5 DEF Contributed
    <3>7. copy > 1 => Contributed(sums, copy - 1)'
      BY <3>1, <3>3, <3>5 DEF Contributed
    <3>8. wpc'[w] = "copysums"
      BY <3>1 DEF IInv, TypeOK
    <3>. QED
      BY <3>1, <3>2, <3>4, <3>6, <3>7, <3>8 DEF MergeInv, IInv
  <2>5. CASE CopySums(w)
    <3>1. /\ copy \in Workers /\ wpc[w] = "copysums"
          /\ sums' = Copied(sums, copy) /\ bins' = bins /\ copy' = copy + 1
          /\ wpc' = [wpc EXCEPT ![w] = "merge"]
          /\ CloneLocks # "nothing"
      BY <2>5, ConstantsOK
         DEF CopySums, IInv, TypeOK, ProgressInv, MergeInv, Workers
    <3>2. \A v \in Workers : wpc'[v] \in Merging => v = w
      BY <2>1, <3>1 DEF IInv, TypeOK, LockInv
    <3>3. Contributed(bins, copy) /\ (copy > 1 => Contributed(sums, copy - 1))
      BY <3>1 DEF IInv, MergeInv
    <3>4. /\ \A t \in Traces : sums'[Reporter][t] <= 1
          /\ Contributed(Copied(sums, copy), copy)
      <4>1. sums \in [Instances -> Tally]
        BY DEF IInv, TypeOK
      <4>2. \A u \in Workers, t \in Traces :
              sums[u][t] <= 1 /\ (sums[u][t] # 0 => Holds(u, t))
        BY DEF IInv, OwnerInv, Holds
      <4>3. \A t \in Traces : sums[Reporter][t] <= 1
        BY DEF IInv, MergeInv
      <4>4. copy > 1 => Contributed(sums, copy - 1)
        BY <3>3
      <4>5. /\ \A t \in Traces : Copied(sums, copy)[Reporter][t] <= 1
            /\ Contributed(Copied(sums, copy), copy)
        BY <3>1, <4>1, <4>2, <4>3, <4>4, CopiedOnce
      <4>. QED
        BY <3>1, <4>5
    <3>5. \A u \in Workers, t \in Traces : Holds(u, t) => Holds(u, t)'
      BY HoldsStays
    <3>6. (copy - 1)' = copy
      BY <3>1 DEF Workers
    <3>7. Contributed(sums, copy - 1)'
      BY <3>1, <3>4, <3>5, <3>6 DEF Contributed
    <3>8. Contributed(bins, copy - 1)'
      BY <3>1, <3>3, <3>5, <3>6 DEF Contributed
    <3>9. wpc'[w] = "merge"
      BY <3>1 DEF IInv, TypeOK
    <3>. QED
      BY <3>1, <3>2, <3>4, <3>7, <3>8, <3>9 DEF MergeInv, IInv
  <2>6. CASE copy <= listed /\ CopyNothing(w)
    <3>1. /\ CloneLocks = "nothing" /\ bins' = bins /\ sums' = sums
          /\ wpc' = wpc
      BY <2>6 DEF CopyNothing, data, worker
    <3>2. bins'[Reporter] = Empty /\ sums'[Reporter] = Empty
      BY <3>1 DEF IInv, MergeInv
    <3>3. \A n : Contributed(bins, n)' /\ Contributed(sums, n)'
      BY <3>2 DEF Contributed, Empty
    <3>4. \A v \in Workers : wpc'[v] # "copysums"
      BY <3>1 DEF IInv, MergeInv
    <3>. QED
      BY <3>1, <3>2, <3>3, <3>4 DEF MergeInv, IInv
  <2>7. CASE ProcessBins(w)
    <3>1. /\ bins'[Reporter] = bins[Reporter] /\ sums' = sums /\ copy' = copy
          /\ wpc' = [wpc EXCEPT ![w] = "processsums"]
      BY <2>7 DEF ProcessBins, report, IInv, TypeOK
    <3>. QED
      BY <3>1, QuietMerge DEF IInv, TypeOK
  <2>8. CASE ProcessSums(w)
    <3>1. /\ sums'[Reporter] = sums[Reporter] /\ bins' = bins /\ copy' = copy
          /\ wpc' = [wpc EXCEPT ![w] = "call"]
      BY <2>8 DEF ProcessSums, report, IInv, TypeOK
    <3>. QED
      BY <3>1, QuietMerge DEF IInv, TypeOK
  <2>9. ASSUME UNCHANGED <<data, copy>>,
               \E l : l \notin Merging /\ wpc' = [wpc EXCEPT ![w] = l]
        PROVE  MergeInv'
    BY <2>9, QuietMerge DEF data, IInv, TypeOK
  <2>. QED
    BY <1>2, <1>3, <2>3, <2>4, <2>5, <2>6, <2>7, <2>8, <2>9
       DEF Worker, CopyEntry, EnterNextTrace, ReadThreadsDuringPush, EndCompute,
           NoMoreTraces, ReadFails, Exits, ReadTrace, CountTrace, RejectTrace,
           AcceptTrace, report
<1>4. Next => LaunchWorker \/ UNCHANGED <<worker, data, copy>>
                           \/ \E w \in Workers : Worker(w)
  BY DEF Next, Main, ReportThread, SetupFails, PushThread, JoinAll, Terminate,
         JoinReporter, WriteResults, ReporterWaits, ReporterStops,
         ReporterRecords, ReporterRecordsNothing, SpuriousWakeup, report
<1>. QED
  BY <1>1, <1>2, <1>3, <1>4 DEF vars, report

-----------------------------------------------------------------------------
(* The theorems. *)

\* The inductive invariant holds in every reachable state.
LEMMA Invariance == Spec => []IInv
<1>1. Init => IInv
  BY InitIInv
<1>2. IInv /\ [Next]_vars => IInv'
  BY TypeStep, LockStep, ProgressStep, OwnerStep, MergeStep DEF IInv
<1>. QED
  BY <1>1, <1>2, PTL DEF Spec

\* Every variable of the engine has its type in every reachable state: the
\* trace index never passes the number of traces, compute() never indexes
\* beyond m_threads, at most one thread owns each mutex.
THEOREM TypeCorrect == Spec => []TypeOK
<1>1. IInv => TypeOK
  BY DEF IInv
<1>. QED
  BY <1>1, Invariance, PTL

\* next_trace and compute() run under their mutexes: no two workers are in
\* them at once (attack_engine.cpp:222 and :51).
MutualExclusion ==
    \A u, v \in Workers :
        /\ wpc[u] \in Guarded /\ wpc[v] \in Guarded => u = v
        /\ wpc[u] \in Merging => wpc[u] \in Guarded /\ rtLock = u

THEOREM Exclusive == Spec => []MutualExclusion
<1>1. IInv => MutualExclusion
  BY DEF IInv, LockInv, MutualExclusion, Guarded, Merging
<1>. QED
  BY <1>1, Invariance, PTL

\* No trace is counted twice, neither in a worker's instance nor in the merged
\* one, and no trace is taken by two workers (next_trace, clone, coalesce).
THEOREM EachTraceOnce == Spec => []CountedOnce
<1>1. IInv => CountedOnce
  BY DEF IInv, CountedOnce, OwnerInv, MergeInv, Instances
<1>. QED
  BY <1>1, Invariance, PTL

-----------------------------------------------------------------------------
(* Interval reports of an attack whose clone locks the instance it reads.   *)

\* Outside process() a worker's two groups of accumulators agree; inside, the
\* worker holds its instance's mutex.  A merge between its two halves holds
\* the mutex of the entry it copies, so that entry's groups agree too.
UntornInv ==
    /\ \A w \in Workers : wpc[w] # "processsums" => bins[w] = sums[w]
    /\ \A w \in Workers : wpc[w] = "processsums" =>
         instLock[w] = w /\ bins[w] = [sums[w] EXCEPT ![cur[w]] = @ + 1]
    /\ \A w \in Workers : wpc[w] = "copysums" =>
         instLock[copy] = w /\ bins[Reporter] = Copied(sums, copy)[Reporter]
    /\ (\A w \in Workers : wpc[w] # "copysums") => bins[Reporter] = sums[Reporter]
    /\ RecordsUntorn

LEMMA UntornStep ==
  ASSUME CloneLocks = "source", IInv, UntornInv, [Next]_vars
  PROVE  UntornInv'
<1>. USE NamesOK
<1>1. CASE UNCHANGED <<wpc, cur, data, copy, rows>>
  BY <1>1 DEF UntornInv, RecordsUntorn, data, Copied
<1>2. CASE LaunchWorker
  <2>1. /\ wpc' = [wpc EXCEPT ![listed + 1] = "call"]
        /\ UNCHANGED <<bins, sums, instLock, cur, copy, rows>>
    BY <1>2 DEF LaunchWorker, data, report, rthread
  <2>2. listed + 1 \in Workers /\ wpc[listed + 1] = "unborn"
    BY <1>2, ConstantsOK DEF LaunchWorker, IInv, TypeOK, ProgressInv, Workers
  <2>3. \A v \in Workers : v # listed + 1 => wpc'[v] = wpc[v]
    BY <2>1 DEF IInv, TypeOK
  <2>4. wpc'[listed + 1] = "call"
    BY <2>1, <2>2 DEF IInv, TypeOK
  <2>5. Copied(sums, copy)' = Copied(sums, copy)
    BY <2>1 DEF Copied
  <2>. QED
    BY <2>1, <2>2, <2>3, <2>4, <2>5 DEF UntornInv, RecordsUntorn
<1>3. CASE ReporterRecords
  <2>1. \A w \in Workers : wpc[w] # "copysums"
    BY <1>3 DEF ReporterRecords, IInv, LockInv, Merging
  <2>2. Merged.bins = Merged.sums
    BY <2>1 DEF Merged, UntornInv
  <2>3. /\ rows' = [rows EXCEPT ![rtIndex] = @ \cup {Merged}]
        /\ UNCHANGED <<wpc, cur, data, copy>>
    BY <1>3 DEF ReporterRecords, worker, report
  <2>4. RecordsUntorn'
    BY <2>2, <2>3 DEF RecordsUntorn, UntornInv, IInv, TypeOK
  <2>. QED
    BY <2>3, <2>4 DEF UntornInv, data, Copied
<1>4. ASSUME NEW w \in Workers, Worker(w) PROVE UntornInv'
  <2>. USE DEF At
  <2>1. CASE copy <= listed /\ CopyBins(w)
    <3>1. /\ wpc[w] = "merge" /\ copy \in Workers /\ instLock[copy] = Nobody
          /\ instLock' = [instLock EXCEPT ![copy] = w]
          /\ bins' = Copied(bins, copy)
          /\ wpc' = [wpc EXCEPT ![w] = "copysums"]
          /\ UNCHANGED <<sums, cur, copy, rows>>
      BY <2>1, ConstantsOK
         DEF CopyBins, CopyLock, report, rthread, IInv, TypeOK, Workers
    <3>2. wpc[copy] # "processsums"
      BY <3>1 DEF UntornInv
    <3>3. \A v \in Workers : wpc[v] # "copysums"
      BY <3>1 DEF IInv, LockInv, Merging
    <3>4. bins[copy] = sums[copy] /\ bins[Reporter] = sums[Reporter]
      BY <3>1, <3>2, <3>3 DEF UntornInv
    <3>5. bins'[Reporter] = Copied(sums, copy)[Reporter]
      BY <3>1, <3>4 DEF Copied, IInv, TypeOK
    <3>6. \A v \in Workers : bins'[v] = bins[v]
      BY <3>1 DEF Copied, IInv, TypeOK
    <3>7. \A v \in Workers : wpc'[v] = "copysums" => v = w
      BY <3>1, <3>3 DEF IInv, TypeOK
    <3>8. instLock'[copy] = w
      BY <3>1 DEF IInv, TypeOK
    <3>9. \A v \in Workers : wpc'[v] = "processsums" => v # copy /\ wpc[v] = wpc'[v]
      BY <3>1, <3>2 DEF IInv, TypeOK
    <3>10. \A v \in Workers : wpc'[v] = "processsums" =>
            instLock'[v] = v /\ bins'[v] = [sums'[v] EXCEPT ![cur'[v]] = @ + 1]
      BY <3>1, <3>6, <3>9 DEF UntornInv, IInv, TypeOK
    <3>11. \A v \in Workers : wpc'[v] # "processsums" => bins'[v] = sums'[v]
      BY <3>1, <3>6 DEF UntornInv, IInv, TypeOK
    <3>12. wpc'[w] = "copysums"
      BY <3>1 DEF IInv, TypeOK
    <3>13. Copied(sums, copy)' = Copied(sums, copy)
      BY <3>1 DEF Copied
    <3>. QED
      BY <3>1, <3>5, <3>7, <3>8, <3>10, <3>11, <3>12, <3>13
         DEF UntornInv, RecordsUntorn
  <2>2. CASE CopySums(w)
    <3>1. /\ wpc[w] = "copysums" /\ copy \in Workers
          /\ instLock' = [instLock EXCEPT ![copy] = Nobody]
          /\ sums' = Copied(sums, copy)
          /\ wpc' = [wpc EXCEPT ![w] = "merge"]
          /\ UNCHANGED <<bins, cur, rows>>
      BY <2>2, ConstantsOK
         DEF CopySums, CopyLock, rthread, IInv, TypeOK, ProgressInv, Workers
    <3>2. \A v \in Workers : wpc[v] = "copysums" => v = w
      BY <3>1 DEF IInv, LockInv, Merging
    <3>3. wpc[copy] # "processsums"
      BY <3>1 DEF UntornInv
    <3>4. bins'[Reporter] = sums'[Reporter]
      BY <3>1 DEF UntornInv
    <3>5. \A v \in Workers : sums'[v] = sums[v]
      BY <3>1 DEF Copied, IInv, TypeOK
    <3>6. \A v \in Workers : wpc'[v] # "copysums"
      BY <3>1, <3>2 DEF IInv, TypeOK
    <3>7. \A v \in Workers : wpc'[v] = "processsums" =>
            instLock'[v] = v /\ bins'[v] = [sums'[v] EXCEPT ![cur'[v]] = @ + 1]
      BY <3>1, <3>3, <3>5 DEF UntornInv, IInv, TypeOK
    <3>8. \A v \in Workers : wpc'[v] # "processsums" => bins'[v] = sums'[v]
      BY <3>1, <3>5 DEF UntornInv, IInv, TypeOK
    <3>. QED
      BY <3>1, <3>4, <3>6, <3>7, <3>8 DEF UntornInv, RecordsUntorn
  <2>3. CASE ProcessBins(w)
    <3>1. /\ wpc[w] = "process" /\ instLock[w] = Nobody
          /\ instLock' = [instLock EXCEPT ![w] = w]
          /\ wpc' = [wpc EXCEPT ![w] = "processsums"]
          /\ UNCHANGED <<sums, cur, copy, rows>>
      BY <2>3 DEF ProcessBins, report, rthread
    <3>2. /\ \A i \in Instances : i # w => bins'[i] = bins[i]
          /\ bins'[w] = [bins[w] EXCEPT ![cur[w]] = @ + 1]
      BY <2>3 DEF ProcessBins, IInv, TypeOK
    <3>3. \A v \in Workers : wpc[v] = "copysums" => copy \in Workers /\ copy # w
      BY <3>1, ConstantsOK DEF UntornInv, IInv, TypeOK, ProgressInv, Workers
    <3>4. \A v \in Workers : v # w => wpc'[v] = wpc[v] /\ instLock'[v] = instLock[v]
      BY <3>1 DEF IInv, TypeOK
    <3>5. wpc'[w] = "processsums" /\ instLock'[w] = w
      BY <3>1 DEF IInv, TypeOK
    <3>6. Copied(sums, copy)' = Copied(sums, copy)
      BY <3>1 DEF Copied
    <3>. QED
      BY <3>1, <3>2, <3>3, <3>4, <3>5, <3>6 DEF UntornInv, RecordsUntorn
  <2>4. CASE ProcessSums(w)
    <3>1. /\ wpc[w] = "processsums"
          /\ instLock' = [instLock EXCEPT ![w] = Nobody]
          /\ wpc' = [wpc EXCEPT ![w] = "call"]
          /\ UNCHANGED <<bins, cur, copy, rows>>
      BY <2>4 DEF ProcessSums, report, rthread
    <3>2. /\ \A i \in Instances : i # w => sums'[i] = sums[i]
          /\ sums'[w] = [sums[w] EXCEPT ![cur[w]] = @ + 1]
      BY <2>4 DEF ProcessSums, IInv, TypeOK
    <3>3. bins'[w] = sums'[w]
      BY <3>1, <3>2 DEF UntornInv
    <3>4. \A v \in Workers : wpc[v] = "copysums" => copy \in Workers /\ copy # w
      <4>1. SUFFICES ASSUME NEW v \in Workers, wpc[v] = "copysums"
                     PROVE  copy \in Workers /\ copy # w
        OBVIOUS
      <4>2. copy \in Workers
        BY <4>1, ConstantsOK DEF IInv, TypeOK, ProgressInv, Workers
      <4>3. instLock[copy] = v /\ instLock[w] = w /\ v # w
        BY <3>1, <4>1 DEF UntornInv
      <4>. QED
        BY <4>2, <4>3
    <3>5. \A v \in Workers : v # w => wpc'[v] = wpc[v] /\ instLock'[v] = instLock[v]
      BY <3>1 DEF IInv, TypeOK
    <3>6. wpc'[w] = "call"
      BY <3>1 DEF IInv, TypeOK
    <3>7. \A v \in Workers : wpc[v] = "copysums" =>
            Copied(sums, copy)'[Reporter] = Copied(sums, copy)[Reporter]
      <4>1. SUFFICES ASSUME copy \in Workers, copy # w
                     PROVE  Copied(sums', copy)[Reporter] = Copied(sums, copy)[Reporter]
        BY <3>1, <3>4 DEF Copied
      <4>2. sums'[copy] = sums[copy] /\ sums'[Reporter] = sums[Reporter]
        BY <3>2, <4>1
      <4>3. Reporter \in DOMAIN sums /\ Reporter \in DOMAIN sums'
        BY <2>4 DEF ProcessSums, IInv, TypeOK
      <4>. QED
        BY <4>2, <4>3 DEF Copied
    <3>8. \A v \in Workers : wpc'[v] = "copysums" =>
            instLock'[copy'] = v /\ bins'[Reporter] = Copied(sums, copy)'[Reporter]
      BY <3>1, <3>4, <3>5, <3>6, <3>7 DEF UntornInv, IInv, TypeOK
    <3>9. (\A v \in Workers : wpc'[v] # "copysums") => bins'[Reporter] = sums'[Reporter]
      BY <3>1, <3>2, <3>5 DEF UntornInv
    <3>. QED
      BY <3>1, <3>2, <3>3, <3>5, <3>6, <3>8, <3>9 DEF UntornInv, RecordsUntorn
  <2>5. ASSUME UNCHANGED <<bins, sums, instLock, copy, rows>>,
               wpc[w] \notin {"copysums", "processsums"},
               cur' = cur \/ \E t : cur' = [cur EXCEPT ![w] = t],
               \E l : /\ l \notin {"copysums", "processsums"}
                      /\ wpc' = [wpc EXCEPT ![w] = l]
        PROVE  UntornInv'
    <3>1. \A v \in Workers : v # w => wpc'[v] = wpc[v] /\ cur'[v] = cur[v]
      BY <2>5 DEF IInv, TypeOK
    <3>2. wpc'[w] \notin {"copysums", "processsums"}
      BY <2>5 DEF IInv, TypeOK
    <3>3. Copied(sums, copy)' = Copied(sums, copy)
      BY <2>5 DEF Copied
    <3>. QED
      BY <2>5, <3>1, <3>2, <3>3 DEF UntornInv, RecordsUntorn
  <2>6. CASE BeginCompute(w)
    <3>1. /\ wpc[w] = "compute" /\ engineLock = w
          /\ wpc' = [wpc EXCEPT ![w] = "merge"]
          /\ UNCHANGED <<bins, sums, instLock, cur, rows>>
      BY <2>6 DEF BeginCompute, data, rthread, IInv, LockInv, Guarded
    <3>2. \A v \in Workers : wpc[v] # "copysums" /\ wpc'[v] # "copysums"
      BY <3>1 DEF IInv, TypeOK, LockInv, Guarded
    <3>3. \A v \in Workers : wpc'[v] = "processsums" <=> wpc[v] = "processsums"
      BY <3>1 DEF IInv, TypeOK
    <3>. QED
      BY <3>1, <3>2, <3>3 DEF UntornInv, RecordsUntorn
  <2>7. CASE ReadThreadsDuringPush(w)
    BY <2>7, <1>1 DEF ReadThreadsDuringPush, worker, data, report, rthread
  <2>8. CASE copy <= listed /\ CopyNothing(w)
    BY <2>8 DEF CopyNothing
  <2>9. CASE \/ EnterNextTrace(w) \/ EndCompute(w) \/ NoMoreTraces(w)
             \/ ReadFails(w) \/ ReadTrace(w) \/ CountTrace(w)
             \/ RejectTrace(w) \/ AcceptTrace(w)
    BY <2>5, <2>9
       DEF EnterNextTrace, EndCompute, NoMoreTraces, ReadFails, Exits,
           ReadTrace, CountTrace, RejectTrace, AcceptTrace, data, report, rthread
  <2>. QED
    BY <1>4, <2>1, <2>2, <2>3, <2>4, <2>6, <2>7, <2>8, <2>9 DEF Worker, CopyEntry
<1>5. Next => \/ LaunchWorker \/ ReporterRecords
              \/ UNCHANGED <<wpc, cur, data, copy, rows>>
              \/ \E w \in Workers : Worker(w)
  BY DEF Next, Main, ReportThread, SetupFails, PushThread, JoinAll, Terminate,
         JoinReporter, WriteResults, ReporterWaits, ReporterStops,
         ReporterRecordsNothing, SpuriousWakeup, worker, report, rthread
<1>. QED
  BY <1>1, <1>2, <1>3, <1>4, <1>5 DEF vars, worker, report, rthread

\* An attack whose clone and coalesce lock the instance they read (cpa) never
\* records a trace that is half processed (attack_cpa.cpp:133, 180, 204).
THEOREM NoTornRecords == CloneLocks = "source" => (Spec => []RecordsUntorn)
<1>. SUFFICES ASSUME CloneLocks = "source" PROVE Spec => []RecordsUntorn
  OBVIOUS
<1>1. Init => UntornInv
  BY NamesOK DEF Init, UntornInv, RecordsUntorn
<1>2. IInv /\ UntornInv /\ [Next]_vars => UntornInv'
  BY UntornStep
<1>3. UntornInv => RecordsUntorn
  BY DEF UntornInv
<1>. QED
  BY <1>1, <1>2, <1>3, Invariance, PTL DEF Spec

-----------------------------------------------------------------------------
(* The interval table's bounds. *)

\* Dividing by the interval keeps the order of trace numbers.
LEMMA DivMonotone ==
  ASSUME NEW a \in Nat, NEW b \in Nat, NEW n \in Nat \ {0}, a <= b
  PROVE  a \div n <= b \div n
  BY Z3

\* A finished compute() always names a row that setup() allocated
\* (attack_engine.cpp:134 and :226).
THEOREM RowsExist == Spec => []RecordInBounds
<1>1. Init => RecordInBounds
  BY DEF Init, RecordInBounds
<1>2. IInv /\ RecordInBounds /\ [Next]_vars => RecordInBounds'
  <2>. SUFFICES ASSUME IInv, RecordInBounds, [Next]_vars PROVE RecordInBounds'
    OBVIOUS
  <2>1. CASE UNCHANGED <<covers, rtIndex>>
    BY <2>1 DEF RecordInBounds
  <2>2. ASSUME NEW w \in Workers, EndCompute(w) PROVE RecordInBounds'
    <3>1. index > 0 /\ index \in 0 .. NumTraces
      BY <2>2 DEF EndCompute, At, IInv, TypeOK, ProgressInv
    <3>2. index - 1 \in Nat /\ NumTraces - 1 \in Nat /\ index - 1 <= NumTraces - 1
      BY <3>1, OptionsAssumption
    <3>3. (index - 1) \div Interval <= (NumTraces - 1) \div Interval
      BY <3>2, DivMonotone, ConstantsOK
    <3>4. (index - 1) \div Interval \in Nat /\ (NumTraces - 1) \div Interval \in Nat
      BY <3>2, ConstantsOK
    <3>5. rtIndex' = (index - 1) \div Interval
      BY <2>2 DEF EndCompute
    <3>. QED
      BY <3>3, <3>4, <3>5 DEF RecordInBounds, Reports
  <2>3. Next => UNCHANGED <<covers, rtIndex>> \/ \E w \in Workers : EndCompute(w)
    BY DEF Next, Main, ReportThread, LaunchWorker, SetupFails, PushThread,
           JoinAll, Terminate, JoinReporter, WriteResults, ReporterWaits,
           ReporterStops, ReporterRecords, ReporterRecordsNothing,
           SpuriousWakeup, Worker, CopyEntry, EnterNextTrace, BeginCompute, CopyBins,
           CopySums, CopyNothing, ReadThreadsDuringPush, NoMoreTraces,
           ReadFails, Exits, ReadTrace, CountTrace, RejectTrace, AcceptTrace,
           ProcessBins, ProcessSums, report
  <2>. QED
    BY <2>1, <2>2, <2>3 DEF vars, report
<1>. QED
  BY <1>1, <1>2, Invariance, PTL DEF Spec

-----------------------------------------------------------------------------
(* The final results. *)

\* The last finished compute() merged all the workers after the last trace had
\* been read.
LastReport == covers = NThreads /\ rtIndex = Reports - 1

InReport(t) == bins[Reporter][t] # 0 /\ sums[Reporter][t] # 0

\* A merged worker's traces are in the report instance unless the worker has
\* since finished another one and is on its way to the engine's mutex; past
\* the last trace it then runs compute() itself before it exits.
FinalInv ==
    /\ \A w \in Workers, t \in Traces : sums[w][t] # 0 => bins[w][t] # 0
    /\ \A w \in Workers : wpc[w] = "processsums" => bins[w][cur[w]] # 0
    /\ (\E v \in Workers : wpc[v] \in Merging \cup {"compute"}) =>
         index % Interval = 0 \/ index = NumTraces
    /\ (\E v \in Workers : wpc[v] \in Merging) =>
         \A u \in Workers, t \in Traces :
            u < copy /\ sums[u][t] # 0 /\ wpc[u] # "call" => InReport(t)
    /\ (\E v \in Workers : wpc[v] = "copysums") =>
         \A t \in Traces :
            sums[copy][t] # 0 /\ wpc[copy] # "call" => bins[Reporter][t] # 0
    /\ LastReport /\ (\A v \in Workers : wpc[v] \notin Merging) =>
         /\ index = NumTraces
         /\ \A u \in Workers, t \in Traces :
              sums[u][t] # 0 /\ wpc[u] \notin {"call", "compute"} => InReport(t)
    /\ mpc \in {"terminate", "joinreporter", "report", "done"} =>
         \A w \in Workers : wpc[w] = "exited"

\* The last row is only ever named by a compute() past the last trace.
LEMMA LastIndex ==
  ASSUME NEW i \in 1 .. NumTraces,
         i % Interval = 0 \/ i = NumTraces,
         (i - 1) \div Interval = Reports - 1
  PROVE  i = NumTraces
<1>. DEFINE q == (i - 1) \div Interval
<1>1. /\ Interval \in Nat \ {0} /\ NumTraces \in Nat \ {0}
      /\ i - 1 \in Nat /\ NumTraces - 1 \in Nat
  BY ConstantsOK, OptionsAssumption
<1>2. (NumTraces - 1) \div Interval \in Nat
  BY <1>1
<1>3. (i - 1) \div Interval = (NumTraces - 1) \div Interval
  BY <1>2 DEF Reports
<1>4. CASE i % Interval = 0 /\ i < NumTraces
  <2>1. i \div Interval <= (NumTraces - 1) \div Interval
    BY <1>1, <1>4, DivMonotone
  <2>2. (i - 1) \div Interval < i \div Interval
    BY ONLY <1>1, <1>4, i \in Nat, Z3
  <2>3. i \div Interval \in Nat /\ (i - 1) \div Interval \in Nat
    BY <1>1
  <2>. QED
    BY <1>2, <1>3, <2>1, <2>2, <2>3
<1>. QED
  BY <1>1, <1>4

\* The report instance keeps what it has, but for entry 1, and gains the
\* traces of the entry merged.
LEMMA CopiedKeeps ==
  ASSUME NEW STATE tally, tally \in [Instances -> Tally],
         NEW STATE p, p \in Workers
  PROVE  /\ \A u \in Workers : Copied(tally, p)[u] = tally[u]
         /\ \A t \in Traces : tally[p][t] # 0 => Copied(tally, p)[Reporter][t] # 0
         /\ p # 1 => \A t \in Traces :
              tally[Reporter][t] # 0 => Copied(tally, p)[Reporter][t] # 0
<1>. USE NamesOK
<1>1. \A u \in Workers : Copied(tally, p)[u] = tally[u]
  BY DEF Copied
<1>2. \A i \in Instances, t \in Traces : tally[i][t] \in Nat
  BY DEF Tally
<1>3. Copied(tally, p)[Reporter] =
        IF p = 1 THEN tally[p] ELSE [t \in Traces |-> tally[Reporter][t] + tally[p][t]]
  BY DEF Copied
<1>. QED
  BY <1>1, <1>2, <1>3

\* A step that touches no instance, starts or continues no merge and moves no
\* merged worker to a place where its traces must already be reported.
LEMMA QuietFinal ==
  ASSUME IInv, FinalInv,
         UNCHANGED <<bins, sums, copy, covers, rtIndex, index>>,
         \A v \in Workers : wpc'[v] \in Merging <=> wpc[v] \in Merging,
         \A v \in Workers : wpc'[v] = "copysums" => wpc[v] = "copysums",
         \A v \in Workers : wpc[v] = "call" =>
            \/ wpc'[v] = "call"
            \/ wpc'[v] = "compute" /\ \A u \in Workers : wpc[u] \notin Merging
            \/ ~LastReport /\ \A u \in Workers : wpc[u] \notin Merging,
         \A v \in Workers : wpc[v] = "compute" => wpc'[v] = "compute",
         \A v \in Workers : wpc'[v] = "compute" => wpc[v] = "compute" \/ ReportDue,
         \A v \in Workers :
            wpc'[v] = "processsums" => wpc[v] = "processsums" /\ cur'[v] = cur[v],
         mpc' \in {"terminate", "joinreporter", "report", "done"} =>
            \A w \in Workers : wpc'[w] = "exited"
  PROVE  FinalInv'
<1>1. /\ \A v \in Workers : wpc'[v] \in Merging <=> wpc[v] \in Merging
      /\ LastReport' = LastReport
      /\ \A t : InReport(t)' = InReport(t)
  BY DEF LastReport, InReport
<1>2. (\E v \in Workers : wpc'[v] \in Merging) =>
        \A u \in Workers, t \in Traces :
          u < copy' /\ sums'[u][t] # 0 /\ wpc'[u] # "call" => InReport(t)'
  BY <1>1 DEF FinalInv
<1>3. (\E v \in Workers : wpc'[v] = "copysums") =>
        \A t \in Traces :
          sums'[copy'][t] # 0 /\ wpc'[copy'] # "call" => bins'[Reporter][t] # 0
  <2>1. SUFFICES ASSUME NEW v \in Workers, wpc'[v] = "copysums",
                        NEW t \in Traces, sums[copy][t] # 0, wpc'[copy] # "call"
                 PROVE  bins[Reporter][t] # 0
    OBVIOUS
  <2>2. wpc[v] = "copysums" /\ copy \in Workers
    BY <2>1, ConstantsOK DEF IInv, TypeOK, ProgressInv, Workers
  <2>3. wpc[copy] # "call"
    BY <2>1, <2>2 DEF Merging
  <2>. QED
    BY <2>1, <2>2, <2>3 DEF FinalInv
<1>4. LastReport' /\ (\A v \in Workers : wpc'[v] \notin Merging) =>
        /\ index' = NumTraces
        /\ \A u \in Workers, t \in Traces :
             sums'[u][t] # 0 /\ wpc'[u] \notin {"call", "compute"} => InReport(t)'
  BY <1>1 DEF FinalInv
<1>5. (\E v \in Workers : wpc'[v] \in Merging \cup {"compute"}) =>
        index % Interval = 0 \/ index = NumTraces
  <2>1. SUFFICES ASSUME NEW v \in Workers, wpc'[v] \in Merging \cup {"compute"}
                 PROVE  index % Interval = 0 \/ index = NumTraces
    OBVIOUS
  <2>2. wpc[v] \in Merging \cup {"compute"} \/ ReportDue
    BY <1>1, <2>1
  <2>. QED
    BY <2>2 DEF FinalInv, ReportDue
<1>6. \A w \in Workers : wpc'[w] = "processsums" => bins'[w][cur'[w]] # 0
  BY DEF FinalInv
<1>7. \A w \in Workers, t \in Traces : sums'[w][t] # 0 => bins'[w][t] # 0
  BY DEF FinalInv
<1>8. /\ index' = index
      /\ mpc' \in {"terminate", "joinreporter", "report", "done"} =>
           \A w \in Workers : wpc'[w] = "exited"
  OBVIOUS
<1>. QED
  BY <1>1, <1>2, <1>3, <1>4, <1>5, <1>6, <1>7, <1>8 DEF FinalInv

LEMMA FinalStep ==
  ASSUME CloneLocks # "nothing", IInv, FinalInv, [Next]_vars
  PROVE  FinalInv'
<1>. USE NamesOK DEF Merging
<1>1. CASE UNCHANGED vars
  BY <1>1 DEF vars, data, report, worker, reader, mthread, FinalInv, LastReport,
              InReport
<1>2. CASE LaunchWorker
  <2>1. /\ wpc' = [wpc EXCEPT ![listed + 1] = "call"] /\ mpc' = "push"
        /\ UNCHANGED <<cur, bins, sums, copy, covers, rtIndex, index>>
    BY <1>2 DEF LaunchWorker, data, report, reader, worker
  <2>2. listed + 1 \in Workers /\ wpc[listed + 1] = "unborn"
    BY <1>2, ConstantsOK DEF LaunchWorker, IInv, TypeOK, ProgressInv, Workers
  <2>3. /\ \A v \in Workers : v # listed + 1 => wpc'[v] = wpc[v]
        /\ wpc'[listed + 1] = "call"
    BY <2>1, <2>2 DEF IInv, TypeOK
  <2>. QED
    BY <2>1, <2>2, <2>3, QuietFinal
<1>3. CASE Main /\ ~LaunchWorker
  <2>1. UNCHANGED <<wpc, cur, bins, sums, copy, covers, rtIndex, index>>
    BY <1>3 DEF Main, SetupFails, PushThread, JoinAll, Terminate, JoinReporter,
                WriteResults, worker, data, report, reader, worker
  <2>2. mpc' \in {"terminate", "joinreporter", "report", "done"} =>
          \A w \in Workers : wpc[w] = "exited"
    BY <1>3 DEF Main, SetupFails, PushThread, LastThread, JoinAll, Terminate,
                JoinReporter, WriteResults, FinalInv
  <2>. QED
    BY <2>1, <2>2, QuietFinal
<1>4. CASE ReportThread \/ SpuriousWakeup
  <2>1. /\ UNCHANGED <<wpc, cur, bins, sums, copy, covers, rtIndex, index>>
        /\ mpc' \in {mpc, "crashed"}
    BY <1>4 DEF ReportThread, SpuriousWakeup, ReporterWaits, ReporterStops,
                ReporterRecords, ReporterRecordsNothing, worker, data, report,
                reader, mthread
  <2>. QED
    BY <2>1, QuietFinal DEF FinalInv
<1>5. ASSUME NEW w \in Workers, Worker(w) PROVE FinalInv'
  <2>. USE DEF At
  <2>a. mpc' = mpc \/ mpc' = "crashed"
    BY <1>5 DEF Worker, CopyEntry, EnterNextTrace, BeginCompute, CopyBins, CopySums,
                CopyNothing, ReadThreadsDuringPush, EndCompute, NoMoreTraces,
                ReadFails, ReadTrace, CountTrace, RejectTrace, AcceptTrace,
                ProcessBins, ProcessSums, mthread
  <2>b. mpc' \notin {"terminate", "joinreporter", "report", "done"}
    <3>1. wpc[w] # "exited"
      BY <1>5 DEF Worker, CopyEntry, EnterNextTrace, BeginCompute, CopyBins, CopySums,
                  CopyNothing, ReadThreadsDuringPush, EndCompute, NoMoreTraces,
                  ReadFails, ReadTrace, CountTrace, RejectTrace, AcceptTrace,
                  ProcessBins, ProcessSums
    <3>. QED
      BY <2>a, <3>1 DEF FinalInv
  <2>c. engineLock = w => \A v \in Workers : v # w => wpc[v] \notin Merging
    BY DEF IInv, LockInv, Guarded
  <2>d. rtLock = w => \A v \in Workers : v # w => wpc[v] \notin Merging
    BY DEF IInv, LockInv
  <2>1. CASE EnterNextTrace(w)
    <3>1. /\ wpc[w] = "call" /\ engineLock = Nobody
          /\ wpc' = [wpc EXCEPT ![w] = IF ReportDue THEN "compute" ELSE "read"]
          /\ UNCHANGED <<cur, bins, sums, copy, covers, rtIndex, index>>
      BY <2>1 DEF EnterNextTrace, data, report, reader, worker
    <3>2. \A v \in Workers : wpc[v] \notin Merging
      BY <3>1 DEF IInv, LockInv, Guarded
    <3>3. LastReport => ReportDue
      BY <3>2, OptionsAssumption DEF FinalInv, ReportDue
    <3>4. /\ \A v \in Workers : v # w => wpc'[v] = wpc[v]
          /\ wpc'[w] = "compute" \/ (wpc'[w] = "read" /\ ~LastReport)
      BY <3>1, <3>3 DEF IInv, TypeOK
    <3>. QED
      BY <2>b, <3>1, <3>2, <3>4, QuietFinal
  <2>2. CASE BeginCompute(w)
    <3>1. /\ wpc' = [wpc EXCEPT ![w] = "merge"] /\ copy' = 1
          /\ UNCHANGED <<cur, bins, sums, index>>
          /\ engineLock = w /\ wpc[w] = "compute"
      BY <2>2 DEF BeginCompute, data, reader, worker, IInv, LockInv, Guarded
    <3>2. /\ wpc'[w] = "merge"
          /\ \A v \in Workers :
               /\ wpc'[v] # "copysums"
               /\ wpc'[v] = "processsums" => wpc[v] = "processsums"
               /\ wpc'[v] = "compute" => wpc[v] = "compute"
      BY <2>c, <3>1 DEF IInv, TypeOK
    <3>3. \A u \in Workers : ~(u < copy')
      BY <3>1
    <3>. QED
      BY <2>b, <3>1, <3>2, <3>3 DEF FinalInv
  <2>5. CASE copy <= listed /\ CopyNothing(w)
    BY <2>5 DEF CopyNothing
  <2>6. CASE ReadThreadsDuringPush(w)
    BY <2>6, <2>b, QuietFinal DEF ReadThreadsDuringPush, worker, data, report, reader, worker
  <2>8. CASE NoMoreTraces(w) \/ ReadFails(w) \/ RejectTrace(w) \/ AcceptTrace(w)
    <3>1. /\ wpc[w] \in {"read", "check"}
          /\ \E l \in {"exited", "process"} : wpc' = [wpc EXCEPT ![w] = l]
          /\ UNCHANGED <<cur, bins, sums, copy, covers, rtIndex, index>>
      BY <2>8 DEF NoMoreTraces, ReadFails, RejectTrace, AcceptTrace, Exits,
                  data, report, reader, worker
    <3>2. /\ \A v \in Workers : v # w => wpc'[v] = wpc[v]
          /\ wpc'[w] \in {"exited", "process"}
      BY <3>1 DEF IInv, TypeOK
    <3>. QED
      BY <2>b, <3>1, <3>2, QuietFinal
  <2>9. CASE ReadTrace(w)
    <3>1. /\ wpc[w] = "read" /\ wpc' = [wpc EXCEPT ![w] = "count"]
          /\ UNCHANGED <<bins, sums, copy, covers, rtIndex, index>>
          /\ cur' = [cur EXCEPT ![w] = next]
      BY <2>9 DEF ReadTrace, data, report
    <3>2. /\ \A v \in Workers : v # w => wpc'[v] = wpc[v]
          /\ \A v \in Workers : v # w => cur'[v] = cur[v]
          /\ wpc'[w] = "count"
      BY <3>1 DEF IInv, TypeOK
    <3>. QED
      BY <2>b, <3>1, <3>2, QuietFinal
  <2>10. CASE CountTrace(w)
    <3>1. /\ wpc[w] = "count" /\ wpc' = [wpc EXCEPT ![w] = "check"]
          /\ UNCHANGED <<cur, bins, sums, copy, covers, rtIndex>>
      BY <2>10 DEF CountTrace, data, report
    <3>2. index < NumTraces /\ engineLock = w
      BY <3>1 DEF IInv, ProgressInv, LockInv, Guarded
    <3>3. \A v \in Workers : wpc[v] \notin Merging \cup {"compute"}
      BY <3>1, <3>2 DEF IInv, LockInv, Guarded
    <3>4. ~LastReport /\ ~LastReport'
      BY <3>1, <3>2, <3>3, OptionsAssumption DEF FinalInv, LastReport, IInv, TypeOK
    <3>5. \A v \in Workers :
             /\ wpc'[v] # "merge" /\ wpc'[v] # "copysums" /\ wpc'[v] # "compute"
             /\ wpc'[v] = "processsums" => wpc[v] = "processsums"
      BY <3>1, <3>3 DEF IInv, TypeOK
    <3>6. \A v \in Workers : wpc'[v] = "processsums" => bins'[v][cur'[v]] # 0
      BY <3>1, <3>5 DEF FinalInv
    <3>7. \A v \in Workers, t \in Traces : sums'[v][t] # 0 => bins'[v][t] # 0
      BY <3>1 DEF FinalInv
    <3>. QED
      BY <2>b, <3>4, <3>5, <3>6, <3>7 DEF FinalInv
  <2>11. CASE ProcessBins(w)
    <3>1. /\ wpc[w] = "process" /\ cur[w] \in Traces
          /\ wpc' = [wpc EXCEPT ![w] = "processsums"]
          /\ UNCHANGED <<cur, sums, copy, covers, rtIndex, index>>
          /\ bins' = [bins EXCEPT ![w] = [bins[w] EXCEPT ![cur[w]] = @ + 1]]
      BY <2>11 DEF ProcessBins, report, reader, IInv, ProgressInv
    <3>2. /\ bins'[Reporter] = bins[Reporter]
          /\ \A v \in Workers : v # w => wpc'[v] = wpc[v]
          /\ wpc'[w] = "processsums"
          /\ bins'[w][cur[w]] # 0
          /\ \A v \in Workers : v # w => bins'[v] = bins[v]
      BY <3>1 DEF IInv, TypeOK, Tally
    <3>3. \A u \in Workers, t \in Traces : bins[u][t] # 0 => bins'[u][t] # 0
      BY <3>1 DEF IInv, TypeOK, Tally
    <3>4. \A t \in Traces : InReport(t)' = InReport(t)
      BY <3>1, <3>2 DEF InReport
    <3>5. \A v \in Workers :
             /\ wpc'[v] \in Merging <=> wpc[v] \in Merging
             /\ wpc'[v] = "copysums" <=> wpc[v] = "copysums"
             /\ wpc'[v] = "call" <=> wpc[v] = "call"
             /\ wpc'[v] = "compute" <=> wpc[v] = "compute"
      BY <3>1, <3>2
    <3>6. LastReport' = LastReport
      BY <3>1 DEF LastReport
    <3>7. (\E v \in Workers : wpc'[v] = "copysums") =>
            \A t \in Traces :
              sums'[copy'][t] # 0 /\ wpc'[copy'] # "call" => bins'[Reporter][t] # 0
      <4>1. SUFFICES ASSUME NEW v \in Workers, wpc[v] = "copysums"
                     PROVE  \A t \in Traces :
                              sums[copy][t] # 0 /\ wpc'[copy] # "call"
                                 => bins[Reporter][t] # 0
        BY <3>1, <3>2, <3>5
      <4>2. copy \in Workers
        BY <4>1, ConstantsOK DEF IInv, TypeOK, ProgressInv, Workers
      <4>. QED
        BY <3>5, <4>1, <4>2 DEF FinalInv
    <3>. QED
      BY <2>b, <3>1, <3>2, <3>3, <3>4, <3>5, <3>6, <3>7 DEF FinalInv
  <2>12. CASE ProcessSums(w)
    <3>1. /\ wpc[w] = "processsums" /\ cur[w] \in Traces
          /\ wpc' = [wpc EXCEPT ![w] = "call"]
          /\ UNCHANGED <<cur, bins, copy, covers, rtIndex, index>>
          /\ sums' = [sums EXCEPT ![w] = [sums[w] EXCEPT ![cur[w]] = @ + 1]]
      BY <2>12 DEF ProcessSums, report, reader, IInv, ProgressInv
    <3>2. /\ sums'[Reporter] = sums[Reporter]
          /\ \A v \in Workers : v # w => wpc'[v] = wpc[v] /\ sums'[v] = sums[v]
          /\ wpc'[w] = "call"
      BY <3>1 DEF IInv, TypeOK
    <3>3. \A t \in Traces : sums'[w][t] # 0 => bins[w][t] # 0
      <4>1. \A t \in Traces : t # cur[w] => sums'[w][t] = sums[w][t]
        BY <3>1 DEF IInv, TypeOK, Tally
      <4>2. bins[w][cur[w]] # 0
        BY <3>1 DEF FinalInv
      <4>. QED
        BY <4>1, <4>2 DEF FinalInv
    <3>4. \A v \in Workers :
             /\ wpc'[v] \in Merging <=> wpc[v] \in Merging
             /\ wpc'[v] = "copysums" <=> wpc[v] = "copysums"
             /\ wpc'[v] = "compute" <=> wpc[v] = "compute"
             /\ wpc'[v] \notin {"call", "compute"} => v # w /\ wpc[v] = wpc'[v]
             /\ wpc'[v] # "call" => v # w /\ wpc[v] = wpc'[v]
      BY <3>1, <3>2
    <3>5. (\E v \in Workers : wpc'[v] \in Merging) =>
            \A u \in Workers, t \in Traces :
              u < copy' /\ sums'[u][t] # 0 /\ wpc'[u] # "call" => InReport(t)'
      BY <3>1, <3>2, <3>4 DEF FinalInv, InReport
    <3>6. (\E v \in Workers : wpc'[v] = "copysums") =>
            \A t \in Traces :
              sums'[copy'][t] # 0 /\ wpc'[copy'] # "call" => bins'[Reporter][t] # 0
      <4>1. SUFFICES ASSUME NEW v \in Workers, wpc[v] = "copysums"
                     PROVE  \A t \in Traces :
                              sums'[copy][t] # 0 /\ wpc'[copy] # "call"
                                 => bins[Reporter][t] # 0
        BY <3>1, <3>4
      <4>2. copy \in Workers
        BY <4>1, ConstantsOK DEF IInv, TypeOK, ProgressInv, Workers
      <4>. QED
        BY <3>2, <3>4, <4>1, <4>2 DEF FinalInv
    <3>7. LastReport' /\ (\A v \in Workers : wpc'[v] \notin Merging) =>
            /\ index' = NumTraces
            /\ \A u \in Workers, t \in Traces :
                 sums'[u][t] # 0 /\ wpc'[u] \notin {"call", "compute"} => InReport(t)'
      BY <3>1, <3>2, <3>4 DEF FinalInv, InReport, LastReport
    <3>8. \A v \in Workers : wpc'[v] = "processsums" => bins'[v][cur'[v]] # 0
      BY <3>1, <3>2, <3>4 DEF FinalInv
    <3>9. \A v \in Workers, t \in Traces : sums'[v][t] # 0 => bins'[v][t] # 0
      BY <3>1, <3>2, <3>3 DEF FinalInv
    <3>. QED
      BY <2>b, <3>1, <3>4, <3>5, <3>6, <3>7, <3>8, <3>9 DEF FinalInv
  <2>3. CASE copy <= listed /\ CopyBins(w)
    <3>1. /\ copy \in Workers /\ wpc[w] = "merge"
          /\ bins' = Copied(bins, copy) /\ UNCHANGED <<cur, sums, copy, index>>
          /\ wpc' = [wpc EXCEPT ![w] = "copysums"]
      BY <2>3, ConstantsOK DEF CopyBins, report, reader, IInv, TypeOK, Workers
    <3>2. /\ \A u \in Workers : bins'[u] = bins[u]
          /\ \A t \in Traces : bins[copy][t] # 0 => bins'[Reporter][t] # 0
          /\ copy # 1 => \A t \in Traces :
                bins[Reporter][t] # 0 => bins'[Reporter][t] # 0
      <4>1. bins \in [Instances -> Tally]
        BY DEF IInv, TypeOK
      <4>. QED
        BY <3>1, <4>1, CopiedKeeps
    <3>3. /\ wpc'[w] = "copysums"
          /\ \A v \in Workers :
               /\ wpc'[v] = "call" <=> wpc[v] = "call"
               /\ wpc'[v] = "processsums" <=> wpc[v] = "processsums"
               /\ wpc'[v] = "compute" => wpc[v] = "compute"
      BY <3>1 DEF IInv, TypeOK
    <3>4. \A u \in Workers, t \in Traces :
            u < copy' /\ sums'[u][t] # 0 /\ wpc'[u] # "call" => InReport(t)'
      <4>1. SUFFICES ASSUME NEW u \in Workers, NEW t \in Traces, u < copy,
                            sums[u][t] # 0, wpc[u] # "call"
                     PROVE  bins'[Reporter][t] # 0 /\ sums[Reporter][t] # 0
        BY <3>1, <3>3 DEF InReport
      <4>2. InReport(t)
        BY <3>1, <4>1 DEF FinalInv
      <4>3. copy # 1
        BY <4>1
      <4>. QED
        BY <3>2, <4>2, <4>3 DEF InReport
    <3>5. \A t \in Traces : sums'[copy'][t] # 0 => bins'[Reporter][t] # 0
      BY <3>1, <3>2 DEF FinalInv
    <3>. QED
      BY <2>b, <3>1, <3>2, <3>3, <3>4, <3>5 DEF FinalInv
  <2>4. CASE CopySums(w)
    <3>1. /\ copy \in Workers /\ wpc[w] = "copysums"
          /\ sums' = Copied(sums, copy) /\ UNCHANGED <<cur, bins, index>>
          /\ copy' = copy + 1
          /\ wpc' = [wpc EXCEPT ![w] = "merge"]
      BY <2>4, ConstantsOK DEF CopySums, reader, IInv, TypeOK, ProgressInv, Workers
    <3>2. /\ \A u \in Workers : sums'[u] = sums[u]
          /\ \A t \in Traces : sums[copy][t] # 0 => sums'[Reporter][t] # 0
          /\ copy # 1 => \A t \in Traces :
                sums[Reporter][t] # 0 => sums'[Reporter][t] # 0
      <4>1. sums \in [Instances -> Tally]
        BY DEF IInv, TypeOK
      <4>. QED
        BY <3>1, <4>1, CopiedKeeps
    <3>3. /\ wpc'[w] = "merge"
          /\ \A v \in Workers :
               /\ wpc'[v] = "call" <=> wpc[v] = "call"
               /\ wpc'[v] = "processsums" <=> wpc[v] = "processsums"
               /\ wpc'[v] = "compute" => wpc[v] = "compute"
               /\ wpc'[v] # "copysums"
      BY <2>d, <3>1 DEF IInv, TypeOK, LockInv
    <3>4. \A u \in Workers, t \in Traces :
            u < copy' /\ sums'[u][t] # 0 /\ wpc'[u] # "call" => InReport(t)'
      <4>1. SUFFICES ASSUME NEW u \in Workers, NEW t \in Traces, u < copy + 1,
                            sums[u][t] # 0, wpc[u] # "call"
                     PROVE  bins[Reporter][t] # 0 /\ sums'[Reporter][t] # 0
        BY <3>1, <3>2, <3>3 DEF InReport
      <4>2. CASE u < copy
        <5>1. InReport(t)
          BY <3>1, <4>1, <4>2 DEF FinalInv
        <5>2. copy # 1
          BY <4>2
        <5>. QED
          BY <3>2, <5>1, <5>2 DEF InReport
      <4>3. CASE u = copy
        BY <3>1, <3>2, <4>1, <4>3 DEF FinalInv
      <4>. QED
        BY <3>1, <4>1, <4>2, <4>3
    <3>. QED
      BY <2>b, <3>1, <3>2, <3>3, <3>4 DEF FinalInv
  <2>7. CASE EndCompute(w)
    <3>1. /\ wpc[w] = "merge" /\ wpc' = [wpc EXCEPT ![w] = "read"]
          /\ rtIndex' = (index - 1) \div Interval /\ covers' = copy - 1
          /\ UNCHANGED <<cur, bins, sums, copy, index>>
      BY <2>7 DEF EndCompute, data, reader
    <3>2. /\ wpc'[w] = "read"
          /\ \A v \in Workers :
               /\ wpc'[v] \notin Merging
               /\ wpc'[v] = "processsums" => wpc[v] = "processsums"
               /\ wpc'[v] = "compute" => wpc[v] = "compute"
               /\ wpc'[v] \notin {"call", "compute"} => wpc[v] # "call"
      BY <2>d, <3>1 DEF IInv, TypeOK, LockInv
    <3>3. ASSUME LastReport' PROVE index = NumTraces
      <4>1. index \in 1 .. NumTraces
        BY <3>1 DEF IInv, TypeOK, ProgressInv
      <4>2. index % Interval = 0 \/ index = NumTraces
        BY <3>1 DEF FinalInv, Merging
      <4>. QED
        BY <3>1, <3>3, <4>1, <4>2, LastIndex DEF LastReport
    <3>4. ASSUME LastReport', NEW u \in Workers, NEW t \in Traces,
                 sums[u][t] # 0, wpc'[u] \notin {"call", "compute"}
          PROVE  InReport(t)
      <4>1. u < copy
        BY <3>1, <3>4, ConstantsOK DEF LastReport, Workers, IInv, TypeOK
      <4>. QED
        BY <3>1, <3>2, <3>4, <4>1 DEF FinalInv
    <3>. QED
      BY <2>b, <3>1, <3>2, <3>3, <3>4 DEF FinalInv, InReport
  <2>. QED
    BY <1>5, <2>1, <2>2, <2>3, <2>4, <2>5, <2>6, <2>7, <2>8, <2>9, <2>10, <2>11,
       <2>12 DEF Worker, CopyEntry
<1>. QED
  BY <1>1, <1>2, <1>3, <1>4, <1>5 DEF Next

\* When the results are written after a compute() past the last trace that
\* merged every worker, they hold every trace that any worker accumulated
\* (attack_engine.cpp:182, 225-232).
THEOREM NothingLost == CloneLocks # "nothing" => (Spec => []FinalMerged)
<1>. SUFFICES ASSUME CloneLocks # "nothing" PROVE Spec => []FinalMerged
  OBVIOUS
<1>1. Init => FinalInv
  BY NamesOK, ConstantsOK
     DEF Init, FinalInv, LastReport, Empty, Merging
<1>2. IInv /\ FinalInv /\ [Next]_vars => FinalInv'
  BY FinalStep
<1>3. FinalInv => FinalMerged
  BY DEF FinalInv, FinalMerged, LastReport, InReport, Merging
<1>. QED
  BY <1>1, <1>2, <1>3, Invariance, PTL DEF Spec

-----------------------------------------------------------------------------
(* The interval rows. *)

\* The traces the reader has returned: index counts them, but for one that a
\* worker has read and not counted yet.
Received == {t \in Traces : t < next /\ kind[t] # "unreadable"}

CountInv ==
    /\ (\E w \in Workers : wpc[w] = "count") => Cardinality(Received) = index + 1
    /\ (\A w \in Workers : wpc[w] # "count") => Cardinality(Received) = index

\* Each of them was taken by a worker, which has accumulated it unless it is its
\* last one; a worker that asks for a trace has accumulated its last one.
Asking == {"unborn", "call", "compute", "merge", "copysums", "read"}
TakenInv ==
    /\ \A w \in Workers, t \in Traces : Took(w, t) => t \in Received
    /\ \A t \in Received : \E w \in Workers : cur[w] = t \/ sums[w][t] # 0
    /\ \A w \in Workers :
         wpc[w] \in Asking => cur[w] = NoTrace \/ sums[w][cur[w]] # 0

\* A worker that has been merged may since have finished its last trace, but the
\* one that merges has not.
MergedInv ==
    \A v \in Workers : wpc[v] \in Merging =>
        \A u \in Workers, t \in Traces :
            u < copy /\ sums[u][t] # 0 => sums[Reporter][t] # 0 \/ (t = cur[u] /\ u # v)

\* What row n may show.
Exact(b, s, from, n) ==
    /\ Held(b) <= Boundary(n) /\ Held(s) <= Boundary(n)
    /\ from = NThreads => Held(s) + NThreads - 1 >= Boundary(n)

\* Between two merges the report instance shows what the row it names may.
ReportInv ==
    covers > 0 /\ (\A v \in Workers : wpc[v] \notin Merging) =>
        Exact(bins[Reporter], sums[Reporter], covers, rtIndex)

RowsInv ==
    /\ CountInv /\ TakenInv /\ IntervalsExact
    /\ CloneLocks # "nothing" => FinalInv /\ MergedInv /\ ReportInv

\* A step that moves neither the reader nor a worker's traces.
LEMMA QuietTaken ==
  ASSUME CountInv, TakenInv, UNCHANGED <<next, index, kind, cur>>,
         \A u \in Workers : bins'[u] = bins[u] /\ sums'[u] = sums[u],
         \A u \in Workers : (wpc'[u] = "count") <=> (wpc[u] = "count"),
         \A u \in Workers : wpc'[u] \in Asking => wpc[u] \in Asking
  PROVE  CountInv' /\ TakenInv'
<1>1. Received' = Received
  BY DEF Received
<1>2. CountInv'
  BY <1>1 DEF CountInv
<1>3. \A u \in Workers, t \in Traces : Took(u, t)' = Took(u, t)
  BY DEF Took
<1>4. TakenInv'
  BY <1>1, <1>3 DEF TakenInv
<1>. QED
  BY <1>2, <1>4

LEMMA ReceivedFinite ==
  IInv => Received \in SUBSET Traces /\ IsFiniteSet(Received) /\ IsFiniteSet(Traces)
<1>1. IsFiniteSet(Traces) /\ Received \in SUBSET Traces
  BY FS_Interval, OptionsAssumption DEF Traces, Received
<1>. QED
  BY <1>1, FS_Subset

LEMMA TakenStep ==
  ASSUME IInv, CountInv, TakenInv, [Next]_vars
  PROVE  CountInv' /\ TakenInv'
<1>. USE NamesOK
<1>1. CASE UNCHANGED <<input, reader, worker, data>>
  BY <1>1, QuietTaken DEF input, reader, worker, data
<1>2. CASE LaunchWorker
  <2>1. /\ wpc' = [wpc EXCEPT ![listed + 1] = "call"]
        /\ UNCHANGED <<next, index, kind, cur, bins, sums>>
    BY <1>2 DEF LaunchWorker, input, reader, data
  <2>2. listed + 1 \in Workers /\ wpc[listed + 1] = "unborn"
    BY <1>2, ConstantsOK DEF LaunchWorker, IInv, TypeOK, ProgressInv, Workers
  <2>3. /\ \A u \in Workers : u # listed + 1 => wpc'[u] = wpc[u]
        /\ wpc'[listed + 1] = "call"
    BY <2>1, <2>2 DEF IInv, TypeOK
  <2>. QED
    BY <2>1, <2>2, <2>3, QuietTaken DEF Asking
<1>3. ASSUME NEW w \in Workers, Worker(w) PROVE CountInv' /\ TakenInv'
  <2>. USE DEF At
  <2>1. ASSUME UNCHANGED <<next, index, kind, cur>>,
               \A u \in Workers : bins'[u] = bins[u] /\ sums'[u] = sums[u],
               wpc[w] # "count",
               \E l : /\ l # "count" /\ (l \in Asking => wpc[w] \in Asking)
                      /\ wpc' = [wpc EXCEPT ![w] = l]
        PROVE  CountInv' /\ TakenInv'
    <3>1. /\ \A u \in Workers : u # w => wpc'[u] = wpc[u]
          /\ wpc'[w] # "count" /\ (wpc'[w] \in Asking => wpc[w] \in Asking)
      BY <2>1 DEF IInv, TypeOK
    <3>. QED
      BY <2>1, <3>1, QuietTaken
  <2>2. CASE EnterNextTrace(w) \/ BeginCompute(w) \/ EndCompute(w) \/ NoMoreTraces(w)
             \/ RejectTrace(w) \/ AcceptTrace(w)
    BY <2>1, <2>2
       DEF EnterNextTrace, BeginCompute, EndCompute, NoMoreTraces, RejectTrace, AcceptTrace,
           Exits, Asking, input, reader, data
  <2>3. CASE (copy <= listed /\ CopyNothing(w)) \/ ReadThreadsDuringPush(w)
    BY <2>3, <1>1 DEF CopyNothing, ReadThreadsDuringPush
  <2>4. CASE copy <= listed /\ CopyBins(w)
    <3>1. copy \in Workers
      BY <2>4, ConstantsOK DEF IInv, TypeOK, Workers
    <3>2. \A u \in Workers : bins'[u] = bins[u]
      <4>1. bins \in [Instances -> Tally] /\ bins' = Copied(bins, copy)
        BY <2>4 DEF CopyBins, IInv, TypeOK
      <4>. QED
        BY <3>1, <4>1, CopiedKeeps
    <3>. QED
      BY <2>1, <2>4, <3>2 DEF CopyBins, Asking, input, reader
  <2>5. CASE CopySums(w)
    <3>1. copy \in Workers
      BY <2>5, ConstantsOK DEF CopySums, IInv, TypeOK, ProgressInv, Workers
    <3>2. \A u \in Workers : sums'[u] = sums[u]
      <4>1. sums \in [Instances -> Tally] /\ sums' = Copied(sums, copy)
        BY <2>5 DEF CopySums, IInv, TypeOK
      <4>. QED
        BY <3>1, <4>1, CopiedKeeps
    <3>. QED
      BY <2>1, <2>5, <3>2 DEF CopySums, Asking, input, reader
  <2>6. CASE ReadFails(w)
    <3>1. /\ wpc[w] = "read" /\ wpc' = [wpc EXCEPT ![w] = "exited"]
          /\ UNCHANGED <<index, kind, cur, bins, sums>>
      BY <2>6 DEF ReadFails, Exits, input, data
    <3>2. Received' = Received
      <4>1. next' = next \/ (next' = next + 1 /\ kind[next] = "unreadable")
        BY <2>6 DEF ReadFails
      <4>2. next \in Nat /\ kind' = kind
        BY <3>1 DEF IInv, TypeOK
      <4>3. \A t \in Traces : t < next + 1 <=> t < next \/ t = next
        BY <4>2 DEF Traces
      <4>. QED
        BY <4>1, <4>2, <4>3 DEF Received
    <3>3. /\ \A u \in Workers : (wpc'[u] = "count") <=> (wpc[u] = "count")
          /\ \A u \in Workers : wpc'[u] \in Asking => wpc[u] \in Asking
      BY <3>1 DEF IInv, TypeOK, Asking
    <3>4. \A u \in Workers, t \in Traces : Took(u, t)' = Took(u, t)
      BY <3>1 DEF Took
    <3>. QED
      BY <3>1, <3>2, <3>3, <3>4 DEF CountInv, TakenInv
  <2>7. CASE ReadTrace(w)
    <3>1. /\ wpc[w] = "read" /\ wpc' = [wpc EXCEPT ![w] = "count"]
          /\ next \in Traces /\ kind[next] # "unreadable" /\ next' = next + 1
          /\ cur' = [cur EXCEPT ![w] = next]
          /\ UNCHANGED <<index, kind, bins, sums>>
      BY <2>7 DEF ReadTrace, Traces, IInv, TypeOK, input, data
    <3>2. /\ wpc'[w] = "count" /\ cur'[w] = next
          /\ \A u \in Workers : u # w => wpc'[u] = wpc[u] /\ cur'[u] = cur[u]
      BY <3>1 DEF IInv, TypeOK
    <3>3. \A u \in Workers : wpc[u] # "count"
      BY <3>1 DEF IInv, LockInv, Guarded
    <3>4. Received' = Received \cup {next} /\ next \notin Received
      BY <3>1 DEF Received, Traces
    <3>5. CountInv'
      <4>1. Cardinality(Received') = Cardinality(Received) + 1
        BY <3>4, ReceivedFinite, FS_AddElement
      <4>. QED
        BY <3>1, <3>2, <3>3, <4>1 DEF CountInv
    <3>6. \A u \in Workers, t \in Traces : Took(u, t)' => t \in Received'
      BY <3>1, <3>2, <3>4 DEF TakenInv, Took
    <3>7. \A t \in Received' : \E u \in Workers : cur'[u] = t \/ sums'[u][t] # 0
      <4>1. SUFFICES ASSUME NEW t \in Received
                     PROVE  \E u \in Workers : cur'[u] = t \/ sums[u][t] # 0
        BY <3>1, <3>2, <3>4
      <4>2. PICK u \in Workers : cur[u] = t \/ sums[u][t] # 0
        BY DEF TakenInv
      <4>3. t # NoTrace
        BY DEF Received, Traces, NoTrace
      <4>. QED
        BY <3>1, <3>2, <4>2, <4>3 DEF TakenInv, Asking
    <3>8. \A u \in Workers :
            wpc'[u] \in Asking => cur'[u] = NoTrace \/ sums'[u][cur'[u]] # 0
      BY <3>1, <3>2 DEF TakenInv, Asking
    <3>. QED
      BY <3>5, <3>6, <3>7, <3>8 DEF TakenInv
  <2>8. CASE CountTrace(w)
    <3>1. /\ wpc[w] = "count" /\ wpc' = [wpc EXCEPT ![w] = "check"]
          /\ index' = index + 1 /\ UNCHANGED <<next, kind, cur, bins, sums>>
      BY <2>8 DEF CountTrace, input, data
    <3>2. \A u \in Workers : wpc'[u] # "count"
      BY <3>1 DEF IInv, TypeOK, LockInv, Guarded
    <3>3. Received' = Received
      BY <3>1 DEF Received
    <3>4. \A u \in Workers : wpc'[u] \in Asking => wpc[u] \in Asking
      BY <3>1 DEF IInv, TypeOK, Asking
    <3>5. \A u \in Workers, t \in Traces : Took(u, t)' = Took(u, t)
      BY <3>1 DEF Took
    <3>. QED
      BY <3>1, <3>2, <3>3, <3>4, <3>5 DEF CountInv, TakenInv
  <2>9. CASE ProcessBins(w) \/ ProcessSums(w)
    <3>1. /\ wpc[w] \in {"process", "processsums"} /\ cur[w] \in Traces
          /\ UNCHANGED <<next, index, kind, cur>>
      BY <2>9 DEF ProcessBins, ProcessSums, input, reader, IInv, ProgressInv
    <3>2. /\ \A u \in Workers : u # w => bins'[u] = bins[u] /\ sums'[u] = sums[u]
          /\ \A t \in Traces : t # cur[w] => bins'[w][t] = bins[w][t] /\ sums'[w][t] = sums[w][t]
          /\ wpc[w] = "processsums" => sums'[w][cur[w]] # 0
          /\ sums[w][cur[w]] # 0 => sums'[w][cur[w]] # 0
      <4>1. /\ bins \in [Instances -> Tally] /\ sums \in [Instances -> Tally]
            /\ \A t \in Traces : bins[w][t] \in Nat /\ sums[w][t] \in Nat
        BY DEF IInv, TypeOK, Tally
      <4>2. CASE ProcessBins(w)
        BY <3>1, <4>1, <4>2 DEF ProcessBins, Tally
      <4>3. CASE ProcessSums(w)
        BY <3>1, <4>1, <4>3 DEF ProcessSums, Tally
      <4>. QED
        BY <2>9, <4>2, <4>3
    <3>3. /\ \A u \in Workers : (wpc'[u] = "count") <=> (wpc[u] = "count")
          /\ \A u \in Workers : u # w => wpc'[u] = wpc[u]
          /\ wpc'[w] \in Asking => wpc[w] = "processsums"
      BY <2>9 DEF ProcessBins, ProcessSums, IInv, TypeOK, Asking
    <3>4. Received' = Received
      BY <3>1 DEF Received
    <3>5. \A u \in Workers, t \in Traces : Took(u, t)' => Took(u, t)
      BY <3>1, <3>2 DEF Took
    <3>6. \A u \in Workers, t \in Traces : sums[u][t] # 0 => sums'[u][t] # 0
      BY <3>2
    <3>7. CountInv'
      BY <3>1, <3>3, <3>4 DEF CountInv
    <3>8. \A t \in Received' : \E u \in Workers : cur'[u] = t \/ sums'[u][t] # 0
      BY <3>1, <3>4, <3>6, ReceivedFinite DEF TakenInv
    <3>9. \A u \in Workers :
            wpc'[u] \in Asking => cur'[u] = NoTrace \/ sums'[u][cur'[u]] # 0
      BY <3>1, <3>2, <3>3 DEF TakenInv
    <3>. QED
      BY <3>4, <3>5, <3>7, <3>8, <3>9 DEF TakenInv
  <2>. QED
    BY <1>3, <2>2, <2>3, <2>4, <2>5, <2>6, <2>7, <2>8, <2>9 DEF Worker, CopyEntry
<1>4. Next => LaunchWorker \/ UNCHANGED <<input, reader, worker, data>>
                           \/ \E w \in Workers : Worker(w)
  BY DEF Next, Main, ReportThread, SetupFails, PushThread, JoinAll, Terminate,
         JoinReporter, WriteResults, ReporterWaits, ReporterStops,
         ReporterRecords, ReporterRecordsNothing, SpuriousWakeup
<1>. QED
  BY <1>1, <1>2, <1>3, <1>4 DEF vars

LEMMA MergedStep ==
  ASSUME CloneLocks # "nothing", IInv, MergedInv, [Next]_vars
  PROVE  MergedInv'
<1>. USE NamesOK
<1>1. CASE UNCHANGED <<worker, data, copy>>
  BY <1>1 DEF MergedInv, worker, data
<1>2. CASE LaunchWorker
  <2>1. /\ wpc' = [wpc EXCEPT ![listed + 1] = "call"]
        /\ UNCHANGED <<cur, sums, copy>>
    BY <1>2 DEF LaunchWorker, data, report
  <2>2. \A v \in Workers : wpc'[v] \in Merging => wpc[v] \in Merging
    BY <2>1 DEF IInv, TypeOK, Merging
  <2>. QED
    BY <2>1, <2>2 DEF MergedInv
<1>3. ASSUME NEW w \in Workers, Worker(w) PROVE MergedInv'
  <2>. USE DEF At
  <2>1. \A u, v \in Workers : wpc[u] \in Guarded /\ wpc[v] \in Guarded => u = v
    BY DEF IInv, LockInv
  <2>2. \A u, v \in Workers : wpc[u] \in Merging /\ wpc[v] \in Guarded => u = v
    BY <2>1 DEF Merging, Guarded
  <2>3. ASSUME UNCHANGED <<sums, copy>>,
               wpc[w] \in Guarded \/ cur' = cur,
               \E l : /\ l \in Merging => wpc[w] \in Merging
                      /\ wpc' = [wpc EXCEPT ![w] = l],
               wpc[w] \in Merging => cur' = cur,
               \A u \in Workers : u # w => cur'[u] = cur[u]
        PROVE  MergedInv'
    <3>1. \A v \in Workers : wpc'[v] \in Merging => wpc[v] \in Merging
      BY <2>3 DEF IInv, TypeOK
    <3>2. \A v \in Workers : wpc'[v] \in Merging => cur' = cur
      BY <2>2, <2>3, <3>1
    <3>. QED
      BY <2>3, <3>1, <3>2 DEF MergedInv
  <2>4. CASE EnterNextTrace(w) \/ EndCompute(w) \/ NoMoreTraces(w) \/ ReadFails(w)
             \/ CountTrace(w) \/ RejectTrace(w) \/ AcceptTrace(w) \/ ProcessBins(w)
    BY <2>3, <2>4
       DEF EnterNextTrace, EndCompute, NoMoreTraces, ReadFails, CountTrace, RejectTrace,
           AcceptTrace, ProcessBins, Exits, Merging, data, report
  <2>5. CASE ReadTrace(w)
    <3>1. /\ wpc[w] = "read" /\ wpc' = [wpc EXCEPT ![w] = "count"]
          /\ UNCHANGED <<sums, copy>> /\ cur' = [cur EXCEPT ![w] = next]
      BY <2>5 DEF ReadTrace, data, report
    <3>2. \A u \in Workers : u # w => cur'[u] = cur[u]
      BY <3>1 DEF IInv, TypeOK
    <3>. QED
      BY <2>3, <3>1, <3>2 DEF Merging, Guarded
  <2>6. CASE BeginCompute(w)
    <3>1. copy' = 1
      BY <2>6 DEF BeginCompute
    <3>2. \A u \in Workers : ~(u < copy')
      BY <3>1
    <3>. QED
      BY <3>2 DEF MergedInv
  <2>7. CASE copy <= listed /\ CopyBins(w)
    <3>1. /\ wpc[w] = "merge" /\ wpc' = [wpc EXCEPT ![w] = "copysums"]
          /\ UNCHANGED <<sums, copy, cur>>
      BY <2>7 DEF CopyBins, report
    <3>2. \A v \in Workers : wpc'[v] \in Merging => wpc[v] \in Merging
      BY <3>1 DEF IInv, TypeOK, Merging
    <3>. QED
      BY <3>1, <3>2 DEF MergedInv
  <2>8. CASE CopySums(w)
    <3>1. /\ copy \in Workers /\ wpc[w] = "copysums" /\ copy' = copy + 1
          /\ sums' = Copied(sums, copy) /\ cur' = cur
          /\ wpc' = [wpc EXCEPT ![w] = "merge"]
      BY <2>8, ConstantsOK DEF CopySums, IInv, TypeOK, ProgressInv, Workers
    <3>2. sums \in [Instances -> Tally]
      BY DEF IInv, TypeOK
    <3>3. /\ \A u \in Workers : sums'[u] = sums[u]
          /\ \A t \in Traces : sums[copy][t] # 0 => sums'[Reporter][t] # 0
          /\ copy # 1 => \A t \in Traces :
               sums[Reporter][t] # 0 => sums'[Reporter][t] # 0
      BY <3>1, <3>2, CopiedKeeps
    <3>4. \A v \in Workers : wpc'[v] \in Merging => wpc[v] \in Merging
      BY <3>1 DEF IInv, TypeOK, Merging
    <3>5. \A u \in Workers : u < copy' => u = copy \/ (u < copy /\ copy # 1)
      BY <3>1
    <3>. QED
      BY <3>1, <3>3, <3>4, <3>5 DEF MergedInv
  <2>9. CASE (copy <= listed /\ CopyNothing(w)) \/ ReadThreadsDuringPush(w)
    BY <2>9, <1>1 DEF CopyNothing, ReadThreadsDuringPush, report
  <2>10. CASE ProcessSums(w)
    <3>1. /\ wpc[w] = "processsums" /\ wpc' = [wpc EXCEPT ![w] = "call"]
          /\ UNCHANGED <<cur, copy>>
      BY <2>10 DEF ProcessSums, report
    <3>2. /\ sums'[Reporter] = sums[Reporter]
          /\ \A u \in Workers : u # w => sums'[u] = sums[u]
          /\ \A t \in Traces : t # cur[w] => sums'[w][t] = sums[w][t]
      BY <2>10 DEF ProcessSums, IInv, TypeOK, Tally
    <3>3. \A v \in Workers : wpc'[v] \in Merging => wpc[v] \in Merging /\ v # w
      BY <3>1 DEF IInv, TypeOK, Merging
    <3>. QED
      BY <3>1, <3>2, <3>3 DEF MergedInv
  <2>. QED
    BY <1>3, <2>4, <2>5, <2>6, <2>7, <2>8, <2>9, <2>10 DEF Worker, CopyEntry
<1>4. Next => LaunchWorker \/ UNCHANGED <<worker, data, copy>>
                           \/ \E w \in Workers : Worker(w)
  BY DEF Next, Main, ReportThread, SetupFails, PushThread, JoinAll, Terminate,
         JoinReporter, WriteResults, ReporterWaits, ReporterStops,
         ReporterRecords, ReporterRecordsNothing, SpuriousWakeup, report
<1>. QED
  BY <1>1, <1>2, <1>3, <1>4 DEF vars, report

\* The row that compute() names is that of the traces counted so far.
LEMMA BoundaryIsIndex ==
  ASSUME NEW i \in 1 .. NumTraces, i % Interval = 0 \/ i = NumTraces
  PROVE  Boundary((i - 1) \div Interval) = i
<1>. DEFINE q == (i - 1) \div Interval
<1>1. /\ Interval \in Nat \ {0} /\ NumTraces \in Nat \ {0} /\ i - 1 \in Nat
      /\ i \in Nat /\ i <= NumTraces
  BY ConstantsOK, OptionsAssumption
<1>2. q \in Nat /\ q * Interval <= i - 1 /\ i - 1 < (q + 1) * Interval
  BY ONLY <1>1, Z3
<1>3. i <= (q + 1) * Interval /\ (q + 1) * Interval \in Nat
  <2>. HIDE DEF q
  <2>. QED BY ONLY <1>1, <1>2, Z3
<1>4. CASE i = NumTraces
  BY <1>1, <1>3, <1>4 DEF Boundary
<1>5. CASE i % Interval = 0
  <2>1. PICK k \in Nat : i = k * Interval
    <3>1. i = ((i \div Interval) * Interval) + (i % Interval) /\ (i \div Interval) \in Nat
      BY ONLY <1>1, Z3
    <3>. QED
      BY <1>1, <1>5, <3>1
  <2>2. k = q + 1
    <3>. HIDE DEF q
    <3>. QED BY ONLY <1>1, <1>2, <2>1, Z3
  <2>. QED
    BY <1>1, <1>3, <2>1, <2>2 DEF Boundary
<1>. QED
  BY <1>4, <1>5

\* A compute() that ends has merged what its row may show: nothing that was not
\* received, and all that was received but the last trace of every other worker.
LEMMA MergeExact ==
  ASSUME CloneLocks # "nothing", IInv, CountInv, TakenInv, MergedInv, FinalInv,
         NEW w \in Workers, wpc[w] = "merge", copy > 1
  PROVE  Exact(bins[Reporter], sums[Reporter], copy - 1, (index - 1) \div Interval)
<1>. USE NamesOK
<1>. DEFINE B == {t \in Traces : bins[Reporter][t] # 0}
            H == {t \in Traces : sums[Reporter][t] # 0}
            Others == Workers \ {w}
            C == {cur[u] : u \in Others}
            R == Received
<1>1. IsFiniteSet(R) /\ IsFiniteSet(Traces) /\ Cardinality(R) = index
  <2>1. \A u \in Workers : wpc[u] # "count"
    BY DEF IInv, LockInv, Guarded
  <2>. QED
    BY <2>1, ReceivedFinite DEF CountInv
<1>2. Boundary((index - 1) \div Interval) = index /\ index \in Nat
  <2>1. index \in 1 .. NumTraces
    BY DEF IInv, TypeOK, ProgressInv
  <2>2. index % Interval = 0 \/ index = NumTraces
    BY DEF FinalInv, Merging
  <2>. QED
    BY <2>1, <2>2, BoundaryIsIndex
<1>3. B \in SUBSET R /\ H \in SUBSET R
  <2>1. Contributed(bins, copy - 1) /\ Contributed(sums, copy - 1)
    BY DEF IInv, MergeInv
  <2>2. \A u \in Workers, t \in Traces : Holds(u, t) => t \in R
    BY DEF TakenInv, Took, Holds
  <2>. QED
    BY <2>1, <2>2 DEF Contributed
<1>4. /\ IsFiniteSet(B) /\ IsFiniteSet(H) /\ Cardinality(B) <= index /\ Cardinality(H) <= index
      /\ Cardinality(H) \in Nat
  <2>. HIDE DEF B, H, R
  <2>. QED BY <1>1, <1>3, FS_Subset, FS_CardinalityType
<1>5. IsFiniteSet(C) /\ Cardinality(C) \in Nat /\ Cardinality(C) <= NThreads - 1
  <2>1. IsFiniteSet(Workers) /\ Cardinality(Workers) = NThreads
    BY FS_Interval, ConstantsOK DEF Workers
  <2>2. IsFiniteSet(Others) /\ Cardinality(Others) = NThreads - 1
    BY <2>1, FS_RemoveElement
  <2>. DEFINE last == [u \in Others |-> cur[u]]
  <2>3. last \in Surjection(Others, C)
    BY DEF Surjection
  <2>4. IsFiniteSet(C) /\ Cardinality(C) <= Cardinality(Others)
    <3>. HIDE DEF last, C, Others
    <3>. QED BY <2>2, <2>3, FS_Surjection
  <2>. HIDE DEF C, Others
  <2>. QED
    BY <2>2, <2>4, FS_CardinalityType
<1>6. ASSUME copy - 1 = NThreads PROVE Cardinality(H) + NThreads - 1 >= index
  <2>1. \A u \in Workers : u < copy
    BY <1>6, ConstantsOK DEF Workers, IInv, TypeOK
  <2>2. \A u \in Workers, t \in Traces : sums[u][t] # 0 => t \in H \cup C
    <3>1. \A u \in Workers, t \in Traces :
            sums[u][t] # 0 => sums[Reporter][t] # 0 \/ (t = cur[u] /\ u # w)
      BY <2>1 DEF MergedInv, Merging
    <3>. QED
      BY <3>1
  <2>3. \A t \in Traces : cur[w] = t => sums[w][t] # 0
    BY DEF TakenInv, Asking, NoTrace, Traces
  <2>4. R \in SUBSET (H \cup C)
    <3>1. \A t \in R : t \in Traces /\ \E u \in Workers : cur[u] = t \/ sums[u][t] # 0
      BY DEF TakenInv, Received
    <3>. QED
      BY <2>2, <2>3, <3>1
  <2>. HIDE DEF H, C, R
  <2>5. /\ IsFiniteSet(H \cup C)
        /\ Cardinality(H \cup C) = Cardinality(H) + Cardinality(C) - Cardinality(H \cap C)
        /\ Cardinality(H \cap C) \in Nat
    BY <1>4, <1>5, FS_Union, FS_Intersection, FS_CardinalityType
  <2>6. Cardinality(R) <= Cardinality(H \cup C)
    BY <2>4, <2>5, FS_Subset
  <2>7. index <= Cardinality(H) + Cardinality(C) - Cardinality(H \cap C)
    BY <1>1, <2>5, <2>6
  <2>. QED
    BY <1>2, <1>4, <1>5, <2>5, <2>7, ConstantsOK
<1>7. Held(bins[Reporter]) = Cardinality(B) /\ Held(sums[Reporter]) = Cardinality(H)
  BY DEF Held
<1>. HIDE DEF B, H
<1>. QED
  BY <1>2, <1>4, <1>6, <1>7 DEF Exact

LEMMA ReportStep ==
  ASSUME CloneLocks # "nothing", IInv, CountInv, TakenInv, MergedInv, FinalInv, ReportInv,
         [Next]_vars
  PROVE  ReportInv'
<1>. USE NamesOK
<1>1. ASSUME bins'[Reporter] = bins[Reporter], sums'[Reporter] = sums[Reporter],
             UNCHANGED <<covers, rtIndex>>,
             \A v \in Workers : wpc[v] \in Merging => wpc'[v] \in Merging
      PROVE  ReportInv'
  BY <1>1 DEF ReportInv, Exact
<1>2. CASE UNCHANGED <<worker, data, covers, rtIndex>>
  BY <1>1, <1>2 DEF worker, data
<1>3. CASE LaunchWorker
  <2>1. /\ wpc' = [wpc EXCEPT ![listed + 1] = "call"]
        /\ UNCHANGED <<bins, sums, covers, rtIndex>>
    BY <1>3 DEF LaunchWorker, data, report
  <2>2. listed + 1 \in Workers /\ wpc[listed + 1] = "unborn"
    BY <1>3, ConstantsOK DEF LaunchWorker, IInv, TypeOK, ProgressInv, Workers
  <2>3. \A v \in Workers : wpc[v] \in Merging => wpc'[v] \in Merging
    BY <2>1, <2>2 DEF IInv, TypeOK, Merging
  <2>. QED
    BY <1>1, <2>1, <2>3
<1>4. ASSUME NEW w \in Workers, Worker(w) PROVE ReportInv'
  <2>. USE DEF At
  <2>1. ASSUME wpc[w] \notin Merging, \E l : wpc' = [wpc EXCEPT ![w] = l]
        PROVE  \A v \in Workers : wpc[v] \in Merging => wpc'[v] \in Merging
    BY <2>1 DEF IInv, TypeOK
  <2>2. CASE EnterNextTrace(w) \/ NoMoreTraces(w) \/ ReadFails(w) \/ ReadTrace(w)
             \/ CountTrace(w) \/ RejectTrace(w) \/ AcceptTrace(w)
    BY <1>1, <2>1, <2>2
       DEF EnterNextTrace, NoMoreTraces, ReadFails, ReadTrace, CountTrace, RejectTrace,
           AcceptTrace, Exits, Merging, data, report
  <2>3. CASE ProcessBins(w) \/ ProcessSums(w)
    <3>1. bins'[Reporter] = bins[Reporter] /\ sums'[Reporter] = sums[Reporter]
      BY <2>3 DEF ProcessBins, ProcessSums, IInv, TypeOK
    <3>. QED
      BY <1>1, <2>1, <2>3, <3>1 DEF ProcessBins, ProcessSums, Merging, report
  <2>4. ASSUME \E v \in Workers : wpc'[v] \in Merging
        PROVE  ReportInv'
    BY <2>4 DEF ReportInv
  <2>5. CASE BeginCompute(w) \/ (copy <= listed /\ CopyBins(w)) \/ CopySums(w)
    <3>1. wpc'[w] \in Merging
      BY <2>5 DEF BeginCompute, CopyBins, CopySums, IInv, TypeOK, Merging
    <3>. QED
      BY <2>4, <3>1
  <2>6. CASE (copy <= listed /\ CopyNothing(w)) \/ ReadThreadsDuringPush(w)
    BY <2>6, <1>2 DEF CopyNothing, ReadThreadsDuringPush, report
  <2>7. CASE EndCompute(w)
    <3>1. /\ wpc[w] = "merge" /\ copy > 1
          /\ covers' = copy - 1 /\ rtIndex' = (index - 1) \div Interval
          /\ bins' = bins /\ sums' = sums
      BY <2>7 DEF EndCompute, data
    <3>2. Exact(bins[Reporter], sums[Reporter], copy - 1, (index - 1) \div Interval)
      BY <3>1, MergeExact
    <3>3. Exact(bins'[Reporter], sums'[Reporter], covers', rtIndex')
      BY <3>1, <3>2
    <3>. QED
      BY <3>3 DEF ReportInv, Exact
  <2>. QED
    BY <1>4, <2>2, <2>3, <2>5, <2>6, <2>7 DEF Worker, CopyEntry
<1>5. Next => LaunchWorker \/ UNCHANGED <<worker, data, covers, rtIndex>>
                           \/ \E w \in Workers : Worker(w)
  BY DEF Next, Main, ReportThread, SetupFails, PushThread, JoinAll, Terminate,
         JoinReporter, WriteResults, ReporterWaits, ReporterStops,
         ReporterRecords, ReporterRecordsNothing, SpuriousWakeup, report
<1>. QED
  BY <1>2, <1>3, <1>4, <1>5 DEF vars, report

\* Only the report thread writes a row, and only between two merges.
LEMMA IntervalsStep ==
  ASSUME IInv, IntervalsExact, CloneLocks # "nothing" => ReportInv, [Next]_vars
  PROVE  IntervalsExact'
<1>1. CASE UNCHANGED rows
  BY <1>1 DEF IntervalsExact
<1>2. CASE ReporterRecords
  <2>1. /\ covers > 0 /\ CloneLocks # "nothing"
        /\ \A v \in Workers : wpc[v] \notin Merging
    BY <1>2, NamesOK DEF ReporterRecords, Cloned, IInv, LockInv
  <2>2. Exact(Merged.bins, Merged.sums, Merged.from, rtIndex)
    BY <2>1 DEF ReportInv, Merged
  <2>3. /\ rows' = [rows EXCEPT ![rtIndex] = @ \cup {Merged}]
        /\ rows \in [0 .. Reports - 1 -> SUBSET Snapshot]
    BY <1>2 DEF ReporterRecords, IInv, TypeOK
  <2>. HIDE DEF Merged
  <2>4. \A n \in 0 .. Reports - 1 : \A s \in rows'[n] :
          s \in rows[n] \/ (n = rtIndex /\ s = Merged)
    BY <2>3
  <2>5. \A n \in 0 .. Reports - 1 : \A s \in rows[n] : Exact(s.bins, s.sums, s.from, n)
    BY DEF IntervalsExact, Exact
  <2>6. \A n \in 0 .. Reports - 1 : \A s \in rows'[n] : Exact(s.bins, s.sums, s.from, n)
    BY <2>2, <2>4, <2>5
  <2>. QED
    BY <2>6 DEF IntervalsExact, Exact
<1>3. Next => ReporterRecords \/ UNCHANGED rows
  BY DEF Next, Main, ReportThread, LaunchWorker, SetupFails, PushThread,
         JoinAll, Terminate, JoinReporter, WriteResults, ReporterWaits,
         ReporterStops, ReporterRecordsNothing,
         SpuriousWakeup, Worker, CopyEntry, EnterNextTrace, BeginCompute, CopyBins,
         CopySums, CopyNothing, ReadThreadsDuringPush, EndCompute, NoMoreTraces,
         ReadFails, ReadTrace, CountTrace, RejectTrace, AcceptTrace,
         ProcessBins, ProcessSums, rthread
<1>. QED
  BY <1>1, <1>2, <1>3 DEF vars, rthread

LEMMA InitRows == Init => RowsInv
<1>. SUFFICES ASSUME Init PROVE RowsInv
  OBVIOUS
<1>. USE NamesOK, ConstantsOK DEF Init
<1>1. Received = {}
  BY DEF Received, Traces
<1>2. CountInv
  BY <1>1, FS_EmptySet DEF CountInv
<1>3. TakenInv
  BY <1>1 DEF TakenInv, Took, Empty, NoTrace, Traces
<1>4. IntervalsExact
  BY DEF IntervalsExact
<1>5. FinalInv /\ MergedInv /\ ReportInv
  BY DEF FinalInv, LastReport, Empty, Merging, MergedInv, ReportInv
<1>. QED
  BY <1>2, <1>3, <1>4, <1>5 DEF RowsInv

\* Row n of the interval table shows no trace read after its boundary and, when
\* all the workers were listed, misses at most the last trace of each worker but
\* the one that ran compute() (next_trace, compute, record_interval), for every
\* kind of attack, interval and number of workers.
THEOREM RowsExact == Spec => []IntervalsExact
<1>1. Init => RowsInv
  BY InitRows
<1>2. IInv /\ RowsInv /\ [Next]_vars => RowsInv'
  BY TakenStep, IntervalsStep, FinalStep, MergedStep, ReportStep DEF RowsInv
<1>3. RowsInv => IntervalsExact
  BY DEF RowsInv
<1>. QED
  BY <1>1, <1>2, <1>3, Invariance, PTL DEF Spec
=============================================================================
