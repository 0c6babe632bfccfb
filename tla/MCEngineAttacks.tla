--------------------------- MODULE MCEngineAttacks ---------------------------
(* One run of AttackEngine for three kinds of attack: that of the             *)
(* configuration (cpa), one whose clone locks the report instance (dpa, with  *)
(* three workers and one report), and one that clones nothing (pscc, relpow). *)
EXTENDS AttackEngine

VARIABLE attack

Dpa == INSTANCE AttackEngine WITH
    CloneLocks <- "self", RequestedThreads <- 3, ReportTick <- 3,
    TraceKinds <- {"short", "unreadable"}, SpuriousWakeups <- FALSE
Pscc == INSTANCE AttackEngine WITH CloneLocks <- "nothing", SpuriousWakeups <- FALSE

allVars == <<vars, attack>>

AnyInit == \/ attack = "cpa" /\ Init
           \/ attack = "dpa" /\ Dpa!Init
           \/ attack = "pscc" /\ Pscc!Init

AnyNext == /\ \/ attack = "cpa" /\ Next
              \/ attack = "dpa" /\ Dpa!Next
              \/ attack = "pscc" /\ Pscc!Next
           /\ UNCHANGED attack

\* The fairness of AttackEngine, for the attack that runs; dpa is checked for
\* safety only.
AnySpec ==
    /\ AnyInit /\ [][AnyNext]_allVars
    /\ WF_vars(attack = "cpa" /\ Main) /\ WF_vars(attack = "pscc" /\ Pscc!Main)
    /\ WF_vars(attack = "cpa" /\ ReportThread)
    /\ WF_vars(attack = "pscc" /\ Pscc!ReportThread)
    /\ \A w \in 1..2 : /\ WF_vars(attack = "cpa" /\ Worker(w))
                       /\ WF_vars(attack = "pscc" /\ Pscc!Worker(w))

\* With dpa, too, each merge is exact: with three workers, two coalesce calls
\* and a clone that does not lock what it copies, no trace is counted twice, and
\* the last report holds all traces unless a merge ran before all workers were
\* listed.
DpaMergesExact == attack = "dpa" => Dpa!CountedOnce /\ Dpa!FinalMerged

\* With dpa, too, a row holds no trace read after its interval, and misses at
\* most the traces that a worker holds.
DpaIntervalsExact == attack = "dpa" => Dpa!IntervalsExact

\* Workers end on any input, whether the attack clones (cpa) or not (pscc).
AllWorkersFinish == attack = "dpa" \/ IF attack = "cpa" THEN WorkersFinish ELSE Pscc!WorkersFinish

\* Once told to stop, the shutdown completes, for cpa and pscc.
AllShutdownsComplete ==
    attack = "dpa" \/ IF attack = "cpa" THEN ShutdownCompletes ELSE Pscc!ShutdownCompletes
=============================================================================
