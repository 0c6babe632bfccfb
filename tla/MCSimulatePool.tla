--------------------------- MODULE MCSimulatePool ---------------------------
(* SimulatePool for TLC: the pool of the configuration, and the same pool on  *)
(* a grid that may lose jobs.                                                 *)
EXTENDS SimulatePool

VARIABLE where

Grid == INSTANCE SimulatePool WITH Qsub <- TRUE, MayFail <- FALSE, MayBeLost <- TRUE

AnyInit == (where = "local" /\ Init) \/ (where = "grid" /\ Grid!Init)

AnyNext == /\ (where = "local" /\ Next) \/ (where = "grid" /\ Grid!Next)
           /\ UNCHANGED where

AnySpec ==
    /\ AnyInit /\ [][AnyNext]_<<vars, where>>
    /\ WF_vars(where = "local" /\ Main) /\ WF_vars(where = "grid" /\ Grid!Main)
    /\ \A w \in Instances :
        /\ WF_vars(where = "local" /\ LocalWorker(w)) /\ WF_vars(where = "local" /\ ChildExits(w))
        /\ WF_vars(where = "grid" /\ Grid!GridWorker(w)) /\ WF_vars(where = "grid" /\ Grid!Job(w))

\* A job of the grid that is done has its results in the top directory.
GridResultsAtTop == where = "grid" => Grid!DoneHasResults

\* The pool drains while one permit is left (locally), or if the grid loses no
\* job.
AnyPoolDrains == IF where = "grid" THEN Grid!PoolDrains ELSE PoolDrains
=============================================================================
