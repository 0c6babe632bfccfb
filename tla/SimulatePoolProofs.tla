------------------------- MODULE SimulatePoolProofs -------------------------
(***************************************************************************)
(* Proofs about SimulatePool, for every number of instances and degree of  *)
(* parallelism.  The permits and the threads that hold one always add up   *)
(* to MaxDop, a thread that died included; whoever simulates holds one.    *)
(***************************************************************************)
EXTENDS SimulatePool, FiniteSetTheorems, TLAPS

\* Where a thread holds a permit: from acquire to release, or for ever.
Holding == {"child", "txt", "wav", "archive", "addtxt", "addwav", "finish",
            "poll", "dead"}
Holders == {w \in Instances : wpc[w] \in Holding}

PermitInv == permits + Cardinality(Holders) = MaxDop

LoopInv == mpc \in {"enter", "leave", "start"} =>
              /\ i \in Instances
              /\ \A w \in Instances : w >= i => wpc[w] = "unborn"

JobInv == \A w \in Instances : job[w] \notin {"none", "complete"} => wpc[w] = "poll"

PoolInv == TypeOK /\ PermitInv /\ LoopInv /\ JobInv

LEMMA MaxDopOK == MaxDop \in Nat \ {0}
  BY ArgsAssumption DEF MaxDop

LEMMA InstancesFinite ==
  ASSUME NEW S \in SUBSET Instances
  PROVE  IsFiniteSet(S) /\ Cardinality(S) \in Nat
<1>1. IsFiniteSet(Instances)
  BY ArgsAssumption, FS_Interval DEF Instances
<1>. QED
  BY <1>1, FS_Subset, FS_CardinalityType

LEMMA PoolInit == Init => PoolInv
<1>. SUFFICES ASSUME Init PROVE PoolInv
  OBVIOUS
<1>1. 1 \in Instances /\ Inst \in Instances
  BY ArgsAssumption DEF Instances
<1>2. TypeOK
  <2>1. files \subseteq File
    <3>1. [what : {"txt"}, of : {Earlier}, at : {Inst}] \subseteq File
      <4>. SUFFICES ASSUME NEW f \in [what : {"txt"}, of : {Earlier}, at : {Inst}]
                    PROVE  f \in [what : Outputs \cup {"tar"},
                                  of : Instances \cup {Earlier}, at : Places]
        BY DEF File
      <4>1. "txt" \in Outputs \cup {"tar"} /\ Inst \in Places
        BY <1>1 DEF Outputs, Places
      <4>. QED
        BY <4>1
    <3>. QED
      BY <3>1 DEF Init
  <2>2. 1 \in 1 .. Inst + 1 /\ MaxDop \in 0 .. MaxDop
    BY MaxDopOK, ArgsAssumption
  <2>. QED
    BY <2>1, <2>2 DEF Init, TypeOK, Places, Top, Phases
<1>3. Holders = {}
  BY DEF Init, Holders, Holding
<1>4. PermitInv
  BY <1>3, FS_EmptySet, MaxDopOK DEF Init, PermitInv
<1>. QED
  BY <1>1, <1>2, <1>4 DEF Init, PoolInv, LoopInv, JobInv

\* What happens to the permits when thread w takes, keeps or returns its own.
LEMMA PermitsMove ==
  ASSUME PoolInv, NEW w \in Instances, NEW l \in Phases,
         wpc' = [wpc EXCEPT ![w] = l],
         \/ wpc[w] \notin Holding /\ l \in Holding /\ permits > 0 /\ permits' = permits - 1
         \/ wpc[w] \in Holding /\ l \notin Holding /\ permits' = permits + 1
         \/ (wpc[w] \in Holding <=> l \in Holding) /\ permits' = permits
  PROVE  PermitInv' /\ permits' \in 0 .. MaxDop /\ wpc' \in [Instances -> Phases]
<1>1. wpc' \in [Instances -> Phases]
  BY DEF PoolInv, TypeOK
<1>2. /\ IsFiniteSet(Holders) /\ Cardinality(Holders) \in Nat
      /\ IsFiniteSet(Holders') /\ Cardinality(Holders') \in Nat
  BY InstancesFinite DEF Holders
<1>3. permits \in 0 .. MaxDop /\ permits + Cardinality(Holders) = MaxDop
  BY DEF PoolInv, TypeOK, PermitInv
<1>4. CASE wpc[w] \notin Holding /\ l \in Holding /\ permits > 0 /\ permits' = permits - 1
  <2>1. Holders' = Holders \cup {w} /\ w \notin Holders
    BY <1>4 DEF Holders, PoolInv, TypeOK
  <2>2. Cardinality(Holders') = Cardinality(Holders) + 1
    BY <1>2, <2>1, FS_AddElement
  <2>. QED
    BY <1>1, <1>2, <1>3, <1>4, <2>2, MaxDopOK DEF PermitInv
<1>5. CASE wpc[w] \in Holding /\ l \notin Holding /\ permits' = permits + 1
  <2>1. Holders' = Holders \ {w} /\ w \in Holders
    BY <1>5 DEF Holders, PoolInv, TypeOK
  <2>2. Cardinality(Holders') = Cardinality(Holders) - 1
    BY <1>2, <2>1, FS_RemoveElement
  <2>. QED
    BY <1>1, <1>2, <1>3, <1>5, <2>2, MaxDopOK DEF PermitInv
<1>6. CASE (wpc[w] \in Holding <=> l \in Holding) /\ permits' = permits
  <2>1. Holders' = Holders
    BY <1>6 DEF Holders, PoolInv, TypeOK
  <2>. QED
    BY <1>1, <1>3, <1>6, <2>1 DEF PermitInv
<1>. QED
  BY <1>4, <1>5, <1>6

\* A step that moves no thread and leaves the semaphore alone.
LEMMA PermitsStay ==
  ASSUME PoolInv, UNCHANGED <<permits, wpc>>
  PROVE  PermitInv'
  BY DEF PoolInv, PermitInv, Holders

LEMMA MainStep ==
  ASSUME PoolInv, Main
  PROVE  PoolInv'
<1>. USE DEF PoolInv
<1>1. CASE EnterWorkDir
  <2>1. i \in Instances /\ mpc' = "leave" /\ UNCHANGED <<i, permits, wpc, job>>
    BY <1>1 DEF EnterWorkDir, LoopInv, grid
  <2>2. TypeOK'
    BY <1>1, <2>1 DEF EnterWorkDir, Deleted, TypeOK, Places, grid
  <2>. QED
    BY <1>1, <2>1, <2>2, PermitsStay DEF EnterWorkDir, LoopInv, JobInv
<1>2. CASE LeaveWorkDir
  <2>1. i \in Instances /\ mpc' = "start" /\ UNCHANGED <<i, permits, wpc, job>>
    BY <1>2 DEF LeaveWorkDir, LoopInv, grid
  <2>2. TypeOK'
    BY <1>2 DEF LeaveWorkDir, Back, TypeOK, Places, Top, grid
  <2>. QED
    BY <1>2, <2>1, <2>2, PermitsStay DEF LeaveWorkDir, LoopInv, JobInv
<1>3. CASE StartThread
  <2>1. /\ i \in Instances /\ wpc[i] = "unborn"
        /\ wpc' = [wpc EXCEPT ![i] = "born"] /\ i' = i + 1
        /\ mpc' = IF i < Inst THEN "enter" ELSE "wait"
        /\ UNCHANGED <<cwd, permits, status, raw, files, tarred, job, logs>>
    BY <1>3 DEF StartThread, LoopInv, Instances, grid
  <2>2. PermitInv' /\ permits' \in 0 .. MaxDop /\ wpc' \in [Instances -> Phases]
    BY <2>1, PermitsMove DEF Phases, Holding, TypeOK
  <2>3. TypeOK'
    BY <2>1, <2>2, ArgsAssumption DEF TypeOK, Instances
  <2>4. LoopInv'
    BY <1>3, <2>1, ArgsAssumption DEF StartThread, LoopInv, TypeOK, Instances
  <2>5. JobInv'
    BY <2>1 DEF JobInv, TypeOK
  <2>. QED
    BY <2>2, <2>3, <2>4, <2>5
<1>4. CASE AllThreadsEnded
  <2>1. TypeOK'
    BY <1>4 DEF AllThreadsEnded, TypeOK, grid
  <2>. QED
    BY <1>4, <2>1, PermitsStay DEF AllThreadsEnded, LoopInv, JobInv, grid
<1>. QED
  BY <1>1, <1>2, <1>3, <1>4 DEF Main

\* A thread that has been started never falls back to before its start.
LEMMA LoopStays ==
  ASSUME PoolInv, NEW w \in Instances, NEW l \in Phases,
         wpc[w] # "unborn", wpc' = [wpc EXCEPT ![w] = l], UNCHANGED main
  PROVE  LoopInv'
  BY DEF PoolInv, LoopInv, TypeOK, main

LEMMA LocalStep ==
  ASSUME PoolInv, NEW w \in Instances, LocalWorker(w) \/ ChildExits(w)
  PROVE  PoolInv'
<1>1. wpc[w] \notin {"unborn", "poll"} /\ UNCHANGED <<main, job, logs>>
  BY DEF LocalWorker, ChildExits, LaunchChild, RenameOutput, RenameRaises,
         CreateArchive, AddToArchive, AddRaises, Finish, Outputs, grid
<1>2. PICK l \in Phases :
        /\ l \notin {"unborn", "poll"}
        /\ wpc' = [wpc EXCEPT ![w] = l]
        /\ \/ wpc[w] \notin Holding /\ l \in Holding /\ permits > 0 /\ permits' = permits - 1
           \/ wpc[w] \in Holding /\ l \notin Holding /\ permits' = permits + 1
           \/ (wpc[w] \in Holding <=> l \in Holding) /\ permits' = permits
  <2>1. CASE LaunchChild(w)
    BY <2>1 DEF LaunchChild, Acquired, Phases, Holding
  <2>2. CASE ChildExits(w)
    BY <2>2 DEF ChildExits, Phases, Holding
  <2>3. CASE RenameOutput(w)
    <3>1. \E l \in {"wav", "archive", "finish"} : wpc' = [wpc EXCEPT ![w] = l]
      BY <2>3 DEF RenameOutput
    <3>. QED
      BY <2>3, <3>1 DEF RenameOutput, Phases, Holding, Outputs
  <2>4. CASE RenameRaises(w) \/ AddRaises(w)
    BY <2>4 DEF RenameRaises, AddRaises, Phases, Holding, Outputs
  <2>5. CASE CreateArchive(w)
    BY <2>5 DEF CreateArchive, Phases, Holding
  <2>6. CASE AddToArchive(w)
    <3>1. \E l \in {"addwav", "finish"} : wpc' = [wpc EXCEPT ![w] = l]
      BY <2>6 DEF AddToArchive
    <3>. QED
      BY <2>6, <3>1 DEF AddToArchive, Phases, Holding
  <2>7. CASE Finish(w)
    BY <2>7 DEF Finish, Released, Phases, Holding
  <2>. QED
    BY <2>1, <2>2, <2>3, <2>4, <2>5, <2>6, <2>7 DEF LocalWorker
<1>3. PermitInv' /\ permits' \in 0 .. MaxDop /\ wpc' \in [Instances -> Phases]
  BY <1>2, PermitsMove
<1>4. LoopInv'
  BY <1>1, <1>2, LoopStays
<1>5. JobInv'
  BY <1>1, <1>2 DEF PoolInv, TypeOK, JobInv
<1>6. files' \subseteq File
  <2>1. CASE RenameOutput(w)
    BY <2>1 DEF RenameOutput, PoolInv, TypeOK, File
  <2>2. CASE CreateArchive(w)
    BY <2>2 DEF CreateArchive, PoolInv, TypeOK, File
  <2>3. CASE files' = files
    BY <2>3 DEF PoolInv, TypeOK
  <2>. QED
    BY <2>1, <2>2, <2>3
       DEF LocalWorker, ChildExits, LaunchChild, RenameRaises, AddToArchive,
           AddRaises, Finish
<1>7. /\ raw' \in [Instances -> SUBSET Outputs]
      /\ tarred' \in [Instances -> SUBSET Outputs]
  <2>1. CASE RenameOutput(w)
    BY <2>1 DEF RenameOutput, PoolInv, TypeOK
  <2>2. CASE ChildExits(w)
    BY <2>2 DEF ChildExits, Outcome, PoolInv, TypeOK
  <2>3. CASE AddToArchive(w)
    BY <2>3 DEF AddToArchive, ToAdd, PoolInv, TypeOK, Outputs
  <2>4. CASE UNCHANGED <<raw, tarred>>
    BY <2>4 DEF PoolInv, TypeOK
  <2>. QED
    BY <2>1, <2>2, <2>3, <2>4
       DEF LocalWorker, LaunchChild, RenameRaises, CreateArchive, AddRaises, Finish
<1>8. \E s \in {"simulating", "compressing", "done"} :
         status' = status \/ status' = [status EXCEPT ![w] = s]
  BY DEF LocalWorker, ChildExits, LaunchChild, RenameOutput, RenameRaises,
         CreateArchive, AddToArchive, AddRaises, Finish
<1>9. TypeOK'
  BY <1>1, <1>3, <1>6, <1>7, <1>8 DEF PoolInv, TypeOK, main
<1>. QED
  BY <1>3, <1>4, <1>5, <1>9 DEF PoolInv

LEMMA GridStep ==
  ASSUME PoolInv, NEW w \in Instances, GridWorker(w) \/ Job(w) \/ JobLost(w)
  PROVE  PoolInv'
<1>. USE DEF PoolInv
<1>1. CASE Submit(w)
  <2>1. /\ wpc[w] = "born" /\ wpc' = [wpc EXCEPT ![w] = "poll"]
        /\ permits > 0 /\ permits' = permits - 1
        /\ UNCHANGED main
    BY <1>1 DEF Submit, Acquired
  <2>2. PermitInv' /\ permits' \in 0 .. MaxDop /\ wpc' \in [Instances -> Phases]
    BY <2>1, PermitsMove DEF Phases, Holding
  <2>3. LoopInv'
    BY <2>1, LoopStays DEF Phases
  <2>4. TypeOK' /\ JobInv'
    BY <1>1, <2>1, <2>2 DEF Submit, TypeOK, JobInv, main
  <2>. QED
    BY <2>2, <2>3, <2>4
<1>2. CASE SubmitRaises(w) \/ PollComplete(w)
  <2>1. /\ wpc[w] \in {"born", "poll"} /\ wpc' = [wpc EXCEPT ![w] = "exited"]
        /\ \/ wpc[w] \in Holding /\ permits' = permits + 1
           \/ wpc[w] \notin Holding /\ permits' = permits
        /\ UNCHANGED <<main, job>> /\ (wpc[w] = "poll" => job[w] = "complete")
    BY <1>2 DEF SubmitRaises, PollComplete, Released, Holding, grid
  <2>2. PermitInv' /\ permits' \in 0 .. MaxDop /\ wpc' \in [Instances -> Phases]
    BY <2>1, PermitsMove DEF Phases, Holding
  <2>3. LoopInv'
    BY <2>1, LoopStays DEF Phases
  <2>4. JobInv'
    BY <2>1 DEF JobInv, TypeOK
  <2>5. TypeOK'
    BY <1>2, <2>2 DEF SubmitRaises, PollComplete, TypeOK, main, grid
  <2>. QED
    BY <2>2, <2>3, <2>4, <2>5
<1>3. CASE PollPending(w)
  <2>1. Stage(w) \in {"compressing", "simulating", "compiling", status[w]}
    BY DEF Stage
  <2>2. TypeOK'
    BY <1>3, <2>1 DEF PollPending, TypeOK, main, grid
  <2>. QED
    BY <1>3, <2>2, PermitsStay DEF PollPending, LoopInv, JobInv, main, grid
<1>4. CASE Job(w) \/ JobLost(w)
  <2>1. UNCHANGED <<main, permits, wpc, status>>
    BY <1>4 DEF Job, JobLost, JobStage, JobSimulated, JobCompresses, JobMoves,
                JobTouches
  <2>2. /\ job[w] \notin {"none", "complete"}
        /\ \E j \in {"lost", "compiling", "simulating", "simulated", "compressed",
                     "moved", "complete"} : job' = [job EXCEPT ![w] = j]
    BY <1>4 DEF Job, JobLost, JobStage, JobSimulated, JobCompresses, JobMoves,
                JobTouches, ToTouch
  <2>3. JobInv'
    BY <2>1, <2>2 DEF JobInv, TypeOK
  <2>4. logs' \in [Instances -> SUBSET Logs]
    <3>1. CASE JobStage(w)
      <4>1. PICK log \in SUBSET Logs : logs' = [logs EXCEPT ![w] = @ \cup log]
        BY <3>1 DEF JobStage, Logs
      <4>. QED
        BY <4>1 DEF TypeOK
    <3>2. CASE JobCompresses(w)
      BY <3>2 DEF JobCompresses, TypeOK, Logs
    <3>3. CASE logs' = logs
      BY <3>3 DEF TypeOK
    <3>. QED
      BY <1>4, <3>1, <3>2, <3>3 DEF Job, JobLost, JobSimulated, JobMoves, JobTouches
  <2>5. /\ raw' \in [Instances -> SUBSET Outputs]
        /\ tarred' \in [Instances -> SUBSET Outputs]
    BY <1>4 DEF Job, JobLost, JobStage, JobSimulated, JobCompresses, JobMoves,
                JobTouches, Outcome, TypeOK
  <2>6. files' \subseteq File
    <3>1. CASE JobMoves(w)
      BY <3>1 DEF JobMoves, TypeOK, File, Places
    <3>2. CASE files' = files
      BY <3>2 DEF TypeOK
    <3>. QED
      BY <1>4, <3>1, <3>2 DEF Job, JobLost, JobStage, JobSimulated, JobCompresses,
                              JobTouches
  <2>7. TypeOK'
    BY <2>1, <2>2, <2>4, <2>5, <2>6 DEF TypeOK, main
  <2>. QED
    BY <2>1, <2>3, <2>7, PermitsStay DEF LoopInv, main
<1>. QED
  BY <1>1, <1>2, <1>3, <1>4 DEF GridWorker

LEMMA PoolInvariant == Spec => []PoolInv
<1>1. PoolInv /\ [Next]_vars => PoolInv'
  <2>1. PoolInv /\ UNCHANGED vars => PoolInv'
    BY DEF vars, main, grid, PoolInv, TypeOK, PermitInv, Holders, LoopInv, JobInv
  <2>. QED
    BY <2>1, MainStep, LocalStep, GridStep DEF Next
<1>. QED
  BY <1>1, PoolInit, PTL DEF Spec

\* The pool's variables keep their types: no instance is set up twice, and the
\* bounded semaphore never raises because of a release too many.
THEOREM PoolTypes == Spec => []TypeOK
<1>1. PoolInv => TypeOK
  BY DEF PoolInv
<1>. QED
  BY <1>1, PoolInvariant, PTL

\* However many instances there are and whatever fails, at most MaxDop of them
\* simulate at a time (simulate.py:196).
THEOREM DopBound == Spec => []DopRespected
<1>1. PoolInv => DopRespected
  <2>. SUFFICES ASSUME PoolInv PROVE DopRespected
    OBVIOUS
  <2>1. Busy \subseteq Holders
    BY DEF PoolInv, JobInv, Busy, Holders, Holding
  <2>2. IsFiniteSet(Holders) /\ Cardinality(Holders) \in Nat /\ Cardinality(Busy) \in Nat
    BY InstancesFinite DEF Holders, Busy
  <2>3. Cardinality(Busy) <= Cardinality(Holders)
    BY <2>1, <2>2, FS_Subset
  <2>. QED
    BY <2>2, <2>3, MaxDopOK DEF PoolInv, TypeOK, PermitInv, DopRespected
<1>. QED
  BY <1>1, PoolInvariant, PTL

-----------------------------------------------------------------------------
(* Where the results are. *)

\* The current directory is the top one except while main links the files of
\* instance i; a result is in the top directory or in one set up after its
\* instance and not to be set up again.
PlaceInv ==
    /\ cwd # Top => mpc = "leave" /\ cwd = i
    /\ \A f \in files : f.of # Earlier =>
         \/ f.at = Top
         \/ f.of < f.at /\ (f.at < i \/ (f.at = i /\ mpc # "enter"))

\* A worker adds its files where it may: at the top, or in a later directory.
LEMMA CwdIsLater ==
  ASSUME PoolInv, PlaceInv, NEW w \in Instances, wpc[w] # "unborn"
  PROVE  cwd = Top \/ (w < cwd /\ cwd = i /\ mpc = "leave")
  BY ArgsAssumption DEF PoolInv, TypeOK, LoopInv, PlaceInv, Instances

LEMMA PlaceStep ==
  ASSUME PoolInv, PlaceInv, [Next]_vars
  PROVE  PlaceInv' /\ \A f \in files : f.of # Earlier => f \in files'
<1>1. i \in Nat /\ cwd \in Nat /\ \A f \in files : f.at \in Nat
  BY ArgsAssumption DEF PoolInv, TypeOK, File, Places, Instances, Top
<1>2. CASE EnterWorkDir
  <2>1. \A f \in files : f.of # Earlier => f.at # i
    <3>1. i \in Instances /\ i # Top
      BY <1>2 DEF EnterWorkDir, PoolInv, LoopInv, Instances, Top
    <3>. QED
      BY <1>1, <1>2, <3>1 DEF EnterWorkDir, PlaceInv
  <2>. QED
    BY <1>2, <2>1 DEF EnterWorkDir, Deleted, PlaceInv
<1>3. CASE LeaveWorkDir
  BY <1>3 DEF LeaveWorkDir, Back, PlaceInv
<1>4. CASE StartThread
  <2>1. i' = i + 1 /\ UNCHANGED <<cwd, files>> /\ mpc = "start"
    BY <1>4 DEF StartThread
  <2>. QED
    BY <1>1, <2>1 DEF PlaceInv
<1>5. CASE AllThreadsEnded
  BY <1>5 DEF AllThreadsEnded, PlaceInv
<1>6. ASSUME NEW w \in Instances, RenameOutput(w) \/ CreateArchive(w)
      PROVE  PlaceInv' /\ \A f \in files : f.of # Earlier => f \in files'
  <2>1. \E what \in Outputs \cup {"tar"} :
           files' = files \cup {[what |-> what, of |-> w, at |-> cwd]}
    BY <1>6 DEF RenameOutput, CreateArchive
  <2>2. wpc[w] # "unborn" /\ UNCHANGED <<mpc, i, cwd>>
    BY <1>6 DEF RenameOutput, CreateArchive, Outputs, main
  <2>. QED
    BY <2>1, <2>2, CwdIsLater DEF PlaceInv
<1>7. ASSUME NEW w \in Instances, JobMoves(w)
      PROVE  PlaceInv' /\ \A f \in files : f.of # Earlier => f \in files'
  BY <1>7 DEF JobMoves, PlaceInv, main
<1>8. CASE UNCHANGED <<main, files>>
  BY <1>8 DEF main, PlaceInv
<1>9. Next => \/ Main \/ UNCHANGED <<main, files>>
              \/ \E w \in Instances : \/ RenameOutput(w) \/ CreateArchive(w)
                                      \/ JobMoves(w)
  BY DEF Next, LocalWorker, ChildExits, GridWorker, Job, JobLost, LaunchChild,
         RenameRaises, AddToArchive, AddRaises, Finish, Submit, SubmitRaises,
         PollPending, PollComplete, JobStage, JobSimulated, JobCompresses,
         JobTouches
<1>. QED
  BY <1>2, <1>3, <1>4, <1>5, <1>6, <1>7, <1>8, <1>9 DEF Main, vars

LEMMA PlaceInvariant == Spec => []PlaceInv
<1>1. Init => PlaceInv
  BY DEF Init, PlaceInv
<1>2. PoolInv /\ PlaceInv /\ [Next]_vars => PlaceInv'
  BY PlaceStep
<1>. QED
  BY <1>1, <1>2, PoolInvariant, PTL DEF Spec

\* Setting up an instance deletes its directory if an earlier run left one
\* (simulate.py:206-208), and with it never a result of this run.
THEOREM NoResultDeleted == Spec => ResultsSurvive
<1>1. PoolInv /\ PlaceInv /\ [Next]_vars =>
        [\A f \in files : f.of # Earlier => f \in files']_vars
  BY PlaceStep
<1>. QED
  BY <1>1, PoolInvariant, PlaceInvariant, PTL DEF Spec, ResultsSurvive

-----------------------------------------------------------------------------
(* What a worker that is done has left behind. *)

Renamed(w)  == \A f \in Outputs : Somewhere(w, f)
Archived(w) == Bzip2 => tarred[w] = Outputs /\ Somewhere(w, "tar")

WorkerOK(w) ==
    /\ wpc[w] = "wav" => Somewhere(w, "txt")
    /\ wpc[w] \in {"archive", "addtxt", "addwav", "finish"} => Renamed(w)
    /\ wpc[w] \in {"addtxt", "addwav"} => Somewhere(w, "tar")
    /\ wpc[w] = "addwav" => "txt" \in tarred[w]
    /\ wpc[w] = "finish" => Archived(w)
    /\ status[w] = "done" /\ ~Qsub => wpc[w] = "exited" /\ Renamed(w) /\ Archived(w)
    /\ wpc[w] \in Holding \ {"poll"} => ~Qsub
    /\ wpc[w] = "poll" => Qsub
    /\ wpc[w] \in {"unborn", "born"} => status[w] = "allocated"

JobOK(w) ==
    /\ job[w] \in {"simulated", "compressed"} /\ ~MayFail => raw[w] = Outputs
    /\ job[w] = "compressed" /\ ~MayFail => tarred[w] = Outputs
    /\ job[w] \in {"moved", "complete"} /\ ~MayFail =>
         (\A f \in Outputs : AtTop(w, f)) /\ Archived(w)
    /\ status[w] = "done" => job[w] = "complete"
    /\ wpc[w] \in {"unborn", "born"} => status[w] = "allocated"

ResultInv ==
    IF Qsub THEN \A w \in Instances : JobOK(w) /\ wpc[w] \notin Holding \ {"poll"}
            ELSE \A w \in Instances : WorkerOK(w) /\ wpc[w] # "poll"

\* A file that is somewhere stays there.
LEMMA FilesStay ==
  ASSUME PoolInv, PlaceInv, [Next]_vars, NEW w \in Instances, NEW f
  PROVE  /\ Somewhere(w, f) => Somewhere(w, f)'
         /\ AtTop(w, f) => AtTop(w, f)'
<1>1. w # Earlier
  BY DEF Instances, Earlier
<1>2. \A d : [what |-> f, of |-> w, at |-> d] \in files =>
               [what |-> f, of |-> w, at |-> d] \in files'
  BY <1>1, PlaceStep
<1>. QED
  BY <1>2 DEF Somewhere, AtTop

\* The file that worker w adds in the current directory is somewhere.
LEMMA FileAppears ==
  ASSUME PoolInv, PlaceInv, NEW w \in Instances, wpc[w] # "unborn", NEW f,
         files' = files \cup {[what |-> f, of |-> w, at |-> cwd]}
  PROVE  Somewhere(w, f)'
<1>1. cwd = Top \/ (w < cwd /\ cwd \in Instances)
  BY CwdIsLater DEF PoolInv, TypeOK, LoopInv
<1>. QED
  BY <1>1 DEF Somewhere, AtTop

LEMMA ResultsInit == Init => ResultInv
  BY DEF Init, ResultInv, WorkerOK, JobOK, Holding

\* A step leaves the workers it does not move as they are.
LEMMA OthersKeep ==
  ASSUME PoolInv, PlaceInv, [Next]_vars, NEW w \in Instances,
         wpc'[w] = wpc[w], status'[w] = status[w], tarred'[w] = tarred[w]
  PROVE  /\ WorkerOK(w) => WorkerOK(w)'
         /\ JobOK(w) /\ job'[w] = job[w] /\ raw'[w] = raw[w] => JobOK(w)'
<1>1. /\ Renamed(w) => Renamed(w)'
      /\ Archived(w) => Archived(w)'
      /\ Somewhere(w, "txt") => Somewhere(w, "txt")'
      /\ Somewhere(w, "tar") => Somewhere(w, "tar")'
      /\ (\A f \in Outputs : AtTop(w, f)) => (\A f \in Outputs : AtTop(w, f)')
  BY FilesStay DEF Renamed, Archived
<1>2. WorkerOK(w) => WorkerOK(w)'
  BY <1>1 DEF WorkerOK
<1>3. JobOK(w) /\ job'[w] = job[w] /\ raw'[w] = raw[w] => JobOK(w)'
  BY <1>1 DEF JobOK
<1>. QED
  BY <1>2, <1>3

LEMMA LocalResults ==
  ASSUME ~Qsub, PoolInv, PlaceInv, ResultInv, NEW w \in Instances,
         LocalWorker(w) \/ ChildExits(w)
  PROVE  ResultInv'
<1>. USE DEF ResultInv
<1>1. [Next]_vars
  BY DEF Next
<1>2. \A v \in Instances : v # w =>
        wpc'[v] = wpc[v] /\ status'[v] = status[v] /\ tarred'[v] = tarred[v]
  BY DEF LocalWorker, ChildExits, LaunchChild, RenameOutput, RenameRaises,
         CreateArchive, AddToArchive, AddRaises, Finish, PoolInv, TypeOK
<1>3. \A v \in Instances : v # w => WorkerOK(v)' /\ wpc'[v] # "poll"
  BY <1>1, <1>2, OthersKeep
<1>4. WorkerOK(w) /\ wpc[w] # "poll"
  OBVIOUS
<1>5. \A f : Somewhere(w, f) => Somewhere(w, f)'
  BY <1>1, FilesStay
<1>6. status[w] # "done" /\ wpc[w] \notin {"unborn", "exited"}
  BY <1>4 DEF WorkerOK, LocalWorker, ChildExits, LaunchChild, RenameOutput,
              RenameRaises, CreateArchive, AddToArchive, AddRaises, Finish, Outputs
<1>7. CASE LaunchChild(w)
  <2>1. wpc'[w] = "child" /\ status'[w] = "simulating"
    BY <1>7 DEF LaunchChild, PoolInv, TypeOK
  <2>. QED
    BY <1>3, <2>1 DEF WorkerOK
<1>8. CASE ChildExits(w)
  <2>1. wpc'[w] = "txt" /\ status'[w] = status[w]
    BY <1>8 DEF ChildExits, PoolInv, TypeOK
  <2>. QED
    BY <1>3, <1>6, <2>1 DEF WorkerOK
<1>9. CASE RenameOutput(w)
  <2>1. status'[w] = status[w]
    BY <1>9 DEF RenameOutput
  <2>2. CASE wpc[w] = "txt"
    <3>1. wpc'[w] = "wav"
      BY <1>9, <2>2 DEF RenameOutput, PoolInv, TypeOK
    <3>2. Somewhere(w, "txt")'
      BY <1>9, <2>2, FileAppears DEF RenameOutput
    <3>. QED
      BY <1>3, <1>6, <2>1, <3>1, <3>2 DEF WorkerOK
  <2>3. CASE wpc[w] = "wav"
    <3>1. wpc'[w] = IF Bzip2 THEN "archive" ELSE "finish"
      BY <1>9, <2>3 DEF RenameOutput, PoolInv, TypeOK
    <3>2. Somewhere(w, "wav")'
      BY <1>9, <2>3, FileAppears DEF RenameOutput
    <3>3. Renamed(w)'
      BY <1>4, <1>5, <2>3, <3>2 DEF WorkerOK, Renamed, Outputs
    <3>. QED
      BY <1>3, <1>6, <2>1, <3>1, <3>3 DEF WorkerOK, Archived
  <2>. QED
    BY <1>9, <2>2, <2>3 DEF RenameOutput, Outputs
<1>10. CASE RenameRaises(w) \/ AddRaises(w)
  <2>1. wpc'[w] = "dead" /\ status'[w] = status[w]
    BY <1>10 DEF RenameRaises, AddRaises, PoolInv, TypeOK
  <2>. QED
    BY <1>3, <1>6, <2>1 DEF WorkerOK
<1>11. CASE CreateArchive(w)
  <2>1. wpc[w] = "archive" /\ wpc'[w] = "addtxt" /\ status'[w] = "compressing"
    BY <1>11 DEF CreateArchive, PoolInv, TypeOK
  <2>2. Somewhere(w, "tar")'
    BY <1>11, FileAppears DEF CreateArchive
  <2>3. Renamed(w)'
    BY <1>4, <1>5, <2>1 DEF WorkerOK, Renamed
  <2>. QED
    BY <1>3, <2>1, <2>2, <2>3 DEF WorkerOK
<1>12. CASE AddToArchive(w)
  <2>1. /\ status'[w] = status[w] /\ wpc[w] \in {"addtxt", "addwav"}
        /\ wpc'[w] = IF wpc[w] = "addtxt" THEN "addwav" ELSE "finish"
        /\ tarred'[w] = tarred[w] \cup {ToAdd(w)}
    BY <1>12 DEF AddToArchive, PoolInv, TypeOK
  <2>2. Renamed(w)' /\ Somewhere(w, "tar")'
    BY <1>4, <1>5, <2>1 DEF WorkerOK, Renamed
  <2>3. wpc[w] = "addtxt" => "txt" \in tarred'[w]
    BY <2>1 DEF ToAdd
  <2>4. wpc[w] = "addwav" => Archived(w)'
    <3>1. wpc[w] = "addwav" => tarred'[w] = Outputs
      BY <1>4, <2>1 DEF WorkerOK, ToAdd, PoolInv, TypeOK, Outputs
    <3>. QED
      BY <2>2, <3>1 DEF Archived
  <2>. QED
    BY <1>3, <1>6, <2>1, <2>2, <2>3, <2>4 DEF WorkerOK
<1>13. CASE Finish(w)
  <2>1. /\ wpc[w] = "finish" /\ wpc'[w] = "exited" /\ tarred' = tarred
    BY <1>13 DEF Finish, PoolInv, TypeOK
  <2>2. Renamed(w)' /\ Archived(w)'
    BY <1>4, <1>5, <2>1 DEF WorkerOK, Renamed, Archived
  <2>. QED
    BY <1>3, <2>1, <2>2 DEF WorkerOK, Holding
<1>. QED
  BY <1>7, <1>8, <1>9, <1>10, <1>11, <1>12, <1>13 DEF LocalWorker

LEMMA GridResults ==
  ASSUME Qsub, PoolInv, PlaceInv, ResultInv, NEW w \in Instances,
         GridWorker(w) \/ Job(w) \/ JobLost(w)
  PROVE  ResultInv'
<1>. USE DEF ResultInv
<1>1. [Next]_vars
  BY DEF Next
<1>2. \A v \in Instances : v # w =>
        /\ wpc'[v] = wpc[v] /\ status'[v] = status[v] /\ tarred'[v] = tarred[v]
        /\ job'[v] = job[v] /\ raw'[v] = raw[v]
  BY DEF GridWorker, Submit, SubmitRaises, PollPending, PollComplete, Job, JobLost,
         JobStage, JobSimulated, JobCompresses, JobMoves, JobTouches, grid,
         PoolInv, TypeOK
<1>3. \A v \in Instances : v # w => JobOK(v)' /\ wpc'[v] \notin Holding \ {"poll"}
  BY <1>1, <1>2, OthersKeep
<1>4. JobOK(w) /\ wpc[w] \notin Holding \ {"poll"}
  OBVIOUS
<1>5. \A f : (Somewhere(w, f) => Somewhere(w, f)') /\ (AtTop(w, f) => AtTop(w, f)')
  BY <1>1, FilesStay
<1>6. wpc'[w] \in {wpc[w], "poll", "exited"}
  BY DEF GridWorker, Submit, SubmitRaises, PollPending, PollComplete, Job, JobLost,
         JobStage, JobSimulated, JobCompresses, JobMoves, JobTouches, PoolInv, TypeOK
<1>7. wpc'[w] \notin Holding \ {"poll"}
  BY <1>4, <1>6 DEF Holding
<1>8. CASE Submit(w)
  <2>1. wpc'[w] = "poll" /\ status'[w] = "submitted" /\ job'[w] = "queued"
    BY <1>8 DEF Submit, PoolInv, TypeOK
  <2>. QED
    BY <1>3, <1>7, <2>1 DEF JobOK
<1>9. CASE SubmitRaises(w)
  <2>1. /\ wpc'[w] = "exited" /\ status'[w] = "error"
        /\ UNCHANGED <<job, raw, tarred, files>>
    BY <1>9 DEF SubmitRaises, PoolInv, TypeOK, grid
  <2>2. JobOK(w)'
    BY <1>4, <2>1 DEF JobOK, AtTop, Archived, Somewhere
  <2>. QED
    BY <1>3, <1>7, <2>2
<1>10. CASE PollPending(w) \/ PollComplete(w)
  <2>1. /\ wpc[w] = "poll" /\ wpc'[w] \in {"poll", "exited"}
        /\ status'[w] = "done" => job[w] = "complete" \/ status[w] = "done"
        /\ UNCHANGED <<job, raw, tarred, files>>
    BY <1>10 DEF PollPending, PollComplete, Stage, PoolInv, TypeOK, grid
  <2>2. JobOK(w)'
    BY <1>4, <2>1 DEF JobOK, AtTop, Archived, Somewhere
  <2>. QED
    BY <1>3, <1>7, <2>2
<1>11. CASE JobLost(w) \/ JobStage(w)
  <2>1. /\ job'[w] \in {"lost", "compiling", "simulating"}
        /\ job[w] \in {"queued", "compiling"}
        /\ UNCHANGED <<status, wpc>>
    BY <1>11 DEF JobLost, JobStage, PoolInv, TypeOK
  <2>. QED
    BY <1>3, <1>4, <1>7, <2>1 DEF JobOK
<1>12. CASE JobSimulated(w)
  <2>1. /\ job'[w] = "simulated" /\ job[w] = "simulating"
        /\ UNCHANGED <<status, wpc>> /\ (~MayFail => raw'[w] = Outputs)
    BY <1>12 DEF JobSimulated, Outcome, PoolInv, TypeOK
  <2>. QED
    BY <1>3, <1>4, <1>7, <2>1 DEF JobOK
<1>13. CASE JobCompresses(w)
  <2>1. /\ job'[w] = "compressed" /\ job[w] = "simulated"
        /\ UNCHANGED <<status, wpc, raw>> /\ tarred'[w] = raw[w]
    BY <1>13 DEF JobCompresses, PoolInv, TypeOK
  <2>. QED
    BY <1>3, <1>4, <1>7, <2>1 DEF JobOK
<1>14. CASE JobMoves(w)
  <2>1. /\ job'[w] = "moved" /\ job[w] = IF Bzip2 THEN "compressed" ELSE "simulated"
        /\ UNCHANGED <<status, wpc, tarred>>
        /\ \A f \in raw[w] \cup (IF Bzip2 THEN {"tar"} ELSE {}) : AtTop(w, f)'
    BY <1>14 DEF JobMoves, AtTop, PoolInv, TypeOK
  <2>2. ~MayFail => (\A f \in Outputs : AtTop(w, f)') /\ Archived(w)'
    BY <1>4, <2>1 DEF JobOK, Archived, Somewhere
  <2>. QED
    BY <1>3, <1>4, <1>7, <2>1, <2>2 DEF JobOK
<1>15. CASE JobTouches(w)
  <2>1. /\ job'[w] = "complete" /\ job[w] = "moved"
        /\ UNCHANGED <<status, wpc, tarred>>
    BY <1>15 DEF JobTouches, ToTouch, PoolInv, TypeOK
  <2>2. Archived(w) => Archived(w)'
    BY <1>5, <2>1 DEF Archived
  <2>. QED
    BY <1>3, <1>4, <1>5, <1>7, <2>1, <2>2 DEF JobOK
<1>. QED
  BY <1>8, <1>9, <1>10, <1>11, <1>12, <1>13, <1>14, <1>15 DEF GridWorker, Job

LEMMA ResultStep ==
  ASSUME PoolInv, PlaceInv, ResultInv, [Next]_vars
  PROVE  ResultInv'
<1>1. CASE UNCHANGED vars
  BY <1>1 DEF vars, main, grid, ResultInv, WorkerOK, JobOK, Renamed, Archived,
              Somewhere, AtTop
<1>2. CASE Main
  <2>1. /\ UNCHANGED <<status, tarred, raw, job>>
        /\ \A w \in Instances : \/ wpc'[w] = wpc[w]
                                \/ wpc[w] = "unborn" /\ wpc'[w] = "born"
    BY <1>2 DEF Main, EnterWorkDir, LeaveWorkDir, StartThread, AllThreadsEnded,
                PoolInv, LoopInv, TypeOK, grid
  <2>2. ASSUME NEW w \in Instances
        PROVE  (WorkerOK(w) => WorkerOK(w)') /\ (JobOK(w) => JobOK(w)')
    <3>1. /\ Renamed(w) => Renamed(w)'
          /\ Archived(w) => Archived(w)'
          /\ Somewhere(w, "txt") => Somewhere(w, "txt")'
          /\ Somewhere(w, "tar") => Somewhere(w, "tar")'
          /\ (\A f \in Outputs : AtTop(w, f)) => (\A f \in Outputs : AtTop(w, f)')
      <4>1. tarred' = tarred /\ Outputs' = Outputs
        BY <2>1 DEF Outputs
      <4>. QED
        BY <4>1, FilesStay DEF Renamed, Archived
    <3>2. \/ wpc'[w] = wpc[w]
          \/ wpc[w] = "unborn" /\ wpc'[w] = "born"
      BY <2>1
    <3>3. WorkerOK(w) => WorkerOK(w)'
      BY <2>1, <3>1, <3>2 DEF WorkerOK, Holding
    <3>4. JobOK(w) => JobOK(w)'
      BY <2>1, <3>1, <3>2 DEF JobOK
    <3>. QED
      BY <3>3, <3>4
  <2>. QED
    BY <2>1, <2>2 DEF ResultInv, Holding
<1>3. ASSUME NEW w \in Instances, LocalWorker(w) \/ ChildExits(w)
      PROVE  ResultInv'
  <2>1. ~Qsub
    BY <1>3 DEF LocalWorker, ChildExits, LaunchChild, RenameOutput, RenameRaises,
                CreateArchive, AddToArchive, AddRaises, Finish, Outputs,
                ResultInv, Holding
  <2>. QED
    BY <1>3, <2>1, LocalResults
<1>4. ASSUME NEW w \in Instances, GridWorker(w) \/ Job(w) \/ JobLost(w)
      PROVE  ResultInv'
  <2>1. Qsub
    BY <1>4 DEF GridWorker, Submit, SubmitRaises, PollPending, PollComplete, Job,
                JobLost, JobStage, JobSimulated, JobCompresses, JobMoves,
                JobTouches, ToTouch, ResultInv, PoolInv, JobInv
  <2>. QED
    BY <1>4, <2>1, GridResults
<1>. QED
  BY <1>1, <1>2, <1>3, <1>4 DEF Next

\* A worker that reports "done" has left complete results (simulate.py:46-58,
\* and :75-84 with :96-104 for the grid), wherever main was meanwhile.
THEOREM ResultsComplete == Spec => []DoneHasResults
<1>1. PoolInv /\ PlaceInv /\ ResultInv /\ [Next]_vars => ResultInv'
  BY ResultStep
<1>2. ResultInv => DoneHasResults
  BY DEF ResultInv, WorkerOK, JobOK, DoneHasResults, Finished, Renamed, Archived
<1>. QED
  BY <1>1, <1>2, ResultsInit, PoolInvariant, PlaceInvariant, PTL DEF Spec

=============================================================================
