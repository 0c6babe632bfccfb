---------------------------- MODULE SimulatePool ----------------------------
(***************************************************************************)
(* scripts/simulate.py: the main thread sets up one work directory and     *)
(* starts one thread per simulator instance, then waits until it is the    *)
(* only thread left.  A bounded semaphore limits how many of the threads   *)
(* simulate at a time.  A LocalWorker runs the simulator as a child        *)
(* process and renames its two output files to the current directory; a    *)
(* GridWorker submits a script to the grid engine and polls for a file the *)
(* script touches last.                                                    *)
(*                                                                         *)
(* The current directory belongs to the process: main changes it while     *)
(* workers use paths relative to it.                                       *)
(***************************************************************************)
EXTENDS Integers, FiniteSets

CONSTANTS
    Inst,       \* --inst: number of simulator instances
    Dop,        \* --dop: maximum degree of parallelism, 0 for Inst
    Qsub,       \* --qsub: use GridWorker rather than LocalWorker
    Bzip2,      \* --bzip2: archive the results
    MayFail,    \* may a simulation end without its output files?
    MayBeLost   \* may the grid engine lose a job, or qsub be missing?

\* What parse_command_line accepts.
ASSUME ArgsAssumption ==
    /\ Inst \in Nat \ {0}
    /\ Dop \in 0 .. Inst
    /\ Qsub \in BOOLEAN /\ Bzip2 \in BOOLEAN
    /\ MayFail \in BOOLEAN /\ MayBeLost \in BOOLEAN

Instances == 1 .. Inst
Top       == 0                          \* the --work directory
Places    == {Top} \cup Instances       \* place i is the directory work_i

MaxDop == IF Dop > 0 THEN Dop ELSE Inst

Outputs == {"txt", "wav"}      \* simulation.txt and power_waveform.out
Logs    == {"compile.log", "simulate.log", "compress.log"}
Earlier == 0                   \* stands for an earlier run of the script
File    == [what : Outputs \cup {"tar"}, of : Instances \cup {Earlier}, at : Places]

VARIABLES
    mpc,      \* where main is in its loop, and after it
    i,        \* the loop variable
    cwd,      \* the current directory of the process
    permits,  \* the semaphore's counter
    wpc,      \* wpc[w]: where thread w is; "dead" after an exception
    status,   \* status[w]: AbstractWorkerThread.status
    raw,      \* raw[w]: the output files in work_w under the simulator's names
    files,    \* the results and archives, under the names that carry w
    tarred,   \* tarred[w]: the members of thread w's archive
    job,      \* job[w]: how far the grid engine is with w's script
    logs      \* logs[w]: the log files in work_w

main  == <<mpc, i, cwd>>
grid  == <<job, logs>>
vars  == <<main, permits, wpc, status, raw, files, tarred, grid>>

Init ==
    /\ mpc = "enter" /\ i = 1 /\ cwd = Top
    /\ permits = MaxDop
    /\ wpc = [w \in Instances |-> "unborn"]
    /\ status = [w \in Instances |-> "allocated"]
    /\ raw = [w \in Instances |-> {}]
    \* an earlier run may have left a directory with a stray result in it
    /\ files \in SUBSET [what : {"txt"}, of : {Earlier}, at : {Inst}]
    /\ tarred = [w \in Instances |-> {}]
    /\ job = [w \in Instances |-> "none"]
    /\ logs = [w \in Instances |-> {}]

-----------------------------------------------------------------------------
(* The main thread. *)

\* Mutant: every work directory is deleted, not only the one to be set up.
DeletedAll(d) == {f \in files : f.at = Top}

\* shutil.rmtree(work_path), if it exists
Deleted(d) == {f \in files : f.at # d}

EnterWorkDir ==
    /\ mpc = "enter"
    /\ files' = Deleted(i)
    /\ cwd' = i
    /\ mpc' = "leave"
    /\ UNCHANGED <<i, permits, wpc, status, raw, tarred, grid>>

\* Mutant: the loop does not change back to the top level directory.
StaysInside == i

Back == Top

LeaveWorkDir ==
    /\ mpc = "leave"
    /\ cwd' = Back
    /\ mpc' = "start"
    /\ UNCHANGED <<i, permits, wpc, status, raw, files, tarred, grid>>

StartThread ==
    /\ mpc = "start"
    /\ wpc' = [wpc EXCEPT ![i] = "born"]
    /\ i' = i + 1
    /\ mpc' = IF i < Inst THEN "enter" ELSE "wait"
    /\ UNCHANGED <<cwd, permits, status, raw, files, tarred, grid>>

\* threading.active_count() = 1
AllThreadsEnded ==
    /\ mpc = "wait"
    /\ \A w \in Instances : wpc[w] \in {"exited", "dead"}
    /\ mpc' = "exited"
    /\ UNCHANGED <<i, cwd, permits, wpc, status, raw, files, tarred, grid>>

Main == EnterWorkDir \/ LeaveWorkDir \/ StartThread \/ AllThreadsEnded

-----------------------------------------------------------------------------
(* The semaphore. *)

\* Mutant: the semaphore is entered but not decremented.
NotAcquired == permits

Acquired == permits - 1

\* Mutant: the thread ends without giving its permit back.
NotReleased == permits

Released == permits + 1

-----------------------------------------------------------------------------
(* LocalWorker.run *)

LaunchChild(w) ==
    /\ ~Qsub
    /\ wpc[w] = "born"
    /\ permits > 0
    /\ permits' = Acquired
    /\ status' = [status EXCEPT ![w] = "simulating"]
    /\ wpc' = [wpc EXCEPT ![w] = "child"]
    /\ UNCHANGED <<main, raw, files, tarred, grid>>

\* The outputs a simulation can leave: make's exit code is not looked at.
Outcome == IF MayFail THEN SUBSET Outputs ELSE {Outputs}

ChildExits(w) ==
    /\ wpc[w] = "child"
    /\ \E out \in Outcome : raw' = [raw EXCEPT ![w] = out]
    /\ wpc' = [wpc EXCEPT ![w] = "txt"]
    /\ UNCHANGED <<main, permits, status, files, tarred, grid>>

\* os.rename to a name relative to the current directory: first the texts,
\* then the waveforms.
RenameOutput(w) ==
    /\ wpc[w] \in Outputs
    /\ wpc[w] \in raw[w]
    /\ raw' = [raw EXCEPT ![w] = @ \ {wpc[w]}]
    /\ files' = files \cup {[what |-> wpc[w], of |-> w, at |-> cwd]}
    /\ wpc' = [wpc EXCEPT ![w] = IF @ = "txt" THEN "wav"
                                 ELSE IF Bzip2 THEN "archive" ELSE "finish"]
    /\ UNCHANGED <<main, permits, status, tarred, grid>>

\* The file is not there: the exception ends the thread, the semaphore is not
\* released and the status stays.
RenameRaises(w) ==
    /\ wpc[w] \in Outputs
    /\ wpc[w] \notin raw[w]
    /\ wpc' = [wpc EXCEPT ![w] = "dead"]
    /\ UNCHANGED <<main, permits, status, raw, files, tarred, grid>>

CreateArchive(w) ==
    /\ wpc[w] = "archive"
    /\ status' = [status EXCEPT ![w] = "compressing"]
    /\ files' = files \cup {[what |-> "tar", of |-> w, at |-> cwd]}
    /\ wpc' = [wpc EXCEPT ![w] = "addtxt"]
    /\ UNCHANGED <<main, permits, raw, tarred, grid>>

\* The file that tar.add is to add next, looked up in the current directory.
ToAdd(w) == IF wpc[w] = "addtxt" THEN "txt" ELSE "wav"
Visible(w) == [what |-> ToAdd(w), of |-> w, at |-> cwd] \in files

AddToArchive(w) ==
    /\ wpc[w] \in {"addtxt", "addwav"}
    /\ Visible(w)
    /\ tarred' = [tarred EXCEPT ![w] = @ \cup {ToAdd(w)}]
    /\ wpc' = [wpc EXCEPT ![w] = IF @ = "addtxt" THEN "addwav" ELSE "finish"]
    /\ UNCHANGED <<main, permits, status, raw, files, grid>>

AddRaises(w) ==
    /\ wpc[w] \in {"addtxt", "addwav"}
    /\ ~Visible(w)
    /\ wpc' = [wpc EXCEPT ![w] = "dead"]
    /\ UNCHANGED <<main, permits, status, raw, files, tarred, grid>>

Finish(w) ==
    /\ wpc[w] = "finish"
    /\ status' = [status EXCEPT ![w] = "done"]
    /\ permits' = Released
    /\ wpc' = [wpc EXCEPT ![w] = "exited"]
    /\ UNCHANGED <<main, raw, files, tarred, grid>>

LocalWorker(w) == \/ LaunchChild(w) \/ RenameOutput(w) \/ RenameRaises(w)
                  \/ CreateArchive(w) \/ AddToArchive(w) \/ AddRaises(w)
                  \/ Finish(w)

-----------------------------------------------------------------------------
(* GridWorker.run *)

\* qsub's exit code is not looked at: the job may not have been queued.
Submit(w) ==
    /\ Qsub
    /\ wpc[w] = "born"
    /\ permits > 0
    /\ permits' = Acquired
    /\ job' = [job EXCEPT ![w] = "queued"]
    /\ status' = [status EXCEPT ![w] = "submitted"]
    /\ wpc' = [wpc EXCEPT ![w] = "poll"]
    /\ UNCHANGED <<main, raw, files, tarred, logs>>

\* subprocess.call raises: the permit is taken and given back.
SubmitRaises(w) ==
    /\ Qsub /\ MayBeLost
    /\ wpc[w] = "born"
    /\ permits > 0
    /\ status' = [status EXCEPT ![w] = "error"]
    /\ wpc' = [wpc EXCEPT ![w] = "exited"]
    /\ UNCHANGED <<main, permits, raw, files, tarred, grid>>

\* The latest stage whose log file exists.
Stage(w) == IF "compress.log" \in logs[w] THEN "compressing"
            ELSE IF "simulate.log" \in logs[w] THEN "simulating"
            ELSE IF "compile.log" \in logs[w] THEN "compiling"
            ELSE status[w]

PollPending(w) ==
    /\ wpc[w] = "poll"
    /\ job[w] # "complete"
    /\ status' = [status EXCEPT ![w] = Stage(w)]
    /\ UNCHANGED <<main, permits, wpc, raw, files, tarred, grid>>

PollComplete(w) ==
    /\ wpc[w] = "poll"
    /\ job[w] = "complete"
    /\ status' = [status EXCEPT ![w] = "done"]
    /\ permits' = Released
    /\ wpc' = [wpc EXCEPT ![w] = "exited"]
    /\ UNCHANGED <<main, raw, files, tarred, grid>>

GridWorker(w) == Submit(w) \/ SubmitRaises(w) \/ PollPending(w) \/ PollComplete(w)

-----------------------------------------------------------------------------
(* The script of gen_script, run by the grid engine in work_w. *)

JobLost(w) ==
    /\ MayBeLost
    /\ job[w] = "queued"
    /\ job' = [job EXCEPT ![w] = "lost"]
    /\ UNCHANGED <<main, permits, wpc, status, raw, files, tarred, logs>>

\* make writes a log for each of its stages, or none (target vsim).
JobStage(w) ==
    /\ job[w] \in {"queued", "compiling"}
    /\ job' = [job EXCEPT ![w] = IF @ = "queued" THEN "compiling" ELSE "simulating"]
    /\ \E log \in SUBSET {IF job[w] = "queued" THEN "compile.log" ELSE "simulate.log"} :
          logs' = [logs EXCEPT ![w] = @ \cup log]
    /\ UNCHANGED <<main, permits, wpc, status, raw, files, tarred>>

JobSimulated(w) ==
    /\ job[w] = "simulating"
    /\ \E out \in Outcome : raw' = [raw EXCEPT ![w] = out]
    /\ job' = [job EXCEPT ![w] = "simulated"]
    /\ UNCHANGED <<main, permits, wpc, status, files, tarred, logs>>

\* tar adds the members that exist.
JobCompresses(w) ==
    /\ Bzip2
    /\ job[w] = "simulated"
    /\ logs' = [logs EXCEPT ![w] = @ \cup {"compress.log"}]
    /\ tarred' = [tarred EXCEPT ![w] = raw[w]]
    /\ job' = [job EXCEPT ![w] = "compressed"]
    /\ UNCHANGED <<main, permits, wpc, status, raw, files>>

\* mv to ../ moves what exists, whatever main's current directory is.
JobMoves(w) ==
    /\ job[w] = IF Bzip2 THEN "compressed" ELSE "simulated"
    /\ LET moved == raw[w] \cup IF Bzip2 THEN {"tar"} ELSE {}
       IN  files' = files \cup [what : moved, of : {w}, at : {Top}]
    /\ raw' = [raw EXCEPT ![w] = {}]
    /\ job' = [job EXCEPT ![w] = "moved"]
    /\ UNCHANGED <<main, permits, wpc, status, tarred, logs>>

\* Mutant: the script touches .complete before it moves the results.
TouchedEarly(w) == job[w] \in {"simulated", "compressed", "moved"}

ToTouch(w) == job[w] = "moved"

JobTouches(w) ==
    /\ ToTouch(w)
    /\ job' = [job EXCEPT ![w] = "complete"]
    /\ UNCHANGED <<main, permits, wpc, status, raw, files, tarred, logs>>

Job(w) == \/ JobStage(w) \/ JobSimulated(w) \/ JobCompresses(w) \/ JobMoves(w)
          \/ JobTouches(w)

-----------------------------------------------------------------------------
Next == Main \/ \E w \in Instances : \/ LocalWorker(w) \/ ChildExits(w)
                                     \/ GridWorker(w) \/ Job(w) \/ JobLost(w)

Spec == Init /\ [][Next]_vars

\* The interpreter runs every runnable thread, simulations end, and a job that
\* is not lost is run.  A thread that waits for the semaphore competes with
\* finitely many others, each of which takes it once, so weak fairness will do.
Fairness == /\ WF_vars(Main)
            /\ \A w \in Instances : /\ WF_vars(LocalWorker(w))
                                    /\ WF_vars(ChildExits(w))
                                    /\ WF_vars(GridWorker(w))
                                    /\ WF_vars(Job(w))

FairSpec == Spec /\ Fairness

-----------------------------------------------------------------------------
Phases == {"unborn", "born", "child", "txt", "wav", "archive", "addtxt",
           "addwav", "finish", "poll", "exited", "dead"}

\* Every variable has its type; BoundedSemaphore never raises for a release
\* too many.
TypeOK ==
    /\ mpc \in {"enter", "leave", "start", "wait", "exited"}
    /\ i \in 1 .. Inst + 1
    /\ cwd \in Places
    /\ permits \in 0 .. MaxDop
    /\ wpc \in [Instances -> Phases]
    /\ status \in [Instances -> {"allocated", "submitted", "compiling",
                                 "simulating", "compressing", "done", "error"}]
    /\ raw \in [Instances -> SUBSET Outputs]
    /\ files \subseteq File
    /\ tarred \in [Instances -> SUBSET Outputs]
    /\ job \in [Instances -> {"none", "queued", "lost", "compiling", "simulating",
                              "simulated", "compressed", "moved", "complete"}]
    /\ logs \in [Instances -> SUBSET Logs]

\* No more than the maximum degree of parallelism simulate at a time, locally
\* or on the grid (a lost job still holds its permit).
Busy == {w \in Instances : wpc[w] = "child" \/ job[w] \notin {"none", "complete"}}
DopRespected == Cardinality(Busy) <= MaxDop

Finished(w) == status[w] = "done" /\ (Qsub => ~MayFail)
AtTop(w, what) == [what |-> what, of |-> w, at |-> Top] \in files
Somewhere(w, what) ==
    AtTop(w, what) \/ \E d \in Instances : d > w /\ [what |-> what, of |-> w, at |-> d] \in files

\* A worker that is done has left both of its outputs, and with --bzip2 a
\* complete archive, in the top directory or in that of an instance set up
\* after its own; a job of the grid in the top directory.
DoneHasResults ==
    \A w \in Instances : Finished(w) =>
        /\ \A f \in Outputs : IF Qsub THEN AtTop(w, f) ELSE Somewhere(w, f)
        /\ Bzip2 => tarred[w] = Outputs /\ Somewhere(w, "tar")

\* No result of this run is deleted by the set-up of a later instance, in
\* whatever directory it was left.
ResultsSurvive == [][\A f \in files : f.of # Earlier => f \in files']_vars

\* The pool drains as long as one permit is left: if fewer than MaxDop threads
\* die with theirs and no job is lost, the script ends.
Stuck == {w \in Instances : wpc[w] = "dead" \/ job[w] = "lost"}
PoolDrains == [](Stuck = {} \/ (~Qsub /\ Cardinality(Stuck) < MaxDop)) => <>(mpc = "exited")

-----------------------------------------------------------------------------
(* What simulate.py says and does not do. *)

\* simulate.py:223: "wait for running threads to complete"
ScriptEnds == <>(mpc = "exited")

=============================================================================
