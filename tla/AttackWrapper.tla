---------------------------- MODULE AttackWrapper ----------------------------
(* attack_wrapper.c with the attack program attack_reference.cpp at the other *)
(* end of its pipes.  Three threads of control in two processes: the main     *)
(* thread of the wrapper, its trace thread (which fetches the next trace      *)
(* while the current one is attacked), and the attack program.  A pipe is a   *)
(* sequence of pieces; a trace crosses it in the pieces Fields, an answer in  *)
(* the pieces 1..AnswerPieces, and either side may see only some of them yet. *)
EXTENDS TraceSource

CONSTANTS
    num_iterations,  \* how many traces are sent
    num_dbkey,       \* the number of the attacked key
    Inputs,          \* set of [source : {"dir", "db"}, entries : set of entries]
    NumPoints,       \* TRACE_NUM_POINTS
    Modes,           \* subset of {"fork", "fifo"}
    Capacity,        \* pieces a pipe can hold
    Preambles,       \* what the attack program may print before it is ready
    MayDie,          \* whether the attack program may die
    Nothing          \* the value of memory that no trace was written to

Fields == <<"text", "head", "tail">>
AnswerPieces == 2

ASSUME WrapperAssumption ==
    /\ num_iterations \in Nat \ {0} /\ num_dbkey \in Nat
    /\ Modes \subseteq {"fork", "fifo"} /\ MayDie \in BOOLEAN

ASSUME InputAssumption ==
    \A inp \in Inputs :
        inp.source \in {"dir", "db"} /\ inp.entries \subseteq Entry /\ IsFiniteSet(inp.entries)

\* A pipe holds a trace: TRACE_NUM_POINTS samples of two bytes and the texts are
\* some 6.5 of the 64 kilobytes of a pipe.
ASSUME PipeAssumption == Capacity \in Nat /\ Capacity >= Len(Fields)

ready == <<"LF", ".", "LF">>

\* What is printed before the attack program is ready does not say that it is.
ASSUME PreambleAssumption ==
    \A preamble \in Preambles :
        /\ preamble \in Seq({"LF", ".", "other"})
        /\ \A i \in 1..Len(preamble) : SubSeq(preamble \o ready, i, i + 2) # ready

VARIABLES
    mode, source, files,  \* fifo_mode; trace_dir == NULL; trace_filenames
    mpc, seen,            \* the main thread; the state of wait_start_attack_phase
    current_trace_num, current_trace, sent, received,
    records,              \* the result file
    tpc, trace_num, place, next_trace,   \* the trace thread; its place in files
    to_read, to_write,    \* the semaphores
    down, up,             \* wrapper -> attack program, attack program -> wrapper
    apc, told, got, out,  \* the attack program; traces it expects; pieces of a
                          \* trace it has read; pieces it has yet to write
    sigchld               \* SIGCHLD is pending

setup == <<mode, source, files>>
mainVars == <<mpc, seen, current_trace_num, current_trace, sent, received, records>>
threadVars == <<tpc, trace_num, place, next_trace>>
semaphores == <<to_read, to_write>>
pipes == <<down, up>>
attackVars == <<apc, told, got, out>>
vars == <<setup, mainVars, threadVars, semaphores, pipes, attackVars, sigchld>>

Running == mpc \notin {"succeeded", "failed"}
AttackAlive == apc \notin {"none", "ended", "dead"}
Trace == [{"text", "head", "tail"} -> {Nothing} \union UNION {inp.entries : inp \in Inputs}]
NoTrace == [f \in {"text", "head", "tail"} |-> Nothing]
correct_key == files[trace_dir_findkey(files, num_dbkey)].key

------------------------------------------------------------------------------
(* The main thread.                                                           *)

\* Files are opened, pipes created, and the key is found or the program ends;
\* the attack program is launched by the wrapper, or by its user on the FIFOs.
Init ==
    /\ mode \in Modes
    /\ \E inp \in Inputs :
        source = inp.source /\ files \in trace_dir_init(inp.source, inp.entries)
    /\ place = trace_dir_findkey(files, num_dbkey)
    /\ mpc = IF place = 0 THEN "failed" ELSE "send_num"
    /\ seen = 0 /\ current_trace_num = 0 /\ current_trace = NoTrace
    /\ sent = 0 /\ received = <<>> /\ records = <<>>
    /\ tpc = "none" /\ trace_num = 0 /\ next_trace = NoTrace
    /\ to_read = 0 /\ to_write = 0 /\ down = <<>> /\ up = <<>>
    /\ apc = IF place = 0 THEN "none" ELSE "read_num"
    /\ told = 0 /\ got = <<>> /\ sigchld = FALSE
    /\ out \in {preamble \o ready : preamble \in Preambles}

\* send_data, for one piece.  Without a reader the write raises SIGPIPE, which
\* ends the wrapper (fork mode); in FIFO mode the wrapper is a reader of the
\* FIFO itself, and a full FIFO is an error since it is opened O_NONBLOCK.
NoReader == mode = "fork" /\ ~AttackAlive
SendFails ==
    /\ mpc \in {"send_num", "send"}
    /\ NoReader \/ (mode = "fifo" /\ Len(down) = Capacity)
    /\ mpc' = "failed"
    /\ UNCHANGED <<setup, seen, current_trace_num, current_trace, sent, received, records,
                   threadVars, semaphores, pipes, attackVars, sigchld>>

send_num_iterations ==
    /\ mpc = "send_num" /\ ~NoReader /\ Len(down) < Capacity
    /\ down' = Append(down, num_iterations)
    /\ mpc' = "wait_start"
    /\ UNCHANGED <<setup, seen, current_trace_num, current_trace, sent, received, records,
                   threadVars, semaphores, up, attackVars, sigchld>>

\* One byte of wait_start_attack_phase: LF.LF is looked for, and a byte that
\* does not fit starts the search anew without being looked at again.
expects(state, byte) ==
    CASE state = 0 /\ byte = "LF" -> 1
      [] state = 1 /\ byte = "." -> 2
      [] state = 2 /\ byte = "LF" -> 3
      [] OTHER -> 0

\* The marker found, launch_trace_thread starts with one trace to be written.
wait_start_attack_phase ==
    /\ mpc = "wait_start" /\ up # <<>>
    /\ up' = Tail(up) /\ seen' = expects(seen, Head(up))
    /\ IF seen' = 3
       THEN mpc' = "get" /\ tpc' = "sem_wait" /\ to_read' = 0 /\ to_write' = 1
       ELSE UNCHANGED <<mpc, tpc, semaphores>>
    /\ UNCHANGED <<setup, current_trace_num, current_trace, sent, received, records,
                   trace_num, place, next_trace, down, attackVars, sigchld>>

\* poll reports that the other end was closed (never in FIFO mode).
NothingToRead ==
    /\ mpc = "wait_start" /\ up = <<>> /\ NoReader
    /\ mpc' = "failed"
    /\ UNCHANGED <<setup, seen, current_trace_num, current_trace, sent, received, records,
                   threadVars, semaphores, pipes, attackVars, sigchld>>

\* get_trace_from_trace_thread: wait, copy in two pieces, post.
GetTrace ==
    /\ mpc = "get" /\ to_read > 0
    /\ to_read' = to_read - 1 /\ mpc' = "copy"
    /\ UNCHANGED <<setup, seen, current_trace_num, current_trace, sent, received, records,
                   threadVars, to_write, pipes, attackVars, sigchld>>

\* Mutant: the thread is released before the samples are copied.
CopyText_posts ==
    /\ mpc = "copy" /\ mpc' = "copy_samples"
    /\ current_trace' = [current_trace EXCEPT !["text"] = next_trace["text"]]
    /\ to_write' = to_write + 1
    /\ UNCHANGED <<setup, seen, current_trace_num, sent, received, records,
                   threadVars, to_read, pipes, attackVars, sigchld>>

CopyText ==
    /\ mpc = "copy" /\ mpc' = "copy_samples"
    /\ current_trace' = [current_trace EXCEPT !["text"] = next_trace["text"]]
    /\ UNCHANGED <<setup, seen, current_trace_num, sent, received, records,
                   threadVars, semaphores, pipes, attackVars, sigchld>>

CopySamples ==
    /\ mpc = "copy_samples" /\ mpc' = "send"
    /\ current_trace' = [next_trace EXCEPT !["text"] = current_trace["text"]]
    /\ to_write' = to_write + 1 /\ sent' = 0
    /\ UNCHANGED <<setup, seen, current_trace_num, received, records,
                   threadVars, to_read, pipes, attackVars, sigchld>>

send_trace ==
    /\ mpc = "send" /\ ~NoReader /\ Len(down) < Capacity
    /\ down' = Append(down, [field |-> Fields[sent + 1],
                             trace |-> current_trace[Fields[sent + 1]]])
    /\ sent' = sent + 1
    /\ IF sent' = Len(Fields) THEN mpc' = "read" /\ received' = <<>>
                              ELSE UNCHANGED <<mpc, received>>
    /\ UNCHANGED <<setup, seen, current_trace_num, current_trace, records,
                   threadVars, semaphores, up, attackVars, sigchld>>

\* dump_result_to_file: the texts are those of the current trace.
dump_result_to_file(result) ==
    records' = Append(records, [text |-> current_trace["text"], result |-> result])

\* One read of read_data, and after the last one the end of the iteration.  At
\* the end of file read returns 0 and the loop goes on: there is no such step.
read_result ==
    /\ mpc = "read" /\ up # <<>>
    /\ up' = Tail(up) /\ received' = Append(received, Head(up))
    /\ IF Len(received') = AnswerPieces
       THEN /\ dump_result_to_file(received')
            /\ current_trace_num' = current_trace_num + 1
            /\ mpc' = IF current_trace_num' = num_iterations THEN "join" ELSE "get"
       ELSE UNCHANGED <<mpc, records, current_trace_num>>
    /\ UNCHANGED <<setup, seen, current_trace, sent, threadVars, semaphores, down,
                   attackVars, sigchld>>

\* close_everything, wait_trace_thread_termination and, in fork mode, wait.
wait_trace_thread_termination ==
    /\ mpc = "join" /\ tpc = "done"
    /\ mpc' = IF mode = "fork" THEN "wait" ELSE "succeeded"
    /\ UNCHANGED <<setup, seen, current_trace_num, current_trace, sent, received, records,
                   threadVars, semaphores, pipes, attackVars, sigchld>>

WaitChild ==
    /\ mpc = "wait" /\ ~AttackAlive
    /\ mpc' = "succeeded"
    /\ UNCHANGED <<setup, seen, current_trace_num, current_trace, sent, received, records,
                   threadVars, semaphores, pipes, attackVars, sigchld>>

------------------------------------------------------------------------------
(* SIGCHLD, between two steps of the main thread or in a blocked call of it.  *)

\* Mutant: the signal is taken for normal one iteration too early.
LastIteration_early == current_trace_num + 2 >= num_iterations

LastIteration == current_trace_num >= num_iterations - 1

sig_chld_handler ==
    /\ Running /\ sigchld /\ sigchld' = FALSE
    /\ mpc' = IF LastIteration THEN mpc ELSE "failed"
    /\ UNCHANGED <<setup, seen, current_trace_num, current_trace, sent, received, records,
                   threadVars, semaphores, pipes, attackVars>>

\* The handler was installed without SA_RESTART: a blocked read or poll fails,
\* which ends the program, and a blocked sem_wait returns without the semaphore,
\* which get_trace_from_trace_thread does not notice.
Interrupted ==
    /\ sigchld /\ LastIteration /\ sigchld' = FALSE
    /\ \/ mpc \in {"wait_start", "read"} /\ up = <<>> /\ mpc' = "failed"
       \/ mpc = "get" /\ to_read = 0 /\ mpc' = "copy"
    /\ UNCHANGED <<setup, seen, current_trace_num, current_trace, sent, received, records,
                   threadVars, semaphores, pipes, attackVars>>

------------------------------------------------------------------------------
(* The trace thread: trace_thread_routine.                                    *)

\* Mutant: the thread does not wait for the copy of the last trace.
AwaitWritable_not ==
    /\ Running /\ tpc = "sem_wait"
    /\ tpc' = "fetch"
    /\ UNCHANGED <<setup, mainVars, trace_num, place, next_trace, semaphores, pipes,
                   attackVars, sigchld>>

AwaitWritable ==
    /\ Running /\ tpc = "sem_wait" /\ to_write > 0
    /\ to_write' = to_write - 1 /\ tpc' = "fetch"
    /\ UNCHANGED <<setup, mainVars, trace_num, place, next_trace, to_read, pipes,
                   attackVars, sigchld>>

\* exit from the trace thread: the whole wrapper ends.
NoMoreTraces ==
    /\ Running /\ tpc = "fetch"
    /\ ~CanGetTrace(source, files, place, correct_key, NumPoints)
    /\ mpc' = "failed"
    /\ UNCHANGED <<setup, seen, current_trace_num, current_trace, sent, received, records,
                   threadVars, semaphores, pipes, attackVars, sigchld>>

\* parse_trace_file: a file that ends early leaves the last samples as they were.
ParseSamples ==
    /\ Running /\ tpc = "fetch"
    /\ CanGetTrace(source, files, place, correct_key, NumPoints)
    /\ next_trace' = [next_trace EXCEPT
                        !["head"] = files[place],
                        !["tail"] = IF files[place].points = NumPoints THEN files[place] ELSE @]
    /\ tpc' = "texts"
    /\ UNCHANGED <<setup, mainVars, trace_num, place, semaphores, pipes, attackVars, sigchld>>

\* The texts are filled in, then the trace is handed over.
FillTexts ==
    /\ Running /\ tpc = "texts"
    /\ next_trace' = [next_trace EXCEPT !["text"] = files[place]]
    /\ place' = place + 1 /\ trace_num' = trace_num + 1
    /\ to_read' = to_read + 1
    /\ tpc' = IF trace_num' = num_iterations THEN "done" ELSE "sem_wait"
    /\ UNCHANGED <<setup, mainVars, to_write, pipes, attackVars, sigchld>>

------------------------------------------------------------------------------
(* The attack program.  Its read_data, too, reads forever at the end of file. *)

read_num ==
    /\ apc = "read_num" /\ down # <<>>
    /\ told' = Head(down) /\ down' = Tail(down) /\ apc' = "write"
    /\ UNCHANGED <<setup, mainVars, threadVars, semaphores, up, got, out, sigchld>>

write_data ==
    /\ apc = "write" /\ Running /\ Len(up) < Capacity
    /\ up' = Append(up, Head(out)) /\ out' = Tail(out)
    /\ apc' = IF out' # <<>> THEN "write" ELSE IF told > 0 THEN "read" ELSE "exit"
    /\ UNCHANGED <<setup, mainVars, threadVars, semaphores, down, told, got, sigchld>>

\* Mutant: the answer is computed before all samples are read.
LastPiece_early == Len(got) + 2 = Len(Fields)

\* The last piece of a trace is the next one.
LastPiece == Len(got) + 1 = Len(Fields)

\* A piece of a trace; the last one starts the attack on what was received.
read_trace ==
    /\ apc = "read" /\ down # <<>>
    /\ down' = Tail(down)
    /\ IF ~LastPiece
       THEN got' = Append(got, Head(down)) /\ UNCHANGED <<apc, told, out>>
       ELSE /\ got' = <<>> /\ told' = told - 1 /\ apc' = "write"
            /\ out' = [i \in 1..AnswerPieces |-> [piece |-> i, of |-> Append(got, Head(down))]]
    /\ UNCHANGED <<setup, mainVars, threadVars, semaphores, up, sigchld>>

AttackEnds ==
    /\ apc = "exit" /\ apc' = "ended" /\ sigchld' = (mode = "fork")
    /\ UNCHANGED <<setup, mainVars, threadVars, semaphores, pipes, told, got, out>>

\* A crash, if it may; or it writes to a pipe of which the wrapper has gone.
AttackDies ==
    /\ AttackAlive /\ apc' = "dead" /\ sigchld' = (mode = "fork")
    /\ MayDie \/ (apc = "write" /\ ~Running)
    /\ UNCHANGED <<setup, mainVars, threadVars, semaphores, pipes, told, got, out>>

Main == \/ SendFails \/ send_num_iterations \/ wait_start_attack_phase \/ NothingToRead
        \/ GetTrace \/ CopyText \/ CopySamples \/ send_trace \/ read_result
        \/ wait_trace_thread_termination \/ WaitChild
Signals == sig_chld_handler \/ Interrupted
TraceThread == AwaitWritable \/ NoMoreTraces \/ ParseSamples \/ FillTexts
Attack == read_num \/ write_data \/ read_trace \/ AttackEnds

Next == Main \/ Signals \/ TraceThread \/ Attack \/ AttackDies

Spec == Init /\ [][Next]_vars

\* Every thread that can run does, and a pending signal is delivered.  Nobody
\* owes a crash.
FairSpec == Spec /\ WF_vars(Main) /\ WF_vars(Signals) /\ WF_vars(TraceThread) /\ WF_vars(Attack)
------------------------------------------------------------------------------
(* Properties.                                                                *)

TypeOK ==
    /\ mpc \in {"send_num", "wait_start", "get", "copy", "copy_samples", "send", "read", "join",
                "wait", "succeeded", "failed"}
    /\ tpc \in {"none", "sem_wait", "fetch", "texts", "done"}
    /\ apc \in {"none", "read_num", "write", "read", "exit", "ended", "dead"}
    /\ seen \in 0..3 /\ sent \in 0..Len(Fields) /\ Len(received) <= AnswerPieces
    /\ current_trace_num \in 0..num_iterations /\ trace_num \in 0..num_iterations
    /\ told \in 0..num_iterations
    /\ to_read \in 0..1 /\ to_write \in 0..2  \* 2: see Interrupted
    /\ current_trace \in Trace /\ next_trace \in Trace
    /\ Len(down) <= Capacity /\ Len(up) <= Capacity
    /\ mode \in Modes /\ sigchld \in BOOLEAN

\* While the attack program lives, the trace thread writes next_trace only when
\* the main thread does not copy it (the semaphores of get_trace_from_trace_thread
\* and trace_thread_routine).  After its death an interrupted sem_wait may let
\* them meet, but nothing is sent any more.
CopyExcludesFetch ==
    mpc \in {"copy", "copy_samples"} /\ (AttackAlive \/ mode = "fifo")
        => tpc \notin {"fetch", "texts"}

\* The non-blocking FIFO to the attack program never fills, since a trace is
\* sent only after the answer to the one before: send_data fails only because
\* there is no reader.
NeverWouldBlock == mpc \in {"send_num", "send"} => Len(down) < Capacity

\* The refinement mapping.  An answer is taken for one only if it was computed
\* from the pieces of a trace, all of them and in their order.
FileRecord(r) ==
    LET of == r.result[1].of IN
    [text |-> r.text,
     answer |-> IF r.result = [p \in 1..AnswerPieces |-> [piece |-> p, of |-> of]]
                   /\ [f \in DOMAIN of |-> of[f].field] = Fields
                THEN [text |-> of[1].trace, head |-> of[2].trace, tail |-> of[3].trace]
                ELSE Nothing]
FileRecords == [i \in DOMAIN records |-> FileRecord(records[i])]
FileStatus == CASE mpc = "succeeded" -> "complete" [] mpc = "failed" -> "failed"
                [] OTHER -> "running"

File == INSTANCE ResultFile WITH
    Iterations <- num_iterations,
    Traces <- UNION {inp.entries : inp \in Inputs},
    wanted <- Wanted(source, files, num_dbkey),
    records <- FileRecords,
    status <- FileStatus

\* The wrapper implements the abstract result file: each record holds the i-th
\* trace of the key and the attack program's answer to that trace alone, whole
\* and in order, whatever the threads, pipes and signals do, and a wrapper that
\* reports success has written all of them.
FileSpec == File!Spec

\* Left alone by crashes, with enough traces of the right length and an attack
\* program that announces itself, the wrapper ends with success.
Enough == place # 0 /\ Len(Wanted(source, files, num_dbkey)) >= num_iterations
              /\ (source = "db" => \A i \in DOMAIN files : files[i].points = NumPoints)
CompletesWhenHealthy == [](apc # "dead") /\ Enough => <>(mpc = "succeeded")

\* In fork mode the death of the attack program before the last iteration ends
\* the wrapper: by SIGCHLD, by SIGPIPE, or by an end of file while it waits for
\* the attack program to start.
DeathEndsFork == (mode = "fork" /\ apc = "dead" /\ current_trace_num < num_iterations - 1) ~> ~Running

\* "This signal handler is called when the attack program dies", in FIFO mode
\* (attack_wrapper.c:262): then, too, its death before the last iteration would
\* end the wrapper.
DeathEndsFifo == (mode = "fifo" /\ apc = "dead" /\ current_trace_num < num_iterations - 1) ~> ~Running
=============================================================================
