# Verification of attack-framework

TLA+ models of the attack framework (a C++ tool set that mounts differential
power analysis on recorded or simulated power traces, with the Python scripts
that run the simulations and the SystemVerilog designs that are simulated), the
TLC configurations that check them on small instances, and TLAPS proofs about
them.  Paths are relative to the directory that holds the repository as `src/`,
so the C++ code is under `src/src/`.

1. [The system](#1-the-system)
2. [The attack engine](#2-the-attack-engine-attackengine)
3. [The simulation pool](#3-the-simulation-pool-simulatepool)
4. [The AES encryption unit](#4-the-aes-encryption-unit-aesencryptunit)
5. [Traces and their conversion](#5-traces-and-their-conversion-traceformats-tracearchive)
6. [The contest's attack wrapper](#6-the-contests-attack-wrapper-attackwrapper)
7. [The sequential computations](#7-the-sequential-computations-mcalgorithms)
8. [Runs](#8-runs)
9. [Disagreements found](#9-disagreements-found)
10. [Proofs](#10-proofs)
11. [What is not modelled](#11-what-is-not-modelled)
12. [Plan](#12-plan)

## 1. The system

| Component | State it keeps | Operations | Interacts with |
|---|---|---|---|
| **Attack engine** `attack_engine.cpp`, `attack_thread.cpp` | trace index, interval, list of workers, one mutex for the reader; the report thread's instance, pending row, run flag, mutex and condition variable | `run`, `attack_setup`, `next_trace`, `report_thread::run/compute/terminate`, `attack_shutdown` | the trace reader (read under the engine's mutex), the attack instances of all workers |
| **Attack instances** `attack_cpa/dpa/pscc/relpow.cpp` | sums over the processed traces, interval maxima, a mutex (cpa, dpa) | `setup`, `process`, `clone`, `coalesce`, `record_interval`, `get_*`, `write_results` | a crypto instance each; cloned and merged by the thread that runs `compute` |
| **Crypto instances** `crypto_*.cpp` | message, key schedule | `set_message`, `set_key`, `compute`, `extract_estimate` | called by attack instances; call the ciphers |
| **Software ciphers** `aes.cpp`, `des.cpp`, `grostl.cpp` | none | `encrypt`, `decrypt`, masked variants, key schedules | crypto instances, command line tools, tests |
| **Registry and options** `attack_manager.cpp`, `cmdline.cpp`, `utility.cpp` | name tables filled by static initialisers | `add_*`, `create_*`, `parse` | used at start-up |
| **Trace readers and writers** `trace_format*.cpp` | open files, trace count, event set, position | `open`, `read`, `write`, `close`, `copy_trace`, `guess_format` | each other through a file (packed) or a temporary file (simv); the engine; `convert` |
| **Command line tools** `src/src/tools` | none of their own | `attack`, `convert`, `gentraces`, `aestool`, `destool`, `grostltool`, `sboxtool` | wire the parts together |
| **Simulation pool** `scripts/simulate.py` | worker threads, a semaphore, the work directories, the process's current directory | spawn, simulate, rename, compress, submit, poll | the external simulator or the grid engine |
| **Result scripts** `scripts/collect.py` and others | tables of results | run `attack`, parse, plot | the command line tools |
| **AES unit** `designs/aes_iterative` | control state, counters, four row memories, an input register | clocked; reset, load, the stages of ten rounds, store | its test bench; computes what `aes::encrypt` computes |
| **Grøstl units** `designs/grostl_dp512`, `designs/grostl_dp64` | message, chaining, pipeline and mask registers; no control of their own | clocked | their test benches, which drive every select and enable |
| **S-box unit** `designs/rijndael_sbox` | an input register | clocked | its test bench |
| **Attack wrapper of the DPA contest** `reference/dpacontest_v2/attack_wrapper.c`, `trace_files.c`, `db_postgresql.c` | the list of traces, the current and the next trace, two semaphores, a result file | `launch_attack`, `wait_start_attack_phase`, `send_trace`, `read_data`, the trace thread, signal handlers | the attack program, another process, over two pipes or FIFOs |
| **Attack program** `attack_reference.cpp`, `attack_last_round.cpp` | sums over the traces so far | read a trace, attack, write the ranking | the wrapper |
| **Contest metrics** `compute_results.c` | accumulated ranks of several result files | parse, compute, print | the wrapper's result files |

What is hard in them, and what makes them correct:

- *Attack engine.* N workers, a report thread and the main thread run at the same
  time, with three kinds of mutex and a condition variable.  Reports are made by
  whichever worker reaches an interval while the other workers go on
  accumulating.  Correct means: a trace is counted once whichever thread takes it
  and however often the accumulators are merged; a report holds only traces of
  its interval, entire ones; the last report holds them all; the workers end on
  any input; `run` returns.
- *Simulation pool.* Threads share a current directory, a semaphore and a file
  system, and can die with an exception.  Correct means: never more simulations
  than asked for; "done" means the results are there; set-up of one instance
  does not destroy the results of another; the script ends.
- *AES unit.* A byte-serial data path that overwrites its own operands, two
  halves of memory used in turns, ten rounds of which the last is different, a
  reset at any time that clears little, and in the masked variant three masks
  that follow the block.  Correct means: it computes AES.
- *Grøstl units.* Two permutations take turns on one path of two stages, and the bench
  must drive constants, shift, masks and registers for the one that is in each.  Correct
  means: they compute the compression function, and their registers change as the
  crypto instances say.
- *Trace readers and writers.* A file whose header is completed only at close,
  gaps filled by rules, one waveform that holds all traces of a simulation and is
  cut by the times of the records, windows, several files in one event set.
  Correct means: what is read back is what was written, each trace has the text
  and the power of its own interval, and an archive that was not finished does
  not pass for one.
- *Attack wrapper.* Two threads, a second process, pipes that hold less than a
  message, signals that may come at any moment, in two modes of which one loses the
  signals.  Correct means: each record of the result file belongs to one trace; the
  wrapper ends when it can no longer succeed.
- *Attack instances, ciphers and metrics.* Arithmetic; correct means that it
  equals a reference definition, masked or not, merged or not.

`PROJECT.json` lists every component with its files and status, and under
"hazards" each place in the code where one of these can go wrong, with the
properties that cover it.

### Modules

| Module | What it is |
|---|---|
| `AttackEngine` | engine, report thread and attack instances |
| `AttackEngineProofs` | its theorems |
| `MCAttackEngine`, `MCEngineAttacks` | its instances for TLC: one attack, and three kinds of attack side by side |
| `SimulatePool`, `SimulatePoolProofs`, `MCSimulatePool` | the same for the simulation pool |
| `AesBytes` | bytes as bit vectors; products in GF(2^8) |
| `AesCipher` | `aes::encrypt`, one step per call: the abstract specification of the unit |
| `AesEncryptUnit`, `AesEncryptUnitProofs` | the RTL unit and its bench, one step per clock edge; contains the refinement mapping to `AesCipher` |
| `MCAesEncryptUnit` | the S-box, the key ROM and the messages for TLC |
| `TraceFormats` | every trace reader as an operator, and `copy_trace` |
| `TraceArchive`, `TraceArchiveProofs`, `MCTraceArchive` | `convert`, the trace writers, and a later reader of their output; extends `TraceFormats` |
| `TraceSource` | where the attack wrapper takes traces from |
| `ResultFile` | what the wrapper promises: its abstract specification |
| `AttackWrapper`, `AttackWrapperProofs`, `MCAttackWrapper` | wrapper, trace thread, attack program, pipes and signals; extends `TraceSource`, contains the refinement mapping to `ResultFile` |
| `ContestResults`, `ContestResultsProofs` | the metrics over several result files |
| `AesTables` | S-boxes and products of `aes.cpp`, `aes.h` as tables of numbers |
| `SoftCiphers` | AES: key schedules, encryption, decryption, masked variants, crypto instances |
| `SoftDes` | DES and its crypto instance |
| `GrostlBlocks` | the functions on Grøstl's blocks, and its crypto instances |
| `Grostl` | the hash, the compression function and its masked form |
| `GrostlUnits` | the parallel unit and both serial units with their benches, one step per clock edge |
| `AttackSums`, `AttackSumsProofs` | the arithmetic of the four attacks and their merging |
| `AttackLastRound` | the contest's reference attack |
| `InductionFacts` | lemmas for all proofs: induction over sets, recursive functions on finite sets, folds and sums |
| `MCAlgorithms` | bounded inputs for the modules above from `ContestResults` on |

## 2. The attack engine (`AttackEngine`)

### State

| Variable | In the code |
|---|---|
| `kind` | the input: for each trace, whether it is good, has another number of events, has a text of the wrong length, or cannot be read; chosen in `Init` |
| `next` | position of the reader |
| `index`, `engineLock` | `attack_engine::m_index`, `m_mutex` |
| `listed` | `m_threads.size()`: workers that were started *and* pushed |
| `instLock`, `bins`, `sums` | per attack instance: its `m_mutex`, and how often each trace has been added to the first and the last group of its accumulators |
| `wpc`, `cur`, `mapped` | per worker: program counter, the trace in `pt`, the size of the time map its instance was set up with |
| `rtLock`, `rtIndex`, `running`, `rtpc`, `rows` | the report thread: `m_mutex`, `m_index`, `m_running`, its program counter, `m_maxes` |
| `copy`, `covers` | the loop counter of `compute`, and its value when the last `compute` ended |
| `mpc` | program counter of the main thread |

**Data abstraction.** `process` walks through a group of accumulators (bin sizes,
or `m_t1`/`m_t2`) and then through the rest; `clone` and `coalesce` do it in the
same order.  An instance is therefore the number of times each trace has been
added to the first group (`bins`) and to the last (`sums`).  A copy made in the
middle of `process` differs in the two, which is all that tearing can do.  A row of
interval maxima is the set of merged states whose maximum it is.  What an attack
computes from the sums is left out.

### Actions

| Actions | In the code |
|---|---|
| `LaunchWorker`, `SetupFails`, `PushThread` | the loop of `attack_setup` (create, set up, start the thread; then `push_back`) |
| `JoinAll`, `Terminate`, `JoinReporter`, `WriteResults` | `join_all` in `run`, `report_thread::terminate`, the join, `attack_shutdown` |
| `EnterNextTrace` | `next_trace` up to the interval test |
| `BeginCompute`, `CopyEntry` (`CopyBins`, `CopyNothing`), `CopySums`, `EndCompute` | `report_thread::compute`: `clone` of the first worker, `coalesce` of the others, `m_index`, notification |
| `ReadThreadsDuringPush` | the unsynchronised read of `m_threads` while `push_back` runs: undefined behaviour, which may crash |
| `NoMoreTraces`, `ReadFails`, `ReadTrace`, `CountTrace`, `RejectTrace`, `AcceptTrace` | the rest of `next_trace` and the checks before `process` |
| `ProcessBins`, `ProcessSums` | `process`, between which the instance's mutex is held |
| `ReporterWaits`, `ReporterStops`, `ReporterRecords`, `ReporterRecordsNothing`, `SpuriousWakeup` | the loop of `report_thread::run` |

`CloneLocks` tells the attacks apart: `clone` and `coalesce` of cpa lock the instance
they read, those of dpa the instance they write, and those of pscc and relpow copy
nothing (their `coalesce` then runs on an instance that was never set up, which may
crash).  Reading an instance that was never cloned is undefined behaviour as well,
modelled by a possible crash in `WriteResults` and `ReporterRecordsNothing`.

### Properties

`CountedOnce`, `RecordInBounds`, `IntervalsExact`, `RecordsUntorn` and `FinalMerged` are
the safety properties; `WorkersFinish` and `ShutdownCompletes` the liveness properties.
Their comments in the module state them in full.  `IntervalsExact` and `FinalMerged` are
weaker than one would like, on purpose: they say what is true.  A worker can be
between reading a trace and accumulating it while another one merges, so an
interval row may miss one trace for each other worker, and a merge that ran before
all workers were listed promises nothing.

**Fairness** (`FairSpec`): weak fairness for the main thread, the report thread and each
worker: the operating system runs every thread that can run.  No strong fairness
is needed although threads compete for mutexes, since a competitor holds each mutex
only finitely often, once per trace.  A spurious wakeup is never owed.

## 3. The simulation pool (`SimulatePool`)

| Variable | In the code |
|---|---|
| `mpc`, `i`, `cwd` | main's loop over the instances, and the current directory *of the process* |
| `permits` | the `BoundedSemaphore` |
| `wpc`, `status` | per worker thread: where it is, the status main prints |
| `raw`, `files`, `tarred` | the simulator's output files in a work directory; results and archives with the place where they are; the members of each archive |
| `job`, `logs` | the grid engine's script and the log files by which `GridWorker` tells its stage |

`EnterWorkDir`, `LeaveWorkDir`, `StartThread` are one iteration of main's loop (delete an
old work directory and change into the new one; change back; start the thread), and
`AllThreadsEnded` its end.  `LaunchChild` … `Finish` are `LocalWorker.run` with one step for
each operation on a file, since main can change the directory between any two;
`RenameRaises` and `AddRaises` are the exceptions, which end the thread with its
permit.  `Submit`, `SubmitRaises`, `PollPending`, `PollComplete` are `GridWorker.run`; the `Job…`
actions are the script that `gen_script` writes, and `JobLost` a job the grid engine
never runs.

Properties: `DopRespected`, `DoneHasResults`, `ResultsSurvive` (an action property) and
`PoolDrains` (liveness).  `DoneHasResults` says *somewhere* for local workers: by the
race on the current directory a result can be put into the work directory of a
later instance, where the user may not look for it, but it is never deleted there:
a directory is deleted only before main enters it.

**Fairness:** the interpreter runs every runnable thread, a simulation ends, a job
that was not lost is run.  `PoolDrains` excludes runs in which all permits are gone
or a job is lost; the code polls for such a job forever.

## 4. The AES encryption unit (`AesEncryptUnit`)

A step is a rising clock edge.  `Control` and `Memory` are the registers of
`aes_encrypt_control`, `aes_dual_row_mem` and `aes_write_mux`; the combinational logic
(`ns`, `rd_col`, `wr_col`, `sb_out`, `mc_out`, `ak_wr`, `wr_data`, …) are operators with the
names of the signals.  The plain unit is the masked one with zero masks: with them
`aes_encrypt_unit_m.sv` is `aes_encrypt_unit.sv` line by line.  The gates of the logic
S-boxes are modelled by the function they compute, S(x ⊕ imask) ⊕ omask.

The bench (`AssertReset`, `Start`, `Feed`, `Wait`) is the test bench made more liberal: it may
assert the reset at any edge, begin a message at once when the unit is idle, and
waits for the whole result.  Inputs change after the edge, as they do in a
simulation with delays.  `Init` is the state after the first reset: only the state
register is known, the counters and memories hold what they hold.

`held` is a history variable: the block as the last finished stage left it.  While a
stage runs, the memories hold a mixture of old and new bytes from which the block
cannot be told; with `held` the mapping to the software cipher is a function of the
state:

| `AesCipher` | `AesEncryptUnit` |
|---|---|
| `call` | `cs`, IDLE and LOADT being "idle" |
| `state` | `held` without the mask of the stage |
| `round` | `round` |
| `pt` | the message that the bench feeds |

The operators `CipherCall`, `CipherState`, `CipherRound` and `Plaintext` are this mapping.
`CipherSpec` (`Cipher!Spec` under it) says that the unit goes through the calls
of `aes::encrypt`, each stage taking the result of one call, for any interleaving
with resets and any former contents of the memories.  `KnownAnswer` compares the
output bytes with a ciphertext of `aes_test_vectors.cpp`, which also checks
`AesCipher`.  `Answered` needs only that the clock does not stop.

## 5. Traces and their conversion (`TraceFormats`, `TraceArchive`)

A reader reads all it needs when it is opened and then hands out traces one by
one, so in `TraceFormats` a reader is an operator: from its files and options to
whether `open` succeeds, the trace count and the event set at that moment, and the
results of the `read` calls.  The scans of waveform files are folds over their lines
with the state the loop keeps: `ScanEvent` and `OutLine` are the bodies of
`read_waveforms` and `read_waveform_data`, `CopySample` that of `copy_trace`.  A line is
of one of four kinds: `event`, a time; `power`, one that is taken for the top level
instance's; `inner`, any other, a header's or another instance's, with the number it begins
with; `done`, the end of a waveform.  The simv reader skips inner lines, the out reader takes
each for a time (`trace_format_out.cpp:115`), and so does `OutLine`.  Regular expressions and
the parsing of numbers are left out, powers are integers.  Where the code prints a power
at the stream's six digits and parses it back, `Printed` is what is left of it: in the
temporary file through which every simv trace goes (`Dumped`), in v3 and in csv.

`copy_trace` goes through the samples and the events together.  That the event it has reached
is the sample's is only asserted (`trace_format.cpp:111`), and the default build is a
release build, so `CopySample` goes on: the sample gets the time of the event reached, and past the last
event whatever memory the iterator shows (`past.time`, from `Garbage`), after which the
iterator is back at the last event or the last but one (`Beyond`: what the build's
library does; the standard leaves it undefined).  An event set is a set of numbers, which `Ascending` lists
as iterating over a `std::set` does; `Windowed` is the loop by which the readers of
bare waveforms push back the samples between the two time bounds.

`TraceArchive` is `convert` and what comes after it:

| Actions | In the code |
|---|---|
| `Open`, `Create` | `main` of `convert.cpp`: open the reader, create the writer with the events known then; headers with counts of zero, a transaction begun |
| `CreateFails` | the output cannot be created |
| `ConvertTrace` | one turn of `convert_traces`: `read`, then `write` of one of four formats |
| `ConversionFails` | the early `return`s: nothing is closed, the transaction is lost |
| `Close` | `close`: the counts are patched into the header, the transaction is committed |
| `Reopen`, `ReadBack`, `ReadEnds` | a later program that guesses the format and reads with options of its own |

`disk` is what the writer left, in the form in which the readers of `TraceFormats` take
their input.  A conversion that failed is opened again like one that succeeded,
which is the crash and restart of this part of the code.  `Garbage` is what memory may
hold where the packed reader looks at a member it has not set, and where `copy_trace`
reads past the end of the events.  The assumptions on
`Jobs` say what the data of each format is made of (`WellFormed`).  One thing they
ask for is not checked by the code: `read_waveforms` uses record 1 of each simulation
file (`record_index + 1`) without asking whether there is one, which for a second file
with a single record is undefined behaviour; a second file has two records at least.

Properties: `EventsAgree` (each trace that a simv or out reader hands out has one sample
per event, whatever is missing in the waveform), `SimvExact` (the one-pass scan
against a definition without a scan: each trace has the text and, to the six digits of the
temporary file, the power of its own interval), `ArchiveReadsBack` (the round trip),
`UnfinishedIsEmpty`.

`EventsAgree` is about waveforms whose times do not go back (`Forward`), where the times
are those the reader takes for such.  Without that it does not hold: the run's inputs
contain two such files, one that comes back to an earlier event and one in which a line of another
instance does, and of the traces that `copy_trace` makes of them past the last event
nothing is said but that an archive gives them back as they are.  `SimvExact` leaves an
upper time bound out, since with one the power beyond it is added to the last
sample within (`trace_format_simv.cpp:216`); the model does the same.  It is about waveforms
in order (`InOrder`, which `MCTraceArchive` assumes of its own): no event goes back in time, and
every record that the waveform goes past has an event.  The simulators write such files and the
scan relies on it, without a check: it moves on by one record per event
(`trace_format_simv.cpp:189`), never by two and never back.

## 6. The contest's attack wrapper (`AttackWrapper`)

The wrapper sends an attack program traces over one pipe and reads a ranking for
each from another; a second thread fetches the next trace meanwhile.

| Variables | In the code |
|---|---|
| `mode`, `source`, `files` | `fifo_mode`; whether traces come from a directory or a table; the ordered list |
| `mpc`, `seen`, `current_trace…`, `sent`, `received`, `records` | the main thread: its place, the search for LF `.` LF, the pieces written and read, the result file |
| `tpc`, `trace_num`, `place`, `next_trace` | the trace thread |
| `to_read`, `to_write` | the two semaphores |
| `down`, `up` | the pipes, as sequences of pieces; a trace takes three pieces (texts, first and last samples), an answer two |
| `apc`, `told`, `got`, `out` | the attack program |
| `sigchld` | a pending SIGCHLD |

A trace in memory is three fields, each with the entry it was filled from.  Copying
and filling take two steps each, so that a torn trace would show; a file that ends
early leaves the last samples of the trace before.  `AttackDies` may happen at
any point.  What the death does depends on where the wrapper is: `sig_chld_handler`,
`Interrupted` (a blocked call returns; the result of `sem_wait` is not looked at),
`SendFails` (SIGPIPE), `NothingToRead` (end of file).  In FIFO mode the wrapper holds both
ends of both FIFOs and has no child: none of these can happen.

`ResultFile` is the abstract specification: records are appended, the i-th made of
the i-th trace of the attacked key and the answer to that very trace, and success
is reported when all are there.  `FileSpec` is the refinement, by a mapping with a name
for each variable.  `Wanted` states the i-th trace of a key without sorting: keys
are numbered by how many smaller ones there are, and the traces of one key by how many
of its places in the list come earlier, by time stamp and then by place.  `CopyExcludesFetch`,
`NeverWouldBlock` (the O_NONBLOCK FIFO never fills, because a trace is sent only after
the answer to the one before), `CompletesWhenHealthy` and `DeathEndsFork` complete it.

The assumptions name what the environment gives: at least one iteration; inputs
that are finite sets of entries; a pipe that holds the three pieces of a trace (some
6.5 of 64 kilobytes); and a greeting of the attack program without the bytes LF `.` LF,
which `wait_start_attack_phase` would take for its end.

**Fairness:** both threads and the attack program run when they can, and a pending
signal is delivered.  A crash is never owed.

## 7. The sequential computations (`MCAlgorithms`)

Seven machines without concurrency; one of them runs in each behaviour of the run
`Algorithms`.  A step is one turn of a loop, or one clock edge.

- `ContestResults`: several result files are added up, then one pass over the
  curves finds the iterations from which a metric passes its threshold, the
  first such and the one from which it does so to the end (`StableFromEnd`).
  `RatesFollowRanks` relates success rates, guessing entropies and ranks.
- `SoftCiphers`: `key_schedule` against the contest's other implementation of it;
  `encrypt`, `decrypt`, the simple and the full masking, round by round next to the
  unmasked function on the same block (`CiphersAgree`: the state is the clear one
  under the mask of that place, never the clear one itself, and the result is a
  known answer).  `SoftDes` and `Grostl` in the same way, on known answers in both
  directions, and on both hashes and compressions of `grostl_test_vectors.cpp`.
- The crypto instances (`hd_r0`, `hw_r10`, …): `TargetsAreTransitions` compares each with
  the change of the register it claims to predict, through the estimate that the instance
  itself extracts from the key (`extract_estimate`): for AES and DES taken from the rounds
  of the cipher, for Grøstl the pipeline register of the serial units.  `hw_r10` is not
  quite among them: its `extract_estimate(n)` and its `compute(n)` are about two different
  bytes where the row is shifted (section 9), so it predicts a byte of the state in the first row
  only, and of the others nothing is said.
- `GrostlUnits`: a step is a rising edge.  The calls of `drive` are the function
  `SerialDrive` of the edge's number, the registers' inputs are operators of the pins that
  the unit samples.  Which of bench and unit the simulator runs first at an edge is
  nondeterministic (`runs_first`), and a bus driven with `'x` is `Junk`.  `UnitsCompress`
  runs the software's permutations alongside, a round each edge, for 2 rounds (the hmac
  benches) and 10, with masks and without, for a second block after any first one.
- `AttackSums`: two workers, a report instance, `clone`, `coalesce` and
  `record_interval`; `MergedIsTextbook` compares the incremental one-pass sums with
  the covariance over all pairs of traces, in exact rationals, and the row of
  maxima with the differentials.  A difference with an empty group is no number
  (its denominator is 0) and must not become a maximum.
- `AttackLastRound`: the reference attack on a device that leaks one register;
  `LastRoundFindsKey`.

Floating point is replaced by exact rationals: rounding is not modelled, and a
comparison of correlations is one of squares.

## 8. Runs

| Run | Bounds | Question |
|---|---|---|
| `EngineCpa` | 2 workers, 5 traces, interval 2, at most one bad trace of any kind, spurious wakeups | everything that holds for an attack that locks the copied instance |
| `EngineAttacks` | cpa: 2 workers, 3 traces; dpa: 3 workers, one report; an attack that clones nothing | what still holds when the copy races with `process`, with two `coalesce` calls; liveness of cpa and pscc |
| `EngineReturns` | 2 traces | *violated*: `run` returns |
| `EngineTorn` | 3 traces, dpa | *violated*: a row never holds half a trace |
| `Pool` | 3 instances, 2 permits; locally, outputs may be missing; on the grid, jobs may be lost | safety and draining of both pools |
| `PoolEnds` | 2 instances, 1 permit, nothing fails | *violated*: the script ends |
| `AesUnit` | 3 messages with different masks, one more reset at any cycle | the unit computes AES |
| `Wrapper` | 3 iterations, 2 sources with 3 contents, both modes, pipes of 3 pieces, a death anywhere | the result file, and what a death does |
| `WrapperDeath` | the same, FIFO mode | *violated*: a death ends the wrapper |
| `Archive` | up to 7 × 7 simv and out waveforms and several inputs of the other formats, 5 options, 4 outputs, 4 ways to read them again | the round trip and unfinished archives |
| `ArchiveWindow` | out to packed | *violated*: a window is kept |
| `Algorithms` | up to 5 result files of 3 iterations; known answers of 2 AES keys, of DES and of 3 Grøstl vectors; two blocks through each of 3 Grøstl units; 3 traces, 2 reports; 3 states of the device | the sequential computations |

Why the bounds are enough.  *Engine*: five traces and an interval of two give a
first, a middle and a last report, the last one cut short by the end of the input;
two workers race with each other, and the third in `EngineAttacks` makes the
difference between one `coalesce` and several.  One bad trace already meets every worker
in every place.  The theorems of section 10 take away the bounds for safety.  *Pool*:
three instances with two permits let one thread wait for the semaphore while another
runs and main is still setting up the third; two threads can die with permits.
*AES*: the control does not depend on data, so a message of each kind of mask (none,
different, equal) and a reset at each of its 672 cycles, followed by another message,
are all paths of the control; the data path is checked on three blocks, by which a
wrong wiring or product shows in any byte (each wrong version of the code that we
tried was found with them).  *Wrapper*: three iterations are a first, a middle and a
last one, and only the last treats SIGCHLD differently; a pipe of three pieces holds
a trace exactly, so that the attack program and the wrapper stop in the middle of an
answer too.  *Archive*: three offsets give gaps at the start, in the middle and at the
end of a trace, three records a trace in between and one that is never complete,
two files a second resolution.  *Algorithms*: ciphers are fixed by their known
answers, which every wrong table entry or rotation that is reached changes; five
files and three iterations let a curve rise, fall and rise again at either side of
its threshold.

`CHECK_DEADLOCK FALSE` stands where a finished process stops; the AES unit never
stops and is checked for deadlock.

## 9. Disagreements found

- **`run` may not return** (`EngineReturns`). `report_thread::run` waits without testing a
  condition first (`attack_engine.cpp:43`).  If `terminate` runs before the new thread
  waits, nobody is notified and the join blocks forever.
- **Torn copies in dpa** (`EngineTorn`). `clone` and `coalesce` lock the target
  (`attack_dpa.cpp:184, 204`), `process` locks the source.
- **The simulation script can hang** (`PoolEnds`). Workers use relative paths while
  main changes the current directory (`simulate.py:53-55, 211-213`); the exception keeps
  the permit.
- **A dead attack program is not noticed in FIFO mode** (`WrapperDeath`), the only mode
  the handler that is to notice it is said to be for (`attack_wrapper.c:262-263`).
- **A packed archive does not keep a time window** (`ArchiveWindow`).  The window is
  tested against the time of the sample before (`trace_format_packed.cpp:148`).

Observed while modelling, without a run of their own (the models do what the code
does, unless section 11 says otherwise):

- *Engine.* A worker is started before it is pushed on `m_threads`
  (`attack_engine.cpp:172-173`), so a merge in between misses its traces; the wake-up
  for a report carries no count, so an interval whose report was not yet recorded
  when the next one came has no row (43); a spurious wakeup records the row again
  (40); an empty input without a report interval divides by zero (134).  `clone` of pscc
  and relpow is empty, so their `coalesce` and their reports read members that were
  never set.
- *Attacks.* The weight of all bytes can be one past the end of relpow's tables
  (`attack_relpow.cpp:109`); a guess with an empty group gives a difference that is not
  a number (`attack_dpa.cpp:81`).  The estimate of `hw_r10` is not the one its `compute` needs:
  `extract_estimate(n)` gives byte n of the key (`crypto_aes_hw_r10.cpp:35`), `compute(n)`
  undoes the last round on ciphertext byte `shift_inv[n]` (40), against
  `attack_manager.h:35`; what `attack_pscc.cpp:110` profiles and `gentraces.cpp:98` adds to its traces
  is then no byte of the cipher's state.
- *Pool.* A result of a local simulation can land in the work directory of another
  instance (`DoneHasResults` allows it); the grid script reports a failed simulation as
  done (`simulate.py:75`).
- *AES bench.* It assigns its inputs at the sampling edge (`test_encrypt_unit.sv:60`),
  and with fewer than ten rounds it stops waiting in the middle of a message (67).
- *Readers.* simv: power after the upper time bound goes to the last sample; a later
  file with a single record passes the test for two (`trace_format_simv.cpp:140`); the
  temporary file has a fixed name (25).  out: a power line of another instance is taken for a time (`trace_format_out.cpp:115`), which
  may be before the times already read; `copy_trace` then steps past the end of the events and
  hands out a trace with samples where no event is.  `trace_format.cpp:111` asserts that this cannot
  be, but not in a release build, the default (`src/CMakeLists.txt:16-18`).  A lower bound above
  the first event makes `open` fail.  v1, v2: with a lower bound the events are numbered from 0, the
  samples are not.  v3: the option on the number of traces is ignored.  sqlite: the events are
  unknown until everything is read, so its conversion to packed is refused.
- *Writers.* v3 and csv print six digits; a directory of csv files is guessed to be
  v2 and cannot be opened.
- *Wrapper.* LF LF `.` LF is not recognised as the start mark
  (`attack_wrapper.c:418`); `read` returning 0 is not an error, so a death in the last
  iteration may leave `read_data` spinning (498); a short file keeps the last samples of
  the trace before (`trace_files.c:403`); nobody reads the attack program's stderr pipe while it
  is running (`attack_wrapper.c:141`).
- *Metrics.* Iterations are printed counted from 0; a rate of exactly 4/5 depends on the
  rounding of 0.8.
- *Test benches.* They assign the inputs with blocking assignments at the edge at which the
  unit samples them.  If a simulator runs the bench first, the last select of a serial Grøstl
  bench (`test_compress_serial.sv:87`) takes effect twice and clears the result, and the parallel unit runs a
  round too many: `UnitsCompress` says that the result is right exactly in the other order.
- *Others.* `set_key` of the DES instance takes 8 bytes where a guess has 6; the static
  count of `attack_last_round` is never reset; masked `compress` of Grøstl uses its
  output as scratch space, so it must not be called with its chain as output.

## 10. Proofs

All proofs are checked by `tlapm` to the last leaf; the assumptions are those named
in the modules (`OptionsAssumption`, `KindsAssumption`, `NamesAssumption`, `ArgsAssumption`,
`UnitAssumption`, `WrapperAssumption`, `InputAssumption`, `PipeAssumption`, `PreambleAssumption`,
`JobsAssumption`, `ReadOptionsAssumption`, `GarbageAssumption`), which say no more than what
the option parsers and file formats accept, what a width is, or what sections 5 and 6
say of them.

| Module | Theorem | States |
|---|---|---|
| `AttackEngineProofs` | `TypeCorrect` | `TypeOK` |
| | `Exclusive` | at most one thread is between the lock and the unlock of each mutex |
| | `EachTraceOnce` | `CountedOnce` |
| | `NoTornRecords` | `RecordsUntorn`, for attacks that lock the copied instance |
| | `RowsExist` | `RecordInBounds` |
| | `NothingLost` | `FinalMerged`, for attacks that clone at all |
| | `RowsExact` | `IntervalsExact` |
| `SimulatePoolProofs` | `PoolTypes` | `TypeOK` |
| | `DopBound` | `DopRespected` |
| | `NoResultDeleted` | `ResultsSurvive` |
| | `ResultsComplete` | `DoneHasResults` |
| `AesEncryptUnitProofs` | `UnitTypes` | `TypeOK` |
| | `BytesInOrder` | `OutputIsBlock` |
| | `UnitImplementsCipher` | `CipherSpec`, the refinement of `AesCipher` |
| `AttackWrapperProofs` | `NoTornTraces` | `CopyExcludesFetch` |
| | `WrapperTypes` | `TypeOK` |
| | `SendsNeverBlock` | `NeverWouldBlock` |
| | `WritesWantedRecords` | `FileSpec`, the refinement of `ResultFile` |
| | `KeyFoundIfThere` | the search for a key finds it exactly if it is there |
| | `WantedFound` | the m-th entry from there on is the m-th trace of the key, in the sense of `Wanted` |
| `TraceArchiveProofs` | `UnfinishedArchiveIsEmpty` | `UnfinishedIsEmpty` |
| | `ArchiveTypes` | `TypeOK` |
| | `EventsAlwaysAgree` | `EventsAgree`, with gaps, windows and limits of any kind |
| | `ArchiveIsReadBack` | `ArchiveReadsBack` |
| | `SimvIsExact` | `SimvExact`, to the six digits of the temporary file, for waveforms in order |
| `ContestResultsProofs` | `ReportedIterations` | `StableFromEnd` |
| | `ResultTypes` | `TypeOK` of `ContestResults` |
| | `MetricsAgree` | `RatesFollowRanks` |
| `AttackSumsProofs` | `SumTypes` | `TypeOK` of `AttackSums` |
| | `DifferentialsAreTextbook` | `MergedIsTextbook` |

**Engine**, for any number of traces, threads and any interval.  `CountedOnce` is not
inductive: that a merge adds a trace at most once depends on which
entries were merged, who may be merging, and that no two workers ever took the same
trace.  The inductive invariant `IInv` is the conjunction of `TypeOK`, `LockInv` (who holds
which mutex, by program counter), `ProgressInv` (what the guards passed so far have
established for a thread's next step), `OwnerInv` (a trace that was taken lies behind
the reader, belongs to one worker, and is not in its instance before the worker
processes it) and `MergeInv` (during a merge, a trace in the report instance is held
by a worker among the entries already merged).  `UntornInv` says that a worker's two
groups agree outside `process`, and that inside it the worker holds its instance's
mutex, which the merge needs too.  `FinalInv` says that a merged worker's traces are in the
report unless the worker has since finished another one; past the last trace such a
worker runs `compute` itself before it exits.

`IntervalsExact` bounds how many traces a row may miss, which is a fact about
cardinalities: `RowsInv` says that `index` counts the traces the reader has returned but
for one that is being counted (`CountInv`), that each of them is accumulated or is the
last one its worker has taken (`TakenInv`), that the merging worker's own last trace is
always among those merged (`MergedInv`), and hence that no more than `NThreads - 1`
traces, one of each other worker, are missing (`ReportInv`).

The invariants `DpaMergesExact` and `DpaIntervalsExact` of the run `EngineAttacks` and
`GridResultsAtTop` of `Pool` are these properties for other values of the constants, so
`EachTraceOnce`, `NothingLost`, `RowsExact` and `ResultsComplete` cover them.

**Pool**, for any number of instances and permits.  `PoolInv` adds to the types that
the permits and the threads holding one always sum up
to the maximum (`PermitInv`, on cardinalities), where main is in its loop (`LoopInv`) and
which jobs have a polling thread (`JobInv`).  `PlaceInv` says that every file of this run
is at the top or in the directory of a later instance than its own that main has
already set up, so that no set-up deletes it.  `ResultInv` says, by program counter, which outputs a worker has
already put where.

**AES unit**, for every substitution table, key schedule, request and state at
power-up, and however often it is reset.  The content of `UnitTypes` is in the ranges:
`round` and `key_address` may hold anything while the unit is idle, and are within AES-128's
rounds and the ROM from the moment it is not.  For the refinement, `UnitInv` says how far
a stage has come at each edge: up to `count` the half that is written holds the stage's
result, at the place to which the row shift moves it (`WrittenInv`); from `count` on the
half that is read holds the block the stage began with (`UnreadInv`), which is why a
stage may overwrite its operands; `CountInv` gives the key address of the next byte, and
`BenchInv` follows the message from the pins through the buffer into the memory.  At the
last byte of a stage the written half is then a whole block, and the step is shown to
be one call of `AesCipher`: the masks cancel by the laws of exclusive or, the
hardware's product of a column is the software's, and shifting rows byte by byte is
the software's table of places.  Every other edge is a stutter.

**Wrapper**, for any number of iterations, inputs, greetings and any capacity of at least
a trace.  `OnePermission`: the values of the two semaphores and the threads inside their
sections sum up to at most one, and a pending SIGCHLD, which alone can make an
interrupted `sem_wait` enter without a permission, means that the mode is fork and
that the attack program has ended.  The inductive invariant `IInv` adds where the
traces are: `Listed` (the trace thread moves along one key's traces in the sorted
list), `Fetched` (what `next_trace` holds at each of its steps), `HandedOver` (the main
thread has taken every fetched trace but those `to_read` counts, except after the
interrupted wait for the last one, when nobody reads what is sent), `Current` (what is
being sent is the next trace of the list), and `Exchanging`: the pieces in both
pipes and in both programs' buffers, put one after the other, are one trace or one
answer to it, never parts of two.  That at most one trace is under way is why no
write can block, and why a record cannot mix two traces.  That the list's order is the
intended one is the subject of `KeyFoundIfThere` and `WantedFound`, which are
about all sorted lists.

**Archive**, for all inputs, options and contents of memory.  For
`UnfinishedArchiveIsEmpty`: until `Close` the header of a
packed file says zero and the rows of sqlite are pending; only a conversion that
read every trace gets there.  `ArchiveTypes` and `ArchiveIsReadBack` follow from `ArchiveInv`:
the reader of the conversion is a typed one (`SourceInv`,
which rests on `ReaderReads` for all seven readers, about folds over files of any length);
the output is at every stage the converted
traces in the writer's format (`DiskInv`); what is read from it is, trace for trace, what
was read from the source (`BackInv`, `SeenInv`).  Two things it had to be told: the
version 3 writer writes a file of plaintexts only (`trace_format_v3.cpp:155`), so that a
reader that asks for ciphertexts cannot open its output; and a trace of another length than
the event set is refused by the packed writer, so that a body has `samples` powers a trace.

`EventsAlwaysAgree` cannot count on the assertion in `copy_trace`, so it shows that it holds: `copy_trace` is
given traces whose samples are at events of the reader and rise in time (`OnEvents`), and of
such a trace it hands out one sample per event (`OnEventsCopied`, from `CopyHolds`), never
stepping past the last.  That the scans make such traces is an invariant of their lines:
of every trace that has ended, and of the present one, the samples are `OnEvents`, and the
present one's are not after any time that is still to come (`ScanOn` for
simulations, `OutOn` for waveform files).  The latter is where `Forward` is needed; without it
the theorem is false.  What the iterator shows past the end, `past`, stays
arbitrary throughout.  `SourceIsOpened` ties both theorems on readers to the machine: the
source is what `OpenReader` gave.

`SimvIsExact` compares a scan with a definition that has none.  The state of the scan after
`m` lines of a file is described by those lines alone (`Scanned`): the first `c` records have an
event at or after their end, so their traces are the last `c` of the list, the next one has
none (`Passed`), and each of these traces, the present one too, has its samples at the times of
its own lines among the `m`, with the sums of their powers (`Shows`), which the dump then cuts
to six digits (`DumpShows`).  `ScanStep` shows that one more line, of any
kind, keeps all of this.  The hypothesis `InOrder` is needed three times: a line of power goes to
the last sample of the trace, which must be the last event's; a trace that has ended
gets no line any more; and an event that ends a trace is before the end of the next.
`FileScanned` is the induction over the lines, `Told` and `ToldNext` carry it
from file to file with the count of records so far, `CopyHolds` says which sample `copy_trace` gives
to each event of all traces, and `FlattenTurns` puts the files' traces one after the other.

**Metrics**, for files of any number and content.  `ReportedIterations`
assumes that the iterations of a file are a natural number.
`LoopInv` has a part `Tracked` for each metric: after `iter` turns the first
passing iteration is known, and `stable` is where the passing stretch that ends at `iter`
began, or says that there is none.  `ResultTypes` and `MetricsAgree` assume
`ResultsWellFormed`: each byte's place is one in a list of `Worst` guesses, or 0 for a byte
that was not found.  `RanksInv` relates the three accumulators after every file (`Agree`);
its last part is about a sum over the bytes of the key, so that one more file moves
both sides by the same byte or more (`SumsGrow`).

**Sums of the attacks**, for any number of events, guesses, traces and reports, any targets
and any threshold that `setup` accepts (`SumsWellFormed`, which `MCAlgorithms` assumes of its
instance).  `SumsInv` says that each instance's members are the sums over the traces
its worker has processed, and the report's those over the traces last merged, so that
`process` and `coalesce` are facts about appending to and joining sequences (`SumOf`).
The textbook's side is a sum over pairs of traces: one trace more adds its differences
from all those before it, which by induction is what `n*t2 - t1*t1` and its like
gain (`CovarianceIs`); the center that cpa subtracts from a weight cancels in
every difference (`CenteredCorrelation`).  The row of maxima is a fold that keeps the larger value (`RowBounds`): that
no later value was lost needs `Larger` to be transitive between correlations whose
variances are not negative, which squares of integers are, and a
difference with an empty group, which is no number, never to win.

**Folds and sums.**  The induction theorems of the library take an operator, which the
installed provers cannot instantiate.  `InductionFacts` states induction for a *set*
of numbers instead, from the well-foundedness of `<`, and derives from it that
functions defined by recursion over the subsets of a finite set exist (`Recursion`), which is
what the folds and sums of the community modules are defined by.  A proof about a
fold expands it, finds its function by `FoldExists`, and then shows what each turn
keeps by `FoldStays` or by an induction over the prefixes `1..k` (`Prefix`).

**Only model-checked:**

- the liveness properties `WorkersFinish`, `ShutdownCompletes`, `PoolDrains`, `Answered`,
  `CompletesWhenHealthy`, `DeathEndsFork` and their like: fairness and ENABLED are
  beyond the prover;
- `LastRoundFindsKey`: a fact about one leaking device;
- `KnownAnswer`, `CiphersAgree`, `TargetsAreTransitions` and `UnitsCompress`: known answers
  of concrete tables, which evaluation settles and a proof would not say more about;
  the tables of `AesTables` use `Bitwise`, which the prover cannot read;
- the properties of the runs that expect a violation, naturally.

## 11. What is not modelled

- The text of reports, logs and progress displays; parsing of options and of
  numbers; regular expressions; compression.
- Floating point: numbers are exact.  For the powers of traces this means whole numbers
  below 2^24, which a `float` holds exactly; that printing cuts them to six digits is
  modelled (`Printed`).
- For sqlite, a transaction larger than the page cache: abandoned, it is lost in the model.  The
  writer keeps the journal in memory and does not synchronise
  (`trace_format_sqlite.cpp:164-165`), so pages that were spilled would stay.  `UnfinishedIsEmpty`
  is about conversions that fit.
- An output path at which there is something already: an existing database would be added
  to (`trace_format_sqlite.cpp:150`).
- Texts of no bytes, except as lines of a v3 file, where an empty one ends the list
  (`UntilEmpty`).
- What an access outside an array or list destroys or shows, in two places: in
  relpow a weight of all bytes writes one past `m_pow` and `m_num`
  (`attack_relpow.cpp:109`), which `Profiled` takes to be in no sum, and which no input of the run does;
  in `trace_files.c` the test for another key reads one entry past the list, or an empty
  list (340, 423), which `CanGetTrace` and `trace_dir_findkey` take for a failure, as it is unless the memory
  there happens to hold the key.
- The gates of the logic S-boxes (modelled by their function) and synthesis.
- The S-box characterisation unit, a register without control.
- The oscilloscope file reader: a decoder of a binary vendor format without state
  beyond the open file.
- The registry of attacks, the command line, and the tools other than `convert`: start-up
  lookups and sequential drivers.
- `collect.py`, `graph.py`, `speedup.py`: sequential post-processing.
- Of the contest's tools: the tables of confidence and of differences, help texts,
  the SQL of `db_postgresql.c` (the table is modelled as an ordered set of rows), and
  a death of the wrapper's parent or a second instance on the same FIFOs.
- `des_block.py` and `Simulation_Attack.java`: code of others, kept for comparison.

## 12. Plan

Done: the engine, the pool, the AES unit, traces and conversion, the wrapper, the
Grøstl units and the sequential computations, with the proofs of section 10.  Left, in this order:

1. That `encrypt` under the full masking is the clear function under the mask, step by
   step, for every mask: a theorem about the stages of `SoftCiphers` in the way of
   the AES unit's, in a module without recursion.
2. `ParallelFold`: what the engine promises without threads, a fold over the traces
   with a report per interval, implemented by `AttackEngine` for its safety part.
3. That the schedule of the Grøstl benches and the data path compute the compression for any
   text and any number of rounds, with the invariant that says where each permutation is.
