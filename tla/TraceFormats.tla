---------------------------- MODULE TraceFormats ----------------------------
(* The readers of power traces (src/src/common/trace_format*.cpp) as          *)
(* operators.  A trace is a record [text, samples], a sample a record         *)
(* [time, power].  Opening a reader gives                                     *)
(*   [ok, count, events, reads]                                               *)
(* : whether open returned true, trace_count() and events() at that moment,   *)
(* and what the calls of read() give one after the other, each a record       *)
(* [ok, text, samples]; after the last of them read() returns false.          *)
(*                                                                            *)
(* A line of a waveform file is [kind, value]: "event" is a line with one     *)
(* number, a time; "power" a line that is taken for the top level instance's, *)
(* its value the power; "inner" any other line, a header's or another         *)
(* instance's, its value the number it begins with (0 if it begins with       *)
(* none); "done" ends the file.                                               *)
(*                                                                            *)
(* Powers are whole numbers, small enough for a float to hold them and their  *)
(* sums exactly (below 2^24).                                                 *)
EXTENDS Integers, Sequences, FiniteSets, SequencesExt, FiniteSetsExt

Sample(time, power) == [time |-> time, power |-> power]

\* The event times in the order of a std::set, the smallest first.
Ascending(times) ==
    [i \in 1..Cardinality(times) |-> CHOOSE t \in times : Cardinality({u \in times : u <= t}) = i]

Opened(count, events, reads) == [ok |-> TRUE, count |-> count, events |-> events, reads |-> reads]
NotOpened == [ok |-> FALSE, count |-> 0, events |-> {}, reads |-> <<>>]
Read(ok, text, samples) == [ok |-> ok, text |-> text, samples |-> samples]

\* %g and operator<< keep six significant digits; a tie goes to the even digit.
Cut(size) ==
    LET unit == IF size < 1000000 THEN 1 ELSE IF size < 10000000 THEN 10 ELSE 100
        up == \/ 2 * (size % unit) > unit
              \/ 2 * (size % unit) = unit /\ unit > 1 /\ (size \div unit) % 2 = 1
    IN  unit * (size \div unit + IF up THEN 1 ELSE 0)
Printed(power) == IF power >= 0 THEN Cut(power) ELSE -Cut(-power)

\* What the files can hold.  A message has at least one byte, only the lines of
\* a v3 file may be empty.  (In a second simulation file read_waveforms takes
\* two records for granted.)
Text == Seq(Nat) \ {<<>>}
WaveLine == {line \in [kind : {"event", "power", "inner", "done"}, value : Int] :
                line.kind \in {"event", "inner"} => line.value >= 0}
ReaderOptions == [min_time : Nat, max_time : Nat, num_traces : Nat, ciphertext : BOOLEAN, key : Nat]

WellFormed(format, data) ==
    CASE format = "simv" ->
            /\ data \in Seq([records : Seq([event : Nat, m : Text, c : Text]),
                             resolution : Nat \ {0}, lines : Seq(WaveLine)])
            /\ \A f \in 2..Len(data) : Len(data[f].records) > 1
            /\ \A f \in DOMAIN data : \A l \in DOMAIN data[f].lines : data[f].lines[l].kind # "done"
      [] format = "out" -> data \in Seq([m : Text, lines : Seq(WaveLine)])
      [] format \in {"v1", "v2"} ->
            data \in Seq([k : Nat, m : Text, c : Text, valid : BOOLEAN, wave : Seq(Int)])
      [] format = "v3" -> data \in [m : Seq(Seq(Nat)), c : Seq(Seq(Nat)), both : BOOLEAN, waves : Seq(Seq(Int))]
      [] format = "sqlite" -> data \in Seq([text : Text, wave : Seq(Int)])
      [] format = "packed" ->
            /\ data \in [textlen : Nat, ntraces : Nat, times : Seq(Nat),
                         body : Seq([text : Text, powers : Seq(Int)])]
            /\ data.ntraces <= Len(data.body)
            /\ \A i \in DOMAIN data.body : Len(data.body[i].powers) = Len(data.times)

\* Plaintext or ciphertext, as the options ask for.
TextOf(opt, entry) == IF opt.ciphertext THEN entry.c ELSE entry.m

\* Time bounds of 0 mean that there is no bound.
InWindow(opt, time) ==
    /\ opt.min_time # 0 => time >= opt.min_time
    /\ opt.max_time # 0 => time <= opt.max_time

\* The loops of the readers push back what is in the window.
Windowed(opt, samples) ==
    FoldLeft(LAMBDA acc, s : IF InWindow(opt, s.time) THEN Append(acc, s) ELSE acc, <<>>, samples)

\* The number of traces left by --num-traces, 0 meaning all.
Limited(opt, n) == IF opt.num_traces = 0 THEN n ELSE Min({n, opt.num_traces})
Enough(opt, n) == opt.num_traces # 0 /\ n >= opt.num_traces

-----------------------------------------------------------------------------
(* copy_trace: a trace is spread over all event times.                        *)

Held(times, power) == [i \in 1..Cardinality(times) |-> Sample(Ascending(times)[i], power)]

\* Mutant: nothing is put into the gap before a sample.
CopySample_gapless(beyond, acc, sample) ==
    LET rest == {e \in acc.left : e >= sample.time}
        end == rest = {}
    IN  CASE ~acc.ok -> acc
          [] acc.ok /\ acc.out # <<>> /\ Last(acc.out).time = sample.time -> [acc EXCEPT !.ok = FALSE]
          [] OTHER -> [ok   |-> TRUE,
                       out  |-> Append(acc.out, Sample(IF end THEN beyond.time ELSE Min(rest), sample.power)),
                       left |-> IF end THEN beyond.left ELSE rest \ {Min(rest)},
                       last |-> sample.power]

\* One sample.  The gap before it gets the sample's own power, and so does the
\* next event, whatever its time: that it is the sample's is only asserted, and
\* a release build has no assertions.  Past the last event the iterator shows
\* beyond.time and goes on with the events of beyond.left.  A sample at the
\* time of the one handed out before rejects the trace.
CopySample(beyond, acc, sample) ==
    LET gap == {e \in acc.left : e < sample.time}
        rest == acc.left \ gap
        end == rest = {}
    IN  CASE ~acc.ok -> acc
          [] acc.ok /\ acc.out # <<>> /\ Last(acc.out).time = sample.time -> [acc EXCEPT !.ok = FALSE]
          [] OTHER -> [ok   |-> TRUE,
                       out  |-> acc.out \o Held(gap, sample.power)
                                \o <<Sample(IF end THEN beyond.time ELSE Min(rest), sample.power)>>,
                       left |-> IF end THEN beyond.left ELSE rest \ {Min(rest)},
                       last |-> sample.power]

\* The iterator past the end of a std::set as the build's library has it: it
\* shows the memory after the set's header (past.time), and its increment leads
\* back to the last event or the last but one (past.again of them are left).
Beyond(past, events) ==
    [time |-> past.time, left |-> {e \in events : Cardinality({u \in events : u >= e}) <= past.again}]

\* What is left after the last sample is held at its power (0 without samples).
copy_trace(text, samples, events, past) ==
    LET acc == FoldLeft(LAMBDA a, sample : CopySample(Beyond(past, events), a, sample),
                        [ok |-> TRUE, out |-> <<>>, left |-> events, last |-> 0], samples)
    IN  Read(acc.ok, text, acc.out \o Held(acc.left, acc.last))

\* The power of a line goes to the last sample.
AddPower(samples, power) == [samples EXCEPT ![Len(samples)].power = @ + power]

\* A new sample, unless the last one has that time already.
AddTime(samples, time) ==
    IF samples # <<>> /\ Last(samples).time = time THEN samples
    ELSE Append(samples, Sample(time, 0))

-----------------------------------------------------------------------------
(* simv: files of [records, resolution, lines], a record being [event, m, c]. *)
(* All traces of a file share one waveform; each has the events from its      *)
(* record's time to that of the next, and the last record only ends the last  *)
(* but one.  The traces are kept in a temporary file, as text.                *)

\* A trace as it is written to the file and read again.
Dumped(samples) == [i \in DOMAIN samples |-> Sample(samples[i].time, Printed(samples[i].power))]

\* Mutant: an event at the very time of the next record belongs to this one.
ScanEvent_late(opt, s, time) ==
    LET start(i) == s.records[i].event
        full == time > start(s.at + 1)
        at == IF full THEN s.at + 1 ELSE s.at
        current == IF full THEN <<>> ELSE s.current
        traces == IF full THEN Append(s.traces, [record |-> s.at, samples |-> Dumped(s.current)]) ELSE s.traces
        offset == time - start(at)
        over == full /\ (at = Len(s.records) \/ Enough(opt, Len(traces)))
    IN  CASE time < start(s.at) -> s
          [] over -> [s EXCEPT !.traces = traces, !.over = TRUE]
          [] OTHER -> [s EXCEPT !.traces = traces, !.at = at, !.current = AddTime(current, offset),
                                !.events = @ \union {offset}]

\* An event time: before the record it is skipped; from the next record's time
\* on, the current trace is dumped and the next begins, unless it was the last
\* one wanted.
ScanEvent(opt, s, time) ==
    LET start(i) == s.records[i].event
        full == time >= start(s.at + 1)
        at == IF full THEN s.at + 1 ELSE s.at
        current == IF full THEN <<>> ELSE s.current
        traces == IF full THEN Append(s.traces, [record |-> s.at, samples |-> Dumped(s.current)]) ELSE s.traces
        offset == time - start(at)
        over == full /\ (at = Len(s.records) \/ Enough(opt, Len(traces)))
    IN  CASE time < start(s.at) -> s
          [] time >= start(s.at) /\ over -> [s EXCEPT !.traces = traces, !.over = TRUE]
          [] time >= start(s.at) /\ ~over /\ ~InWindow(opt, offset) ->
                [s EXCEPT !.traces = traces, !.at = at, !.current = current]
          [] OTHER -> [s EXCEPT !.traces = traces, !.at = at, !.current = AddTime(current, offset),
                                !.events = @ \union {offset}]

ScanLine(opt, s, line) ==
    CASE s.over -> s
      [] ~s.over /\ line.kind = "event" -> ScanEvent(opt, s, line.value)
      [] ~s.over /\ line.kind = "power" /\ s.current # <<>> ->
            [s EXCEPT !.current = AddPower(@, line.value)]
      [] OTHER -> s

\* The records of this file come after those of the files before; the test for
\* two of them counts those as well.  The times are divided by the resolution.
read_timestamps(s, file) ==
    LET scaled == [i \in DOMAIN file.records |->
                     [file.records[i] EXCEPT !.event = @ \div file.resolution]]
    IN  [s EXCEPT !.records = @ \o scaled, !.at = Len(s.records) + 1, !.current = <<>>,
                  !.over = FALSE, !.ok = @ /\ Len(s.records) + Len(scaled) > 1]

ScanFile(opt, s, file) ==
    IF ~s.ok \/ Enough(opt, Len(s.traces)) THEN s
    ELSE LET read == read_timestamps(s, file) IN
         IF ~read.ok THEN read
         ELSE FoldLeft(LAMBDA acc, line : ScanLine(opt, acc, line), read, file.lines)

OpenSimv(files, opt, past) ==
    LET s == FoldLeft(LAMBDA acc, file : ScanFile(opt, acc, file),
                      [ok |-> TRUE, records |-> <<>>, at |-> 0, current |-> <<>>,
                       traces |-> <<>>, events |-> {}, over |-> FALSE],
                      files)
        read(trace) == copy_trace(TextOf(opt, s.records[trace.record]), trace.samples, s.events, past)
    IN  IF files = <<>> \/ ~s.ok THEN NotOpened
        ELSE Opened(Len(s.traces), s.events, [i \in DOMAIN s.traces |-> read(s.traces[i])])

-----------------------------------------------------------------------------
(* out: one file per trace, [m, lines], named after its text.                 *)

\* Every line that is neither the end nor the top level's is taken for a time.
OutLine(opt, s, line) ==
    CASE s.over -> s
      [] ~s.over /\ line.kind = "done" -> [s EXCEPT !.over = TRUE]
      [] ~s.over /\ line.kind = "power" ->
            IF s.samples = <<>> THEN [s EXCEPT !.over = TRUE, !.ok = FALSE]
            ELSE [s EXCEPT !.samples = AddPower(@, line.value)]
      [] ~s.over /\ line.kind \in {"event", "inner"} /\ InWindow(opt, line.value) ->
            [s EXCEPT !.samples = AddTime(@, line.value), !.events = @ \union {line.value}]
      [] OTHER -> [s EXCEPT !.over = opt.max_time # 0 /\ line.value > opt.max_time
                                     /\ (opt.min_time # 0 => line.value >= opt.min_time)]

OpenOut(files, opt, past) ==
    LET scan(file) == FoldLeft(LAMBDA acc, line : OutLine(opt, acc, line),
                               [ok |-> TRUE, samples |-> <<>>, events |-> {}, over |-> FALSE],
                               file.lines)
        events == UNION {scan(files[i]).events : i \in DOMAIN files}
    IN  IF files = <<>> \/ \E i \in DOMAIN files : ~scan(files[i]).ok THEN NotOpened
        ELSE Opened(Len(files), events,
                    [i \in DOMAIN files |-> copy_trace(files[i].m, scan(files[i]).samples, events, past)])

-----------------------------------------------------------------------------
(* The formats whose samples have no times but come one after the other.      *)

Indexed(wave, opt) == Windowed(opt, [i \in DOMAIN wave |-> Sample(i - 1, wave[i])])

\* v1 and v2: one file per trace, [k, m, c, valid, wave], all keys in one
\* directory.  The events are the numbers of the first trace's samples.
OpenContest(files, opt) ==
    LET mine == FoldLeft(LAMBDA acc, f : IF f.k = opt.key THEN Append(acc, f) ELSE acc, <<>>, files)
        wanted == SubSeq(mine, 1, Limited(opt, Len(mine)))
        samples(f) == IF f.valid THEN Indexed(f.wave, opt) ELSE <<>>
    IN  IF mine = <<>> THEN NotOpened
        ELSE Opened(Len(wanted), 0..(Len(samples(wanted[1])) - 1),
                    [i \in DOMAIN wanted |->
                        Read(wanted[i].valid, TextOf(opt, wanted[i]), samples(wanted[i]))])

\* The texts up to the first empty line.
UntilEmpty(texts) ==
    LET empty == {i \in DOMAIN texts : texts[i] = <<>>}
    IN  IF empty = {} THEN texts ELSE SubSeq(texts, 1, Min(empty) - 1)

\* v3: a file of texts and a file of waveforms, [m, c, both, waves], line by
\* line; there need not be a file of ciphertexts too.  The option on the number
\* of traces is not looked at.
OpenV3(dir, opt) ==
    LET texts == UntilEmpty(TextOf(opt, dir))
        events == IF dir.waves = <<>> THEN {} ELSE 0..(Len(dir.waves[1]) - 1)
    IN  IF opt.ciphertext /\ ~dir.both THEN NotOpened
        ELSE Opened(Len(texts), events,
                    [i \in 1..Min({Len(texts), Len(dir.waves)}) |->
                        Read(TRUE, texts[i], Indexed(dir.waves[i], opt))])

\* sqlite: rows [text, wave].  The events are collected while reading, so there
\* are none when the reader has just been opened.
OpenSqlite(rows, opt) ==
    Opened(Len(rows), {}, [i \in DOMAIN rows |-> Read(TRUE, rows[i].text, Indexed(rows[i].wave, opt))])

-----------------------------------------------------------------------------
(* packed: a header and a body, [textlen, ntraces, times, body], the body     *)
(* being a sequence of [text, powers].                                        *)

\* The time window is tested with the time that the sample object has from the
\* sample before; for the first one it has never been set (garbage).
PackedSamples(times, powers, opt, garbage) ==
    FoldLeft(LAMBDA acc, i :
                IF InWindow(opt, acc.time)
                THEN [time |-> times[i], out |-> Append(acc.out, Sample(times[i], powers[i]))]
                ELSE acc,
             [time |-> garbage, out |-> <<>>], [i \in DOMAIN times |-> i]).out

\* garbage[i] is what is on the stack at the i-th read.
OpenPacked(file, opt, garbage) ==
    LET count == Limited(opt, file.ntraces) IN
    Opened(count, {e \in Range(file.times) : InWindow(opt, e)},
           [i \in 1..count |->
               Read(TRUE, file.body[i].text,
                    PackedSamples(file.times, file.body[i].powers, opt, garbage[i]))])

-----------------------------------------------------------------------------
(* guess_format: a path is [dir, ext, files], files being the kinds of files  *)
(* a directory holds; the version in a file's name is not modelled.           *)
guess_format(path) ==
    CASE ~path.dir /\ path.ext \in {".bin", ".packed"} -> "packed"
      [] ~path.dir /\ path.ext \in {".db", ".sqlite", ".sqlite3"} -> "sqlite"
      [] ~path.dir /\ path.ext \notin {".bin", ".packed", ".db", ".sqlite", ".sqlite3"} -> "out"
      [] path.dir -> LET ranks == <<"simv", "out", "v1", "v2", "v3", "packed">>
                         found == {i \in 1..5 : ranks[i] \in path.files}
                     IN  ranks[Min(found \union {6})]
=============================================================================
