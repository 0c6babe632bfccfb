---------------------------- MODULE TraceArchive ----------------------------
(* The conversion tool (src/src/tools/convert.cpp) with the trace writers     *)
(* (trace_format_packed, _v3, _sqlite, _csv.cpp), and a later program, such   *)
(* as the attack, that opens what the tool left and reads it.                 *)
EXTENDS TraceFormats

CONSTANTS
    \* What is converted: records [format, data, opt, dst], opt holding
    \* min_time, max_time, num_traces, ciphertext and key.
    Jobs,
    \* With which options the archive is read.
    ReadOptions,
    \* What memory that was never set may hold where a time is read.
    Garbage

ASSUME JobsAssumption ==
    \A j \in Jobs :
        /\ j.format \in {"simv", "out", "v1", "v2", "v3", "sqlite", "packed"}
        /\ j.dst \in {"packed", "sqlite", "v3", "csv"}
        /\ j.opt \in ReaderOptions /\ WellFormed(j.format, j.data)
ASSUME ReadOptionsAssumption == \A o \in ReadOptions : o \in ReaderOptions
ASSUME GarbageAssumption == \A g \in Garbage : g \in Int

VARIABLES
    job,        \* the conversion
    pc,         \* "open", "create", "convert", "closed", "stopped", "reading", "end"
    source,     \* the reader of the conversion, once opened
    converted,  \* the number of traces converted
    writer,     \* the writer's members
    path,       \* what guess_format sees at the output path
    disk,       \* what is at the output path, in the form of its format
    opt,        \* the options of the later reader
    back,       \* the later reader
    seen        \* the traces it has read

vars == <<job, pc, source, converted, writer, path, disk, opt, back, seen>>
later == <<opt, back, seen>>

-----------------------------------------------------------------------------
Powers(samples) == [i \in DOMAIN samples |-> samples[i].power]
PrintedPowers(samples) == [i \in DOMAIN samples |-> Printed(samples[i].power)]

\* Any reader on any input.  Packed looks at memory that was never set, the
\* readers of waveforms at what is past the end of their set of events.
OpenReader(format, data, o, garbage) ==
    CASE format = "simv" -> OpenSimv(data, o, garbage)
      [] format = "out" -> OpenOut(data, o, garbage)
      [] format \in {"v1", "v2"} -> OpenContest(data, o)
      [] format = "v3" -> OpenV3(data, o)
      [] format = "sqlite" -> OpenSqlite(data, o)
      [] format = "packed" -> OpenPacked(data, o, garbage)

Unset(format, data) ==
    CASE format = "packed" -> [1..data.ntraces -> Garbage]
      [] format \in {"simv", "out"} -> [time : Garbage, again : 1..2]
      [] OTHER -> {<<>>}

None == [ok |-> FALSE]

\* The places of the file system the writers make.
PathOf(dst) ==
    CASE dst = "packed" -> [dir |-> FALSE, ext |-> ".packed", files |-> {}]
      [] dst = "sqlite" -> [dir |-> FALSE, ext |-> ".sqlite", files |-> {}]
      [] dst = "v3"     -> [dir |-> TRUE, ext |-> "", files |-> {"v3"}]
      [] dst = "csv"    -> [dir |-> TRUE, ext |-> "", files |-> {}]

Init ==
    /\ job \in Jobs
    /\ pc = "open" /\ source = None /\ converted = 0
    /\ writer = None /\ path = PathOf("csv") /\ disk = <<>>
    /\ opt = job.opt /\ back = None /\ seen = <<>>

\* The reader of the conversion is opened; if that fails the tool prints a
\* summary and is done.
Open ==
    /\ pc = "open"
    /\ \E garbage \in Unset(job.format, job.data) :
          source' = OpenReader(job.format, job.data, job.opt, garbage)
    /\ pc' = IF source'.ok THEN "create" ELSE "end"
    /\ UNCHANGED <<job, converted, writer, path, disk, later>>

\* The output cannot be created: the program ends.
CreateFails ==
    /\ pc = "create"
    /\ pc' = "end"
    /\ UNCHANGED <<job, source, converted, writer, path, disk, later>>

\* The writer is opened with the events the reader knows of at this moment.
\* packed writes its header with both counts zero; sqlite begins a transaction,
\* whose rows are pending.  There is nothing at the output path before (an
\* existing database would be added to).
Create ==
    /\ pc = "create"
    /\ pc' = "convert"
    /\ path' = PathOf(job.dst)
    /\ writer' = [ok |-> TRUE, textlen |-> 0, ntraces |-> 0,
                  samples |-> Cardinality(source.events), pending |-> <<>>]
    /\ disk' = CASE job.dst = "packed" ->
                      [textlen |-> 0, ntraces |-> 0, times |-> Ascending(source.events), body |-> <<>>]
                 [] job.dst = "v3" -> [m |-> <<>>, c |-> <<>>, both |-> FALSE, waves |-> <<>>]
                 [] OTHER -> <<>>
    /\ UNCHANGED <<job, source, converted, later>>

\* May this trace be written?  Only packed ever refuses one: all texts have the
\* length of the first, and each trace one sample per event.
Accepts(trace) ==
    job.dst = "packed" =>
        /\ writer.textlen \in {0, Len(trace.text)}
        /\ Len(trace.samples) = writer.samples

\* Mutant: the count in the file is brought up to date with every trace.
WritePacked_counts(trace) ==
    /\ writer' = [writer EXCEPT !.textlen = Len(trace.text), !.ntraces = @ + 1]
    /\ disk' = [disk EXCEPT !.body = Append(@, [text |-> trace.text, powers |-> Powers(trace.samples)]),
                            !.ntraces = @ + 1]

WritePacked(trace) ==
    /\ writer' = [writer EXCEPT !.textlen = Len(trace.text), !.ntraces = @ + 1]
    /\ disk' = [disk EXCEPT !.body = Append(@, [text |-> trace.text, powers |-> Powers(trace.samples)])]

WriteV3(trace) ==
    /\ disk' = [disk EXCEPT !.m = Append(@, trace.text), !.waves = Append(@, PrintedPowers(trace.samples))]
    /\ UNCHANGED writer

WriteSqlite(trace) ==
    /\ writer' = [writer EXCEPT !.pending = Append(@, [text |-> trace.text, wave |-> Powers(trace.samples)])]
    /\ UNCHANGED disk

\* One file per text: a second trace with the same text replaces the first.
WriteCsv(trace) ==
    /\ disk' = Append(SelectSeq(disk, LAMBDA f : f.text # trace.text),
                      [text |-> trace.text,
                       lines |-> [i \in DOMAIN trace.samples |->
                                    [time |-> trace.samples[i].time, power |-> Printed(trace.samples[i].power)]]])
    /\ UNCHANGED writer

\* One turn of the loop: a trace is read and written.
ConvertTrace ==
    /\ pc = "convert" /\ converted < source.count
    /\ converted < Len(source.reads)
    /\ LET trace == source.reads[converted + 1] IN
         /\ trace.ok /\ Accepts(trace)
         /\ CASE job.dst = "packed" -> WritePacked(trace)
              [] job.dst = "v3" -> WriteV3(trace)
              [] job.dst = "sqlite" -> WriteSqlite(trace)
              [] job.dst = "csv" -> WriteCsv(trace)
    /\ converted' = converted + 1
    /\ UNCHANGED <<job, pc, source, path, later>>

\* Mutant: a trace that cannot be read is counted all the same.
ConversionFails_ignored ==
    /\ pc = "convert" /\ converted < source.count
    /\ converted' = converted + 1
    /\ UNCHANGED <<job, pc, source, writer, path, disk, later>>

\* A trace cannot be read or is refused: the program ends without closing
\* anything; the open transaction is lost.  (This takes a transaction that fits
\* the page cache: a larger one spills pages into the file, and with the journal
\* in memory nothing takes them back.)
ConversionFails ==
    /\ pc = "convert" /\ converted < source.count
    /\ \/ converted >= Len(source.reads)
       \/ /\ converted < Len(source.reads)
          /\ LET trace == source.reads[converted + 1] IN ~(trace.ok /\ Accepts(trace))
    /\ pc' = "stopped"
    /\ UNCHANGED <<job, source, converted, writer, path, disk, later>>

\* Mutant: the length of the texts is patched but not the number of traces.
Close_textlen ==
    /\ pc = "convert" /\ converted = source.count
    /\ pc' = "closed"
    /\ disk' = CASE job.dst = "packed" -> [disk EXCEPT !.textlen = writer.textlen]
                 [] job.dst = "sqlite" -> writer.pending
                 [] OTHER -> disk
    /\ UNCHANGED <<job, source, converted, writer, path, later>>

\* All traces are converted: packed patches its header, sqlite commits.
Close ==
    /\ pc = "convert" /\ converted = source.count
    /\ pc' = "closed"
    /\ disk' = CASE job.dst = "packed" -> [disk EXCEPT !.textlen = writer.textlen, !.ntraces = writer.ntraces]
                 [] job.dst = "sqlite" -> writer.pending
                 [] OTHER -> disk
    /\ UNCHANGED <<job, source, converted, writer, path, later>>

\* Later a program opens the output, in the format it guesses.  A directory of
\* csv files, guessed as v2, holds no name with a key and cannot be opened.
Reopen ==
    /\ pc \in {"closed", "stopped"} /\ job.dst # "csv"
    /\ opt' \in ReadOptions
    /\ LET format == guess_format(path) IN
         \E garbage \in Unset(format, disk) : back' = OpenReader(format, disk, opt', garbage)
    /\ pc' = IF back'.ok THEN "reading" ELSE "end"
    /\ UNCHANGED <<job, source, converted, writer, path, disk, seen>>

ReadBack ==
    /\ pc = "reading" /\ Len(seen) < Len(back.reads)
    /\ seen' = Append(seen, back.reads[Len(seen) + 1])
    /\ UNCHANGED <<job, pc, source, converted, writer, path, disk, opt, back>>

\* There is no further trace.
ReadEnds ==
    /\ pc = "reading" /\ Len(seen) = Len(back.reads)
    /\ pc' = "end"
    /\ UNCHANGED <<job, source, converted, writer, path, disk, later>>

Next == Open \/ Create \/ CreateFails \/ ConvertTrace \/ ConversionFails \/ Close \/ Reopen \/ ReadBack \/ ReadEnds

Spec == Init /\ [][Next]_vars
-----------------------------------------------------------------------------
(* Properties.                                                                *)

\* What the variables hold.
TypeOK ==
    /\ job \in Jobs
    /\ pc \in {"open", "create", "convert", "closed", "stopped", "reading", "end"}
    /\ converted \in Nat
    /\ pc \in {"create", "convert", "closed", "stopped", "reading"} =>
            source.ok /\ Len(source.reads) <= source.count /\ converted <= Len(source.reads)
    /\ \A i \in DOMAIN seen : seen[i].ok

Times(samples) == [i \in DOMAIN samples |-> samples[i].time]

\* The lines of a waveform that a reader takes for times, and a waveform in
\* which these do not go back.
TimeLines(format, lines) ==
    {l \in DOMAIN lines : lines[l].kind = "event" \/ (format = "out" /\ lines[l].kind = "inner")}
Forward(format, lines) ==
    \A k, l \in TimeLines(format, lines) : k < l => lines[k].value <= lines[l].value

\* copy_trace (trace_format.cpp:96): no trace of a waveform whose times do not
\* go back is rejected, and whatever events it lacks or has before others, it is
\* handed out with exactly one sample at each time of events(), in order, which
\* is what the engine and the packed writer count on.
EventsAgree ==
    (/\ source.ok /\ job.format \in {"simv", "out"}
     /\ \A f \in DOMAIN job.data : Forward(job.format, job.data[f].lines))
    => \A i \in DOMAIN source.reads :
          source.reads[i].ok /\ Times(source.reads[i].samples) = Ascending(source.events)

\* The traces of simulation and waveform files, defined without a scan: trace i
\* of a file has the text of record i and, at each offset from that record's
\* time, the power of the top level lines that follow an event at that offset
\* and before the next record, to six digits; elsewhere that of the next event
\* it has, or of the last.  Complete is a trace after which the waveform goes on.
SimvTrace(files, f, i, o, events) ==
    LET file == files[f]
        start(n) == file.records[n].event \div file.resolution
        lines == DOMAIN file.lines
        at(l) == file.lines[Max({k \in 1..l : file.lines[k].kind = "event"})].value
        own == {l \in lines : /\ \E k \in 1..l : file.lines[k].kind = "event"
                              /\ start(i) <= at(l) /\ at(l) < start(i + 1)
                              /\ InWindow(o, at(l) - start(i))}
        times == {at(l) - start(i) : l \in own}
        power(t) == Printed(MapThenSumSet(LAMBDA l : file.lines[l].value,
                                {l \in own : file.lines[l].kind = "power" /\ at(l) - start(i) = t}))
        ahead(t) == {u \in times : u >= t}
        held(t) == IF times = {} THEN 0
                   ELSE power(IF ahead(t) = {} THEN Max(times) ELSE Min(ahead(t)))
        grid == Ascending(events)
    IN  [times |-> times,
         complete |-> \E l \in lines : file.lines[l].kind = "event" /\ file.lines[l].value >= start(i + 1),
         read |-> Read(TRUE, TextOf(o, file.records[i]), [n \in DOMAIN grid |-> Sample(grid[n], held(grid[n]))])]

\* A waveform as a simulator writes it: the events do not go back in time, and
\* there is one in the interval of every record that the waveform goes past.
InOrder(file) ==
    LET events == {l \in DOMAIN file.lines : file.lines[l].kind = "event"}
        time(l) == file.lines[l].value
        start(n) == file.records[n].event \div file.resolution
    IN  /\ \A k, l \in events : k < l => time(k) <= time(l)
        /\ \A i \in 1..(Len(file.records) - 1) :
              (\E l \in events : time(l) >= start(i + 1)) =>
                  \E l \in events : start(i) <= time(l) /\ time(l) < start(i + 1)

\* trace_reader_simv (trace_format_simv.cpp:117): every trace is paired with the
\* text of its own record and has the power of its own interval, to the six
\* digits of the temporary file, over several files, repeated events, gaps and a
\* lower time bound.  (With an upper bound the power beyond it is added to the
\* last sample within.)
SimvExact ==
    source.ok /\ job.format = "simv" /\ job.opt.num_traces = 0 /\ job.opt.max_time = 0 =>
        LET files == job.data
            numbers(f) == 1..(Len(files[f].records) - 1)
            events == UNION {UNION {SimvTrace(files, f, i, job.opt, {}).times : i \in numbers(f)} : f \in DOMAIN files}
            trace(f, i) == SimvTrace(files, f, i, job.opt, events)
            mine(f) == LET all == [i \in numbers(f) |-> trace(f, i)] IN
                         [i \in 1..Cardinality({n \in numbers(f) : all[n].complete}) |-> all[i].read]
        IN  source.reads = FlattenSeq([f \in DOMAIN files |-> mine(f)])

\* What a format keeps of a trace: packed the times of the events, v3 and
\* sqlite only the numbers of the samples; v3 prints the powers.
Kept(trace) ==
    LET events == Ascending(source.events)
        time(i) == IF job.dst = "packed" THEN events[i] ELSE i - 1
        power(i) == IF job.dst = "v3" THEN Printed(trace.samples[i].power) ELSE trace.samples[i].power
    IN  [i \in DOMAIN trace.samples |-> Sample(time(i), power(i))]

Restricted(samples) == Windowed(opt, samples)

\* Writers and readers of one format fit: what a later program reads from the
\* output are the converted traces, in order, each with its text, and all of
\* them if the conversion came to its end (convert.cpp:25).  A time window is
\* kept as well, except by packed (see WindowKept).
ArchiveReadsBack ==
    pc \in {"reading", "end"} /\ back.ok =>
        /\ \A i \in DOMAIN seen :
              /\ seen[i].text = source.reads[i].text
              /\ job.dst # "packed" \/ (opt.min_time = 0 /\ opt.max_time = 0) =>
                    seen[i].samples = Restricted(Kept(source.reads[i]))
        /\ pc = "end" /\ converted = source.count =>
              Len(seen) = IF job.dst = "packed" THEN Limited(opt, converted) ELSE converted

\* The header of packed is patched, and the transaction of sqlite committed, by
\* close() alone, which a failed conversion does not call (convert.cpp:36): a
\* later program finds no trace at all in such an archive, never some of them.
UnfinishedIsEmpty ==
    /\ pc \in {"reading", "end"} /\ back.ok
    /\ job.dst \in {"packed", "sqlite"} /\ converted < source.count
    => back.count = 0

\* trace_format.h:53 says of read() "Read the next trace into pt, limited to
\* the specified time range."
WindowKept == \A i \in DOMAIN seen : seen[i].samples = Restricted(Kept(source.reads[i]))
=============================================================================
