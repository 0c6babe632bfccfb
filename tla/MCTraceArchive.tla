--------------------------- MODULE MCTraceArchive ---------------------------
(* Instances of TraceArchive for TLC.                                         *)
EXTENDS TraceArchive

Opt(min, max, n) ==
    [min_time |-> min, max_time |-> max, num_traces |-> n, ciphertext |-> FALSE, key |-> 7]
Ciphertexts == [Opt(0, 0, 0) EXCEPT !.ciphertext = TRUE]
Options == {Opt(0, 0, 0), Opt(1, 0, 0), Opt(0, 1, 0), Opt(0, 0, 1), Ciphertexts}
MCReadOptions == {Opt(0, 0, 0), Opt(1, 2, 0), Opt(0, 1, 1), Ciphertexts}

E(t) == [kind |-> "event", value |-> t]
P(p) == [kind |-> "power", value |-> p]
X(n) == [kind |-> "inner", value |-> n]
Done == [kind |-> "done", value |-> 0]

\* Waveforms of one file with records at 10, 20 and 30: for each of the two
\* traces any set of the offsets 0, 2 and 5 that is not empty, the first offset
\* given twice and the power in two lines; and an event before and after all.
Block(t, inner) == <<E(t), P(t)>> \o inner \o <<E(t), P(1234567 + t)>>
Blocks(base, offsets, inner) == LET s == SetToSortSeq(offsets, <) IN
                                  FlattenSeq([i \in DOMAIN s |-> Block(base + s[i], inner)])
Part(base, offsets) == Blocks(base, offsets, <<X(1)>>)
Records(base) == <<[event |-> base + 10, m |-> <<1, 2>>, c |-> <<5, 6>>],
                   [event |-> base + 20, m |-> <<3, 4>>, c |-> <<7, 8>>],
                   [event |-> base + 30, m |-> <<1, 2>>, c |-> <<9, 9>>]>>
Offsets == (SUBSET {0, 2, 5}) \ {{}}
SimvFile(a, b, last) == [records |-> Records(0), resolution |-> 1,
    lines |-> <<E(3), P(1)>> \o Part(10, a) \o Part(20, b) \o (IF last THEN Block(30, <<>>) ELSE <<>>)]
\* A second file whose times are in another unit, with a gap of its own.
SecondFile == [records |-> [i \in 1..2 |-> [Records(0)[i] EXCEPT !.event = @ * 10]], resolution |-> 10,
    lines |-> Part(10, {2}) \o <<E(11 + 9), P(1)>>]
SimvData == {<<SimvFile(a, b, last)>> : a \in Offsets, b \in Offsets, last \in BOOLEAN}
            \union {<<SimvFile(a, {0, 5}, TRUE), SecondFile>> : a \in Offsets}

\* The same waveforms as files of their own, after two lines of a header.  One
\* comes back to an earlier event, and one has a line of another instance that
\* looks like one; the copy of these goes past the last event.  Where such lines
\* are in order, they are events like others.
OutFile(text, offsets) == [m |-> text, lines |-> <<X(0), X(0)>> \o Blocks(0, offsets, <<>>) \o <<Done, E(9), P(9)>>]
InnerFile(text, offsets, n) == [m |-> text, lines |-> Blocks(0, offsets, <<X(n)>>)]
OutData == {<<OutFile(<<1>>, a), OutFile(<<2>>, b)>> : a \in Offsets, b \in Offsets}
           \union {<<OutFile(<<1>>, {0, 2}), [m |-> <<2, 3>>, lines |-> Blocks(0, {2}, <<>>)]>>,
                   <<[m |-> <<1>>, lines |-> Blocks(0, {0, 2, 5}, <<>>) \o <<E(0), P(-1)>>]>>,
                   <<InnerFile(<<1>>, {2, 5}, 3), OutFile(<<2>>, {2})>>,
                   <<[m |-> <<1>>, lines |-> <<E(0), P(1), X(3), P(2), E(5), P(3)>>], OutFile(<<2>>, {2})>>,
                   <<[m |-> <<1>>, lines |-> <<P(1)>>]>>, <<>>}

Contest(k, m, valid, wave) == [k |-> k, m |-> m, c |-> <<0>>, valid |-> valid, wave |-> wave]
ContestData == {<<Contest(7, <<1>>, TRUE, <<4, 5, 6>>), Contest(3, <<9>>, TRUE, <<1>>),
                  Contest(7, <<2>>, valid, wave)>> : valid \in BOOLEAN, wave \in {<<7, 8, 9>>, <<7, 8>>}}
V3Data == {[m |-> <<<<1>>, <<2>>>>, c |-> <<<<3>>, <<4>>>>, both |-> b, waves |-> w] :
              b \in BOOLEAN, w \in {<<>>, <<<<1, 2, 3>>>>, <<<<1, 2, 3>>, <<12345678, 1000005, -1234567>>>>}}
          \union {[m |-> <<<<1>>, <<>>, <<2>>>>, c |-> <<<<3>>, <<4>>, <<>>>>, both |-> TRUE,
                   waves |-> <<<<1, 2>>, <<3, 4>>, <<5, 6>>>>]}
SqliteData == {<<>>, <<[text |-> <<1>>, wave |-> <<1, 2, 3>>], [text |-> <<2>>, wave |-> <<4, 5, 6>>]>>}
PackedData == {[textlen |-> 1, ntraces |-> 2, times |-> <<0, 2, 5>>,
                body |-> <<[text |-> <<1>>, powers |-> <<1, 2, 3>>],
                           [text |-> <<2>>, powers |-> <<4, 5, 6>>]>>]}

Inputs == {[format |-> "simv", data |-> d] : d \in SimvData}
          \union {[format |-> "out", data |-> d] : d \in OutData}
          \union {[format |-> "v2", data |-> d] : d \in ContestData}
          \union {[format |-> "v3", data |-> d] : d \in V3Data}
          \union {[format |-> "sqlite", data |-> d] : d \in SqliteData}
          \union {[format |-> "packed", data |-> d] : d \in PackedData}
MCJobs == {[format |-> in.format, data |-> in.data, opt |-> o, dst |-> dst] :
              in \in Inputs, o \in Options, dst \in {"packed", "v3", "sqlite", "csv"}}
ASSUME InOrderAssumption == \A d \in SimvData : \A f \in DOMAIN d : InOrder(d[f])
PackedJobs == {j \in MCJobs : j.format = "out" /\ j.dst = "packed"}
=============================================================================
