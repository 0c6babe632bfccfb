----------------------------- MODULE TraceSource -----------------------------
(* Where the attack wrapper of the DPA contest v2 takes its traces from:      *)
(* trace_files.c (a directory that is listed, or described by an index file)  *)
(* and db_postgresql.c (a table).  An entry is a record                       *)
(*   [key, text, index, points, usable]                                       *)
(* where text stands for plaintext and ciphertext, index for the row number   *)
(* in the table, points for how many samples the trace has, and usable says   *)
(* that the name looks like that of a trace (or the index line is long        *)
(* enough); keys and texts are numbers, compared as memcmp compares them.     *)
EXTENDS Naturals, Sequences, FiniteSets, SequencesExt, FiniteSetsExt

Entry == [key : Nat, text : Nat, index : Nat, points : Nat, usable : BOOLEAN]

\* Mutant: the traces are ordered by plaintext alone.
tracecmp_text_only(source, a, b) == a.text < b.text

\* The order of the traces: by key and plaintext in a directory, by key and
\* row number in the table.
tracecmp(source, a, b) ==
    \/ a.key < b.key
    \/ a.key = b.key /\ IF source = "dir" THEN a.text < b.text ELSE a.index < b.index

\* The list that parse_trace_filename and add_trace_file_to_list fill in any
\* order, and qsort orders.  Files with the same key and plaintext may come out
\* either way, so this is a set of lists.
trace_dir_init(source, entries) ==
    {files \in SetToSeqs({e \in entries : e.usable}) :
        \A i, j \in DOMAIN files : i < j => ~tracecmp(source, files[j], files[i])}

\* Mutant: the loop leaves the index one entry further.
trace_dir_findkey_late(files, num_dbkey) ==
    LET index_key(i) == Cardinality({j \in 2..i : files[j].key # files[j - 1].key})
    IN  (Min({i \in DOMAIN files : index_key(i) = num_dbkey} \union {Len(files) + 1}) + 1)
            % (Len(files) + 1)

\* The first entry of key number num_dbkey, 0 if there is no such key.  An empty
\* list has no key either: the code then reads an uninitialised entry, whose
\* file cannot be opened.
trace_dir_findkey(files, num_dbkey) ==
    LET index_key(i) == Cardinality({j \in 2..i : files[j].key # files[j - 1].key})
    IN  Min({i \in DOMAIN files : index_key(i) = num_dbkey} \union {Len(files) + 1})
            % (Len(files) + 1)

\* May the trace at this place be read?  It must still be of the attacked key.
\* Past the end of the list the code compares with an uninitialised entry, in
\* which it does not find the key; the table returns no tuple.  The table also
\* refuses a trace of the wrong length, the directory does not.
CanGetTrace(source, files, place, key, points) ==
    /\ place \in DOMAIN files
    /\ files[place].key = key
    /\ source = "db" => files[place].points = points
------------------------------------------------------------------------------
\* What the list is for: the traces of a key, given by its number, in their order.
\* Said by counting: so many keys are smaller than theirs, and the n-th of them
\* has n - 1 before it.
KeysOf(list) == {list[i].key : i \in DOMAIN list}
Rank(k, list) == Cardinality({x \in KeysOf(list) : x < k})
KeyNumber(list, n) == CHOOSE k \in KeysOf(list) : Rank(k, list) = n
PlacesOf(k, list) == {i \in DOMAIN list : list[i].key = k}
Stamp(source, e) == IF source = "dir" THEN e.text ELSE e.index
Earlier(source, i, list) ==
    {j \in PlacesOf(list[i].key, list) :
        \/ Stamp(source, list[j]) < Stamp(source, list[i])
        \/ Stamp(source, list[j]) = Stamp(source, list[i]) /\ j < i}
Wanted(source, list, num_dbkey) ==
    LET ours == PlacesOf(KeyNumber(list, num_dbkey), list)
    IN  IF Cardinality(KeysOf(list)) <= num_dbkey THEN <<>>
        ELSE [n \in 1..Cardinality(ours) |->
                list[CHOOSE i \in ours : Cardinality(Earlier(source, i, list)) = n - 1]]
=============================================================================
