--------------------------- MODULE MCAttackWrapper ---------------------------
(* Instances of AttackWrapper for TLC.                                        *)
EXTENDS AttackWrapper

NewEntry(k, t, i, p) == [key |-> k, text |-> t, index |-> i, points |-> p, usable |-> TRUE]

\* Key 7 (number 1) has enough traces, between those of another key, and a name
\* that is no trace; then one of them too short; then too few; then no second
\* key, or nothing at all; then two traces of one plaintext.  Rows of the table
\* come in another order than the texts.
Complete == {NewEntry(7, 1, 3, 2), NewEntry(7, 2, 1, 2), NewEntry(7, 3, 2, 2), NewEntry(3, 9, 4, 2)}
Short == {NewEntry(7, 1, 3, 2), NewEntry(7, 2, 1, 1), NewEntry(7, 4, 2, 2), NewEntry(3, 2, 0, 2)}
Few == {NewEntry(7, 1, 3, 2), NewEntry(9, 5, 1, 2), NewEntry(3, 2, 0, 2),
        [NewEntry(7, 6, 6, 2) EXCEPT !.usable = FALSE]}
Lone == {NewEntry(7, 1, 3, 2), NewEntry(7, 2, 1, 2)}
Twice == {NewEntry(7, 2, 3, 2), NewEntry(7, 2, 1, 1), NewEntry(7, 5, 0, 2), NewEntry(3, 2, 2, 2)}
MCInputs == {[source |-> s, entries |-> e] :
                s \in {"dir", "db"}, e \in {Complete, Short, Few, Lone, Twice, {}}}
MCPreambles == {<<>>, <<"other", "LF", "other">>}
=============================================================================
