------------------------------- MODULE MCLoader -------------------------------
(***************************************************************************)
(* Two rows, for different keys or for one; up to two sets of keys, a key  *)
(* that is in no row among them; one to three columns, repeated and named  *)
(* like the key column among them.  Text 9 is longer than the entries, and *)
(* name 8 has no room for its terminator.                                  *)
(***************************************************************************)
EXTENDS Loader

KeyColumn == 7
Col(n, t) == [name |-> n, type |-> t]

ColumnsOfFile ==
    {<<Col(1, t)>> : t \in {"STRING", "INTEGER", "FLOAT", "string"}}
    \cup {<<Col(m, s), Col(n, t)>> : m \in {1}, n \in {1, 2, KeyColumn},
                                     s \in {"STRING", "INTEGER"},
                                     t \in {"STRING", "INTEGER", "FLOAT"}}
    \cup {<<Col(1, "STRING"), Col(2, "INTEGER"), Col(3, "STRING")>>}

Lists == {<<>>, <<1>>, <<2, 1>>, <<3, 2>>}

SetsOfFile ==
    {<<>>} \cup {<<[name |-> 1, keys |-> l]>> : l \in Lists}
    \cup {<<[name |-> 1, keys |-> l], [name |-> 2, keys |-> m]>> : l \in Lists, m \in Lists}
    \cup {<<[name |-> 1, keys |-> <<1>>], [name |-> 2, keys |-> <<2>>], [name |-> 3, keys |-> <<>>]>>}

Cell(type, v) ==
    IF type \in {"STRING", "string"} THEN [isText |-> TRUE, value |-> v]
    ELSE [isText |-> FALSE, value |-> v]

\* The cells of a row hold its number, or a text that is too long.
RowOf(cols, r, long) ==
    [c \in 1 .. Len(cols) |-> Cell(cols[c].type, IF c \in long THEN 9 ELSE 2 * r + c)]

File(name, ks, cs, ss, long) ==
    [keyName |-> name, keys |-> ks, columns |-> cs, sets |-> ss,
     values |-> <<RowOf(cs, 1, {}), RowOf(cs, 2, long)>>]

Files ==
    {File(KeyColumn, ks, cs, ss, long) : ks \in {<<1, 2>>, <<2, 1>>, <<1, 1>>},
                                         cs \in ColumnsOfFile, ss \in SetsOfFile,
                                         long \in {{}, {1}}}
    \cup {File(n, <<1, 2>>, cs, <<>>, {}) : n \in {8, 9}, cs \in ColumnsOfFile}
================================================================================
