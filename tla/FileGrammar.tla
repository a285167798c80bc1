---------------------------- MODULE FileGrammar ----------------------------
(***************************************************************************)
(* What an initialization file means, without counting or taking anything  *)
(* off a text: the reference that InitParser is compared with.             *)
(***************************************************************************)
EXTENDS InitParser

\* A token of a string is escaped by an odd number of backslashes before it.
Escaped(t, k) ==
    \E n \in 1 .. k - 1 :
        /\ n % 2 = 1
        /\ \A m \in 1 .. n : t[k - m] = Backslash
        /\ n = k - 1 \/ t[k - n - 1] # Backslash

\* A string ends with its first quote that is not escaped, and is not empty.
IsString(t) ==
    /\ Len(t) > 2 /\ t[1] = Quote
    /\ \A k \in 2 .. Len(t) : (t[k] = Quote /\ ~Escaped(t, k)) <=> k = Len(t)

\* It has no parenthesis in it and does not end with a backslash (an escaped one):
\* the counting takes them for a parenthesis and for an escaped quote.
Plain(t) ==
    /\ \A k \in 1 .. Len(t) : t[k] \notin {Open, Close}
    /\ t[Len(t) - 1] # Backslash

IsValue(t, type) ==
    IF type = "STRING" THEN IsString(t) /\ Plain(t) ELSE Len(t) = 1 /\ t[1] \in Numbers

Meant(t, type) == IF type = "STRING" THEN SubSeq(t, 2, Len(t) - 1) ELSE t

\* v or (v, ..., v), with values of the given types: the signs stand at the cuts.
Cuts(t, n) ==
    {c \in [0 .. n -> {1, Len(t)} \cup {k \in 1 .. Len(t) : t[k] = Comma}] :
        /\ Len(t) > 2
        /\ c[0] = 1 /\ t[1] = Open
        /\ c[n] = Len(t) /\ t[Len(t)] = Close
        /\ \A k \in 1 .. n : c[k - 1] < c[k] /\ (k # n => t[c[k]] = Comma)}

Piece(t, c, k) == SubSeq(t, c[k - 1] + 1, c[k] - 1)

GroupMeanings(t, formats) ==
    {<<Meant(v, formats[1])>> :
        v \in {v \in {t} : Len(formats) = 1 /\ IsValue(v, formats[1])}}
    \cup {[k \in 1 .. Len(formats) |-> Meant(Piece(t, c, k), formats[k])] :
        c \in {c \in Cuts(t, Len(formats)) :
                  \A k \in 1 .. Len(formats) : IsValue(Piece(t, c, k), formats[k])}}

\* A row of a set is a group, a row of the universe is one, a colon and another.
RowMeanings(t, columns) ==
    IF Len(columns) = 1 THEN {<<key>> : key \in GroupMeanings(t, columns[1])}
    ELSE UNION {{<<key, value>> : key \in GroupMeanings(SubSeq(t, 1, k - 1), columns[1]),
                                  value \in GroupMeanings(SubSeq(t, k + 1, Len(t)), columns[2])} :
                   k \in {k \in 1 .. Len(t) : t[k] = Colon}}

\* The body of an insert, from each of its places: rows with commas between them.
BodyMeanings(s, columns) ==
    LET from[i \in 1 .. Len(s) + 1] ==
            {<<row>> : row \in RowMeanings(SubSeq(s, i, Len(s)), columns)}
            \cup UNION {UNION {{<<row>> \o rest : rest \in from[k + 1]} :
                                  row \in RowMeanings(SubSeq(s, i, k - 1), columns)} :
                           k \in {k \in i .. Len(s) : s[k] = Comma}}
    IN  from[1]
-----------------------------------------------------------------------------
\* The file's own meaning.
Columns(st) ==
    IF IsUniverseInsert(st) THEN <<key_data_type_names, attribute_data_type_names>>
    ELSE <<key_data_type_names>>

WellFormed(st) == st.kind = "INSERT" => BodyMeanings(st.body, Columns(st)) # {}

RowsIn(st) == CHOOSE rows \in BodyMeanings(st.body, Columns(st)) : TRUE

\* What the first statements of the file insert under a name, and which sets they create.
Inserted(name) ==
    LET upto[k \in 0 .. Len(file)] ==
            IF k = 0 THEN <<>>
            ELSE IF file[k].kind = "INSERT" /\ file[k].into = name
            THEN upto[k - 1] \o RowsIn(file[k]) ELSE upto[k - 1]
    IN  upto

Created ==
    LET upto[k \in 0 .. Len(file)] ==
            IF k = 0 THEN <<>>
            ELSE IF file[k].kind = "SET" THEN Append(upto[k - 1], file[k].name) ELSE upto[k - 1]
    IN  upto

RowsOfFile == Inserted(UniverseName)[Len(file)]
SetsOfFile == Created[Len(file)]

MembersOf(name) ==
    [m \in 1 .. Len(Inserted(name)[Len(file)]) |-> Inserted(name)[Len(file)][m][1]]

\* When the parser reports success, and the inserts follow the grammar, every
\* statement has taken effect, once and in the order of the file, with exactly
\* the rows that stand in it; unless two ';' stand side by side: reading stops
\* there and what follows is dropped without an error.
FileFaithful ==
    (pc = "done" /\ \A k \in 1 .. Len(file) : file[k].kind # "EMPTY" /\ WellFormed(file[k])) =>
        /\ [r \in 1 .. Len(key_values) |-> <<key_values[r], attribute_values[r]>>] = RowsOfFile
        /\ [n \in 1 .. sets_length |-> sets[n].name] = SetsOfFile
        /\ \A n \in 1 .. sets_length : sets[n].keys = MembersOf(sets[n].name)

\* A file in the intended order whose sets list keys of the universe, each once
\* (over all inserts into the set), is read to its end: the rows counted in
\* front agree with the rows found, and no set meets the assertions on its room.
\* (Names have fewer than 256 characters.)
OpensRight ==
    /\ Len(file) > 2
    /\ file[1].kind = "UNIVERSE"
    /\ file[2].kind = "ATTRIBUTES" /\ file[2].of = UniverseName
    /\ IsUniverseInsert(file[3])

InOrder ==
    \A k \in 4 .. Len(file) :
        LET st == file[k]
            before(kind) == {j \in 3 .. k - 1 : file[j].kind = kind}
        IN  \/ IsUniverseInsert(st) /\ before("SET") = {}
            \/ /\ st.kind = "SET" /\ st.name # UniverseName
               /\ \A j \in before("SET") : file[j].name # st.name
            \/ /\ st.kind = "INSERT"
               /\ \E j \in before("SET") : file[j].name = st.into

MembersRight ==
    \A k \in 1 .. Len(SetsOfFile) :
        LET members == MembersOf(SetsOfFile[k])
        IN  /\ IsInjective(members)
            /\ \A m \in 1 .. Len(members) : \E r \in 1 .. Len(RowsOfFile) :
                  RowsOfFile[r][1] = members[m]

LegalFileRead ==
    pc \in {"failed", "aborted", "overfull", "crashed"} =>
        ~(OpensRight /\ (\A k \in 1 .. Len(file) : WellFormed(file[k])) /\ InOrder /\ MembersRight)
=============================================================================
