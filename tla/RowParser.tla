------------------------------ MODULE RowParser ------------------------------
(***************************************************************************)
(* The body of an INSERT statement of the initialization file (parser.c):  *)
(* the rows are counted by their delimiters first, and then as many rows   *)
(* are taken off the front of the text by an anchored regular expression.  *)
(* A text is a sequence of tokens, the six signs below and words; blanks   *)
(* are left out.  A backslash outside a string is a word like any other.   *)
(***************************************************************************)
EXTENDS Integers, SequencesExt

CONSTANTS
    Open, Close, Comma, Colon, Quote, Backslash,
    Words,
    Numbers,        \* the words that are numbers
    NULL            \* an entry of an array list that was not filled in

Token == {Open, Close, Comma, Colon, Quote, Backslash} \cup Words

\* A row that is filled in: the texts of its values.
Entry == Seq(Seq(Token))

ASSUME SignAssumption ==
    /\ Open \notin {Close, Comma, Colon, Quote, Backslash}
    /\ Close \notin {Comma, Colon, Quote, Backslash}
    /\ Comma \notin {Colon, Quote, Backslash}
    /\ Colon \notin {Quote, Backslash} /\ Quote # Backslash
ASSUME WordAssumption ==
    Numbers \subseteq Words /\ Words \cap {Open, Close, Comma, Colon, Quote, Backslash} = {}
ASSUME NullAssumption == NULL \notin Seq(Token) \cup Entry

IsWord(token) == token \notin {Open, Close, Comma, Colon, Quote}

Types == {"STRING", "INTEGER", "FLOAT"}

\* What the two loops over the characters know behind each of them: a quote is
\* escaped if a backslash stands before it, and a parenthesis is one in a
\* string as well.
Scanned(str) ==
    LET after[i \in 0 .. Len(str)] ==
            IF i = 0 THEN [string |-> FALSE, parentheses |-> FALSE]
            ELSE CASE str[i] = Quote /\ (i = 1 \/ str[i - 1] # Backslash) ->
                        [after[i - 1] EXCEPT !.string = ~@]
                   [] str[i] = Open  -> [after[i - 1] EXCEPT !.parentheses = TRUE]
                   [] str[i] = Close -> [after[i - 1] EXCEPT !.parentheses = FALSE]
                   [] OTHER          -> after[i - 1]
    IN  after

count_delimiter(str, delimiter) ==
    LET after == Scanned(str)
    IN  Cardinality({i \in 1 .. Len(str) : str[i] = delimiter /\ ~after[i].string})

count_delimiter_ignoring_parentheses_content(str, delimiter) ==
    LET after == Scanned(str)
    IN  Cardinality({i \in 1 .. Len(str) : /\ str[i] = delimiter /\ ~after[i].string
                                           /\ ~after[i].parentheses})

-----------------------------------------------------------------------------
\* Where the string that begins at i ends: it is not empty, and a backslash takes
\* the next character with it.
ClosingQuotes(str, i) ==
    LET escaped[k \in i .. Len(str)] == k > i /\ str[k - 1] = Backslash /\ ~escaped[k - 1]
    IN  {k \in i + 1 .. Len(str) : str[k] = Quote /\ ~escaped[k]}

StringEndsAt(i, quotes) == IF quotes = {} \/ i + 1 \in quotes THEN 0 ELSE Min(quotes)

\* any_value: where the word or the string at i ends, 0 if none is there.
any_value(str, i) ==
    IF i > Len(str) THEN 0
    ELSE IF IsWord(str[i]) THEN i
    ELSE IF str[i] = Quote THEN StringEndsAt(i, ClosingQuotes(str, i))
    ELSE 0

NoValues == [values |-> <<>>, end |-> 0]

\* Values separated by commas from `first' up to a ')', where they end; none if
\* there is anything else.
ListedValues(str, first) ==
    LET from[i \in 1 .. Len(str) + 1] ==
            LET end == any_value(str, i)
            IN  IF end = 0 \/ end = Len(str) THEN NoValues
                ELSE IF str[end + 1] = Close
                THEN [values |-> <<SubSeq(str, i, end)>>, end |-> end + 1]
                ELSE IF str[end + 1] # Comma \/ from[end + 2] = NoValues THEN NoValues
                ELSE [from[end + 2] EXCEPT !.values = <<SubSeq(str, i, end)>> \o @]
    IN  from[first]

SingleValue(str, first) ==
    LET end == any_value(str, first)
    IN  IF end = 0 THEN NoValues ELSE [values |-> <<SubSeq(str, first, end)>>, end |-> end]

\* The match: its values, its text and the place behind it.
Group(str, first, listed) ==
    [values |-> listed.values,
     next   |-> listed.end + 1,
     text   |-> SubSeq(str, first, listed.end)]

GroupAt(str, first) ==
    Group(str, first, IF first <= Len(str) /\ str[first] = Open THEN ListedValues(str, first + 1)
                      ELSE SingleValue(str, first))

\* regex_universe_insert_supp at the cursor: a comma that may be missing, then
\* a value or values in parentheses.  `next' is behind the match.
TakeGroup(str, cursor) ==
    GroupAt(str, IF cursor <= Len(str) /\ str[cursor] = Comma THEN cursor + 1 ELSE cursor)

Matched(group) == group.values # <<>>

-----------------------------------------------------------------------------
\* A string is what stands between its quotes; a number is the first one found
\* anywhere, in a string as well; a float is read like an integer.
parse_value(value, type) ==
    IF type = "STRING"
    THEN IF value[1] = Quote THEN SubSeq(value, 2, Len(value) - 1) ELSE NULL
    ELSE LET found == {i \in 1 .. Len(value) : value[i] \in Numbers}
         IN  IF found = {} THEN NULL ELSE <<value[Min(found)]>>

AmountOK(group, types) == count_delimiter(group.text, Comma) + 1 = Len(types)

NotParsed(status) == [status |-> status, values |-> NULL]

\* The values of a group, once their amount is right: if the commas of the text
\* were miscounted there may be fewer, and a null pointer is parsed.
ParseGroup(group, types) ==
    LET parsed == [i \in 1 .. Min({Len(types), Len(group.values)}) |->
                      parse_value(group.values[i], types[i])]
    IN  IF NULL \in Range(parsed) THEN NotParsed("error")
        ELSE IF Len(group.values) < Len(types) THEN NotParsed("crashed")
        ELSE [status |-> "ok", values |-> parsed]

parse_universe_values(group, types) ==
    IF Matched(group) /\ AmountOK(group, types) THEN ParseGroup(group, types)
    ELSE NotParsed("error")

\* One row of the loop of parse_universe_insert_supp: after an error in the key
\* the attributes are not looked at.
Row(key, value, next) ==
    [status |-> IF key.status = "ok" THEN value.status ELSE key.status,
     cursor |-> next, key |-> key.values,
     value  |-> IF key.status = "ok" THEN value.values ELSE NULL]

ValuesOfRow(key, attributes, types) ==
    Row(key, parse_universe_values(attributes, types), attributes.next)

UniverseRow(str, keys, key_types, attribute_types) ==
    ValuesOfRow(IF keys.next <= Len(str) /\ str[keys.next] = Colon
                THEN parse_universe_values(keys, key_types) ELSE NotParsed("error"),
                TakeGroup(str, keys.next + 1), attribute_types)

\* All of them: after an error the rows that are left stay NULL.
NextRow(str, last, key_types, attribute_types) ==
    IF last.status = "ok"
    THEN UniverseRow(str, TakeGroup(str, last.cursor), key_types, attribute_types)
    ELSE [last EXCEPT !.key = NULL, !.value = NULL]

UniverseRowsRead(str, n, key_types, attribute_types) ==
    LET row[i \in 0 .. n] ==
            IF i = 0 THEN [status |-> "ok", cursor |-> 1, key |-> NULL, value |-> NULL]
            ELSE NextRow(str, row[i - 1], key_types, attribute_types)
    IN  row

parse_universe_insert_supp(str, key_types, attribute_types) ==
    LET n   == count_delimiter(str, Colon)
        row == UniverseRowsRead(str, n, key_types, attribute_types)
    IN  [status |-> row[n].status,
         keys   |-> [i \in 1 .. n |-> row[i].key],
         values |-> [i \in 1 .. n |-> row[i].value]]

\* A set has no room for more members than the universe has keys.  Mutant: the
\* last place is not used.
OverfullSoon(members, room) == members >= room

Overfull(members, room) == members > room

\* One row of parse_set_insert_supp, the set's n-th member.
SetMember(parsed, next) == [status |-> parsed.status, cursor |-> next, key |-> parsed.values]

SetRow(group, types, n, room) ==
    SetMember(IF ~Matched(group) \/ ~AmountOK(group, types) THEN NotParsed("error")
              ELSE IF Overfull(n, room) THEN NotParsed("overfull")
              ELSE ParseGroup(group, types),
              group.next)

\* Into a set that has `before' members.
SetRowsRead(str, n, types, before, room) ==
    LET row[i \in 0 .. n] ==
            IF i = 0 THEN SetMember(NotParsed(IF Overfull(n, room) THEN "overfull" ELSE "ok"), 1)
            ELSE IF row[i - 1].status # "ok" THEN row[i - 1]
            ELSE SetRow(TakeGroup(str, row[i - 1].cursor), types, before + i, room)
    IN  row

parse_set_insert_supp(str, types, before, room) ==
    LET n   == count_delimiter_ignoring_parentheses_content(str, Comma) + 1
        row == SetRowsRead(str, n, types, before, room)
    IN  [status |-> row[n].status, keys |-> [i \in 1 .. n |-> row[i].key]]
=============================================================================
