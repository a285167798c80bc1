------------------------------- MODULE Query -------------------------------
(***************************************************************************)
(* message_callback_func of main.c up to its first send, on a loaded       *)
(* database: the text is parsed (QueryParser), and db_run_query of         *)
(* parser_db_translation.c evaluates the tree of set operations on         *)
(* bitsets, looks up the columns, and copies a row for every bit of the    *)
(* result.                                                                 *)
(***************************************************************************)
EXTENDS Database, QueryParser

CONSTANT Texts              \* what is asked: sequences of tokens

ASSUME TextsAssumption == \A t \in Texts : t \in Seq(ToSet(t))

VARIABLES
    place,                  \* idle, parse, refused; evaluate, columns, rows,
                            \* answered; killed, undefined
    text,                   \* the message
    op, column_names,       \* the query
    bs,                     \* bitset of the result
    rows                    \* for each row its index, and the value in each column

queryVars == <<dbVars, place, text, op, column_names, bs, rows>>

\* A database as the loader leaves it: keys 1, 2, ... in the order of their
\* indexes, as many as maxKeyCount unless the file repeats one; sets of any
\* of them; a STRING, an INTEGER and, from a load that failed, an untyped
\* attribute.
Column(type) ==
    [type |-> type, stringLength |-> 8,
     data |-> IF type = "TYPE_UNDEFINED" THEN Empty ELSE [k \in 0 .. keyCount - 1 |-> 10 + k]]

QueryInit ==
    /\ keyCount \in 1 .. maxKeyCount
    /\ keyTable = [k \in 1 .. keyCount |-> k - 1]
    /\ setCount = Cardinality(SetNames)
    /\ setNamesTable \in {t \in [SetNames -> 0 .. setCount - 1] : Injective(t)}
    /\ sets \in [0 .. setCount - 1 ->
                    [integer_count : {Words(maxKeyCount)}, bits : SUBSET (0 .. keyCount - 1)]]
    /\ attrCount = 3
    /\ attrNamesTable = [a \in 1 .. 3 |-> a - 1]
    /\ attributes = [a \in 0 .. 2 |-> Column(CASE a = 0 -> "TYPE_STRING" [] a = 1 -> "TYPE_64"
                                                [] OTHER -> "TYPE_UNDEFINED")]
    /\ status = "ok"
    /\ place = "idle" /\ text = <<>> /\ op = NULL /\ column_names = <<>>
    /\ bs = bitset_initialize(0) /\ rows = <<>>

Ask ==
    /\ place = "idle"
    /\ place' = "parse"
    /\ text' \in Texts
    /\ UNCHANGED <<dbVars, op, column_names, bs, rows>>

\* A text that does not parse gets no answer.
ParseQuery ==
    /\ place = "parse"
    /\ \E q \in {parse_query(text)} :
          /\ place' = IF q.op = NULL THEN "refused" ELSE "evaluate"
          /\ op' = q.op
          /\ column_names' = q.column_names
    /\ UNCHANGED <<dbVars, text, bs, rows>>

-----------------------------------------------------------------------------
NamesIn(e) == {e[i].set_name : i \in {i \in 1 .. Len(e) : e[i].op_type = "LEAVE"}}

db_run_set_operation(e) ==
    LET run[i \in 1 .. Len(e)] ==
            LET left  == run[i - e[i].left_op]
                right == run[i - e[i].right_op]
            IN  CASE e[i].op_type = "LEAVE"           -> sets[setNamesTable[e[i].set_name]]
                  [] e[i].op_type = "OP_COMPLEMENT"   -> bitset_complement(left)
                  [] e[i].op_type = "OP_UNION"        -> bitset_union(left, right)
                  [] e[i].op_type = "OP_INTERSECTION" -> bitset_intersection(left, right)
                  [] e[i].op_type = "OP_DIFFERENCE"   -> bitset_difference(left, right)
    IN  run[Len(e)]

\* A set that is not in the table is a null pointer.
RunSetOperation ==
    /\ place = "evaluate"
    /\ IF NamesIn(op) \subseteq DOMAIN setNamesTable
       THEN bs' = db_run_set_operation(op) /\ place' = "columns"
       ELSE place' = "killed" /\ UNCHANGED bs
    /\ UNCHANGED <<dbVars, text, op, column_names, rows>>

\* attributeTables has one element for each attribute of the database, and
\* one is written for each column of the query, known or not.
LookUpColumns ==
    /\ place = "columns"
    /\ place' \in LET unknown == {c \in 1 .. Len(column_names) :
                                     ~Known(attrNamesTable, column_names[c])}
                      behind  == attrCount + 1 .. Len(column_names)
                  IN  IF unknown = {} /\ behind = {} THEN {"rows"}
                      ELSE IF behind = {} \/ \E c \in unknown : c <= attrCount
                      THEN {"killed"} ELSE {"undefined"}
    /\ UNCHANGED <<dbVars, text, op, column_names, bs, rows>>

\* An entry behind the array of its attribute, which holds maxKeyCount of
\* them or none, is read all the same: it is anything, or no memory at all.
Holding(bit, c) ==
    /\ bit < maxKeyCount
    /\ attributes[attrNamesTable[column_names[c]]].type # "TYPE_UNDEFINED"

Row(bit) ==
    [index |-> bit,
     cells |-> [c \in 1 .. Len(column_names) |->
                   IF Holding(bit, c) THEN Entry(attrNamesTable[column_names[c]], bit)
                   ELSE Garbage]]

\* The buffers of the columns hold keyCount rows; a row more is written
\* behind them.  Mutant: one row less is allocated.
BufferRowsLess == keyCount - 1

BufferRows == keyCount

\* A row for each bit of the result, in the order of the bits.
Copied ==
    LET copied[n \in 0 .. bs.integer_count * INTEGER_BIT_SIZE] ==
            IF n = 0 THEN <<>>
            ELSE IF n - 1 \in bs.bits THEN Append(copied[n - 1], Row(n - 1))
            ELSE copied[n - 1]
    IN  copied[bs.integer_count * INTEGER_BIT_SIZE]

CopyRows ==
    /\ place = "rows"
    /\ \/ /\ Len(Copied) <= BufferRows
          /\ place' = "answered" /\ rows' = Copied
       \/ /\ Len(Copied) > BufferRows
          /\ place' = "undefined" /\ UNCHANGED rows
       \/ /\ \E b \in bs.bits, c \in 1 .. Len(column_names) : ~Holding(b, c)
          /\ place' = "killed" /\ UNCHANGED rows
    /\ UNCHANGED <<dbVars, text, op, column_names, bs>>

QueryNext == Ask \/ ParseQuery \/ RunSetOperation \/ LookUpColumns \/ CopyRows

QuerySpec == QueryInit /\ [][QueryNext]_queryVars
-----------------------------------------------------------------------------
(* Properties.                                                             *)

\* Whatever is sent, it is taken for a query exactly if the grammar derives it,
\* and for the one query it derives: matching parentheses at the two ends of a
\* text that do not belong together, or cutting it at the first comma that is
\* outside parentheses, never reads it as something else.
ParseExact ==
    /\ place = "refused" => Queries(text) = {}
    /\ place = "evaluate" =>
          Queries(text) = {[op |-> op, column_names |-> column_names]}

\* What the operations mean on sets of keys.
Meaning(e) ==
    LET meaning[i \in 1 .. Len(e)] ==
            LET left  == meaning[i - e[i].left_op]
                right == meaning[i - e[i].right_op]
            IN  CASE e[i].op_type = "LEAVE"           -> Members(e[i].set_name)
                  [] e[i].op_type = "OP_COMPLEMENT"   -> DOMAIN keyTable \ left
                  [] e[i].op_type = "OP_UNION"        -> left \cup right
                  [] e[i].op_type = "OP_INTERSECTION" -> left \cap right
                  [] e[i].op_type = "OP_DIFFERENCE"   -> left \ right
    IN  meaning[Len(e)]

\* Trees whose result has no bit behind the keys: a complement is allowed
\* where what it is cut with, or what is taken away from, has none.
Bounded(e) ==
    LET bounded[i \in 1 .. Len(e)] ==
            LET left  == bounded[i - e[i].left_op]
                right == bounded[i - e[i].right_op]
            IN  CASE e[i].op_type = "LEAVE"           -> TRUE
                  [] e[i].op_type = "OP_COMPLEMENT"   -> FALSE
                  [] e[i].op_type = "OP_UNION"        -> left /\ right
                  [] e[i].op_type = "OP_INTERSECTION" -> left \/ right
                  [] e[i].op_type = "OP_DIFFERENCE"   -> left
    IN  bounded[Len(e)]

NoPadding == keyCount = Words(maxKeyCount) * INTEGER_BIT_SIZE

Typed ==
    {a \in DOMAIN attrNamesTable : attributes[attrNamesTable[a]].type # "TYPE_UNDEFINED"}

\* A bounded tree, or any tree when the keys fill the last word, is answered
\* with one row for each key that the operations select, in the order the
\* keys were added, and with that key's own values.
QueryExact ==
    (place = "answered" /\ (Bounded(op) \/ NoPadding) /\ ToSet(column_names) \subseteq Typed) =>
        /\ {rows[r].index : r \in 1 .. Len(rows)} = {keyTable[k] : k \in Meaning(op)}
        /\ \A r, s \in 1 .. Len(rows) : r < s => rows[r].index < rows[s].index
        /\ \A r \in 1 .. Len(rows) : \A k \in DOMAIN keyTable : keyTable[k] = rows[r].index =>
              rows[r].cells = [c \in 1 .. Len(column_names) |-> ValueOf(column_names[c], k)]

\* Such a query is always answered when its names are known, its columns are
\* typed and no more than the attributes of the database.
Sound ==
    /\ place \notin {"idle", "parse", "refused"}
    /\ NamesIn(op) \subseteq DOMAIN setNamesTable
    /\ ToSet(column_names) \subseteq Typed /\ Len(column_names) <= attrCount
    /\ Bounded(op) \/ NoPadding

QuerySafe == Sound => place \notin {"killed", "undefined"}

\* bitset.c:105, "Creates the complement set to b": the complement of a set of
\* keys is a set of keys.
OnlyKeysAnswered ==
    \A r \in 1 .. Len(rows) : rows[r].index \in Indexes(keyTable)
=============================================================================
