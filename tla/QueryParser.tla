----------------------------- MODULE QueryParser -----------------------------
(***************************************************************************)
(* query_parser.c: a chunk of text is parsed by regular expressions that   *)
(* look at its two ends, and by cutting it at a comma outside parentheses. *)
(* A text is a sequence of tokens: the four signs below, and words.  Case  *)
(* and blanks are left out (they are allowed wherever two tokens meet).    *)
(***************************************************************************)
EXTENDS Integers, SequencesExt

CONSTANTS
    Open, Close, Comma, Semicolon,
    SelectWord, FromWord,
    ComplementWord, UnionWord, IntersectionWord, DifferenceWord

Signs == {Open, Close, Comma, Semicolon}

\* No two of them are the same token.
ASSUME TokenAssumption ==
    /\ Open # Close /\ Comma # Semicolon
    /\ {Comma, Semicolon} \cap {Open, Close} = {}
    /\ {SelectWord, FromWord} \cap Signs = {}
    /\ {ComplementWord, UnionWord, IntersectionWord, DifferenceWord} \cap Signs = {}
    /\ ComplementWord \notin {UnionWord, IntersectionWord, DifferenceWord}

IsWord(token) == token \notin Signs

\* string2op_type, for the operations with two operands.
Operation ==
    [word \in {UnionWord, IntersectionWord, DifferenceWord} |->
        CASE word = UnionWord        -> "OP_UNION"
          [] word = IntersectionWord -> "OP_INTERSECTION"
          [] OTHER                   -> "OP_DIFFERENCE"]

\* A tree is the sequence of its nodes in the order they are made, the root
\* last; a pointer is how many places before its node the operand is.
create_set_op_leave(name)    == <<[op_type |-> "LEAVE", set_name |-> name]>>
create_set_op_complement(op) == op \o <<[op_type |-> "OP_COMPLEMENT", left_op |-> 1]>>
create_set_op(left, right, type) ==
    left \o right \o <<[op_type |-> type, left_op |-> Len(right) + 1, right_op |-> 1]>>
NULL == <<>>

\* Where the first delimiter outside parentheses is, 0 if there is none or a
\* parenthesis is closed before it that was not opened.
\* Mutant: parentheses are not counted.
find_delimiter_FirstOfAll(string, delimiter) ==
    LET found == {i \in 1 .. Len(string) : string[i] = delimiter}
    IN  IF found = {} THEN 0 ELSE Min(found)

find_delimiter_ignoring_parentheses_content(string, delimiter) ==
    LET count[i \in 0 .. Len(string)] ==
            IF i = 0 THEN 0
            ELSE count[i - 1] + (CASE string[i] = Open  -> 1
                                   [] string[i] = Close -> -1
                                   [] OTHER             -> 0)
        found == {i \in 1 .. Len(string) : /\ string[i] = delimiter /\ count[i] = 0
                                           /\ \A j \in 1 .. i : count[j] >= 0}
    IN  IF found = {} THEN 0 ELSE Min(found)

\* regex_parentheses and its like: from the first '(' to the last ')', with
\* anything in between.
Enclosed(string) ==
    Len(string) > 2 /\ string[1] = Open /\ string[Len(string)] = Close

Content(string) == SubSeq(string, 2, Len(string) - 1)

parse_set_operation(text) ==
    LET parse[string \in Seq(ToSet(text))] ==
        IF string = <<>> THEN NULL
        ELSE IF Enclosed(string)
        THEN parse[Content(string)]
        ELSE IF Len(string) = 1
        THEN IF IsWord(string[1]) THEN create_set_op_leave(string[1]) ELSE NULL
        ELSE IF \/ string[1] = ComplementWord /\ Len(string) = 2 /\ IsWord(string[2])
                \/ string[1] = ComplementWord /\ Enclosed(Tail(string))
        THEN LET op == parse[IF Len(string) = 2 THEN Tail(string) ELSE Content(Tail(string))]
             IN  IF op = NULL THEN NULL ELSE create_set_op_complement(op)
        ELSE IF string[1] \in DOMAIN Operation /\ Enclosed(Tail(string))
        THEN LET content == Content(Tail(string))
                 split   == find_delimiter_ignoring_parentheses_content(content, Comma)
                 left    == parse[SubSeq(content, 1, split - 1)]
                 right   == parse[SubSeq(content, split + 1, Len(content))]
             IN  IF split = 0 \/ left = NULL \/ right = NULL THEN NULL
                 ELSE create_set_op(left, right, Operation[string[1]])
        ELSE NULL
    IN  parse[text]

\* regex_query: the words between SELECT and FROM are separated by commas, and
\* the only ';' is the last token.  FromAt is the place of FROM.
FromAt(text) ==
    {k \in 3 .. Len(text) :
        /\ text[1] = SelectWord /\ text[k] = FromWord /\ k % 2 = 1
        /\ \A i \in 2 .. k - 1 : IF i % 2 = 0 THEN IsWord(text[i]) ELSE text[i] = Comma}

regex_query(text) ==
    /\ FromAt(text) # {}
    /\ Len(text) > Max(FromAt(text)) + 1
    /\ {i \in 1 .. Len(text) : text[i] = Semicolon} = {Len(text)}

parse_column_names(string) ==
    [c \in 1 .. (Len(string) + 1) \div 2 |-> string[2 * c - 1]]

parse_query(text) ==
    IF ~regex_query(text) THEN [op |-> NULL, column_names |-> <<>>]
    ELSE LET from == Max(FromAt(text))
         IN  [op |-> parse_set_operation(SubSeq(text, from + 1, Len(text) - 1)),
              column_names |-> parse_column_names(SubSeq(text, 2, from - 1))]
-----------------------------------------------------------------------------
(* The grammar, which says nothing of how a text is cut: all trees that    *)
(*   name | (e) | COMPLEMENT name | COMPLEMENT (e) | OPERATION (e, e)      *)
(* derives the text from.                                                  *)

Derivations(text) ==
    LET derived[s \in Seq(ToSet(text))] ==
        (IF Len(s) = 1 /\ IsWord(s[1]) THEN {create_set_op_leave(s[1])} ELSE {})
        \cup (IF Enclosed(s) THEN derived[Content(s)] ELSE {})
        \cup (IF Len(s) = 2 /\ s[1] = ComplementWord /\ IsWord(s[2])
              THEN {create_set_op_complement(create_set_op_leave(s[2]))} ELSE {})
        \cup (IF s # <<>> /\ s[1] = ComplementWord /\ Enclosed(Tail(s))
              THEN {create_set_op_complement(e) : e \in derived[Content(Tail(s))]} ELSE {})
        \cup (IF s # <<>> /\ s[1] \in DOMAIN Operation /\ Enclosed(Tail(s))
              THEN LET inner == Content(Tail(s))
                   IN  UNION {{create_set_op(l, r, Operation[s[1]]) :
                                  l \in derived[SubSeq(inner, 1, k - 1)],
                                  r \in derived[SubSeq(inner, k + 1, Len(inner))]} :
                              k \in {k \in 1 .. Len(inner) : inner[k] = Comma}}
              ELSE {})
    IN  derived[text]

\* SELECT names FROM e ;
Queries(text) ==
    IF text = <<>> \/ Last(text) # Semicolon THEN {} ELSE
    UNION {{[op |-> e, column_names |-> [c \in 1 .. (k - 1) \div 2 |-> text[2 * c]]] :
               e \in Derivations(SubSeq(text, k + 1, Len(text) - 1))} : k \in FromAt(text)}
=============================================================================
