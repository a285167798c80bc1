-------------------------- MODULE InitParserProofs --------------------------
(***************************************************************************)
(* What parse_initialization promises, for every set of files and every    *)
(* set of words: what it reports success for is whole (first part) and is  *)
(* what stands in the file, and a legal file is read (second part).        *)
(*                                                                         *)
(* The loops of RowParser and of FileGrammar are recursive functions.      *)
(* What is proved of them rests on the least number for which it would be  *)
(* false (LeastNatural, and Upward and Backward that follow from it).      *)
(***************************************************************************)
EXTENDS FileGrammar, FiniteSetTheorems, SequenceTheorems, WellFoundedInduction, TLAPS

-----------------------------------------------------------------------------
(* Numbers and recursive functions.                                        *)

\* A set of natural numbers that is not empty has a least member.
LEMMA LeastNatural ==
    ASSUME NEW S, S \subseteq Nat, S # {}
    PROVE  \E m \in S : \A k \in S : m <= k
<1>1. PICK m \in S : \A k \in S : ~(<<k, m>> \in OpToRel(<, Nat))
    BY NatLessThanWellFounded, WFMin
<1>2. \A k \in S : ~(k < m)
    BY <1>1 DEF OpToRel
<1> QED BY <1>2

\* Min is that member.
LEMMA MinMember ==
    ASSUME NEW S, S \subseteq Nat, S # {}
    PROVE  Min(S) \in S
BY LeastNatural DEF Min

\* The size of a set of places in a text is a number.
LEMMA CountNatural ==
    ASSUME NEW n \in Nat, NEW S, S \subseteq 1 .. n
    PROVE  Cardinality(S) \in Nat
<1>1. IsFiniteSet(1 .. n)
    BY FS_Interval
<1>2. IsFiniteSet(S)
    BY <1>1, FS_Subset
<1> QED BY <1>2, FS_CardinalityType

-----------------------------------------------------------------------------
(* The values of a group.                                                  *)

Text == Seq(Token)

\* What is cut out of a text is a text.
LEMMA PieceOfText ==
    ASSUME NEW str \in Text, NEW i \in Nat \ {0}, NEW end \in 0 .. Len(str)
    PROVE  SubSeq(str, i, end) \in Text
BY DEF Text

\* A value ends inside the text and not before it begins.
LEMMA ValueEnds ==
    ASSUME NEW str \in Text, NEW i \in Nat \ {0}
    PROVE  /\ any_value(str, i) \in 0 .. Len(str)
           /\ any_value(str, i) # 0 => i <= any_value(str, i)
<1>1. Len(str) \in Nat
    BY DEF Text
<1>2. CASE i <= Len(str) /\ ~IsWord(str[i]) /\ str[i] = Quote
    <2> DEFINE quotes == ClosingQuotes(str, i)
    <2>1. quotes \subseteq i + 1 .. Len(str)
        BY DEF ClosingQuotes
    <2>2. StringEndsAt(i, quotes) \in {0} \cup quotes
        <3>1. quotes # {} => Min(quotes) \in quotes
            BY <1>1, <2>1, MinMember
        <3> QED BY <3>1 DEF StringEndsAt
    <2> QED BY <1>1, <1>2, <2>1, <2>2 DEF any_value
<1>3. CASE ~(i <= Len(str) /\ ~IsWord(str[i]) /\ str[i] = Quote)
    BY <1>1, <1>3 DEF any_value
<1> QED BY <1>2, <1>3

Listed(str) == [values : Seq(Text), end : 0 .. Len(str)]

\* The body of the recursive function of ListedValues.
ListFrom(str, from, i) ==
    LET end == any_value(str, i)
    IN  IF end = 0 \/ end = Len(str) THEN NoValues
        ELSE IF str[end + 1] = Close
        THEN [values |-> <<SubSeq(str, i, end)>>, end |-> end + 1]
        ELSE IF str[end + 1] # Comma \/ from[end + 2] = NoValues THEN NoValues
        ELSE [from[end + 2] EXCEPT !.values = <<SubSeq(str, i, end)>> \o @]

IsList(str, from, first) == from = [i \in first .. Len(str) + 1 |-> ListFrom(str, from, i)]

\* What is listed at a place depends on the places behind it only.
LEMMA ListLooksAhead ==
    ASSUME NEW str \in Text, NEW i \in Nat \ {0}, NEW f, NEW g,
           \A k \in i + 1 .. Len(str) + 1 : f[k] = g[k]
    PROVE  ListFrom(str, f, i) = ListFrom(str, g, i)
<1> DEFINE end == any_value(str, i)
<1>1. /\ Len(str) \in Nat
      /\ end \in 0 .. Len(str)
      /\ end # 0 => i <= end
    BY ValueEnds DEF Text
<1>2. CASE end = 0 \/ end = Len(str)
    BY <1>2 DEF ListFrom
<1>3. CASE ~(end = 0 \/ end = Len(str))
    <2> HIDE DEF end
    <2>1. f[end + 2] = g[end + 2]
        BY <1>1, <1>3
    <2> QED BY <2>1 DEF ListFrom, end
<1> QED BY <1>2, <1>3

\* So the function that lists values exists: by recursion from the end.
LEMMA ListExists ==
    ASSUME NEW str \in Text
    PROVE  \E f : IsList(str, f, 1)
<1> DEFINE n == Len(str)
<1>0. n \in Nat
    BY DEF Text
<1> DEFINE S == {k \in 0 .. n : ~\E f : IsList(str, f, n + 1 - k)}
<1>1. SUFFICES ASSUME S # {} PROVE FALSE
    BY <1>0
<1>2. PICK m \in S : \A k \in S : m <= k
    <2>1. S \subseteq Nat
        BY <1>0
    <2> QED BY <1>1, <2>1, LeastNatural
<1> HIDE DEF n
<1>3. CASE m = 0
    <2> DEFINE g == [i \in n + 1 .. n + 1 |-> NoValues]
               f == [i \in n + 1 .. n + 1 |-> ListFrom(str, g, i)]
    <2>1. \A i \in n + 1 .. n + 1 : ListFrom(str, g, i) = ListFrom(str, f, i)
        <3> TAKE i \in n + 1 .. n + 1
        <3>1. i \in Nat \ {0} /\ \A k \in i + 1 .. Len(str) + 1 : g[k] = f[k]
            BY <1>0 DEF n
        <3> HIDE DEF f, g
        <3> QED BY <3>1, ListLooksAhead
    <2>2. IsList(str, f, n + 1)
        BY <2>1 DEF IsList, n
    <2> QED BY <1>0, <1>2, <1>3, <2>2
<1>4. CASE m # 0
    <2> DEFINE first == n + 1 - m
    <2>1. m \in 1 .. n
        BY <1>0, <1>2, <1>4
    <2>2. \E g : IsList(str, g, n + 1 - (m - 1))
        BY <1>0, <1>2, <2>1
    <2>3. first \in 1 .. n /\ n + 1 - (m - 1) = first + 1
        BY <1>0, <2>1
    <2>4. PICK g : IsList(str, g, first + 1)
        BY <2>2, <2>3
    <2> DEFINE f == [i \in first .. n + 1 |-> ListFrom(str, g, i)]
    <2> HIDE DEF first
    <2>5. \A k \in first + 1 .. n + 1 : g[k] = f[k]
        BY SMTT(30), <1>0, <2>3, <2>4 DEF IsList, n
    <2>6. \A i \in first .. n + 1 : ListFrom(str, g, i) = ListFrom(str, f, i)
        <3> TAKE i \in first .. n + 1
        <3> HIDE DEF f
        <3>1. i \in Nat \ {0} /\ i + 1 .. n + 1 \subseteq first + 1 .. n + 1
            BY <1>0, <2>3
        <3>2. \A k \in i + 1 .. Len(str) + 1 : g[k] = f[k]
            BY <2>5, <3>1 DEF n
        <3> QED BY <3>1, <3>2, ListLooksAhead
    <2>7. IsList(str, f, first)
        BY <2>6 DEF IsList, n
    <2> QED BY <1>0, <1>2, <2>7 DEF first
<1> QED BY <1>3, <1>4

\* What is listed are texts, ending inside the text.
LEMMA ValuesListed ==
    ASSUME NEW str \in Text, NEW first \in 1 .. Len(str) + 1
    PROVE  ListedValues(str, first) \in Listed(str)
<1> DEFINE n == Len(str)
           from == CHOOSE f : IsList(str, f, 1)
<1>0. n \in Nat
    BY DEF Text
<1>1. IsList(str, from, 1)
    BY ListExists
<1>2. ListedValues(str, first) = from[first]
    BY DEF ListedValues, IsList, ListFrom
<1> HIDE DEF from
<1>3. \A i \in 1 .. n + 1 : from[i] = ListFrom(str, from, i)
    BY <1>1 DEF IsList
<1> DEFINE S == {k \in 0 .. n : from[n + 1 - k] \notin Listed(str)}
<1>4. SUFFICES ASSUME S # {} PROVE FALSE
    <2>1. n + 1 - first \in 0 .. n /\ n + 1 - (n + 1 - first) = first
        BY <1>0
    <2> QED BY <1>2, <2>1
<1>5. PICK m \in S : \A k \in S : m <= k
    <2>1. S \subseteq Nat
        BY <1>0
    <2> QED BY <1>4, <2>1, LeastNatural
<1> DEFINE i   == n + 1 - m
           end == any_value(str, i)
<1>6. i \in 1 .. n + 1 /\ from[i] \notin Listed(str)
    BY <1>0, <1>5
<1>7. /\ end \in 0 .. n
      /\ end # 0 => i <= end
    BY <1>0, <1>6, ValueEnds
<1> HIDE DEF end, i, n
<1>8. NoValues \in Listed(str)
    BY <1>0 DEF NoValues, Listed, n
<1>9. end # 0 => SubSeq(str, i, end) \in Text
    BY <1>0, <1>6, <1>7, PieceOfText DEF n
<1>10. CASE ~(end = 0 \/ end = n) /\ str[end + 1] = Close
    <2>1. from[i] = [values |-> <<SubSeq(str, i, end)>>, end |-> end + 1]
        BY <1>3, <1>6, <1>10 DEF ListFrom, end, n
    <2> QED BY <1>0, <1>6, <1>7, <1>9, <1>10, <2>1 DEF Listed, n
<1>11. CASE ~(end = 0 \/ end = n) /\ str[end + 1] # Close /\ str[end + 1] = Comma
    <2>1. from[end + 2] \in Listed(str)
        <3>1. end + 2 \in i + 1 .. n + 1
            BY <1>0, <1>6, <1>7, <1>11
        <3>2. n + 1 - (end + 2) \in 0 .. n /\ n + 1 - (end + 2) < m
            BY <1>0, <1>5, <1>6, <3>1 DEF i
        <3>3. n + 1 - (n + 1 - (end + 2)) = end + 2
            BY <1>0, <3>1, <1>6
        <3>4. n + 1 - (end + 2) \notin S
            BY <1>0, <1>5, <3>2
        <3> QED BY <3>2, <3>3, <3>4
    <2>2. from[i] \in {NoValues, [from[end + 2] EXCEPT !.values = <<SubSeq(str, i, end)>> \o @]}
        BY <1>3, <1>6, <1>11 DEF ListFrom, end, n
    <2>3. <<SubSeq(str, i, end)>> \o from[end + 2].values \in Seq(Text)
        BY <1>9, <1>11, <2>1 DEF Listed
    <2>4. [from[end + 2] EXCEPT !.values = <<SubSeq(str, i, end)>> \o @] \in Listed(str)
        BY <2>1, <2>3 DEF Listed
    <2> QED BY <1>6, <1>8, <2>2, <2>4
<1>12. CASE end = 0 \/ end = n \/ (str[end + 1] # Close /\ str[end + 1] # Comma)
    <2>1. from[i] = NoValues
        BY <1>3, <1>6, <1>12 DEF ListFrom, end, n
    <2> QED BY <1>6, <1>8, <2>1
<1> QED BY <1>10, <1>11, <1>12

Groups == [values : Seq(Text), next : Nat \ {0}, text : Text]

\* What the regular expression takes off the text is a group.
LEMMA GroupTaken ==
    ASSUME NEW str \in Text, NEW cursor \in Nat \ {0}
    PROVE  TakeGroup(str, cursor) \in Groups
<1>0. Len(str) \in Nat
    BY DEF Text
<1>1. ASSUME NEW first \in Nat \ {0}
      PROVE  GroupAt(str, first) \in Groups
    <2>1. SingleValue(str, first) \in Listed(str)
        <3>1. PICK end : end = any_value(str, first)
            OBVIOUS
        <3>2. end \in 0 .. Len(str)
            BY <3>1, ValueEnds
        <3>3. end # 0 => SubSeq(str, first, end) \in Text
            BY <3>2, PieceOfText
        <3>4. NoValues \in Listed(str)
            BY <1>0 DEF NoValues, Listed
        <3>5. end # 0 => [values |-> <<SubSeq(str, first, end)>>, end |-> end] \in Listed(str)
            BY <1>0, <3>2, <3>3 DEF Listed
        <3> QED
            BY <3>1, <3>4, <3>5 DEF SingleValue
    <2>2. ASSUME first <= Len(str)
          PROVE  ListedValues(str, first + 1) \in Listed(str)
        BY <1>0, <2>2, ValuesListed
    <2>3. ASSUME NEW listed \in Listed(str)
          PROVE  Group(str, first, listed) \in Groups
        <3>1. listed.values \in Seq(Text) /\ listed.end \in 0 .. Len(str)
            BY DEF Listed
        <3>2. SubSeq(str, first, listed.end) \in Text
            BY <3>1, PieceOfText
        <3> QED
            BY <1>0, <3>1, <3>2 DEF Group, Groups
    <2> QED
        BY <2>1, <2>2, <2>3 DEF GroupAt
<1> QED
    BY <1>1 DEF TakeGroup

-----------------------------------------------------------------------------
(* One row.                                                                *)

\* parse_value returns a text or NULL.
LEMMA ValueParsed ==
    ASSUME NEW value \in Text, NEW type
    PROVE  parse_value(value, type) \in Text \cup {NULL}
<1>0. Len(value) \in Nat
    BY DEF Text
<1>1. CASE type = "STRING"
    <2>1. SubSeq(value, 2, Len(value) - 1) \in Text
        <3>1. CASE Len(value) = 0
            <4>1. SubSeq(value, 2, Len(value) - 1) = <<>>
                BY <3>1
            <4> QED
                BY <4>1 DEF Text
        <3>2. CASE Len(value) # 0
            BY <1>0, <3>2, PieceOfText
        <3> QED
            BY <3>1, <3>2
    <2> QED
        BY <1>1, <2>1 DEF parse_value
<1>2. CASE type # "STRING"
    <2> DEFINE found == {i \in 1 .. Len(value) : value[i] \in Numbers}
    <2>1. found # {} => Min(found) \in found
        <3>1. found \subseteq Nat
            BY <1>0
        <3> HIDE DEF found
        <3> QED
            BY <3>1, MinMember
    <2>2. found # {} => <<value[Min(found)]>> \in Text
        BY <1>0, <2>1, WordAssumption DEF Text, Token
    <2>3. parse_value(value, type) = IF found = {} THEN NULL ELSE <<value[Min(found)]>>
        BY <1>2 DEF parse_value
    <2> QED
        BY <2>2, <2>3
<1> QED
    BY <1>1, <1>2

Statuses == {"ok", "error", "crashed"}

\* What is parsed without an error is filled in.
Parsed == [status : Statuses, values : Entry \cup {NULL}]

Filled(parsed) == parsed.status = "ok" => parsed.values # NULL

\* A failure carries no values.
LEMMA FailureParsed ==
    ASSUME NEW status \in {"error", "crashed"}
    PROVE  NotParsed(status) \in Parsed /\ Filled(NotParsed(status))
BY DEF NotParsed, Parsed, Filled, Statuses

\* Success means that a value for every type was converted.
LEMMA GroupParsed ==
    ASSUME NEW group \in Groups, NEW formats \in TypeList
    PROVE  ParseGroup(group, formats) \in Parsed /\ Filled(ParseGroup(group, formats))
<1> DEFINE m == Min({Len(formats), Len(group.values)})
           parsed == [i \in 1 .. m |-> parse_value(group.values[i], formats[i])]
<1>0. Len(formats) \in Nat /\ group.values \in Seq(Text) /\ Len(group.values) \in Nat
    BY DEF TypeList, Groups
<1>1. m \in {Len(formats), Len(group.values)} /\ m <= Len(group.values)
    <2>1. \A a, b \in Nat : Min({a, b}) \in {a, b} /\ Min({a, b}) <= b
        <3> TAKE a, b \in Nat
        <3>1. \E x \in {a, b} : \A y \in {a, b} : x =< y
            BY LeastNatural
        <3> QED
            BY <3>1 DEF Min
    <2> QED
        BY <1>0, <2>1
<1> HIDE DEF m
<1>2. parsed \in Seq(Text \cup {NULL})
    <2>1. \A i \in 1 .. m : parse_value(group.values[i], formats[i]) \in Text \cup {NULL}
        BY <1>0, <1>1, ValueParsed
    <2> QED
        BY <1>0, <1>1, <2>1
<1>3. ParseGroup(group, formats) =
        IF NULL \in Range(parsed) THEN NotParsed("error")
        ELSE IF Len(group.values) < Len(formats) THEN NotParsed("crashed")
        ELSE [status |-> "ok", values |-> parsed]
    BY DEF ParseGroup, m
<1> HIDE DEF parsed
<1>4. NULL \notin Range(parsed) => parsed \in Entry
    <2>1. SUFFICES ASSUME NULL \notin Range(parsed) PROVE parsed \in Seq(Text)
        BY DEF Entry, Text
    <2>2. \A i \in 1 .. Len(parsed) : parsed[i] \in Text
        BY <1>2, <2>1 DEF Range
    <2> QED
        BY <1>2, <2>2
<1>5. NULL \notin Range(parsed) =>
        /\ [status |-> "ok", values |-> parsed] \in Parsed
        /\ Filled([status |-> "ok", values |-> parsed])
    BY <1>4, NullAssumption DEF Parsed, Filled, Statuses
<1> QED
    BY <1>3, <1>5, FailureParsed

\* So it does after the checks of parse_universe_values.
LEMMA UniverseValuesParsed ==
    ASSUME NEW group \in Groups, NEW formats \in TypeList
    PROVE  /\ parse_universe_values(group, formats) \in Parsed
           /\ Filled(parse_universe_values(group, formats))
BY GroupParsed, FailureParsed DEF parse_universe_values

Rows == [status : Statuses, cursor : Nat \ {0}, key : Entry \cup {NULL}, value : Entry \cup {NULL}]

FilledRow(row) == row.status = "ok" => row.key # NULL /\ row.value # NULL

\* A row without an error has its key and its attributes.
LEMMA UniverseRowRead ==
    ASSUME NEW str \in Text, NEW keys \in Groups, NEW key_types \in TypeList,
           NEW attribute_types \in TypeList
    PROVE  /\ UniverseRow(str, keys, key_types, attribute_types) \in Rows
           /\ FilledRow(UniverseRow(str, keys, key_types, attribute_types))
<1> DEFINE attributes == TakeGroup(str, keys.next + 1)
           key == IF keys.next <= Len(str) /\ str[keys.next] = Colon
                  THEN parse_universe_values(keys, key_types) ELSE NotParsed("error")
           value == parse_universe_values(attributes, attribute_types)
<1>1. attributes \in Groups
    <2>1. keys.next + 1 \in Nat \ {0}
        BY DEF Groups
    <2> QED
        BY <2>1, GroupTaken
<1>2. key \in Parsed /\ Filled(key)
    BY UniverseValuesParsed, FailureParsed
<1>3. value \in Parsed /\ Filled(value)
    BY <1>1, UniverseValuesParsed
<1>4. UniverseRow(str, keys, key_types, attribute_types) = Row(key, value, attributes.next)
    BY DEF UniverseRow, ValuesOfRow
<1> HIDE DEF key, value, attributes
<1>5. attributes.next \in Nat \ {0}
    BY <1>1 DEF Groups
<1> QED
    BY <1>2, <1>3, <1>4, <1>5 DEF Row, Rows, FilledRow, Parsed, Filled, Statuses

\* Behind an error no row is without one.
LEMMA NextRowRead ==
    ASSUME NEW str \in Text, NEW last \in Rows, NEW key_types \in TypeList,
           NEW attribute_types \in TypeList
    PROVE  /\ NextRow(str, last, key_types, attribute_types) \in Rows
           /\ FilledRow(NextRow(str, last, key_types, attribute_types))
           /\ last.status # "ok" => NextRow(str, last, key_types, attribute_types).status # "ok"
<1>1. CASE last.status = "ok"
    <2>1. TakeGroup(str, last.cursor) \in Groups
        BY GroupTaken DEF Rows
    <2> QED
        BY <1>1, <2>1, UniverseRowRead DEF NextRow
<1>2. CASE last.status # "ok"
    BY <1>2 DEF NextRow, Rows, FilledRow
<1> QED
    BY <1>1, <1>2

-----------------------------------------------------------------------------
(* All rows of an insert into the universe.                                *)

FirstRow == [status |-> "ok", cursor |-> 1, key |-> NULL, value |-> NULL]

IsRead(row, n, str, key_types, attribute_types) ==
    row = [i \in 0 .. n |-> IF i = 0 THEN FirstRow
                            ELSE NextRow(str, row[i - 1], key_types, attribute_types)]

\* The function that reads the rows exists: by recursion over their number.
LEMMA ReadExists ==
    ASSUME NEW n \in Nat, NEW str, NEW key_types, NEW attribute_types
    PROVE  \E row : IsRead(row, n, str, key_types, attribute_types)
<1> DEFINE Exists(k) == \E row : IsRead(row, k, str, key_types, attribute_types)
           S == {k \in Nat : ~Exists(k)}
<1>1. SUFFICES ASSUME S # {} PROVE FALSE
    OBVIOUS
<1>2. PICK m \in S : \A k \in S : m <= k
    <2> HIDE DEF Exists
    <2>1. S \subseteq Nat
        OBVIOUS
    <2> QED
        BY <1>1, <2>1, LeastNatural
<1>3. CASE m = 0
    <2> DEFINE row == [i \in 0 .. 0 |-> FirstRow]
    <2>1. row = [i \in 0 .. 0 |-> IF i = 0 THEN FirstRow
                                  ELSE NextRow(str, row[i - 1], key_types, attribute_types)]
        OBVIOUS
    <2>2. Exists(0)
        BY <2>1 DEF IsRead
    <2> QED
        BY <1>2, <1>3, <2>2
<1>4. CASE m # 0
    <2>1. m \in Nat \ {0} /\ ~Exists(m)
        BY <1>2, <1>4
    <2>2. m - 1 \in Nat /\ m - 1 \notin S
        <3> HIDE DEF Exists
        <3> QED
            BY <1>2, <2>1
    <2>3. PICK last : IsRead(last, m - 1, str, key_types, attribute_types)
        BY <2>2
    <2> DEFINE row == [i \in 0 .. m |-> IF i = m THEN NextRow(str, last[m - 1], key_types, attribute_types)
                                        ELSE last[i]]
    <2>4. \A i \in 0 .. m - 1 : row[i] = last[i]
        BY <2>1
    <2>5. \A i \in 0 .. m : row[i] = IF i = 0 THEN FirstRow
                                     ELSE NextRow(str, row[i - 1], key_types, attribute_types)
        <3> TAKE i \in 0 .. m
        <3>1. CASE i = m
            <4>1. row[m] = NextRow(str, last[m - 1], key_types, attribute_types) /\ m # 0
                BY <2>1
            <4>2. row[m - 1] = last[m - 1]
                BY <2>1, <2>4
            <4> HIDE DEF row
            <4> QED
                BY <3>1, <4>1, <4>2
        <3>2. CASE i # m
            <4>1. i \in 0 .. m - 1 /\ (i # 0 => i - 1 \in 0 .. m - 1)
                BY <2>1, <3>2
            <4>2. row[i] = last[i] /\ (i # 0 => row[i - 1] = last[i - 1])
                BY <2>4, <4>1
            <4> HIDE DEF row
            <4> QED
                BY <2>3, <4>1, <4>2 DEF IsRead
        <3> QED
            BY <3>1, <3>2
    <2>6. row = [i \in 0 .. m |-> row[i]]
        OBVIOUS
    <2> HIDE DEF row
    <2>7. IsRead(row, m, str, key_types, attribute_types)
        BY <2>5, <2>6 DEF IsRead
    <2> QED
        BY <2>1, <2>7
<1> QED
    BY <1>3, <1>4

\* All rows up to an error are filled in; without an error, all are.
LEMMA RowsRead ==
    ASSUME NEW n \in Nat, NEW str \in Text, NEW key_types \in TypeList,
           NEW attribute_types \in TypeList,
           NEW row, row = UniverseRowsRead(str, n, key_types, attribute_types)
    PROVE  /\ \A i \in 0 .. n : row[i] \in Rows
           /\ \A i \in 1 .. n : FilledRow(row[i])
           /\ row[n].status = "ok" => \A i \in 1 .. n : row[i].status = "ok"
<1>1. IsRead(row, n, str, key_types, attribute_types)
    <2>1. row = CHOOSE f : IsRead(f, n, str, key_types, attribute_types)
        BY DEF UniverseRowsRead, IsRead, FirstRow
    <2> QED
        BY <2>1, ReadExists
<1>2. row[0] = FirstRow
    BY <1>1 DEF IsRead
<1>3. \A i \in 1 .. n : row[i] = NextRow(str, row[i - 1], key_types, attribute_types)
    BY <1>1 DEF IsRead
<1>4. \A i \in 0 .. n : row[i] \in Rows
    <2> DEFINE S == {i \in 0 .. n : row[i] \notin Rows}
    <2>1. SUFFICES ASSUME S # {} PROVE FALSE
        OBVIOUS
    <2>2. PICK m \in S : \A k \in S : m <= k
        <3>1. S \subseteq Nat
            OBVIOUS
        <3> QED
            BY <2>1, <3>1, LeastNatural
    <2>3. m # 0
        BY <1>2, <2>2 DEF FirstRow, Rows, Statuses
    <2>4. m \in 1 .. n /\ m - 1 \in 0 .. n /\ row[m - 1] \in Rows
        BY <2>2, <2>3
    <2>5. row[m] \in Rows
        BY <1>3, <2>4, NextRowRead
    <2> QED
        BY <2>2, <2>5
<1>5. ASSUME NEW i \in 1 .. n
      PROVE  FilledRow(row[i]) /\ (row[i].status = "ok" => row[i - 1].status = "ok")
    <2>1. row[i - 1] \in Rows
        BY <1>4
    <2> QED
        BY <1>3, <2>1, NextRowRead
<1>6. ASSUME row[n].status = "ok", NEW j \in 1 .. n, row[j].status # "ok"
      PROVE  FALSE
    <2> DEFINE S == {k \in 0 .. n : k <= n /\ n - k \in 1 .. n /\ row[n - k].status # "ok"}
    <2>1. S # {}
        <3>1. PICK k \in 0 .. n : k = n - j /\ n - k = j
            OBVIOUS
        <3>2. k \in S
            BY <1>6, <3>1
        <3> QED
            BY <3>2
    <2>2. PICK m \in S : \A k \in S : m <= k
        <3>1. S \subseteq Nat
            OBVIOUS
        <3> QED
            BY <2>1, <3>1, LeastNatural
    <2>3. m # 0
        BY <1>6, <2>2
    <2>4. m - 1 \in 0 .. n /\ n - (m - 1) \in 1 .. n /\ n - (m - 1) - 1 = n - m
        BY <2>2, <2>3
    <2>5. row[n - (m - 1)].status = "ok"
        <3>1. m - 1 \notin S
            BY <2>2, <2>4
        <3> QED
            BY <2>4, <3>1
    <2>6. row[n - m].status = "ok"
        BY <1>5, <2>4, <2>5
    <2> QED
        BY <2>2, <2>6
<1> QED
    BY <1>4, <1>5, <1>6

\* The rows of an insert into the universe: as many as are counted, and all of
\* them filled in if there is no error.
LEMMA UniverseInsertParsed ==
    ASSUME NEW str \in Text, NEW key_types \in TypeList, NEW attribute_types \in TypeList,
           NEW parsed, parsed = parse_universe_insert_supp(str, key_types, attribute_types)
    PROVE  /\ parsed.status \in Statuses
           /\ parsed.keys \in Seq(Entry \cup {NULL}) /\ parsed.values \in Seq(Entry \cup {NULL})
           /\ Len(parsed.keys) = Len(parsed.values)
           /\ parsed.status = "ok" =>
                 parsed.keys \in Seq(Entry) /\ parsed.values \in Seq(Entry)
<1>1. PICK n \in Nat : n = count_delimiter(str, Colon)
    <2>1. Len(str) \in Nat
        BY DEF Text
    <2> QED
        BY <2>1, CountNatural DEF count_delimiter
<1>2. PICK row : row = UniverseRowsRead(str, n, key_types, attribute_types)
    OBVIOUS
<1>3. parsed = [status |-> row[n].status,
                keys   |-> [i \in 1 .. n |-> row[i].key],
                values |-> [i \in 1 .. n |-> row[i].value]]
    BY <1>1, <1>2 DEF parse_universe_insert_supp
<1>4. /\ \A i \in 0 .. n : row[i] \in Rows
      /\ \A i \in 1 .. n : FilledRow(row[i])
      /\ row[n].status = "ok" => \A i \in 1 .. n : row[i].status = "ok"
    BY <1>2, RowsRead
<1>5. row[n].status \in Statuses
    BY <1>4 DEF Rows
<1>6. \A i \in 1 .. n : row[i].key \in Entry \cup {NULL} /\ row[i].value \in Entry \cup {NULL}
    BY <1>4 DEF Rows
<1>7. row[n].status = "ok" => \A i \in 1 .. n : row[i].key # NULL /\ row[i].value # NULL
    BY <1>4 DEF FilledRow
<1> QED
    BY <1>3, <1>5, <1>6, <1>7

-----------------------------------------------------------------------------
(* All rows of an insert into a set.                                       *)

SetStatuses == Statuses \cup {"overfull"}

Members == [status : SetStatuses, cursor : Nat \ {0}, key : Entry \cup {NULL}]

FirstMember(n, room) == SetMember(NotParsed(IF Overfull(n, room) THEN "overfull" ELSE "ok"), 1)

NextMember(str, last, formats, n, room) ==
    IF last.status # "ok" THEN last ELSE SetRow(TakeGroup(str, last.cursor), formats, n, room)

IsSetRead(row, n, str, formats, before, room) ==
    row = [i \in 0 .. n |-> IF i = 0 THEN FirstMember(n, room)
                            ELSE NextMember(str, row[i - 1], formats, before + i, room)]

\* The next member of a set, from the one before it.
LEMMA NextMemberRead ==
    ASSUME NEW str \in Text, NEW last \in Members, NEW formats \in TypeList, NEW n, NEW room
    PROVE  NextMember(str, last, formats, n, room) \in Members
<1>1. CASE last.status # "ok"
    BY <1>1 DEF NextMember
<1>2. CASE last.status = "ok"
    <2> DEFINE group == TakeGroup(str, last.cursor)
               parsed == IF ~Matched(group) \/ ~AmountOK(group, formats) THEN NotParsed("error")
                         ELSE IF Overfull(n, room) THEN NotParsed("overfull")
                         ELSE ParseGroup(group, formats)
    <2>1. group \in Groups
        BY GroupTaken DEF Members
    <2>2. NextMember(str, last, formats, n, room) = SetMember(parsed, group.next)
        BY <1>2 DEF NextMember, SetRow
    <2> HIDE DEF group
    <2>3. parsed.status \in SetStatuses /\ parsed.values \in Entry \cup {NULL}
        BY <2>1, GroupParsed DEF NotParsed, SetStatuses, Statuses, Parsed
    <2>4. group.next \in Nat \ {0}
        BY <2>1 DEF Groups
    <2> HIDE DEF parsed
    <2> QED
        BY <2>2, <2>3, <2>4 DEF SetMember, Members
<1> QED
    BY <1>1, <1>2

\* The function that reads the members exists as well.
LEMMA SetReadExists ==
    ASSUME NEW n \in Nat, NEW str, NEW formats, NEW before, NEW room
    PROVE  \E row : IsSetRead(row, n, str, formats, before, room)
<1> DEFINE Read(row, k) == row = [i \in 0 .. k |-> IF i = 0 THEN FirstMember(n, room)
                                  ELSE NextMember(str, row[i - 1], formats, before + i, room)]
           Exists(k) == \E row : Read(row, k)
           S == {k \in Nat : ~Exists(k)}
<1>1. SUFFICES ASSUME S # {} PROVE FALSE
    BY DEF IsSetRead
<1>2. PICK m \in S : \A k \in S : m <= k
    <2> HIDE DEF Exists
    <2>1. S \subseteq Nat
        OBVIOUS
    <2> QED
        BY <1>1, <2>1, LeastNatural
<1>3. CASE m = 0
    <2> DEFINE row == [i \in 0 .. 0 |-> FirstMember(n, room)]
    <2>1. Read(row, 0)
        OBVIOUS
    <2>2. Exists(0)
        BY <2>1
    <2> QED
        BY <1>2, <1>3, <2>2
<1>4. CASE m # 0
    <2>1. m \in Nat \ {0} /\ ~Exists(m)
        BY <1>2, <1>4
    <2>2. m - 1 \in Nat /\ m - 1 \notin S
        <3> HIDE DEF Exists
        <3> QED
            BY <1>2, <2>1
    <2>3. PICK last : Read(last, m - 1)
        BY <2>2
    <2> DEFINE row == [i \in 0 .. m |-> IF i = m
                           THEN NextMember(str, last[m - 1], formats, before + m, room) ELSE last[i]]
    <2>4. \A i \in 0 .. m - 1 : row[i] = last[i]
        BY <2>1
    <2>5. \A i \in 0 .. m : row[i] = IF i = 0 THEN FirstMember(n, room)
                                     ELSE NextMember(str, row[i - 1], formats, before + i, room)
        <3> TAKE i \in 0 .. m
        <3>1. CASE i = m
            <4>1. row[m] = NextMember(str, last[m - 1], formats, before + m, room) /\ m # 0
                BY <2>1
            <4>2. row[m - 1] = last[m - 1]
                BY <2>1, <2>4
            <4> HIDE DEF row
            <4> QED
                BY <3>1, <4>1, <4>2
        <3>2. CASE i # m
            <4>1. i \in 0 .. m - 1 /\ (i # 0 => i - 1 \in 0 .. m - 1)
                BY <2>1, <3>2
            <4>2. row[i] = last[i] /\ (i # 0 => row[i - 1] = last[i - 1])
                BY <2>4, <4>1
            <4> HIDE DEF row
            <4> QED
                BY <2>3, <4>1, <4>2
        <3> QED
            BY <3>1, <3>2
    <2>6. row = [i \in 0 .. m |-> row[i]]
        OBVIOUS
    <2> HIDE DEF row
    <2>7. Read(row, m)
        BY <2>5, <2>6
    <2> QED
        BY <2>1, <2>7
<1> QED
    BY <1>3, <1>4

\* An insert into a set ends in one of the ways that its caller knows.
LEMMA SetInsertParsed ==
    ASSUME NEW str \in Text, NEW formats \in TypeList, NEW before, NEW room
    PROVE  parse_set_insert_supp(str, formats, before, room).status \in SetStatuses
<1>1. PICK n \in Nat : n = count_delimiter_ignoring_parentheses_content(str, Comma) + 1
    <2>1. Len(str) \in Nat
        BY DEF Text
    <2>2. count_delimiter_ignoring_parentheses_content(str, Comma) \in Nat
        BY <2>1, CountNatural DEF count_delimiter_ignoring_parentheses_content
    <2> QED
        BY <2>2
<1>2. PICK row : row = SetRowsRead(str, n, formats, before, room)
    OBVIOUS
<1>3. IsSetRead(row, n, str, formats, before, room)
    <2>1. row = CHOOSE f : IsSetRead(f, n, str, formats, before, room)
        BY <1>2 DEF SetRowsRead, IsSetRead, FirstMember, NextMember
    <2> QED
        BY <2>1, SetReadExists
<1>4. row[0] = FirstMember(n, room)
    BY <1>3 DEF IsSetRead
<1>5. \A i \in 1 .. n : row[i] = NextMember(str, row[i - 1], formats, before + i, room)
    BY <1>3 DEF IsSetRead
<1>6. \A i \in 0 .. n : row[i] \in Members
    <2> DEFINE S == {i \in 0 .. n : row[i] \notin Members}
    <2>1. SUFFICES ASSUME S # {} PROVE FALSE
        OBVIOUS
    <2>2. PICK m \in S : \A k \in S : m <= k
        <3>1. S \subseteq Nat
            OBVIOUS
        <3> QED
            BY <2>1, <3>1, LeastNatural
    <2>3. m # 0
        BY <1>4, <2>2 DEF FirstMember, SetMember, NotParsed, Members, SetStatuses, Statuses
    <2>4. m \in 1 .. n /\ m - 1 \in 0 .. n /\ row[m - 1] \in Members
        BY <2>2, <2>3
    <2>5. row[m] \in Members
        BY <1>5, <2>4, NextMemberRead
    <2> QED
        BY <2>2, <2>5
<1>7. row[n].status \in SetStatuses
    BY <1>6 DEF Members
<1> QED
    BY <1>1, <1>2, <1>7 DEF parse_set_insert_supp

-----------------------------------------------------------------------------
(* The two passes.                                                         *)

Places == {"universe", "attributes", "insert", "inserts", "count", "rewind", "sets",
           "done", "failed", "aborted", "overfull", "crashed"}

\* Before and behind the end of the inserts into the universe.
Opening  == {"universe", "attributes", "insert", "inserts"}
Counting == {"count", "rewind", "sets", "done"}

ReadInv ==
    /\ file \in Files /\ pos \in 1 .. Len(file) + 1 /\ pc \in Places
    /\ pc = "universe" => pos = 1 /\ buffer.kind = "OTHER"
    /\ pc = "attributes" => pos = 2 /\ buffer.kind = "UNIVERSE"
    /\ pc = "insert" => pos = 3 /\ buffer.kind = "ATTRIBUTES"
    /\ pc \in {"inserts"} \cup Counting => scanned_commands \in 3 .. Len(file)
    /\ pc = "inserts" => /\ pos = scanned_commands + 1
                         /\ buffer = file[scanned_commands] /\ buffer.kind = "INSERT"
    /\ pc \in {"attributes", "insert", "inserts"} \cup Counting => key_data_type_names \in TypeList
    /\ pc \in {"insert", "inserts"} \cup Counting => attribute_data_type_names \in TypeList

\* The rows are filled in, or the second pass begins with an insert into the
\* universe, which is no set.
WholeRows == key_values \in Seq(Entry) /\ attribute_values \in Seq(Entry)

WillBeRefused ==
    /\ scanned_commands < Len(file) /\ IsUniverseInsert(file[scanned_commands + 1])
    /\ pc \in {"count", "rewind", "sets"}
    /\ pc = "sets" => pos = scanned_commands + 1

RowsInv ==
    /\ Len(key_values) = Len(attribute_values)
    /\ key_values \in Seq(Entry \cup {NULL}) /\ attribute_values \in Seq(Entry \cup {NULL})
    /\ pc \in {"universe", "attributes", "insert"} => key_values = <<>> /\ attribute_values = <<>>
    /\ pc = "inserts" => WholeRows
    /\ pc \in Counting => WholeRows \/ WillBeRefused

\* Statements that one pass reads without a stop, and the sets they create.
Readable(first, last) == \A k \in first .. last : k \in 1 .. Len(file) /\ file[k].kind # "EMPTY"

SetsIn(first, last) == {k \in first .. last : file[k].kind = "SET"}

\* Where both passes end, and what the first one counted.
Stop(stop) ==
    /\ stop = Len(file) + 1 \/ (stop \in 1 .. Len(file) /\ file[stop].kind = "EMPTY")
    /\ Readable(scanned_commands + 1, stop - 1)
    /\ sets_length = Cardinality(SetsIn(scanned_commands + 1, stop - 1))

CountInv ==
    /\ pc \in Opening => sets_length = 0
    /\ pc \in Opening \cup {"count", "rewind"} => set_index = 0
    /\ pc = "count" =>
          /\ pos > scanned_commands /\ buffer = file[pos - 1]
          /\ Readable(scanned_commands + 1, pos - 1)
          /\ pos - 1 = scanned_commands => buffer.kind = "INSERT"
          /\ sets_length = Cardinality(SetsIn(scanned_commands + 1, pos - 2))
    /\ pc = "rewind" => pos > scanned_commands /\ Stop(pos)
    /\ pc = "sets" =>
          /\ pos > scanned_commands
          /\ \E stop \in pos .. Len(file) + 1 : Stop(stop)
          /\ set_index = Cardinality(SetsIn(scanned_commands + 1, pos - 1))
    /\ pc = "done" => set_index = sets_length
    /\ pc # "aborted"

\* No set has the universe's name, so that no insert into the universe finds one.
NamesInv ==
    pc = "sets" =>
        /\ DOMAIN sets = 1 .. sets_length
        /\ \A n \in 1 .. sets_length :
              DOMAIN sets[n] = {"name", "keys"} /\ sets[n].name # UniverseName

ParseInv == ReadInv /\ RowsInv /\ CountInv /\ NamesInv

\* The length of the file and its statements.
LEMMA FileFacts ==
    ASSUME ReadInv
    PROVE  /\ Len(file) \in Nat
           /\ \A k \in 1 .. Len(file) : IsStatement(file[k])
           /\ pos \in 1 .. Len(file) + 1
BY FileAssumption DEF ReadInv

\* The body of an insert is a text.
LEMMA BodyIsText ==
    ASSUME NEW st, IsStatement(st), st.kind = "INSERT"
    PROVE  st.body \in Text
BY DEF IsStatement, Text

\* A declaration lists types.
LEMMA TypesAreListed ==
    ASSUME NEW st, IsStatement(st), st.kind \in {"UNIVERSE", "ATTRIBUTES"}
    PROVE  st.types \in TypeList
BY DEF IsStatement

\* What fscanf does.
LEMMA Reads ==
    ASSUME ReadInv, Fscanf
    PROVE  \/ /\ Matches /\ pos \in 1 .. Len(file) /\ file[pos].kind # "EMPTY"
              /\ buffer' = file[pos] /\ pos' = pos + 1
           \/ /\ ~Matches /\ buffer' = buffer /\ pos' = pos
              /\ pos = Len(file) + 1 \/ (pos \in 1 .. Len(file) /\ file[pos].kind = "EMPTY")
BY FileFacts DEF Fscanf, Matches, AtEnd

\* Rows that an insert into the universe adds.
NewRows(parsed) ==
    /\ parsed.status \in Statuses
    /\ parsed.keys \in Seq(Entry \cup {NULL}) /\ parsed.values \in Seq(Entry \cup {NULL})
    /\ Len(parsed.keys) = Len(parsed.values)
    /\ parsed.status = "ok" => parsed.keys \in Seq(Entry) /\ parsed.values \in Seq(Entry)

\* parse_universe_insert: rows only for an insert into the universe.
LEMMA InsertRows ==
    ASSUME NEW st, st.kind = "INSERT" => IsStatement(st),
           key_data_type_names \in TypeList, attribute_data_type_names \in TypeList
    PROVE  /\ NewRows(parse_universe_insert(st))
           /\ parse_universe_insert(st).status = "ok" => IsUniverseInsert(st)
           /\ ~IsUniverseInsert(st) => parse_universe_insert(st) = NoInsert
<1>1. CASE IsUniverseInsert(st)
    <2>1. st.body \in Text
        BY <1>1, BodyIsText DEF IsUniverseInsert
    <2> QED
        BY <1>1, <2>1, UniverseInsertParsed DEF parse_universe_insert, NewRows
<1>2. CASE ~IsUniverseInsert(st)
    <2>1. parse_universe_insert(st) = NoInsert
        BY <1>2 DEF parse_universe_insert
    <2> QED
        BY <1>2, <2>1 DEF NoInsert, NewRows, Statuses
<1> QED
    BY <1>1, <1>2

\* Where nothing could be read nothing is parsed.
LEMMA NoRows == NewRows(NoInsert) /\ NoInsert.status = "error" /\ NoInsert.keys = <<>> /\ NoInsert.values = <<>>
BY DEF NewRows, NoInsert, Statuses

\* What InsertIntoUniverse does with the rows.
LEMMA RowsAdded ==
    ASSUME NEW parsed, NewRows(parsed), NEW success, NEW failure,
           InsertIntoUniverse(parsed, success, failure)
    PROVE  /\ parsed.status = "ok" => pc' = success
           /\ parsed.status # "ok" => pc' \in {failure, "crashed"}
           /\ key_values' = key_values \o parsed.keys
           /\ attribute_values' = attribute_values \o parsed.values
BY DEF InsertIntoUniverse, NewRows, Statuses

\* An insert that is read ahead of the counting.
LEMMA FirstInsertStep ==
    ASSUME ReadInv, ReadFirstInsert
    PROVE  \E parsed :
              /\ NewRows(parsed) /\ InsertIntoUniverse(parsed, "inserts", "failed")
              /\ parsed.status = "ok" => /\ pos \in 1 .. Len(file) /\ buffer' = file[pos] /\ pos' = pos + 1
                                         /\ IsUniverseInsert(file[pos])
<1>1. pc = "insert" /\ Fscanf /\ buffer.kind = "ATTRIBUTES"
      /\ key_data_type_names \in TypeList /\ attribute_data_type_names \in TypeList
    BY DEF ReadFirstInsert, ReadInv
<1>2. buffer'.kind = "INSERT" => IsStatement(buffer') /\ Matches
    BY <1>1, Reads, FileFacts
<1>3. PICK parsed : parsed = IF Matches \/ AtEnd THEN parse_universe_insert(buffer') ELSE NoInsert
    OBVIOUS
<1>4. NewRows(parsed) /\ (parsed.status = "ok" => IsUniverseInsert(buffer'))
    BY <1>1, <1>2, <1>3, InsertRows, NoRows
<1>5. parsed.status = "ok" => Matches
    BY <1>2, <1>4 DEF IsUniverseInsert
<1>6. InsertIntoUniverse(parsed, "inserts", "failed")
    BY <1>3 DEF ReadFirstInsert
<1> QED
    BY <1>1, <1>4, <1>5, <1>6, Reads

\* The two readings of ReadInsert: an insert that was read, or no rows.
LEMMA InsertStep ==
    ASSUME ReadInv, ReadInsert
    PROVE  \E parsed :
              /\ NewRows(parsed) /\ InsertIntoUniverse(parsed, "inserts", "count")
              /\ parsed.status = "ok" => /\ pos \in 1 .. Len(file) /\ buffer' = file[pos] /\ pos' = pos + 1
                                         /\ IsUniverseInsert(file[pos])
              /\ \/ parsed.keys = <<>> /\ parsed.values = <<>>
                 \/ pos \in 1 .. Len(file) /\ IsUniverseInsert(file[pos])
<1>1. pc = "inserts" /\ Fscanf
      /\ key_data_type_names \in TypeList /\ attribute_data_type_names \in TypeList
    BY DEF ReadInsert, ReadInv
<1>2. Matches => /\ pos \in 1 .. Len(file) /\ buffer' = file[pos] /\ pos' = pos + 1
                 /\ IsStatement(buffer')
    BY <1>1, Reads, FileFacts
<1>3. PICK parsed : parsed = IF Matches THEN parse_universe_insert(buffer') ELSE NoInsert
    OBVIOUS
<1>4. InsertIntoUniverse(parsed, "inserts", "count")
    BY <1>3 DEF ReadInsert
<1>5. CASE Matches
    <2>1. NewRows(parsed) /\ (parsed.status = "ok" => IsUniverseInsert(buffer'))
        BY <1>1, <1>2, <1>3, <1>5, InsertRows
    <2>2. IsUniverseInsert(buffer') \/ (parsed.keys = <<>> /\ parsed.values = <<>>)
        BY <1>1, <1>2, <1>3, <1>5, InsertRows, NoRows
    <2> QED
        BY <1>2, <1>4, <1>5, <2>1, <2>2
<1>6. CASE ~Matches
    BY <1>3, <1>4, <1>6, NoRows
<1> QED
    BY <1>5, <1>6

\* One statement of the second pass.
LEMMA StatementStep ==
    ASSUME ReadInv, NamesInv, ReadStatement
    PROVE  /\ pc = "sets" /\ pos \in 1 .. Len(file) /\ buffer' = file[pos] /\ pos' = pos + 1
           /\ file[pos].kind # "EMPTY"
           /\ \/ pc' \in {"failed", "overfull", "crashed"}
              \/ pc' = "aborted" /\ file[pos].kind = "SET" /\ set_index >= sets_length
              \/ /\ pc' = "sets" /\ file[pos].kind = "SET" /\ file[pos].name # UniverseName
                 /\ ~(set_index >= sets_length) /\ set_index' = set_index + 1
                 /\ sets' = [sets EXCEPT ![set_index + 1].name = file[pos].name]
              \/ /\ pc' = "sets" /\ file[pos].kind = "INSERT" /\ file[pos].into # UniverseName
                 /\ set_index' = set_index
                 /\ \E n \in 1 .. sets_length : \E keys : sets' = [sets EXCEPT ![n].keys = keys]
<1>1. /\ pc = "sets" /\ pos \in 1 .. Len(file) /\ buffer' = file[pos] /\ pos' = pos + 1
      /\ file[pos].kind # "EMPTY" /\ IsStatement(file[pos])
    BY Reads, FileFacts DEF ReadStatement
<1> DEFINE st == file[pos]
<1>2. CASE st.kind = "SET"
    <2>1. CreateSet(st.name)
        BY <1>1, <1>2 DEF ReadStatement
    <2> QED
        BY <1>1, <1>2, <2>1 DEF CreateSet
<1>3. CASE st.kind = "INSERT"
    <2>1. InsertIntoSet(st)
        BY <1>1, <1>3 DEF ReadStatement
    <2>2. CASE Position(st.into) = {}
        BY <1>1, <2>1, <2>2 DEF InsertIntoSet
    <2>3. CASE Position(st.into) # {}
        <3>1. PICK n \in Position(st.into) :
                 \E parsed \in {parse_set_insert_supp(st.body, key_data_type_names,
                                                      Len(sets[n].keys), Len(key_values))} :
                    /\ pc' = CASE parsed.status = "ok"    -> "sets"
                               [] parsed.status = "error" -> "failed"
                               [] OTHER                   -> parsed.status
                    /\ sets' = IF parsed.status = "ok"
                               THEN [sets EXCEPT ![n].keys = @ \o parsed.keys] ELSE sets
                    /\ UNCHANGED set_index
            BY <2>1, <2>3 DEF InsertIntoSet
        <3>2. PICK parsed :
                 /\ parsed = parse_set_insert_supp(st.body, key_data_type_names,
                                                   Len(sets[n].keys), Len(key_values))
                 /\ pc' = CASE parsed.status = "ok"    -> "sets"
                            [] parsed.status = "error" -> "failed"
                            [] OTHER                   -> parsed.status
                 /\ sets' = IF parsed.status = "ok"
                            THEN [sets EXCEPT ![n].keys = @ \o parsed.keys] ELSE sets
                 /\ UNCHANGED set_index
            BY <3>1
        <3>3. parsed.status \in SetStatuses
            <4>1. st.body \in Text /\ key_data_type_names \in TypeList
                BY <1>1, <1>3, BodyIsText DEF ReadInv, Counting
            <4> QED
                BY <3>2, <4>1, SetInsertParsed
        <3>4. n \in 1 .. sets_length /\ sets[n].name = st.into /\ st.into # UniverseName
            BY <1>1 DEF Position, NamesInv
        <3>5. CASE parsed.status = "ok"
            <4>1. pc' = "sets" /\ set_index' = set_index
                BY <3>2, <3>5
            <4>2. PICK keys : keys = sets[n].keys \o parsed.keys
                OBVIOUS
            <4>3. sets' = [sets EXCEPT ![n].keys = keys]
                BY <3>2, <3>5, <4>2
            <4> QED
                BY <1>1, <1>3, <3>4, <4>1, <4>3
        <3>6. CASE parsed.status # "ok"
            <4>1. pc' \in {"failed", "overfull", "crashed"}
                BY <3>2, <3>3, <3>6 DEF SetStatuses, Statuses
            <4> QED
                BY <1>1, <4>1
        <3> QED
            BY <3>5, <3>6
    <2> QED
        BY <2>2, <2>3
<1>4. CASE st.kind \notin {"SET", "INSERT"}
    BY <1>1, <1>4 DEF ReadStatement
<1> QED
    BY <1>2, <1>3, <1>4

\* Every step keeps ReadInv.
LEMMA ReadNext ==
    ASSUME ParseInv, [Next]_parseVars
    PROVE  ReadInv'
<1> USE DEF ParseInv
<1>0. /\ file \in Files /\ file' = file /\ Len(file) \in Nat /\ pos \in 1 .. Len(file) + 1
      /\ \A k \in 1 .. Len(file) : IsStatement(file[k])
    BY FileFacts DEF ReadInv, Next, parseVars, ReadUniverse, ReadAttributes, ReadFirstInsert,
                     ReadInsert, CountSet, Rewind, ReadStatement, EndOfStatements
<1>1. CASE ReadUniverse
    <2>1. pc = "universe" /\ Fscanf /\ pos = 1 /\ buffer.kind = "OTHER"
        BY <1>1 DEF ReadUniverse, ReadInv
    <2>2. CASE pc' = "attributes"
        <3>1. /\ buffer'.kind = "UNIVERSE" /\ key_data_type_names' = buffer'.types
              /\ pos' = 2 /\ IsStatement(buffer')
            BY <1>0, <1>1, <2>1, <2>2, Reads DEF ReadUniverse
        <3>2. key_data_type_names' \in TypeList
            BY <3>1, TypesAreListed
        <3> QED
            BY <1>0, <2>1, <2>2, <3>1, <3>2, Reads DEF ReadInv, Places, Counting
    <2>3. CASE pc' = "failed"
        BY <1>0, <2>1, <2>3, Reads DEF ReadInv, Places, Counting
    <2> QED
        BY <1>1, <2>2, <2>3 DEF ReadUniverse
<1>2. CASE ReadAttributes
    <2>1. pc = "attributes" /\ Fscanf /\ pos = 2 /\ buffer.kind = "UNIVERSE"
          /\ key_data_type_names' \in TypeList
        BY <1>2 DEF ReadAttributes, ReadInv
    <2>2. CASE pc' = "insert"
        <3>1. /\ buffer'.kind = "ATTRIBUTES" /\ attribute_data_type_names' = buffer'.types
              /\ pos' = 3 /\ IsStatement(buffer')
            BY <1>0, <1>2, <2>1, <2>2, Reads DEF ReadAttributes
        <3>2. attribute_data_type_names' \in TypeList
            BY <3>1, TypesAreListed
        <3> QED
            BY <1>0, <2>1, <2>2, <3>1, <3>2, Reads DEF ReadInv, Places, Counting
    <2>3. CASE pc' = "failed"
        BY <1>0, <2>1, <2>3, Reads DEF ReadInv, Places, Counting
    <2> QED
        BY <1>2, <2>2, <2>3 DEF ReadAttributes
<1>3. CASE ReadFirstInsert
    <2>1. pc = "insert" /\ pos = 3 /\ Fscanf
          /\ key_data_type_names' \in TypeList /\ attribute_data_type_names' \in TypeList
        BY <1>3 DEF ReadFirstInsert, ReadInv, types
    <2>2. PICK parsed :
              /\ NewRows(parsed) /\ InsertIntoUniverse(parsed, "inserts", "failed")
              /\ parsed.status = "ok" => /\ pos \in 1 .. Len(file) /\ buffer' = file[pos] /\ pos' = pos + 1
                                         /\ IsUniverseInsert(file[pos])
        BY <1>3, FirstInsertStep
    <2>3. CASE parsed.status = "ok"
        <3>1. pc' = "inserts" /\ pos' = 4 /\ buffer' = file[3] /\ buffer'.kind = "INSERT"
            BY <2>1, <2>2, <2>3, RowsAdded DEF IsUniverseInsert
        <3>2. scanned_commands' = 3
            BY <1>3, <3>1 DEF ReadFirstInsert
        <3> QED
            BY <1>0, <2>1, <2>2, <2>3, <3>1, <3>2 DEF ReadInv, Places, Counting
    <2>4. CASE parsed.status # "ok"
        <3>1. pc' \in {"failed", "crashed"}
            BY <2>2, <2>4, RowsAdded
        <3> QED
            BY <1>0, <2>1, <3>1, Reads DEF ReadInv, Places, Counting
    <2> QED
        BY <2>3, <2>4
<1>4. CASE ReadInsert
    <2>1. pc = "inserts" /\ pos = scanned_commands + 1 /\ Fscanf /\ scanned_commands \in 3 .. Len(file)
          /\ key_data_type_names' \in TypeList /\ attribute_data_type_names' \in TypeList
        BY <1>4 DEF ReadInsert, ReadInv, types
    <2>2. PICK parsed :
              /\ NewRows(parsed) /\ InsertIntoUniverse(parsed, "inserts", "count")
              /\ parsed.status = "ok" => /\ pos \in 1 .. Len(file) /\ buffer' = file[pos] /\ pos' = pos + 1
                                         /\ IsUniverseInsert(file[pos])
        BY <1>4, InsertStep
    <2>3. CASE parsed.status = "ok"
        <3>1. pc' = "inserts" /\ pos' = pos + 1 /\ buffer' = file[pos] /\ buffer'.kind = "INSERT"
            BY <2>1, <2>2, <2>3, RowsAdded DEF IsUniverseInsert
        <3>2. scanned_commands' = scanned_commands + 1
            BY <1>4, <3>1 DEF ReadInsert
        <3> QED
            BY <1>0, <2>1, <2>2, <2>3, <3>1, <3>2 DEF ReadInv, Places, Counting
    <2>4. CASE parsed.status # "ok"
        <3>1. pc' \in {"count", "crashed"}
            BY <2>2, <2>4, RowsAdded
        <3>2. scanned_commands' = scanned_commands
            BY <1>4, <2>1, <3>1 DEF ReadInsert
        <3> QED
            BY <1>0, <2>1, <3>1, <3>2, Reads DEF ReadInv, Places, Counting
    <2> QED
        BY <2>3, <2>4
<1>5. CASE CountSet
    <2>1. pc = "count" /\ Fscanf /\ pc' \in {"count", "rewind"} /\ scanned_commands \in 3 .. Len(file)
          /\ key_data_type_names' \in TypeList /\ attribute_data_type_names' \in TypeList
          /\ scanned_commands' = scanned_commands
        BY <1>5 DEF CountSet, ReadInv, Counting, types
    <2> QED
        BY <1>0, <2>1, Reads DEF ReadInv, Places, Counting
<1>6. CASE Rewind
    <2>1. pc = "rewind" /\ pc' = "sets" /\ scanned_commands \in 3 .. Len(file) /\ pos' = scanned_commands + 1
          /\ key_data_type_names' \in TypeList /\ attribute_data_type_names' \in TypeList
          /\ scanned_commands' = scanned_commands
        BY <1>6 DEF Rewind, ReadInv, Counting, types
    <2> QED
        BY <1>0, <2>1 DEF ReadInv, Places, Counting
<1>7. CASE ReadStatement
    <2>1. pc = "sets" /\ pos \in 1 .. Len(file) /\ pos' = pos + 1
          /\ pc' \in {"sets", "failed", "overfull", "crashed", "aborted"}
        BY <1>7, StatementStep
    <2>2. scanned_commands' \in 3 .. Len(file)
          /\ key_data_type_names' \in TypeList /\ attribute_data_type_names' \in TypeList
        BY <1>7, <2>1 DEF ReadStatement, ReadInv, Counting, types
    <2>3. pos' \in 1 .. Len(file') + 1 /\ scanned_commands' \in 3 .. Len(file')
        BY <1>0, <2>1, <2>2
    <2> QED
        BY <1>0, <2>1, <2>2, <2>3 DEF ReadInv, Places, Counting
<1>8. CASE EndOfStatements
    BY <1>0, <1>8 DEF EndOfStatements, ReadInv, Places, Counting, types
<1>9. CASE UNCHANGED parseVars
    BY <1>0, <1>9 DEF parseVars, types, universe, ReadInv
<1> QED
    BY <1>1, <1>2, <1>3, <1>4, <1>5, <1>6, <1>7, <1>8, <1>9 DEF Next

\* Sequences put one behind the other.
LEMMA RowsJoined ==
    ASSUME NEW S, NEW s \in Seq(S), NEW t \in Seq(S)
    PROVE  /\ s \o t \in Seq(S) /\ Len(s \o t) = Len(s) + Len(t)
           /\ s \o <<>> = s /\ <<>> \o s = s
OBVIOUS

\* Every step keeps RowsInv.
LEMMA RowsNext ==
    ASSUME ParseInv, [Next]_parseVars
    PROVE  RowsInv'
<1> USE DEF ParseInv
<1>0. /\ file' = file /\ Len(file) \in Nat /\ RowsInv
      /\ key_values \in Seq(Entry \cup {NULL}) /\ attribute_values \in Seq(Entry \cup {NULL})
    BY FileFacts DEF ReadInv, RowsInv, Next, parseVars, ReadUniverse, ReadAttributes, ReadFirstInsert,
                     ReadInsert, CountSet, Rewind, ReadStatement, EndOfStatements
<1>1. CASE ReadUniverse \/ ReadAttributes
    BY <1>0, <1>1 DEF ReadUniverse, ReadAttributes, universe, RowsInv, Counting
<1>2. ASSUME NEW parsed, NewRows(parsed), key_values' = key_values \o parsed.keys,
             attribute_values' = attribute_values \o parsed.values
      PROVE  /\ Len(key_values') = Len(attribute_values')
             /\ key_values' \in Seq(Entry \cup {NULL}) /\ attribute_values' \in Seq(Entry \cup {NULL})
             /\ WholeRows /\ parsed.status = "ok" => WholeRows'
             /\ WholeRows /\ parsed.keys = <<>> /\ parsed.values = <<>> => WholeRows'
    <2>1. /\ parsed.keys \in Seq(Entry \cup {NULL}) /\ parsed.values \in Seq(Entry \cup {NULL})
          /\ Len(parsed.keys) = Len(parsed.values)
        BY <1>2 DEF NewRows
    <2>2. /\ key_values \o parsed.keys \in Seq(Entry \cup {NULL})
          /\ Len(key_values \o parsed.keys) = Len(key_values) + Len(parsed.keys)
        <3>1. key_values \in Seq(Entry \cup {NULL}) /\ parsed.keys \in Seq(Entry \cup {NULL})
            BY <1>0, <2>1
        <3> QED
            BY <3>1, RowsJoined
    <2>3. /\ attribute_values \o parsed.values \in Seq(Entry \cup {NULL})
          /\ Len(attribute_values \o parsed.values) = Len(attribute_values) + Len(parsed.values)
        <3>1. attribute_values \in Seq(Entry \cup {NULL}) /\ parsed.values \in Seq(Entry \cup {NULL})
            BY <1>0, <2>1
        <3> QED
            BY <3>1, RowsJoined
    <2>4. Len(key_values') = Len(attribute_values')
        <3>1. Len(key_values) = Len(attribute_values)
            BY <1>0 DEF RowsInv
        <3> QED
            BY <1>2, <2>1, <2>2, <2>3, <3>1
    <2>5. key_values' \in Seq(Entry \cup {NULL}) /\ attribute_values' \in Seq(Entry \cup {NULL})
        BY <1>2, <2>2, <2>3
    <2>6. WholeRows /\ parsed.status = "ok" => WholeRows'
        BY <1>2, RowsJoined DEF NewRows, WholeRows
    <2>7. WholeRows /\ parsed.keys = <<>> /\ parsed.values = <<>> => WholeRows'
        BY <1>2, RowsJoined DEF WholeRows
    <2> QED
        BY <2>4, <2>5, <2>6, <2>7
<1>3. CASE ReadFirstInsert
    <2>1. WholeRows
        BY <1>0, <1>3 DEF RowsInv, WholeRows, ReadFirstInsert
    <2>2. PICK parsed : NewRows(parsed) /\ InsertIntoUniverse(parsed, "inserts", "failed")
        BY <1>3, FirstInsertStep
    <2>3. /\ parsed.status = "ok" => pc' = "inserts"
          /\ parsed.status # "ok" => pc' \in {"failed", "crashed"}
          /\ key_values' = key_values \o parsed.keys
          /\ attribute_values' = attribute_values \o parsed.values
        BY <2>2, RowsAdded
    <2> QED
        BY <1>2, <2>1, <2>2, <2>3 DEF RowsInv, Counting
<1>4. CASE ReadInsert
    <2>1. WholeRows /\ pos = scanned_commands + 1 /\ scanned_commands \in 3 .. Len(file)
        BY <1>0, <1>4 DEF RowsInv, ReadInsert, ReadInv
    <2>2. PICK parsed :
              /\ NewRows(parsed) /\ InsertIntoUniverse(parsed, "inserts", "count")
              /\ \/ parsed.keys = <<>> /\ parsed.values = <<>>
                 \/ pos \in 1 .. Len(file) /\ IsUniverseInsert(file[pos])
        BY <1>4, InsertStep
    <2>3. /\ parsed.status = "ok" => pc' = "inserts"
          /\ parsed.status # "ok" => pc' \in {"count", "crashed"}
          /\ key_values' = key_values \o parsed.keys
          /\ attribute_values' = attribute_values \o parsed.values
        BY <2>2, RowsAdded
    <2>4. pc' = "count" => WholeRows' \/ WillBeRefused'
        <3>1. SUFFICES ASSUME pc' = "count", pos \in 1 .. Len(file), IsUniverseInsert(file[pos])
                       PROVE  WillBeRefused'
            BY <1>2, <2>1, <2>2, <2>3
        <3>2. scanned_commands' = scanned_commands
            BY <1>4, <2>1, <3>1 DEF ReadInsert
        <3>3. scanned_commands' < Len(file') /\ file'[scanned_commands' + 1] = file[pos]
            BY <1>0, <2>1, <3>1, <3>2
        <3> QED
            BY <3>1, <3>3 DEF WillBeRefused, IsUniverseInsert
    <2> QED
        BY <1>2, <2>1, <2>2, <2>3, <2>4 DEF RowsInv, Counting
<1>5. CASE CountSet
    <2>1. /\ pc = "count" /\ pc' \in {"count", "rewind"} /\ scanned_commands' = scanned_commands
          /\ key_values' = key_values /\ attribute_values' = attribute_values
        BY <1>5 DEF CountSet
    <2>2. WillBeRefused => WillBeRefused'
        BY <1>0, <2>1 DEF WillBeRefused, IsUniverseInsert
    <2> QED
        BY <1>0, <2>1, <2>2 DEF RowsInv, WholeRows, Counting
<1>6. CASE Rewind
    <2>1. /\ pc = "rewind" /\ pc' = "sets" /\ scanned_commands' = scanned_commands
          /\ key_values' = key_values /\ attribute_values' = attribute_values
          /\ pos' = scanned_commands + 1
        BY <1>6 DEF Rewind
    <2>2. WillBeRefused => WillBeRefused'
        BY <1>0, <2>1 DEF WillBeRefused, IsUniverseInsert
    <2> QED
        BY <1>0, <2>1, <2>2 DEF RowsInv, WholeRows, Counting
<1>7. CASE ReadStatement
    <2>1. pc = "sets" /\ key_values' = key_values /\ attribute_values' = attribute_values
        BY <1>7 DEF ReadStatement
    <2>2. pc' \in {"sets", "failed", "overfull", "crashed", "aborted"}
        BY <1>7, StatementStep
    <2>3. pc' = "sets" => WholeRows
        <3>1. SUFFICES ASSUME pc' = "sets", WillBeRefused PROVE FALSE
            BY <1>0, <2>1 DEF RowsInv, Counting
        <3>2. IsUniverseInsert(file[pos])
            BY <2>1, <3>1 DEF WillBeRefused
        <3> QED
            BY <1>7, <3>1, <3>2, StatementStep DEF IsUniverseInsert
    <2> QED
        BY <1>0, <2>1, <2>2, <2>3 DEF RowsInv, WholeRows, Counting
<1>8. CASE EndOfStatements
    <2>1. /\ pc = "sets" /\ pc' = "done" /\ ~Matches
          /\ key_values' = key_values /\ attribute_values' = attribute_values
        BY <1>8 DEF EndOfStatements, universe
    <2>2. WholeRows
        <3>1. SUFFICES ASSUME WillBeRefused PROVE FALSE
            BY <1>0, <2>1 DEF RowsInv, Counting
        <3>2. IsUniverseInsert(file[pos]) /\ pos = scanned_commands + 1 /\ scanned_commands < Len(file)
            BY <2>1, <3>1 DEF WillBeRefused
        <3>3. scanned_commands \in 3 .. Len(file)
            BY <2>1 DEF ReadInv, Counting
        <3>4. ~(pos > Len(file)) /\ file[pos].kind # "EMPTY"
            BY <1>0, <3>2, <3>3 DEF IsUniverseInsert
        <3> QED
            BY <2>1, <3>4 DEF Matches, AtEnd
    <2> QED
        BY <1>0, <2>1, <2>2 DEF RowsInv, WholeRows, Counting
<1>9. CASE UNCHANGED parseVars
    <2>1. UNCHANGED <<file, pos, pc, scanned_commands, key_values, attribute_values>>
        BY <1>9 DEF parseVars, universe
    <2>2. WillBeRefused => WillBeRefused'
        BY <2>1 DEF WillBeRefused, IsUniverseInsert
    <2> QED
        BY <1>0, <2>1, <2>2 DEF RowsInv, WholeRows
<1> QED
    BY <1>1, <1>3, <1>4, <1>5, <1>6, <1>7, <1>8, <1>9 DEF Next

\* Every step keeps NamesInv.
LEMMA NamesNext ==
    ASSUME ParseInv, [Next]_parseVars
    PROVE  NamesInv'
<1> USE DEF ParseInv
<1>1. CASE Rewind
    BY <1>1, NameAssumption DEF Rewind, NamesInv
<1>2. CASE ReadStatement
    <2>1. pc = "sets" /\ sets_length' = sets_length
        BY <1>2 DEF ReadStatement
    <2>2. /\ DOMAIN sets = 1 .. sets_length
          /\ \A n \in 1 .. sets_length :
                DOMAIN sets[n] = {"name", "keys"} /\ sets[n].name # UniverseName
        BY <2>1 DEF NamesInv
    <2>3. CASE pc' # "sets"
        BY <2>3 DEF NamesInv
    <2>4. ASSUME NEW i, NEW name, name # UniverseName, sets' = [sets EXCEPT ![i].name = name]
          PROVE  NamesInv'
        <3>1. DOMAIN sets' = 1 .. sets_length
            BY <2>2, <2>4
        <3>2. ASSUME NEW n \in 1 .. sets_length
              PROVE  DOMAIN sets'[n] = {"name", "keys"} /\ sets'[n].name # UniverseName
            <4>1. CASE n = i
                <5>1. sets'[n] = [sets[n] EXCEPT !.name = name]
                    BY <2>2, <2>4, <4>1
                <5> QED
                    BY <2>2, <2>4, <5>1
            <4>2. CASE n # i
                BY <2>2, <2>4, <4>2
            <4> QED
                BY <4>1, <4>2
        <3> QED
            BY <2>1, <3>1, <3>2 DEF NamesInv
    <2>5. ASSUME NEW i \in 1 .. sets_length, NEW keys, sets' = [sets EXCEPT ![i].keys = keys]
          PROVE  NamesInv'
        <3>1. DOMAIN sets' = 1 .. sets_length
            BY <2>2, <2>5
        <3>2. ASSUME NEW n \in 1 .. sets_length
              PROVE  DOMAIN sets'[n] = {"name", "keys"} /\ sets'[n].name # UniverseName
            <4>1. CASE n = i
                <5>1. sets'[n] = [sets[n] EXCEPT !.keys = keys]
                    BY <2>2, <2>5, <4>1
                <5> QED
                    BY <2>2, <5>1
            <4>2. CASE n # i
                BY <2>2, <2>5, <4>2
            <4> QED
                BY <4>1, <4>2
        <3> QED
            BY <2>1, <3>1, <3>2 DEF NamesInv
    <2> QED
        BY <1>2, <2>3, <2>4, <2>5, StatementStep
<1>3. CASE UNCHANGED parseVars
    BY <1>3 DEF parseVars, universe, NamesInv
<1>4. CASE ReadUniverse \/ ReadAttributes \/ CountSet \/ EndOfStatements
    BY <1>4 DEF ReadUniverse, ReadAttributes, CountSet, EndOfStatements, NamesInv
<1>5. CASE ReadFirstInsert
    BY <1>5, FirstInsertStep, RowsAdded DEF NamesInv
<1>6. CASE ReadInsert
    BY <1>6, InsertStep, RowsAdded DEF NamesInv
<1> QED
    BY <1>1, <1>2, <1>3, <1>4, <1>5, <1>6 DEF Next

\* The CREATE SETs between two places can be counted.
LEMMA SetsAreFinite ==
    ASSUME NEW first \in Nat, NEW last \in Int
    PROVE  /\ IsFiniteSet(SetsIn(first, last)) /\ Cardinality(SetsIn(first, last)) \in Nat
           /\ first > last => Cardinality(SetsIn(first, last)) = 0
<1>1. IsFiniteSet(first .. last)
    BY FS_Interval
<1>2. IsFiniteSet(SetsIn(first, last))
    BY <1>1, FS_Subset DEF SetsIn
<1>3. first > last => SetsIn(first, last) = {}
    BY DEF SetsIn
<1> QED
    BY <1>2, <1>3, FS_CardinalityType, FS_EmptySet

\* A statement more is a set more, or none.
LEMMA OneMore ==
    ASSUME NEW first \in Nat, NEW last \in Nat, first <= last
    PROVE  Cardinality(SetsIn(first, last))
              = Cardinality(SetsIn(first, last - 1)) + (IF file[last].kind = "SET" THEN 1 ELSE 0)
<1>1. IsFiniteSet(SetsIn(first, last - 1)) /\ Cardinality(SetsIn(first, last - 1)) \in Nat
    BY SetsAreFinite
<1>2. CASE file[last].kind = "SET"
    <2>1. SetsIn(first, last) = SetsIn(first, last - 1) \cup {last} /\ last \notin SetsIn(first, last - 1)
        BY <1>2 DEF SetsIn
    <2> QED
        BY <1>1, <1>2, <2>1, FS_AddElement
<1>3. CASE file[last].kind # "SET"
    <2>1. SetsIn(first, last) = SetsIn(first, last - 1)
        BY <1>3 DEF SetsIn
    <2> QED
        BY <1>1, <1>3, <2>1
<1> QED
    BY <1>2, <1>3

\* More statements, more sets.
LEMMA MoreStatements ==
    ASSUME NEW first \in Nat, NEW last \in Int, NEW stop \in Int, last <= stop
    PROVE  Cardinality(SetsIn(first, last)) <= Cardinality(SetsIn(first, stop))
<1>1. IsFiniteSet(SetsIn(first, stop)) /\ SetsIn(first, last) \subseteq SetsIn(first, stop)
    BY SetsAreFinite DEF SetsIn
<1> QED
    BY <1>1, FS_Subset

\* The invariant's two counts after a step, from what the step makes of them.
LEMMA StopThere ==
    ASSUME NEW CONSTANT stop, file' = file, scanned_commands' = scanned_commands,
           stop = Len(file) + 1 \/ (stop \in 1 .. Len(file) /\ file[stop].kind = "EMPTY"),
           Readable(scanned_commands + 1, stop - 1),
           sets_length' = Cardinality(SetsIn(scanned_commands + 1, stop - 1))
    PROVE  Stop(stop)'
BY DEF Stop, Readable, SetsIn

\* The same for the sets that were created.
LEMMA CountedThere ==
    ASSUME NEW CONSTANT place, file' = file, scanned_commands' = scanned_commands,
           pos' - 1 = place, set_index' = Cardinality(SetsIn(scanned_commands + 1, place))
    PROVE  (set_index = Cardinality(SetsIn(scanned_commands + 1, pos - 1)))'
BY DEF SetsIn

\* Every step keeps CountInv.
LEMMA CountNext ==
    ASSUME ParseInv, [Next]_parseVars
    PROVE  CountInv'
<1> USE DEF ParseInv
<1>0. file' = file /\ Len(file) \in Nat /\ pos \in 1 .. Len(file) + 1
    BY FileFacts DEF Next, parseVars, ReadUniverse, ReadAttributes, ReadFirstInsert,
                     ReadInsert, CountSet, Rewind, ReadStatement, EndOfStatements
<1>00. \A first, last : SetsIn(first, last)' = SetsIn(first, last) /\ Readable(first, last)' = Readable(first, last)
    BY <1>0 DEF SetsIn, Readable
<1>1. CASE ReadUniverse \/ ReadAttributes
    BY <1>1 DEF ReadUniverse, ReadAttributes, universe, CountInv, Opening
<1>2. CASE ReadFirstInsert
    <2>1. pc = "insert" /\ pc' \in {"inserts", "failed", "crashed"}
          /\ sets_length' = sets_length /\ set_index' = set_index
        BY <1>2, FirstInsertStep, RowsAdded DEF ReadFirstInsert
    <2> QED
        BY <2>1 DEF CountInv, Opening
<1>3. CASE ReadInsert
    <2>1. /\ pc = "inserts" /\ pc' \in {"inserts", "count", "crashed"}
          /\ sets_length' = 0 /\ set_index' = 0 /\ Fscanf
        BY <1>3, InsertStep, RowsAdded DEF ReadInsert, CountInv, Opening
    <2>2. /\ pos = scanned_commands + 1 /\ scanned_commands \in 3 .. Len(file)
          /\ buffer = file[scanned_commands] /\ buffer.kind = "INSERT"
        BY <2>1 DEF ReadInv
    <2>3. CASE pc' = "count"
        <3>1. scanned_commands' = scanned_commands
            BY <1>3, <2>2, <2>3 DEF ReadInsert
        <3>2. CASE Matches
            <4>1. pos \in 1 .. Len(file) /\ file[pos].kind # "EMPTY" /\ buffer' = file[pos] /\ pos' = pos + 1
                BY <2>1, <3>2, Reads
            <4>2. pos' > scanned_commands' /\ pos' - 1 = pos /\ pos' - 2 = scanned_commands /\ pos # scanned_commands
                BY <2>2, <3>1, <4>1
            <4>3. Readable(scanned_commands + 1, pos)
                BY <2>2, <4>1 DEF Readable
            <4>4. Cardinality(SetsIn(scanned_commands + 1, scanned_commands)) = 0
                BY <2>2, SetsAreFinite
            <4> QED
                BY <1>0, <1>00, <2>1, <2>3, <3>1, <4>1, <4>2, <4>3, <4>4 DEF CountInv, Opening
        <3>3. CASE ~Matches
            <4>1. buffer' = buffer /\ pos' = pos
                BY <2>1, <3>3, Reads
            <4>2. /\ pos' > scanned_commands' /\ pos' - 1 = scanned_commands
                  /\ pos' - 2 = scanned_commands - 1
                BY <2>2, <3>1, <4>1
            <4>3. Readable(scanned_commands + 1, scanned_commands)
                BY <2>2 DEF Readable
            <4>4. Cardinality(SetsIn(scanned_commands + 1, scanned_commands - 1)) = 0
                BY <2>2, SetsAreFinite
            <4> QED
                BY <1>0, <1>00, <2>1, <2>2, <2>3, <3>1, <4>1, <4>2, <4>3, <4>4 DEF CountInv, Opening
        <3> QED
            BY <3>2, <3>3
    <2> QED
        BY <2>1, <2>3 DEF CountInv, Opening
<1>4. CASE CountSet
    <2> DEFINE first == scanned_commands + 1
    <2>1. /\ pc = "count" /\ Fscanf /\ pc' = IF Matches THEN "count" ELSE "rewind"
          /\ sets_length' = sets_length + (IF buffer.kind = "SET" THEN 1 ELSE 0)
          /\ set_index' = set_index /\ scanned_commands' = scanned_commands
        BY <1>4 DEF CountSet
    <2>2. /\ pos > scanned_commands /\ buffer = file[pos - 1] /\ scanned_commands \in 3 .. Len(file)
          /\ Readable(first, pos - 1) /\ set_index = 0
          /\ pos - 1 = scanned_commands => buffer.kind = "INSERT"
          /\ sets_length = Cardinality(SetsIn(first, pos - 2))
        BY <2>1 DEF CountInv, ReadInv, Counting
    <2>3. sets_length' = Cardinality(SetsIn(first, pos - 1))
        <3>1. CASE pos - 1 = scanned_commands
            <4>1. first > pos - 1 /\ first > pos - 2
                BY <1>0, <2>2, <3>1
            <4>2. Cardinality(SetsIn(first, pos - 1)) = 0 /\ Cardinality(SetsIn(first, pos - 2)) = 0
                BY <1>0, <2>2, <4>1, SetsAreFinite
            <4> QED
                BY <2>1, <2>2, <3>1, <4>2
        <3>2. CASE pos - 1 # scanned_commands
            <4>1. first \in Nat /\ first <= pos - 1 /\ pos - 1 \in Nat /\ pos - 1 - 1 = pos - 2
                BY <1>0, <2>2, <3>2
            <4>2. Cardinality(SetsIn(first, pos - 1))
                     = Cardinality(SetsIn(first, pos - 1 - 1)) + (IF file[pos - 1].kind = "SET" THEN 1 ELSE 0)
                BY <4>1, OneMore
            <4> QED
                BY <2>1, <2>2, <4>1, <4>2
        <3> QED
            BY <3>1, <3>2
    <2>4. CASE Matches
        <3>1. pos \in 1 .. Len(file) /\ file[pos].kind # "EMPTY" /\ buffer' = file[pos] /\ pos' = pos + 1
            BY <2>1, <2>4, Reads
        <3>2. pos' > scanned_commands' /\ pos' - 1 = pos /\ pos' - 2 = pos - 1 /\ pos # scanned_commands
            BY <1>0, <2>1, <2>2, <3>1
        <3>3. Readable(first, pos)
            <4> SUFFICES ASSUME NEW k \in first .. pos
                         PROVE  k \in 1 .. Len(file) /\ file[k].kind # "EMPTY"
                BY DEF Readable
            <4>1. k \in first .. pos - 1 \/ k = pos
                BY <1>0, <2>2
            <4> QED
                BY <2>2, <3>1, <4>1 DEF Readable
        <3> QED
            BY <1>0, <1>00, <2>1, <2>2, <2>3, <2>4, <3>1, <3>2, <3>3 DEF CountInv, Opening
    <2>5. CASE ~Matches
        <3>1. pos' = pos /\ (pos = Len(file) + 1 \/ (pos \in 1 .. Len(file) /\ file[pos].kind = "EMPTY"))
            BY <2>1, <2>5, Reads
        <3>2. PICK stop : stop = pos
            OBVIOUS
        <3>3. Stop(stop)'
            BY <1>0, <2>1, <2>2, <2>3, <3>1, <3>2, StopThere
        <3>4. pos' = stop /\ pos' > scanned_commands' /\ pc' = "rewind" /\ set_index' = 0
            BY <2>1, <2>2, <2>5, <3>1, <3>2
        <3> QED
            BY <3>3, <3>4 DEF CountInv, Opening
    <2> QED
        BY <2>4, <2>5
<1>5. CASE Rewind
    <2>1. /\ pc = "rewind" /\ pc' = "sets" /\ pos' = scanned_commands + 1
          /\ sets_length' = sets_length /\ set_index' = set_index /\ scanned_commands' = scanned_commands
        BY <1>5 DEF Rewind
    <2>2. pos > scanned_commands /\ Stop(pos) /\ set_index = 0 /\ scanned_commands \in 3 .. Len(file)
        BY <2>1 DEF CountInv, ReadInv, Counting
    <2>3. PICK stop : stop = pos
        OBVIOUS
    <2>4. stop \in pos' .. Len(file') + 1 /\ Stop(stop)'
        <3>1. stop \in pos' .. Len(file') + 1
            BY <1>0, <2>1, <2>2, <2>3
        <3>2. /\ stop = Len(file) + 1 \/ (stop \in 1 .. Len(file) /\ file[stop].kind = "EMPTY")
              /\ Readable(scanned_commands + 1, stop - 1)
              /\ sets_length' = Cardinality(SetsIn(scanned_commands + 1, stop - 1))
            BY <2>1, <2>2, <2>3 DEF Stop
        <3>3. Stop(stop)'
            BY <1>0, <2>1, <3>2, StopThere
        <3> QED
            BY <3>1, <3>3
    <2>5. (set_index = Cardinality(SetsIn(scanned_commands + 1, pos - 1)))'
        <3>1. PICK place : place = scanned_commands
            OBVIOUS
        <3>2. Cardinality(SetsIn(scanned_commands + 1, place)) = 0
            BY <2>2, <3>1, SetsAreFinite
        <3>3. pos' - 1 = place
            BY <2>1, <2>2, <3>1
        <3>4. set_index' = Cardinality(SetsIn(scanned_commands + 1, place))
            BY <2>1, <2>2, <3>2
        <3> QED
            BY <1>0, <2>1, <3>3, <3>4, CountedThere
    <2>6. pos' > scanned_commands'
        BY <2>1, <2>2
    <2> QED
        BY <2>1, <2>4, <2>5, <2>6 DEF CountInv, Opening
<1>6. CASE ReadStatement
    <2> DEFINE first == scanned_commands + 1
    <2>1. /\ pc = "sets" /\ pos \in 1 .. Len(file) /\ pos' = pos + 1 /\ file[pos].kind # "EMPTY"
          /\ sets_length' = sets_length /\ scanned_commands' = scanned_commands
        BY <1>6, StatementStep DEF ReadStatement
    <2>2. /\ pos > scanned_commands /\ set_index = Cardinality(SetsIn(first, pos - 1))
          /\ scanned_commands \in 3 .. Len(file)
        BY <2>1 DEF CountInv, ReadInv, Counting
    <2>3. PICK stop \in pos .. Len(file) + 1 : Stop(stop)
        BY <2>1 DEF CountInv
    <2>4. stop > pos
        BY <1>0, <2>1, <2>3 DEF Stop
    <2>5. Cardinality(SetsIn(first, pos))
             = set_index + (IF file[pos].kind = "SET" THEN 1 ELSE 0)
        BY <1>0, <2>1, <2>2, OneMore
    <2>6. Cardinality(SetsIn(first, pos)) <= sets_length /\ sets_length \in Nat
        <3>1. pos <= stop - 1 /\ pos \in Int /\ stop - 1 \in Int /\ first \in Nat
            BY <1>0, <2>1, <2>2, <2>3, <2>4
        <3>2. Cardinality(SetsIn(first, pos)) <= Cardinality(SetsIn(first, stop - 1))
            BY <3>1, MoreStatements
        <3>3. Cardinality(SetsIn(first, stop - 1)) \in Nat
            BY <3>1, SetsAreFinite
        <3>4. sets_length = Cardinality(SetsIn(first, stop - 1))
            BY <2>3 DEF Stop
        <3> QED
            BY <3>2, <3>3, <3>4
    <2>7. pc' # "aborted"
        <3>1. SUFFICES ASSUME pc' = "aborted" PROVE FALSE
            OBVIOUS
        <3>2. file[pos].kind = "SET" /\ set_index >= sets_length
            BY <1>6, <3>1, StatementStep
        <3>3. set_index \in Nat
            <4>1. first \in Nat /\ pos - 1 \in Int
                BY <1>0, <2>2
            <4> QED
                BY <2>2, <4>1, SetsAreFinite
        <3> QED
            BY <2>5, <2>6, <3>2, <3>3
    <2>8. CASE pc' = "sets"
        <3>1. set_index' = Cardinality(SetsIn(first, pos))
            <4>1. first \in Nat /\ pos - 1 \in Int
                BY <1>0, <2>2
            <4>2. set_index \in Nat
                BY <2>2, <4>1, SetsAreFinite
            <4>3. \/ file[pos].kind = "SET" /\ set_index' = set_index + 1
                  \/ file[pos].kind = "INSERT" /\ set_index' = set_index
                BY <1>6, <2>8, StatementStep
            <4> QED
                BY <2>5, <4>2, <4>3
        <3>2. pos' > scanned_commands' /\ pos' - 1 = pos
            BY <1>0, <2>1, <2>2
        <3>3. stop \in pos' .. Len(file') + 1 /\ Stop(stop)'
            <4>1. stop \in pos' .. Len(file') + 1
                BY <1>0, <2>1, <2>3, <2>4
            <4>2. /\ stop = Len(file) + 1 \/ (stop \in 1 .. Len(file) /\ file[stop].kind = "EMPTY")
                  /\ Readable(scanned_commands + 1, stop - 1)
                  /\ sets_length' = Cardinality(SetsIn(scanned_commands + 1, stop - 1))
                BY <2>1, <2>3 DEF Stop
            <4>3. Stop(stop)'
                BY <1>0, <2>1, <4>2, StopThere
            <4> QED
                BY <4>1, <4>3
        <3>4. (set_index = Cardinality(SetsIn(scanned_commands + 1, pos - 1)))'
            <4>1. PICK place : place = pos
                OBVIOUS
            <4>2. pos' - 1 = place /\ set_index' = Cardinality(SetsIn(scanned_commands + 1, place))
                BY <3>1, <3>2, <4>1
            <4> QED
                BY <1>0, <2>1, <4>2, CountedThere
        <3> QED
            BY <2>1, <2>8, <3>2, <3>3, <3>4 DEF CountInv, Opening
    <2>9. CASE pc' \in {"failed", "overfull", "crashed"}
        BY <2>9 DEF CountInv, Opening
    <2> QED
        BY <1>6, <2>7, <2>8, <2>9, StatementStep
<1>7. CASE EndOfStatements
    <2>1. /\ pc = "sets" /\ pc' = "done" /\ ~Matches
          /\ sets_length' = sets_length /\ set_index' = set_index
        BY <1>7 DEF EndOfStatements, universe
    <2>2. /\ pos > scanned_commands /\ set_index = Cardinality(SetsIn(scanned_commands + 1, pos - 1))
          /\ scanned_commands \in 3 .. Len(file)
        BY <2>1 DEF CountInv, ReadInv, Counting
    <2>3. PICK stop \in pos .. Len(file) + 1 : Stop(stop)
        BY <2>1 DEF CountInv
    <2>4. stop = pos
        <3>1. SUFFICES ASSUME stop # pos PROVE FALSE
            OBVIOUS
        <3>2. pos \in scanned_commands + 1 .. stop - 1
            BY <1>0, <2>2, <2>3, <3>1
        <3>3. pos \in 1 .. Len(file) /\ file[pos].kind # "EMPTY"
            BY <2>3, <3>2 DEF Stop, Readable
        <3> QED
            BY <1>0, <2>1, <3>3 DEF Matches, AtEnd
    <2>5. set_index = sets_length
        BY <2>2, <2>3, <2>4 DEF Stop
    <2> QED
        BY <2>1, <2>5 DEF CountInv, Opening
<1>8. CASE UNCHANGED parseVars
    <2>1. UNCHANGED <<file, pos, buffer, pc, sets_length, set_index, scanned_commands>>
        BY <1>8 DEF parseVars, universe
    <2>2. \A stop : Stop(stop)' = Stop(stop)
        BY <1>00, <2>1 DEF Stop
    <2> QED
        BY <1>00, <2>1, <2>2 DEF CountInv
<1> QED
    BY <1>1, <1>2, <1>3, <1>4, <1>5, <1>6, <1>7, <1>8 DEF Next

\* A parser that has read nothing satisfies the invariant.
LEMMA ParseInit == Init => ParseInv
<1> SUFFICES ASSUME Init PROVE ParseInv
    OBVIOUS
<1>1. Len(file) \in Nat
    BY FileAssumption DEF Init
<1> QED
    BY <1>1 DEF Init, ParseInv, ReadInv, RowsInv, CountInv, NamesInv, Places, Opening, Counting

\* What the two properties say follows from the invariant.
LEMMA ParseInvSuffices == ParseInv => RowsWhole /\ SetsCounted
<1> SUFFICES ASSUME ParseInv PROVE RowsWhole /\ SetsCounted
    OBVIOUS
<1>1. pc = "done" => WholeRows /\ Len(key_values) = Len(attribute_values)
    BY DEF ParseInv, RowsInv, WillBeRefused, Counting
<1>2. WholeRows => /\ \A r \in 1 .. Len(key_values) : key_values[r] # NULL
                   /\ \A r \in 1 .. Len(attribute_values) : attribute_values[r] # NULL
    BY NullAssumption DEF WholeRows
<1>3. RowsWhole
    BY <1>1, <1>2 DEF RowsWhole
<1>4. SetsCounted
    BY DEF ParseInv, CountInv, SetsCounted
<1> QED
    BY <1>3, <1>4

\* The invariant holds in every execution.
LEMMA ParseCorrect == Spec => []ParseInv
<1>1. ParseInv /\ [Next]_parseVars => ParseInv'
    BY ReadNext, RowsNext, CountNext, NamesNext DEF ParseInv
<1> QED
    BY <1>1, ParseInit, PTL DEF Spec

\* Whatever stands in the file: when the parser reports success there is a key
\* and an attribute row for each counted row, and none of them is left NULL.
THEOREM AllRowsWhole == Spec => []RowsWhole
BY ParseCorrect, ParseInvSuffices, PTL

\* The sets that the first pass counts are the sets that the second one creates:
\* the assertion on set_index never fails, and no set is left without a name.
THEOREM AllSetsCounted == Spec => []SetsCounted
BY ParseCorrect, ParseInvSuffices, PTL

-----------------------------------------------------------------------------
(* Induction over places, and recursive functions.                         *)

\* What holds at 0 and goes on from each number to the next holds up to n.
LEMMA Upward ==
    ASSUME NEW n \in Nat, NEW S, 0 \in S, \A k \in 1 .. n : k - 1 \in S => k \in S
    PROVE  \A k \in 0 .. n : k \in S
<1> DEFINE N == {k \in 0 .. n : k \notin S}
<1>1. SUFFICES ASSUME N # {} PROVE FALSE
    OBVIOUS
<1>2. PICK m \in N : \A k \in N : m <= k
    <2>1. N \subseteq Nat
        OBVIOUS
    <2> QED
        BY <1>1, <2>1, LeastNatural
<1>3. m \in 1 .. n /\ m - 1 \in 0 .. n
    BY <1>2
<1>4. m - 1 \in S
    BY <1>2, <1>3
<1> QED
    BY <1>2, <1>3, <1>4

\* What holds at a place if it holds at all places behind it holds at all of them.
LEMMA Backward ==
    ASSUME NEW n \in Nat, NEW S,
           \A i \in 1 .. n : (\A k \in i + 1 .. n : k \in S) => i \in S
    PROVE  \A i \in 1 .. n : i \in S
<1> DEFINE N == {k \in 0 .. n : n - k \in 1 .. n /\ n - k \notin S}
<1>1. SUFFICES ASSUME NEW i \in 1 .. n, i \notin S PROVE FALSE
    OBVIOUS
<1>2. N # {}
    <2>1. n - i \in 0 .. n /\ n - (n - i) = i
        OBVIOUS
    <2>2. n - i \in N
        BY <1>1, <2>1
    <2> QED
        BY <2>2
<1>3. PICK m \in N : \A k \in N : m <= k
    <2>1. N \subseteq Nat
        OBVIOUS
    <2> QED
        BY <1>2, <2>1, LeastNatural
<1>4. ASSUME NEW k \in n - m + 1 .. n
      PROVE  k \in S
    <2>1. n - k \in 0 .. n /\ n - (n - k) = k /\ k \in 1 .. n /\ n - k < m
        BY <1>3
    <2>2. n - k \notin N
        BY <1>3, <2>1
    <2> QED
        BY <2>1, <2>2
<1> QED
    BY <1>3, <1>4

-----------------------------------------------------------------------------
(* Strings.                                                                *)

\* A piece of a text, place by place.
LEMMA PieceTokens ==
    ASSUME NEW s \in Text, NEW i \in 1 .. Len(s), NEW j \in i .. Len(s)
    PROVE  /\ SubSeq(s, i, j) \in Text /\ Len(SubSeq(s, i, j)) = j - i + 1
           /\ \A m \in 1 .. j - i + 1 : SubSeq(s, i, j)[m] = s[i - 1 + m]
           /\ \A k \in i .. j : k - i + 1 \in 1 .. j - i + 1 /\ s[k] = SubSeq(s, i, j)[k - i + 1]
<1>1. SubSeq(s, i, j) \in Text
    BY PieceOfText DEF Text
<1>2. Len(SubSeq(s, i, j)) = j - i + 1
    BY DEF Text
<1>3. \A m \in 1 .. j - i + 1 : SubSeq(s, i, j)[m] = s[i - 1 + m]
    BY DEF Text
<1>4. \A k \in i .. j : k - i + 1 \in 1 .. j - i + 1 /\ i - 1 + (k - i + 1) = k
    BY DEF Text
<1> QED
    BY <1>1, <1>2, <1>3, <1>4

\* A token is escaped if a backslash stands before it that is not.
LEMMA EscapedStep ==
    ASSUME NEW t \in Text, NEW k \in 1 .. Len(t)
    PROVE  Escaped(t, k) <=> k > 1 /\ t[k - 1] = Backslash /\ ~Escaped(t, k - 1)
<1> DEFINE Run(n, p) == \A m \in 1 .. n : t[p - m] = Backslash
           Stops(n, p) == n = p - 1 \/ t[p - n - 1] # Backslash
<1>0. Len(t) \in Nat /\ k \in Nat
    BY DEF Text
<1>1. \A p \in {k, k - 1} : Escaped(t, p) <=> \E n \in 1 .. p - 1 : n % 2 = 1 /\ Run(n, p) /\ Stops(n, p)
    BY DEF Escaped
<1>2. ASSUME Escaped(t, k)
      PROVE  k > 1 /\ t[k - 1] = Backslash
    <2>1. PICK n \in 1 .. k - 1 : Run(n, k)
        BY <1>1, <1>2
    <2>2. 1 \in 1 .. n
        BY <1>0
    <2> QED
        BY <1>0, <2>1, <2>2
<1>3. ASSUME Escaped(t, k), Escaped(t, k - 1)
      PROVE  FALSE
    <2>1. PICK n \in 1 .. k - 1 : n % 2 = 1 /\ Run(n, k) /\ Stops(n, k)
        BY <1>1, <1>3
    <2>2. PICK r \in 1 .. (k - 1) - 1 : r % 2 = 1 /\ Run(r, k - 1) /\ Stops(r, k - 1)
        BY <1>1, <1>3
    <2>3. ~(r + 1 < n)
        <3> SUFFICES ASSUME r + 1 < n PROVE FALSE
            OBVIOUS
        <3>1. r # (k - 1) - 1 /\ r + 2 \in 1 .. n /\ k - (r + 2) = (k - 1) - r - 1
            BY <1>0
        <3> QED
            BY <2>1, <2>2, <3>1
    <2>4. ~(r + 1 > n)
        <3> SUFFICES ASSUME r + 1 > n PROVE FALSE
            OBVIOUS
        <3>1. n \in 1 .. r /\ n # k - 1 /\ (k - 1) - n = k - n - 1
            BY <1>0
        <3> QED
            BY <2>1, <2>2, <3>1
    <2>5. n = r + 1
        BY <1>0, <2>3, <2>4
    <2> QED
        BY <1>0, <2>1, <2>2, <2>5
<1>4. ASSUME k > 1, t[k - 1] = Backslash, ~Escaped(t, k), ~Escaped(t, k - 1)
      PROVE  FALSE
    <2> DEFINE N == {n \in 1 .. k - 1 : Stops(n, k)}
    <2>1. N # {}
        <3>1. k - 1 \in N
            BY <1>0, <1>4
        <3> QED
            BY <3>1
    <2>2. PICK n \in N : \A m \in N : n <= m
        <3>1. N \subseteq Nat
            BY <1>0
        <3> HIDE DEF N
        <3> QED
            BY <2>1, <3>1, LeastNatural
    <2>3. ASSUME NEW m \in 1 .. n
          PROVE  t[k - m] = Backslash
        <3>1. CASE m = 1
            BY <1>4, <3>1
        <3>2. CASE m # 1
            <4>1. m - 1 \in 1 .. k - 1 /\ m - 1 < n /\ k - (m - 1) - 1 = k - m
                BY <1>0, <2>2, <3>2
            <4>2. m - 1 \notin N
                BY <2>2, <4>1
            <4> QED
                BY <4>1, <4>2
        <3> QED
            BY <3>1, <3>2
    <2>4. n \in 1 .. k - 1 /\ Run(n, k) /\ Stops(n, k)
        BY <2>2, <2>3
    <2>5. n % 2 # 1
        BY <1>1, <1>4, <2>4
    <2>6. n # 1 /\ n - 1 \in 1 .. (k - 1) - 1 /\ (n - 1) % 2 = 1
        BY <1>0, <2>4, <2>5
    <2>7. Run(n - 1, k - 1)
        <3> SUFFICES ASSUME NEW m \in 1 .. n - 1 PROVE t[k - 1 - m] = Backslash
            OBVIOUS
        <3>1. m + 1 \in 1 .. n /\ k - (m + 1) = k - 1 - m
            BY <1>0, <2>4
        <3> QED
            BY <2>4, <3>1
    <2>8. Stops(n - 1, k - 1)
        <3>1. (n = k - 1 <=> n - 1 = (k - 1) - 1) /\ (k - 1) - (n - 1) - 1 = k - n - 1
            BY <1>0, <2>4
        <3> QED
            BY <2>4, <3>1
    <2> QED
        BY <1>1, <1>4, <2>6, <2>7, <2>8
<1> QED
    BY <1>2, <1>3, <1>4

\* The escaped places that ClosingQuotes computes.
IsEscapes(e, s, i) ==
    e = [k \in i .. Len(s) |-> k > i /\ s[k - 1] = Backslash /\ ~e[k - 1]]

\* They are those of the grammar, in any piece that begins at i.
LEMMA EscapesFound ==
    ASSUME NEW s \in Text, NEW i \in 1 .. Len(s), NEW j \in i .. Len(s), NEW e, IsEscapes(e, s, i)
    PROVE  \A k \in i .. j : e[k] <=> Escaped(SubSeq(s, i, j), k - i + 1)
<1> DEFINE t == SubSeq(s, i, j)
           S == {k \in 0 .. j - i : e[i + k] <=> Escaped(t, k + 1)}
<1>0. Len(s) \in Nat
    BY DEF Text
<1>1. /\ t \in Text /\ Len(t) = j - i + 1
      /\ \A m \in 1 .. j - i + 1 : t[m] = s[i - 1 + m]
    BY PieceTokens
<1>2. \A k \in 0 .. j - i : e[i + k] <=> i + k > i /\ s[i + k - 1] = Backslash /\ ~e[i + k - 1]
    <2> SUFFICES ASSUME NEW k \in 0 .. j - i
                 PROVE  e[i + k] <=> i + k > i /\ s[i + k - 1] = Backslash /\ ~e[i + k - 1]
        OBVIOUS
    <2>1. i + k \in i .. Len(s)
        BY <1>0
    <2>2. PICK p : p = i + k
        OBVIOUS
    <2>3. e[p] = (p > i /\ s[p - 1] = Backslash /\ ~e[p - 1])
        BY Zenon, <2>1, <2>2 DEF IsEscapes
    <2>4. e[p] <=> p > i /\ s[p - 1] = Backslash /\ ~e[p - 1]
        BY Zenon, <2>3
    <2> QED
        BY <2>2, <2>4
<1> HIDE DEF t
<1>3. \A k \in 0 .. j - i :
         Escaped(t, k + 1) <=> k + 1 > 1 /\ t[k + 1 - 1] = Backslash /\ ~Escaped(t, k + 1 - 1)
    <2> SUFFICES ASSUME NEW k \in 0 .. j - i
                 PROVE  Escaped(t, k + 1) <=> k + 1 > 1 /\ t[k + 1 - 1] = Backslash /\ ~Escaped(t, k + 1 - 1)
        OBVIOUS
    <2>1. k + 1 \in 1 .. Len(t)
        BY <1>0, <1>1
    <2> QED
        BY <1>1, <2>1, EscapedStep
<1>4. 0 \in S
    <2>1. 0 \in 0 .. j - i /\ ~(i + 0 > i) /\ ~(0 + 1 > 1)
        BY <1>0
    <2> QED
        BY <1>2, <1>3, <2>1
<1>5. ASSUME NEW k \in 1 .. j - i, k - 1 \in S
      PROVE  k \in S
    <2>1. k \in 0 .. j - i /\ i + k > i /\ k + 1 > 1 /\ i + k - 1 = i + (k - 1) /\ k + 1 - 1 = k
          /\ (k - 1) + 1 = k /\ k \in 1 .. j - i + 1 /\ i - 1 + k = i + k - 1
        BY <1>0
    <2>2. t[k] = s[i + k - 1]
        BY <1>1, <2>1
    <2>3. e[i + (k - 1)] <=> Escaped(t, k)
        BY <1>5, <2>1
    <2>4. e[i + k] <=> s[i + k - 1] = Backslash /\ ~e[i + (k - 1)]
        BY <1>2, <2>1
    <2>5. Escaped(t, k + 1) <=> t[k] = Backslash /\ ~Escaped(t, k)
        BY <1>3, <2>1
    <2> QED
        BY <2>1, <2>2, <2>3, <2>4, <2>5
<1> HIDE DEF S
<1>6. \A k \in 0 .. j - i : k \in S
    <2>1. j - i \in Nat
        BY <1>0
    <2> QED
        BY <1>4, <1>5, <2>1, Upward
<1>7. ASSUME NEW k \in i .. j
      PROVE  e[k] <=> Escaped(t, k - i + 1)
    <2>1. k - i \in 0 .. j - i /\ i + (k - i) = k
        BY <1>0
    <2>2. k - i \in S
        BY <1>6, <2>1
    <2> QED
        BY <2>1, <2>2 DEF S
<1> QED
    BY <1>7 DEF t

\* A function that computes them exists: Escaped itself.
LEMMA EscapesExist ==
    ASSUME NEW s \in Text, NEW i \in 1 .. Len(s)
    PROVE  \E e : IsEscapes(e, s, i)
<1> DEFINE n == Len(s)
           t == SubSeq(s, i, n)
           e == [k \in i .. n |-> Escaped(t, k - i + 1)]
<1>0. n \in Nat
    BY DEF Text
<1>1. /\ t \in Text /\ Len(t) = n - i + 1
      /\ \A m \in 1 .. n - i + 1 : t[m] = s[i - 1 + m]
    BY <1>0, PieceTokens
<1> HIDE DEF t
<1>2. ASSUME NEW k \in i .. n
      PROVE  e[k] <=> k > i /\ s[k - 1] = Backslash /\ ~e[k - 1]
    <2>1. k - i + 1 \in 1 .. Len(t)
        BY <1>0, <1>1
    <2>2. Escaped(t, k - i + 1) <=>
             k - i + 1 > 1 /\ t[k - i + 1 - 1] = Backslash /\ ~Escaped(t, k - i + 1 - 1)
        BY <1>1, <2>1, EscapedStep
    <2>3. CASE k = i
        BY <1>0, <2>2, <2>3
    <2>4. CASE k # i
        <3>1. k - 1 \in i .. n /\ k - 1 - i + 1 = k - i + 1 - 1 /\ k - i + 1 > 1 /\ k > i
              /\ k - i + 1 - 1 \in 1 .. n - i + 1 /\ i - 1 + (k - i + 1 - 1) = k - 1
            BY <1>0, <2>4
        <3>2. e[k - 1] <=> Escaped(t, k - i + 1 - 1)
            BY <3>1
        <3>3. t[k - i + 1 - 1] = s[k - 1]
            BY <1>1, <3>1
        <3> QED
            BY <2>2, <3>1, <3>2, <3>3
    <2> QED
        BY <2>3, <2>4
<1>3. e = [k \in i .. n |-> k > i /\ s[k - 1] = Backslash /\ ~e[k - 1]]
    <2>1. \A k \in i .. n : e[k] = (k > i /\ s[k - 1] = Backslash /\ ~e[k - 1])
        <3> SUFFICES ASSUME NEW k \in i .. n
                     PROVE  e[k] = (k > i /\ s[k - 1] = Backslash /\ ~e[k - 1])
            OBVIOUS
        <3>1. e[k] \in BOOLEAN
            BY DEF Escaped
        <3> QED
            BY Zenon, <1>2, <3>1
    <2>2. e = [k \in i .. n |-> e[k]]
        OBVIOUS
    <2> HIDE DEF e
    <2> QED
        BY <2>1, <2>2
<1> QED
    BY <1>3 DEF IsEscapes

\* any_value finds the end of every value of the grammar.
LEMMA ValueFound ==
    ASSUME NEW s \in Text, NEW i \in 1 .. Len(s), NEW j \in i .. Len(s), NEW type,
           IsValue(SubSeq(s, i, j), type)
    PROVE  any_value(s, i) = j
<1> DEFINE t == SubSeq(s, i, j)
<1>0. Len(s) \in Nat
    BY DEF Text
<1>1. /\ t \in Text /\ Len(t) = j - i + 1
      /\ \A m \in 1 .. j - i + 1 : t[m] = s[i - 1 + m]
      /\ \A k \in i .. j : k - i + 1 \in 1 .. j - i + 1 /\ s[k] = t[k - i + 1]
    BY PieceTokens
<1>2. t[1] = s[i]
    BY <1>0, <1>1
<1> HIDE DEF t
<1>3. CASE type # "STRING"
    <2>1. j = i /\ s[i] \in Numbers
        BY <1>0, <1>1, <1>2, <1>3 DEF IsValue, t
    <2>2. IsWord(s[i])
        BY <2>1, WordAssumption DEF IsWord
    <2> QED
        BY <1>0, <2>1, <2>2 DEF any_value
<1>4. CASE type = "STRING"
    <2>1. IsString(t)
        BY <1>4 DEF IsValue, t
    <2>2. j > i + 1 /\ s[i] = Quote
        BY <1>0, <1>1, <1>2, <2>1 DEF IsString
    <2>3. PICK e : e = CHOOSE f : IsEscapes(f, s, i)
        OBVIOUS
    <2>4. IsEscapes(e, s, i)
        BY <2>3, EscapesExist
    <2>5. \A k \in i .. j : e[k] <=> Escaped(t, k - i + 1)
        BY <2>4, EscapesFound DEF t
    <2> DEFINE quotes == {k \in i + 1 .. Len(s) : s[k] = Quote /\ ~e[k]}
    <2>6. ClosingQuotes(s, i) = quotes
        BY <2>3 DEF ClosingQuotes, IsEscapes
    <2>7. \A k \in i + 1 .. j : k \in quotes <=> k = j
        <3> SUFFICES ASSUME NEW k \in i + 1 .. j PROVE k \in quotes <=> k = j
            OBVIOUS
        <3>1. k \in i .. j /\ k \in i + 1 .. Len(s) /\ k - i + 1 \in 2 .. Len(t) /\ (k - i + 1 = Len(t) <=> k = j)
            BY <1>0, <1>1
        <3>2. (t[k - i + 1] = Quote /\ ~Escaped(t, k - i + 1)) <=> k - i + 1 = Len(t)
            BY <2>1, <3>1 DEF IsString
        <3>3. s[k] = t[k - i + 1]
            BY <1>1, <3>1
        <3> QED
            BY <2>5, <3>1, <3>2, <3>3
    <2>8. quotes \subseteq Nat /\ \A k \in quotes : k > i
        BY <1>0
    <2> HIDE DEF quotes
    <2>9. j \in quotes /\ i + 1 \notin quotes
        BY <1>0, <2>2, <2>7
    <2>10. Min(quotes) = j
        <3>1. \A k \in quotes : j <= k
            <4> SUFFICES ASSUME NEW k \in quotes, k < j PROVE FALSE
                BY <1>0, <2>8
            <4>1. k \in i + 1 .. j
                BY <1>0, <2>8
            <4> QED
                BY <2>7, <4>1
        <3>2. \A k \in quotes : (\A m \in quotes : k <= m) => k = j
            BY <1>0, <2>8, <2>9, <3>1
        <3> QED
            BY <2>9, <3>1, <3>2 DEF Min
    <2>11. ~IsWord(s[i])
        BY <2>2 DEF IsWord
    <2> QED
        BY <2>2, <2>6, <2>9, <2>10, <2>11 DEF any_value, StringEndsAt
<1> QED
    BY <1>3, <1>4

\* What a value means is a text, and parse_value returns it.
LEMMA ValueMeant ==
    ASSUME NEW t \in Text, NEW type, IsValue(t, type)
    PROVE  /\ Meant(t, type) \in Text /\ parse_value(t, type) = Meant(t, type)
           /\ t # <<>> /\ t[1] \in Numbers \cup {Quote}
<1>0. Len(t) \in Nat
    BY DEF Text
<1>1. CASE type = "STRING"
    <2>1. Len(t) > 2 /\ t[1] = Quote
        BY <1>1 DEF IsValue, IsString
    <2>2. SubSeq(t, 2, Len(t) - 1) \in Text
        BY <1>0, <2>1, PieceOfText
    <2> QED
        BY <1>0, <1>1, <2>1, <2>2 DEF Meant, parse_value
<1>2. CASE type # "STRING"
    <2>1. Len(t) = 1 /\ t[1] \in Numbers
        BY <1>2 DEF IsValue
    <2> DEFINE found == {i \in 1 .. Len(t) : t[i] \in Numbers}
    <2>2. found = {1}
        BY <2>1
    <2>3. Min({1}) = 1
        BY DEF Min
    <2>4. parse_value(t, type) = <<t[1]>>
        BY <1>2, <2>2, <2>3 DEF parse_value
    <2>5. t = <<t[1]>>
        BY <2>1 DEF Text
    <2> QED
        BY <1>2, <2>1, <2>4, <2>5 DEF Meant
<1> QED
    BY <1>1, <1>2

-----------------------------------------------------------------------------
(* What the loops over the characters know.                                *)

Stepped(f, n, first, step) == f[0] = first /\ \A i \in 1 .. n : f[i] = step[<<i, f[i - 1]>>]

\* A function that is computed from its value at the place before exists.
LEMMA PrefixRecursion ==
    ASSUME NEW n \in Nat, NEW V, NEW first \in V, NEW step \in [(1 .. n) \X V -> V]
    PROVE  \E f \in [0 .. n -> V] : Stepped(f, n, first, step)
<1> DEFINE S == {k \in 0 .. n : \E f \in [0 .. k -> V] : Stepped(f, k, first, step)}
<1>1. 0 \in S
    <2> DEFINE f == [i \in 0 .. 0 |-> first]
    <2>1. f \in [0 .. 0 -> V] /\ Stepped(f, 0, first, step)
        BY DEF Stepped
    <2>2. 0 \in 0 .. n
        OBVIOUS
    <2> QED
        BY <2>1, <2>2
<1>2. ASSUME NEW k \in 1 .. n, k - 1 \in S
      PROVE  k \in S
    <2>1. PICK f \in [0 .. k - 1 -> V] : Stepped(f, k - 1, first, step)
        BY <1>2
    <2> DEFINE g == [i \in 0 .. k |-> IF i = k THEN step[<<k, f[k - 1]>>] ELSE f[i]]
    <2>2. f[k - 1] \in V
        OBVIOUS
    <2>3. g \in [0 .. k -> V]
        <3>1. step[<<k, f[k - 1]>>] \in V
            BY <2>2
        <3>2. \A i \in 0 .. k : i # k => i \in 0 .. k - 1
            OBVIOUS
        <3>3. \A i \in 0 .. k - 1 : f[i] \in V
            OBVIOUS
        <3> QED
            BY <3>1, <3>2, <3>3
    <2>4. \A i \in 0 .. k - 1 : g[i] = f[i]
        OBVIOUS
    <2>5. g[k] = step[<<k, f[k - 1]>>]
        OBVIOUS
    <2> HIDE DEF g
    <2>6. g[0] = first
        BY <2>1, <2>4 DEF Stepped
    <2>7. \A i \in 1 .. k : g[i] = step[<<i, g[i - 1]>>]
        <3> TAKE i \in 1 .. k
        <3>1. i - 1 \in 0 .. k - 1 /\ (i # k => i \in 1 .. k - 1 /\ i \in 0 .. k - 1)
            OBVIOUS
        <3>2. g[i - 1] = f[i - 1]
            BY <2>4, <3>1
        <3>3. CASE i = k
            BY <2>5, <3>2, <3>3
        <3>4. CASE i # k
            BY <2>1, <2>4, <3>1, <3>2, <3>4 DEF Stepped
        <3> QED
            BY <3>3, <3>4
    <2>8. Stepped(g, k, first, step)
        BY <2>6, <2>7 DEF Stepped
    <2> QED
        BY <2>3, <2>8
<1> HIDE DEF S
<1>3. \A k \in 0 .. n : k \in S
    BY <1>1, <1>2, Upward
<1>4. n \in S
    BY <1>3
<1> QED
    BY <1>4 DEF S

AgreeOnward(n, f, g) ==
    /\ f = [i \in 0 .. n |-> f[i]] /\ g = [i \in 0 .. n |-> g[i]]
    /\ f[0] = g[0] /\ \A i \in 1 .. n : f[i - 1] = g[i - 1] => f[i] = g[i]

\* There is only one.
LEMMA PrefixUnique ==
    ASSUME NEW n \in Nat, NEW f, NEW g, AgreeOnward(n, f, g)
    PROVE  f = g
<1> DEFINE S == {i \in 0 .. n : f[i] = g[i]}
<1>1. 0 \in S /\ \A i \in 1 .. n : i - 1 \in S => i \in S
    <2>1. \A i \in 1 .. n : i \in 0 .. n
        OBVIOUS
    <2>2. f[0] = g[0] /\ \A i \in 1 .. n : f[i - 1] = g[i - 1] => f[i] = g[i]
        BY DEF AgreeOnward
    <2> QED
        BY <2>1, <2>2
<1> HIDE DEF S
<1>2. \A i \in 0 .. n : i \in S
    BY <1>1, Upward
<1>3. \A i \in 0 .. n : f[i] = g[i]
    BY <1>2 DEF S
<1> QED
    BY <1>3 DEF AgreeOnward

State == [string : BOOLEAN, parentheses : BOOLEAN]

Outside == [string |-> FALSE, parentheses |-> FALSE]
Inside  == [string |-> FALSE, parentheses |-> TRUE]

ScanStep(str, i, before) ==
    CASE str[i] = Quote /\ (i = 1 \/ str[i - 1] # Backslash) -> [before EXCEPT !.string = ~@]
      [] str[i] = Open  -> [before EXCEPT !.parentheses = TRUE]
      [] str[i] = Close -> [before EXCEPT !.parentheses = FALSE]
      [] OTHER          -> before

IsScan(after, str) ==
    after = [i \in 0 .. Len(str) |-> IF i = 0 THEN Outside ELSE ScanStep(str, i, after[i - 1])]

\* Behind every token they know something, from what they knew before it.
LEMMA ScanExists ==
    ASSUME NEW str \in Text
    PROVE  /\ Scanned(str) \in [0 .. Len(str) -> State]
           /\ Scanned(str)[0] = Outside
           /\ \A i \in 1 .. Len(str) : Scanned(str)[i] = ScanStep(str, i, Scanned(str)[i - 1])
<1> DEFINE n == Len(str)
           step == [p \in (1 .. n) \X State |-> ScanStep(str, p[1], p[2])]
<1>0. n \in Nat
    BY DEF Text
<1>1. \A i, a : a \in State => ScanStep(str, i, a) \in State
    <2> SUFFICES ASSUME NEW i, NEW a \in State PROVE ScanStep(str, i, a) \in State
        OBVIOUS
    <2>1. a.string \in BOOLEAN /\ a.parentheses \in BOOLEAN
        BY DEF State
    <2>2. [a EXCEPT !.string = ~@] \in State
        BY DEF State
    <2>3. \A b \in BOOLEAN : [a EXCEPT !.parentheses = b] \in State
        BY DEF State
    <2>4. ScanStep(str, i, a) \in {a, [a EXCEPT !.string = ~@], [a EXCEPT !.parentheses = TRUE],
                                   [a EXCEPT !.parentheses = FALSE]}
        BY DEF ScanStep
    <2> QED
        BY <2>2, <2>3, <2>4
<1>2. Outside \in State
    BY DEF Outside, State
<1>3. step \in [(1 .. n) \X State -> State]
    BY <1>1
<1>4. \A i \in 1 .. n, a \in State : step[<<i, a>>] = ScanStep(str, i, a)
    OBVIOUS
<1> HIDE DEF n, step
<1>5. PICK f \in [0 .. n -> State] : Stepped(f, n, Outside, step)
    BY <1>0, <1>2, <1>3, PrefixRecursion
<1>6. \A i \in 1 .. n : f[i] = ScanStep(str, i, f[i - 1])
    <2> TAKE i \in 1 .. n
    <2>1. i - 1 \in 0 .. n
        BY <1>0
    <2>2. f[i - 1] \in State
        BY <2>1
    <2> QED
        BY <1>4, <1>5, <2>2 DEF Stepped
<1>7. IsScan(f, str)
    <2>1. \A i \in 0 .. n : f[i] = IF i = 0 THEN Outside ELSE ScanStep(str, i, f[i - 1])
        <3> TAKE i \in 0 .. n
        <3>1. i = 0 \/ i \in 1 .. n
            BY <1>0
        <3> QED
            BY <1>0, <1>5, <1>6, <3>1 DEF Stepped
    <2>2. f = [i \in 0 .. n |-> f[i]]
        OBVIOUS
    <2> QED
        BY <2>1, <2>2 DEF IsScan, n
<1>8. PICK g : g = Scanned(str)
    OBVIOUS
<1>9. IsScan(g, str)
    <2>1. Scanned(str) = CHOOSE h : IsScan(h, str)
        BY DEF Scanned, IsScan, ScanStep, Outside
    <2> QED
        BY <1>7, <1>8, <2>1
<1>10. /\ g = [i \in 0 .. n |-> g[i]] /\ g[0] = Outside
       /\ \A i \in 1 .. n : g[i] = ScanStep(str, i, g[i - 1])
    <2>1. \A i \in 0 .. n : g[i] = IF i = 0 THEN Outside ELSE ScanStep(str, i, g[i - 1])
        BY <1>9 DEF IsScan, n
    <2>2. g = [i \in 0 .. n |-> g[i]]
        BY <1>9 DEF IsScan, n
    <2>3. \A i \in 1 .. n : i \in 0 .. n /\ i # 0
        BY <1>0
    <2>4. 0 \in 0 .. n
        BY <1>0
    <2> QED
        BY <2>1, <2>2, <2>3, <2>4
<1>11. f = [i \in 0 .. n |-> f[i]]
    OBVIOUS
<1>12. AgreeOnward(n, f, g)
    BY <1>5, <1>6, <1>10, <1>11 DEF AgreeOnward, Stepped
<1>13. f = g
    BY <1>0, <1>12, PrefixUnique
<1> QED
    BY <1>8, <1>10, <1>13 DEF n

InString(a)    == [a EXCEPT !.string = TRUE]
OutOfString(a) == [a EXCEPT !.string = FALSE]

\* What a parenthesis changes.
LEMMA Parenthesized ==
    /\ [Outside EXCEPT !.parentheses = TRUE] = Inside
    /\ [Inside EXCEPT !.parentheses = FALSE] = Outside
<1>1. Outside \in State /\ Inside \in State
    BY DEF Outside, Inside, State
<1>2. Outside.string = FALSE /\ Inside.string = FALSE
    BY DEF Outside, Inside
<1>3. ASSUME NEW a \in State, NEW b
      PROVE  [a EXCEPT !.parentheses = b] = [string |-> a.string, parentheses |-> b]
    BY DEF State
<1>4. \A b : /\ [Outside EXCEPT !.parentheses = b] = [string |-> Outside.string, parentheses |-> b]
             /\ [Inside EXCEPT !.parentheses = b] = [string |-> Inside.string, parentheses |-> b]
    BY <1>1, <1>3
<1>5. \A b : /\ [Outside EXCEPT !.parentheses = b] = [string |-> FALSE, parentheses |-> b]
             /\ [Inside EXCEPT !.parentheses = b] = [string |-> FALSE, parentheses |-> b]
    BY Zenon, <1>2, <1>4
<1>6. [Outside EXCEPT !.parentheses = TRUE] = Inside
    BY Zenon, <1>5 DEF Inside
<1>7. [Inside EXCEPT !.parentheses = FALSE] = Outside
    BY Zenon, <1>5 DEF Outside
<1> QED
    BY <1>6, <1>7

\* What each kind of token changes.
LEMMA ScanToken ==
    ASSUME NEW str \in Text, NEW i \in 1 .. Len(str),
           NEW a, a = Scanned(str)[i - 1], NEW b, b = Scanned(str)[i]
    PROVE  /\ a \in State /\ b \in State
           /\ str[i] \notin {Quote, Open, Close} => b = a
           /\ str[i] = Quote /\ i # 1 /\ str[i - 1] = Backslash => b = a
           /\ str[i] = Quote /\ (i = 1 \/ str[i - 1] # Backslash) =>
                 b = IF a.string THEN OutOfString(a) ELSE InString(a)
           /\ str[i] = Open /\ a = Outside => b = Inside
           /\ str[i] = Close /\ a = Inside => b = Outside
<1>0. i - 1 \in 0 .. Len(str) /\ i \in 0 .. Len(str)
    BY DEF Text
<1>1. a \in State /\ b \in State /\ b = ScanStep(str, i, a)
    BY <1>0, ScanExists
<1>2. CASE str[i] = Quote /\ (i = 1 \/ str[i - 1] # Backslash)
    <2>1. b = [a EXCEPT !.string = ~a.string]
        BY <1>1, <1>2, SignAssumption DEF ScanStep
    <2>2. CASE a.string
        <3>1. a.string = TRUE /\ (~a.string) = FALSE
            BY <1>1, <2>2 DEF State
        <3>2. b = OutOfString(a)
            BY <2>1, <3>1 DEF OutOfString
        <3> QED
            BY <1>1, <1>2, <2>2, <3>2, SignAssumption
    <2>3. CASE ~a.string
        <3>1. (~a.string) = TRUE
            BY <1>1, <2>3 DEF State
        <3>2. b = InString(a)
            BY <2>1, <3>1 DEF InString
        <3> QED
            BY <1>1, <1>2, <2>3, <3>2, SignAssumption
    <2> QED
        BY <2>2, <2>3
<1>3. CASE ~(str[i] = Quote /\ (i = 1 \/ str[i - 1] # Backslash))
    <2>1. str[i] \notin {Open, Close} => b = a
        BY <1>1, <1>3 DEF ScanStep
    <2>2. ASSUME str[i] = Open, a = Outside
          PROVE  b = Inside
        <3>1. ScanStep(str, i, a) = [a EXCEPT !.parentheses = TRUE]
            BY <1>3, <2>2, SignAssumption DEF ScanStep
        <3> QED
            BY Zenon, <1>1, <2>2, <3>1, Parenthesized
    <2>3. ASSUME str[i] = Close, a = Inside
          PROVE  b = Outside
        <3>1. ScanStep(str, i, a) = [a EXCEPT !.parentheses = FALSE]
            BY <1>3, <2>3, SignAssumption DEF ScanStep
        <3> QED
            BY Zenon, <1>1, <2>3, <3>1, Parenthesized
    <2> QED
        BY <1>1, <1>3, <2>1, <2>2, <2>3, SignAssumption
<1> QED
    BY <1>2, <1>3

\* A place where a value may begin: outside a string, and not behind a backslash.
Fresh(str, i) ==
    /\ Scanned(str)[i - 1].string = FALSE
    /\ i = 1 \/ str[i - 1] # Backslash

\* Over a value: every token of a string but the last is known to be in one.
LEMMA ValueScanned ==
    ASSUME NEW str \in Text, NEW i \in 1 .. Len(str), NEW j \in i .. Len(str), NEW type,
           IsValue(SubSeq(str, i, j), type), Fresh(str, i)
    PROVE  /\ Scanned(str)[j] = Scanned(str)[i - 1]
           /\ \A k \in i .. j : str[k] \in {Comma, Colon} => Scanned(str)[k].string = TRUE
<1> DEFINE t == SubSeq(str, i, j)
<1>0. Len(str) \in Nat /\ i \in Nat /\ j \in Nat /\ i <= j
    BY DEF Text
<1>1. /\ t \in Text /\ Len(t) = j - i + 1
      /\ \A k \in i .. j : k - i + 1 \in 1 .. j - i + 1 /\ str[k] = t[k - i + 1]
    BY PieceTokens
<1> HIDE DEF t
<1>2. PICK after : after = Scanned(str)
    OBVIOUS
<1>3. PICK p : p = after[i - 1]
    OBVIOUS
<1>4. p \in State /\ p.string = FALSE /\ after \in [0 .. Len(str) -> State]
    <2>1. i - 1 \in 0 .. Len(str)
        BY <1>0
    <2> QED
        BY <1>2, <1>3, <2>1, ScanExists DEF Fresh
<1>5. CASE type # "STRING"
    <2>1. j = i /\ str[i] \in Words
        <3>1. Len(t) = 1 /\ t[1] \in Numbers
            BY <1>5 DEF IsValue, t
        <3>2. j = i
            <4>1. j - i + 1 = 1
                BY <1>1, <3>1
            <4> QED
                BY <1>0, <4>1
        <3>3. i \in i .. j /\ i - i + 1 = 1
            BY <1>0
        <3>4. str[i] = t[1]
            BY <1>1, <3>3
        <3> QED
            BY <3>1, <3>2, <3>4, WordAssumption
    <2>2. str[i] \notin {Quote, Open, Close, Comma, Colon}
        BY <2>1, WordAssumption
    <2>3. after[i] = p
        BY <1>2, <1>3, <2>2, ScanToken
    <2>4. \A k \in i .. j : k = i
        BY <1>0, <2>1
    <2> QED
        BY <1>2, <1>3, <2>1, <2>2, <2>3, <2>4
<1>6. CASE type = "STRING"
    <2>1. IsString(t) /\ Plain(t)
        BY <1>6 DEF IsValue, t
    <2>2. Len(t) > 2 /\ t[1] = Quote /\ t[Len(t)] = Quote /\ t[Len(t) - 1] # Backslash
        <3>1. Len(t) > 2 /\ t[1] = Quote /\ t[Len(t) - 1] # Backslash
            BY <2>1 DEF IsString, Plain
        <3>2. Len(t) \in 2 .. Len(t)
            BY <1>0, <1>1, <3>1
        <3> QED
            BY <2>1, <3>1, <3>2 DEF IsString
    <2>3. \A k \in 2 .. Len(t) - 1 : t[k] = Quote => t[k - 1] = Backslash
        <3> SUFFICES ASSUME NEW k \in 2 .. Len(t) - 1, t[k] = Quote PROVE t[k - 1] = Backslash
            OBVIOUS
        <3>1. k \in 2 .. Len(t) /\ k # Len(t) /\ k \in 1 .. Len(t)
            BY <1>0, <1>1
        <3>2. Escaped(t, k)
            BY <2>1, <3>1 DEF IsString
        <3> QED
            BY <1>1, <3>1, <3>2, EscapedStep
    <2>4. str[i] = Quote /\ str[j] = Quote /\ str[j - 1] # Backslash /\ j > i + 1
        <3>1. /\ i \in i .. j /\ i - i + 1 = 1
              /\ j \in i .. j /\ j - i + 1 = Len(t)
              /\ j - 1 \in i .. j /\ (j - 1) - i + 1 = Len(t) - 1 /\ j > i + 1
            BY <1>0, <1>1, <2>2
        <3> QED
            BY <1>1, <2>2, <3>1
    <2>5. ASSUME NEW k \in i + 1 .. j - 1
          PROVE  str[k] \notin {Open, Close} /\ (str[k] = Quote => str[k - 1] = Backslash)
        <3>1. /\ k \in i .. j /\ k - 1 \in i .. j /\ (k - 1) - i + 1 = (k - i + 1) - 1
              /\ k - i + 1 \in 2 .. Len(t) - 1 /\ k - i + 1 \in 1 .. Len(t)
            BY <1>0, <1>1
        <3>2. str[k] = t[k - i + 1] /\ str[k - 1] = t[(k - i + 1) - 1]
            BY <1>1, <3>1
        <3>3. t[k - i + 1] \notin {Open, Close}
            BY <2>1, <3>1 DEF Plain
        <3> QED
            BY <2>3, <3>1, <3>2, <3>3
    <2>6. PICK q : q = InString(p)
        OBVIOUS
    <2>7. q.string = TRUE /\ q \in State /\ OutOfString(q) = p
        BY <1>4, <2>6 DEF InString, OutOfString, State
    <2>8. after[i] = q
        <3>1. i = 1 \/ str[i - 1] # Backslash
            BY DEF Fresh
        <3> QED
            BY <1>2, <1>3, <1>4, <2>4, <2>6, <3>1, ScanToken
    <2> DEFINE S == {m \in 0 .. (j - 1) - i : after[i + m] = q}
    <2>9. \A m \in 0 .. (j - 1) - i : m \in S
        <3>1. 0 \in S
            BY <1>0, <2>4, <2>8
        <3>2. ASSUME NEW m \in 1 .. (j - 1) - i, m - 1 \in S
              PROVE  m \in S
            <4>1. PICK k : k = i + m
                OBVIOUS
            <4>2. k \in i + 1 .. j - 1 /\ k \in 1 .. Len(str) /\ k # 1 /\ k - 1 = i + (m - 1)
                  /\ m \in 0 .. (j - 1) - i
                BY <1>0, <4>1
            <4>3. after[k - 1] = q
                BY <3>2, <4>2
            <4>4. str[k] \notin {Open, Close} /\ (str[k] = Quote => str[k - 1] = Backslash)
                BY <2>5, <4>2
            <4>5. after[k] = q
                BY <1>2, <4>2, <4>3, <4>4, ScanToken
            <4> QED
                BY <4>1, <4>2, <4>5
        <3> HIDE DEF S
        <3>3. (j - 1) - i \in Nat
            BY <1>0, <2>4
        <3> QED
            BY <3>1, <3>2, <3>3, Upward
    <2>10. \A k \in i .. j - 1 : after[k] = q
        <3> SUFFICES ASSUME NEW k \in i .. j - 1 PROVE after[k] = q
            OBVIOUS
        <3>1. k - i \in 0 .. (j - 1) - i /\ i + (k - i) = k
            BY <1>0
        <3>2. k - i \in S
            BY <2>9, <3>1
        <3> QED
            BY <3>1, <3>2
    <2> HIDE DEF S
    <2>11. after[j] = p
        <3>1. j \in 1 .. Len(str) /\ j - 1 \in i .. j - 1
            BY <1>0, <2>4
        <3>2. after[j - 1] = q
            BY <2>10, <3>1
        <3> QED
            BY <1>2, <2>4, <2>7, <3>1, <3>2, ScanToken
    <2>12. ASSUME NEW k \in i .. j, str[k] \in {Comma, Colon}
           PROVE  after[k].string = TRUE
        <3>1. k # j
            BY <2>4, <2>12, SignAssumption
        <3>2. k \in i .. j - 1
            BY <1>0, <3>1
        <3> QED
            BY <2>7, <2>10, <3>2
    <2> QED
        BY <1>2, <1>3, <2>11, <2>12
<1> QED
    BY <1>5, <1>6

-----------------------------------------------------------------------------
(* A group of values in a text.                                            *)

\* Values in parentheses: the places of the signs around them.
Stands(s, d, formats, entry) ==
    /\ d \in [0 .. Len(formats) -> 1 .. Len(s)]
    /\ s[d[0]] = Open /\ s[d[Len(formats)]] = Close
    /\ \A k \in 1 .. Len(formats) : /\ d[k - 1] < d[k]
                                    /\ k # Len(formats) => s[d[k]] = Comma
                                    /\ IsValue(Piece(s, d, k), formats[k])
    /\ entry = [k \in 1 .. Len(formats) |-> Meant(Piece(s, d, k), formats[k])]

Single(t, formats, entry) ==
    Len(formats) = 1 /\ IsValue(t, formats[1]) /\ entry = <<Meant(t, formats[1])>>

\* A piece of a piece.
LEMMA PieceOfPiece ==
    ASSUME NEW s \in Text, NEW i \in 1 .. Len(s), NEW j \in i .. Len(s),
           NEW a \in 1 .. j - i + 1, NEW b \in 0 .. j - i + 1
    PROVE  SubSeq(SubSeq(s, i, j), a, b) = SubSeq(s, i - 1 + a, i - 1 + b)
<1>0. Len(s) \in Nat /\ i \in Nat /\ j \in Nat /\ i <= j
    BY DEF Text
<1>1. /\ SubSeq(s, i, j) \in Text /\ Len(SubSeq(s, i, j)) = j - i + 1
      /\ \A m \in 1 .. j - i + 1 : SubSeq(s, i, j)[m] = s[i - 1 + m]
    BY PieceTokens
<1> DEFINE t == SubSeq(s, i, j)
<1> HIDE DEF t
<1>2. CASE b < a
    <2>1. SubSeq(t, a, b) = <<>>
        BY <1>0, <1>1, <1>2 DEF t, Text
    <2>2. SubSeq(s, i - 1 + a, i - 1 + b) = <<>>
        BY <1>0, <1>2 DEF Text
    <2> QED
        BY <2>1, <2>2 DEF t
<1>3. CASE a <= b
    <2>1. /\ b \in a .. Len(t) /\ a \in 1 .. Len(t)
          /\ i - 1 + a \in 1 .. Len(s) /\ i - 1 + b \in i - 1 + a .. Len(s)
        BY <1>0, <1>1, <1>3 DEF t
    <2>2. /\ SubSeq(t, a, b) \in Text /\ Len(SubSeq(t, a, b)) = b - a + 1
          /\ \A m \in 1 .. b - a + 1 : SubSeq(t, a, b)[m] = t[a - 1 + m]
        BY <1>1, <2>1, PieceTokens DEF t
    <2>3. PICK u, v : u = SubSeq(t, a, b) /\ v = SubSeq(s, i - 1 + a, i - 1 + b)
        OBVIOUS
    <2>4. PICK x, y : x = i - 1 + a /\ y = i - 1 + b
        OBVIOUS
    <2>5. /\ v \in Text /\ Len(v) = y - x + 1
          /\ \A m \in 1 .. y - x + 1 : v[m] = s[x - 1 + m]
        <3>1. v = SubSeq(s, x, y) /\ x \in 1 .. Len(s) /\ y \in x .. Len(s)
            BY <2>1, <2>3, <2>4
        <3> QED
            BY <3>1, PieceTokens
    <2>6. Len(u) = b - a + 1 /\ Len(v) = b - a + 1 /\ u \in Text /\ v \in Text
        BY <1>0, <2>2, <2>3, <2>4, <2>5
    <2>7. ASSUME NEW m \in 1 .. b - a + 1
          PROVE  u[m] = v[m]
        <3>1. m \in 1 .. y - x + 1 /\ a - 1 + m \in 1 .. j - i + 1 /\ i - 1 + (a - 1 + m) = x - 1 + m
            BY <1>0, <2>4
        <3>2. u[m] = t[a - 1 + m] /\ v[m] = s[x - 1 + m]
            BY <2>2, <2>3, <2>5, <3>1
        <3>3. t[a - 1 + m] = s[i - 1 + (a - 1 + m)]
            BY <1>1, <3>1 DEF t
        <3> QED
            BY <3>1, <3>2, <3>3
    <2>8. u = v
        <3>1. u = [m \in 1 .. Len(u) |-> u[m]] /\ v = [m \in 1 .. Len(v) |-> v[m]]
            BY <2>6 DEF Text
        <3> QED
            BY <2>6, <2>7, <3>1
    <2> QED
        BY <2>3, <2>8 DEF t
<1> QED
    BY <1>0, <1>2, <1>3

\* A value is not empty.
LEMMA ValueIsThere ==
    ASSUME NEW s \in Text, NEW i \in Nat, NEW j \in Nat, NEW type, IsValue(SubSeq(s, i, j), type)
    PROVE  i <= j
<1> SUFFICES ASSUME j < i PROVE FALSE
    OBVIOUS
<1>1. Len(SubSeq(s, i, j)) = 0
    BY DEF Text
<1> QED
    BY <1>1 DEF IsValue, IsString

\* The values between the signs.
LEMMA ValuesStand ==
    ASSUME NEW s \in Text, NEW formats \in TypeList, NEW d, NEW entry, Stands(s, d, formats, entry),
           NEW k \in 1 .. Len(formats)
    PROVE  /\ d[k - 1] \in 1 .. Len(s) /\ d[k - 1] + 1 \in 1 .. Len(s) /\ d[k] \in 1 .. Len(s)
           /\ d[k] - 1 \in d[k - 1] + 1 .. Len(s) /\ d[k] - 1 + 1 = d[k] /\ d[k - 1] < d[k]
           /\ IsValue(SubSeq(s, d[k - 1] + 1, d[k] - 1), formats[k])
           /\ Piece(s, d, k) = SubSeq(s, d[k - 1] + 1, d[k] - 1)
<1>0. Len(s) \in Nat /\ Len(formats) \in Nat
    BY DEF Text, TypeList
<1>1. k - 1 \in 0 .. Len(formats) /\ k \in 0 .. Len(formats)
    BY <1>0
<1>2. d[k - 1] \in 1 .. Len(s) /\ d[k] \in 1 .. Len(s)
    BY <1>1 DEF Stands
<1>3. d[k - 1] < d[k] /\ IsValue(Piece(s, d, k), formats[k])
    BY DEF Stands
<1>4. Piece(s, d, k) = SubSeq(s, d[k - 1] + 1, d[k] - 1)
    BY DEF Piece
<1>5. PICK x, y : x = d[k - 1] + 1 /\ y = d[k] - 1
    OBVIOUS
<1>6. x \in Nat /\ y \in Nat /\ IsValue(SubSeq(s, x, y), formats[k])
    BY <1>0, <1>2, <1>3, <1>4, <1>5
<1>7. x <= y
    BY <1>6, ValueIsThere
<1>8. PICK a, b : a = d[k - 1] /\ b = d[k]
    OBVIOUS
<1>9. a \in 1 .. Len(s) /\ b \in 1 .. Len(s) /\ a < b /\ a + 1 <= b - 1
    BY <1>2, <1>3, <1>5, <1>7, <1>8
<1>10. a + 1 \in 1 .. Len(s) /\ b - 1 \in a + 1 .. Len(s) /\ b - 1 + 1 = b
    BY <1>0, <1>9
<1> QED
    BY <1>3, <1>4, <1>8, <1>9, <1>10

\* The text of a group is one of the two.
LEMMA GroupStands ==
    ASSUME NEW s \in Text, NEW i \in 1 .. Len(s), NEW j \in i .. Len(s), NEW formats \in TypeList,
           NEW entry \in GroupMeanings(SubSeq(s, i, j), formats)
    PROVE  \/ Single(SubSeq(s, i, j), formats, entry)
           \/ \E d : Stands(s, d, formats, entry) /\ d[0] = i /\ d[Len(formats)] = j
<1> DEFINE t == SubSeq(s, i, j)
           n == Len(formats)
<1>0. Len(s) \in Nat /\ i \in Nat /\ j \in Nat /\ i <= j /\ n \in Nat \ {0}
    BY DEF Text, TypeList
<1>1. /\ t \in Text /\ Len(t) = j - i + 1
      /\ \A m \in 1 .. j - i + 1 : t[m] = s[i - 1 + m]
    BY PieceTokens
<1> HIDE DEF t
<1>2. \/ Single(t, formats, entry)
      \/ \E c \in Cuts(t, n) : /\ \A k \in 1 .. n : IsValue(Piece(t, c, k), formats[k])
                               /\ entry = [k \in 1 .. n |-> Meant(Piece(t, c, k), formats[k])]
    BY DEF GroupMeanings, Single, t
<1> HIDE DEF n
<1>3. ASSUME NEW c \in Cuts(t, n), \A k \in 1 .. n : IsValue(Piece(t, c, k), formats[k]),
             entry = [k \in 1 .. n |-> Meant(Piece(t, c, k), formats[k])]
      PROVE  \E d : Stands(s, d, formats, entry) /\ d[0] = i /\ d[n] = j
    <2>1. /\ c[0] = 1 /\ t[1] = Open /\ c[n] = Len(t) /\ t[Len(t)] = Close
          /\ \A k \in 1 .. n : c[k - 1] < c[k] /\ (k # n => t[c[k]] = Comma)
        BY DEF Cuts
    <2>2. \A k \in 0 .. n : c[k] \in 1 .. j - i + 1
        <3>1. \A k \in 0 .. n : c[k] \in {1, Len(t)} \cup {m \in 1 .. Len(t) : t[m] = Comma}
            BY DEF Cuts
        <3>2. {1, Len(t)} \cup {m \in 1 .. Len(t) : t[m] = Comma} \subseteq 1 .. j - i + 1
            BY <1>0, <1>1
        <3> QED
            BY <3>1, <3>2
    <2> DEFINE d == [k \in 0 .. n |-> i - 1 + c[k]]
    <2>3. \A k \in 0 .. n : d[k] = i - 1 + c[k]
        OBVIOUS
    <2>4. d \in [0 .. n -> 1 .. Len(s)]
        <3> SUFFICES ASSUME NEW k \in 0 .. n PROVE i - 1 + c[k] \in 1 .. Len(s)
            OBVIOUS
        <3>1. c[k] \in 1 .. j - i + 1
            BY <2>2
        <3> QED
            BY <1>0, <3>1
    <2> HIDE DEF d
    <2>5. 0 \in 0 .. n /\ n \in 0 .. n
        BY <1>0
    <2>6. d[0] = i /\ d[n] = j
        BY <1>0, <1>1, <2>1, <2>3, <2>5
    <2>7. s[d[0]] = Open /\ s[d[n]] = Close
        <3>1. 1 \in 1 .. j - i + 1 /\ j - i + 1 \in 1 .. j - i + 1 /\ i - 1 + 1 = i /\ i - 1 + (j - i + 1) = j
            BY <1>0
        <3> QED
            BY <1>1, <2>1, <2>6, <3>1
    <2>8. ASSUME NEW k \in 1 .. n
          PROVE  d[k - 1] < d[k] /\ (k # n => s[d[k]] = Comma) /\ Piece(s, d, k) = Piece(t, c, k)
        <3>1. k - 1 \in 0 .. n /\ k \in 0 .. n
            BY <1>0
        <3>2. c[k - 1] \in 1 .. j - i + 1 /\ c[k] \in 1 .. j - i + 1 /\ c[k - 1] < c[k]
            BY <2>1, <2>2, <3>1
        <3>3. d[k - 1] = i - 1 + c[k - 1] /\ d[k] = i - 1 + c[k]
            BY <2>3, <3>1
        <3>4. d[k - 1] < d[k]
            BY <1>0, <3>2, <3>3
        <3>5. k # n => s[d[k]] = Comma
            BY <1>1, <2>1, <3>2, <3>3
        <3>6. PICK a, b, x, y : /\ a = c[k - 1] + 1 /\ b = c[k] - 1
                                /\ x = c[k - 1] /\ y = c[k]
            OBVIOUS
        <3>7. a \in 1 .. j - i + 1 /\ b \in 0 .. j - i + 1 /\ i - 1 + a = d[k - 1] + 1 /\ i - 1 + b = d[k] - 1
            <4>1. x \in 1 .. j - i + 1 /\ y \in 1 .. j - i + 1 /\ x < y /\ a = x + 1 /\ b = y - 1
                BY <3>2, <3>6
            <4>2. a \in 1 .. j - i + 1 /\ b \in 0 .. j - i + 1
                BY <1>0, <4>1
            <4>3. d[k - 1] = i - 1 + x /\ d[k] = i - 1 + y
                BY <3>3, <3>6
            <4>4. PICK u, v : u = d[k - 1] /\ v = d[k]
                OBVIOUS
            <4>5. u = i - 1 + x /\ v = i - 1 + y
                BY <4>3, <4>4
            <4>6. i - 1 + a = u + 1 /\ i - 1 + b = v - 1
                BY <1>0, <4>1, <4>5
            <4> QED
                BY <4>2, <4>4, <4>6
        <3>8. SubSeq(t, a, b) = SubSeq(s, i - 1 + a, i - 1 + b)
            BY <3>7, PieceOfPiece DEF t
        <3> QED
            BY <3>4, <3>5, <3>6, <3>7, <3>8 DEF Piece
    <2>9. Stands(s, d, formats, entry)
        <3>1. entry = [k \in 1 .. n |-> Meant(Piece(s, d, k), formats[k])]
            BY <1>3, <2>8
        <3>2. \A k \in 1 .. n : /\ d[k - 1] < d[k]
                                /\ k # n => s[d[k]] = Comma
                                /\ IsValue(Piece(s, d, k), formats[k])
            BY <1>3, <2>8
        <3> QED
            BY <2>4, <2>7, <3>1, <3>2 DEF Stands, n
    <2> QED
        BY <2>6, <2>9
<1> QED
    BY <1>2, <1>3 DEF t, n

\* What is listed from the k-th value on.
ListedFrom(s, d, n, k) ==
    [values |-> [m \in 1 .. n + 1 - k |-> Piece(s, d, k - 1 + m)], end |-> d[n]]

\* One value more in front of others.
LEMMA Prepended ==
    ASSUME NEW V, NEW p \in V, NEW n \in Nat, NEW q \in [1 .. n -> V], NEW r \in [1 .. n + 1 -> V],
           r[1] = p, \A m \in 1 .. n : r[m + 1] = q[m]
    PROVE  <<p>> \o q = r
<1>1. q \in Seq(V) /\ Len(q) = n /\ <<p>> \in Seq(V) /\ Len(<<p>>) = 1
    OBVIOUS
<1>2. r \in Seq(V) /\ Len(r) = n + 1
    OBVIOUS
<1>3. <<p>> \o q \in Seq(V) /\ Len(<<p>> \o q) = n + 1
    BY <1>1
<1>4. \A m \in 1 .. n + 1 : (<<p>> \o q)[m] = r[m]
    <2> TAKE m \in 1 .. n + 1
    <2>1. CASE m = 1
        BY <1>1, <2>1
    <2>2. CASE m # 1
        <3>1. m - 1 \in 1 .. n /\ (m - 1) + 1 = m
            BY <2>2
        <3>2. (<<p>> \o q)[m] = q[m - 1]
            BY <1>1, <3>1
        <3> QED
            BY <3>1, <3>2
    <2> QED
        BY <2>1, <2>2
<1> QED
    BY <1>2, <1>3, <1>4

\* The regular expression finds the values that stand in the parentheses.
LEMMA GroupListed ==
    ASSUME NEW s \in Text, NEW formats \in TypeList, NEW d, NEW entry, Stands(s, d, formats, entry)
    PROVE  ListedValues(s, d[0] + 1)
              = [values |-> [k \in 1 .. Len(formats) |-> Piece(s, d, k)], end |-> d[Len(formats)]]
<1> DEFINE n == Len(formats)
<1>0. n \in Nat \ {0} /\ Len(s) \in Nat
    BY DEF TypeList, Text
<1>1. PICK from : from = CHOOSE f : IsList(s, f, 1)
    OBVIOUS
<1>2. \A i \in 1 .. Len(s) + 1 : from[i] = ListFrom(s, from, i) /\ ListedValues(s, i) = from[i]
    <2>1. IsList(s, from, 1)
        BY <1>1, ListExists
    <2>2. \A i \in 1 .. Len(s) + 1 : ListedValues(s, i) = from[i]
        BY <1>1 DEF ListedValues, IsList, ListFrom
    <2> QED
        BY <2>1, <2>2 DEF IsList
<1>3. /\ d[0] \in 1 .. Len(s) /\ d[n] \in 1 .. Len(s) /\ s[d[n]] = Close
      /\ \A k \in 1 .. n : k # n => s[d[k]] = Comma
    <2>1. 0 \in 0 .. n /\ n \in 0 .. n
        BY <1>0
    <2> QED
        BY <2>1 DEF Stands
<1>4. \A k \in 1 .. n : Piece(s, d, k) \in Text
    <2> SUFFICES ASSUME NEW k \in 1 .. n PROVE Piece(s, d, k) \in Text
        OBVIOUS
    <2>1. PICK a, b : a = d[k - 1] + 1 /\ b = d[k] - 1
        OBVIOUS
    <2>2. a \in 1 .. Len(s) /\ b \in a .. Len(s) /\ Piece(s, d, k) = SubSeq(s, a, b)
        BY <2>1, ValuesStand
    <2> QED
        BY <2>2, PieceTokens
<1> DEFINE S == {k \in 1 .. n : from[d[k - 1] + 1] = ListedFrom(s, d, n, k)}
<1>5. ASSUME NEW k \in 1 .. n, \A m \in k + 1 .. n : m \in S
      PROVE  k \in S
    <2>1. PICK i, end : i = d[k - 1] + 1 /\ end = d[k] - 1
        OBVIOUS
    <2>2. /\ i \in 1 .. Len(s) /\ end \in i .. Len(s) /\ end + 1 = d[k] /\ d[k] \in 1 .. Len(s)
          /\ IsValue(SubSeq(s, i, end), formats[k]) /\ Piece(s, d, k) = SubSeq(s, i, end)
        BY <2>1, ValuesStand
    <2>3. any_value(s, i) = end
        BY <2>2, ValueFound
    <2>4. end # 0 /\ end # Len(s) /\ i \in 1 .. Len(s) + 1
        BY <1>0, <2>2
    <2>5. from[i] = ListFrom(s, from, i)
        BY <1>2, <2>4
    <2>6. CASE k = n
        <3>1. s[end + 1] = Close
            BY <1>3, <2>2, <2>6
        <3>2. from[i] = [values |-> <<Piece(s, d, k)>>, end |-> end + 1]
            BY <2>2, <2>3, <2>4, <2>5, <3>1 DEF ListFrom
        <3>3. [m \in 1 .. n + 1 - k |-> Piece(s, d, k - 1 + m)] = <<Piece(s, d, k)>>
            <4>1. n + 1 - k = 1 /\ k - 1 + 1 = k
                BY <1>0, <2>6
            <4>2. 1 .. 1 = {1}
                OBVIOUS
            <4> QED
                BY <4>1, <4>2
        <3> QED
            BY <2>1, <2>2, <2>6, <3>2, <3>3 DEF ListedFrom
    <2>7. CASE k # n
        <3>1. k + 1 \in k + 1 .. n /\ k + 1 - 1 = k /\ end + 2 = d[k] + 1
            BY <1>0, <2>2, <2>7
        <3>2. from[end + 2] = ListedFrom(s, d, n, k + 1)
            BY <1>5, <3>1
        <3>3. s[end + 1] = Comma /\ s[end + 1] # Close
            BY <1>3, <2>2, <2>7, SignAssumption
        <3>4. from[end + 2] # NoValues
            <4>1. from[end + 2].end # 0
                BY <1>3, <3>2 DEF ListedFrom
            <4> QED
                BY <4>1 DEF NoValues
        <3>5. from[i] = [from[end + 2] EXCEPT !.values = <<Piece(s, d, k)>> \o @]
            BY <2>2, <2>3, <2>4, <2>5, <3>3, <3>4 DEF ListFrom
        <3> DEFINE q == [m \in 1 .. n - k |-> Piece(s, d, k + m)]
                   r == [m \in 1 .. n - k + 1 |-> Piece(s, d, k - 1 + m)]
        <3>6. from[end + 2] = [values |-> q, end |-> d[n]]
            <4>1. n + 1 - (k + 1) = n - k /\ (k + 1) - 1 = k
                BY <1>0
            <4> QED
                BY <3>2, <4>1 DEF ListedFrom
        <3>7. ListedFrom(s, d, n, k) = [values |-> r, end |-> d[n]]
            <4>1. n + 1 - k = n - k + 1
                BY <1>0
            <4> QED
                BY <4>1 DEF ListedFrom
        <3>8. <<Piece(s, d, k)>> \o q = r
            <4>1. n - k \in Nat /\ Piece(s, d, k) \in Text
                BY <1>0, <1>4
            <4>2. q \in [1 .. n - k -> Text]
                <5>1. \A m \in 1 .. n - k : k + m \in 1 .. n
                    BY <1>0
                <5> QED
                    BY <1>4, <5>1
            <4>3. r \in [1 .. n - k + 1 -> Text]
                <5>1. \A m \in 1 .. n - k + 1 : k - 1 + m \in 1 .. n
                    BY <1>0
                <5> QED
                    BY <1>4, <5>1
            <4>4. r[1] = Piece(s, d, k)
                <5>1. 1 \in 1 .. n - k + 1 /\ k - 1 + 1 = k
                    BY <1>0
                <5> QED
                    BY <5>1
            <4>5. \A m \in 1 .. n - k : r[m + 1] = q[m]
                <5> TAKE m \in 1 .. n - k
                <5>1. m + 1 \in 1 .. n - k + 1 /\ k - 1 + (m + 1) = k + m
                    BY <1>0
                <5> QED
                    BY <5>1
            <4> HIDE DEF q, r
            <4>6. PICK c, p : c = n - k /\ p = Piece(s, d, k)
                OBVIOUS
            <4>7. c \in Nat /\ p \in Text /\ q \in [1 .. c -> Text] /\ r \in [1 .. c + 1 -> Text]
                BY <4>1, <4>2, <4>3, <4>6
            <4>8. r[1] = p /\ \A m \in 1 .. c : r[m + 1] = q[m]
                BY <4>4, <4>5, <4>6
            <4>9. <<p>> \o q = r
                BY <4>7, <4>8, Prepended
            <4> QED
                BY <4>6, <4>9
        <3> HIDE DEF q, r
        <3>9. from[i] = [values |-> r, end |-> d[n]]
            <4>1. PICK x, z : x = from[end + 2] /\ z = d[n]
                OBVIOUS
            <4>2. x = [values |-> q, end |-> z]
                BY <3>6, <4>1
            <4>3. x.values = q
                BY <4>2
            <4>4. from[i] = [x EXCEPT !.values = r]
                BY <3>5, <3>8, <4>1, <4>3
            <4> HIDE DEF n
            <4>5. [x EXCEPT !.values = r] = [values |-> r, end |-> z]
                BY <4>2
            <4> QED
                BY <4>1, <4>4, <4>5
        <3> QED
            BY <2>1, <3>7, <3>9
    <2> QED
        BY <2>6, <2>7
<1> HIDE DEF S
<1>6. \A k \in 1 .. n : k \in S
    BY <1>0, <1>5, Backward
<1>7. from[d[0] + 1] = ListedFrom(s, d, n, 1)
    <2>1. 1 \in 1 .. n /\ 1 - 1 = 0
        BY <1>0
    <2> QED
        BY <1>6, <2>1 DEF S
<1>8. ListedFrom(s, d, n, 1) = [values |-> [k \in 1 .. n |-> Piece(s, d, k)], end |-> d[n]]
    <2>1. n + 1 - 1 = n
        BY <1>0
    <2>2. \A m \in 1 .. n : 1 - 1 + m = m
        BY <1>0
    <2>3. [m \in 1 .. n |-> Piece(s, d, 1 - 1 + m)] = [k \in 1 .. n |-> Piece(s, d, k)]
        BY <2>2
    <2> QED
        BY <2>1, <2>3 DEF ListedFrom
<1>9. d[0] + 1 \in 1 .. Len(s) + 1
    BY <1>0, <1>3
<1> QED
    BY <1>2, <1>7, <1>8, <1>9

\* What increases from each number to the next increases.
LEMMA Increases ==
    ASSUME NEW n \in Nat, NEW d \in [0 .. n -> Nat], \A k \in 1 .. n : d[k - 1] < d[k]
    PROVE  \A k, m \in 0 .. n : k < m => d[k] < d[m]
<1> DEFINE S == {m \in 0 .. n : \A k \in 0 .. n : k < m => d[k] < d[m]}
<1>1. 0 \in S
    OBVIOUS
<1>2. ASSUME NEW m \in 1 .. n, m - 1 \in S
      PROVE  m \in S
    <2> SUFFICES ASSUME NEW k \in 0 .. n, k < m PROVE d[k] < d[m]
        OBVIOUS
    <2>1. d[m - 1] < d[m] /\ m - 1 \in 0 .. n /\ m \in 0 .. n
        OBVIOUS
    <2>2. CASE k = m - 1
        BY <2>1, <2>2
    <2>3. CASE k # m - 1
        <3>1. k < m - 1
            BY <2>3
        <3>2. d[k] < d[m - 1]
            BY <1>2, <3>1
        <3>3. d[k] \in Nat /\ d[m - 1] \in Nat /\ d[m] \in Nat
            BY <2>1
        <3> QED
            BY <2>1, <3>2, <3>3
    <2> QED
        BY <2>2, <2>3
<1> HIDE DEF S
<1>3. \A m \in 0 .. n : m \in S
    BY <1>1, <1>2, Upward
<1> QED
    BY <1>3 DEF S

\* Every number from the first to the last is one of them or between two of them.
LEMMA Covers ==
    ASSUME NEW n \in Nat, NEW d \in [0 .. n -> Nat], NEW x \in d[0] .. d[n]
    PROVE  \/ \E k \in 0 .. n : x = d[k]
           \/ \E k \in 1 .. n : x \in d[k - 1] + 1 .. d[k] - 1
<1> DEFINE Met(z) == \/ \E k \in 0 .. n : z = d[k]
                     \/ \E k \in 1 .. n : z \in d[k - 1] + 1 .. d[k] - 1
           S == {m \in 0 .. n : x <= d[m] => Met(x)}
<1>1. d[0] \in Nat /\ d[n] \in Nat
    OBVIOUS
<1>2. x \in Nat /\ d[0] <= x /\ x <= d[n]
    BY <1>1
<1>3. 0 \in S
    <2>1. x <= d[0] => x = d[0]
        BY <1>1, <1>2
    <2>2. 0 \in 0 .. n
        OBVIOUS
    <2> QED
        BY <2>1, <2>2
<1>4. ASSUME NEW m \in 1 .. n, m - 1 \in S
      PROVE  m \in S
    <2>1. m \in 0 .. n /\ m - 1 \in 0 .. n
        OBVIOUS
    <2>2. PICK a, b : a = d[m - 1] /\ b = d[m]
        OBVIOUS
    <2>3. a \in Nat /\ b \in Nat
        BY <2>1, <2>2
    <2>4. CASE x <= a
        BY <1>4, <2>1, <2>2, <2>4
    <2>5. CASE ~(x <= a) /\ x < b
        <3>1. x \in a + 1 .. b - 1
            BY <1>2, <2>3, <2>5
        <3>2. x \in d[m - 1] + 1 .. d[m] - 1
            BY <2>2, <3>1
        <3>3. Met(x)
            BY <3>2
        <3> HIDE DEF Met
        <3> QED
            BY <2>1, <3>3
    <2>6. CASE x = b
        BY <2>1, <2>2, <2>6
    <2>7. CASE x > b
        BY <1>2, <2>1, <2>2, <2>3, <2>7
    <2> QED
        BY <1>2, <2>3, <2>4, <2>5, <2>6, <2>7
<1> HIDE DEF S
<1>5. \A m \in 0 .. n : m \in S
    BY <1>3, <1>4, Upward
<1>6. n \in S
    BY <1>5
<1> QED
    BY <1>2, <1>6 DEF S

\* So do the signs of a group: its places are those of signs and those of values.
LEMMA SignsIncrease ==
    ASSUME NEW s \in Text, NEW formats \in TypeList, NEW d, NEW entry, Stands(s, d, formats, entry)
    PROVE  /\ \A k, m \in 0 .. Len(formats) : k < m => d[k] < d[m]
           /\ \A x \in d[0] .. d[Len(formats)] :
                 \/ \E k \in 0 .. Len(formats) : x = d[k]
                 \/ \E k \in 1 .. Len(formats) : x \in d[k - 1] + 1 .. d[k] - 1
<1> DEFINE n == Len(formats)
<1>1. n \in Nat /\ d \in [0 .. n -> Nat]
    BY DEF TypeList, Text, Stands
<1>2. \A k \in 1 .. n : d[k - 1] < d[k]
    BY DEF Stands
<1> HIDE DEF n
<1>3. \A k, m \in 0 .. n : k < m => d[k] < d[m]
    BY <1>1, <1>2, Increases
<1>4. \A x \in d[0] .. d[n] : \/ \E k \in 0 .. n : x = d[k]
                             \/ \E k \in 1 .. n : x \in d[k - 1] + 1 .. d[k] - 1
    BY <1>1, Covers
<1> QED
    BY <1>3, <1>4 DEF n

Known(s, d, n) ==
    /\ \A k \in 0 .. n - 1 : Scanned(s)[d[k]] = Inside
    /\ Scanned(s)[d[n]] = Outside
    /\ \A k \in 1 .. n : \A x \in d[k - 1] + 1 .. d[k] - 1 :
          s[x] \in {Comma, Colon} => Scanned(s)[x].string = TRUE

\* What is known over a group: between its signs it is inside of the parentheses.
LEMMA GroupScanned ==
    ASSUME NEW s \in Text, NEW formats \in TypeList, NEW d, NEW entry, Stands(s, d, formats, entry),
           Scanned(s)[d[0] - 1] = Outside
    PROVE  Known(s, d, Len(formats))
<1> DEFINE n == Len(formats)
<1>0. n \in Nat \ {0} /\ Len(s) \in Nat
    BY DEF TypeList, Text
<1>1. PICK after : after = Scanned(s)
    OBVIOUS
<1>2. /\ d[0] \in 1 .. Len(s) /\ s[d[0]] = Open /\ s[d[n]] = Close
      /\ \A k \in 1 .. n : k # n => s[d[k]] = Comma
    <2>1. 0 \in 0 .. n
        BY <1>0
    <2> QED
        BY <2>1 DEF Stands
<1>3. Inside.string = FALSE
    BY DEF Inside
<1>4. after[d[0]] = Inside
    <2>1. PICK x : x = d[0]
        OBVIOUS
    <2>2. x \in 1 .. Len(s) /\ s[x] = Open /\ Scanned(s)[x - 1] = Outside
        BY <1>2, <2>1
    <2>3. Scanned(s)[x] = Inside
        BY <2>2, ScanToken
    <2> QED
        BY <1>1, <2>1, <2>3
<1>5. ASSUME NEW k \in 1 .. n, after[d[k - 1]] = Inside
      PROVE  /\ k # n => after[d[k]] = Inside
             /\ k = n => after[d[k]] = Outside
             /\ \A x \in d[k - 1] + 1 .. d[k] - 1 : s[x] \in {Comma, Colon} => after[x].string = TRUE
    <2>1. PICK i, j, z : i = d[k - 1] + 1 /\ j = d[k] - 1 /\ z = d[k]
        OBVIOUS
    <2>2. /\ i \in 1 .. Len(s) /\ j \in i .. Len(s) /\ j + 1 = z /\ z \in 1 .. Len(s)
          /\ IsValue(SubSeq(s, i, j), formats[k]) /\ i - 1 = d[k - 1]
        BY <2>1, ValuesStand
    <2>3. Fresh(s, i)
        <3>1. s[d[k - 1]] \in {Open, Comma}
            <4>1. k = 1 \/ (k - 1 \in 1 .. n /\ k - 1 # n)
                BY <1>0
            <4>2. CASE k = 1
                <5>1. k - 1 = 0
                    BY <4>2
                <5> QED
                    BY <1>2, <5>1
            <4> QED
                BY <1>2, <4>1, <4>2
        <3>2. s[i - 1] # Backslash
            BY <2>2, <3>1, SignAssumption
        <3>3. Scanned(s)[i - 1].string = FALSE
            BY <1>1, <1>3, <1>5, <2>2
        <3> QED
            BY <3>2, <3>3 DEF Fresh
    <2>4. /\ after[j] = after[i - 1]
          /\ \A x \in i .. j : s[x] \in {Comma, Colon} => after[x].string = TRUE
        BY <1>1, <2>2, <2>3, ValueScanned
    <2>5. after[j] = Inside /\ j = z - 1
        BY <1>0, <1>5, <2>2, <2>4
    <2>6. k # n => after[z] = Inside
        <3> SUFFICES ASSUME k # n PROVE after[z] = Inside
            OBVIOUS
        <3>1. s[z] = Comma
            BY <1>2, <2>1
        <3>2. s[z] \notin {Quote, Open, Close}
            BY <3>1, SignAssumption
        <3>3. after[z] = after[z - 1]
            BY <1>1, <2>2, <3>2, ScanToken
        <3> QED
            BY <2>5, <3>3
    <2>7. k = n => after[z] = Outside
        <3> SUFFICES ASSUME k = n PROVE after[z] = Outside
            OBVIOUS
        <3>1. s[z] = Close
            BY <1>2, <2>1
        <3>2. after[z - 1] = Inside
            BY <2>5
        <3>3. after[z] = Outside
            BY <1>1, <2>2, <3>1, <3>2, ScanToken
        <3> QED
            BY <3>3
    <2> QED
        BY <2>1, <2>4, <2>6, <2>7
<1> DEFINE S == {k \in 0 .. n - 1 : after[d[k]] = Inside}
<1>6. \A k \in 0 .. n - 1 : k \in S
    <2>1. 0 \in S
        BY <1>0, <1>4
    <2>2. ASSUME NEW k \in 1 .. n - 1, k - 1 \in S
          PROVE  k \in S
        <3>1. k \in 1 .. n /\ k # n /\ k \in 0 .. n - 1
            BY <1>0
        <3>2. after[d[k - 1]] = Inside
            BY <2>2
        <3>3. after[d[k]] = Inside
            BY <1>5, <3>1, <3>2
        <3> QED
            BY <3>1, <3>3
    <2>3. n - 1 \in Nat
        BY <1>0
    <2> HIDE DEF S
    <2> QED
        BY <2>1, <2>2, <2>3, Upward
<1>7. \A k \in 1 .. n : after[d[k - 1]] = Inside
    <2> TAKE k \in 1 .. n
    <2>1. k - 1 \in 0 .. n - 1
        BY <1>0
    <2>2. k - 1 \in S
        BY <1>6, <2>1
    <2> QED
        BY <2>2
<1>8. \A k \in 0 .. n - 1 : after[d[k]] = Inside
    BY <1>6
<1>9. after[d[n]] = Outside
    <2>1. n \in 1 .. n
        BY <1>0
    <2> QED
        BY <1>5, <1>7, <2>1
<1>10. \A k \in 1 .. n : \A x \in d[k - 1] + 1 .. d[k] - 1 : s[x] \in {Comma, Colon} => after[x].string = TRUE
    BY <1>5, <1>7
<1> HIDE DEF n
<1> QED
    BY <1>1, <1>8, <1>9, <1>10 DEF Known, n

-----------------------------------------------------------------------------
(* A group is taken off the text and parsed.                               *)

\* As many members as the numbers that they are counted by.
LEMMA CountedOff ==
    ASSUME NEW n \in Nat, NEW S, NEW f \in [1 .. n -> S],
           \A a, b \in 1 .. n : f[a] = f[b] => a = b, \A x \in S : \E a \in 1 .. n : f[a] = x
    PROVE  IsFiniteSet(S) /\ Cardinality(S) = n
<1>1. IsFiniteSet(1 .. n) /\ Cardinality(1 .. n) = n
    BY FS_Interval
<1>2. ExistsBijection(1 .. n, S)
    BY DEF ExistsBijection, Bijection, Injection, Surjection, IsInjective
<1> QED
    BY <1>1, <1>2, FS_Bijection

\* A text is the whole piece of itself.
LEMMA WholePiece ==
    ASSUME NEW t \in Text
    PROVE  SubSeq(t, 1, Len(t)) = t
BY DEF Text

\* The empty text is no group.
LEMMA GroupIsThere ==
    ASSUME NEW s \in Text, NEW i \in Nat, NEW j \in Nat, NEW formats,
           GroupMeanings(SubSeq(s, i, j), formats) # {}
    PROVE  i <= j
<1> SUFFICES ASSUME j < i PROVE FALSE
    OBVIOUS
<1>1. Len(SubSeq(s, i, j)) = 0
    BY DEF Text
<1>2. Cuts(SubSeq(s, i, j), Len(formats)) = {}
    BY <1>1 DEF Cuts
<1>3. ~IsValue(SubSeq(s, i, j), formats[1])
    BY <1>1 DEF IsValue, IsString
<1> QED
    BY <1>2, <1>3 DEF GroupMeanings

\* Before the first token the loops know nothing.
LEMMA FreshAtOnce ==
    ASSUME NEW t \in Text
    PROVE  Scanned(t)[0] = Outside /\ Fresh(t, 1)
<1>1. Scanned(t)[0] = Outside
    BY ScanExists
<1>2. Outside.string = FALSE
    BY DEF Outside
<1> QED
    BY <1>1, <1>2 DEF Fresh

\* The unquoted commas of a group are those between its values.
LEMMA GroupCommas ==
    ASSUME NEW s \in Text, NEW formats \in TypeList, NEW d, NEW entry, Stands(s, d, formats, entry),
           Scanned(s)[d[0] - 1] = Outside, NEW x \in d[0] .. d[Len(formats)]
    PROVE  /\ (s[x] = Comma /\ ~Scanned(s)[x].string) <=> \E k \in 1 .. Len(formats) - 1 : x = d[k]
           /\ s[x] = Comma => Scanned(s)[x].string \/ Scanned(s)[x].parentheses
           /\ s[x] = Colon => Scanned(s)[x].string
<1> DEFINE n == Len(formats)
<1>0. n \in Nat \ {0} /\ Len(s) \in Nat
    BY DEF TypeList, Text
<1>1. PICK after : after = Scanned(s)
    OBVIOUS
<1>2. /\ \A k \in 0 .. n - 1 : after[d[k]] = Inside
      /\ \A k \in 1 .. n : \A y \in d[k - 1] + 1 .. d[k] - 1 : s[y] \in {Comma, Colon} => after[y].string = TRUE
    <2>1. Known(s, d, n)
        BY GroupScanned
    <2> QED
        BY <1>1, <2>1 DEF Known
<1>3. s[d[0]] = Open /\ s[d[n]] = Close /\ \A k \in 1 .. n : k # n => s[d[k]] = Comma
    BY DEF Stands
<1>4. Inside.string = FALSE /\ Inside.parentheses = TRUE
    BY DEF Inside
<1>5. \/ x = d[0] \/ x = d[n] \/ (\E k \in 1 .. n - 1 : x = d[k])
      \/ \E k \in 1 .. n : x \in d[k - 1] + 1 .. d[k] - 1
    <2>1. \A k \in 0 .. n : k = 0 \/ k = n \/ k \in 1 .. n - 1
        BY <1>0
    <2> QED
        BY <2>1, SignsIncrease
<1>60. \A k \in 0 .. n : d[k] \in Nat
    <2>1. d \in [0 .. n -> 1 .. Len(s)]
        BY DEF Stands
    <2>2. 1 .. Len(s) \subseteq Nat
        BY <1>0
    <2> QED
        BY <2>1, <2>2
<1>6. \A k \in 0 .. n, m \in 0 .. n : d[k] = d[m] => k = m
    <2> SUFFICES ASSUME NEW k \in 0 .. n, NEW m \in 0 .. n, d[k] = d[m] PROVE k = m
        OBVIOUS
    <2>2. ~(k < m) /\ ~(m < k)
        BY <1>60, SignsIncrease
    <2> QED
        BY <1>0, <2>2
<1>7. CASE x = d[0] \/ x = d[n]
    <2>1. s[x] \notin {Comma, Colon}
        BY <1>3, <1>7, SignAssumption
    <2>2. \A k \in 1 .. n - 1 : k \in 0 .. n /\ k # 0 /\ k # n
        BY <1>0
    <2>3. 0 \in 0 .. n /\ n \in 0 .. n
        BY <1>0
    <2>4. ~\E k \in 1 .. n - 1 : x = d[k]
        BY <1>6, <1>7, <2>2, <2>3
    <2> QED
        BY <2>1, <2>4
<1>8. CASE \E k \in 1 .. n - 1 : x = d[k]
    <2>1. PICK k \in 1 .. n - 1 : x = d[k]
        BY <1>8
    <2>2. k \in 1 .. n /\ k # n /\ k \in 0 .. n - 1
        BY <1>0
    <2>3. s[x] = Comma /\ after[x] = Inside
        BY <1>2, <1>3, <2>1, <2>2
    <2>4. s[x] # Colon
        BY <2>3, SignAssumption
    <2> QED
        BY <1>1, <1>4, <1>8, <2>3, <2>4
<1>9. CASE \E k \in 1 .. n : x \in d[k - 1] + 1 .. d[k] - 1
    <2>1. PICK k \in 1 .. n : x \in d[k - 1] + 1 .. d[k] - 1
        BY <1>9
    <2>2. s[x] \in {Comma, Colon} => after[x].string = TRUE
        BY <1>2, <2>1
    <2>3. ~\E m \in 1 .. n - 1 : x = d[m]
        <3> SUFFICES ASSUME NEW m \in 1 .. n - 1, x = d[m] PROVE FALSE
            OBVIOUS
        <3>1. k - 1 \in 0 .. n /\ k \in 0 .. n /\ m \in 0 .. n
            BY <1>0
        <3>2. d[k - 1] \in Nat /\ d[k] \in Nat /\ d[m] \in Nat
            BY <1>60, <3>1
        <3>3. d[k - 1] < d[m] /\ d[m] < d[k]
            BY <2>1, <3>2
        <3>4. k <= m => k = m \/ d[k] < d[m]
            BY <3>1, SignsIncrease
        <3>5. m <= k - 1 => m = k - 1 \/ d[m] < d[k - 1]
            BY <3>1, SignsIncrease
        <3>6. k <= m \/ m <= k - 1
            BY <1>0
        <3> QED
            BY <3>2, <3>3, <3>4, <3>5, <3>6
    <2> QED
        BY <1>1, <2>2, <2>3
<1> QED
    BY <1>5, <1>7, <1>8, <1>9

\* The commas of a group are counted right.
LEMMA GroupAmount ==
    ASSUME NEW t \in Text, NEW formats \in TypeList, NEW entry \in GroupMeanings(t, formats)
    PROVE  count_delimiter(t, Comma) + 1 = Len(formats)
<1> DEFINE n == Len(formats)
           S == {x \in 1 .. Len(t) : t[x] = Comma /\ ~Scanned(t)[x].string}
<1>0. n \in Nat \ {0} /\ Len(t) \in Nat
    BY DEF TypeList, Text
<1>1. SubSeq(t, 1, Len(t)) = t
    BY WholePiece
<1>2. 1 <= Len(t)
    <2>1. PICK j : j = Len(t)
        OBVIOUS
    <2>2. GroupMeanings(SubSeq(t, 1, j), formats) # {}
        BY <1>1, <2>1
    <2> QED
        BY <1>0, <2>1, <2>2, GroupIsThere
<1>3. count_delimiter(t, Comma) = Cardinality(S)
    BY DEF count_delimiter
<1>4. Scanned(t)[0] = Outside /\ Fresh(t, 1)
    BY FreshAtOnce
<1>5. PICK j : j = Len(t)
    OBVIOUS
<1>6. \/ Single(t, formats, entry)
      \/ \E d : Stands(t, d, formats, entry) /\ d[0] = 1 /\ d[n] = j
    <2>1. 1 \in 1 .. Len(t) /\ j \in 1 .. Len(t)
        BY <1>0, <1>2, <1>5
    <2>2. PICK u : u = SubSeq(t, 1, j)
        OBVIOUS
    <2>3. u = t
        BY <1>1, <1>5, <2>2
    <2>4. entry \in GroupMeanings(SubSeq(t, 1, j), formats)
        BY <2>2, <2>3
    <2>5. \/ Single(SubSeq(t, 1, j), formats, entry)
          \/ \E d : Stands(t, d, formats, entry) /\ d[0] = 1 /\ d[Len(formats)] = j
        BY <2>1, <2>4, GroupStands
    <2> QED
        BY Zenon, <2>2, <2>3, <2>5
<1>7. CASE Single(t, formats, entry)
    <2>1. n = 1 /\ IsValue(SubSeq(t, 1, j), formats[1])
        BY <1>1, <1>5, <1>7 DEF Single
    <2>2. \A x \in 1 .. j : t[x] \in {Comma, Colon} => Scanned(t)[x].string = TRUE
        <3>1. 1 \in 1 .. Len(t) /\ j \in 1 .. Len(t)
            BY <1>0, <1>2, <1>5
        <3> QED
            BY <1>4, <2>1, <3>1, ValueScanned
    <2>3. S = {}
        BY <1>5, <2>2
    <2> QED
        BY <1>3, <2>1, <2>3, FS_EmptySet
<1>8. ASSUME NEW d, Stands(t, d, formats, entry), d[0] = 1, d[n] = j
      PROVE  Cardinality(S) = n - 1
    <2>1. \A x \in 1 .. j : (t[x] = Comma /\ ~Scanned(t)[x].string) <=> \E k \in 1 .. n - 1 : x = d[k]
        <3> TAKE x \in 1 .. j
        <3>1. x \in d[0] .. d[n] /\ Scanned(t)[d[0] - 1] = Outside
            BY <1>4, <1>8
        <3> QED
            BY <1>8, <3>1, GroupCommas
    <2> DEFINE f == [k \in 1 .. n - 1 |-> d[k]]
    <2>2. \A k \in 1 .. n - 1 : k \in 0 .. n /\ d[k] \in 1 .. j
        <3> TAKE k \in 1 .. n - 1
        <3>1. k \in 0 .. n
            BY <1>0
        <3> QED
            BY <1>5, <1>8, <3>1 DEF Stands
    <2>3. f \in [1 .. n - 1 -> S]
        BY <1>5, <2>1, <2>2
    <2>4. \A a, b \in 1 .. n - 1 : f[a] = f[b] => a = b
        <3> SUFFICES ASSUME NEW a \in 1 .. n - 1, NEW b \in 1 .. n - 1, d[a] = d[b] PROVE a = b
            OBVIOUS
        <3>1. a \in 0 .. n /\ b \in 0 .. n
            BY <2>2
        <3>2. ~(a < b) /\ ~(b < a)
            <4>1. d[a] \in Nat /\ d[b] \in Nat
                BY <1>0, <1>5, <2>2
            <4>2. a < b => d[a] < d[b]
                BY <1>8, <3>1, SignsIncrease
            <4>3. b < a => d[b] < d[a]
                BY <1>8, <3>1, SignsIncrease
            <4> QED
                BY <1>8, <4>1, <4>2, <4>3
        <3> QED
            BY <1>0, <3>2
    <2>5. \A x \in S : \E a \in 1 .. n - 1 : f[a] = x
        BY <1>5, <2>1
    <2>6. PICK c : c = n - 1
        OBVIOUS
    <2>7. c \in Nat
        BY <1>0, <2>6
    <2> HIDE DEF f, S
    <2>8. Cardinality(S) = c
        BY <2>3, <2>4, <2>5, <2>6, <2>7, CountedOff
    <2> QED
        BY <2>6, <2>8
<1> QED
    BY <1>0, <1>3, <1>6, <1>7, <1>8

Success(entry) == [status |-> "ok", values |-> entry]

\* Values of the given types are converted to what they mean.
LEMMA GroupConverted ==
    ASSUME NEW formats \in TypeList, NEW group, NEW v, group.values = v,
           v \in [1 .. Len(formats) -> Text], \A k \in 1 .. Len(formats) : IsValue(v[k], formats[k]),
           NEW entry, entry = [k \in 1 .. Len(formats) |-> Meant(v[k], formats[k])]
    PROVE  ParseGroup(group, formats) = Success(entry) /\ Matched(group)
<1> DEFINE n == Len(formats)
           parsed == [k \in 1 .. n |-> parse_value(v[k], formats[k])]
<1>0. n \in Nat \ {0}
    BY DEF TypeList
<1>1. Len(v) = n /\ v \in Seq(Text)
    BY <1>0
<1>2. Min({n, n}) = n
    BY <1>0 DEF Min
<1>3. \A k \in 1 .. n : Meant(v[k], formats[k]) \in Text /\ parse_value(v[k], formats[k]) = Meant(v[k], formats[k])
    BY ValueMeant
<1>4. parsed = entry
    BY <1>3
<1>5. \A k \in 1 .. n : entry[k] # NULL
    BY <1>3, NullAssumption DEF Text
<1>6. NULL \notin Range(entry)
    BY <1>5 DEF Range
<1> HIDE DEF n
<1>7. [i \in 1 .. Min({Len(formats), Len(group.values)}) |-> parse_value(group.values[i], formats[i])] = entry
    BY <1>1, <1>2, <1>4 DEF n
<1>8. ~(Len(group.values) < Len(formats))
    BY <1>0, <1>1 DEF n
<1>9. ParseGroup(group, formats) = Success(entry)
    BY <1>6, <1>7, <1>8 DEF ParseGroup, Success
<1>10. Matched(group)
    BY <1>0, <1>1 DEF Matched
<1> QED
    BY <1>9, <1>10

Taken(group, s, i, j, formats, entry) ==
    /\ group.text = SubSeq(s, i, j) /\ group.next = j + 1
    /\ Matched(group) /\ AmountOK(group, formats)
    /\ ParseGroup(group, formats) = Success(entry)

\* A group of the grammar is what the regular expression takes off the text, with
\* or without a comma in front of it, and it is parsed to what it means.
LEMMA GroupRead ==
    ASSUME NEW s \in Text, NEW i \in 1 .. Len(s), NEW j \in i .. Len(s), NEW formats \in TypeList,
           NEW entry \in GroupMeanings(SubSeq(s, i, j), formats),
           NEW cursor \in Nat \ {0}, cursor = i \/ (cursor + 1 = i /\ s[cursor] = Comma)
    PROVE  Taken(TakeGroup(s, cursor), s, i, j, formats, entry)
<1> DEFINE n == Len(formats)
<1>0. n \in Nat \ {0} /\ Len(s) \in Nat /\ i \in Nat /\ j \in Nat /\ i <= j
    BY DEF TypeList, Text
<1>1. /\ SubSeq(s, i, j) \in Text /\ Len(SubSeq(s, i, j)) = j - i + 1
      /\ SubSeq(s, i, j)[1] = s[i]
    <2>1. 1 \in 1 .. j - i + 1 /\ i - 1 + 1 = i
        BY <1>0
    <2> QED
        BY <2>1, PieceTokens
<1>2. \/ Single(SubSeq(s, i, j), formats, entry)
      \/ \E d : Stands(s, d, formats, entry) /\ d[0] = i /\ d[n] = j
    BY GroupStands
<1>3. count_delimiter(SubSeq(s, i, j), Comma) + 1 = n
    BY <1>1, GroupAmount
<1> DEFINE t == SubSeq(s, i, j)
<1> HIDE DEF t
<1>4. CASE Single(t, formats, entry)
    <2>1. n = 1 /\ IsValue(t, formats[1]) /\ entry = <<Meant(t, formats[1])>>
        BY <1>4 DEF Single
    <2>2. any_value(s, i) = j
        BY <2>1, ValueFound DEF t
    <2>3. s[i] \in Numbers \cup {Quote}
        BY <1>1, <2>1, ValueMeant DEF t
    <2>4. s[i] # Open /\ s[i] # Comma
        BY <2>3, WordAssumption, SignAssumption
    <2>5. GroupAt(s, i) = Group(s, i, [values |-> <<t>>, end |-> j])
        BY <1>0, <2>2, <2>4 DEF GroupAt, SingleValue, t
    <2>6. TakeGroup(s, cursor) = GroupAt(s, i)
        <3>1. CASE cursor = i
            BY <1>0, <2>4, <3>1 DEF TakeGroup
        <3>2. CASE cursor + 1 = i /\ s[cursor] = Comma
            BY <1>0, <3>2 DEF TakeGroup
        <3> QED
            BY <3>1, <3>2
    <2>7. PICK group : group = TakeGroup(s, cursor)
        OBVIOUS
    <2>8. group.values = <<t>> /\ group.next = j + 1 /\ group.text = t
        BY <2>5, <2>6, <2>7 DEF Group, t
    <2>9. ParseGroup(group, formats) = Success(entry) /\ Matched(group)
        <3>1. PICK v : v = <<t>>
            OBVIOUS
        <3>2. v \in [1 .. n -> Text] /\ v[1] = t
            <4>1. t \in Text
                BY <1>1 DEF t
            <4>2. <<t>> \in [1 .. 1 -> Text] /\ <<t>>[1] = t
                BY <4>1
            <4> HIDE DEF n
            <4> QED
                BY <2>1, <3>1, <4>2
        <3>3. \A k \in 1 .. n : k = 1
            BY <2>1
        <3>4. \A k \in 1 .. n : IsValue(v[k], formats[k])
            BY <2>1, <3>2, <3>3
        <3>5. entry = [k \in 1 .. n |-> Meant(v[k], formats[k])]
            <4>1. [k \in 1 .. n |-> Meant(v[k], formats[k])] = [k \in 1 .. 1 |-> Meant(t, formats[1])]
                BY <2>1, <3>2, <3>3
            <4> QED
                BY <2>1, <4>1
        <3>6. group.values = v
            BY <2>8, <3>1
        <3> QED
            BY <3>2, <3>4, <3>5, <3>6, GroupConverted
    <2>10. AmountOK(group, formats)
        BY <1>3, <2>8 DEF AmountOK, t
    <2> QED
        BY <2>7, <2>8, <2>9, <2>10 DEF Taken, t
<1>5. ASSUME NEW d, Stands(s, d, formats, entry), d[0] = i, d[n] = j
      PROVE  Taken(TakeGroup(s, cursor), s, i, j, formats, entry)
    <2> DEFINE v == [k \in 1 .. n |-> Piece(s, d, k)]
    <2>1. ListedValues(s, i + 1) = [values |-> v, end |-> j]
        BY <1>5, GroupListed
    <2>2. v \in [1 .. n -> Text]
        <3> SUFFICES ASSUME NEW k \in 1 .. n PROVE Piece(s, d, k) \in Text
            OBVIOUS
        <3>1. PICK a, b : a = d[k - 1] + 1 /\ b = d[k] - 1
            OBVIOUS
        <3>2. a \in 1 .. Len(s) /\ b \in a .. Len(s) /\ Piece(s, d, k) = SubSeq(s, a, b)
            BY <1>5, <3>1, ValuesStand
        <3> QED
            BY <3>2, PieceTokens
    <2>3. \A k \in 1 .. n : IsValue(v[k], formats[k])
        BY <1>5 DEF Stands
    <2>4. entry = [k \in 1 .. n |-> Meant(v[k], formats[k])]
        <3>1. entry = [k \in 1 .. n |-> Meant(Piece(s, d, k), formats[k])]
            BY <1>5 DEF Stands
        <3> QED
            BY <3>1
    <2> HIDE DEF v
    <2>5. s[i] = Open
        BY <1>5 DEF Stands
    <2>6. s[i] # Comma
        BY <2>5, SignAssumption
    <2>7. GroupAt(s, i) = Group(s, i, [values |-> v, end |-> j])
        BY <1>0, <2>1, <2>5 DEF GroupAt
    <2>8. TakeGroup(s, cursor) = GroupAt(s, i)
        <3>1. CASE cursor = i
            BY <1>0, <2>6, <3>1 DEF TakeGroup
        <3>2. CASE cursor + 1 = i /\ s[cursor] = Comma
            BY <1>0, <3>2 DEF TakeGroup
        <3> QED
            BY <3>1, <3>2
    <2>9. PICK group : group = TakeGroup(s, cursor)
        OBVIOUS
    <2>10. group.values = v /\ group.next = j + 1 /\ group.text = SubSeq(s, i, j)
        BY <2>7, <2>8, <2>9 DEF Group
    <2>11. ParseGroup(group, formats) = Success(entry) /\ Matched(group)
        BY <2>2, <2>3, <2>4, <2>10, GroupConverted
    <2>12. AmountOK(group, formats)
        BY <1>3, <2>10 DEF AmountOK
    <2> QED
        BY <2>9, <2>10, <2>11, <2>12 DEF Taken
<1> QED
    BY <1>2, <1>4, <1>5 DEF t

\* No delimiter of rows is seen in a group.
Quiet(s, i, j) ==
    \A x \in i .. j : /\ s[x] = Comma => Scanned(s)[x].string \/ Scanned(s)[x].parentheses
                      /\ s[x] = Colon => Scanned(s)[x].string

\* Over a group the loops see no delimiter of rows, and forget what they saw.
LEMMA GroupQuiet ==
    ASSUME NEW s \in Text, NEW i \in 1 .. Len(s), NEW j \in i .. Len(s), NEW formats \in TypeList,
           NEW entry \in GroupMeanings(SubSeq(s, i, j), formats),
           Scanned(s)[i - 1] = Outside, i = 1 \/ s[i - 1] # Backslash
    PROVE  Quiet(s, i, j) /\ Scanned(s)[j] = Outside
<1> DEFINE n == Len(formats)
<1>0. n \in Nat \ {0} /\ Len(s) \in Nat /\ i \in Nat /\ j \in Nat /\ i <= j
    BY DEF TypeList, Text
<1>1. \/ Single(SubSeq(s, i, j), formats, entry)
      \/ \E d : Stands(s, d, formats, entry) /\ d[0] = i /\ d[n] = j
    BY GroupStands
<1>2. CASE Single(SubSeq(s, i, j), formats, entry)
    <2>1. IsValue(SubSeq(s, i, j), formats[1])
        BY <1>2 DEF Single
    <2>2. Fresh(s, i)
        BY DEF Fresh, Outside
    <2>3. /\ Scanned(s)[j] = Scanned(s)[i - 1]
          /\ \A k \in i .. j : s[k] \in {Comma, Colon} => Scanned(s)[k].string = TRUE
        BY <2>1, <2>2, ValueScanned
    <2> QED
        BY <2>3 DEF Quiet
<1>3. ASSUME NEW d, Stands(s, d, formats, entry), d[0] = i, d[n] = j
      PROVE  Quiet(s, i, j) /\ Scanned(s)[j] = Outside
    <2>1. Scanned(s)[d[0] - 1] = Outside
        BY <1>3
    <2>2. Scanned(s)[j] = Outside
        <3>1. Known(s, d, n)
            BY <1>3, <2>1, GroupScanned
        <3> QED
            BY <1>3, <3>1 DEF Known
    <2>3. ASSUME NEW x \in i .. j
          PROVE  /\ s[x] = Comma => Scanned(s)[x].string \/ Scanned(s)[x].parentheses
                 /\ s[x] = Colon => Scanned(s)[x].string
        <3>1. x \in d[0] .. d[n]
            BY <1>3
        <3> QED
            BY <1>3, <2>1, <3>1, GroupCommas
    <2> QED
        BY <2>2, <2>3 DEF Quiet
<1> QED
    BY <1>1, <1>2, <1>3

\* What a group means is an entry.
LEMMA GroupEntry ==
    ASSUME NEW s \in Text, NEW i \in 1 .. Len(s), NEW j \in i .. Len(s), NEW formats \in TypeList,
           NEW entry \in GroupMeanings(SubSeq(s, i, j), formats)
    PROVE  entry \in Entry
<1>1. PICK group : group = TakeGroup(s, i)
    OBVIOUS
<1>2. i \in Nat \ {0}
    BY DEF Text
<1>3. Taken(group, s, i, j, formats, entry)
    BY <1>1, <1>2, GroupRead
<1>4. group \in Groups
    BY <1>1, <1>2, GroupTaken
<1>5. Success(entry) \in Parsed /\ Filled(Success(entry))
    BY <1>3, <1>4, GroupParsed DEF Taken
<1> QED
    BY <1>5 DEF Success, Parsed, Filled

-----------------------------------------------------------------------------
(* A row in a text.                                                        *)

ColumnTypes == {c \in Seq(TypeList) : Len(c) \in {1, 2}}

\* A key, a colon at c, and attributes.
KeyValue(s, i, j, columns, row, c) ==
    /\ c \in i + 1 .. j - 1 /\ s[c] = Colon
    /\ row[1] \in GroupMeanings(SubSeq(s, i, c - 1), columns[1])
    /\ row[2] \in GroupMeanings(SubSeq(s, c + 1, j), columns[2])

RowStands(s, i, j, columns, row) ==
    /\ i <= j /\ row \in Seq(Entry) /\ Len(row) = Len(columns)
    /\ Len(columns) = 1 => row[1] \in GroupMeanings(SubSeq(s, i, j), columns[1])
    /\ Len(columns) = 2 => \E c : KeyValue(s, i, j, columns, row, c)

\* There are types for every column.
LEMMA ColumnsTyped ==
    ASSUME NEW columns \in ColumnTypes
    PROVE  /\ Len(columns) \in {1, 2} /\ columns[1] \in TypeList
           /\ Len(columns) = 2 => columns[2] \in TypeList
<1>1. Len(columns) \in {1, 2} /\ columns \in Seq(TypeList)
    BY DEF ColumnTypes
<1>2. \A k \in 1 .. Len(columns) : columns[k] \in TypeList
    BY <1>1
<1> QED
    BY <1>1, <1>2

\* A row of the grammar is a group, or one, a colon and another.
LEMMA RowShape ==
    ASSUME NEW s \in Text, NEW i \in 1 .. Len(s) + 1, NEW j \in 0 .. Len(s), NEW columns \in ColumnTypes,
           NEW row \in RowMeanings(SubSeq(s, i, j), columns)
    PROVE  RowStands(s, i, j, columns, row)
<1> DEFINE t == SubSeq(s, i, j)
<1>0. Len(s) \in Nat /\ i \in Nat \ {0} /\ j \in Nat
    BY DEF Text
<1>1. /\ Len(columns) \in {1, 2} /\ columns[1] \in TypeList
      /\ Len(columns) = 2 => columns[2] \in TypeList
    BY ColumnsTyped
<1>2. CASE Len(columns) = 1
    <2>1. PICK key \in GroupMeanings(t, columns[1]) : row = <<key>>
        BY <1>2 DEF RowMeanings
    <2>2. i <= j
        BY <1>0, <2>1, GroupIsThere
    <2>3. i \in 1 .. Len(s) /\ j \in i .. Len(s) /\ columns[1] \in TypeList
        BY <1>0, <1>1, <1>2, <2>2
    <2>4. key \in Entry
        BY <2>1, <2>3, GroupEntry
    <2>5. row \in Seq(Entry) /\ Len(row) = 1 /\ row[1] = key
        BY <2>1, <2>4
    <2> QED
        BY <1>2, <2>1, <2>2, <2>5 DEF RowStands
<1>3. CASE Len(columns) = 2
    <2>1. PICK k, key, value :
               /\ k \in 1 .. Len(t) /\ t[k] = Colon /\ row = <<key, value>>
               /\ key \in GroupMeanings(SubSeq(t, 1, k - 1), columns[1])
               /\ value \in GroupMeanings(SubSeq(t, k + 1, Len(t)), columns[2])
        BY <1>3 DEF RowMeanings
    <2>2. i <= j
        <3> SUFFICES ASSUME j < i PROVE FALSE
            BY <1>0
        <3>1. Len(t) = 0
            BY <1>0 DEF Text
        <3> QED
            BY <2>1, <3>1
    <2>3. i \in 1 .. Len(s) /\ j \in i .. Len(s) /\ columns[1] \in TypeList /\ columns[2] \in TypeList
        BY <1>0, <1>1, <1>3, <2>2
    <2>4. /\ t \in Text /\ Len(t) = j - i + 1
          /\ \A m \in 1 .. j - i + 1 : t[m] = s[i - 1 + m]
        BY <2>3, PieceTokens
    <2> HIDE DEF t
    <2>5. 1 <= k - 1 /\ k + 1 <= Len(t)
        <3>1. k \in Nat /\ Len(t) \in Nat /\ k - 1 \in Nat
            BY <1>0, <2>1, <2>2, <2>4
        <3>2. 1 <= k - 1
            BY <2>1, <2>4, <3>1, GroupIsThere
        <3>3. k + 1 <= Len(t)
            BY <2>1, <2>4, <3>1, GroupIsThere
        <3> QED
            BY <3>2, <3>3
    <2>6. PICK c : c = i - 1 + k
        OBVIOUS
    <2>7. c \in i + 1 .. j - 1 /\ s[c] = Colon
        <3>1. k \in 1 .. j - i + 1
            BY <2>1, <2>4
        <3>2. c \in i + 1 .. j - 1
            BY <1>0, <2>2, <2>4, <2>5, <2>6, <3>1
        <3> QED
            BY <2>1, <2>4, <2>6, <3>1, <3>2
    <2>70. k \in 1 .. j - i + 1 /\ k \in Nat
        BY <1>0, <2>1, <2>4
    <2>8. SubSeq(t, 1, k - 1) = SubSeq(s, i, c - 1)
        <3>1. PICK b : b = k - 1
            OBVIOUS
        <3>2. 1 \in 1 .. j - i + 1 /\ b \in 0 .. j - i + 1 /\ i - 1 + 1 = i /\ i - 1 + b = c - 1
            BY <1>0, <2>2, <2>4, <2>6, <2>70, <3>1
        <3>3. SubSeq(t, 1, b) = SubSeq(s, i - 1 + 1, i - 1 + b)
            BY <2>3, <3>2, PieceOfPiece DEF t
        <3> QED
            BY <3>1, <3>2, <3>3
    <2>9. SubSeq(t, k + 1, Len(t)) = SubSeq(s, c + 1, j)
        <3>1. PICK a, b : a = k + 1 /\ b = Len(t)
            OBVIOUS
        <3>2. a \in 1 .. j - i + 1 /\ b \in 0 .. j - i + 1 /\ i - 1 + a = c + 1 /\ i - 1 + b = j
            BY <1>0, <2>2, <2>4, <2>5, <2>6, <2>70, <3>1
        <3>3. SubSeq(t, a, b) = SubSeq(s, i - 1 + a, i - 1 + b)
            BY <2>3, <3>2, PieceOfPiece DEF t
        <3> QED
            BY <3>1, <3>2, <3>3
    <2>10. key \in GroupMeanings(SubSeq(s, i, c - 1), columns[1])
           /\ value \in GroupMeanings(SubSeq(s, c + 1, j), columns[2])
        BY <2>1, <2>8, <2>9
    <2>11. key \in Entry /\ value \in Entry
        <3>1. PICK a, b : a = c - 1 /\ b = c + 1
            OBVIOUS
        <3>2. i \in 1 .. Len(s) /\ a \in i .. Len(s) /\ b \in 1 .. Len(s) /\ j \in b .. Len(s)
            BY <1>0, <2>3, <2>7, <3>1
        <3>3. key \in Entry
            BY <2>3, <2>10, <3>1, <3>2, GroupEntry
        <3>4. value \in Entry
            BY <2>3, <2>10, <3>1, <3>2, GroupEntry
        <3> QED
            BY <3>3, <3>4
    <2>12. row \in Seq(Entry) /\ Len(row) = 2 /\ row[1] = key /\ row[2] = value
        BY <2>1, <2>11
    <2>13. KeyValue(s, i, j, columns, row, c)
        BY <2>7, <2>10, <2>12 DEF KeyValue
    <2> QED
        BY <1>3, <2>2, <2>12, <2>13 DEF RowStands
<1> QED
    BY <1>1, <1>2, <1>3

\* Over a row of a set the loops see no comma outside of parentheses.
LEMMA SetRowScanned ==
    ASSUME NEW s \in Text, NEW i \in 1 .. Len(s), NEW j \in i .. Len(s), NEW columns \in ColumnTypes,
           NEW row, RowStands(s, i, j, columns, row), Len(columns) = 1,
           Scanned(s)[i - 1] = Outside, i = 1 \/ s[i - 1] # Backslash
    PROVE  Quiet(s, i, j) /\ Scanned(s)[j] = Outside
<1>1. row[1] \in GroupMeanings(SubSeq(s, i, j), columns[1]) /\ columns[1] \in TypeList
    BY ColumnsTyped DEF RowStands
<1> QED
    BY <1>1, GroupQuiet

\* Over a row of the universe they see its colon.
LEMMA UniverseRowScanned ==
    ASSUME NEW s \in Text, NEW i \in 1 .. Len(s), NEW j \in i .. Len(s), NEW columns \in ColumnTypes,
           NEW row, NEW c, KeyValue(s, i, j, columns, row, c), Len(columns) = 2,
           Scanned(s)[i - 1] = Outside, i = 1 \/ s[i - 1] # Backslash
    PROVE  /\ \A x \in i .. j : (s[x] = Colon /\ ~Scanned(s)[x].string) <=> x = c
           /\ Scanned(s)[j] = Outside
<1>0. Len(s) \in Nat /\ i \in Nat /\ j \in Nat /\ i <= j
    BY DEF Text
<1>1. /\ c \in i + 1 .. j - 1 /\ s[c] = Colon
      /\ row[1] \in GroupMeanings(SubSeq(s, i, c - 1), columns[1]) /\ columns[1] \in TypeList
      /\ row[2] \in GroupMeanings(SubSeq(s, c + 1, j), columns[2]) /\ columns[2] \in TypeList
    BY ColumnsTyped DEF KeyValue
<1>2. PICK a, b : a = c - 1 /\ b = c + 1
    OBVIOUS
<1>3. /\ a \in i .. Len(s) /\ b \in 1 .. Len(s) /\ j \in b .. Len(s) /\ c \in 1 .. Len(s)
      /\ c - 1 = a /\ b - 1 = c
    BY <1>0, <1>1, <1>2
<1>4. row[1] \in GroupMeanings(SubSeq(s, i, a), columns[1]) /\ row[2] \in GroupMeanings(SubSeq(s, b, j), columns[2])
    BY <1>1, <1>2
<1>5. Quiet(s, i, a) /\ Scanned(s)[a] = Outside
    BY <1>1, <1>3, <1>4, GroupQuiet
<1>6. Scanned(s)[c] = Outside
    <2>1. s[c] \notin {Quote, Open, Close}
        BY <1>1, SignAssumption
    <2> QED
        BY <1>3, <1>5, <2>1, ScanToken
<1>7. Quiet(s, b, j) /\ Scanned(s)[j] = Outside
    <2>1. s[b - 1] # Backslash /\ Scanned(s)[b - 1] = Outside
        BY <1>1, <1>3, <1>6, SignAssumption
    <2> QED
        BY <1>1, <1>3, <1>4, <2>1, GroupQuiet
<1>8. ASSUME NEW x \in i .. j
      PROVE  (s[x] = Colon /\ ~Scanned(s)[x].string) <=> x = c
    <2>1. x \in i .. a \/ x = c \/ x \in b .. j
        BY <1>0, <1>2, <1>3
    <2>2. CASE x \in i .. a
        <3>1. x # c
            BY <1>0, <1>2, <1>3, <2>2
        <3> QED
            BY <1>5, <2>2, <3>1 DEF Quiet
    <2>3. CASE x = c
        BY <1>1, <1>6, <2>3 DEF Outside
    <2>4. CASE x \in b .. j
        <3>1. x # c
            BY <1>0, <1>2, <1>3, <2>4
        <3> QED
            BY <1>7, <2>4, <3>1 DEF Quiet
    <2> QED
        BY <2>1, <2>2, <2>3, <2>4
<1> QED
    BY <1>7, <1>8

\* The row read last ended where the next one begins, or at the comma between them.
EndsBefore(last, s, i) ==
    /\ last.status = "ok" /\ last.cursor \in Nat \ {0}
    /\ last.cursor = i \/ (last.cursor + 1 = i /\ s[last.cursor] = Comma)

NextIs(last, s, columns, j, row) ==
    NextRow(s, last, columns[1], columns[2])
        = [status |-> "ok", cursor |-> j + 1, key |-> row[1], value |-> row[2]]

\* A row of the universe is read whole.
LEMMA UniverseRowTaken ==
    ASSUME NEW s \in Text, NEW i \in 1 .. Len(s), NEW j \in i .. Len(s), NEW columns \in ColumnTypes,
           NEW row, NEW c, KeyValue(s, i, j, columns, row, c), Len(columns) = 2,
           NEW last, EndsBefore(last, s, i)
    PROVE  NextIs(last, s, columns, j, row)
<1>0. Len(s) \in Nat /\ i \in Nat /\ j \in Nat /\ i <= j
    BY DEF Text
<1>1. /\ c \in i + 1 .. j - 1 /\ s[c] = Colon
      /\ row[1] \in GroupMeanings(SubSeq(s, i, c - 1), columns[1]) /\ columns[1] \in TypeList
      /\ row[2] \in GroupMeanings(SubSeq(s, c + 1, j), columns[2]) /\ columns[2] \in TypeList
    BY ColumnsTyped DEF KeyValue
<1>2. PICK a, b : a = c - 1 /\ b = c + 1
    OBVIOUS
<1>3. /\ a \in i .. Len(s) /\ b \in 1 .. Len(s) /\ j \in b .. Len(s) /\ c \in 1 .. Len(s)
      /\ a + 1 = c /\ b - 1 = c /\ b \in Nat \ {0}
    BY <1>0, <1>1, <1>2
<1>4. row[1] \in GroupMeanings(SubSeq(s, i, a), columns[1]) /\ row[2] \in GroupMeanings(SubSeq(s, b, j), columns[2])
    BY <1>1, <1>2
<1>5. PICK keys, attributes : keys = TakeGroup(s, last.cursor) /\ attributes = TakeGroup(s, b)
    OBVIOUS
<1>6. Taken(keys, s, i, a, columns[1], row[1])
    <2>1. PICK cursor \in Nat \ {0} : cursor = last.cursor
        BY DEF EndsBefore
    <2>2. cursor = i \/ (cursor + 1 = i /\ s[cursor] = Comma)
        BY <2>1 DEF EndsBefore
    <2>3. keys = TakeGroup(s, cursor)
        BY <1>5, <2>1
    <2> QED
        BY <1>1, <1>3, <1>4, <2>2, <2>3, GroupRead
<1>7. Taken(attributes, s, b, j, columns[2], row[2])
    BY <1>1, <1>3, <1>4, <1>5, GroupRead
<1>8. keys.next = c /\ parse_universe_values(keys, columns[1]) = Success(row[1])
    BY <1>3, <1>6 DEF Taken, parse_universe_values
<1>9. attributes.next = j + 1 /\ parse_universe_values(attributes, columns[2]) = Success(row[2])
    BY <1>7 DEF Taken, parse_universe_values
<1>10. NextRow(s, last, columns[1], columns[2]) = UniverseRow(s, keys, columns[1], columns[2])
    BY <1>5 DEF NextRow, EndsBefore
<1>11. UniverseRow(s, keys, columns[1], columns[2]) = ValuesOfRow(Success(row[1]), attributes, columns[2])
    <2>1. keys.next <= Len(s) /\ s[keys.next] = Colon /\ TakeGroup(s, keys.next + 1) = attributes
        BY <1>0, <1>1, <1>2, <1>3, <1>5, <1>8
    <2> QED
        BY <1>8, <2>1 DEF UniverseRow
<1>12. ValuesOfRow(Success(row[1]), attributes, columns[2]) = Row(Success(row[1]), Success(row[2]), j + 1)
    BY <1>9 DEF ValuesOfRow
<1>13. Row(Success(row[1]), Success(row[2]), j + 1)
          = [status |-> "ok", cursor |-> j + 1, key |-> row[1], value |-> row[2]]
    BY DEF Row, Success
<1> QED
    BY <1>10, <1>11, <1>12, <1>13 DEF NextIs

\* A row of a set is read whole, if the set has room for it.
LEMMA SetRowTaken ==
    ASSUME NEW s \in Text, NEW i \in 1 .. Len(s), NEW j \in i .. Len(s), NEW columns \in ColumnTypes,
           NEW row, RowStands(s, i, j, columns, row), Len(columns) = 1,
           NEW cursor \in Nat \ {0}, cursor = i \/ (cursor + 1 = i /\ s[cursor] = Comma),
           NEW n, NEW room
    PROVE  SetRow(TakeGroup(s, cursor), columns[1], n, room)
              = IF Overfull(n, room) THEN SetMember(NotParsed("overfull"), j + 1)
                ELSE SetMember(Success(row[1]), j + 1)
<1>1. row[1] \in GroupMeanings(SubSeq(s, i, j), columns[1]) /\ columns[1] \in TypeList
    BY ColumnsTyped DEF RowStands
<1>2. PICK group : group = TakeGroup(s, cursor)
    OBVIOUS
<1>3. Taken(group, s, i, j, columns[1], row[1])
    BY <1>1, <1>2, GroupRead
<1>4. /\ group.next = j + 1 /\ Matched(group) /\ AmountOK(group, columns[1])
      /\ ParseGroup(group, columns[1]) = Success(row[1])
    BY <1>3 DEF Taken
<1> QED
    BY <1>2, <1>4 DEF SetRow

-----------------------------------------------------------------------------
(* The body of an insert.                                                  *)

\* A row up to the comma at k, and the rows behind it.
RowAnd(s, columns, i, k, others) ==
    UNION {{<<row>> \o rest : rest \in others} : row \in RowMeanings(SubSeq(s, i, k - 1), columns)}

\* What the body means from i on, with what it means from the places behind.
BodyFrom(s, columns, from, i) ==
    {<<row>> : row \in RowMeanings(SubSeq(s, i, Len(s)), columns)}
    \cup UNION {RowAnd(s, columns, i, k, from[k + 1]) : k \in {k \in i .. Len(s) : s[k] = Comma}}

IsBody(s, columns, from, first) ==
    from = [i \in first .. Len(s) + 1 |-> BodyFrom(s, columns, from, i)]

\* It depends on those only.
LEMMA BodyLooksAhead ==
    ASSUME NEW s \in Text, NEW columns, NEW i \in Nat \ {0}, NEW f, NEW g,
           \A k \in i + 1 .. Len(s) + 1 : f[k] = g[k]
    PROVE  BodyFrom(s, columns, f, i) = BodyFrom(s, columns, g, i)
<1> DEFINE K == {k \in i .. Len(s) : s[k] = Comma}
           Fs(k) == RowAnd(s, columns, i, k, f[k + 1])
           Gs(k) == RowAnd(s, columns, i, k, g[k + 1])
<1>1. \A k \in K : f[k + 1] = g[k + 1]
    <2> SUFFICES ASSUME NEW k \in K PROVE f[k + 1] = g[k + 1]
        OBVIOUS
    <2>1. k + 1 \in i + 1 .. Len(s) + 1
        BY DEF Text
    <2> QED
        BY <2>1
<1>2. \A k \in K : Fs(k) = Gs(k)
    BY Zenon, <1>1
<1> HIDE DEF Fs, Gs
<1>3. {Fs(k) : k \in K} = {Gs(k) : k \in K}
    BY Zenon, <1>2
<1> QED
    BY Zenon, <1>3 DEF BodyFrom, Fs, Gs

\* So the function exists: by recursion from the end.
LEMMA BodyExists ==
    ASSUME NEW s \in Text, NEW columns
    PROVE  \E f : IsBody(s, columns, f, 1)
<1> DEFINE n == Len(s)
           S == {i \in 1 .. n + 1 : \E f : IsBody(s, columns, f, i)}
<1>0. n \in Nat
    BY DEF Text
<1>1. ASSUME NEW i \in 1 .. n + 1, \A k \in i + 1 .. n + 1 : k \in S
      PROVE  i \in S
    <2>1. \E g : \A k \in i + 1 .. n + 1 : g[k] = BodyFrom(s, columns, g, k)
        <3>1. CASE i = n + 1
            BY <1>0, <3>1
        <3>2. CASE i # n + 1
            <4>1. i + 1 \in i + 1 .. n + 1 /\ i + 1 \in 1 .. n + 1
                BY <1>0, <3>2
            <4>2. PICK g : IsBody(s, columns, g, i + 1)
                BY <1>1, <4>1
            <4> QED
                BY Zenon, <4>2 DEF IsBody, n
        <3> QED
            BY <3>1, <3>2
    <2>2. PICK g : \A k \in i + 1 .. n + 1 : g[k] = BodyFrom(s, columns, g, k)
        BY <2>1
    <2> DEFINE f == [k \in i .. n + 1 |-> BodyFrom(s, columns, g, k)]
    <2>3. \A k \in i + 1 .. n + 1 : k \in i .. n + 1
        BY <1>0
    <2>4. \A k \in i + 1 .. n + 1 : g[k] = f[k]
        BY Zenon, <2>2, <2>3
    <2>5. \A k \in i .. n + 1 : BodyFrom(s, columns, g, k) = BodyFrom(s, columns, f, k)
        <3> TAKE k \in i .. n + 1
        <3> HIDE DEF f
        <3>1. k \in Nat \ {0} /\ \A m \in k + 1 .. n + 1 : m \in i + 1 .. n + 1
            BY <1>0
        <3>2. \A m \in k + 1 .. Len(s) + 1 : g[m] = f[m]
            BY <2>4, <3>1 DEF n
        <3> QED
            BY <3>1, <3>2, BodyLooksAhead
    <2>6. f = [k \in i .. n + 1 |-> BodyFrom(s, columns, f, k)]
        BY Zenon, <2>5
    <2> HIDE DEF f
    <2>7. IsBody(s, columns, f, i)
        BY Zenon, <2>6 DEF IsBody, n
    <2> QED
        BY <2>7
<1> HIDE DEF S
<1>2. \A i \in 1 .. n + 1 : i \in S
    <2>1. n + 1 \in Nat
        BY <1>0
    <2> HIDE DEF n
    <2> QED
        BY <1>1, <2>1, Backward
<1>3. 1 \in 1 .. n + 1
    BY <1>0
<1> QED
    BY <1>2, <1>3 DEF S

\* The meanings of a body are those from its first place on.
LEMMA BodyFunction ==
    ASSUME NEW s \in Text, NEW columns
    PROVE  \E from : /\ BodyMeanings(s, columns) = from[1]
                     /\ \A i \in 1 .. Len(s) + 1 : from[i] = BodyFrom(s, columns, from, i)
<1>1. PICK from : from = CHOOSE f : IsBody(s, columns, f, 1)
    OBVIOUS
<1>2. IsBody(s, columns, from, 1)
    BY Zenon, <1>1, BodyExists
<1>3. \A i \in 1 .. Len(s) + 1 : from[i] = BodyFrom(s, columns, from, i)
    BY Zenon, <1>2 DEF IsBody
<1>4. BodyMeanings(s, columns) = from[1]
    BY Zenon, <1>1 DEF BodyMeanings, IsBody, BodyFrom, RowAnd
<1> QED
    BY <1>3, <1>4

\* The commas between the rows of a body.
BodyStands(s, columns, rows, i, e) ==
    /\ rows \in Seq(Seq(Entry)) /\ Len(rows) > 0
    /\ e \in [0 .. Len(rows) -> 0 .. Len(s) + 1]
    /\ e[0] = i - 1 /\ e[Len(rows)] = Len(s) + 1
    /\ \A k \in 1 .. Len(rows) : /\ RowStands(s, e[k - 1] + 1, e[k] - 1, columns, rows[k])
                                 /\ k # Len(rows) => e[k] \in 1 .. Len(s) /\ s[e[k]] = Comma

\* One row in front of others.
LEMMA RowInFront ==
    ASSUME NEW s \in Text, NEW columns, NEW i \in 1 .. Len(s), NEW k \in i .. Len(s), s[k] = Comma,
           NEW row, RowStands(s, i, k - 1, columns, row),
           NEW rest, NEW d, BodyStands(s, columns, rest, k + 1, d)
    PROVE  \E e : BodyStands(s, columns, <<row>> \o rest, i, e)
<1> DEFINE n == Len(rest)
           rows == <<row>> \o rest
           e == [m \in 0 .. n + 1 |-> IF m = 0 THEN i - 1 ELSE d[m - 1]]
<1>0. Len(s) \in Nat /\ rest \in Seq(Seq(Entry)) /\ n \in Nat \ {0} /\ row \in Seq(Entry)
    BY DEF Text, BodyStands, RowStands
<1>1. d \in [0 .. n -> 0 .. Len(s) + 1] /\ d[0] = k /\ d[n] = Len(s) + 1
    BY <1>0 DEF BodyStands
<1>2. rows \in Seq(Seq(Entry)) /\ Len(rows) = n + 1 /\ rows[1] = row
      /\ \A m \in 2 .. n + 1 : rows[m] = rest[m - 1]
    BY <1>0
<1>3. /\ e[0] = i - 1 /\ \A m \in 1 .. n + 1 : e[m] = d[m - 1]
      /\ e \in [0 .. n + 1 -> 0 .. Len(s) + 1]
    <2>1. 0 \in 0 .. n + 1 /\ \A m \in 1 .. n + 1 : m \in 0 .. n + 1 /\ m # 0 /\ m - 1 \in 0 .. n
        BY <1>0
    <2>2. \A m \in 0 .. n + 1 : m = 0 \/ m - 1 \in 0 .. n
        BY <1>0
    <2>3. i - 1 \in 0 .. Len(s) + 1
        BY <1>0
    <2>4. \A m \in 0 .. n + 1 : (IF m = 0 THEN i - 1 ELSE d[m - 1]) \in 0 .. Len(s) + 1
        BY <1>1, <2>2, <2>3
    <2> QED
        BY <2>1, <2>4
<1> HIDE DEF e, rows
<1>4. ASSUME NEW m \in 1 .. n + 1
      PROVE  /\ RowStands(s, e[m - 1] + 1, e[m] - 1, columns, rows[m])
             /\ m # n + 1 => e[m] \in 1 .. Len(s) /\ s[e[m]] = Comma
    <2>1. CASE m = 1
        <3>1. e[m - 1] + 1 = i /\ e[m] = k /\ rows[m] = row
            <4>1. 1 \in 1 .. n + 1 /\ 1 - 1 = 0 /\ i - 1 + 1 = i
                BY <1>0
            <4> QED
                BY <1>1, <1>2, <1>3, <2>1, <4>1
        <3>2. k \in 1 .. Len(s)
            BY <1>0
        <3> QED
            BY <3>1, <3>2
    <2>2. CASE m # 1
        <3>1. PICK q : q = m - 1
            OBVIOUS
        <3>2. q \in 1 .. n /\ m \in 2 .. n + 1 /\ q \in 1 .. n + 1 /\ (m # n + 1 => q # n)
            BY <1>0, <2>2, <3>1
        <3>3. e[q] = d[q - 1] /\ e[m] = d[q] /\ rows[m] = rest[q]
            BY <1>2, <1>3, <3>1, <3>2
        <3>4. /\ RowStands(s, d[q - 1] + 1, d[q] - 1, columns, rest[q])
              /\ q # n => d[q] \in 1 .. Len(s) /\ s[d[q]] = Comma
            BY <3>2 DEF BodyStands
        <3> QED
            BY <3>1, <3>2, <3>3, <3>4
    <2> QED
        BY <2>1, <2>2
<1>5. e[n + 1] = Len(s) + 1
    <2>1. n + 1 \in 1 .. n + 1 /\ (n + 1) - 1 = n
        BY <1>0
    <2> QED
        BY <1>1, <1>3, <2>1
<1> HIDE DEF n
<1>6. BodyStands(s, columns, rows, i, e)
    <2>1. PICK m : m = Len(rows)
        OBVIOUS
    <2>2. m = n + 1 /\ rows \in Seq(Seq(Entry)) /\ m > 0
        BY <1>0, <1>2, <2>1
    <2>3. e \in [0 .. m -> 0 .. Len(s) + 1] /\ e[0] = i - 1 /\ e[m] = Len(s) + 1
        BY <1>3, <1>5, <2>2
    <2>4. \A l \in 1 .. m : /\ RowStands(s, e[l - 1] + 1, e[l] - 1, columns, rows[l])
                            /\ l # m => e[l] \in 1 .. Len(s) /\ s[e[l]] = Comma
        BY Zenon, <1>4, <2>2
    <2>5. Len(rows) > 0
        BY <2>1, <2>2
    <2>6. e \in [0 .. Len(rows) -> 0 .. Len(s) + 1] /\ e[0] = i - 1 /\ e[Len(rows)] = Len(s) + 1
        BY Zenon, <2>1, <2>3
    <2>7. \A l \in 1 .. Len(rows) : /\ RowStands(s, e[l - 1] + 1, e[l] - 1, columns, rows[l])
                                    /\ l # Len(rows) => e[l] \in 1 .. Len(s) /\ s[e[l]] = Comma
        BY Zenon, <2>1, <2>4
    <2> QED
        BY Zenon, <2>2, <2>5, <2>6, <2>7 DEF BodyStands
<1> QED
    BY <1>6 DEF rows

\* Only one row.
LEMMA RowAlone ==
    ASSUME NEW s \in Text, NEW columns, NEW i \in 1 .. Len(s) + 1,
           NEW row, RowStands(s, i, Len(s), columns, row)
    PROVE  \E e : BodyStands(s, columns, <<row>>, i, e)
<1> DEFINE rows == <<row>>
           e == [m \in 0 .. 1 |-> IF m = 0 THEN i - 1 ELSE Len(s) + 1]
<1>0. Len(s) \in Nat /\ row \in Seq(Entry) /\ i \in Nat
    BY DEF Text, RowStands
<1>1. rows \in Seq(Seq(Entry)) /\ Len(rows) = 1 /\ rows[1] = row
    BY <1>0
<1>2. e[0] = i - 1 /\ e[1] = Len(s) + 1 /\ e \in [0 .. 1 -> 0 .. Len(s) + 1]
    BY <1>0
<1> HIDE DEF e, rows
<1>3. \A k \in 1 .. 1 : k = 1 /\ k - 1 = 0
    OBVIOUS
<1>4. e[0] + 1 = i /\ e[1] - 1 = Len(s)
    BY <1>0, <1>2
<1>5. \A k \in 1 .. 1 : /\ RowStands(s, e[k - 1] + 1, e[k] - 1, columns, rows[k])
                        /\ k # 1 => e[k] \in 1 .. Len(s) /\ s[e[k]] = Comma
    BY <1>1, <1>3, <1>4
<1>6. BodyStands(s, columns, rows, i, e)
    BY <1>0, <1>1, <1>2, <1>5 DEF BodyStands
<1> QED
    BY <1>6 DEF rows

\* Every meaning of a body is that of rows between commas.
LEMMA BodyCut ==
    ASSUME NEW s \in Text, NEW columns \in ColumnTypes, NEW rows \in BodyMeanings(s, columns)
    PROVE  \E e : BodyStands(s, columns, rows, 1, e)
<1> DEFINE n == Len(s)
<1>0. n \in Nat
    BY DEF Text
<1>1. PICK from : /\ BodyMeanings(s, columns) = from[1]
                  /\ \A i \in 1 .. n + 1 : from[i] = BodyFrom(s, columns, from, i)
    BY BodyFunction
<1> DEFINE S == {i \in 1 .. n + 1 : \A r \in from[i] : \E e : BodyStands(s, columns, r, i, e)}
<1>2. ASSUME NEW i \in 1 .. n + 1, \A k \in i + 1 .. n + 1 : k \in S
      PROVE  i \in S
    <2>1. SUFFICES ASSUME NEW r \in BodyFrom(s, columns, from, i)
                   PROVE  \E e : BodyStands(s, columns, r, i, e)
        BY <1>1
    <2>2. CASE \E row \in RowMeanings(SubSeq(s, i, n), columns) : r = <<row>>
        <3>1. PICK row \in RowMeanings(SubSeq(s, i, n), columns) : r = <<row>>
            BY <2>2
        <3>2. n \in 0 .. Len(s)
            BY <1>0
        <3>3. RowStands(s, i, n, columns, row)
            BY <3>1, <3>2, RowShape
        <3>4. \E e : BodyStands(s, columns, <<row>>, i, e)
            BY <3>3, RowAlone
        <3> QED
            BY <3>1, <3>4
    <2>3. ASSUME NEW k \in i .. n, s[k] = Comma, r \in RowAnd(s, columns, i, k, from[k + 1])
          PROVE  \E e : BodyStands(s, columns, r, i, e)
        <3>1. PICK row, rest : /\ row \in RowMeanings(SubSeq(s, i, k - 1), columns)
                               /\ rest \in from[k + 1] /\ r = <<row>> \o rest
            BY <2>3 DEF RowAnd
        <3>2. k - 1 \in 0 .. Len(s) /\ i \in 1 .. Len(s) /\ k \in i .. Len(s) /\ k + 1 \in i + 1 .. n + 1
              /\ k + 1 \in 1 .. n + 1
            BY <1>0
        <3>3. RowStands(s, i, k - 1, columns, row)
            <4>1. PICK j : j = k - 1
                OBVIOUS
            <4>2. RowStands(s, i, j, columns, row)
                BY <3>1, <3>2, <4>1, RowShape
            <4> QED
                BY <4>1, <4>2
        <3>4. k + 1 \in S
            BY <1>2, <3>2
        <3>5. PICK d : BodyStands(s, columns, rest, k + 1, d)
            BY <3>1, <3>4
        <3>6. \E e : BodyStands(s, columns, <<row>> \o rest, i, e)
            BY <2>3, <3>2, <3>3, <3>5, RowInFront
        <3> QED
            BY <3>1, <3>6
    <2> QED
        BY <2>1, <2>2, <2>3 DEF BodyFrom
<1> HIDE DEF S
<1>3. \A i \in 1 .. n + 1 : i \in S
    <2>1. n + 1 \in Nat
        BY <1>0
    <2> HIDE DEF n
    <2> QED
        BY <1>2, <2>1, Backward
<1>4. 1 \in S
    BY <1>0, <1>3
<1> QED
    BY <1>1, <1>4 DEF S

\* Where the rows stand.
LEMMA RowPlaces ==
    ASSUME NEW s \in Text, NEW columns, NEW rows, NEW e, BodyStands(s, columns, rows, 1, e),
           NEW k \in 1 .. Len(rows), NEW i, NEW j, i = e[k - 1] + 1, j = e[k] - 1
    PROVE  /\ i \in 1 .. Len(s) /\ j \in i .. Len(s) /\ i - 1 = e[k - 1] /\ j + 1 = e[k]
           /\ RowStands(s, i, j, columns, rows[k])
<1>0. Len(s) \in Nat /\ Len(rows) \in Nat
    BY DEF Text, BodyStands
<1>1. k - 1 \in 0 .. Len(rows) /\ k \in 0 .. Len(rows)
    BY <1>0
<1>2. e[k - 1] \in 0 .. Len(s) + 1 /\ e[k] \in 0 .. Len(s) + 1
    BY <1>1 DEF BodyStands
<1>3. RowStands(s, i, j, columns, rows[k])
    BY DEF BodyStands
<1>4. i <= j
    BY <1>3 DEF RowStands
<1>5. PICK a, b : a = e[k - 1] /\ b = e[k]
    OBVIOUS
<1>6. a \in 0 .. Len(s) + 1 /\ b \in 0 .. Len(s) + 1 /\ i = a + 1 /\ j = b - 1
    BY <1>2, <1>5
<1>7. i \in 1 .. Len(s) /\ j \in i .. Len(s) /\ i - 1 = a /\ j + 1 = b
    <2>1. PICK n \in Nat : n = Len(s)
        BY <1>0
    <2>2. a \in 0 .. n + 1 /\ b \in 0 .. n + 1
        BY <1>6, <2>1
    <2>3. i \in 1 .. n /\ j \in i .. n /\ i - 1 = a /\ j + 1 = b
        BY <1>4, <1>6, <2>2
    <2> QED
        BY <2>1, <2>3
<1> QED
    BY <1>3, <1>5, <1>7

\* The places of a body are those of the commas between rows and those of rows.
LEMMA CommasIncrease ==
    ASSUME NEW s \in Text, NEW columns, NEW rows, NEW e, BodyStands(s, columns, rows, 1, e)
    PROVE  /\ \A k, m \in 0 .. Len(rows) : k < m => e[k] < e[m]
           /\ \A x \in 1 .. Len(s) : \/ \E k \in 1 .. Len(rows) - 1 : x = e[k]
                                     \/ \E k \in 1 .. Len(rows) : x \in e[k - 1] + 1 .. e[k] - 1
<1> DEFINE n == Len(rows)
<1>0. Len(s) \in Nat
    BY DEF Text
<1>1. n \in Nat \ {0} /\ e \in [0 .. n -> Nat] /\ e[0] = 0 /\ e[n] = Len(s) + 1
    BY <1>0 DEF BodyStands
<1>2. \A k \in 1 .. n : e[k - 1] < e[k]
    <2> TAKE k \in 1 .. n
    <2>1. PICK i, j : i = e[k - 1] + 1 /\ j = e[k] - 1
        OBVIOUS
    <2>2. i \in 1 .. Len(s) /\ j \in i .. Len(s) /\ i - 1 = e[k - 1] /\ j + 1 = e[k]
        BY <2>1, RowPlaces
    <2>3. i - 1 < j + 1
        BY <1>0, <2>2
    <2> QED
        BY <2>2, <2>3
<1> HIDE DEF n
<1>3. \A k, m \in 0 .. n : k < m => e[k] < e[m]
    BY <1>1, <1>2, Increases
<1>4. ASSUME NEW x \in 1 .. Len(s)
      PROVE  \/ \E k \in 1 .. n - 1 : x = e[k]
             \/ \E k \in 1 .. n : x \in e[k - 1] + 1 .. e[k] - 1
    <2>1. x \in e[0] .. e[n] /\ x # e[0] /\ x # e[n]
        BY <1>0, <1>1
    <2>2. \/ \E k \in 0 .. n : x = e[k]
          \/ \E k \in 1 .. n : x \in e[k - 1] + 1 .. e[k] - 1
        BY <1>1, <2>1, Covers
    <2>3. \A k \in 0 .. n : k = 0 \/ k = n \/ k \in 1 .. n - 1
        BY <1>1
    <2> QED
        BY <2>1, <2>2, <2>3
<1> QED
    BY <1>3, <1>4 DEF n

RowSeen(s, i, j, columns) ==
    /\ Len(columns) = 1 => Quiet(s, i, j)
    /\ Len(columns) = 2 =>
          \E c \in i .. j : \A x \in i .. j : (s[x] = Colon /\ ~Scanned(s)[x].string) <=> x = c

\* What the loops see over a row: the colon of one of the universe, no other
\* delimiter of rows.
LEMMA RowScanned ==
    ASSUME NEW s \in Text, NEW i \in 1 .. Len(s), NEW j \in i .. Len(s), NEW columns \in ColumnTypes,
           NEW row, RowStands(s, i, j, columns, row),
           Scanned(s)[i - 1] = Outside, i = 1 \/ s[i - 1] # Backslash
    PROVE  RowSeen(s, i, j, columns) /\ Scanned(s)[j] = Outside
<1>1. CASE Len(columns) = 1
    BY <1>1, SetRowScanned DEF RowSeen
<1>2. CASE Len(columns) = 2
    <2>1. PICK c : KeyValue(s, i, j, columns, row, c)
        BY <1>2 DEF RowStands
    <2>2. c \in i .. j
        BY <2>1 DEF KeyValue, Text
    <2>3. /\ \A x \in i .. j : (s[x] = Colon /\ ~Scanned(s)[x].string) <=> x = c
          /\ Scanned(s)[j] = Outside
        BY <1>2, <2>1, UniverseRowScanned
    <2>4. \E a \in i .. j : \A x \in i .. j : (s[x] = Colon /\ ~Scanned(s)[x].string) <=> x = a
        BY ONLY Zenon, <2>2, <2>3
    <2>5. Len(columns) # 1
        BY <1>2
    <2> QED
        BY ONLY Zenon, <2>3, <2>4, <2>5 DEF RowSeen
<1> QED
    BY <1>1, <1>2, ColumnsTyped

BodySeen(s, columns, rows, e) ==
    /\ \A k \in 0 .. Len(rows) - 1 :
          Scanned(s)[e[k]] = Outside /\ (e[k] = 0 \/ s[e[k]] = Comma)
    /\ \A k \in 1 .. Len(rows) : RowSeen(s, e[k - 1] + 1, e[k] - 1, columns)

\* Between two rows the loops are outside of everything.
LEMMA BodyScanned ==
    ASSUME NEW s \in Text, NEW columns \in ColumnTypes, NEW rows, NEW e, BodyStands(s, columns, rows, 1, e)
    PROVE  BodySeen(s, columns, rows, e)
<1> DEFINE n == Len(rows)
           Here(k) == Scanned(s)[e[k]] = Outside /\ (e[k] = 0 \/ s[e[k]] = Comma)
           S == {k \in 0 .. n - 1 : Here(k)}
<1>0. Len(s) \in Nat /\ n \in Nat \ {0}
    BY DEF Text, BodyStands
<1>1. ASSUME NEW k \in 1 .. n, Here(k - 1)
      PROVE  /\ RowSeen(s, e[k - 1] + 1, e[k] - 1, columns)
             /\ Scanned(s)[e[k] - 1] = Outside
    <2>1. PICK i, j : i = e[k - 1] + 1 /\ j = e[k] - 1
        OBVIOUS
    <2>2. i \in 1 .. Len(s) /\ j \in i .. Len(s) /\ i - 1 = e[k - 1] /\ RowStands(s, i, j, columns, rows[k])
        BY <2>1, RowPlaces
    <2>3. Scanned(s)[i - 1] = Outside /\ (i = 1 \/ s[i - 1] # Backslash)
        <3>1. i - 1 = 0 => i = 1
            BY <1>0, <2>2
        <3> QED
            BY <1>1, <2>2, <3>1, SignAssumption
    <2>4. RowSeen(s, i, j, columns) /\ Scanned(s)[j] = Outside
        BY <2>2, <2>3, RowScanned
    <2> QED
        BY <2>1, <2>4
<1> HIDE DEF Here
<1>2. 0 \in S
    <2>1. e[0] = 0
        BY DEF BodyStands
    <2>2. Here(0)
        BY <2>1, FreshAtOnce DEF Here
    <2>3. 0 \in 0 .. n - 1
        BY <1>0
    <2> QED
        BY <2>2, <2>3
<1>3. ASSUME NEW k \in 1 .. n - 1, k - 1 \in S
      PROVE  k \in S
    <2>1. k \in 1 .. n /\ k # n /\ k \in 0 .. n - 1
        BY <1>0
    <2>2. Scanned(s)[e[k] - 1] = Outside
        BY <1>1, <1>3, <2>1
    <2>3. PICK x : x = e[k]
        OBVIOUS
    <2>4. x \in 1 .. Len(s) /\ s[x] = Comma
        BY <2>1, <2>3 DEF BodyStands
    <2>5. s[x] \notin {Quote, Open, Close}
        BY <2>4, SignAssumption
    <2>6. Scanned(s)[x] = Outside
        BY <2>2, <2>3, <2>4, <2>5, ScanToken
    <2>7. Here(k)
        BY <2>3, <2>4, <2>6 DEF Here
    <2> QED
        BY <2>1, <2>7
<1>4. \A k \in 0 .. n - 1 : k \in S
    <2>1. n - 1 \in Nat
        BY <1>0
    <2> HIDE DEF S, n
    <2> QED
        BY <1>2, <1>3, <2>1, Upward
<1>5. \A k \in 0 .. n - 1 : Here(k)
    BY <1>4
<1>6. \A k \in 1 .. n : RowSeen(s, e[k - 1] + 1, e[k] - 1, columns)
    <2> TAKE k \in 1 .. n
    <2>1. k - 1 \in 0 .. n - 1
        BY <1>0
    <2> QED
        BY <1>1, <1>5, <2>1
<1> HIDE DEF S
<1> QED
    BY <1>5, <1>6 DEF BodySeen, Here

\* As many colons are counted as the body of an insert into the universe has rows.
LEMMA UniverseCount ==
    ASSUME NEW s \in Text, NEW columns \in ColumnTypes, Len(columns) = 2, NEW rows, NEW e,
           BodyStands(s, columns, rows, 1, e)
    PROVE  count_delimiter(s, Colon) = Len(rows)
<1> DEFINE n == Len(rows)
           Seen(x) == s[x] = Colon /\ ~Scanned(s)[x].string
           S == {x \in 1 .. Len(s) : Seen(x)}
           ColonAt(k, c) == /\ c \in e[k - 1] + 1 .. e[k] - 1
                            /\ \A x \in e[k - 1] + 1 .. e[k] - 1 : Seen(x) <=> x = c
           f == [k \in 1 .. n |-> CHOOSE c : ColonAt(k, c)]
<1>0. Len(s) \in Nat /\ n \in Nat \ {0}
    BY DEF Text, BodyStands
<1>1. ASSUME NEW k \in 1 .. n
      PROVE  ColonAt(k, f[k])
    <2>1. RowSeen(s, e[k - 1] + 1, e[k] - 1, columns)
        BY BodyScanned DEF BodySeen
    <2>2. \E c : ColonAt(k, c)
        BY <2>1 DEF RowSeen
    <2> HIDE DEF ColonAt
    <2> QED
        BY <2>2
<1>2. ASSUME NEW k \in 1 .. n
      PROVE  f[k] \in S /\ e[k - 1] < f[k] /\ f[k] < e[k]
    <2> HIDE DEF f, n
    <2>1. PICK i, j : i = e[k - 1] + 1 /\ j = e[k] - 1
        OBVIOUS
    <2>2. i \in 1 .. Len(s) /\ j \in i .. Len(s) /\ i - 1 = e[k - 1] /\ j + 1 = e[k]
        BY <2>1, RowPlaces DEF n
    <2>3. PICK c : c = f[k]
        OBVIOUS
    <2>4. c \in i .. j /\ Seen(c)
        BY <1>1, <2>1, <2>3
    <2>5. c \in 1 .. Len(s) /\ i - 1 < c /\ c < j + 1
        BY <1>0, <2>2, <2>4
    <2> QED
        BY <2>2, <2>3, <2>4, <2>5
<1>3. \A k, m \in 0 .. n : k < m => e[k] < e[m]
    BY CommasIncrease
<1>4. \A k \in 0 .. n : e[k] \in Nat
    BY <1>0 DEF BodyStands
<1> HIDE DEF f, S
<1>5. ASSUME NEW a \in 1 .. n, NEW b \in 1 .. n, a < b
      PROVE  f[a] # f[b]
    <2>1. a \in 0 .. n /\ b - 1 \in 0 .. n /\ (a = b - 1 \/ a < b - 1)
        BY <1>0, <1>5
    <2>2. e[a] <= e[b - 1]
        BY <1>3, <1>4, <2>1
    <2>3. f[a] < e[a] /\ e[b - 1] < f[b] /\ f[a] \in Nat /\ f[b] \in Nat
        BY <1>0, <1>2 DEF S
    <2> QED
        BY <1>4, <2>1, <2>2, <2>3
<1>6. \A a, b \in 1 .. n : f[a] = f[b] => a = b
    <2>1. \A a, b \in 1 .. n : a = b \/ a < b \/ b < a
        BY <1>0
    <2> QED
        BY <1>5, <2>1
<1>7. ASSUME NEW x \in S
      PROVE  \E a \in 1 .. n : f[a] = x
    <2>1. x \in 1 .. Len(s) /\ Seen(x)
        BY DEF S
    <2>2. CASE \E k \in 1 .. n - 1 : x = e[k]
        <3>1. PICK k \in 1 .. n - 1 : x = e[k]
            BY <2>2
        <3>2. k \in 1 .. n /\ k # n
            BY <1>0
        <3>3. s[x] = Comma
            BY <3>1, <3>2 DEF BodyStands
        <3> QED
            BY <2>1, <3>3, SignAssumption
    <2>3. CASE \E k \in 1 .. n : x \in e[k - 1] + 1 .. e[k] - 1
        <3>1. PICK k \in 1 .. n : x \in e[k - 1] + 1 .. e[k] - 1
            BY <2>3
        <3>2. f[k] = x
            BY <1>1, <2>1, <3>1
        <3> QED
            BY <3>2
    <2> QED
        BY <2>1, <2>2, <2>3, CommasIncrease
<1>8. f \in [1 .. n -> S]
    BY <1>2 DEF f
<1> HIDE DEF n
<1>9. Cardinality(S) = n
    BY <1>0, <1>6, <1>7, <1>8, CountedOff
<1>10. count_delimiter(s, Colon) = Cardinality(S)
    BY DEF count_delimiter, S
<1> QED
    BY <1>9, <1>10 DEF n

\* As many commas between rows as the body of an insert into a set has rows, less one.
LEMMA SetCount ==
    ASSUME NEW s \in Text, NEW columns \in ColumnTypes, Len(columns) = 1, NEW rows, NEW e,
           BodyStands(s, columns, rows, 1, e)
    PROVE  count_delimiter_ignoring_parentheses_content(s, Comma) + 1 = Len(rows)
<1> DEFINE n == Len(rows)
           Seen(x) == s[x] = Comma /\ ~Scanned(s)[x].string /\ ~Scanned(s)[x].parentheses
           S == {x \in 1 .. Len(s) : Seen(x)}
<1>0. Len(s) \in Nat /\ n \in Nat \ {0}
    BY DEF Text, BodyStands
<1>1. PICK c : c = n - 1
    OBVIOUS
<1>2. c \in Nat /\ \A k \in 1 .. c : k \in 1 .. n /\ k # n /\ k \in 0 .. n - 1 /\ k \in 0 .. n
    BY <1>0, <1>1
<1> DEFINE f == [k \in 1 .. c |-> e[k]]
<1>3. \A k \in 1 .. c : f[k] \in S
    <2> TAKE k \in 1 .. c
    <2>1. e[k] \in 1 .. Len(s) /\ s[e[k]] = Comma
        BY <1>2 DEF BodyStands
    <2>2. Scanned(s)[e[k]] = Outside
        BY <1>2, BodyScanned DEF BodySeen
    <2>3. ~Scanned(s)[e[k]].string /\ ~Scanned(s)[e[k]].parentheses
        BY <2>2 DEF Outside
    <2> QED
        BY <2>1, <2>3
<1>4. \A a, b \in 1 .. c : f[a] = f[b] => a = b
    <2>1. \A k \in 0 .. n : e[k] \in Nat
        BY <1>0 DEF BodyStands
    <2>2. \A k, m \in 0 .. n : k < m => e[k] < e[m]
        BY CommasIncrease
    <2> HIDE DEF n
    <2>3. ASSUME NEW a \in 1 .. c, NEW b \in 1 .. c, a < b
          PROVE  f[a] # f[b]
        <3>1. e[a] < e[b] /\ e[a] \in Nat /\ e[b] \in Nat
            BY <1>2, <2>1, <2>2, <2>3
        <3> QED
            BY <3>1
    <2>4. \A a, b \in 1 .. c : a = b \/ a < b \/ b < a
        BY <1>2
    <2> HIDE DEF f
    <2> QED
        BY <2>3, <2>4
<1>5. ASSUME NEW x \in S
      PROVE  \E a \in 1 .. c : f[a] = x
    <2>1. x \in 1 .. Len(s) /\ Seen(x)
        OBVIOUS
    <2>2. CASE \E k \in 1 .. n - 1 : x = e[k]
        BY <1>1, <2>2
    <2>3. CASE \E k \in 1 .. n : x \in e[k - 1] + 1 .. e[k] - 1
        <3>1. PICK k \in 1 .. n : x \in e[k - 1] + 1 .. e[k] - 1
            BY <2>3
        <3>2. Quiet(s, e[k - 1] + 1, e[k] - 1)
            BY BodyScanned DEF BodySeen, RowSeen
        <3> QED
            BY <2>1, <3>1, <3>2 DEF Quiet
    <2> QED
        BY <2>1, <2>2, <2>3, CommasIncrease
<1>6. f \in [1 .. c -> S]
    BY <1>3
<1> HIDE DEF n, S, f
<1>7. Cardinality(S) = c
    BY <1>2, <1>4, <1>5, <1>6, CountedOff
<1>8. count_delimiter_ignoring_parentheses_content(s, Comma) = Cardinality(S)
    BY DEF count_delimiter_ignoring_parentheses_content, S
<1> QED
    BY <1>0, <1>1, <1>7, <1>8 DEF n

-----------------------------------------------------------------------------
(* So the rows of a body are read, all of them and nothing else.           *)

RowsOnly(parsed, rows) ==
    /\ rows \in Seq(Seq(Entry)) /\ Len(rows) > 0 /\ parsed.status = "ok"
    /\ parsed.keys = [k \in 1 .. Len(rows) |-> rows[k][1]]
    /\ parsed.values = [k \in 1 .. Len(rows) |-> rows[k][2]]
    /\ \A k \in 1 .. Len(rows) : rows[k] = <<rows[k][1], rows[k][2]>>

\* An insert into the universe that follows the grammar adds its rows.
LEMMA UniverseBodyRead ==
    ASSUME NEW s \in Text, NEW columns \in ColumnTypes, Len(columns) = 2,
           NEW rows \in BodyMeanings(s, columns),
           NEW parsed, parsed = parse_universe_insert_supp(s, columns[1], columns[2])
    PROVE  RowsOnly(parsed, rows)
<1>1. PICK e : BodyStands(s, columns, rows, 1, e)
    BY BodyCut
<1>2. PICK n \in Nat \ {0} : n = Len(rows) /\ n = count_delimiter(s, Colon)
    <2>1. Len(rows) \in Nat \ {0}
        BY <1>1 DEF BodyStands
    <2>2. Len(rows) = count_delimiter(s, Colon)
        BY <1>1, UniverseCount
    <2> QED
        BY <2>1, <2>2
<1>3. PICK row : row = UniverseRowsRead(s, n, columns[1], columns[2])
    OBVIOUS
<1>4. IsRead(row, n, s, columns[1], columns[2])
    <2>1. row = CHOOSE f : IsRead(f, n, s, columns[1], columns[2])
        BY <1>3 DEF UniverseRowsRead, IsRead, FirstRow
    <2> QED
        BY <2>1, ReadExists
<1>5. row[0] = FirstRow
    BY <1>4 DEF IsRead
<1>6. \A k \in 1 .. n : row[k] = NextRow(s, row[k - 1], columns[1], columns[2])
    BY <1>4 DEF IsRead
<1> DEFINE Whole(k) == row[k] = [status |-> "ok", cursor |-> e[k], key |-> rows[k][1],
                                 value |-> rows[k][2]]
           S == {k \in 0 .. n : (k = 0 \/ Whole(k))}
<1>7. ASSUME NEW k \in 1 .. n, k - 1 \in S
      PROVE  k \in S
    <2>1. PICK i, j : i = e[k - 1] + 1 /\ j = e[k] - 1
        OBVIOUS
    <2>2. /\ i \in 1 .. Len(s) /\ j \in i .. Len(s) /\ i - 1 = e[k - 1] /\ j + 1 = e[k]
          /\ RowStands(s, i, j, columns, rows[k])
        <3>1. k \in 1 .. Len(rows)
            BY <1>2
        <3> HIDE DEF S
        <3> QED
            BY <1>1, <2>1, <3>1, RowPlaces
    <2>3. PICK c : KeyValue(s, i, j, columns, rows[k], c)
        BY <2>2 DEF RowStands
    <2>4. PICK last, cursor : last = row[k - 1] /\ cursor = last.cursor
        OBVIOUS
    <2>5. /\ last.status = "ok" /\ cursor \in Nat \ {0}
          /\ cursor = i \/ (cursor + 1 = i /\ s[cursor] = Comma)
        <3>1. CASE k = 1
            <4>1. last = FirstRow
                BY <1>5, <2>4, <3>1
            <4>2. e[0] = 0
                BY <1>1 DEF BodyStands
            <4>3. last.status = "ok" /\ cursor = 1 /\ i = 1
                BY <2>1, <2>4, <3>1, <4>1, <4>2 DEF FirstRow
            <4> QED
                BY <4>3
        <3>2. CASE k # 1
            <4>1. k - 1 # 0 /\ k - 1 \in 1 .. n /\ k - 1 # n
                BY <3>2
            <4>2. last = [status |-> "ok", cursor |-> e[k - 1], key |-> rows[k - 1][1],
                          value |-> rows[k - 1][2]]
                BY <1>7, <2>4, <4>1
            <4>3. last.status = "ok" /\ cursor = e[k - 1]
                BY <2>4, <4>2
            <4>4. s[cursor] = Comma /\ cursor \in 1 .. Len(s)
                BY <1>1, <1>2, <4>1, <4>3 DEF BodyStands
            <4> QED
                BY <2>1, <4>3, <4>4
        <3> QED
            BY <3>1, <3>2
    <2>6. NextRow(s, last, columns[1], columns[2])
             = [status |-> "ok", cursor |-> j + 1, key |-> rows[k][1], value |-> rows[k][2]]
        <3>1. PICK r : r = rows[k]
            OBVIOUS
        <3>2. KeyValue(s, i, j, columns, r, c)
            BY <2>3, <3>1
        <3>3. i \in 1 .. Len(s) /\ j \in i .. Len(s)
            BY <2>2
        <3>4. EndsBefore(last, s, i)
            BY <2>4, <2>5 DEF EndsBefore
        <3> HIDE DEF S
        <3>5. NextIs(last, s, columns, j, r)
            BY <3>2, <3>3, <3>4, UniverseRowTaken
        <3> QED
            BY <3>1, <3>5 DEF NextIs
    <2>7. Whole(k)
        BY <1>6, <2>2, <2>4, <2>6
    <2> QED
        BY <2>7
<1>8. 0 \in S
    OBVIOUS
<1> HIDE DEF S
<1>9. \A k \in 0 .. n : k \in S
    BY <1>7, <1>8, Upward
<1>10. \A k \in 1 .. n : Whole(k)
    <2>1. \A k \in 1 .. n : k \in 0 .. n /\ k # 0
        OBVIOUS
    <2> QED
        BY <1>9, <2>1 DEF S
<1>11. \A k \in 1 .. n : /\ row[k].status = "ok" /\ row[k].key = rows[k][1]
                         /\ row[k].value = rows[k][2]
    <2> TAKE k \in 1 .. n
    <2>1. row[k] = [status |-> "ok", cursor |-> e[k], key |-> rows[k][1], value |-> rows[k][2]]
        BY <1>10
    <2> QED
        BY <2>1
<1>12. parsed = [status |-> row[n].status, keys |-> [k \in 1 .. n |-> row[k].key],
                 values |-> [k \in 1 .. n |-> row[k].value]]
    BY <1>2, <1>3 DEF parse_universe_insert_supp
<1>13. n \in 1 .. n
    OBVIOUS
<1> HIDE DEF Whole
<1>14. rows \in Seq(Seq(Entry)) /\ Len(rows) > 0
    BY <1>1 DEF BodyStands
<1>15. \A k \in 1 .. Len(rows) : rows[k] \in Seq(Entry) /\ Len(rows[k]) = 2
    BY <1>1, <1>14 DEF BodyStands, RowStands
<1>16. \A k \in 1 .. Len(rows) : rows[k] = <<rows[k][1], rows[k][2]>>
    BY <1>15
<1> QED
    BY <1>2, <1>11, <1>12, <1>13, <1>14, <1>16 DEF RowsOnly

\* An insert into a set that follows the grammar adds its members, if there is room.
LEMMA SetBodyRead ==
    ASSUME NEW s \in Text, NEW columns \in ColumnTypes, Len(columns) = 1,
           NEW rows \in BodyMeanings(s, columns), NEW before \in Nat, NEW room \in Nat,
           NEW parsed, parsed = parse_set_insert_supp(s, columns[1], before, room)
    PROVE  /\ rows \in Seq(Seq(Entry)) /\ Len(rows) > 0 /\ parsed.status \in {"ok", "overfull"}
           /\ parsed.status = "ok" => parsed.keys = [k \in 1 .. Len(rows) |-> rows[k][1]]
           /\ before + Len(rows) <= room => parsed.status = "ok"
<1>1. PICK e : BodyStands(s, columns, rows, 1, e)
    BY BodyCut
<1>2. PICK n \in Nat \ {0} :
         n = Len(rows) /\ n = count_delimiter_ignoring_parentheses_content(s, Comma) + 1
    <2>1. Len(rows) \in Nat \ {0}
        BY <1>1 DEF BodyStands
    <2>2. Len(rows) = count_delimiter_ignoring_parentheses_content(s, Comma) + 1
        BY <1>1, SetCount
    <2> QED
        BY <2>1, <2>2
<1>3. PICK row : row = SetRowsRead(s, n, columns[1], before, room)
    OBVIOUS
<1>4. IsSetRead(row, n, s, columns[1], before, room)
    <2>1. row = CHOOSE f : IsSetRead(f, n, s, columns[1], before, room)
        BY <1>3 DEF SetRowsRead, IsSetRead, FirstMember, NextMember
    <2> QED
        BY <2>1, SetReadExists
<1>5. row[0] = FirstMember(n, room)
    BY <1>4 DEF IsSetRead
<1>6. \A k \in 1 .. n : row[k] = NextMember(s, row[k - 1], columns[1], before + k, room)
    BY <1>4 DEF IsSetRead
<1> DEFINE Refused(k) == row[k].status = "overfull" /\ ~(before + n <= room)
           Added(k) == /\ row[k].status = "ok" /\ row[k].cursor = (IF k = 0 THEN 1 ELSE e[k])
                        /\ \A m \in 1 .. k : row[m].key = rows[m][1]
           S == {k \in 0 .. n : Refused(k) \/ Added(k)}
<1>7. ASSUME NEW k \in 1 .. n, k - 1 \in S
      PROVE  k \in S
    <2>1. PICK i, j : i = e[k - 1] + 1 /\ j = e[k] - 1
        OBVIOUS
    <2>2. /\ i \in 1 .. Len(s) /\ j \in i .. Len(s) /\ i - 1 = e[k - 1] /\ j + 1 = e[k]
          /\ RowStands(s, i, j, columns, rows[k])
        <3>1. k \in 1 .. Len(rows)
            BY <1>2
        <3> HIDE DEF S
        <3> QED
            BY <1>1, <2>1, <3>1, RowPlaces
    <2>3. PICK last, cursor : last = row[k - 1] /\ cursor = last.cursor
        OBVIOUS
    <2>4. row[k] = NextMember(s, last, columns[1], before + k, room)
        BY <1>6, <2>3
    <2>5. CASE Refused(k - 1)
        <3>1. last.status = "overfull"
            BY <2>3, <2>5
        <3>2. row[k] = last
            BY <2>4, <3>1 DEF NextMember
        <3>3. Refused(k)
            BY <2>5, <3>1, <3>2
        <3> QED
            BY <3>3
    <2>6. CASE Added(k - 1)
        <3>1. last.status = "ok" /\ cursor = (IF k - 1 = 0 THEN 1 ELSE e[k - 1])
            BY <2>3, <2>6
        <3>2. cursor \in Nat \ {0} /\ (cursor = i \/ (cursor + 1 = i /\ s[cursor] = Comma))
            <4>1. CASE k = 1
                <5>1. e[0] = 0
                    BY <1>1 DEF BodyStands
                <5>2. cursor = 1 /\ i = 1
                    BY <2>1, <3>1, <4>1, <5>1
                <5> QED
                    BY <5>2
            <4>2. CASE k # 1
                <5>1. k - 1 # 0 /\ k - 1 \in 1 .. n /\ k - 1 # n
                    BY <4>2
                <5>2. cursor = e[k - 1]
                    BY <3>1, <5>1
                <5>3. s[cursor] = Comma /\ cursor \in 1 .. Len(s)
                    BY <1>1, <1>2, <5>1, <5>2 DEF BodyStands
                <5> QED
                    BY <2>1, <5>2, <5>3
            <4> QED
                BY <4>1, <4>2
        <3>3. row[k] = SetRow(TakeGroup(s, cursor), columns[1], before + k, room)
            BY <2>3, <2>4, <3>1 DEF NextMember
        <3>4. row[k] = IF Overfull(before + k, room) THEN SetMember(NotParsed("overfull"), j + 1)
                       ELSE SetMember(Success(rows[k][1]), j + 1)
            <4>1. PICK m : m = before + k
                OBVIOUS
            <4>2. SetRow(TakeGroup(s, cursor), columns[1], m, room)
                     = IF Overfull(m, room) THEN SetMember(NotParsed("overfull"), j + 1)
                       ELSE SetMember(Success(rows[k][1]), j + 1)
                BY <2>2, <3>2, SetRowTaken
            <4> QED
                BY <3>3, <4>1, <4>2
        <3>5. CASE Overfull(before + k, room)
            <4>1. row[k].status = "overfull"
                BY <3>4, <3>5 DEF SetMember, NotParsed
            <4>2. ~(before + n <= room)
                BY <3>5 DEF Overfull
            <4> QED
                BY <4>1, <4>2
        <3>6. CASE ~Overfull(before + k, room)
            <4>1. row[k].status = "ok" /\ row[k].cursor = e[k] /\ row[k].key = rows[k][1]
                BY <2>2, <3>4, <3>6 DEF SetMember, Success
            <4>2. \A m \in 1 .. k : m = k \/ m \in 1 .. k - 1
                OBVIOUS
            <4>3. \A m \in 1 .. k : row[m].key = rows[m][1]
                BY <2>6, <4>1, <4>2
            <4>4. Added(k)
                BY <4>1, <4>3
            <4> QED
                BY <4>4
        <3> QED
            BY <3>5, <3>6
    <2> QED
        BY <1>7, <2>5, <2>6
<1>8. 0 \in S
    <2>1. CASE Overfull(n, room)
        <3>1. row[0].status = "overfull"
            BY <1>5, <2>1 DEF FirstMember, SetMember, NotParsed
        <3>2. ~(before + n <= room)
            BY <2>1 DEF Overfull
        <3> QED
            BY <3>1, <3>2
    <2>2. CASE ~Overfull(n, room)
        <3>1. row[0].status = "ok" /\ row[0].cursor = 1
            BY <1>5, <2>2 DEF FirstMember, SetMember, NotParsed
        <3> QED
            BY <3>1
    <2> QED
        BY <2>1, <2>2
<1> HIDE DEF S
<1>9. \A k \in 0 .. n : k \in S
    BY <1>7, <1>8, Upward
<1>10. Refused(n) \/ Added(n)
    <2>1. n \in 0 .. n
        OBVIOUS
    <2> QED
        BY <1>9, <2>1 DEF S
<1>11. parsed = [status |-> row[n].status, keys |-> [k \in 1 .. n |-> row[k].key]]
    BY <1>2, <1>3 DEF parse_set_insert_supp
<1>12. rows \in Seq(Seq(Entry)) /\ Len(rows) > 0
    BY <1>1 DEF BodyStands
<1>13. parsed.status \in {"ok", "overfull"} /\ (before + n <= room => parsed.status = "ok")
    BY <1>10, <1>11
<1>14. ASSUME parsed.status = "ok"
       PROVE  parsed.keys = [k \in 1 .. Len(rows) |-> rows[k][1]]
    <2>1. Added(n)
        BY <1>10, <1>11, <1>14
    <2>2. parsed.keys = [k \in 1 .. n |-> row[k].key]
        BY <1>11
    <2> QED
        BY <1>2, <2>1, <2>2
<1> QED
    BY <1>2, <1>12, <1>13, <1>14

-----------------------------------------------------------------------------
(* What the statements of a file insert and create.                        *)

ColumnsOf(st, K, A) == IF IsUniverseInsert(st) THEN <<K, A>> ELSE <<K>>

Follows(st, K, A) == st.kind = "INSERT" => BodyMeanings(st.body, ColumnsOf(st, K, A)) # {}

StatementRows(st, K, A) == CHOOSE rows \in BodyMeanings(st.body, ColumnsOf(st, K, A)) : TRUE

GoodFile(f, K, A) ==
    /\ Len(f) \in Nat /\ K \in TypeList /\ A \in TypeList
    /\ \A k \in 1 .. Len(f) : IsStatement(f[k]) /\ Follows(f[k], K, A)

IsInto(st, name) == st.kind = "INSERT" /\ st.into = name

Grown(st, K, A, name, before) ==
    IF IsInto(st, name) THEN before \o StatementRows(st, K, A) ELSE before

IsInserted(u, f, K, A, name) ==
    u = [k \in 0 .. Len(f) |-> IF k = 0 THEN <<>> ELSE Grown(f[k], K, A, name, u[k - 1])]

InsertedIn(f, K, A, name) == CHOOSE u : IsInserted(u, f, K, A, name)

Named(st, before) == IF st.kind = "SET" THEN Append(before, st.name) ELSE before

IsCreated(u, f) == u = [k \in 0 .. Len(f) |-> IF k = 0 THEN <<>> ELSE Named(f[k], u[k - 1])]

CreatedIn(f) == CHOOSE u : IsCreated(u, f)

SeqRows == Seq(Seq(Entry))

\* The rows of an insert that follows the grammar are a meaning of its body.
LEMMA StatementFollows ==
    ASSUME NEW st, IsStatement(st), st.kind = "INSERT", NEW K \in TypeList, NEW A \in TypeList,
           Follows(st, K, A)
    PROVE  /\ st.body \in Text /\ ColumnsOf(st, K, A) \in ColumnTypes
           /\ StatementRows(st, K, A) \in BodyMeanings(st.body, ColumnsOf(st, K, A))
           /\ StatementRows(st, K, A) \in SeqRows
<1>1. st.body \in Text
    BY BodyIsText
<1>2. ColumnsOf(st, K, A) \in ColumnTypes
    BY DEF ColumnsOf, ColumnTypes
<1>3. StatementRows(st, K, A) \in BodyMeanings(st.body, ColumnsOf(st, K, A))
    BY DEF Follows, StatementRows
<1>4. StatementRows(st, K, A) \in SeqRows
    <2>1. PICK s, columns : s = st.body /\ columns = ColumnsOf(st, K, A)
        OBVIOUS
    <2>2. PICK rows : rows = StatementRows(st, K, A)
        OBVIOUS
    <2>3. \E e : BodyStands(s, columns, rows, 1, e)
        BY <1>1, <1>2, <1>3, <2>1, <2>2, BodyCut
    <2> QED
        BY <2>2, <2>3 DEF BodyStands, SeqRows
<1> QED
    BY <1>1, <1>2, <1>3, <1>4

\* Rows are added by one statement after the other.
LEMMA InsertedUpto ==
    ASSUME NEW f, NEW K, NEW A, GoodFile(f, K, A), NEW name
    PROVE  /\ InsertedIn(f, K, A, name)[0] = <<>>
           /\ \A k \in 1 .. Len(f) :
                 InsertedIn(f, K, A, name)[k] = Grown(f[k], K, A, name, InsertedIn(f, K, A, name)[k - 1])
           /\ \A k \in 0 .. Len(f) : InsertedIn(f, K, A, name)[k] \in SeqRows
<1> DEFINE n == Len(f)
           step == [p \in (1 .. n) \X SeqRows |-> Grown(f[p[1]], K, A, name, p[2])]
<1>0. n \in Nat
    BY DEF GoodFile
<1>1. ASSUME NEW k \in 1 .. n, NEW a \in SeqRows
      PROVE  Grown(f[k], K, A, name, a) \in SeqRows
    <2>1. CASE IsInto(f[k], name)
        <3>1. PICK st : st = f[k]
            OBVIOUS
        <3>2. IsStatement(st) /\ st.kind = "INSERT" /\ K \in TypeList /\ A \in TypeList /\ Follows(st, K, A)
            BY <2>1, <3>1 DEF GoodFile, IsInto
        <3>3. StatementRows(st, K, A) \in SeqRows
            BY <3>2, StatementFollows
        <3>4. a \o StatementRows(st, K, A) \in SeqRows
            BY <3>3 DEF SeqRows
        <3> QED
            BY <2>1, <3>1, <3>4 DEF Grown
    <2>2. CASE ~IsInto(f[k], name)
        BY <2>2 DEF Grown
    <2> QED
        BY <2>1, <2>2
<1>2. <<>> \in SeqRows
    BY DEF SeqRows
<1>3. step \in [(1 .. n) \X SeqRows -> SeqRows]
    BY <1>1
<1>4. \A i \in 1 .. n, a \in SeqRows : step[<<i, a>>] = Grown(f[i], K, A, name, a)
    OBVIOUS
<1> HIDE DEF n, step
<1>5. PICK u \in [0 .. n -> SeqRows] : Stepped(u, n, <<>>, step)
    BY <1>0, <1>2, <1>3, PrefixRecursion
<1>6. \A i \in 1 .. n : u[i] = Grown(f[i], K, A, name, u[i - 1])
    <2> TAKE i \in 1 .. n
    <2>1. i - 1 \in 0 .. n
        BY <1>0
    <2>2. u[i - 1] \in SeqRows
        BY <2>1
    <2> QED
        BY <1>4, <1>5, <2>2 DEF Stepped
<1>7. IsInserted(u, f, K, A, name)
    <2>1. \A i \in 0 .. n : u[i] = IF i = 0 THEN <<>> ELSE Grown(f[i], K, A, name, u[i - 1])
        <3> TAKE i \in 0 .. n
        <3>1. i = 0 \/ i \in 1 .. n
            BY <1>0
        <3> QED
            BY <1>0, <1>5, <1>6, <3>1 DEF Stepped
    <2>2. u = [i \in 0 .. n |-> u[i]]
        OBVIOUS
    <2> QED
        BY <2>1, <2>2 DEF IsInserted, n
<1>8. PICK g : g = InsertedIn(f, K, A, name)
    OBVIOUS
<1>9. IsInserted(g, f, K, A, name)
    BY <1>7, <1>8 DEF InsertedIn
<1>10. /\ g[0] = <<>>
       /\ \A i \in 1 .. n : g[i] = Grown(f[i], K, A, name, g[i - 1])
    <2>1. \A i \in 0 .. n : g[i] = IF i = 0 THEN <<>> ELSE Grown(f[i], K, A, name, g[i - 1])
        BY <1>9 DEF IsInserted, n
    <2>2. \A i \in 1 .. n : i \in 0 .. n /\ i # 0
        BY <1>0
    <2>3. 0 \in 0 .. n
        BY <1>0
    <2> QED
        BY <2>1, <2>2, <2>3
<1> DEFINE S == {k \in 0 .. n : g[k] \in SeqRows}
<1>11. 0 \in S
    BY <1>0, <1>2, <1>10
<1>12. ASSUME NEW k \in 1 .. n, k - 1 \in S
       PROVE  k \in S
    BY <1>1, <1>10, <1>12
<1> HIDE DEF S
<1>13. \A k \in 0 .. n : k \in S
    BY <1>0, <1>11, <1>12, Upward
<1> QED
    BY <1>8, <1>10, <1>13 DEF n, S

NoneInto(f, name, first, last) == \A j \in first .. last : ~IsInto(f[j], name)

\* Statements that are no insert under the name add nothing.
LEMMA InsertedSame ==
    ASSUME NEW f, NEW K, NEW A, GoodFile(f, K, A), NEW name, NEW m \in 0 .. Len(f),
           NEW k \in m .. Len(f), NoneInto(f, name, m + 1, k)
    PROVE  InsertedIn(f, K, A, name)[k] = InsertedIn(f, K, A, name)[m]
<1> DEFINE n == Len(f)
           S == {j \in 0 .. n : j \in m .. k => InsertedIn(f, K, A, name)[j] = InsertedIn(f, K, A, name)[m]}
<1>0. n \in Nat
    BY DEF GoodFile
<1>1. 0 \in S
    BY <1>0
<1>2. ASSUME NEW j \in 1 .. n, j - 1 \in S
      PROVE  j \in S
    <2>1. SUFFICES ASSUME j \in m .. k, j # m
                   PROVE  InsertedIn(f, K, A, name)[j] = InsertedIn(f, K, A, name)[m]
        BY <1>0
    <2>2. j \in m + 1 .. k /\ j - 1 \in m .. k
        BY <1>0, <2>1
    <2>3. InsertedIn(f, K, A, name)[j - 1] = InsertedIn(f, K, A, name)[m]
        BY <1>2, <2>2
    <2>4. ~IsInto(f[j], name)
        BY <2>2 DEF NoneInto
    <2>5. InsertedIn(f, K, A, name)[j] = Grown(f[j], K, A, name, InsertedIn(f, K, A, name)[j - 1])
        BY InsertedUpto
    <2> QED
        BY <2>3, <2>4, <2>5 DEF Grown
<1> HIDE DEF S
<1>3. \A j \in 0 .. n : j \in S
    <2> HIDE DEF n
    <2> QED
        BY <1>0, <1>1, <1>2, Upward
<1>4. k \in S /\ k \in m .. k
    BY <1>0, <1>3
<1> QED
    BY <1>4 DEF S

\* No statement takes rows away.
LEMMA InsertedMore ==
    ASSUME NEW f, NEW K, NEW A, GoodFile(f, K, A), NEW name, NEW m \in 0 .. Len(f), NEW k \in m .. Len(f)
    PROVE  Len(InsertedIn(f, K, A, name)[m]) <= Len(InsertedIn(f, K, A, name)[k])
<1> DEFINE n == Len(f)
           I == InsertedIn(f, K, A, name)
           S == {j \in 0 .. n : j >= m => Len(I[m]) <= Len(I[j])}
<1>0. n \in Nat
    BY DEF GoodFile
<1>1. \A j \in 0 .. n : I[j] \in SeqRows
    BY InsertedUpto
<1>2. \A j \in 0 .. n : Len(I[j]) \in Nat
    BY <1>1 DEF SeqRows
<1>3. 0 \in S
    <2>1. 0 \in 0 .. n /\ (0 >= m => m = 0)
        BY <1>0
    <2> HIDE DEF I
    <2>2. Len(I[0]) <= Len(I[0])
        BY <1>2, <2>1
    <2> QED
        BY <2>1, <2>2
<1>4. ASSUME NEW j \in 1 .. n, j - 1 \in S
      PROVE  j \in S
    <2>1. I[j] = Grown(f[j], K, A, name, I[j - 1])
        BY InsertedUpto
    <2>2. j - 1 \in 0 .. n /\ j \in 0 .. n
        BY <1>0
    <2>3. Len(I[j - 1]) <= Len(I[j])
        <3>1. CASE IsInto(f[j], name)
            <4>1. PICK st : st = f[j]
                OBVIOUS
            <4>2. IsStatement(st) /\ st.kind = "INSERT" /\ K \in TypeList /\ A \in TypeList /\ Follows(st, K, A)
                BY <3>1, <4>1 DEF GoodFile, IsInto
            <4>3. StatementRows(st, K, A) \in SeqRows
                BY <4>2, StatementFollows
            <4>4. I[j] = I[j - 1] \o StatementRows(st, K, A)
                BY <2>1, <3>1, <4>1 DEF Grown
            <4>5. PICK a, b : a = I[j - 1] /\ b = StatementRows(st, K, A)
                OBVIOUS
            <4>6. a \in SeqRows /\ b \in SeqRows
                BY <1>1, <2>2, <4>3, <4>5
            <4>7. Len(a) <= Len(a \o b)
                BY <4>6 DEF SeqRows
            <4> QED
                BY <4>4, <4>5, <4>7
        <3>2. CASE ~IsInto(f[j], name)
            <4>1. I[j] = I[j - 1]
                BY <2>1, <3>2 DEF Grown
            <4> HIDE DEF I
            <4> QED
                BY <1>2, <2>2, <4>1
        <3> QED
            BY <3>1, <3>2
    <2> HIDE DEF I
    <2>4. j >= m => j = m \/ j - 1 >= m
        BY <1>0
    <2>5. m \in 0 .. n
        OBVIOUS
    <2>6. Len(I[m]) \in Nat /\ Len(I[j]) \in Nat /\ Len(I[j - 1]) \in Nat
        BY <1>2, <2>2, <2>5
    <2> QED
        BY <1>4, <2>2, <2>3, <2>4, <2>6
<1> HIDE DEF S
<1>5. \A j \in 0 .. n : j \in S
    <2> HIDE DEF n
    <2> QED
        BY <1>0, <1>3, <1>4, Upward
<1>6. k \in S /\ k >= m
    BY <1>0, <1>5
<1> QED
    BY <1>6 DEF S

NamesIn(f) == {f[k].name : k \in {k \in 1 .. Len(f) : f[k].kind = "SET"}}

\* Sets are created by one statement after the other.
LEMMA CreatedUpto ==
    ASSUME NEW f, Len(f) \in Nat
    PROVE  /\ CreatedIn(f)[0] = <<>>
           /\ \A k \in 1 .. Len(f) : CreatedIn(f)[k] = Named(f[k], CreatedIn(f)[k - 1])
           /\ \A k \in 0 .. Len(f) : CreatedIn(f)[k] \in Seq(NamesIn(f))
<1> DEFINE n == Len(f)
           V == Seq(NamesIn(f))
           step == [p \in (1 .. n) \X V |-> Named(f[p[1]], p[2])]
<1>1. ASSUME NEW k \in 1 .. n, NEW a \in V
      PROVE  Named(f[k], a) \in V
    <2>1. CASE f[k].kind = "SET"
        <3>1. f[k].name \in NamesIn(f)
            BY <2>1 DEF NamesIn
        <3> QED
            BY <2>1, <3>1 DEF Named
    <2>2. CASE f[k].kind # "SET"
        BY <2>2 DEF Named
    <2> QED
        BY <2>1, <2>2
<1>2. <<>> \in V
    OBVIOUS
<1> HIDE DEF V
<1>3. step \in [(1 .. n) \X V -> V]
    BY <1>1
<1>4. \A i \in 1 .. n, a \in V : step[<<i, a>>] = Named(f[i], a)
    OBVIOUS
<1> HIDE DEF n, step
<1>0. n \in Nat
    BY DEF n
<1>5. PICK u \in [0 .. n -> V] : Stepped(u, n, <<>>, step)
    BY <1>0, <1>2, <1>3, PrefixRecursion
<1>6. \A i \in 1 .. n : u[i] = Named(f[i], u[i - 1])
    <2> TAKE i \in 1 .. n
    <2>1. i - 1 \in 0 .. n
        BY <1>0
    <2>2. u[i - 1] \in V
        BY <2>1
    <2> QED
        BY <1>4, <1>5, <2>2 DEF Stepped
<1>7. IsCreated(u, f)
    <2>1. \A i \in 0 .. n : u[i] = IF i = 0 THEN <<>> ELSE Named(f[i], u[i - 1])
        <3> TAKE i \in 0 .. n
        <3>1. i = 0 \/ i \in 1 .. n
            BY <1>0
        <3> QED
            BY <1>0, <1>5, <1>6, <3>1 DEF Stepped
    <2>2. u = [i \in 0 .. n |-> u[i]]
        OBVIOUS
    <2> QED
        BY <2>1, <2>2 DEF IsCreated, n
<1>8. PICK g : g = CreatedIn(f)
    OBVIOUS
<1>9. IsCreated(g, f)
    BY <1>7, <1>8 DEF CreatedIn
<1>10. /\ g[0] = <<>>
       /\ \A i \in 1 .. n : g[i] = Named(f[i], g[i - 1])
    <2>1. \A i \in 0 .. n : g[i] = IF i = 0 THEN <<>> ELSE Named(f[i], g[i - 1])
        BY <1>9 DEF IsCreated, n
    <2>2. \A i \in 1 .. n : i \in 0 .. n /\ i # 0
        BY <1>0
    <2>3. 0 \in 0 .. n
        BY <1>0
    <2> QED
        BY <2>1, <2>2, <2>3
<1> DEFINE S == {k \in 0 .. n : g[k] \in V}
<1>11. 0 \in S
    BY <1>0, <1>2, <1>10
<1>12. ASSUME NEW k \in 1 .. n, k - 1 \in S
       PROVE  k \in S
    BY <1>1, <1>10, <1>12 DEF n
<1> HIDE DEF S
<1>13. \A k \in 0 .. n : k \in S
    BY <1>0, <1>11, <1>12, Upward
<1> QED
    BY <1>8, <1>10, <1>13 DEF n, S, V

NamesAgree(f, c, k) ==
    /\ \A j \in 1 .. k : f[j].kind = "SET" => \E i \in 1 .. Len(c) : c[i] = f[j].name
    /\ \A i \in 1 .. Len(c) : \E j \in 1 .. k : f[j].kind = "SET" /\ f[j].name = c[i]

\* The created sets are those of the statements.
LEMMA CreatedNames ==
    ASSUME NEW f, Len(f) \in Nat, NEW k \in 0 .. Len(f)
    PROVE  NamesAgree(f, CreatedIn(f)[k], k)
<1> DEFINE n == Len(f)
           C == CreatedIn(f)
           S == {j \in 0 .. n : NamesAgree(f, C[j], j)}
<1>1. 0 \in S
    BY CreatedUpto DEF NamesAgree
<1>2. ASSUME NEW j \in 1 .. n, j - 1 \in S
      PROVE  j \in S
    <2>1. PICK a, b : a = C[j - 1] /\ b = C[j]
        OBVIOUS
    <2>2. /\ b = Named(f[j], a) /\ a \in Seq(NamesIn(f))
        <3>1. j - 1 \in 0 .. n
            OBVIOUS
        <3> QED
            BY <2>1, <3>1, CreatedUpto
    <2>3. NamesAgree(f, a, j - 1)
        BY <1>2, <2>1
    <2>4. \A i \in 1 .. j : i = j \/ i \in 1 .. j - 1
        OBVIOUS
    <2>5. \A i \in 1 .. j - 1 : i \in 1 .. j
        OBVIOUS
    <2>6. NamesAgree(f, b, j)
        <3>1. CASE f[j].kind = "SET"
            <4>1. /\ Len(b) = Len(a) + 1 /\ b[Len(a) + 1] = f[j].name /\ Len(a) \in Nat
                  /\ \A i \in 1 .. Len(a) : b[i] = a[i]
                BY <2>2, <3>1 DEF Named
            <4>2. \A i \in 1 .. Len(b) : i = Len(b) \/ i \in 1 .. Len(a)
                BY <4>1
            <4>3. \A i \in 1 .. Len(a) : i \in 1 .. Len(b)
                BY <4>1
            <4>4. Len(b) \in 1 .. Len(b) /\ b[Len(b)] = f[j].name
                BY <4>1
            <4>5. \A i \in 1 .. j : f[i].kind = "SET" => \E m \in 1 .. Len(b) : b[m] = f[i].name
                <5> SUFFICES ASSUME NEW i \in 1 .. j, f[i].kind = "SET"
                             PROVE  \E m \in 1 .. Len(b) : b[m] = f[i].name
                    OBVIOUS
                <5>1. CASE i = j
                    BY <4>4, <5>1
                <5>2. CASE i \in 1 .. j - 1
                    <6>1. PICK m \in 1 .. Len(a) : a[m] = f[i].name
                        BY <2>3, <5>2 DEF NamesAgree
                    <6> QED
                        BY <4>1, <4>3, <6>1
                <5> QED
                    BY <2>4, <5>1, <5>2
            <4>6. \A m \in 1 .. Len(b) : \E i \in 1 .. j : f[i].kind = "SET" /\ f[i].name = b[m]
                <5> TAKE m \in 1 .. Len(b)
                <5>1. CASE m = Len(b)
                    BY <3>1, <4>4, <5>1
                <5>2. CASE m \in 1 .. Len(a)
                    <6>1. PICK i \in 1 .. j - 1 : f[i].kind = "SET" /\ f[i].name = a[m]
                        BY <2>3, <5>2 DEF NamesAgree
                    <6>2. i \in 1 .. j /\ f[i].name = b[m]
                        BY <4>1, <5>2, <6>1
                    <6> QED
                        BY <6>1, <6>2
                <5> QED
                    BY <4>2, <5>1, <5>2
            <4> QED
                BY <4>5, <4>6 DEF NamesAgree
        <3>2. CASE f[j].kind # "SET"
            <4>1. b = a
                BY <2>2, <3>2 DEF Named
            <4> QED
                BY <2>3, <2>4, <2>5, <3>2, <4>1 DEF NamesAgree
        <3> QED
            BY <3>1, <3>2
    <2> QED
        BY <2>1, <2>6
<1> HIDE DEF S
<1>3. \A j \in 0 .. n : j \in S
    <2>1. n \in Nat
        OBVIOUS
    <2> HIDE DEF n
    <2> QED
        BY <1>1, <1>2, <2>1, Upward
<1> QED
    BY <1>3 DEF S

\* Statements that create no set add no name.
LEMMA NothingCreated ==
    ASSUME NEW f, Len(f) \in Nat, NEW k \in 0 .. Len(f), \A j \in 1 .. k : f[j].kind # "SET"
    PROVE  CreatedIn(f)[k] = <<>>
<1>1. NamesAgree(f, CreatedIn(f)[k], k)
    BY CreatedNames
<1>2. PICK c : c = CreatedIn(f)[k]
    OBVIOUS
<1>3. c \in Seq(NamesIn(f))
    BY <1>2, CreatedUpto
<1>4. Len(c) \in Nat /\ \A i \in 1 .. Len(c) : FALSE
    BY <1>1, <1>2, <1>3 DEF NamesAgree
<1>5. Len(c) = 0
    BY <1>4
<1> QED
    BY <1>2, <1>3, <1>5

\* What stands in one column of rows.
Column(rows, d) == [m \in 1 .. Len(rows) |-> rows[m][d]]

\* A column of the rows of two inserts, one behind the other.
LEMMA ColumnsJoined ==
    ASSUME NEW a \in SeqRows, NEW b \in SeqRows, NEW d
    PROVE  Column(a \o b, d) = Column(a, d) \o Column(b, d)
<1>1. PICK c, x, y : c = a \o b /\ x = Column(a, d) /\ y = Column(b, d)
    OBVIOUS
<1>2. /\ Len(c) = Len(a) + Len(b) /\ Len(a) \in Nat /\ Len(b) \in Nat
      /\ \A m \in 1 .. Len(c) : c[m] = IF m <= Len(a) THEN a[m] ELSE b[m - Len(a)]
    BY <1>1 DEF SeqRows
<1> DEFINE V == {a[m][d] : m \in 1 .. Len(a)} \cup {b[m][d] : m \in 1 .. Len(b)}
<1>3. x \in Seq(V) /\ y \in Seq(V) /\ Len(x) = Len(a) /\ Len(y) = Len(b)
      /\ (\A m \in 1 .. Len(a) : x[m] = a[m][d]) /\ (\A m \in 1 .. Len(b) : y[m] = b[m][d])
    <2>1. (\A m \in 1 .. Len(a) : a[m][d] \in V) /\ (\A m \in 1 .. Len(b) : b[m][d] \in V)
        OBVIOUS
    <2>2. x = [m \in 1 .. Len(a) |-> a[m][d]] /\ y = [m \in 1 .. Len(b) |-> b[m][d]]
        BY <1>1 DEF Column
    <2> HIDE DEF V
    <2>3. x \in Seq(V) /\ Len(x) = Len(a) /\ \A m \in 1 .. Len(a) : x[m] = a[m][d]
        BY <1>2, <2>1, <2>2
    <2>4. y \in Seq(V) /\ Len(y) = Len(b) /\ \A m \in 1 .. Len(b) : y[m] = b[m][d]
        BY <1>2, <2>1, <2>2
    <2> QED
        BY <2>3, <2>4
<1> HIDE DEF V
<1>4. PICK z : z = x \o y
    OBVIOUS
<1>5. /\ z \in Seq(V) /\ Len(z) = Len(c)
      /\ \A m \in 1 .. Len(c) : z[m] = IF m <= Len(a) THEN x[m] ELSE y[m - Len(a)]
    <2>1. x \in Seq(V) /\ y \in Seq(V) /\ Len(c) = Len(x) + Len(y) /\ Len(a) = Len(x)
        BY <1>2, <1>3
    <2>2. z \in Seq(V) /\ Len(z) = Len(x) + Len(y)
        BY <1>4, <2>1
    <2>3. \A m \in 1 .. Len(x) + Len(y) : z[m] = IF m <= Len(x) THEN x[m] ELSE y[m - Len(x)]
        BY <1>4, <2>1
    <2> QED
        BY <2>1, <2>2, <2>3
<1>6. \A m \in 1 .. Len(c) : z[m] = c[m][d]
    <2> TAKE m \in 1 .. Len(c)
    <2>1. CASE m <= Len(a)
        BY <1>2, <1>3, <1>5, <2>1
    <2>2. CASE ~(m <= Len(a))
        <3>1. PICK i : i = m - Len(a)
            OBVIOUS
        <3>2. i \in 1 .. Len(b)
            BY <1>2, <2>2, <3>1
        <3>3. z[m] = y[i] /\ c[m] = b[i]
            BY <1>2, <1>5, <2>2, <3>1
        <3> QED
            BY <1>3, <3>2, <3>3
    <2> QED
        BY <2>1, <2>2
<1>7. z = [m \in 1 .. Len(c) |-> z[m]]
    BY <1>5
<1>8. z = [m \in 1 .. Len(c) |-> c[m][d]]
    BY <1>6, <1>7
<1> QED
    BY <1>1, <1>4, <1>8 DEF Column

\* The rows of the array lists.
RowsAre(keys, values, rows) ==
    /\ rows \in SeqRows /\ keys = Column(rows, 1) /\ values = Column(rows, 2)
    /\ \A r \in 1 .. Len(rows) : rows[r] = <<rows[r][1], rows[r][2]>>

\* Rows behind rows.
LEMMA RowsBehind ==
    ASSUME NEW a \in SeqRows, NEW b \in SeqRows,
           \A r \in 1 .. Len(a) : a[r] = <<a[r][1], a[r][2]>>,
           \A r \in 1 .. Len(b) : b[r] = <<b[r][1], b[r][2]>>
    PROVE  RowsAre(Column(a, 1) \o Column(b, 1), Column(a, 2) \o Column(b, 2), a \o b)
<1>1. PICK c : c = a \o b
    OBVIOUS
<1>2. c \in SeqRows
    BY <1>1 DEF SeqRows
<1>3. Column(c, 1) = Column(a, 1) \o Column(b, 1) /\ Column(c, 2) = Column(a, 2) \o Column(b, 2)
    BY <1>1, ColumnsJoined
<1>4. /\ Len(c) = Len(a) + Len(b) /\ Len(a) \in Nat /\ Len(b) \in Nat
      /\ \A m \in 1 .. Len(c) : c[m] = IF m <= Len(a) THEN a[m] ELSE b[m - Len(a)]
    BY <1>1 DEF SeqRows
<1>5. ASSUME NEW r \in 1 .. Len(c)
      PROVE  c[r] = <<c[r][1], c[r][2]>>
    <2>1. CASE r <= Len(a)
        <3>1. r \in 1 .. Len(a) /\ c[r] = a[r]
            BY <1>4, <2>1
        <3> QED
            BY <3>1
    <2>2. CASE ~(r <= Len(a))
        <3>1. PICK i : i = r - Len(a)
            OBVIOUS
        <3>2. i \in 1 .. Len(b) /\ c[r] = b[i]
            BY <1>4, <2>2, <3>1
        <3> QED
            BY <3>2
    <2> QED
        BY <2>1, <2>2
<1> QED
    BY <1>1, <1>2, <1>3, <1>5 DEF RowsAre

\* A universe insert that follows the grammar adds its rows.
LEMMA UniverseStatementRead ==
    ASSUME NEW st, IsStatement(st), IsUniverseInsert(st),
           key_data_type_names \in TypeList, attribute_data_type_names \in TypeList,
           Follows(st, key_data_type_names, attribute_data_type_names),
           NEW rows, rows = StatementRows(st, key_data_type_names, attribute_data_type_names),
           NEW parsed, parsed = parse_universe_insert(st)
    PROVE  /\ parsed.status = "ok" /\ rows \in SeqRows
           /\ parsed.keys = Column(rows, 1) /\ parsed.values = Column(rows, 2)
           /\ \A r \in 1 .. Len(rows) : rows[r] = <<rows[r][1], rows[r][2]>>
<1>1. PICK K, A : K = key_data_type_names /\ A = attribute_data_type_names
    OBVIOUS
<1>2. PICK s, columns : s = st.body /\ columns = <<K, A>>
    OBVIOUS
<1>3. columns = ColumnsOf(st, K, A) /\ Len(columns) = 2 /\ columns[1] = K /\ columns[2] = A
    BY <1>2 DEF ColumnsOf
<1>4. st.kind = "INSERT"
    BY DEF IsUniverseInsert
<1>5. s \in Text /\ columns \in ColumnTypes /\ rows \in BodyMeanings(s, columns) /\ rows \in SeqRows
    BY <1>1, <1>2, <1>3, <1>4, StatementFollows
<1>6. parsed = parse_universe_insert_supp(s, columns[1], columns[2])
    BY <1>1, <1>2, <1>3 DEF parse_universe_insert
<1>7. RowsOnly(parsed, rows)
    BY <1>3, <1>5, <1>6, UniverseBodyRead
<1> QED
    BY <1>5, <1>7 DEF Column, RowsOnly

-----------------------------------------------------------------------------
(* The sets, when the statements up to the k-th were read a second time.   *)

SetIs(s, f, K, A, k) ==
    /\ DOMAIN s = {"name", "keys"} /\ s.name \notin {NULL, UniverseName}
    /\ s.keys = Column(InsertedIn(f, K, A, s.name)[k], 1)

SetsAre(s, i, length, f, K, A, k) ==
    /\ length \in Nat /\ i \in 0 .. length /\ i = Len(CreatedIn(f)[k])
    /\ DOMAIN s = 1 .. length
    /\ \A n \in 1 .. i : SetIs(s[n], f, K, A, k) /\ s[n].name = CreatedIn(f)[k][n]
    /\ \A n \in i + 1 .. length : s[n] = [name |-> NULL, keys |-> <<>>]
    /\ \A n, m \in 1 .. i : s[n].name = s[m].name => n = m
    /\ \A j \in 1 .. k : \/ f[j].kind # "INSERT" \/ IsUniverseInsert(f[j])
                         \/ \E n \in 1 .. i : s[n].name = f[j].into

\* Before the second pass no set has a name.
LEMMA SetsBegin ==
    ASSUME NEW f, NEW K, NEW A, Len(f) \in Nat, NEW k \in 0 .. Len(f), NEW length \in Nat,
           \A j \in 1 .. k : f[j].kind # "SET" /\ (f[j].kind = "INSERT" => IsUniverseInsert(f[j])),
           NEW s, s = [n \in 1 .. length |-> [name |-> NULL, keys |-> <<>>]]
    PROVE  SetsAre(s, 0, length, f, K, A, k)
<1>1. CreatedIn(f)[k] = <<>>
    BY NothingCreated
<1>2. Len(CreatedIn(f)[k]) = 0 /\ 0 \in 0 .. length /\ 0 + 1 = 1
    BY <1>1
<1>3. \A n \in 1 .. 0 : FALSE
    OBVIOUS
<1> QED
    BY <1>2, <1>3 DEF SetsAre

\* No insert into a set comes before the set.
LEMMA NoneBefore ==
    ASSUME NEW f, NEW K, NEW A, NEW k, NEW s, NEW i, NEW length, SetsAre(s, i, length, f, K, A, k),
           NEW name, name # UniverseName, \A n \in 1 .. i : s[n].name # name
    PROVE  NoneInto(f, name, 1, k)
BY DEF SetsAre, NoneInto, IsInto, IsUniverseInsert

\* A set with a name, and the number of its members.
LEMMA SetFound ==
    ASSUME NEW f, NEW K, NEW A, GoodFile(f, K, A), NEW k \in 0 .. Len(f), NEW s, NEW i, NEW length,
           SetsAre(s, i, length, f, K, A, k), NEW n \in 1 .. length, NEW name, s[n].name = name,
           name # NULL
    PROVE  /\ n \in 1 .. i /\ Len(s[n].keys) \in Nat
           /\ Len(s[n].keys) = Len(InsertedIn(f, K, A, name)[k])
<1>1. n \in 1 .. i
    <2>1. i \in 0 .. length /\ length \in Nat /\ \A m \in i + 1 .. length : s[m].name = NULL
        BY DEF SetsAre
    <2>2. n \notin i + 1 .. length
        BY <2>1
    <2> QED
        BY <2>1, <2>2
<1>2. PICK x, r : x = s[n] /\ r = InsertedIn(f, K, A, name)[k]
    OBVIOUS
<1>3. x.keys = Column(r, 1)
    BY <1>1, <1>2 DEF SetsAre, SetIs
<1>4. r \in SeqRows
    BY <1>2, InsertedUpto
<1>5. Len(Column(r, 1)) = Len(r) /\ Len(r) \in Nat
    BY <1>4 DEF Column, SeqRows
<1> QED
    BY <1>1, <1>2, <1>3, <1>5

\* Statements that are no insert under a set's name leave the set.
LEMMA SetStays ==
    ASSUME NEW f, NEW K, NEW A, GoodFile(f, K, A), NEW k \in 1 .. Len(f), NEW x,
           SetIs(x, f, K, A, k - 1), ~IsInto(f[k], x.name)
    PROVE  SetIs(x, f, K, A, k)
<1>1. InsertedIn(f, K, A, x.name)[k] = Grown(f[k], K, A, x.name, InsertedIn(f, K, A, x.name)[k - 1])
    BY InsertedUpto
<1> QED
    BY <1>1 DEF SetIs, Grown

\* CREATE SET gives the next set its name.
LEMMA SetCreated ==
    ASSUME NEW f, NEW K, NEW A, GoodFile(f, K, A), NEW k \in 1 .. Len(f), NEW s, NEW i, NEW length,
           SetsAre(s, i, length, f, K, A, k - 1), i < length,
           f[k].kind = "SET", f[k].name # UniverseName, \A n \in 1 .. length : s[n].name # f[k].name,
           NEW t, t = [s EXCEPT ![i + 1].name = f[k].name]
    PROVE  SetsAre(t, i + 1, length, f, K, A, k)
<1> DEFINE name == f[k].name
<1>0. /\ length \in Nat /\ i \in 0 .. length /\ i = Len(CreatedIn(f)[k - 1]) /\ DOMAIN s = 1 .. length
      /\ \A n \in 1 .. i : SetIs(s[n], f, K, A, k - 1) /\ s[n].name = CreatedIn(f)[k - 1][n]
      /\ \A n \in i + 1 .. length : s[n] = [name |-> NULL, keys |-> <<>>]
      /\ \A n, m \in 1 .. i : s[n].name = s[m].name => n = m
      /\ \A j \in 1 .. k - 1 : \/ f[j].kind # "INSERT" \/ IsUniverseInsert(f[j])
                               \/ \E n \in 1 .. i : s[n].name = f[j].into
    BY DEF SetsAre
<1>1. PICK p : p = i + 1
    OBVIOUS
<1>2. /\ p \in 1 .. length /\ p \notin 1 .. i /\ (\A n \in 1 .. p : n = p \/ n \in 1 .. i)
      /\ (\A n \in 1 .. i : n \in 1 .. length /\ n \in 1 .. p)
      /\ (\A n \in p + 1 .. length : n \in i + 1 .. length /\ n # p /\ n \in 1 .. length)
      /\ p \in i + 1 .. length /\ p \in 0 .. length
    BY <1>0, <1>1
<1>3. PICK c, d : c = CreatedIn(f)[k - 1] /\ d = CreatedIn(f)[k]
    OBVIOUS
<1>4. Len(d) = p /\ d[p] = name /\ \A n \in 1 .. i : d[n] = c[n]
    <2>1. Len(f) \in Nat /\ k - 1 \in 0 .. Len(f)
        BY DEF GoodFile
    <2>2. d = Append(c, name) /\ c \in Seq(NamesIn(f))
        BY <1>3, <2>1, CreatedUpto DEF Named
    <2> QED
        BY <1>0, <1>1, <1>3, <2>2
<1>5. DOMAIN t = 1 .. length /\ (\A n \in 1 .. length : n # p => t[n] = s[n])
      /\ t[p] = [name |-> name, keys |-> <<>>]
    <2>1. s[p] = [name |-> NULL, keys |-> <<>>]
        BY <1>0, <1>2
    <2>2. t[p] = [s[p] EXCEPT !.name = name]
        BY <1>0, <1>1, <1>2
    <2>3. t[p] = [name |-> name, keys |-> <<>>]
        BY <2>1, <2>2
    <2> QED
        BY <1>0, <1>1, <2>3
<1>6. \A n \in 1 .. i : t[n] = s[n] /\ n # p /\ s[n].name # name
    BY <1>2, <1>5
<1>7. \A nm : ~IsInto(f[k], nm)
    BY DEF IsInto
<1>8. SetIs(t[p], f, K, A, k)
    <2>1. NoneInto(f, name, 1, k)
        <3>1. NoneInto(f, name, 1, k - 1)
            BY <1>6, NoneBefore
        <3>2. \A j \in 1 .. k : j = k \/ j \in 1 .. k - 1
            OBVIOUS
        <3> QED
            BY <1>7, <3>1, <3>2 DEF NoneInto
    <2>2. InsertedIn(f, K, A, name)[k] = InsertedIn(f, K, A, name)[0]
        <3>1. PICK nm : nm = name
            OBVIOUS
        <3>2. 0 \in 0 .. Len(f) /\ k \in 0 .. Len(f) /\ NoneInto(f, nm, 0 + 1, k)
            BY <2>1, <3>1 DEF GoodFile
        <3>3. InsertedIn(f, K, A, nm)[k] = InsertedIn(f, K, A, nm)[0]
            BY <3>2, InsertedSame
        <3> QED
            BY <3>1, <3>3
    <2>3. InsertedIn(f, K, A, name)[k] = <<>>
        BY <2>2, InsertedUpto
    <2>4. Column(<<>>, 1) = <<>>
        BY DEF Column
    <2>5. name # NULL
        BY DEF GoodFile, IsStatement
    <2>6. t[p].name = name /\ t[p].keys = <<>> /\ DOMAIN t[p] = {"name", "keys"}
        BY <1>5
    <2> HIDE DEF name
    <2> QED
        BY <2>3, <2>4, <2>5, <2>6 DEF SetIs, name
<1>9. \A n \in 1 .. p : SetIs(t[n], f, K, A, k) /\ t[n].name = d[n]
    <2> TAKE n \in 1 .. p
    <2>1. CASE n = p
        BY <1>4, <1>5, <1>8, <2>1
    <2>2. CASE n \in 1 .. i
        <3>1. PICK x : x = s[n]
            OBVIOUS
        <3>2. SetIs(x, f, K, A, k - 1) /\ x.name = c[n] /\ t[n] = x
            BY <1>0, <1>3, <1>6, <2>2, <3>1
        <3>3. SetIs(x, f, K, A, k)
            BY <1>7, <3>2, SetStays
        <3> QED
            BY <1>4, <2>2, <3>2, <3>3
    <2> QED
        BY <1>2, <2>1, <2>2
<1>10. \A n \in p + 1 .. length : t[n] = [name |-> NULL, keys |-> <<>>]
    BY <1>0, <1>2, <1>5
<1>11. \A n, m \in 1 .. p : t[n].name = t[m].name => n = m
    <2>1. t[p].name = name
        BY <1>5
    <2> QED
        BY <1>0, <1>2, <1>6, <2>1
<1>12. \A j \in 1 .. k : \/ f[j].kind # "INSERT" \/ IsUniverseInsert(f[j])
                         \/ \E n \in 1 .. p : t[n].name = f[j].into
    <2> TAKE j \in 1 .. k
    <2>1. CASE j = k
        BY <2>1
    <2>2. CASE j \in 1 .. k - 1
        BY <1>0, <1>2, <1>6, <2>2
    <2> QED
        BY <2>1, <2>2
<1> HIDE DEF name
<1>13. SetsAre(t, p, length, f, K, A, k)
    <2>1. length \in Nat /\ p \in 0 .. length /\ p = Len(CreatedIn(f)[k])
        BY <1>0, <1>2, <1>3, <1>4
    <2>2. \A n \in 1 .. p : SetIs(t[n], f, K, A, k) /\ t[n].name = CreatedIn(f)[k][n]
        BY <1>3, <1>9
    <2>3. DOMAIN t = 1 .. length
        BY <1>5
    <2> QED
        BY <1>10, <1>11, <1>12, <2>1, <2>2, <2>3 DEF SetsAre
<1> QED
    BY <1>1, <1>13

\* INSERT INTO a set adds members to it.
LEMMA SetExtended ==
    ASSUME NEW f, NEW K, NEW A, GoodFile(f, K, A), NEW k \in 1 .. Len(f), NEW s, NEW i, NEW length,
           SetsAre(s, i, length, f, K, A, k - 1), NEW p \in 1 .. i, IsInto(f[k], s[p].name),
           NEW t, t = [s EXCEPT ![p].keys = @ \o Column(StatementRows(f[k], K, A), 1)]
    PROVE  SetsAre(t, i, length, f, K, A, k)
<1>0. /\ length \in Nat /\ i \in 0 .. length /\ i = Len(CreatedIn(f)[k - 1]) /\ DOMAIN s = 1 .. length
      /\ \A n \in 1 .. i : SetIs(s[n], f, K, A, k - 1) /\ s[n].name = CreatedIn(f)[k - 1][n]
      /\ \A n \in i + 1 .. length : s[n] = [name |-> NULL, keys |-> <<>>]
      /\ \A n, m \in 1 .. i : s[n].name = s[m].name => n = m
      /\ \A j \in 1 .. k - 1 : \/ f[j].kind # "INSERT" \/ IsUniverseInsert(f[j])
                               \/ \E n \in 1 .. i : s[n].name = f[j].into
    BY DEF SetsAre
<1>1. p \in 1 .. length /\ (\A n \in 1 .. i : n \in 1 .. length)
      /\ (\A n \in i + 1 .. length : n # p /\ n \in 1 .. length)
    BY <1>0
<1>2. CreatedIn(f)[k] = CreatedIn(f)[k - 1]
    <2>1. Len(f) \in Nat /\ f[k].kind # "SET"
        BY DEF GoodFile, IsInto
    <2> QED
        BY <2>1, CreatedUpto DEF Named
<1>3. PICK x, name : x = s[p] /\ name = x.name
    OBVIOUS
<1>4. PICK old, new : old = InsertedIn(f, K, A, name)[k - 1] /\ new = StatementRows(f[k], K, A)
    OBVIOUS
<1>5. old \in SeqRows /\ new \in SeqRows /\ InsertedIn(f, K, A, name)[k] = old \o new
    <2>1. k - 1 \in 0 .. Len(f) /\ IsInto(f[k], name)
        BY <1>3 DEF GoodFile
    <2>2. PICK st : st = f[k]
        OBVIOUS
    <2>3. IsStatement(st) /\ st.kind = "INSERT" /\ K \in TypeList /\ A \in TypeList /\ Follows(st, K, A)
        BY <2>1, <2>2 DEF GoodFile, IsInto
    <2>4. StatementRows(st, K, A) \in SeqRows
        BY <2>3, StatementFollows
    <2>5. InsertedIn(f, K, A, name)[k - 1] \in SeqRows
        BY <2>1, InsertedUpto
    <2>6. InsertedIn(f, K, A, name)[k] = Grown(f[k], K, A, name, InsertedIn(f, K, A, name)[k - 1])
        BY InsertedUpto
    <2>7. InsertedIn(f, K, A, name)[k] = old \o new
        BY <1>4, <2>1, <2>6 DEF Grown
    <2> QED
        BY <1>4, <2>2, <2>4, <2>5, <2>7
<1>6. SetIs(x, f, K, A, k - 1)
    BY <1>0, <1>3
<1>7. PICK keys : keys = Column(old \o new, 1)
    OBVIOUS
<1>8. x.keys \o Column(new, 1) = keys
    <2>1. x.keys = Column(old, 1)
        BY <1>3, <1>4, <1>6 DEF SetIs
    <2>2. Column(old \o new, 1) = Column(old, 1) \o Column(new, 1)
        BY <1>5, ColumnsJoined
    <2> QED
        BY <1>7, <2>1, <2>2
<1>9. DOMAIN t = 1 .. length /\ (\A n \in 1 .. length : n # p => t[n] = s[n])
      /\ t[p] = [x EXCEPT !.keys = keys]
    <2>1. t[p] = [x EXCEPT !.keys = x.keys \o Column(new, 1)]
        BY <1>0, <1>1, <1>3, <1>4
    <2>2. t[p] = [x EXCEPT !.keys = keys]
        BY <1>8, <2>1
    <2> QED
        BY <1>0, <2>2
<1>10. t[p].name = name /\ SetIs(t[p], f, K, A, k)
    <2>1. DOMAIN x = {"name", "keys"} /\ x.name \notin {NULL, UniverseName}
        BY <1>6 DEF SetIs
    <2>2. PICK y : y = t[p]
        OBVIOUS
    <2>3. y = [x EXCEPT !.keys = keys]
        BY <1>9, <2>2
    <2>4. DOMAIN y = {"name", "keys"} /\ y.keys = keys
        BY <2>1, <2>3
    <2>5. y.name = name
        BY <1>3, <2>3
    <2> QED
        BY <1>3, <1>5, <1>7, <2>1, <2>2, <2>4, <2>5 DEF SetIs
<1>11. \A n \in 1 .. i : t[n].name = s[n].name
    BY <1>1, <1>3, <1>9, <1>10
<1>12. \A n \in 1 .. i : SetIs(t[n], f, K, A, k) /\ t[n].name = CreatedIn(f)[k][n]
    <2> TAKE n \in 1 .. i
    <2>1. CASE n = p
        BY <1>0, <1>2, <1>10, <1>11, <2>1
    <2>2. CASE n # p
        <3>1. PICK y : y = s[n]
            OBVIOUS
        <3>2. t[n] = y /\ SetIs(y, f, K, A, k - 1) /\ y.name # name
            BY <1>0, <1>1, <1>3, <1>9, <2>2, <3>1
        <3>3. ~IsInto(f[k], y.name)
            BY <1>3, <3>2 DEF IsInto
        <3>4. SetIs(y, f, K, A, k)
            BY <3>2, <3>3, SetStays
        <3> QED
            BY <1>0, <1>2, <1>11, <3>2, <3>4
    <2> QED
        BY <2>1, <2>2
<1>13. \A n \in i + 1 .. length : t[n] = [name |-> NULL, keys |-> <<>>]
    BY <1>0, <1>1, <1>9
<1>14. \A n, m \in 1 .. i : t[n].name = t[m].name => n = m
    BY <1>0, <1>11
<1>15. \A j \in 1 .. k : \/ f[j].kind # "INSERT" \/ IsUniverseInsert(f[j])
                         \/ \E n \in 1 .. i : t[n].name = f[j].into
    <2> TAKE j \in 1 .. k
    <2>1. CASE j = k
        BY <1>11, <2>1 DEF IsInto
    <2>2. CASE j \in 1 .. k - 1
        BY <1>0, <1>11, <2>2
    <2> QED
        BY <2>1, <2>2
<1> QED
    BY <1>0, <1>2, <1>9, <1>12, <1>13, <1>14, <1>15 DEF SetsAre

\* A set's insert that follows the grammar is taken whole, if there is room.
LEMMA SetStatementRead ==
    ASSUME NEW st, IsStatement(st), st.kind = "INSERT", ~IsUniverseInsert(st),
           NEW K \in TypeList, NEW A \in TypeList, Follows(st, K, A),
           NEW rows, rows = StatementRows(st, K, A), NEW before \in Nat, NEW room \in Nat,
           NEW parsed, parsed = parse_set_insert_supp(st.body, K, before, room)
    PROVE  /\ rows \in SeqRows /\ parsed.status \in {"ok", "overfull"}
           /\ parsed.status = "ok" => parsed.keys = Column(rows, 1)
           /\ before + Len(rows) <= room => parsed.status = "ok"
<1>1. PICK s, columns : s = st.body /\ columns = <<K>>
    OBVIOUS
<1>2. columns = ColumnsOf(st, K, A) /\ Len(columns) = 1 /\ columns[1] = K
    BY <1>1 DEF ColumnsOf
<1>3. s \in Text /\ columns \in ColumnTypes /\ rows \in BodyMeanings(s, columns) /\ rows \in SeqRows
    BY <1>1, <1>2, StatementFollows
<1>4. parsed = parse_set_insert_supp(s, columns[1], before, room)
    BY <1>1, <1>2
<1> QED
    BY <1>2, <1>3, <1>4, SetBodyRead DEF Column

-----------------------------------------------------------------------------
(* What the parser has taken over from the file.                           *)

\* Behind the declarations: the types are known.
Typed == {"inserts"} \cup Counting

AllFollow ==
    \A k \in 1 .. Len(file) : Follows(file[k], key_data_type_names, attribute_data_type_names)

InsertedHere(name) == InsertedIn(file, key_data_type_names, attribute_data_type_names, name)

HeadInv ==
    /\ pc \in {"attributes", "insert"} \cup Typed => file[1].kind = "UNIVERSE"
    /\ pc \in {"insert"} \cup Typed => file[2].kind = "ATTRIBUTES"
    /\ pc \in Typed => \A j \in 3 .. scanned_commands : IsUniverseInsert(file[j])
    /\ pc \in {"sets", "done"} =>
          /\ pos > scanned_commands
          /\ \A j \in scanned_commands + 1 .. pos - 1 : ~IsUniverseInsert(file[j])
    /\ pc = "done" => pos = Len(file) + 1 \/ (pos \in 1 .. Len(file) /\ file[pos].kind = "EMPTY")

RowsFaith ==
    pc \in Typed /\ AllFollow =>
        /\ RowsAre(key_values, attribute_values, InsertedHere(UniverseName)[scanned_commands])
        /\ pc \in Counting => \/ scanned_commands + 1 \notin 1 .. Len(file)
                              \/ ~IsUniverseInsert(file[scanned_commands + 1])

SetsFaith ==
    pc \in {"sets", "done"} /\ AllFollow =>
        SetsAre(sets, set_index, sets_length, file, key_data_type_names,
                attribute_data_type_names, pos - 1)

FaithInv == HeadInv /\ RowsFaith /\ SetsFaith

\* Every step keeps HeadInv.
LEMMA HeadNext ==
    ASSUME ParseInv, HeadInv, [Next]_parseVars
    PROVE  HeadInv'
<1> USE DEF ParseInv
<1>0. file' = file /\ Len(file) \in Nat /\ pos \in 1 .. Len(file) + 1
    BY FileFacts DEF Next, parseVars, ReadUniverse, ReadAttributes, ReadFirstInsert,
                     ReadInsert, CountSet, Rewind, ReadStatement, EndOfStatements
<1>00. \A st : IsUniverseInsert(st)' <=> IsUniverseInsert(st)
    BY DEF IsUniverseInsert
<1>1. CASE ReadUniverse
    <2>1. pc = "universe" /\ Fscanf /\ pos = 1 /\ buffer.kind = "OTHER"
        BY <1>1 DEF ReadUniverse, ReadInv
    <2>2. \/ pc' = "failed"
          \/ pc' = "attributes" /\ buffer'.kind = "UNIVERSE"
        BY <1>1 DEF ReadUniverse
    <2>3. buffer'.kind = "UNIVERSE" => file[1].kind = "UNIVERSE"
        BY <2>1, Reads
    <2> QED
        BY <1>0, <2>2, <2>3 DEF HeadInv, Typed, Counting
<1>2. CASE ReadAttributes
    <2>1. pc = "attributes" /\ Fscanf /\ pos = 2 /\ buffer.kind = "UNIVERSE"
        BY <1>2 DEF ReadAttributes, ReadInv
    <2>2. \/ pc' = "failed"
          \/ pc' = "insert" /\ buffer'.kind = "ATTRIBUTES"
        BY <1>2 DEF ReadAttributes
    <2>3. buffer'.kind = "ATTRIBUTES" => file[2].kind = "ATTRIBUTES"
        BY <2>1, Reads
    <2> QED
        BY <1>0, <2>1, <2>2, <2>3 DEF HeadInv, Typed, Counting
<1>3. CASE ReadFirstInsert
    <2>1. pc = "insert" /\ pos = 3
        BY <1>3 DEF ReadFirstInsert, ReadInv
    <2>2. PICK parsed :
              /\ NewRows(parsed) /\ InsertIntoUniverse(parsed, "inserts", "failed")
              /\ parsed.status = "ok" => /\ pos \in 1 .. Len(file) /\ buffer' = file[pos] /\ pos' = pos + 1
                                         /\ IsUniverseInsert(file[pos])
        BY <1>3, FirstInsertStep
    <2>3. CASE parsed.status = "ok"
        <3>1. pc' = "inserts" /\ IsUniverseInsert(file[3])
            BY <2>1, <2>2, <2>3, RowsAdded
        <3>2. scanned_commands' = 3
            BY <1>3, <3>1 DEF ReadFirstInsert
        <3> QED
            BY <1>0, <1>00, <2>1, <3>1, <3>2 DEF HeadInv, Typed, Counting
    <2>4. CASE parsed.status # "ok"
        <3>1. pc' \in {"failed", "crashed"}
            BY <2>2, <2>4, RowsAdded
        <3> QED
            BY <3>1 DEF HeadInv, Typed, Counting
    <2> QED
        BY <2>3, <2>4
<1>4. CASE ReadInsert
    <2>1. pc = "inserts" /\ pos = scanned_commands + 1 /\ scanned_commands \in 3 .. Len(file)
        BY <1>4 DEF ReadInsert, ReadInv
    <2>2. PICK parsed :
              /\ NewRows(parsed) /\ InsertIntoUniverse(parsed, "inserts", "count")
              /\ parsed.status = "ok" => /\ pos \in 1 .. Len(file) /\ buffer' = file[pos] /\ pos' = pos + 1
                                         /\ IsUniverseInsert(file[pos])
        BY <1>4, InsertStep
    <2>3. CASE parsed.status = "ok"
        <3>1. pc' = "inserts" /\ IsUniverseInsert(file[pos])
            BY <2>2, <2>3, RowsAdded
        <3>2. scanned_commands' = pos
            BY <1>4, <2>1, <3>1 DEF ReadInsert
        <3>3. \A j \in 3 .. pos : j = pos \/ j \in 3 .. scanned_commands
            BY <2>1
        <3> QED
            BY <1>0, <1>00, <2>1, <3>1, <3>2, <3>3 DEF HeadInv, Typed, Counting
    <2>4. CASE parsed.status # "ok"
        <3>1. pc' \in {"count", "crashed"}
            BY <2>2, <2>4, RowsAdded
        <3>2. scanned_commands' = scanned_commands
            BY <1>4, <2>1, <3>1 DEF ReadInsert
        <3> QED
            BY <1>0, <1>00, <2>1, <3>1, <3>2 DEF HeadInv, Typed, Counting
    <2> QED
        BY <2>3, <2>4
<1>5. CASE CountSet
    <2>1. pc = "count" /\ pc' \in {"count", "rewind"} /\ scanned_commands' = scanned_commands
        BY <1>5 DEF CountSet
    <2> QED
        BY <1>0, <1>00, <2>1 DEF HeadInv, Typed, Counting
<1>6. CASE Rewind
    <2>1. /\ pc = "rewind" /\ pc' = "sets" /\ scanned_commands' = scanned_commands
          /\ pos' = scanned_commands + 1
        BY <1>6 DEF Rewind
    <2>2. scanned_commands \in 3 .. Len(file)
        BY <2>1 DEF ReadInv, Counting
    <2> QED
        BY <1>0, <1>00, <2>1, <2>2 DEF HeadInv, Typed, Counting
<1>7. CASE ReadStatement
    <2>1. pc = "sets" /\ pos \in 1 .. Len(file) /\ pos' = pos + 1 /\ scanned_commands' = scanned_commands
        BY <1>7, StatementStep DEF ReadStatement
    <2>2. \/ pc' \in {"failed", "overfull", "crashed", "aborted"}
          \/ pc' = "sets" /\ ~IsUniverseInsert(file[pos])
        BY <1>7, StatementStep DEF IsUniverseInsert
    <2>3. scanned_commands \in 3 .. Len(file)
        BY <2>1 DEF ReadInv, Counting
    <2>4. \A j \in scanned_commands + 1 .. pos' - 1 : j = pos \/ j \in scanned_commands + 1 .. pos - 1
        BY <2>1, <2>3
    <2>5. CASE pc' # "sets"
        BY <2>2, <2>5 DEF HeadInv, Typed, Counting
    <2>6. CASE pc' = "sets"
        <3>1. pos > scanned_commands /\ \A j \in scanned_commands + 1 .. pos - 1 : ~IsUniverseInsert(file[j])
            BY <2>1 DEF HeadInv
        <3>2. pos' > scanned_commands
            BY <2>1, <2>3, <3>1
        <3>3. \A j \in scanned_commands + 1 .. pos' - 1 : ~IsUniverseInsert(file[j])
            BY <2>2, <2>4, <2>6, <3>1
        <3> QED
            BY <1>0, <1>00, <2>1, <2>6, <3>2, <3>3 DEF HeadInv, Typed, Counting
    <2> QED
        BY <2>5, <2>6
<1>8. CASE EndOfStatements
    <2>1. /\ pc = "sets" /\ pc' = "done" /\ ~Matches /\ pos' = pos /\ scanned_commands' = scanned_commands
        BY <1>8 DEF EndOfStatements
    <2>2. pos = Len(file) + 1 \/ (pos \in 1 .. Len(file) /\ file[pos].kind = "EMPTY")
        BY <1>0, <2>1 DEF Matches, AtEnd
    <2> QED
        BY <1>0, <1>00, <2>1, <2>2 DEF HeadInv, Typed, Counting
<1>9. CASE UNCHANGED parseVars
    <2>1. UNCHANGED <<file, pos, pc, scanned_commands>>
        BY <1>9 DEF parseVars
    <2> QED
        BY <1>00, <2>1 DEF HeadInv
<1> QED
    BY <1>1, <1>2, <1>3, <1>4, <1>5, <1>6, <1>7, <1>8, <1>9 DEF Next

\* The file and the types that are known by then.
LEMMA FileIsGood ==
    ASSUME ParseInv, AllFollow, pc \in {"insert"} \cup Typed
    PROVE  GoodFile(file, key_data_type_names, attribute_data_type_names)
<1>1. ReadInv
    BY DEF ParseInv
<1>2. key_data_type_names \in TypeList /\ attribute_data_type_names \in TypeList
    BY <1>1 DEF ReadInv, Typed
<1> QED
    BY <1>1, <1>2, FileFacts DEF GoodFile, AllFollow

\* An insert into the universe that follows the grammar is always taken.
LEMMA InsertTaken ==
    ASSUME ParseInv, AllFollow, ReadFirstInsert \/ ReadInsert,
           pos \in 1 .. Len(file), IsUniverseInsert(file[pos]),
           NEW rows, rows = StatementRows(file[pos], key_data_type_names, attribute_data_type_names)
    PROVE  /\ pc' = "inserts" /\ rows \in SeqRows
           /\ \A r \in 1 .. Len(rows) : rows[r] = <<rows[r][1], rows[r][2]>>
           /\ key_values' = key_values \o Column(rows, 1)
           /\ attribute_values' = attribute_values \o Column(rows, 2)
<1>0. ReadInv /\ pc \in {"insert"} \cup Typed /\ Fscanf
    BY DEF ParseInv, ReadFirstInsert, ReadInsert, Typed
<1>1. /\ IsStatement(file[pos]) /\ Follows(file[pos], key_data_type_names, attribute_data_type_names)
      /\ key_data_type_names \in TypeList /\ attribute_data_type_names \in TypeList
    BY <1>0, FileIsGood DEF GoodFile
<1>2. Matches /\ buffer' = file[pos]
    <2>1. file[pos].kind # "EMPTY"
        BY DEF IsUniverseInsert
    <2>2. Matches
        BY <1>0, <2>1, Reads
    <2> QED
        BY <1>0, <2>2, Reads
<1>3. PICK parsed : parsed = parse_universe_insert(file[pos])
    OBVIOUS
<1>4. \E failure : InsertIntoUniverse(parsed, "inserts", failure)
    <2>1. CASE ReadFirstInsert
        <3>1. InsertIntoUniverse(parsed, "inserts", "failed")
            BY <1>2, <1>3, <2>1 DEF ReadFirstInsert
        <3> QED
            BY <3>1
    <2>2. CASE ReadInsert
        <3>1. InsertIntoUniverse(parsed, "inserts", "count")
            BY <1>2, <1>3, <2>2 DEF ReadInsert
        <3> QED
            BY <3>1
    <2> QED
        BY <2>1, <2>2
<1>5. /\ parsed.status = "ok" /\ rows \in SeqRows
      /\ parsed.keys = Column(rows, 1) /\ parsed.values = Column(rows, 2)
      /\ \A r \in 1 .. Len(rows) : rows[r] = <<rows[r][1], rows[r][2]>>
    <2>1. PICK st : st = file[pos]
        OBVIOUS
    <2> QED
        BY <1>1, <1>3, <2>1, UniverseStatementRead
<1> QED
    BY <1>4, <1>5 DEF InsertIntoUniverse

\* What the file says stays the same once the types are known.
LEMMA FollowsOn ==
    ASSUME file' = file, types' = types
    PROVE  /\ AllFollow' <=> AllFollow
           /\ \A name : InsertedHere(name)' = InsertedHere(name)
<1>1. key_data_type_names' = key_data_type_names /\ attribute_data_type_names' = attribute_data_type_names
    BY DEF types
<1> QED
    BY <1>1 DEF AllFollow, InsertedHere

\* The rows after one more insert.
LEMMA RowsTaken ==
    ASSUME ParseInv, HeadInv, RowsFaith, AllFollow, ReadFirstInsert \/ ReadInsert,
           pos \in 1 .. Len(file), IsUniverseInsert(file[pos])
    PROVE  pc' = "inserts" /\ RowsAre(key_values', attribute_values', InsertedHere(UniverseName)[pos])
<1> DEFINE I == InsertedHere(UniverseName)
<1>0. /\ ReadInv /\ RowsInv /\ pc \in {"insert"} \cup Typed
      /\ GoodFile(file, key_data_type_names, attribute_data_type_names)
    BY FileIsGood DEF ParseInv, ReadFirstInsert, ReadInsert, Typed
<1>1. PICK rows : rows = StatementRows(file[pos], key_data_type_names, attribute_data_type_names)
    OBVIOUS
<1>2. /\ pc' = "inserts" /\ rows \in SeqRows
      /\ \A r \in 1 .. Len(rows) : rows[r] = <<rows[r][1], rows[r][2]>>
      /\ key_values' = key_values \o Column(rows, 1)
      /\ attribute_values' = attribute_values \o Column(rows, 2)
    BY <1>1, InsertTaken
<1>3. PICK before : before = I[pos - 1]
    OBVIOUS
<1>4. before \in SeqRows /\ I[pos] = before \o rows
    <2>1. pos - 1 \in 0 .. Len(file)
        BY <1>0 DEF GoodFile
    <2>2. I[pos - 1] \in SeqRows
        BY <1>0, <2>1, InsertedUpto DEF InsertedHere
    <2>3. I[pos] = Grown(file[pos], key_data_type_names, attribute_data_type_names, UniverseName, I[pos - 1])
        BY <1>0, InsertedUpto DEF InsertedHere
    <2>4. IsInto(file[pos], UniverseName)
        BY DEF IsUniverseInsert, IsInto
    <2> QED
        BY <1>1, <1>3, <2>2, <2>3, <2>4 DEF Grown
<1>5. RowsAre(key_values, attribute_values, before)
    <2>1. CASE ReadInsert
        <3>1. pc = "inserts" /\ pos = scanned_commands + 1 /\ scanned_commands \in 3 .. Len(file)
            BY <1>0, <2>1 DEF ReadInsert, ReadInv
        <3>2. pos - 1 = scanned_commands
            BY <3>1
        <3> HIDE DEF I
        <3> QED
            BY <1>3, <3>1, <3>2 DEF RowsFaith, Typed, I
    <2>2. CASE ReadFirstInsert
        <3>1. pc = "insert" /\ pos = 3 /\ key_values = <<>> /\ attribute_values = <<>>
            BY <1>0, <2>2 DEF ReadFirstInsert, ReadInv, RowsInv
        <3>2. file[1].kind = "UNIVERSE" /\ file[2].kind = "ATTRIBUTES"
            BY <3>1 DEF HeadInv
        <3>3. NoneInto(file, UniverseName, 0 + 1, 2)
            <4>1. \A j \in 0 + 1 .. 2 : j = 1 \/ j = 2
                OBVIOUS
            <4> QED
                BY <3>2, <4>1 DEF NoneInto, IsInto
        <3>4. before = <<>>
            <4>1. Len(file) \in Nat /\ 2 \in 0 .. Len(file) /\ 0 \in 0 .. Len(file)
                BY <1>0, <3>1 DEF GoodFile
            <4>2. I[2] = I[0]
                BY <1>0, <3>3, <4>1, InsertedSame DEF InsertedHere
            <4>3. I[0] = <<>>
                BY <1>0, InsertedUpto DEF InsertedHere
            <4>4. pos - 1 = 2
                BY <3>1
            <4> HIDE DEF I
            <4> QED
                BY <1>3, <4>2, <4>3, <4>4
        <3>5. Column(<<>>, 1) = <<>> /\ Column(<<>>, 2) = <<>> /\ <<>> \in SeqRows
            BY DEF Column, SeqRows
        <3>6. \A r \in 1 .. Len(<<>>) : FALSE
            OBVIOUS
        <3> QED
            BY <3>1, <3>4, <3>5, <3>6 DEF RowsAre
    <2> QED
        BY <2>1, <2>2
<1>6. RowsAre(key_values', attribute_values', before \o rows)
    <2>1. /\ key_values = Column(before, 1) /\ attribute_values = Column(before, 2)
          /\ \A r \in 1 .. Len(before) : before[r] = <<before[r][1], before[r][2]>>
        BY <1>5 DEF RowsAre
    <2>2. RowsAre(Column(before, 1) \o Column(rows, 1), Column(before, 2) \o Column(rows, 2), before \o rows)
        BY <1>2, <1>4, <2>1, RowsBehind
    <2> QED
        BY <1>2, <2>1, <2>2
<1> QED
    BY <1>2, <1>4, <1>6

\* Every step keeps RowsFaith.
LEMMA RowsFaithNext ==
    ASSUME ParseInv, HeadInv, RowsFaith, [Next]_parseVars
    PROVE  RowsFaith'
<1>0. ReadInv /\ RowsInv /\ file' = file /\ Len(file) \in Nat
    BY FileFacts DEF ParseInv, Next, parseVars, ReadUniverse, ReadAttributes, ReadFirstInsert,
                     ReadInsert, CountSet, Rewind, ReadStatement, EndOfStatements
<1>00. \A st : IsUniverseInsert(st)' <=> IsUniverseInsert(st)
    BY DEF IsUniverseInsert
<1>1. CASE ReadUniverse \/ ReadAttributes
    BY <1>1 DEF ReadUniverse, ReadAttributes, RowsFaith, Typed, Counting
<1>2. CASE ReadFirstInsert
    <2>1. types' = types
        BY <1>2 DEF ReadFirstInsert
    <2>2. SUFFICES ASSUME pc' \in Typed, AllFollow
                   PROVE  /\ RowsAre(key_values', attribute_values', InsertedHere(UniverseName)[scanned_commands'])
                          /\ pc' = "inserts"
        <3>1. "inserts" \notin Counting
            BY DEF Counting
        <3> QED
            BY <1>0, <2>1, <3>1, FollowsOn DEF RowsFaith
    <2>3. pc = "insert" /\ pos = 3
        BY <1>0, <1>2 DEF ReadFirstInsert, ReadInv
    <2>4. PICK parsed :
              /\ NewRows(parsed) /\ InsertIntoUniverse(parsed, "inserts", "failed")
              /\ parsed.status = "ok" => /\ pos \in 1 .. Len(file) /\ buffer' = file[pos] /\ pos' = pos + 1
                                         /\ IsUniverseInsert(file[pos])
        BY <1>0, <1>2, FirstInsertStep
    <2>5. parsed.status = "ok"
        BY <2>2, <2>4, RowsAdded DEF Typed, Counting
    <2>6. pc' = "inserts" /\ RowsAre(key_values', attribute_values', InsertedHere(UniverseName)[pos])
        BY <1>2, <2>2, <2>4, <2>5, RowsTaken
    <2>7. scanned_commands' = 3
        BY <1>2, <2>6 DEF ReadFirstInsert
    <2> QED
        BY <2>3, <2>6, <2>7
<1>3. CASE ReadInsert
    <2>1. types' = types /\ pc = "inserts" /\ pos = scanned_commands + 1 /\ scanned_commands \in 3 .. Len(file)
        BY <1>0, <1>3 DEF ReadInsert, ReadInv
    <2>2. PICK parsed :
              /\ NewRows(parsed) /\ InsertIntoUniverse(parsed, "inserts", "count")
              /\ parsed.status = "ok" => /\ pos \in 1 .. Len(file) /\ buffer' = file[pos] /\ pos' = pos + 1
                                         /\ IsUniverseInsert(file[pos])
              /\ \/ parsed.keys = <<>> /\ parsed.values = <<>>
                 \/ pos \in 1 .. Len(file) /\ IsUniverseInsert(file[pos])
        BY <1>0, <1>3, InsertStep
    <2>3. SUFFICES ASSUME pc' \in Typed, AllFollow
                   PROVE  /\ RowsAre(key_values', attribute_values', InsertedHere(UniverseName)[scanned_commands'])
                          /\ pc' \in Counting => \/ scanned_commands' + 1 \notin 1 .. Len(file)
                                                 \/ ~IsUniverseInsert(file[scanned_commands' + 1])
        BY <1>0, <1>00, <2>1, FollowsOn DEF RowsFaith
    <2>4. CASE pos \in 1 .. Len(file) /\ IsUniverseInsert(file[pos])
        <3>1. pc' = "inserts" /\ RowsAre(key_values', attribute_values', InsertedHere(UniverseName)[pos])
            BY <1>3, <2>3, <2>4, RowsTaken
        <3>2. scanned_commands' = pos
            BY <1>3, <2>1, <3>1 DEF ReadInsert
        <3>3. pc' \notin Counting
            BY <3>1 DEF Counting
        <3> QED
            BY <3>1, <3>2, <3>3
    <2>5. CASE ~(pos \in 1 .. Len(file) /\ IsUniverseInsert(file[pos]))
        <3>1. parsed.keys = <<>> /\ parsed.values = <<>> /\ parsed.status # "ok"
            BY <2>2, <2>5
        <3>2. /\ key_values' = key_values /\ attribute_values' = attribute_values
              /\ pc' \in {"count", "crashed"}
            <4>1. key_values' = key_values \o <<>> /\ attribute_values' = attribute_values \o <<>>
                BY <2>2, <3>1, RowsAdded
            <4>2. key_values \in Seq(Entry \cup {NULL}) /\ attribute_values \in Seq(Entry \cup {NULL})
                BY <1>0 DEF RowsInv
            <4>3. key_values \o <<>> = key_values
                BY <4>2, RowsJoined
            <4>4. attribute_values \o <<>> = attribute_values
                BY <4>2, RowsJoined
            <4> QED
                BY <2>2, <3>1, <4>1, <4>3, <4>4, RowsAdded
        <3>3. scanned_commands' = scanned_commands
            BY <1>3, <2>1, <3>2 DEF ReadInsert
        <3>4. RowsAre(key_values, attribute_values, InsertedHere(UniverseName)[scanned_commands])
            BY <2>1, <2>3 DEF RowsFaith, Typed
        <3> QED
            BY <2>1, <2>5, <3>2, <3>3, <3>4
    <2> QED
        BY <2>4, <2>5
<1>4. CASE CountSet \/ Rewind \/ ReadStatement \/ EndOfStatements
    <2>1. /\ types' = types /\ scanned_commands' = scanned_commands
          /\ key_values' = key_values /\ attribute_values' = attribute_values
        BY <1>4 DEF CountSet, Rewind, ReadStatement, EndOfStatements, universe
    <2>2. pc \in Counting
        BY <1>4 DEF CountSet, Rewind, ReadStatement, EndOfStatements, Counting
    <2>3. pc \in Typed
        BY <2>2 DEF Typed
    <2> QED
        BY <1>0, <1>00, <2>1, <2>2, <2>3, FollowsOn DEF RowsFaith
<1>5. CASE UNCHANGED parseVars
    <2>1. types' = types /\ UNCHANGED <<pc, scanned_commands, key_values, attribute_values>>
        BY <1>5 DEF parseVars, universe
    <2> QED
        BY <1>0, <1>00, <2>1, FollowsOn DEF RowsFaith
<1> QED
    BY <1>1, <1>2, <1>3, <1>4, <1>5 DEF Next

SetTaken(st, n, parsed) ==
    /\ n \in Position(st.into)
    /\ parsed = parse_set_insert_supp(st.body, key_data_type_names, Len(sets[n].keys), Len(key_values))
    /\ parsed.status = "ok" => pc' = "sets" /\ sets' = [sets EXCEPT ![n].keys = @ \o parsed.keys]
    /\ parsed.status # "ok" => pc' # "sets"
    /\ set_index' = set_index

\* What an insert into a set does.
LEMMA SetInsertStep ==
    ASSUME ParseInv, ReadStatement, NEW st, st = file[pos], st.kind = "INSERT"
    PROVE  \/ Position(st.into) = {} /\ pc' = "failed"
           \/ \E n, parsed : SetTaken(st, n, parsed)
<1>0. ReadInv
    BY DEF ParseInv
<1>1. /\ pc = "sets" /\ pos \in 1 .. Len(file) /\ buffer' = st /\ IsStatement(st)
      /\ key_data_type_names \in TypeList
    BY <1>0, Reads, FileFacts DEF ReadStatement, ReadInv, Counting
<1>2. InsertIntoSet(st)
    BY <1>1 DEF ReadStatement
<1>3. CASE Position(st.into) = {}
    BY <1>2, <1>3 DEF InsertIntoSet
<1>4. CASE Position(st.into) # {}
    <2>1. PICK n \in Position(st.into) :
             \E parsed \in {parse_set_insert_supp(st.body, key_data_type_names,
                                                  Len(sets[n].keys), Len(key_values))} :
                /\ pc' = CASE parsed.status = "ok"    -> "sets"
                           [] parsed.status = "error" -> "failed"
                           [] OTHER                   -> parsed.status
                /\ sets' = IF parsed.status = "ok"
                           THEN [sets EXCEPT ![n].keys = @ \o parsed.keys] ELSE sets
                /\ UNCHANGED set_index
        BY <1>2, <1>4 DEF InsertIntoSet
    <2>2. PICK parsed :
             /\ parsed = parse_set_insert_supp(st.body, key_data_type_names,
                                               Len(sets[n].keys), Len(key_values))
             /\ pc' = CASE parsed.status = "ok"    -> "sets"
                        [] parsed.status = "error" -> "failed"
                        [] OTHER                   -> parsed.status
             /\ sets' = IF parsed.status = "ok"
                        THEN [sets EXCEPT ![n].keys = @ \o parsed.keys] ELSE sets
             /\ UNCHANGED set_index
        BY <2>1
    <2>3. parsed.status \in SetStatuses
        <3>1. st.body \in Text
            BY <1>1, BodyIsText
        <3> QED
            BY <1>1, <2>2, <3>1, SetInsertParsed
    <2>4. parsed.status # "ok" => pc' # "sets"
        BY <2>2, <2>3 DEF SetStatuses, Statuses
    <2>5. parsed.status = "ok" => pc' = "sets" /\ sets' = [sets EXCEPT ![n].keys = @ \o parsed.keys]
        BY <2>2
    <2>6. SetTaken(st, n, parsed)
        BY <2>2, <2>4, <2>5 DEF SetTaken
    <2> QED
        BY <2>6
<1> QED
    BY <1>3, <1>4

\* Every step keeps SetsFaith.
LEMMA SetsFaithNext ==
    ASSUME ParseInv, FaithInv, [Next]_parseVars
    PROVE  SetsFaith'
<1> DEFINE K == key_data_type_names
           A == attribute_data_type_names
<1>0. /\ ReadInv /\ RowsInv /\ CountInv /\ NamesInv /\ HeadInv /\ SetsFaith
      /\ file' = file /\ Len(file) \in Nat
    BY FileFacts DEF ParseInv, FaithInv, Next, parseVars, ReadUniverse, ReadAttributes, ReadFirstInsert,
                     ReadInsert, CountSet, Rewind, ReadStatement, EndOfStatements
<1>1. CASE ReadUniverse \/ ReadAttributes \/ CountSet
    BY <1>1 DEF ReadUniverse, ReadAttributes, CountSet, SetsFaith
<1>2. CASE ReadFirstInsert
    BY <1>0, <1>2, FirstInsertStep, RowsAdded DEF SetsFaith
<1>3. CASE ReadInsert
    BY <1>0, <1>3, InsertStep, RowsAdded DEF SetsFaith
<1>4. CASE Rewind
    <2>1. /\ pc = "rewind" /\ pos' = scanned_commands + 1 /\ types' = types
          /\ sets' = [n \in 1 .. sets_length |-> [name |-> NULL, keys |-> <<>>]]
          /\ sets_length' = sets_length /\ set_index' = set_index
        BY <1>4 DEF Rewind
    <2>2. scanned_commands \in 3 .. Len(file) /\ set_index = 0 /\ Stop(pos)
        BY <1>0, <2>1 DEF ReadInv, Counting, CountInv
    <2>3. sets_length \in Nat
        <3>1. pos \in Nat
            BY <1>0, FileFacts
        <3>2. scanned_commands + 1 \in Nat /\ pos - 1 \in Int
            BY <2>2, <3>1
        <3> QED
            BY <2>2, <3>2, SetsAreFinite DEF Stop
    <2>4. \A j \in 1 .. scanned_commands :
             file[j].kind # "SET" /\ (file[j].kind = "INSERT" => IsUniverseInsert(file[j]))
        <3> TAKE j \in 1 .. scanned_commands
        <3>1. j = 1 \/ j = 2 \/ j \in 3 .. scanned_commands
            BY <2>2
        <3>2. /\ file[1].kind = "UNIVERSE" /\ file[2].kind = "ATTRIBUTES"
              /\ \A i \in 3 .. scanned_commands : IsUniverseInsert(file[i])
            BY <1>0, <2>1 DEF HeadInv, Typed, Counting
        <3> QED
            BY <3>1, <3>2 DEF IsUniverseInsert
    <2>5. SetsAre(sets', 0, sets_length, file, K, A, scanned_commands)
        <3>1. PICK s : s = sets'
            OBVIOUS
        <3>2. scanned_commands \in 0 .. Len(file)
            BY <2>2
        <3> HIDE DEF K, A
        <3>3. SetsAre(s, 0, sets_length, file, K, A, scanned_commands)
            BY <1>0, <2>1, <2>3, <2>4, <3>1, <3>2, SetsBegin
        <3> QED
            BY <3>1, <3>3
    <2>6. pos' - 1 = scanned_commands
        BY <2>1, <2>2
    <2> QED
        BY <1>0, <2>1, <2>2, <2>5, <2>6 DEF SetsFaith, types
<1>5. CASE ReadStatement
    <2>1. /\ pc = "sets" /\ pos \in 1 .. Len(file) /\ pos' = pos + 1 /\ buffer' = file[pos]
          /\ types' = types /\ sets_length' = sets_length /\ UNCHANGED <<key_values>>
        BY <1>0, <1>5, StatementStep DEF ReadStatement
    <2>2. SUFFICES ASSUME pc' = "sets", AllFollow
                   PROVE  SetsAre(sets', set_index', sets_length, file, K, A, pos)
        <3>1. pc' # "done"
            BY <1>0, <1>5, StatementStep
        <3>2. pos' - 1 = pos
            BY <2>1
        <3>3. AllFollow' <=> AllFollow
            BY <1>0, <2>1, FollowsOn
        <3>4. K' = K /\ A' = A
            BY <2>1 DEF types
        <3> HIDE DEF K, A
        <3> QED
            BY <1>0, <2>1, <3>1, <3>2, <3>3, <3>4 DEF SetsFaith, K, A
    <2>3. GoodFile(file, K, A)
        BY <2>1, <2>2, FileIsGood DEF Typed, Counting
    <2>4. SetsAre(sets, set_index, sets_length, file, K, A, pos - 1)
        BY <1>0, <2>1, <2>2 DEF SetsFaith
    <2>5. DOMAIN sets = 1 .. sets_length /\ (\A n \in 1 .. sets_length : sets[n].name # UniverseName)
        BY <1>0, <2>1 DEF NamesInv
    <2>6. PICK t, st : t = sets' /\ st = file[pos]
        OBVIOUS
    <2>7. IsStatement(st) /\ Follows(st, K, A)
        BY <2>1, <2>3, <2>6 DEF GoodFile
    <2> HIDE DEF K, A
    <2>8. CASE st.kind = "SET"
        <3>1. CreateSet(st.name)
            BY <1>5, <2>1, <2>6, <2>8 DEF ReadStatement
        <3>2. /\ st.name # UniverseName /\ Position(st.name) = {} /\ ~(set_index >= sets_length)
              /\ t = [sets EXCEPT ![set_index + 1].name = st.name] /\ set_index' = set_index + 1
            BY <2>2, <2>6, <3>1 DEF CreateSet
        <3>3. \A n \in 1 .. sets_length : sets[n].name # st.name
            BY <3>2 DEF Position
        <3>4. set_index < sets_length
            BY <2>4, <3>2 DEF SetsAre
        <3>5. SetsAre(t, set_index + 1, sets_length, file, K, A, pos)
            BY <2>1, <2>3, <2>4, <2>6, <2>8, <3>2, <3>3, <3>4, SetCreated
        <3> QED
            BY <2>6, <3>2, <3>5
    <2>9. CASE st.kind = "INSERT"
        <3>0. PICK n, parsed : SetTaken(st, n, parsed)
            BY <1>5, <2>2, <2>6, <2>9, SetInsertStep
        <3>1. /\ parsed = parse_set_insert_supp(st.body, K, Len(sets[n].keys), Len(key_values))
              /\ sets' = [sets EXCEPT ![n].keys = @ \o parsed.keys]
              /\ parsed.status = "ok"
              /\ set_index' = set_index
            BY <2>2, <3>0 DEF SetTaken, K
        <3>2. n \in 1 .. sets_length /\ sets[n].name = st.into
            BY <3>0 DEF SetTaken, Position
        <3>3. n \in 1 .. set_index /\ Len(sets[n].keys) \in Nat
            <4>1. st.into # NULL
                BY <2>7, <2>9 DEF IsStatement
            <4>2. pos - 1 \in 0 .. Len(file)
                BY <1>0, <2>1
            <4> QED
                BY <2>3, <2>4, <3>2, <4>1, <4>2, SetFound
        <3>4. st.into # UniverseName /\ ~IsUniverseInsert(st)
            BY <2>5, <3>2 DEF IsUniverseInsert
        <3>5. PICK rows, before, room :
                 /\ rows = StatementRows(st, K, A) /\ before = Len(sets[n].keys) /\ room = Len(key_values)
            OBVIOUS
        <3>6. before \in Nat
            BY <3>3, <3>5
        <3>7. room \in Nat
            BY <1>0, <3>5 DEF RowsInv
        <3>8. parsed.keys = Column(rows, 1)
            <4>1. K \in TypeList /\ A \in TypeList
                BY <2>3 DEF GoodFile
            <4> QED
                BY <2>7, <2>9, <3>1, <3>4, <3>5, <3>6, <3>7, <4>1, SetStatementRead
        <3>9. t = [sets EXCEPT ![n].keys = @ \o Column(StatementRows(st, K, A), 1)]
            BY <2>6, <3>1, <3>5, <3>8
        <3>10. IsInto(st, sets[n].name)
            BY <2>9, <3>2 DEF IsInto
        <3>11. SetsAre(t, set_index, sets_length, file, K, A, pos)
            BY <2>1, <2>3, <2>4, <2>6, <3>3, <3>9, <3>10, SetExtended
        <3> QED
            BY <2>6, <3>1, <3>11
    <2>10. st.kind = "SET" \/ st.kind = "INSERT"
        BY <1>0, <1>5, <2>2, <2>6, StatementStep
    <2> QED
        BY <2>8, <2>9, <2>10
<1>6. CASE EndOfStatements
    <2>1. /\ pc = "sets" /\ types' = types /\ UNCHANGED <<pos, sets, sets_length, set_index>>
        BY <1>6 DEF EndOfStatements, universe
    <2> QED
        BY <1>0, <2>1, FollowsOn DEF SetsFaith, types
<1>7. CASE UNCHANGED parseVars
    <2>1. /\ types' = types /\ UNCHANGED <<pc, pos, sets, sets_length, set_index>>
        BY <1>7 DEF parseVars, universe
    <2> QED
        BY <1>0, <2>1, FollowsOn DEF SetsFaith, types
<1> QED
    BY <1>1, <1>2, <1>3, <1>4, <1>5, <1>6, <1>7 DEF Next

\* The invariant holds in every execution.
LEMMA FaithCorrect == Spec => [](ParseInv /\ FaithInv)
<1>1. Init => ParseInv /\ FaithInv
    <2> SUFFICES ASSUME Init PROVE FaithInv
        BY ParseInit
    <2> QED
        BY DEF Init, FaithInv, HeadInv, RowsFaith, SetsFaith, Typed, Counting
<1>2. ParseInv /\ FaithInv /\ [Next]_parseVars => (ParseInv /\ FaithInv)'
    <2>1. ParseInv /\ [Next]_parseVars => ParseInv'
        BY ReadNext, RowsNext, CountNext, NamesNext DEF ParseInv
    <2>2. ParseInv /\ FaithInv /\ [Next]_parseVars => HeadInv' /\ RowsFaith' /\ SetsFaith'
        BY HeadNext, RowsFaithNext, SetsFaithNext DEF FaithInv
    <2> QED
        BY <2>1, <2>2 DEF FaithInv
<1> QED
    BY <1>1, <1>2, PTL DEF Spec

-----------------------------------------------------------------------------
(* The file's own meaning is what the lemmas speak of.                     *)

\* Rows under a name.
LEMMA SameRows == \A name : Inserted(name) = InsertedHere(name)
BY DEF Inserted, InsertedHere, InsertedIn, IsInserted, Grown, IsInto, RowsIn, StatementRows,
       Columns, ColumnsOf

\* Created sets.
LEMMA SameSets == Created = CreatedIn(file)
BY DEF Created, CreatedIn, IsCreated, Named

\* Inserts that follow the grammar.
LEMMA SameGrammar == \A st : WellFormed(st) <=> Follows(st, key_data_type_names, attribute_data_type_names)
BY DEF WellFormed, Follows, Columns, ColumnsOf

\* The members of a set.
LEMMA SameMembers == \A name : MembersOf(name) = Column(InsertedHere(name)[Len(file)], 1)
BY SameRows DEF MembersOf, Column

\* What the parser reports is what stands in the file.
LEMMA FaithSuffices ==
    ASSUME ParseInv, FaithInv
    PROVE  FileFaithful
<1> DEFINE I == InsertedHere(UniverseName)
           n == Len(file)
<1>0. SUFFICES ASSUME pc = "done", \A k \in 1 .. Len(file) : file[k].kind # "EMPTY" /\ WellFormed(file[k])
               PROVE  /\ [r \in 1 .. Len(key_values) |-> <<key_values[r], attribute_values[r]>>] = RowsOfFile
                      /\ [m \in 1 .. sets_length |-> sets[m].name] = SetsOfFile
                      /\ \A m \in 1 .. sets_length : sets[m].keys = MembersOf(sets[m].name)
    BY DEF FileFaithful
<1>1. AllFollow
    BY <1>0, SameGrammar DEF AllFollow
<1>2. /\ pc \in Typed /\ pc \in Counting /\ ReadInv /\ CountInv /\ HeadInv /\ RowsFaith /\ SetsFaith
      /\ GoodFile(file, key_data_type_names, attribute_data_type_names) /\ n \in Nat
      /\ scanned_commands \in 3 .. n
    <2>1. pc \in Typed /\ pc \in Counting
        BY <1>0 DEF Typed, Counting
    <2>2. ReadInv /\ CountInv /\ HeadInv /\ RowsFaith /\ SetsFaith
        BY DEF ParseInv, FaithInv
    <2>3. GoodFile(file, key_data_type_names, attribute_data_type_names)
        BY <1>1, <2>1, FileIsGood
    <2>4. scanned_commands \in 3 .. n
        BY <2>1, <2>2 DEF ReadInv
    <2> QED
        BY <2>1, <2>2, <2>3, <2>4 DEF GoodFile
<1>3. pos = n + 1 /\ pos - 1 = n
    BY <1>0, <1>2 DEF HeadInv
<1>4. I[n] = I[scanned_commands]
    <2>1. NoneInto(file, UniverseName, scanned_commands + 1, n)
        BY <1>0, <1>2, <1>3 DEF HeadInv, NoneInto, IsInto, IsUniverseInsert
    <2>2. scanned_commands \in 0 .. n /\ n \in scanned_commands .. n
        BY <1>2
    <2> QED
        BY <1>2, <2>1, <2>2, InsertedSame DEF InsertedHere
<1>5. [r \in 1 .. Len(key_values) |-> <<key_values[r], attribute_values[r]>>] = RowsOfFile
    <2>1. PICK rows : rows = I[n]
        OBVIOUS
    <2>2. RowsAre(key_values, attribute_values, rows)
        BY <1>1, <1>2, <1>4, <2>1 DEF RowsFaith
    <2>3. /\ key_values = Column(rows, 1) /\ attribute_values = Column(rows, 2) /\ rows \in SeqRows
          /\ \A r \in 1 .. Len(rows) : rows[r] = <<rows[r][1], rows[r][2]>>
        BY <2>2 DEF RowsAre
    <2>4. /\ Len(key_values) = Len(rows) /\ Len(rows) \in Nat
          /\ \A r \in 1 .. Len(rows) : key_values[r] = rows[r][1] /\ attribute_values[r] = rows[r][2]
        BY <2>3 DEF Column, SeqRows
    <2>5. rows = [r \in 1 .. Len(rows) |-> rows[r]]
        BY <2>3 DEF SeqRows
    <2>6. RowsOfFile = rows
        BY <2>1, SameRows DEF RowsOfFile
    <2> QED
        BY <2>3, <2>4, <2>5, <2>6
<1>6. SetsAre(sets, set_index, sets_length, file, key_data_type_names, attribute_data_type_names, n)
    BY <1>0, <1>1, <1>2, <1>3 DEF SetsFaith
<1>7. set_index = sets_length
    BY <1>0, <1>2 DEF CountInv
<1>8. [m \in 1 .. sets_length |-> sets[m].name] = SetsOfFile
    <2>1. PICK c : c = CreatedIn(file)[n]
        OBVIOUS
    <2>2. c \in Seq(NamesIn(file))
        BY <1>2, <2>1, CreatedUpto
    <2>3. Len(c) = sets_length /\ \A m \in 1 .. sets_length : sets[m].name = c[m]
        BY <1>6, <1>7, <2>1 DEF SetsAre
    <2>4. c = [m \in 1 .. Len(c) |-> c[m]]
        BY <2>2
    <2>5. SetsOfFile = c
        BY <2>1, SameSets DEF SetsOfFile
    <2> QED
        BY <2>3, <2>4, <2>5
<1>9. \A m \in 1 .. sets_length : sets[m].keys = MembersOf(sets[m].name)
    BY <1>6, <1>7, SameMembers DEF SetsAre, SetIs, InsertedHere
<1> QED
    BY <1>5, <1>8, <1>9

\* The parser reports success only for what stands in the file: the rows of the
\* universe and the sets with their members, each statement once and in order.
THEOREM FileFaithfulAlways == Spec => []FileFaithful
<1>1. ParseInv /\ FaithInv => FileFaithful
    BY FaithSuffices
<1> QED
    BY <1>1, FaithCorrect, PTL

-----------------------------------------------------------------------------
(* A file in the intended order.                                           *)

OrderAt(f, k) ==
    \/ IsUniverseInsert(f[k]) /\ \A j \in 3 .. k - 1 : f[j].kind # "SET"
    \/ /\ f[k].kind = "SET" /\ f[k].name # UniverseName
       /\ \A j \in 3 .. k - 1 : f[j].kind = "SET" => f[j].name # f[k].name
    \/ /\ f[k].kind = "INSERT"
       /\ \E j \in 3 .. k - 1 : f[j].kind = "SET" /\ f[j].name = f[k].into

MembersFit(members, rows) ==
    /\ IsInjective(members)
    /\ \A m \in 1 .. Len(members) : \E r \in 1 .. Len(rows) : rows[r][1] = members[m]

LegalIn(f, K, A) ==
    /\ Len(f) > 2 /\ f[1].kind = "UNIVERSE" /\ f[2].kind = "ATTRIBUTES" /\ f[2].of = UniverseName
    /\ IsUniverseInsert(f[3])
    /\ \A k \in 1 .. Len(f) : Follows(f[k], K, A)
    /\ \A k \in 4 .. Len(f) : OrderAt(f, k)
    /\ \A i \in 1 .. Len(CreatedIn(f)[Len(f)]) :
          MembersFit(Column(InsertedIn(f, K, A, CreatedIn(f)[Len(f)][i])[Len(f)], 1),
                     InsertedIn(f, K, A, UniverseName)[Len(f)])

\* Such a file, in the terms of the reference.
LEMMA SameOrder ==
    OpensRight /\ (\A k \in 1 .. Len(file) : WellFormed(file[k])) /\ InOrder /\ MembersRight
        => LegalIn(file, key_data_type_names, attribute_data_type_names)
<1> SUFFICES ASSUME OpensRight, \A k \in 1 .. Len(file) : WellFormed(file[k]), InOrder, MembersRight
             PROVE  LegalIn(file, key_data_type_names, attribute_data_type_names)
    OBVIOUS
<1>1. \A k \in 4 .. Len(file) : OrderAt(file, k)
    <2> TAKE k \in 4 .. Len(file)
    <2>1. \A kind : {j \in 3 .. k - 1 : file[j].kind = kind} = {} => \A j \in 3 .. k - 1 : file[j].kind # kind
        OBVIOUS
    <2> QED
        BY <2>1 DEF InOrder, OrderAt
<1>2. \A i \in 1 .. Len(SetsOfFile) : MembersFit(MembersOf(SetsOfFile[i]), RowsOfFile)
    BY DEF MembersRight, MembersFit
<1>3. SetsOfFile = CreatedIn(file)[Len(file)]
    BY SameSets DEF SetsOfFile
<1>4. RowsOfFile = InsertedHere(UniverseName)[Len(file)]
    BY SameRows DEF RowsOfFile
<1>5. \A i \in 1 .. Len(CreatedIn(file)[Len(file)]) :
         MembersFit(Column(InsertedHere(CreatedIn(file)[Len(file)][i])[Len(file)], 1),
                    InsertedHere(UniverseName)[Len(file)])
    BY <1>2, <1>3, <1>4, SameMembers
<1>6. \A k \in 1 .. Len(file) : Follows(file[k], key_data_type_names, attribute_data_type_names)
    BY SameGrammar
<1> QED
    BY <1>1, <1>5, <1>6 DEF LegalIn, OpensRight, InsertedHere

\* Behind the last of the first inserts into the universe there is none.
LEMMA NoLateInsert ==
    ASSUME NEW f, NEW K, NEW A, LegalIn(f, K, A), Len(f) \in Nat, NEW last \in 3 .. Len(f),
           \A j \in 3 .. last : IsUniverseInsert(f[j]),
           last + 1 \notin 1 .. Len(f) \/ ~IsUniverseInsert(f[last + 1])
    PROVE  \A k \in last + 1 .. Len(f) : ~IsUniverseInsert(f[k])
<1> SUFFICES ASSUME NEW k \in last + 1 .. Len(f), IsUniverseInsert(f[k]) PROVE FALSE
    OBVIOUS
<1>1. \A i \in 4 .. Len(f) : OrderAt(f, i)
    BY DEF LegalIn
<1>2. PICK next : next = last + 1
    OBVIOUS
<1>3. next \in 4 .. Len(f) /\ next # k /\ next \in 3 .. k - 1 /\ ~IsUniverseInsert(f[next])
      /\ k \in 4 .. Len(f) /\ next - 1 = last
    <2>1. next \in 4 .. Len(f) /\ next \in 1 .. Len(f) /\ k \in 4 .. Len(f) /\ next - 1 = last
        BY <1>2
    <2>2. ~IsUniverseInsert(f[next])
        BY <1>2, <2>1
    <2>3. next # k
        BY <2>2
    <2> QED
        BY <1>2, <2>1, <2>2, <2>3
<1>4. \A j \in 3 .. last : f[j].kind # "SET"
    BY DEF IsUniverseInsert
<1>5. f[next].kind = "SET"
    BY <1>1, <1>3, <1>4 DEF OrderAt
<1>6. PICK j \in 3 .. k - 1 : f[j].kind = "SET" /\ f[j].name = UniverseName
    <2>1. f[k].kind = "INSERT" /\ f[k].into = UniverseName
        BY DEF IsUniverseInsert
    <2> QED
        BY <1>1, <1>3, <1>5, <2>1 DEF OrderAt
<1>7. j # 3
    BY <1>4, <1>6
<1>8. j \in 4 .. Len(f)
    BY <1>3, <1>7
<1> QED
    BY <1>1, <1>6, <1>8 DEF OrderAt, IsUniverseInsert

\* The numbers up to n.
LEMMA NumbersCounted ==
    ASSUME NEW n \in Nat
    PROVE  IsFiniteSet(1 .. n) /\ Cardinality(1 .. n) = n
<1>1. 1 \in Int /\ n \in Int
    OBVIOUS
<1>2. IsFiniteSet(1 .. n)
    BY <1>1, FS_Interval
<1>3. Cardinality(1 .. n) = IF 1 > n THEN 0 ELSE n - 1 + 1
    BY <1>1, FS_Interval
<1>4. (IF 1 > n THEN 0 ELSE n - 1 + 1) = n
    OBVIOUS
<1> QED
    BY <1>2, <1>3, <1>4

\* A set has no more members than the universe has rows.
LEMMA MembersHaveRoom ==
    ASSUME NEW members, NEW rows, Len(members) \in Nat, Len(rows) \in Nat,
           DOMAIN members = 1 .. Len(members), MembersFit(members, rows)
    PROVE  Len(members) <= Len(rows)
<1>1. PICK n \in Nat : n = Len(members)
    OBVIOUS
<1>2. PICK m \in Nat : m = Len(rows)
    OBVIOUS
<1> DEFINE f == [a \in 1 .. n |-> CHOOSE r \in 1 .. m : rows[r][1] = members[a]]
<1>3. \A a \in 1 .. n : f[a] \in 1 .. m /\ rows[f[a]][1] = members[a]
    BY <1>1, <1>2 DEF MembersFit
<1>4. f \in [1 .. n -> 1 .. m]
    BY <1>3
<1> HIDE DEF f
<1>5. \A a, b \in 1 .. n : members[a] = members[b] => a = b
    BY <1>1 DEF MembersFit, IsInjective
<1>6. \A a, b \in 1 .. n : f[a] = f[b] => a = b
    <2> SUFFICES ASSUME NEW a \in 1 .. n, NEW b \in 1 .. n, f[a] = f[b] PROVE a = b
        OBVIOUS
    <2>1. members[a] = members[b]
        BY <1>3
    <2> QED
        BY <1>5, <2>1
<1>7. f \in Injection(1 .. n, 1 .. m)
    BY <1>4, <1>6 DEF Injection, IsInjective
<1>8. IsFiniteSet(1 .. m) /\ Cardinality(1 .. m) = m
    BY NumbersCounted
<1>9. Cardinality(1 .. n) = n
    BY NumbersCounted
<1>10. Cardinality(1 .. n) <= Cardinality(1 .. m)
    BY <1>7, <1>8, FS_Injection
<1> QED
    BY <1>1, <1>2, <1>8, <1>9, <1>10

\* A set has room for the members that one more insert adds.
LEMMA InsertHasRoom ==
    ASSUME NEW f, NEW K, NEW A, GoodFile(f, K, A), LegalIn(f, K, A), NEW k \in 1 .. Len(f), NEW name,
           IsInto(f[k], name), NEW j \in 1 .. Len(f), f[j].kind = "SET", f[j].name = name
    PROVE  Len(InsertedIn(f, K, A, name)[k - 1]) + Len(StatementRows(f[k], K, A))
              <= Len(InsertedIn(f, K, A, UniverseName)[Len(f)])
<1>0. Len(f) \in Nat /\ k - 1 \in 0 .. Len(f) /\ k \in 0 .. Len(f) /\ Len(f) \in k .. Len(f)
      /\ Len(f) \in 0 .. Len(f)
    BY DEF GoodFile
<1>1. PICK old, new, all, rows :
         /\ old = InsertedIn(f, K, A, name)[k - 1] /\ new = StatementRows(f[k], K, A)
         /\ all = InsertedIn(f, K, A, name)[Len(f)]
         /\ rows = InsertedIn(f, K, A, UniverseName)[Len(f)]
    OBVIOUS
<1>2. old \in SeqRows /\ all \in SeqRows /\ rows \in SeqRows
    <2>1. InsertedIn(f, K, A, name)[k - 1] \in SeqRows
        BY <1>0, InsertedUpto
    <2>2. InsertedIn(f, K, A, name)[Len(f)] \in SeqRows
        BY <1>0, InsertedUpto
    <2>3. InsertedIn(f, K, A, UniverseName)[Len(f)] \in SeqRows
        BY <1>0, InsertedUpto
    <2> QED
        BY <1>1, <2>1, <2>2, <2>3
<1>3. new \in SeqRows
    <2>1. PICK st : st = f[k]
        OBVIOUS
    <2>2. IsStatement(st) /\ st.kind = "INSERT" /\ K \in TypeList /\ A \in TypeList /\ Follows(st, K, A)
        BY <2>1 DEF GoodFile, IsInto
    <2>3. StatementRows(st, K, A) \in SeqRows
        BY <2>2, StatementFollows
    <2> QED
        BY <1>1, <2>1, <2>3
<1>4. InsertedIn(f, K, A, name)[k] = old \o new
    <2>1. InsertedIn(f, K, A, name)[k] = Grown(f[k], K, A, name, InsertedIn(f, K, A, name)[k - 1])
        BY InsertedUpto
    <2> QED
        BY <1>1, <2>1 DEF Grown
<1>5. Len(old \o new) = Len(old) + Len(new)
    BY <1>2, <1>3 DEF SeqRows
<1>6. Len(InsertedIn(f, K, A, name)[k]) <= Len(InsertedIn(f, K, A, name)[Len(f)])
    BY <1>0, InsertedMore
<1>7. Len(all) <= Len(rows)
    <2>1. PICK members : members = Column(all, 1)
        OBVIOUS
    <2>2. /\ Len(members) = Len(all) /\ Len(members) \in Nat /\ DOMAIN members = 1 .. Len(members)
          /\ Len(rows) \in Nat
        BY <1>2, <2>1 DEF Column, SeqRows
    <2>3. MembersFit(members, rows)
        <3>1. NamesAgree(f, CreatedIn(f)[Len(f)], Len(f))
            BY <1>0, CreatedNames
        <3>2. PICK i \in 1 .. Len(CreatedIn(f)[Len(f)]) : CreatedIn(f)[Len(f)][i] = name
            BY <3>1 DEF NamesAgree
        <3>3. MembersFit(Column(InsertedIn(f, K, A, CreatedIn(f)[Len(f)][i])[Len(f)], 1),
                         InsertedIn(f, K, A, UniverseName)[Len(f)])
            BY DEF LegalIn
        <3> QED
            BY <1>1, <2>1, <3>2, <3>3
    <2>4. Len(members) <= Len(rows)
        BY <2>2, <2>3, MembersHaveRoom
    <2> QED
        BY <2>2, <2>4
<1>8. Len(old) + Len(new) <= Len(all)
    BY <1>1, <1>4, <1>5, <1>6
<1>9. Len(old) \in Nat /\ Len(new) \in Nat /\ Len(all) \in Nat /\ Len(rows) \in Nat
    BY <1>2, <1>3 DEF SeqRows
<1>10. Len(old) + Len(new) <= Len(rows)
    BY <1>7, <1>8, <1>9
<1> QED
    BY <1>1, <1>10

-----------------------------------------------------------------------------
(* And such a file is read to its end.                                     *)

Stopped == {"failed", "aborted", "overfull", "crashed"}

LegalHeld == pc \in Stopped => ~LegalIn(file, key_data_type_names, attribute_data_type_names)

\* The declarations and the first inserts are read.
LEMMA OpeningRead ==
    ASSUME ParseInv, FaithInv, ReadUniverse \/ ReadAttributes \/ ReadFirstInsert \/ ReadInsert,
           NEW K, NEW A, LegalIn(file, K, A),
           pc \in {"insert", "inserts"} => K = key_data_type_names /\ A = attribute_data_type_names
    PROVE  pc' \notin Stopped
<1>0. /\ ReadInv /\ HeadInv /\ RowsFaith /\ Fscanf /\ Len(file) \in Nat
    BY FileFacts DEF ParseInv, FaithInv, ReadUniverse, ReadAttributes, ReadFirstInsert, ReadInsert, ReadInv
<1>1. /\ Len(file) > 2 /\ file[1].kind = "UNIVERSE" /\ file[2].kind = "ATTRIBUTES"
      /\ file[2].of = UniverseName /\ IsUniverseInsert(file[3])
    BY DEF LegalIn
<1>2. CASE ReadUniverse
    <2>1. pos = 1
        BY <1>0, <1>2 DEF ReadUniverse, ReadInv
    <2>2. Matches /\ buffer' = file[1]
        BY <1>0, <1>1, <2>1, Reads
    <2>3. pc' = "attributes"
        BY <1>1, <1>2, <2>2 DEF ReadUniverse
    <2> QED
        BY <2>3 DEF Stopped
<1>3. CASE ReadAttributes
    <2>1. pos = 2
        BY <1>0, <1>3 DEF ReadAttributes, ReadInv
    <2>2. Matches /\ buffer' = file[2]
        BY <1>0, <1>1, <2>1, Reads
    <2>3. pc' = "insert"
        BY <1>1, <1>3, <2>2 DEF ReadAttributes
    <2> QED
        BY <2>3 DEF Stopped
<1>4. CASE (ReadFirstInsert \/ ReadInsert) /\ pos \in 1 .. Len(file) /\ IsUniverseInsert(file[pos])
    <2>1. K = key_data_type_names /\ A = attribute_data_type_names
        BY <1>4 DEF ReadFirstInsert, ReadInsert
    <2>2. AllFollow
        BY <2>1 DEF LegalIn, AllFollow
    <2>3. pc' = "inserts"
        BY <1>4, <2>2, InsertTaken
    <2> QED
        BY <2>3 DEF Stopped
<1>5. CASE ReadFirstInsert
    <2>1. pos = 3
        BY <1>0, <1>5 DEF ReadFirstInsert, ReadInv
    <2>2. pos \in 1 .. Len(file) /\ IsUniverseInsert(file[pos])
        BY <1>0, <1>1, <2>1
    <2> QED
        BY <1>4, <1>5, <2>2
<1>6. CASE ReadInsert /\ ~(pos \in 1 .. Len(file) /\ IsUniverseInsert(file[pos]))
    <2>1. PICK parsed : parsed = IF Matches THEN parse_universe_insert(buffer') ELSE NoInsert
        OBVIOUS
    <2>2. parsed = NoInsert
        <3>1. Matches => pos \in 1 .. Len(file) /\ buffer' = file[pos]
            BY <1>0, Reads
        <3> QED
            BY <1>6, <2>1, <3>1 DEF parse_universe_insert
    <2>3. InsertIntoUniverse(parsed, "inserts", "count")
        BY <1>6, <2>1 DEF ReadInsert
    <2>4. parsed.status = "error"
        BY <2>2, NoRows
    <2>5. pc' = "count"
        BY <2>3, <2>4 DEF InsertIntoUniverse
    <2> QED
        BY <2>5 DEF Stopped
<1> QED
    BY <1>2, <1>3, <1>4, <1>5, <1>6

\* What is known before a statement of the second pass.
LEMMA SecondPass ==
    ASSUME ParseInv, FaithInv, ReadStatement,
           NEW f, f = file, NEW K, K = key_data_type_names, NEW A, A = attribute_data_type_names,
           LegalIn(f, K, A)
    PROVE  /\ GoodFile(f, K, A) /\ Len(f) \in Nat /\ pos \in 4 .. Len(f) /\ buffer' = f[pos]
           /\ SetsAre(sets, set_index, sets_length, f, K, A, pos - 1)
           /\ f[1].kind = "UNIVERSE" /\ f[2].kind = "ATTRIBUTES" /\ OrderAt(f, pos)
           /\ ~IsUniverseInsert(f[pos]) /\ pc' # "aborted"
           /\ Len(key_values) \in Nat
           /\ Len(key_values) = Len(InsertedIn(f, K, A, UniverseName)[Len(f)])
<1>1. /\ ReadInv /\ RowsInv /\ NamesInv /\ HeadInv /\ RowsFaith /\ SetsFaith /\ Len(f) \in Nat
    BY FileFacts DEF ParseInv, FaithInv
<1>2. pc = "sets" /\ pos \in 1 .. Len(f) /\ buffer' = f[pos] /\ pc \in Typed /\ pc \in Counting
    BY <1>1, StatementStep DEF Typed, Counting
<1>3. AllFollow
    BY DEF LegalIn, AllFollow
<1>4. GoodFile(f, K, A)
    BY <1>2, <1>3, FileIsGood
<1>5. SetsAre(sets, set_index, sets_length, f, K, A, pos - 1)
    BY <1>1, <1>2, <1>3 DEF SetsFaith
<1>6. PICK last : last = scanned_commands
    OBVIOUS
<1>7. /\ last \in 3 .. Len(f) /\ pos > last /\ (\A j \in 3 .. last : IsUniverseInsert(f[j]))
      /\ last + 1 \notin 1 .. Len(f) \/ ~IsUniverseInsert(f[last + 1])
    BY <1>1, <1>2, <1>3, <1>6 DEF ReadInv, HeadInv, RowsFaith
<1>8. \A k \in last + 1 .. Len(f) : ~IsUniverseInsert(f[k])
    BY <1>1, <1>7, NoLateInsert
<1>9. pos \in last + 1 .. Len(f) /\ pos \in 4 .. Len(f)
    BY <1>1, <1>2, <1>7
<1>10. pc' # "aborted"
    <2>1. CountInv'
        BY CountNext DEF Next
    <2> QED
        BY <2>1 DEF CountInv
<1>11. PICK rows, all :
          rows = InsertedIn(f, K, A, UniverseName)[last] /\ all = InsertedIn(f, K, A, UniverseName)[Len(f)]
    OBVIOUS
<1>12. Len(key_values) = Len(rows)
    <2>1. RowsAre(key_values, attribute_values, rows)
        BY <1>1, <1>2, <1>3, <1>6, <1>11 DEF RowsFaith, InsertedHere
    <2>2. Len(Column(rows, 1)) = Len(rows)
        BY <2>1 DEF RowsAre, Column, SeqRows
    <2> QED
        BY <2>1, <2>2 DEF RowsAre
<1>13. rows = all
    <2>1. NoneInto(f, UniverseName, last + 1, Len(f))
        BY <1>8 DEF NoneInto, IsInto, IsUniverseInsert
    <2>2. last \in 0 .. Len(f) /\ Len(f) \in last .. Len(f)
        BY <1>1, <1>7
    <2> QED
        BY <1>4, <1>11, <2>1, <2>2, InsertedSame
<1>14. OrderAt(f, pos) /\ f[1].kind = "UNIVERSE" /\ f[2].kind = "ATTRIBUTES"
    BY <1>9 DEF LegalIn
<1>15. Len(key_values) \in Nat
    BY <1>1 DEF RowsInv
<1> QED
    BY <1>1, <1>2, <1>4, <1>5, <1>8, <1>9, <1>10, <1>11, <1>12, <1>13, <1>14, <1>15

\* A CREATE SET of the second pass finds neither the universe nor a set of its name.
LEMMA CreateRead ==
    ASSUME ParseInv, FaithInv, ReadStatement,
           LegalIn(file, key_data_type_names, attribute_data_type_names), file[pos].kind = "SET"
    PROVE  pc' \notin Stopped
<1>1. PICK f, K, A : f = file /\ K = key_data_type_names /\ A = attribute_data_type_names
    OBVIOUS
<1>2. /\ GoodFile(f, K, A) /\ Len(f) \in Nat /\ pos \in 4 .. Len(f) /\ buffer' = f[pos]
      /\ SetsAre(sets, set_index, sets_length, f, K, A, pos - 1)
      /\ f[1].kind = "UNIVERSE" /\ f[2].kind = "ATTRIBUTES" /\ OrderAt(f, pos) /\ pc' # "aborted"
    BY <1>1, SecondPass
<1>3. PICK name : name = f[pos].name
    OBVIOUS
<1>4. CreateSet(name)
    BY <1>1, <1>2, <1>3 DEF ReadStatement
<1>5. /\ name # UniverseName /\ name # NULL
      /\ \A j \in 3 .. pos - 1 : f[j].kind = "SET" => f[j].name # name
    <2>1. pos \in 1 .. Len(f)
        BY <1>2
    <2>2. IsStatement(f[pos])
        BY <1>2, <2>1 DEF GoodFile
    <2>3. f[pos].kind = "SET"
        BY <1>1
    <2> QED
        BY <1>2, <1>3, <2>2, <2>3 DEF OrderAt, IsStatement, IsUniverseInsert
<1>6. pos - 1 \in 0 .. Len(f)
    BY <1>2
<1>7. ASSUME NEW n \in Position(name) PROVE FALSE
    <2>1. n \in 1 .. sets_length /\ sets[n].name = name
        BY DEF Position
    <2>2. n \in 1 .. set_index
        BY <1>2, <1>5, <1>6, <2>1, SetFound
    <2>3. PICK c : c = CreatedIn(f)[pos - 1]
        OBVIOUS
    <2>4. c[n] = name /\ n \in 1 .. Len(c)
        BY <1>2, <2>1, <2>2, <2>3 DEF SetsAre
    <2>5. NamesAgree(f, c, pos - 1)
        BY <1>2, <1>6, <2>3, CreatedNames
    <2>6. PICK j \in 1 .. pos - 1 : f[j].kind = "SET" /\ f[j].name = name
        BY <2>4, <2>5 DEF NamesAgree
    <2>7. j # 1 /\ j # 2
        BY <1>2, <2>6
    <2>8. j \in 3 .. pos - 1
        BY <1>2, <2>7
    <2> QED
        BY <1>5, <2>6, <2>8
<1>8. pc' = "sets"
    BY <1>2, <1>4, <1>5, <1>7 DEF CreateSet
<1> QED
    BY <1>8 DEF Stopped

\* An INSERT of the second pass finds its set, and room in it.
LEMMA MembersRead ==
    ASSUME ParseInv, FaithInv, ReadStatement,
           LegalIn(file, key_data_type_names, attribute_data_type_names), file[pos].kind = "INSERT"
    PROVE  pc' \notin Stopped
<1>1. PICK f, K, A : f = file /\ K = key_data_type_names /\ A = attribute_data_type_names
    OBVIOUS
<1>2. /\ GoodFile(f, K, A) /\ LegalIn(f, K, A) /\ Len(f) \in Nat /\ pos \in 4 .. Len(f)
      /\ SetsAre(sets, set_index, sets_length, f, K, A, pos - 1)
      /\ OrderAt(f, pos) /\ ~IsUniverseInsert(f[pos])
    BY <1>1, SecondPass
<1>3. PICK st, name : st = f[pos] /\ name = st.into
    OBVIOUS
<1>4. pos \in 1 .. Len(f) /\ pos - 1 \in 0 .. Len(f)
    BY <1>2
<1>5. /\ IsStatement(st) /\ Follows(st, K, A) /\ st.kind = "INSERT" /\ ~IsUniverseInsert(st)
      /\ K \in TypeList /\ A \in TypeList /\ st = file[pos]
    BY <1>1, <1>2, <1>3, <1>4 DEF GoodFile
<1>6. name # NULL
    BY <1>3, <1>5 DEF IsStatement
<1>7. PICK j \in 3 .. pos - 1 : f[j].kind = "SET" /\ f[j].name = name
    <2>1. f[pos].kind = "INSERT" /\ f[pos].into = name
        BY <1>3, <1>5
    <2> QED
        BY <1>2, <2>1 DEF OrderAt
<1>8. j \in 1 .. Len(f) /\ j \in 1 .. pos - 1
    BY <1>2
<1>9. Position(name) # {}
    <2>1. PICK c : c = CreatedIn(f)[pos - 1]
        OBVIOUS
    <2>2. NamesAgree(f, c, pos - 1)
        BY <1>2, <1>4, <2>1, CreatedNames
    <2>3. PICK n \in 1 .. Len(c) : c[n] = name
        BY <1>7, <1>8, <2>2 DEF NamesAgree
    <2>4. n \in 1 .. set_index /\ sets[n].name = name
        BY <1>2, <2>1, <2>3 DEF SetsAre
    <2>5. n \in 1 .. sets_length
        BY <1>2, <2>4 DEF SetsAre
    <2> QED
        BY <2>4, <2>5 DEF Position
<1>10. PICK n, parsed : SetTaken(st, n, parsed)
    BY <1>3, <1>5, <1>9, SetInsertStep
<1>11. PICK before, room, rows :
          before = Len(sets[n].keys) /\ room = Len(key_values) /\ rows = StatementRows(st, K, A)
    OBVIOUS
<1>12. parsed = parse_set_insert_supp(st.body, K, before, room)
    BY <1>1, <1>10, <1>11 DEF SetTaken
<1>13. before \in Nat /\ before = Len(InsertedIn(f, K, A, name)[pos - 1])
    <2>1. n \in 1 .. sets_length /\ sets[n].name = name
        BY <1>3, <1>10 DEF SetTaken, Position
    <2> QED
        BY <1>2, <1>4, <1>6, <1>11, <2>1, SetFound
<1>14. room \in Nat /\ room = Len(InsertedIn(f, K, A, UniverseName)[Len(f)])
    BY <1>1, <1>11, SecondPass
<1>15. before + Len(rows) <= room
    <2>1. IsInto(f[pos], name)
        BY <1>3, <1>5 DEF IsInto
    <2>2. Len(InsertedIn(f, K, A, name)[pos - 1]) + Len(StatementRows(f[pos], K, A))
             <= Len(InsertedIn(f, K, A, UniverseName)[Len(f)])
        BY <1>2, <1>4, <1>7, <1>8, <2>1, InsertHasRoom
    <2> QED
        BY <1>3, <1>11, <1>13, <1>14, <2>2
<1>16. parsed.status = "ok"
    <2>1. before \in Nat /\ room \in Nat /\ rows = StatementRows(st, K, A)
        BY <1>11, <1>13, <1>14
    <2> QED
        BY <1>5, <1>12, <1>15, <2>1, SetStatementRead
<1>17. pc' = "sets"
    BY <1>10, <1>16 DEF SetTaken
<1> QED
    BY <1>17 DEF Stopped

\* Every step keeps LegalHeld.
LEMMA LegalNext ==
    ASSUME ParseInv, FaithInv, LegalHeld, [Next]_parseVars
    PROVE  LegalHeld'
<1>0. ReadInv /\ NamesInv /\ file' = file
    BY DEF ParseInv, Next, parseVars, ReadUniverse, ReadAttributes, ReadFirstInsert,
           ReadInsert, CountSet, Rewind, ReadStatement, EndOfStatements
<1>1. PICK K, A : K = key_data_type_names' /\ A = attribute_data_type_names'
    OBVIOUS
<1>2. LegalHeld' <=> (pc' \in Stopped => ~LegalIn(file, K, A))
    BY <1>0, <1>1 DEF LegalHeld, LegalIn, OrderAt, Follows, ColumnsOf, Stopped, IsUniverseInsert
<1>3. SUFFICES ASSUME LegalIn(file, K, A), pc' \in Stopped PROVE FALSE
    BY <1>2
<1>4. CASE ReadUniverse \/ ReadAttributes \/ ReadFirstInsert \/ ReadInsert
    <2>1. pc \in {"insert", "inserts"} => K = key_data_type_names /\ A = attribute_data_type_names
        BY <1>1, <1>4 DEF ReadUniverse, ReadAttributes, ReadFirstInsert, ReadInsert, types
    <2> QED
        BY <1>3, <1>4, <2>1, OpeningRead
<1>5. CASE CountSet \/ Rewind \/ EndOfStatements
    BY <1>3, <1>5 DEF CountSet, Rewind, EndOfStatements, Stopped
<1>6. CASE ReadStatement
    <2>1. K = key_data_type_names /\ A = attribute_data_type_names
        BY <1>1, <1>6 DEF ReadStatement, types
    <2>2. LegalIn(file, key_data_type_names, attribute_data_type_names)
        BY <1>3, <2>1
    <2>3. PICK st : st = file[pos]
        OBVIOUS
    <2>4. st.kind = "SET" \/ st.kind = "INSERT"
        <3>1. OrderAt(file, pos)
            BY <1>6, <2>2, SecondPass
        <3> QED
            BY <2>3, <3>1 DEF OrderAt, IsUniverseInsert
    <2> QED
        BY <1>3, <1>6, <2>2, <2>3, <2>4, CreateRead, MembersRead
<1>7. CASE UNCHANGED parseVars
    <2>1. K = key_data_type_names /\ A = attribute_data_type_names /\ pc' = pc
        BY <1>1, <1>7 DEF parseVars, types
    <2> QED
        BY <1>3, <2>1 DEF LegalHeld
<1> QED
    BY <1>4, <1>5, <1>6, <1>7 DEF Next

\* A legal file is never given up.
LEMMA LegalCorrect == Spec => [](ParseInv /\ FaithInv /\ LegalHeld)
<1>1. Init => LegalHeld
    BY DEF Init, LegalHeld, Stopped
<1>2. ParseInv /\ FaithInv /\ LegalHeld /\ [Next]_parseVars => LegalHeld'
    BY LegalNext
<1> QED
    BY <1>1, <1>2, FaithCorrect, PTL DEF Spec

\* A file in the intended order whose inserts follow the grammar and whose sets
\* list keys of the universe, each once, is neither refused nor stopped by an
\* assertion of the parser.
THEOREM LegalFileReadAlways == Spec => []LegalFileRead
<1>1. LegalHeld => LegalFileRead
    BY SameOrder DEF LegalFileRead, LegalHeld, Stopped
<1> QED
    BY <1>1, LegalCorrect, PTL

=============================================================================
