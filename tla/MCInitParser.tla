----------------------------- MODULE MCInitParser -----------------------------
(* Three opening statements, then up to four others; inserts that are     *)
(* damaged in one token; keys and values in parentheses.                     *)
EXTENDS FileGrammar

CONSTANTS Animal, Bird, Fish, a, b

Universe(t)     == [kind |-> "UNIVERSE", types |-> t]
Attributes(n, t) == [kind |-> "ATTRIBUTES", of |-> n, types |-> t]
Create(n)       == [kind |-> "SET", name |-> n]
Insert(n, t)    == [kind |-> "INSERT", into |-> n, body |-> t]
Nothing         == [kind |-> "EMPTY"]
Other           == [kind |-> "OTHER"]

\* Strings, one of them with delimiters and a quote in it.
String(s) == <<Quote>> \o s \o <<Quote>>
A == String(<<a>>)
B == String(<<b, Comma, Colon, Backslash, Quote>>)
In(s) == <<Open>> \o s \o <<Close>>

AWhole == A \o <<Colon, 7>>
BWhole == B \o <<Colon>> \o In(<<8>>)

Definitions == <<Universe(<<"STRING">>), Attributes(Animal, <<"INTEGER">>)>>
Whole       == Insert(Animal, AWhole \o <<Comma>> \o BWhole)

Others == {Create(Bird), Create(Fish), Create(Animal),
          Insert(Bird, A), Insert(Bird, B), Insert(Bird, B \o <<Comma>> \o AWhole),
          Insert(Fish, A \o <<Comma>> \o B \o <<Comma>> \o A),
          Insert(Animal, AWhole \o <<Comma>> \o B), Insert(Animal, A),
          Insert(Animal, AWhole \o <<Comma>> \o B \o <<Colon, b>>),
          Insert(Animal, <<a, Colon, 7, Comma>> \o BWhole),
          Nothing, Other}

\* What a file with four others goes on with.
Starts == {Create(Bird), Insert(Animal, AWhole), Insert(Animal, AWhole \o <<Comma>> \o B)}

Openings ==
    {<<>>, <<Nothing>>, Definitions, Definitions \o <<Nothing>>,
     <<Definitions[1], Attributes(Bird, <<"INTEGER">>)>>,
     <<Definitions[1], Create(Bird)>>}

Tokens == {Open, Close, Comma, Colon, Quote, Backslash, a, 7}

Damaged(t) ==
    {t} \cup {RemoveAt(t, k) : k \in 1 .. Len(t)}
    \cup {InsertAt(t, k, x) : k \in 1 .. Len(t) + 1, x \in Tokens}
    \cup {ReplaceAt(t, k, x) : k \in 1 .. Len(t), x \in Tokens}

\* Keys and values of two parts.
Pair(x, y)   == In(x \o <<Comma>> \o y)
PairFile(t)  ==
    <<Universe(<<"STRING", "FLOAT">>), Attributes(Animal, <<"FLOAT", "STRING">>),
      Insert(Animal, Pair(A, <<7>>) \o <<Colon>> \o Pair(<<7>>, B) \o <<Comma>>
                        \o Pair(B, <<7>>) \o <<Colon>> \o Pair(<<8>>, A)),
      Create(Bird)>> \o t

PairTails ==
    {<<Insert(Bird, Pair(A, <<7>>) \o <<Comma>> \o Pair(B, <<7>>))>>,
     <<Insert(Bird, Pair(A, <<7>>)), Insert(Bird, Pair(B, <<7>>))>>,
     <<Insert(Bird, A)>>, <<Insert(Bird, Pair(A, B))>>}

\* Three strings are counted where there are two.
Miscounted ==
    <<Universe(<<"STRING", "STRING", "STRING">>), Attributes(Animal, <<"STRING">>),
      Insert(Animal, In(A \o <<Comma>> \o A \o <<Comma>> \o A) \o <<Colon>> \o A), Create(Bird),
      Insert(Bird, In(String(<<a, Backslash, Backslash>>) \o <<Comma>>
                         \o String(<<b, Comma, b, Comma, b>>)))>>

FilesRead ==
    Openings
    \cup {Definitions \o <<st>> : st \in Others}
    \cup {Definitions \o <<Whole>> \o t : t \in UNION {[1 .. n -> Others] : n \in 0 .. 3}}
    \cup {Definitions \o <<Whole, st>> \o t : st \in Starts, t \in [1 .. 3 -> Others]}
    \cup {Definitions \o <<Insert(Animal, t)>> : t \in Damaged(Whole.body)}
    \cup {Definitions \o <<Whole, Create(Bird), Insert(Bird, t)>> :
             t \in Damaged(B \o <<Comma>> \o A)}
    \cup {PairFile(t) : t \in PairTails} \cup {Miscounted}
================================================================================
