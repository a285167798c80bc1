------------------------------- MODULE MCQuery -------------------------------
(* Texts over two sets and a name that is in no table: trees of depth two  *)
(* in full, and texts that are close to a query.                           *)
EXTENDS Query

In(s) == <<Open>> \o s \o <<Close>>

Grow(texts) ==
    {<<ComplementWord>> \o In(l) : l \in texts}
    \cup {<<w>> \o In(l \o <<Comma>> \o r) : w \in DOMAIN Operation, l \in texts, r \in texts}

Leaves  == {<<1>>, <<2>>}
Shallow == Leaves \cup Grow(Leaves)
Trees   == {<<9>>} \cup Shallow \cup Grow(Shallow) \cup Grow({<<1>>, <<9>>})

Columns == {<<1>>, <<2, 1>>, <<1, 9>>, <<3>>, <<1, 2, 1, 2>>, <<1, 2, 2, 9>>}

Message(columns, expression) ==
    <<SelectWord>> \o FlattenSeq([c \in 1 .. Len(columns) |->
                         IF c = 1 THEN <<columns[c]>> ELSE <<Comma, columns[c]>>])
        \o <<FromWord>> \o expression \o <<Semicolon>>

Tokens == Signs \cup DOMAIN Operation \cup {SelectWord, FromWord, ComplementWord, 1}

Damaged(t) ==
    {RemoveAt(t, k) : k \in 1 .. Len(t)}
    \cup {InsertAt(t, k, x) : k \in 1 .. Len(t) + 1, x \in Tokens}
    \cup {ReplaceAt(t, k, x) : k \in 1 .. Len(t), x \in Tokens}

\* Nested on both sides, with parentheses of their own and a lone COMPLEMENT.
Nested ==
    <<UnionWord>> \o In(In(<<UnionWord>> \o In(<<1, Comma, 2>>)) \o <<Comma, DifferenceWord>>
        \o In(<<ComplementWord, 2, Comma>> \o In(<<1>>)))

Exprs ==
    {Nested, <<1>>, In(<<1>>), <<ComplementWord, 1>>,
     <<ComplementWord>> \o In(In(<<2>>)), <<UnionWord>> \o In(<<1, Comma, 2>>)}

MessagesAsked ==
    {Message(<<1>>, e) : e \in Trees}
    \cup {Message(c, e) : c \in Columns, e \in Shallow \cup {<<9>>}}
    \cup {Message(<<1>>, e) : e \in UNION {[1 .. n -> Tokens] : n \in 1 .. 3}}
    \cup UNION {Damaged(Message(<<2, 1>>, e)) : e \in Exprs}
================================================================================
