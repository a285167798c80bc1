------------------------------- MODULE MCSetQL -------------------------------
(* The whole system with one connection, for TLC. *)
EXTENDS SetQL

CONSTANTS c1, h1, h2

Left(kind, n, blanks) == [kind |-> kind, left |-> n, blanks |-> blanks]

\* A query, one with a blank, one with another character behind it and one that
\* lost its last character, the empty line: each may be a line or a piece of one.
TypedTexts == {Left("query", 2, 0), Left("query", 3, 1), Left("query", 3, 0),
               Left("query", 1, 0), Left("unknown", 2, 0), Left("quit", 2, 0),
               Left("junk", 0, 0)}

Load(n, inputEnds, m, hs) ==
    [lines |-> n, ends |-> inputEnds, requests |-> m, handlers |-> hs]

Loads == {Load(2, TRUE, 0, {}), Load(1, FALSE, 1, {h1}),
          Load(0, FALSE, 3, {h1}), Load(0, FALSE, 2, {h1, h2})}
=============================================================================
