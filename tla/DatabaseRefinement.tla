------------------------- MODULE DatabaseRefinement -------------------------
(***************************************************************************)
(* The symbol tables, bitsets and arrays of database.c keep the sets and   *)
(* attributes that SetStore describes.                                     *)
(***************************************************************************)
EXTENDS Database

Store == INSTANCE SetStore WITH
    Key       <- KeyNames,
    Set       <- SetNames,
    Attribute <- AttrNames,
    Value     <- {Stored(l[1], d) : l \in Layouts, d \in Data},
    keys      <- DOMAIN keyTable,
    members   <- [s \in DOMAIN setNamesTable |-> Members(s)],
    value     <- [a \in DOMAIN attrNamesTable |-> [k \in DOMAIN keyTable |-> ValueOf(a, k)]]

\* Every call of database.h changes the set, or the value of the key, that it
\* names and no other, although a set is a row of bits and an attribute a
\* packed array, both addressed by indexes from three symbol tables.
ImplementsSetStore == Store!Spec
=============================================================================
