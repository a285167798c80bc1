------------------------------- MODULE Loader -------------------------------
(***************************************************************************)
(* db_addParsedData of parser_db_translation.c: what the initialization    *)
(* file declares (the universe of parser.c) is put into an empty database  *)
(* by the calls of Database, one at a time and in the order of the code.   *)
(* main() makes the database as large as the number of rows, ignores the   *)
(* result and serves what was loaded.                                      *)
(***************************************************************************)
EXTENDS Database, SequencesExt

CONSTANTS
    Universes,              \* what the file may declare
    DB_MAX_STRING_LENGTH

\* keyName names the key column; rows are the first key values and the
\* attribute values; set_values are key values of each set, any text.  The
\* parser's names are words of one letter at least and of any length, and an
\* insert may have no rows.
Column == [name : Text \ {0}, type : {"STRING", "INTEGER", "FLOAT", "string"}]
Cells  == [isText : BOOLEAN, value : Nat]

IsUniverse(un) ==
    /\ un.keyName \in Text \ {0}
    /\ un.keys \in Seq(Text \ {0})
    /\ un.columns \in Seq(Column)
    /\ un.sets \in Seq([name : Text \ {0}, keys : Seq(Text)])
    /\ un.values \in Seq(Seq(Cells)) /\ Len(un.values) = Len(un.keys)
    /\ \A k \in 1 .. Len(un.values) :
          /\ Len(un.values[k]) = Len(un.columns)
          /\ \A i \in 1 .. Len(un.columns) :
                un.values[k][i].isText = (un.columns[i].type \in {"STRING", "string"})
    /\ \A m, n \in 1 .. Len(un.sets) : un.sets[m].name = un.sets[n].name => m = n

ASSUME UniverseAssumption ==
    /\ DB_MAX_STRING_LENGTH \in Nat \ {0} /\ DB_MAX_STRING_LENGTH % 8 = 0
    /\ \A un \in Universes : IsUniverse(un) /\ Len(un.keys) = maxKeyCount

VARIABLES
    u,                      \* the universe that is loaded
    pc, i, j,               \* place in the code, and its loop indexes from 1
    primaryKeyName

loadVars == <<dbVars, u, pc, i, j, primaryKeyName>>

LoadInit ==
    /\ Init
    /\ u \in Universes
    /\ pc = "name" /\ i = 1 /\ j = 1
    /\ primaryKeyName = 0

Goto(place) == pc' = place
At(place)   == pc = place /\ UNCHANGED u

\* strcpy writes behind primaryKeyName when the name has no room there with its
\* terminator.
NameUniverse ==
    /\ At("name")
    /\ IF primaryKeyName = 0 /\ u.keyName >= DB_MAX_STRING_LENGTH
       THEN /\ status' = "undefined" /\ Goto("overrun")
            /\ UNCHANGED <<keyVars, setVars, attrVars, primaryKeyName>>
       ELSE IF primaryKeyName = 0
       THEN /\ primaryKeyName' = u.keyName
            /\ db_createAttribute(u.keyName, "TYPE_STRING", DB_MAX_STRING_LENGTH)
            /\ Goto("checkKeys")
       ELSE /\ Goto(IF primaryKeyName = u.keyName THEN "checkKeys" ELSE "failed")
            /\ UNCHANGED <<dbVars, primaryKeyName>>
    /\ UNCHANGED <<i, j>>

\* A list that has no room fails the load as a whole; what was loaded stays.
Check(here, length, room, next) ==
    /\ At(here)
    /\ Goto(IF length > room THEN "failed" ELSE next)
    /\ i' = 1
    /\ UNCHANGED <<dbVars, j, primaryKeyName>>

CheckKeys       == Check("checkKeys", Len(u.keys), maxKeyCount - keyCount, "addKey")

\* Mutants: the room is not compared.
CheckSetsNoLimit == Check("checkSets", 0, maxSetSize - setCount, "createSet")

CheckSets       == Check("checkSets", Len(u.sets), maxSetSize - setCount, "createSet")

CheckAttributesNoLimit ==
    Check("checkAttributes", 0, maxAttrSize - attrCount, "createAttribute")

CheckAttributes ==
    Check("checkAttributes", Len(u.columns), maxAttrSize - attrCount, "createAttribute")

AddKey ==
    /\ At("addKey")
    /\ IF i > Len(u.keys)
       THEN Goto("checkSets") /\ UNCHANGED dbVars
       ELSE db_addKey(u.keys[i]) /\ Goto("nameKey")
    /\ UNCHANGED <<i, j, primaryKeyName>>

NameKey ==
    /\ At("nameKey")
    /\ db_setAttribute(primaryKeyName, u.keys[i], [isText |-> TRUE, value |-> u.keys[i]])
    /\ Goto("addKey") /\ i' = i + 1
    /\ UNCHANGED <<j, primaryKeyName>>

CreateSet ==
    /\ At("createSet")
    /\ IF i > Len(u.sets)
       THEN Goto("checkAttributes") /\ UNCHANGED dbVars
       ELSE db_createSet(u.sets[i].name) /\ Goto("addMember")
    /\ j' = 1
    /\ UNCHANGED <<i, primaryKeyName>>

AddMember ==
    /\ At("addMember")
    /\ IF j > Len(u.sets[i].keys)
       THEN /\ Goto("createSet") /\ i' = i + 1
            /\ UNCHANGED <<dbVars, j>>
       ELSE /\ db_addToSet(u.sets[i].name, u.sets[i].keys[j])
            /\ j' = j + 1
            /\ UNCHANGED <<pc, i>>
    /\ UNCHANGED primaryKeyName

\* The type name is compared as it is written; the parser also takes it in
\* lower case, and FLOAT.
CreateAttribute ==
    /\ At("createAttribute")
    /\ IF i > Len(u.columns)
       THEN Goto("loaded") /\ UNCHANGED dbVars
       ELSE CASE u.columns[i].type = "STRING" ->
                    /\ db_createAttribute(u.columns[i].name, "TYPE_STRING",
                                          DB_MAX_STRING_LENGTH)
                    /\ Goto("setValue")
              [] u.columns[i].type = "INTEGER" ->
                    /\ db_createAttribute(u.columns[i].name, "TYPE_64", 0)
                    /\ Goto("setValue")
              [] OTHER ->
                    /\ db_createAttribute(u.columns[i].name, "TYPE_UNDEFINED", 0)
                    /\ Goto("failed")
    /\ j' = 1
    /\ UNCHANGED <<i, primaryKeyName>>

\* Mutant: the values of the first column are stored in every column.
SetValueFirst ==
    /\ At("setValue")
    /\ IF j > Len(u.keys)
       THEN Goto("createAttribute") /\ i' = i + 1 /\ UNCHANGED <<dbVars, j>>
       ELSE /\ db_setAttribute(u.columns[i].name, u.keys[j], u.values[j][1])
            /\ j' = j + 1 /\ UNCHANGED <<pc, i>>
    /\ UNCHANGED primaryKeyName

SetValue ==
    /\ At("setValue")
    /\ IF j > Len(u.keys)
       THEN Goto("createAttribute") /\ i' = i + 1 /\ UNCHANGED <<dbVars, j>>
       ELSE /\ db_setAttribute(u.columns[i].name, u.keys[j], u.values[j][i])
            /\ j' = j + 1 /\ UNCHANGED <<pc, i>>
    /\ UNCHANGED primaryKeyName

LoadNext ==
    \/ NameUniverse \/ CheckKeys \/ AddKey \/ NameKey
    \/ CheckSets \/ CreateSet \/ AddMember
    \/ CheckAttributes \/ CreateAttribute \/ SetValue

LoadSpec == LoadInit /\ [][LoadNext]_loadVars
-----------------------------------------------------------------------------
(* Properties.                                                             *)

\* The file's own meaning.  A key may have several rows; an attribute keeps
\* the value of the last one that fits.
Fits(data)     == data.isText => data.value <= DB_MAX_STRING_LENGTH
Rows(k)        == {r \in 1 .. Len(u.keys) : u.keys[r] = k}
FittingRows(k, c) == {r \in Rows(k) : Fits(u.values[r][c])}

\* The columns that have a name of their own, which is not the key's.  (Of a
\* repeated name db_createAttribute takes the first, and the values of all its
\* columns are stored in that attribute, whatever its type.)
OwnColumns ==
    {c \in 1 .. Len(u.columns) :
        /\ u.columns[c].name # u.keyName
        /\ \A d \in 1 .. Len(u.columns) : u.columns[c].name = u.columns[d].name => c = d}

FileMembers(m) == {k \in ToSet(u.keys) : \E n \in 1 .. Len(u.sets[m].keys) :
                                             u.sets[m].keys[n] = k}

FileValue(k, c) ==
    LET rows == FittingRows(k, c)
    IN  IF rows = {} THEN 0 ELSE u.values[Max(rows)][c].value

\* A load that reports success has stored everything the file declares: all
\* keys, all sets with all their members that are keys, and the value of every
\* key in all columns that have a name of their own, whatever the others do.
LoadFaithful ==
    pc = "loaded" =>
        /\ DOMAIN keyTable = ToSet(u.keys)
        /\ DOMAIN setNamesTable = {u.sets[m].name : m \in 1 .. Len(u.sets)}
        /\ \A m \in 1 .. Len(u.sets) : Members(u.sets[m].name) = FileMembers(m)
        /\ \A c \in OwnColumns :
              /\ Known(attrNamesTable, u.columns[c].name)
              /\ \A k \in ToSet(u.keys) : ValueOf(u.columns[c].name, k) = FileValue(k, c)

\* main() serves what was loaded when the load stopped half way.  It is
\* incomplete and never wrong: no set has a member and no key a value, in a
\* column with a name of its own, that the file does not give it.
PartialLoadTrue ==
    status = "ok" =>
        /\ DOMAIN keyTable \subseteq ToSet(u.keys)
        /\ \A m \in 1 .. Len(u.sets) : Known(setNamesTable, u.sets[m].name)
              => Members(u.sets[m].name) \subseteq FileMembers(m)
        /\ \A c \in OwnColumns : Known(attrNamesTable, u.columns[c].name) =>
              \A k \in DOMAIN keyTable :
                  ValueOf(u.columns[c].name, k)
                      \in {0} \cup {u.values[r][c].value : r \in FittingRows(k, c)}

\* The name of the key column is the only thing a file can declare that makes
\* the load write outside an array, when it does not fit primaryKeyName with
\* its terminator; nothing ends the process.  For all the rest the checks in
\* front of each list and the sizes of main() are enough for the calls that
\* follow, which do not check: for any number of rows, sets and columns, any
\* repeated or unknown key and any text that is too long.
LoadStaysInBounds ==
    status # "ok" => status = "undefined" /\ u.keyName >= DB_MAX_STRING_LENGTH
=============================================================================
