------------------------------ MODULE Database ------------------------------
(***************************************************************************)
(* The in-memory database of database.c on the symbol tables of            *)
(* symboltable.c and the bitsets of bitset.c.  A text is a number, which   *)
(* stands for its length: different names have different lengths, and 0 is *)
(* the empty text.  A symbol table is the function from the names it holds *)
(* to their indexes (nothing is ever removed, so its used slots are a      *)
(* prefix).  `status' is "ok" until the process exits or memory outside an *)
(* array is written.  A text is copied with what follows it in memory; what *)
(* an entry holds behind the text is left out.                             *)
(***************************************************************************)
EXTENDS Bitset, FiniteSets

CONSTANTS
    KeyNames, SetNames, AttrNames,  \* names that callers use
    Data,                           \* what callers store in attributes
    Layouts,                        \* <<type, stringSize>> of their attributes
    maxKeyCount, maxSetSize, maxAttrSize,
    KeyBound                        \* bound: keys counted at most

Text  == Nat
Types == {"TYPE_UNDEFINED", "TYPE_8", "TYPE_16", "TYPE_32", "TYPE_64", "TYPE_STRING"}

ASSUME DatabaseAssumption ==
    /\ KeyNames \subseteq Text /\ SetNames \subseteq Text /\ AttrNames \subseteq Text
    /\ Data \subseteq [isText : BOOLEAN, value : Nat]
    /\ Layouts \subseteq Types \X Nat
    /\ maxKeyCount \in Nat /\ maxSetSize \in Nat /\ maxAttrSize \in Nat
    /\ KeyBound \in Nat

VARIABLES
    keyTable, setNamesTable, attrNamesTable,
    keyCount, setCount, attrCount,
    sets, attributes, status

keyVars  == <<keyTable, keyCount>>
setVars  == <<setNamesTable, setCount, sets>>
attrVars == <<attrNamesTable, attrCount, attributes>>
dbVars   == <<keyVars, setVars, attrVars, status>>

Extend(f, x, v) == [y \in DOMAIN f \cup {x} |-> IF y = x THEN v ELSE f[y]]
Empty == [x \in {} |-> x]

-----------------------------------------------------------------------------
(* symboltable.c.  create_table is given max * 1.3f, cut to an int.        *)

TableSize(max) == (max * 13) \div 10

\* A full table drops the entry without telling the caller.
st_insert(table, max, name, index) ==
    IF Cardinality(DOMAIN table) < TableSize(max)
    THEN Extend(table, name, index) ELSE table

\* st_search
Known(table, name) == name \in DOMAIN table

-----------------------------------------------------------------------------
(* Attribute tables: an array of 8 byte unions, as many as numberOfElements. *)

PerUnion == [TYPE_8 |-> 8, TYPE_16 |-> 4, TYPE_32 |-> 2, TYPE_64 |-> 1]

numberOfElements(type, stringSize) ==
    CASE type = "TYPE_STRING"    -> (maxKeyCount * stringSize) \div 8
      [] type = "TYPE_UNDEFINED" -> 0
      [] OTHER                   -> maxKeyCount \div PerUnion[type]

\* Whether the entry of the key with this index lies inside the array.
Holds(type, stringSize, keyIndex) ==
    CASE type = "TYPE_STRING"    -> (keyIndex + 1) * stringSize
                                        <= 8 * numberOfElements(type, stringSize)
      [] type = "TYPE_UNDEFINED" -> FALSE
      [] OTHER -> keyIndex \div PerUnion[type] < numberOfElements(type, stringSize)

\* What is stored: an integer loses the bits its type has no room for (the
\* other types hold every value here), a text is copied.  Bytes that are taken
\* for the other kind leave an entry that nothing is claimed of.
Garbage == -1

Stored(type, data) ==
    CASE data.isText # (type = "TYPE_STRING") -> Garbage
      [] type = "TYPE_8"  -> data.value % 2 ^ 8
      [] type = "TYPE_16" -> data.value % 2 ^ 16
      [] OTHER            -> data.value

\* strlen(text) > strl; the bytes of an integer may or may not hold a zero.
TooLong(t, data) ==
    IF t.type # "TYPE_STRING" THEN {FALSE}
    ELSE IF data.isText THEN {data.value > t.stringLength} ELSE BOOLEAN

-----------------------------------------------------------------------------
\* createEmptyDB
Init ==
    /\ keyTable = Empty /\ setNamesTable = Empty /\ attrNamesTable = Empty
    /\ keyCount = 0 /\ setCount = 0 /\ attrCount = 0
    /\ sets = Empty /\ attributes = Empty
    /\ status = "ok"

\* Mutant: the index is taken from the table, keys are never counted.
db_addKeyNoCount(name) ==
    /\ status = "ok"
    /\ IF name = 0 \/ Known(keyTable, name)
       THEN UNCHANGED keyVars
       ELSE /\ keyTable' = st_insert(keyTable, maxKeyCount, name, keyCount)
            /\ UNCHANGED keyCount
    /\ UNCHANGED <<setVars, attrVars, status>>

db_addKey(name) ==
    /\ status = "ok"
    /\ IF name = 0 \/ Known(keyTable, name)
       THEN UNCHANGED keyVars
       ELSE /\ keyTable' = st_insert(keyTable, maxKeyCount, name, keyCount)
            /\ keyCount' = keyCount + 1
    /\ UNCHANGED <<setVars, attrVars, status>>

\* Mutant: the limit is not compared.
db_createSetNoLimit(name) ==
    /\ status = "ok"
    /\ IF Known(setNamesTable, name) \/ name = 0
       THEN UNCHANGED <<setVars, status>>
       ELSE /\ setNamesTable' = st_insert(setNamesTable, maxSetSize, name, setCount)
            /\ sets' = Extend(sets, setCount, bitset_initialize(maxKeyCount))
            /\ setCount' = setCount + 1
            /\ UNCHANGED status
    /\ UNCHANGED <<keyVars, attrVars>>

db_createSet(name) ==
    /\ status = "ok"
    /\ IF Known(setNamesTable, name) \/ name = 0
       THEN UNCHANGED <<setVars, status>>
       ELSE IF setCount >= maxSetSize
       THEN status' = "exited" /\ UNCHANGED setVars
       ELSE /\ setNamesTable' = st_insert(setNamesTable, maxSetSize, name, setCount)
            /\ sets' = Extend(sets, setCount, bitset_initialize(maxKeyCount))
            /\ setCount' = setCount + 1
            /\ UNCHANGED status
    /\ UNCHANGED <<keyVars, attrVars>>

\* The set becomes `changed'; a key whose index has no bit is written behind
\* the array.
SetBit(set, key, changed) ==
    LET s == setNamesTable[set]
    IN  IF keyTable[key] \in Positions(sets[s].integer_count)
        THEN sets' = [sets EXCEPT ![s] = changed] /\ UNCHANGED status
        ELSE status' = "undefined" /\ UNCHANGED sets

db_addToSet(set, key) ==
    /\ status = "ok"
    /\ IF Known(keyTable, key) /\ Known(setNamesTable, set)
       THEN SetBit(set, key, bitset_set_bit(sets[setNamesTable[set]], keyTable[key]))
       ELSE UNCHANGED <<sets, status>>
    /\ UNCHANGED <<keyVars, setNamesTable, setCount, attrVars>>

db_removeFromSet(set, key) ==
    /\ status = "ok"
    /\ IF Known(keyTable, key) /\ Known(setNamesTable, set)
       THEN SetBit(set, key, bitset_clear_bit(sets[setNamesTable[set]], keyTable[key]))
       ELSE UNCHANGED <<sets, status>>
    /\ UNCHANGED <<keyVars, setNamesTable, setCount, attrVars>>

\* calloc: every entry starts as 0.
db_createAttribute(name, type, stringSize) ==
    /\ status = "ok"
    /\ IF \/ Known(attrNamesTable, name)
          \/ attrCount = maxAttrSize
          \/ type = "TYPE_STRING" /\ stringSize < 1
       THEN UNCHANGED attrVars
       ELSE /\ attributes' =
                 Extend(attributes, attrCount,
                        [type |-> type, stringLength |-> stringSize, data |-> Empty])
            /\ attrNamesTable' = st_insert(attrNamesTable, maxAttrSize, name, attrCount)
            /\ attrCount' = attrCount + 1
    /\ UNCHANGED <<keyVars, setVars, status>>

db_setAttribute(attr, key, data) ==
    /\ status = "ok"
    /\ IF Known(attrNamesTable, attr) /\ Known(keyTable, key)
       THEN LET a == attrNamesTable[attr]
                t == attributes[a]
                k == keyTable[key]
            IN  \E tooLong \in TooLong(t, data) :
                IF t.type = "TYPE_UNDEFINED" \/ tooLong
                THEN UNCHANGED <<attributes, status>>
                ELSE IF Holds(t.type, t.stringLength, k)
                THEN /\ attributes' = [attributes EXCEPT ![a].data =
                                          Extend(@, k, Stored(t.type, data))]
                     /\ UNCHANGED status
                ELSE status' = "undefined" /\ UNCHANGED attributes
       ELSE UNCHANGED <<attributes, status>>
    /\ UNCHANGED <<keyVars, setVars, attrNamesTable, attrCount>>

\* What the tables hold, by name: the keys whose bit is set, and the entry of
\* a key, which holds the zeros of calloc until it is written.
Members(s) ==
    {k \in DOMAIN keyTable : keyTable[k] \in sets[setNamesTable[s]].bits}

Entry(a, k)   == IF k \in DOMAIN attributes[a].data THEN attributes[a].data[k] ELSE 0
ValueOf(a, k) == Entry(attrNamesTable[a], keyTable[k])

\* The functions of database.h, called in any order.
Next ==
    \/ \E k \in KeyNames : keyCount < KeyBound /\ db_addKey(k)
    \/ \E s \in SetNames : db_createSet(s)
    \/ \E s \in SetNames, k \in KeyNames : db_addToSet(s, k)
    \/ \E s \in SetNames, k \in KeyNames : db_removeFromSet(s, k)
    \/ \E a \in AttrNames, l \in Layouts : db_createAttribute(a, l[1], l[2])
    \/ \E a \in AttrNames, k \in KeyNames, d \in Data : db_setAttribute(a, k, d)

Spec == Init /\ [][Next]_dbVars
-----------------------------------------------------------------------------
(* Properties.                                                             *)

Indexes(table) == {table[n] : n \in DOMAIN table}

TableOK(table, count) ==
    /\ DOMAIN table \subseteq Text
    /\ \A n \in DOMAIN table : table[n] \in 0 .. count - 1

TypeOK ==
    /\ {keyCount, setCount, attrCount} \subseteq Nat
    /\ TableOK(keyTable, keyCount)
    /\ TableOK(setNamesTable, setCount)
    /\ TableOK(attrNamesTable, attrCount)
    /\ \A s \in DOMAIN sets : IsBitset(sets[s])
    /\ \A a \in DOMAIN attributes :
          /\ attributes[a].type \in Types
          /\ \A k \in DOMAIN attributes[a].data : attributes[a].data[k] \in Nat \cup {Garbage}
    /\ status \in {"ok", "exited", "undefined"}

\* Two names never share an index, every named set has its bitset and every
\* named attribute its array, and neither array is longer than was allocated,
\* however often calls are refused and entries dropped by a full table.
Injective(table) == \A m, n \in DOMAIN table : table[m] = table[n] => m = n

IndexesDistinct ==
    /\ Injective(keyTable) /\ Injective(setNamesTable) /\ Injective(attrNamesTable)
    /\ Indexes(setNamesTable) = DOMAIN sets
    /\ Indexes(attrNamesTable) = DOMAIN attributes
    /\ setCount <= maxSetSize /\ attrCount <= maxAttrSize

\* A bit is set, and an entry written, only for the index of a key that can
\* be found: what a query reports of a set without COMPLEMENT are keys.
OnlyKeysStored ==
    /\ \A s \in DOMAIN sets : sets[s].bits \subseteq Indexes(keyTable)
    /\ \A a \in DOMAIN attributes :
          DOMAIN attributes[a].data \subseteq Indexes(keyTable)

\* database.c:269, "If string it must be smaller than the stringLength of the
\* attribute table": a stored text leaves room for its terminator.
TextsTerminated ==
    \A a \in DOMAIN attributes : \A k \in DOMAIN attributes[a].data :
        attributes[a].type = "TYPE_STRING"
            => attributes[a].data[k] < attributes[a].stringLength
=============================================================================
