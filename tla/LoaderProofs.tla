----------------------------- MODULE LoaderProofs -----------------------------
(***************************************************************************)
(* What loading an initialization file does, whatever the file declares    *)
(* and however many rows, sets and columns it has.                         *)
(***************************************************************************)
EXTENDS Loader, DatabaseProofs

-----------------------------------------------------------------------------
(* Arithmetic.                                                             *)

\* A bitset for n keys has a bit for each of them.
LEMMA BitForKey ==
    ASSUME NEW n \in Nat, NEW k \in 0 .. n - 1
    PROVE  k \in Positions(Words(n))
<1> DEFINE b == INTEGER_BIT_SIZE
           x == n + b - 1
           q == x \div b
<1>1. b \in Nat \ {0} /\ x \in Nat
  BY WordAssumption
<1>2. q \in Nat /\ x = b * q + (x % b) /\ x % b \in 0 .. b - 1
  BY <1>1
<1>3. q * b = b * q /\ b * q \in Nat
  BY <1>1, <1>2
<1>4. k <= q * b - 1
  BY <1>1, <1>2, <1>3
<1> QED
  BY <1>2, <1>3, <1>4 DEF Positions, Words

\* The layouts that the loader creates hold an entry for each key.
FileLayouts == {<<"TYPE_STRING", DB_MAX_STRING_LENGTH>>, <<"TYPE_64", 0>>, <<"TYPE_UNDEFINED", 0>>}

\* An attribute with a layout of the loader has an entry for each key.
LEMMA EntryForKey ==
    ASSUME NEW type, NEW size, <<type, size>> \in FileLayouts, type # "TYPE_UNDEFINED",
           NEW k \in 0 .. maxKeyCount - 1
    PROVE  Holds(type, size, k)
<1>1. CASE type = "TYPE_64"
  BY <1>1, DatabaseAssumption DEF Holds, numberOfElements, PerUnion
<1>2. CASE type = "TYPE_STRING" /\ size = DB_MAX_STRING_LENGTH
  <2> DEFINE q == size \div 8
             room == maxKeyCount * size
  <2>1. q \in Nat /\ size = 8 * q /\ maxKeyCount \in Nat /\ k + 1 <= maxKeyCount /\ k \in Nat
    BY <1>2, UniverseAssumption, DatabaseAssumption
  <2>2. room = 8 * (maxKeyCount * q) /\ maxKeyCount * q \in Nat
    BY <2>1
  <2>3. 8 * (room \div 8) = room
    BY <2>2
  <2>4. (k + 1) * size <= room
    BY <2>1
  <2> QED
    BY <1>2, <2>3, <2>4 DEF Holds, numberOfElements
<1> QED
  BY <1>1, <1>2 DEF FileLayouts

-----------------------------------------------------------------------------
(* Once the name of the key column is stored, nothing is written outside   *)
(* an array: the rows read bound the keys, so that each has a bit and an   *)
(* entry, and the sets declared fit the limit.                             *)

Places == {"name", "checkKeys", "addKey", "nameKey", "checkSets", "createSet", "addMember",
           "checkAttributes", "createAttribute", "setValue", "loaded", "failed"}

BeforeSets == {"name", "checkKeys", "addKey", "nameKey", "checkSets"}

KeysFit ==
    /\ pc \in {"name", "checkKeys"} => keyCount = 0
    /\ pc = "addKey" => keyCount < i /\ i <= Len(u.keys) + 1
    /\ pc = "nameKey" => keyCount <= i /\ i <= Len(u.keys)
    /\ keyCount <= maxKeyCount

SetsFit ==
    /\ pc \in BeforeSets => setCount = 0
    /\ pc \in {"createSet", "addMember"} => Len(u.sets) <= maxSetSize
    /\ pc = "createSet" => setCount < i
    /\ pc = "addMember" => setCount <= i /\ i <= Len(u.sets)

ColumnsFit ==
    /\ pc = "setValue" => i <= Len(u.columns) /\ j <= Len(u.keys) + 1
    /\ \A a \in DOMAIN attributes :
          <<attributes[a].type, attributes[a].stringLength>> \in FileLayouts

BitsFit == \A s \in DOMAIN sets : sets[s].integer_count = Words(maxKeyCount)

BoundsInv ==
    /\ u \in Universes /\ pc \in Places
    /\ i \in Nat \ {0} /\ j \in Nat \ {0}
    /\ DBInv /\ status = "ok"
    /\ KeysFit /\ SetsFit /\ ColumnsFit /\ BitsFit

\* The name of the key column was written behind primaryKeyName.
Overrun == pc = "overrun" /\ status = "undefined" /\ u.keyName >= DB_MAX_STRING_LENGTH

\* A set as the file lists it.
Listed == [name : Text \ {0}, keys : Seq(Text)]

\* What the assumption says of the universe that is loaded.
LEMMA FileFacts ==
    ASSUME u \in Universes
    PROVE  /\ u.keyName \in Text \ {0}
           /\ u.keys \in Seq(Text \ {0}) /\ Len(u.keys) = maxKeyCount /\ maxKeyCount \in Nat
           /\ u.columns \in Seq(Column) /\ Len(u.columns) \in Nat
           /\ u.sets \in Seq(Listed) /\ Len(u.sets) \in Nat
           /\ u.values \in Seq(Seq(Cells)) /\ Len(u.values) = Len(u.keys)
           /\ \A r \in 1 .. Len(u.keys) : u.keys[r] \in Text \ {0}
           /\ \A r \in 1 .. Len(u.keys) : \A c \in 1 .. Len(u.columns) :
                 u.values[r][c] \in Cells
           /\ \A c \in 1 .. Len(u.columns) : u.columns[c].name \in Text \ {0}
           /\ \A m \in 1 .. Len(u.sets) : u.sets[m].name \in Text \ {0}
<1>1. IsUniverse(u) /\ Len(u.keys) = maxKeyCount
  BY UniverseAssumption
<1>2. u.keys \in Seq(Text \ {0}) /\ Len(u.keys) \in Nat
  BY <1>1 DEF IsUniverse
<1>3. /\ u.columns \in Seq(Column)
      /\ u.sets \in Seq(Listed)
      /\ u.values \in Seq(Seq(Cells)) /\ Len(u.values) = Len(u.keys)
  BY <1>1 DEF IsUniverse, Listed
<1>4. ASSUME NEW r \in 1 .. Len(u.keys), NEW c \in 1 .. Len(u.columns)
      PROVE  u.values[r][c] \in Cells
  <2>1. u.values[r] \in Seq(Cells) /\ Len(u.values[r]) = Len(u.columns)
    BY <1>1 DEF IsUniverse
  <2> QED
    BY <2>1
<1>5. ASSUME NEW c \in 1 .. Len(u.columns)
      PROVE  u.columns[c].name \in Text \ {0}
  <2>1. u.columns[c] \in Column
    BY <1>3
  <2> QED
    BY <2>1 DEF Column
<1>6. ASSUME NEW m \in 1 .. Len(u.sets)
      PROVE  u.sets[m].name \in Text \ {0}
  <2>1. u.sets[m] \in Listed
    BY <1>3
  <2> QED
    BY <2>1 DEF Listed
<1>7. \A r \in 1 .. Len(u.keys) : u.keys[r] \in Text \ {0}
  BY <1>2
<1>8. Len(u.columns) \in Nat /\ Len(u.sets) \in Nat
  BY <1>3
<1>9. u.keyName \in Text \ {0}
  BY <1>1 DEF IsUniverse
<1> QED
  BY <1>1, <1>2, <1>3, <1>4, <1>5, <1>6, <1>7, <1>8, <1>9

\* A step that calls nothing keeps the database.
LEMMA DBKept ==
    ASSUME DBInv, UNCHANGED dbVars
    PROVE  /\ DBInv' /\ UNCHANGED <<keyTable, setNamesTable, attrNamesTable, keyCount, setCount,
                                    attrCount, sets, attributes, status>>
  BY KeysKept, SetsKept, AttrsKept
     DEF DBInv, OnlyKeysStored, dbVars, keyVars, setVars, attrVars, Indexes

\* Each call, under what the loader has made sure of.
LEMMA AddMemberFits ==
    ASSUME DBInv, status = "ok", BitsFit, keyCount <= maxKeyCount,
           NEW set, NEW key, db_addToSet(set, key)
    PROVE  /\ DBInv' /\ status' = "ok" /\ BitsFit'
           /\ UNCHANGED <<keyVars, setNamesTable, setCount, attrVars>>
<1>1. DBInv' /\ UNCHANGED <<keyVars, setNamesTable, setCount, attrVars>>
      /\ (UNCHANGED sets
          \/ OnlyBits(set, sets[setNamesTable[set]].bits \cup {keyTable[key]}))
  BY AddToSetKeeps
<1>2. BitsFit'
  BY <1>1 DEF BitsFit, OnlyBits
<1>3. CASE Known(keyTable, key) /\ Known(setNamesTable, set)
  <2>1. keyTable[key] \in 0 .. maxKeyCount - 1 /\ keyCount \in Nat
    BY <1>3, DatabaseAssumption DEF DBInv, KeysInv, TableOK, Known
  <2>2. setNamesTable[set] \in DOMAIN sets
    BY <1>3 DEF DBInv, SetsInv, Indexes, Known
  <2>3. keyTable[key] \in Positions(sets[setNamesTable[set]].integer_count)
    BY <2>1, <2>2, BitForKey, DatabaseAssumption DEF BitsFit
  <2> QED
    BY <1>1, <1>2, <1>3, <2>3 DEF db_addToSet, SetBit
<1>4. CASE ~(Known(keyTable, key) /\ Known(setNamesTable, set))
  BY <1>1, <1>2, <1>4 DEF db_addToSet
<1> QED
  BY <1>3, <1>4

\* db_setAttribute never writes outside an array.
LEMMA SetValueFits ==
    ASSUME DBInv, status = "ok", ColumnsFit, keyCount <= maxKeyCount,
           NEW attr, NEW key, NEW d \in Datum, db_setAttribute(attr, key, d)
    PROVE  /\ DBInv' /\ status' = "ok"
           /\ \A a \in DOMAIN attributes' :
                 <<attributes'[a].type, attributes'[a].stringLength>> \in FileLayouts
           /\ UNCHANGED <<keyVars, setVars, attrNamesTable, attrCount>>
<1>1. DBInv' /\ UNCHANGED <<keyVars, setVars, attrNamesTable, attrCount>>
      /\ (UNCHANGED attributes \/ OnlyEntry(attr, key, d))
  BY SetAttributeKeeps
<1>2. \A a \in DOMAIN attributes' :
         <<attributes'[a].type, attributes'[a].stringLength>> \in FileLayouts
  <2>1. CASE UNCHANGED attributes
    BY <2>1 DEF ColumnsFit
  <2>2. CASE OnlyEntry(attr, key, d)
    BY <2>2 DEF ColumnsFit, OnlyEntry
  <2> QED
    BY <1>1, <2>1, <2>2
<1>3. CASE Known(attrNamesTable, attr) /\ Known(keyTable, key)
  <2> DEFINE t == attributes[attrNamesTable[attr]]
  <2>1. keyTable[key] \in 0 .. maxKeyCount - 1
    BY <1>3, DatabaseAssumption DEF DBInv, KeysInv, TableOK, Known
  <2>2. <<t.type, t.stringLength>> \in FileLayouts
    BY <1>3 DEF ColumnsFit, DBInv, AttrsInv, Indexes, Known
  <2>3. t.type # "TYPE_UNDEFINED" => Holds(t.type, t.stringLength, keyTable[key])
    BY <2>1, <2>2, EntryForKey
  <2>4. status' = status
    BY <1>3, <2>3 DEF db_setAttribute
  <2> QED
    BY <1>1, <1>2, <2>4
<1>4. CASE ~(Known(attrNamesTable, attr) /\ Known(keyTable, key))
  BY <1>1, <1>2, <1>4 DEF db_setAttribute
<1> QED
  BY <1>3, <1>4

\* Nor does db_createSet below the limit.
LEMMA CreateSetFits ==
    ASSUME DBInv, status = "ok", BitsFit, setCount < maxSetSize,
           NEW name \in Text, db_createSet(name)
    PROVE  /\ DBInv' /\ status' = "ok" /\ BitsFit'
           /\ setCount' \in {setCount, setCount + 1}
           /\ UNCHANGED <<keyVars, attrVars>>
<1>1. status' = "ok" /\ setCount' \in {setCount, setCount + 1}
  BY DatabaseAssumption DEF db_createSet, setVars, DBInv, SetsInv
<1>2. /\ DBInv' /\ UNCHANGED <<keyVars, attrVars>>
      /\ \/ UNCHANGED setVars
         \/ sets' = Extend(sets, setCount, bitset_initialize(maxKeyCount))
  BY CreateSetKeeps
<1>3. BitsFit'
  BY <1>2 DEF BitsFit, Extend, bitset_initialize, setVars
<1> QED
  BY <1>1, <1>2, <1>3

\* db_createAttribute does not end the process.
LEMMA CreateAttributeFits ==
    ASSUME DBInv, status = "ok", ColumnsFit,
           NEW name \in Text, NEW type, NEW size, <<type, size>> \in FileLayouts,
           db_createAttribute(name, type, size)
    PROVE  /\ DBInv' /\ status' = "ok"
           /\ \A a \in DOMAIN attributes' :
                 <<attributes'[a].type, attributes'[a].stringLength>> \in FileLayouts
           /\ UNCHANGED <<keyVars, setVars>>
<1>1. type \in Types /\ size \in Nat
  BY UniverseAssumption DEF FileLayouts, Types
<1>2. /\ DBInv' /\ UNCHANGED <<keyVars, setVars>>
      /\ \/ UNCHANGED attrVars
         \/ /\ DOMAIN attributes' = DOMAIN attributes \cup {attrCount}
            /\ attributes'[attrCount].type = type
            /\ attributes'[attrCount].stringLength = size
            /\ \A a \in DOMAIN attributes : attributes'[a] = attributes[a]
  BY <1>1, CreateAttributeKeeps
<1>3. \A a \in DOMAIN attributes' :
         <<attributes'[a].type, attributes'[a].stringLength>> \in FileLayouts
  BY <1>2 DEF ColumnsFit, attrVars
<1>4. status' = "ok"
  BY DEF db_createAttribute
<1> QED
  BY <1>2, <1>3, <1>4

-----------------------------------------------------------------------------
(* The invariant is kept by every step of the load.                        *)

\* The database as the loader leaves it.
DBFits == DBInv /\ status = "ok" /\ BitsFit
          /\ \A a \in DOMAIN attributes :
                <<attributes[a].type, attributes[a].stringLength>> \in FileLayouts

\* A step that calls nothing keeps this.
LEMMA FitsKept ==
    ASSUME DBFits, UNCHANGED dbVars
    PROVE  DBFits' /\ keyCount' = keyCount /\ setCount' = setCount
BY DBKept DEF DBFits, BitsFit

\* The database that main() makes.
LEMMA BoundsInit == LoadInit => BoundsInv
<1> SUFFICES ASSUME LoadInit PROVE BoundsInv
  OBVIOUS
<1>1. Init /\ u \in Universes /\ pc = "name" /\ i = 1 /\ j = 1
  BY DEF LoadInit
<1>2. DBInv /\ status = "ok" /\ keyCount = 0 /\ setCount = 0
  BY <1>1, DBInit DEF Init
<1>3. ColumnsFit /\ BitsFit
  BY <1>1, EmptyFunction DEF Init, ColumnsFit, BitsFit
<1>4. KeysFit /\ SetsFit
  BY <1>1, <1>2, DatabaseAssumption DEF KeysFit, SetsFit, BeforeSets
<1> QED
  BY <1>1, <1>2, <1>3, <1>4 DEF BoundsInv, Places

\* Every step of the loader keeps BoundsInv, unless the name does not fit.
LEMMA BoundsNext ==
    ASSUME BoundsInv, [LoadNext]_loadVars, pc' # "overrun"
    PROVE  BoundsInv'
<1> USE DEF BoundsInv
<1>0. /\ Len(u.keys) = maxKeyCount /\ maxKeyCount \in Nat /\ maxSetSize \in Nat
      /\ Len(u.columns) \in Nat /\ Len(u.sets) \in Nat
      /\ keyCount \in Nat /\ setCount \in Nat /\ DBFits
  BY FileFacts, DatabaseAssumption DEF DBInv, KeysInv, SetsInv, DBFits, ColumnsFit
<1>1. CASE NameUniverse
  <2>1. u' = u /\ pc = "name" /\ pc' \in {"checkKeys", "failed"} /\ i' = i /\ j' = j
    BY <1>1 DEF NameUniverse, At, Goto
  <2>2. DBFits' /\ keyCount' = keyCount /\ setCount' = setCount
    <3>1. CASE UNCHANGED dbVars
      BY <1>0, <3>1, FitsKept
    <3>2. CASE db_createAttribute(u.keyName, "TYPE_STRING", DB_MAX_STRING_LENGTH)
      <4>1. u.keyName \in Text /\ <<"TYPE_STRING", DB_MAX_STRING_LENGTH>> \in FileLayouts
        BY FileFacts DEF FileLayouts
      <4> QED
        BY <3>2, <4>1, CreateAttributeFits DEF DBFits, keyVars, setVars, BitsFit
    <3>3. ~(pc' = "overrun")
      OBVIOUS
    <3> QED
      BY <1>1, <3>1, <3>2, <3>3 DEF NameUniverse, Goto
  <2> QED
    BY <1>0, <2>1, <2>2 DEF KeysFit, SetsFit, ColumnsFit, DBFits, Places, BeforeSets
<1>2. CASE CheckKeys
  <2>1. /\ u' = u /\ pc = "checkKeys" /\ pc' \in {"addKey", "failed"} /\ i' = 1 /\ j' = j
        /\ UNCHANGED dbVars
    BY <1>2 DEF CheckKeys, Check, At, Goto
  <2>2. DBFits' /\ keyCount' = keyCount /\ setCount' = setCount
    BY <1>0, <2>1, FitsKept
  <2> QED
    BY <1>0, <2>1, <2>2 DEF KeysFit, SetsFit, ColumnsFit, DBFits, Places, BeforeSets
<1>3. CASE AddKey
  <2>1. u' = u /\ pc = "addKey" /\ i' = i /\ j' = j
    BY <1>3 DEF AddKey, At
  <2>2. CASE i > Len(u.keys)
    <3>1. pc' = "checkSets" /\ UNCHANGED dbVars
      BY <1>3, <2>2 DEF AddKey, Goto
    <3>2. DBFits' /\ keyCount' = keyCount /\ setCount' = setCount
      BY <1>0, <3>1, FitsKept
    <3> QED
      BY <1>0, <2>1, <3>1, <3>2 DEF KeysFit, SetsFit, ColumnsFit, DBFits, Places, BeforeSets
  <2>3. CASE ~(i > Len(u.keys))
    <3>1. pc' = "nameKey" /\ db_addKey(u.keys[i])
      BY <1>3, <2>3 DEF AddKey, Goto
    <3>2. u.keys[i] \in Text
      BY <1>0, <2>3, FileFacts
    <3>3. /\ DBInv' /\ UNCHANGED <<setVars, attrVars, status>>
          /\ keyCount' \in {keyCount, keyCount + 1}
      BY <3>1, <3>2, AddKeyKeeps DEF db_addKey, keyVars
    <3>4. DBFits' /\ setCount' = setCount
      BY <1>0, <3>3 DEF DBFits, BitsFit, setVars, attrVars
    <3> QED
      BY <1>0, <2>1, <2>3, <3>1, <3>3, <3>4
         DEF KeysFit, SetsFit, ColumnsFit, DBFits, Places, BeforeSets
  <2> QED
    BY <2>2, <2>3
<1>4. CASE NameKey
  <2> DEFINE d == [isText |-> TRUE, value |-> u.keys[i]]
  <2>1. /\ u' = u /\ pc = "nameKey" /\ i' = i + 1 /\ j' = j
        /\ pc' = "addKey"
        /\ db_setAttribute(primaryKeyName, u.keys[i], d)
    BY <1>4 DEF NameKey, At, Goto
  <2>2. d \in Datum
    BY <2>1, FileFacts DEF KeysFit, Datum, Text
  <2> HIDE DEF d
  <2>3. DBFits' /\ keyCount' = keyCount /\ setCount' = setCount
    BY <2>1, <2>2, SetValueFits DEF DBFits, keyVars, setVars, BitsFit, KeysFit
  <2> QED
    BY <1>0, <2>1, <2>3 DEF KeysFit, SetsFit, ColumnsFit, DBFits, Places, BeforeSets
<1>5. CASE CheckSets
  <2>1. /\ u' = u /\ pc = "checkSets" /\ i' = 1 /\ j' = j /\ UNCHANGED dbVars
        /\ pc' = (IF Len(u.sets) > maxSetSize - setCount THEN "failed" ELSE "createSet")
    BY <1>5 DEF CheckSets, Check, At, Goto
  <2>2. DBFits' /\ keyCount' = keyCount /\ setCount' = setCount
    BY <1>0, <2>1, FitsKept
  <2>3. setCount = 0
    BY <2>1 DEF SetsFit, BeforeSets
  <2> QED
    BY <1>0, <2>1, <2>2, <2>3 DEF KeysFit, SetsFit, ColumnsFit, DBFits, Places, BeforeSets
<1>6. CASE CreateSet
  <2>1. u' = u /\ pc = "createSet" /\ i' = i /\ j' = 1
    BY <1>6 DEF CreateSet, At
  <2>2. CASE i > Len(u.sets)
    <3>1. pc' = "checkAttributes" /\ UNCHANGED dbVars
      BY <1>6, <2>2 DEF CreateSet, Goto
    <3>2. DBFits' /\ keyCount' = keyCount /\ setCount' = setCount
      BY <1>0, <3>1, FitsKept
    <3> QED
      BY <1>0, <2>1, <3>1, <3>2 DEF KeysFit, SetsFit, ColumnsFit, DBFits, Places, BeforeSets
  <2>3. CASE ~(i > Len(u.sets))
    <3>1. pc' = "addMember" /\ db_createSet(u.sets[i].name)
      BY <1>6, <2>3 DEF CreateSet, Goto
    <3>2. i \in 1 .. Len(u.sets) /\ setCount < i /\ Len(u.sets) <= maxSetSize
      BY <1>0, <2>1, <2>3 DEF SetsFit
    <3>3. setCount < maxSetSize /\ u.sets[i].name \in Text
      BY <1>0, <3>2, FileFacts
    <3>4. DBFits' /\ keyCount' = keyCount /\ setCount' \in {setCount, setCount + 1}
      BY <1>0, <3>1, <3>3, CreateSetFits DEF DBFits, keyVars, attrVars
    <3> QED
      BY <1>0, <2>1, <2>3, <3>1, <3>2, <3>4
         DEF KeysFit, SetsFit, ColumnsFit, DBFits, Places, BeforeSets
  <2> QED
    BY <2>2, <2>3
<1>7. CASE AddMember
  <2>1. u' = u /\ pc = "addMember"
    BY <1>7 DEF AddMember, At
  <2>2. CASE j > Len(u.sets[i].keys)
    <3>1. pc' = "createSet" /\ UNCHANGED dbVars /\ i' = i + 1 /\ j' = j
      BY <1>7, <2>2 DEF AddMember, Goto
    <3>2. DBFits' /\ keyCount' = keyCount /\ setCount' = setCount
      BY <1>0, <3>1, FitsKept
    <3> QED
      BY <1>0, <2>1, <3>1, <3>2 DEF KeysFit, SetsFit, ColumnsFit, DBFits, Places, BeforeSets
  <2>3. CASE ~(j > Len(u.sets[i].keys))
    <3>1. pc' = pc /\ i' = i /\ j' = j + 1 /\ db_addToSet(u.sets[i].name, u.sets[i].keys[j])
      BY <1>7, <2>3 DEF AddMember
    <3>2. DBFits' /\ keyCount' = keyCount /\ setCount' = setCount
      BY <1>0, <3>1, AddMemberFits DEF DBFits, KeysFit, keyVars, attrVars
    <3> QED
      BY <1>0, <2>1, <3>1, <3>2 DEF KeysFit, SetsFit, ColumnsFit, DBFits, Places, BeforeSets
  <2> QED
    BY <2>2, <2>3
<1>8. CASE CheckAttributes
  <2>1. /\ u' = u /\ pc = "checkAttributes" /\ i' = 1 /\ j' = j /\ UNCHANGED dbVars
        /\ pc' \in {"failed", "createAttribute"}
    BY <1>8 DEF CheckAttributes, Check, At, Goto
  <2>2. DBFits' /\ keyCount' = keyCount /\ setCount' = setCount
    BY <1>0, <2>1, FitsKept
  <2> QED
    BY <1>0, <2>1, <2>2 DEF KeysFit, SetsFit, ColumnsFit, DBFits, Places, BeforeSets
<1>9. CASE CreateAttribute
  <2>1. u' = u /\ pc = "createAttribute" /\ i' = i /\ j' = 1
    BY <1>9 DEF CreateAttribute, At
  <2>2. CASE i > Len(u.columns)
    <3>1. pc' = "loaded" /\ UNCHANGED dbVars
      BY <1>9, <2>2 DEF CreateAttribute, Goto
    <3>2. DBFits' /\ keyCount' = keyCount /\ setCount' = setCount
      BY <1>0, <3>1, FitsKept
    <3> QED
      BY <1>0, <2>1, <3>1, <3>2 DEF KeysFit, SetsFit, ColumnsFit, DBFits, Places, BeforeSets
  <2>3. CASE ~(i > Len(u.columns))
    <3>1. PICK type, size :
              <<type, size>> \in FileLayouts /\ db_createAttribute(u.columns[i].name, type, size)
      <4> DEFINE name == u.columns[i].name
                 t    == u.columns[i].type
      <4>1. \/ t = "STRING" /\ db_createAttribute(name, "TYPE_STRING", DB_MAX_STRING_LENGTH)
            \/ t = "INTEGER" /\ db_createAttribute(name, "TYPE_64", 0)
            \/ db_createAttribute(name, "TYPE_UNDEFINED", 0)
        BY <1>9, <2>3 DEF CreateAttribute
      <4> QED
        BY <4>1 DEF FileLayouts
    <3>2. pc' \in {"setValue", "failed"}
      BY <1>9, <2>3 DEF CreateAttribute, Goto
    <3>3. u.columns[i].name \in Text
      BY <1>0, <2>3, FileFacts
    <3>4. DBFits' /\ keyCount' = keyCount /\ setCount' = setCount
      BY <3>1, <3>3, CreateAttributeFits DEF DBFits, keyVars, setVars, BitsFit
    <3> QED
      BY <1>0, <2>1, <2>3, <3>2, <3>4 DEF KeysFit, SetsFit, ColumnsFit, DBFits, Places, BeforeSets
  <2> QED
    BY <2>2, <2>3
<1>10. CASE SetValue
  <2>1. u' = u /\ pc = "setValue"
    BY <1>10 DEF SetValue, At
  <2>2. CASE j > Len(u.keys)
    <3>1. pc' = "createAttribute" /\ i' = i + 1 /\ j' = j /\ UNCHANGED dbVars
      BY <1>10, <2>2 DEF SetValue, Goto
    <3>2. DBFits' /\ keyCount' = keyCount /\ setCount' = setCount
      BY <1>0, <3>1, FitsKept
    <3> QED
      BY <1>0, <2>1, <3>1, <3>2 DEF KeysFit, SetsFit, ColumnsFit, DBFits, Places, BeforeSets
  <2>3. CASE ~(j > Len(u.keys))
    <3>1. /\ db_setAttribute(u.columns[i].name, u.keys[j], u.values[j][i])
          /\ j' = j + 1 /\ i' = i /\ pc' = pc
      BY <1>10, <2>3 DEF SetValue
    <3>2. u.values[j][i] \in Datum
      <4>1. j \in 1 .. Len(u.keys) /\ i \in 1 .. Len(u.columns)
        BY <1>0, <2>1, <2>3 DEF ColumnsFit
      <4>2. u.values[j][i] \in Cells
        BY <4>1, FileFacts
      <4> QED
        BY <4>2 DEF Datum, Cells
    <3>3. DBFits' /\ keyCount' = keyCount /\ setCount' = setCount
      BY <3>1, <3>2, SetValueFits DEF DBFits, keyVars, setVars, BitsFit, KeysFit
    <3> QED
      BY <1>0, <2>1, <2>3, <3>1, <3>3 DEF KeysFit, SetsFit, ColumnsFit, DBFits, Places, BeforeSets
  <2> QED
    BY <2>2, <2>3
<1>11. CASE UNCHANGED loadVars
  <2>1. UNCHANGED dbVars /\ u' = u /\ pc' = pc /\ i' = i /\ j' = j
    BY <1>11 DEF loadVars
  <2>2. DBFits' /\ keyCount' = keyCount /\ setCount' = setCount
    BY <1>0, <2>1, FitsKept
  <2> QED
    BY <1>0, <2>1, <2>2 DEF KeysFit, SetsFit, ColumnsFit, DBFits, Places, BeforeSets
<1> QED
  BY <1>1, <1>2, <1>3, <1>4, <1>5, <1>6, <1>7, <1>8, <1>9, <1>10, <1>11 DEF LoadNext

\* Where the name does not fit, the load stops.
LEMMA OverrunNext ==
    ASSUME BoundsInv, [LoadNext]_loadVars, pc' = "overrun"
    PROVE  Overrun'
<1>1. NameUniverse
  BY DEF LoadNext, CheckKeys, Check, AddKey, NameKey, CheckSets, CreateSet, AddMember,
       CheckAttributes, CreateAttribute, SetValue, At, Goto, loadVars, BoundsInv, Places
<1>2. u.keyName >= DB_MAX_STRING_LENGTH /\ status' = "undefined" /\ u' = u
  BY <1>1 DEF NameUniverse, At, Goto
<1> QED
  BY <1>2 DEF Overrun

\* Nothing goes on after that.
LEMMA OverrunStays ==
    ASSUME Overrun, [LoadNext]_loadVars
    PROVE  Overrun'
BY DEF Overrun, LoadNext, NameUniverse, CheckKeys, Check, AddKey, NameKey, CheckSets,
       CreateSet, AddMember, CheckAttributes, CreateAttribute, SetValue, At, loadVars, dbVars

\* One of the two holds in every execution.
LEMMA BoundsInvariant == LoadSpec => [](BoundsInv \/ Overrun)
<1>1. (BoundsInv \/ Overrun) /\ [LoadNext]_loadVars => (BoundsInv \/ Overrun)'
  BY BoundsNext, OverrunNext, OverrunStays
<1> QED
  BY <1>1, BoundsInit, PTL DEF LoadSpec

\* However many rows, sets and columns a file declares and whatever it calls
\* and stores in them, only a name of the key column that has no room in
\* primaryKeyName makes loading it write outside an array, and nothing ends
\* the process: db_addParsedData compares the lists with the limits before the
\* calls, which do not check, and main() allocates for every row.
THEOREM LoadInBounds == LoadSpec => []LoadStaysInBounds
<1>1. BoundsInv \/ Overrun => LoadStaysInBounds
  BY DEF BoundsInv, Overrun, LoadStaysInBounds
<1> QED
  BY <1>1, BoundsInvariant, PTL

-----------------------------------------------------------------------------
(* What the calls do by name, under what the loader has made sure of.      *)

\* A key with a name, below the limit, is in the table afterwards.
LEMMA KeyAdded ==
    ASSUME DBInv, Counted(keyTable, keyCount), keyCount < maxKeyCount,
           NEW name \in Text \ {0}, db_addKey(name)
    PROVE  /\ DOMAIN keyTable' = DOMAIN keyTable \cup {name}
           /\ Counted(keyTable', keyCount')
<1>1. CASE name \in DOMAIN keyTable
  BY <1>1 DEF db_addKey, Known, keyVars
<1>2. CASE name \notin DOMAIN keyTable
  <2>1. /\ keyTable' = st_insert(keyTable, maxKeyCount, name, keyCount)
        /\ keyCount' = keyCount + 1
    BY <1>2 DEF db_addKey, Known
  <2>2. /\ st_insert(keyTable, maxKeyCount, name, keyCount) = Extend(keyTable, name, keyCount)
        /\ Counted(st_insert(keyTable, maxKeyCount, name, keyCount), keyCount + 1)
    BY <1>2, DatabaseAssumption, InsertKept DEF DBInv, KeysInv
  <2> QED
    BY <2>1, <2>2 DEF Extend
<1> QED
  BY <1>1, <1>2

\* A set with a new name is there afterwards.
LEMMA SetCreated ==
    ASSUME DBInv, setCount < maxSetSize,
           NEW name \in Text \ {0}, name \notin DOMAIN setNamesTable, db_createSet(name)
    PROVE  SetAdded(name)
<1>1. UNCHANGED setVars \/ SetAdded(name)
  BY CreateSetByName
<1>2. setCount' = setCount + 1 /\ setCount \in Nat
  BY DatabaseAssumption DEF db_createSet, Known, DBInv, SetsInv
<1> QED
  BY <1>1, <1>2 DEF setVars

\* The set has the member afterwards, if the member is a key.
LEMMA MemberAdded ==
    ASSUME DBInv, status = "ok", BitsFit, keyCount <= maxKeyCount,
           NEW set \in DOMAIN setNamesTable, NEW key, db_addToSet(set, key)
    PROVE  MembersBecome(set, Members(set) \cup ({key} \cap DOMAIN keyTable))
<1> DEFINE s == setNamesTable[set]
<1>1. /\ UNCHANGED <<keyVars, setNamesTable, setCount, attrVars>> /\ status' = "ok"
      /\ \/ UNCHANGED sets
         \/ /\ key \in DOMAIN keyTable
            /\ OnlyBits(set, sets[s].bits \cup {keyTable[key]})
  BY AddToSetKeeps, AddMemberFits
<1>2. CASE UNCHANGED sets
  <2>1. \A t \in DOMAIN setNamesTable : Members(t)' = Members(t)
    BY <1>1, <1>2 DEF Members, keyVars
  <2>2. key \in DOMAIN keyTable => key \in Members(set)
    <3> SUFFICES ASSUME key \in DOMAIN keyTable PROVE keyTable[key] \in sets[s].bits
      BY DEF Members
    <3>1. sets' = [sets EXCEPT ![s] = bitset_set_bit(sets[s], keyTable[key])]
      BY <1>1 DEF db_addToSet, SetBit, Known
    <3>2. s \in DOMAIN sets /\ sets[s] = [integer_count |-> sets[s].integer_count, bits |-> sets[s].bits]
      BY NamesLead DEF DBInv, SetsInv, SetRecords
    <3>3. sets'[s] = bitset_set_bit(sets[s], keyTable[key])
      BY <3>1, <3>2
    <3>4. bitset_set_bit(sets[s], keyTable[key]).bits = sets[s].bits \cup {keyTable[key]}
      BY <3>2 DEF bitset_set_bit
    <3> QED
      BY <1>2, <3>3, <3>4
  <2> QED
    BY <2>1, <2>2 DEF MembersBecome
<1>3. CASE key \in DOMAIN keyTable /\ OnlyBits(set, sets[s].bits \cup {keyTable[key]})
  <2> DEFINE bits == sets[s].bits \cup {keyTable[key]}
  <2>1. MembersBecome(set, {k \in DOMAIN keyTable : keyTable[k] \in bits})
    BY <1>1, <1>3, BitsByName
  <2>2. {k \in DOMAIN keyTable : keyTable[k] \in bits} = Members(set) \cup {key}
    BY <1>3 DEF Members, DBInv, KeysInv, Injective
  <2> QED
    BY <1>3, <2>1, <2>2
<1> QED
  BY <1>1, <1>2, <1>3

\* The attribute is there afterwards, without values.
LEMMA AttributeCreated ==
    ASSUME DBInv, attrCount < maxAttrSize,
           NEW name \in Text, name \notin DOMAIN attrNamesTable,
           NEW type, NEW size, <<type, size>> \in FileLayouts,
           db_createAttribute(name, type, size)
    PROVE  AttributeAdded(name, type, size) /\ attrCount' = attrCount + 1
<1>1. type \in Types /\ size \in Nat /\ (type = "TYPE_STRING" => size >= 1)
  BY UniverseAssumption DEF FileLayouts, Types
<1>2. UNCHANGED attrVars \/ AttributeAdded(name, type, size)
  BY <1>1, CreateAttributeByName
<1>3. attrCount' = attrCount + 1 /\ attrCount \in Nat
  BY <1>1, DatabaseAssumption DEF db_createAttribute, Known, DBInv, AttrsInv
<1> QED
  BY <1>2, <1>3 DEF attrVars

\* Attributes of another name are left alone, whatever is stored.
LEMMA OthersKept ==
    ASSUME DBInv, NEW attr, NEW key, NEW d \in Datum, db_setAttribute(attr, key, d)
    PROVE  \A a \in DOMAIN attrNamesTable \ {attr} :
              /\ attributes'[attrNamesTable[a]] = attributes[attrNamesTable[a]]
              /\ \A k \in DOMAIN keyTable : ValueOf(a, k)' = ValueOf(a, k)
<1>1. /\ UNCHANGED <<keyVars, attrNamesTable>>
      /\ \/ UNCHANGED attributes
         \/ attr \in DOMAIN attrNamesTable /\ OnlyEntry(attr, key, d)
  BY SetAttributeKeeps
<1>2. ASSUME NEW a \in DOMAIN attrNamesTable \ {attr}
      PROVE  attributes'[attrNamesTable[a]] = attributes[attrNamesTable[a]]
  <2>1. attrNamesTable[a] \in DOMAIN attributes
    BY NamesLead
  <2>2. attr \in DOMAIN attrNamesTable => attrNamesTable[a] # attrNamesTable[attr]
    BY DEF DBInv, AttrsInv, Injective
  <2> QED
    BY <1>1, <2>1, <2>2 DEF OnlyEntry
<1> QED
  BY <1>1, <1>2 DEF ValueOf, Entry, keyVars

\* A value of the attribute's kind that fits is stored as it is.
LEMMA ValueStored ==
    ASSUME DBInv, status = "ok", ColumnsFit, keyCount <= maxKeyCount,
           NEW attr \in DOMAIN attrNamesTable, NEW key \in DOMAIN keyTable, NEW d \in Datum,
           db_setAttribute(attr, key, d),
           attributes[attrNamesTable[attr]].type
               = (IF d.isText THEN "TYPE_STRING" ELSE "TYPE_64")
    PROVE  /\ \A a \in DOMAIN attrNamesTable :
                 /\ attributes'[attrNamesTable[a]].type = attributes[attrNamesTable[a]].type
                 /\ attributes'[attrNamesTable[a]].stringLength
                        = attributes[attrNamesTable[a]].stringLength
           /\ IF d.isText /\ d.value > attributes[attrNamesTable[attr]].stringLength
              THEN UNCHANGED attributes
              ELSE ValueBecomes(attr, key, d.value)
<1> DEFINE t == attributes[attrNamesTable[attr]]
           tooLong == d.isText /\ d.value > t.stringLength
<1>1. /\ UNCHANGED <<keyVars, setVars, attrNamesTable, attrCount>>
      /\ UNCHANGED attributes \/ OnlyEntry(attr, key, d)
  BY SetAttributeKeeps
<1>2. \A a \in DOMAIN attrNamesTable : attrNamesTable[a] \in DOMAIN attributes
  BY NamesLead
<1>3. \A a \in DOMAIN attrNamesTable :
         /\ attributes'[attrNamesTable[a]].type = attributes[attrNamesTable[a]].type
         /\ attributes'[attrNamesTable[a]].stringLength
                = attributes[attrNamesTable[a]].stringLength
  BY <1>1, <1>2 DEF OnlyEntry
<1>4. d.isText \in BOOLEAN /\ d.value \in Nat
  BY DEF Datum
<1>5. Stored(t.type, d) = d.value
  BY <1>4 DEF Stored
<1>6. CASE tooLong
  <2>1. TooLong(t, d) = {TRUE}
    BY <1>6 DEF TooLong
  <2>2. UNCHANGED attributes
    BY <2>1 DEF db_setAttribute, Known
  <2> QED
    BY <1>3, <1>6, <2>2
<1>7. CASE ~tooLong
  <2>1. TooLong(t, d) = {FALSE} /\ t.type # "TYPE_UNDEFINED"
    <3> DEFINE big == d.value > t.stringLength
    <3>1. CASE d.isText
      <4>1. t.type = "TYPE_STRING" /\ TooLong(t, d) = {big}
        BY <3>1 DEF TooLong
      <4>2. ~big
        BY <1>7, <3>1
      <4>3. big = FALSE
        <5> HIDE DEF big
        <5> QED
          BY <4>2
      <4> QED
        BY <4>1, <4>3
    <3>2. CASE ~d.isText
      BY <1>4, <3>2 DEF TooLong
    <3> QED
      BY <3>1, <3>2
  <2>2. status' = "ok"
    BY SetValueFits
  <2>3. attributes' = [attributes EXCEPT ![attrNamesTable[attr]].data =
                           Extend(@, keyTable[key], Stored(t.type, d))]
    BY <2>1, <2>2 DEF db_setAttribute, Known
  <2>4. CASE OnlyEntry(attr, key, d)
    <3>1. ValueBecomes(attr, key, Stored(t.type, d))
      BY <1>1, <2>4, EntryByName
    <3> QED
      BY <1>3, <1>5, <1>7, <3>1
  <2>5. CASE UNCHANGED attributes
    <3>1. OnlyEntry(attr, key, d)
      <4>1. /\ attributes[attrNamesTable[attr]]
                   = [type |-> t.type, stringLength |-> t.stringLength, data |-> t.data]
            /\ attributes = [a \in DOMAIN attributes |-> attributes[a]]
        BY <1>2 DEF DBInv, AttrsInv, AttributeRecords
      <4>2. attributes'[attrNamesTable[attr]].data = Extend(t.data, keyTable[key], Stored(t.type, d))
        BY <1>2, <2>3, <4>1
      <4> QED
        BY <2>5, <4>2 DEF OnlyEntry
    <3> QED
      BY <2>4, <3>1
  <2> QED
    BY <1>1, <2>4, <2>5
<1> QED
  BY <1>6, <1>7

-----------------------------------------------------------------------------
(* What has been loaded at each place of the code.  The three parts are    *)
(* loaded one after the other: the done rows, sets and columns are stored  *)
(* as the file gives them, the one in progress as far as its index j says. *)
(* When the load stops half way, what was stored is true.                  *)

KeysDone ==
    IF pc \in {"name", "checkKeys"} THEN 0
    ELSE IF pc = "addKey" THEN i - 1
    ELSE IF pc = "nameKey" THEN i ELSE Len(u.keys)

SetsDone ==
    IF pc \in BeforeSets THEN 0
    ELSE IF pc = "createSet" THEN i - 1
    ELSE IF pc = "addMember" THEN i ELSE Len(u.sets)

ColumnsDone ==
    IF pc = "createAttribute" THEN i - 1
    ELSE IF pc = "setValue" THEN i
    ELSE IF pc = "loaded" THEN Len(u.columns) ELSE 0

KeysLoaded ==
    /\ DOMAIN keyTable = {u.keys[r] : r \in 1 .. KeysDone}
    /\ Counted(keyTable, keyCount)

\* The keys among the first n that the file lists for set m.
ListedKeys(m, n) == {k \in ToSet(u.keys) : \E p \in 1 .. n : u.sets[m].keys[p] = k}

KeysListed(m) == IF pc = "addMember" /\ m = i THEN j - 1 ELSE Len(u.sets[m].keys)

SetsLoaded ==
    /\ SetsDone <= Len(u.sets)
    /\ DOMAIN setNamesTable = {u.sets[m].name : m \in 1 .. SetsDone}
    /\ \A m \in 1 .. SetsDone : Members(u.sets[m].name) = ListedKeys(m, KeysListed(m))
    /\ pc = "addMember" => j <= Len(u.sets[i].keys) + 1

\* v is what the file gives key k in column c, as far as its first n rows tell.
LastValue(v, k, c, n) ==
    \/ v = 0 /\ \A r \in FittingRows(k, c) : r > n
    \/ \E r \in FittingRows(k, c) :
          /\ r <= n /\ v = u.values[r][c].value
          /\ \A q \in FittingRows(k, c) : q <= n => q <= r

RowsStored(c) == IF pc = "setValue" /\ c = i THEN j - 1 ELSE Len(u.keys)

\* The attribute has the type that the file declares.
Declared(c, t) ==
    \/ /\ u.columns[c].type = "STRING"
       /\ t.type = "TYPE_STRING" /\ t.stringLength = DB_MAX_STRING_LENGTH
    \/ u.columns[c].type = "INTEGER" /\ t.type = "TYPE_64"

ColumnHolds(c, n) ==
    LET a == u.columns[c].name
    IN  /\ a \in DOMAIN attrNamesTable
        /\ Declared(c, attributes[attrNamesTable[a]])
        /\ \A k \in DOMAIN keyTable : LastValue(ValueOf(a, k), k, c, n)

ColumnsLoaded ==
    /\ ColumnsDone <= Len(u.columns)
    /\ \A a \in DOMAIN attrNamesTable :
          a = u.keyName \/ \E c \in 1 .. ColumnsDone : a = u.columns[c].name
    /\ \A c \in 1 .. ColumnsDone : c \in OwnColumns => ColumnHolds(c, RowsStored(c))
    /\ pc \in {"createAttribute", "setValue"}
          => attrCount + Len(u.columns) - ColumnsDone <= maxAttrSize

FaithInv ==
    /\ BoundsInv
    /\ pc # "failed" => KeysLoaded /\ SetsLoaded /\ ColumnsLoaded
    /\ pc = "failed" => PartialLoadTrue

\* The file that is loaded does not change.
LEMMA SameFile ==
    ASSUME [LoadNext]_loadVars
    PROVE  u' = u
BY DEF LoadNext, NameUniverse, CheckKeys, Check, AddKey, NameKey, CheckSets, CreateSet,
       AddMember, CheckAttributes, CreateAttribute, SetValue, At, loadVars

\* The keys of the rows read so far are stored.
LEMMA KeysNext ==
    ASSUME FaithInv, [LoadNext]_loadVars, pc # "failed", pc' \notin {"failed", "overrun"}
    PROVE  KeysLoaded'
<1> USE DEF FaithInv, BoundsInv
<1>0. /\ KeysLoaded /\ u' = u /\ i \in Nat \ {0} /\ Len(u.keys) \in Nat
      /\ Len(u.keys) = maxKeyCount
  BY SameFile, FileFacts
<1>1. CASE AddKey /\ i <= Len(u.keys)
  <2>1. pc = "addKey" /\ pc' = "nameKey" /\ i' = i /\ db_addKey(u.keys[i])
    BY <1>0, <1>1 DEF AddKey, At, Goto
  <2>2. i \in 1 .. Len(u.keys) /\ keyCount < maxKeyCount
    BY <1>0, <1>1, <2>1, DatabaseAssumption DEF KeysFit, DBInv, KeysInv
  <2>3. u.keys[i] \in Text \ {0}
    BY <2>2, FileFacts
  <2>4. /\ DOMAIN keyTable' = DOMAIN keyTable \cup {u.keys[i]}
        /\ Counted(keyTable', keyCount')
    BY <1>0, <2>1, <2>2, <2>3, KeyAdded DEF KeysLoaded
  <2>5. KeysDone = i - 1 /\ KeysDone' = i
    BY <2>1 DEF KeysDone
  <2>6. 1 .. i = (1 .. i - 1) \cup {i}
    BY <1>0
  <2>7. DOMAIN keyTable' = {u.keys[r] : r \in 1 .. i}
    BY <1>0, <2>4, <2>5, <2>6 DEF KeysLoaded
  <2> QED
    BY <1>0, <2>4, <2>5, <2>7 DEF KeysLoaded
<1>2. CASE ~(AddKey /\ i <= Len(u.keys))
  <2>1. UNCHANGED keyVars
    <3>1. CASE AddKey
      <4>1. i > Len(u.keys)
        BY <1>0, <1>2, <3>1
      <4> QED
        BY <3>1, <4>1, <1>0 DEF AddKey, dbVars
    <3>2. CASE ~AddKey
      BY <3>2 DEF LoadNext, NameUniverse, CheckKeys, Check, NameKey, CheckSets, CreateSet,
           AddMember, CheckAttributes, CreateAttribute, SetValue, loadVars, dbVars,
           db_createAttribute, db_createSet, db_addToSet, db_setAttribute
    <3> QED
      BY <3>1, <3>2
  <2>2. KeysDone' = KeysDone
    <3>1. CASE NameUniverse \/ CheckKeys
      BY <1>0, <3>1 DEF NameUniverse, CheckKeys, Check, At, Goto, KeysDone
    <3>2. CASE NameKey \/ (AddKey /\ i > Len(u.keys))
      BY <1>0, <3>2 DEF NameKey, AddKey, At, Goto, KeysDone, KeysFit
    <3>3. CASE CheckSets \/ CreateSet \/ AddMember
      BY <1>0, <3>3 DEF CheckSets, CreateSet, AddMember, Check, At, Goto, KeysDone
    <3>4. CASE CheckAttributes \/ SetValue
      BY <1>0, <3>4 DEF CheckAttributes, SetValue, Check, At, Goto, KeysDone
    <3>5. CASE CreateAttribute
      <4>1. pc = "createAttribute" /\ pc' \in {"loaded", "setValue"}
        BY <3>5 DEF CreateAttribute, At, Goto
      <4> QED
        BY <1>0, <4>1 DEF KeysDone
    <3>6. CASE UNCHANGED loadVars
      BY <1>0, <3>6 DEF loadVars, KeysDone
    <3> QED
      BY <1>0, <1>2, <3>1, <3>2, <3>3, <3>4, <3>5, <3>6 DEF LoadNext
  <2> QED
    BY <1>0, <2>1, <2>2 DEF KeysLoaded, Counted, keyVars
<1> QED
  BY <1>1, <1>2

\* A member that the file lists at place n is added to what was listed before.
LEMMA ListedMore ==
    ASSUME NEW m, NEW n \in Nat \ {0}
    PROVE  ListedKeys(m, n) =
               ListedKeys(m, n - 1) \cup ({u.sets[m].keys[n]} \cap ToSet(u.keys))
<1>1. 1 .. n = (1 .. n - 1) \cup {n}
  OBVIOUS
<1> QED
  BY <1>1 DEF ListedKeys

\* The sets and members read so far are stored.
LEMMA SetsNext ==
    ASSUME FaithInv, [LoadNext]_loadVars, pc # "failed", pc' \notin {"failed", "overrun"}
    PROVE  SetsLoaded'
<1> USE DEF FaithInv, BoundsInv
<1>0. /\ SetsLoaded /\ u' = u /\ i \in Nat \ {0} /\ j \in Nat \ {0} /\ Len(u.sets) \in Nat
      /\ \A m \in 1 .. Len(u.sets) : u.sets[m].name \in Text \ {0}
      /\ \A m, n \in 1 .. Len(u.sets) : u.sets[m].name = u.sets[n].name => m = n
      /\ \A m \in 1 .. Len(u.sets) : Len(u.sets[m].keys) \in Nat
  <2>1. \A m, n \in 1 .. Len(u.sets) : u.sets[m].name = u.sets[n].name => m = n
    BY UniverseAssumption DEF IsUniverse
  <2>2. ASSUME NEW m \in 1 .. Len(u.sets) PROVE Len(u.sets[m].keys) \in Nat
    <3>1. u.sets[m] \in Listed
      BY FileFacts
    <3>2. u.sets[m].keys \in Seq(Text)
      BY <3>1 DEF Listed
    <3> QED
      BY <3>2
  <2> QED
    BY <2>1, <2>2, SameFile, FileFacts
<1>1. CASE NameUniverse \/ CheckKeys \/ AddKey \/ NameKey \/ CheckSets
  <2>1. pc \in BeforeSets /\ UNCHANGED setNamesTable
    BY <1>1 DEF NameUniverse, CheckKeys, AddKey, NameKey, CheckSets, Check, At, BeforeSets,
         dbVars, setVars, db_createAttribute, db_addKey, db_setAttribute
  <2>2. pc' \in BeforeSets \/ (pc' = "createSet" /\ i' = 1)
    BY <1>1 DEF NameUniverse, CheckKeys, AddKey, NameKey, CheckSets, Check, At, Goto, BeforeSets
  <2>3. SetsDone = 0 /\ SetsDone' = 0 /\ pc' # "addMember"
    BY <2>1, <2>2 DEF SetsDone, BeforeSets
  <2>4. 1 .. 0 = {}
    OBVIOUS
  <2> QED
    BY <1>0, <2>1, <2>3, <2>4 DEF SetsLoaded
<1>2. CASE CreateSet
  <2>1. pc = "createSet" /\ i' = i /\ j' = 1 /\ SetsDone = i - 1
    BY <1>2 DEF CreateSet, At, SetsDone, BeforeSets
  <2>2. CASE i > Len(u.sets)
    <3>1. pc' = "checkAttributes" /\ UNCHANGED dbVars
      BY <1>2, <2>2 DEF CreateSet, Goto
    <3>2. SetsDone = Len(u.sets) /\ SetsDone' = Len(u.sets)
      BY <1>0, <2>1, <2>2, <3>1 DEF SetsLoaded, SetsDone, BeforeSets
    <3>3. \A m \in 1 .. Len(u.sets) : /\ Members(u.sets[m].name)' = Members(u.sets[m].name)
                                      /\ KeysListed(m)' = KeysListed(m)
                                      /\ ListedKeys(m, KeysListed(m))' = ListedKeys(m, KeysListed(m))
      BY <1>0, <2>1, <3>1 DEF dbVars, keyVars, setVars, Members, KeysListed, ListedKeys
    <3> QED
      BY <1>0, <3>1, <3>2, <3>3 DEF SetsLoaded, dbVars, setVars
  <2>3. CASE ~(i > Len(u.sets))
    <3> DEFINE name == u.sets[i].name
    <3>1. pc' = "addMember" /\ db_createSet(name)
      BY <1>2, <2>3 DEF CreateSet, Goto
    <3>2. i \in 1 .. Len(u.sets) /\ name \in Text \ {0} /\ setCount < maxSetSize
      BY <1>0, <2>1, <2>3, DatabaseAssumption DEF SetsFit, DBInv, SetsInv
    <3>3. name \notin DOMAIN setNamesTable
      BY <1>0, <2>1, <3>2, SMTT(30) DEF SetsLoaded
    <3>4. SetAdded(name)
      BY <3>1, <3>2, <3>3, SetCreated
    <3>5. SetsDone' = i /\ 1 .. i = (1 .. i - 1) \cup {i}
      BY <1>0, <2>1, <3>1 DEF SetsDone, BeforeSets
    <3>6. DOMAIN setNamesTable' = {u.sets[m].name : m \in 1 .. i}
      BY <1>0, <2>1, <3>4, <3>5 DEF SetsLoaded, SetAdded
    <3>7. ASSUME NEW m \in 1 .. i
          PROVE  Members(u.sets[m].name)' = ListedKeys(m, KeysListed(m))'
      <4>1. CASE m = i
        <5>1. KeysListed(i)' = 0 /\ 1 .. 0 = {}
          BY <2>1, <3>1 DEF KeysListed
        <5>2. ListedKeys(i, KeysListed(i))' = {}
          BY <5>1 DEF ListedKeys
        <5>3. Members(name)' = {}
          BY <3>4 DEF SetAdded
        <5> QED
          BY <1>0, <2>1, <4>1, <5>2, <5>3
      <4>2. CASE m # i
        <5>1. m \in 1 .. i - 1 /\ KeysListed(m)' = KeysListed(m)
          BY <1>0, <2>1, <3>1, <4>2 DEF KeysListed
        <5>2. ListedKeys(m, KeysListed(m))' = ListedKeys(m, KeysListed(m))
          BY <1>0, <5>1 DEF ListedKeys
        <5>3. u.sets[m].name \in DOMAIN setNamesTable
              /\ Members(u.sets[m].name) = ListedKeys(m, KeysListed(m))
          BY <1>0, <2>1, <5>1 DEF SetsLoaded
        <5> QED
          BY <1>0, <3>4, <5>2, <5>3 DEF SetAdded
      <4> QED
        BY <4>1, <4>2
    <3> QED
      BY <1>0, <2>1, <3>1, <3>2, <3>5, <3>6, <3>7 DEF SetsLoaded
  <2> QED
    BY <2>2, <2>3
<1>3. CASE AddMember
  <2>1. pc = "addMember" /\ SetsDone = i /\ i \in 1 .. Len(u.sets) /\ KeysListed(i) = j - 1
        /\ j <= Len(u.sets[i].keys) + 1 /\ Len(u.sets[i].keys) \in Nat
    BY <1>0, <1>3 DEF AddMember, At, SetsDone, BeforeSets, SetsFit, SetsLoaded, KeysListed
  <2>2. CASE j > Len(u.sets[i].keys)
    <3>1. pc' = "createSet" /\ UNCHANGED dbVars /\ i' = i + 1
      BY <1>3, <2>2 DEF AddMember, Goto
    <3>2. SetsDone' = i
      BY <1>0, <3>1 DEF SetsDone, BeforeSets
    <3>3. ASSUME NEW m \in 1 .. i
          PROVE  /\ Members(u.sets[m].name)' = Members(u.sets[m].name)
                 /\ ListedKeys(m, KeysListed(m))' = ListedKeys(m, KeysListed(m))
      <4>1. Members(u.sets[m].name)' = Members(u.sets[m].name)
        BY <1>0, <3>1 DEF dbVars, keyVars, setVars, Members
      <4>2. KeysListed(m)' = KeysListed(m)
        BY <1>0, <2>1, <2>2, <3>1 DEF KeysListed
      <4> QED
        BY <1>0, <4>1, <4>2 DEF ListedKeys
    <3> QED
      BY <1>0, <2>1, <3>1, <3>2, <3>3 DEF SetsLoaded, dbVars, setVars
  <2>3. CASE ~(j > Len(u.sets[i].keys))
    <3> DEFINE name == u.sets[i].name
               key  == u.sets[i].keys[j]
    <3>1. pc' = pc /\ i' = i /\ j' = j + 1 /\ db_addToSet(name, key)
      BY <1>3, <2>3 DEF AddMember
    <3>2. name \in DOMAIN setNamesTable /\ Members(name) = ListedKeys(i, j - 1)
      BY <1>0, <2>1 DEF SetsLoaded
    <3>3. MembersBecome(name, Members(name) \cup ({key} \cap DOMAIN keyTable))
      BY <3>1, <3>2, MemberAdded DEF KeysFit
    <3>4. DOMAIN keyTable = ToSet(u.keys)
      <4>1. KeysDone = Len(u.keys) /\ KeysLoaded /\ DOMAIN u.keys = 1 .. Len(u.keys)
        BY <2>1, FileFacts DEF KeysDone
      <4> QED
        BY <4>1 DEF KeysLoaded, ToSet
    <3>5. Members(name)' = ListedKeys(i, j)
      BY <1>0, <3>2, <3>3, <3>4, ListedMore DEF MembersBecome
    <3>6. SetsDone' = i /\ UNCHANGED setNamesTable
      BY <2>1, <3>1 DEF SetsDone, BeforeSets, db_addToSet
    <3>7. ASSUME NEW m \in 1 .. i
          PROVE  Members(u.sets[m].name)' = ListedKeys(m, KeysListed(m))'
      <4>1. CASE m = i
        <5>1. KeysListed(i)' = j
          BY <1>0, <2>1, <3>1 DEF KeysListed
        <5>2. ListedKeys(i, KeysListed(i))' = ListedKeys(i, j)
          BY <1>0, <3>1, <5>1 DEF ListedKeys
        <5> QED
          BY <1>0, <3>1, <3>5, <4>1, <5>2
      <4>2. CASE m # i
        <5>1. KeysListed(m)' = KeysListed(m)
          BY <1>0, <2>1, <3>1, <4>2 DEF KeysListed
        <5>2. ListedKeys(m, KeysListed(m))' = ListedKeys(m, KeysListed(m))
          BY <1>0, <5>1 DEF ListedKeys
        <5>3. u.sets[m].name \in DOMAIN setNamesTable \ {name}
              /\ Members(u.sets[m].name) = ListedKeys(m, KeysListed(m))
          BY <1>0, <2>1, <4>2 DEF SetsLoaded
        <5> QED
          BY <1>0, <3>3, <5>2, <5>3 DEF MembersBecome
      <4> QED
        BY <4>1, <4>2
    <3>8. j' <= Len(u.sets[i].keys) + 1
      BY <1>0, <2>1, <2>3, <3>1
    <3> QED
      BY <1>0, <2>1, <3>1, <3>6, <3>7, <3>8 DEF SetsLoaded
  <2> QED
    BY <2>2, <2>3
<1>4. CASE CheckAttributes \/ CreateAttribute \/ SetValue \/ UNCHANGED loadVars
  <2>1. UNCHANGED <<keyVars, setVars>>
    BY <1>4 DEF CheckAttributes, Check, CreateAttribute, SetValue, loadVars, dbVars,
         db_createAttribute, db_setAttribute
  <2>2. \/ /\ pc \in {"checkAttributes", "createAttribute", "setValue"}
           /\ pc' \in {"checkAttributes", "createAttribute", "setValue", "loaded"}
        \/ UNCHANGED <<pc, i, j>>
    <3>1. CASE CheckAttributes \/ SetValue
      BY <3>1 DEF CheckAttributes, Check, SetValue, At, Goto
    <3>2. CASE CreateAttribute
      BY <3>2 DEF CreateAttribute, At, Goto
    <3> QED
      BY <1>4, <3>1, <3>2 DEF loadVars
  <2>3. SetsDone' = SetsDone /\ \A m \in 1 .. SetsDone : KeysListed(m)' = KeysListed(m)
    BY <1>0, <2>2 DEF SetsDone, BeforeSets, KeysListed
  <2>4. \A m \in 1 .. SetsDone :
           /\ Members(u.sets[m].name)' = Members(u.sets[m].name)
           /\ ListedKeys(m, KeysListed(m))' = ListedKeys(m, KeysListed(m))
    BY <1>0, <2>1, <2>3 DEF keyVars, setVars, Members, ListedKeys
  <2>5. pc' = "addMember" => UNCHANGED <<pc, i, j>>
    BY <2>2
  <2> QED
    BY <1>0, <2>1, <2>3, <2>4, <2>5 DEF SetsLoaded, setVars
<1> QED
  BY <1>1, <1>2, <1>3, <1>4 DEF LoadNext

\* A row that is not the key's, or whose value does not fit, changes nothing;
\* one that fits is the last so far.
LEMMA RowSkipped ==
    ASSUME NEW v, NEW k, NEW c, NEW n \in Nat \ {0}, n \notin FittingRows(k, c),
           LastValue(v, k, c, n - 1)
    PROVE  LastValue(v, k, c, n)
<1>1. \A r \in FittingRows(k, c) : r \in Nat /\ (r <= n - 1 <=> r <= n)
  BY DEF FittingRows, Rows
<1>2. \A r \in FittingRows(k, c) : r > n - 1 => r > n
  BY <1>1
<1>3. CASE v = 0 /\ \A r \in FittingRows(k, c) : r > n - 1
  BY <1>2, <1>3 DEF LastValue
<1>4. CASE \E r \in FittingRows(k, c) :
              /\ r <= n - 1 /\ v = u.values[r][c].value
              /\ \A q \in FittingRows(k, c) : q <= n - 1 => q <= r
  <2>1. PICK r \in FittingRows(k, c) :
              /\ r <= n - 1 /\ v = u.values[r][c].value
              /\ \A q \in FittingRows(k, c) : q <= n - 1 => q <= r
    BY <1>4
  <2>2. r <= n /\ \A q \in FittingRows(k, c) : q <= n => q <= r
    BY <1>1, <2>1
  <2> QED
    BY <2>1, <2>2 DEF LastValue
<1> QED
  BY <1>3, <1>4 DEF LastValue

\* A row whose value fits is the last of those up to it.
LEMMA RowTaken ==
    ASSUME NEW k, NEW c, NEW n \in FittingRows(k, c)
    PROVE  LastValue(u.values[n][c].value, k, c, n)
<1>1. n \in Nat
  BY DEF FittingRows, Rows
<1> QED
  BY <1>1 DEF LastValue

\* A step that changes no value changes nothing of a column.
LEMMA ColumnKept ==
    ASSUME u' = u, NEW c, NEW n, ColumnHolds(c, n), keyTable' = keyTable,
           u.columns[c].name \in DOMAIN attrNamesTable',
           attributes'[attrNamesTable'[u.columns[c].name]].type
               = attributes[attrNamesTable[u.columns[c].name]].type,
           attributes'[attrNamesTable'[u.columns[c].name]].stringLength
               = attributes[attrNamesTable[u.columns[c].name]].stringLength,
           \A k \in DOMAIN keyTable :
               ValueOf(u.columns[c].name, k)' = ValueOf(u.columns[c].name, k)
    PROVE  ColumnHolds(c, n)'
<1>1. Declared(c, attributes[attrNamesTable[u.columns[c].name]])'
  BY DEF ColumnHolds, Declared
<1>2. \A k \in DOMAIN keyTable : LastValue(ValueOf(u.columns[c].name, k), k, c, n)'
  BY DEF ColumnHolds, LastValue, FittingRows, Rows
<1> QED
  BY <1>1, <1>2 DEF ColumnHolds

\* Columns that no call touches keep their values.
LEMMA ColumnUntouched ==
    ASSUME u' = u, UNCHANGED dbVars, NEW c, NEW n, ColumnHolds(c, n)
    PROVE  ColumnHolds(c, n)'
<1>1. UNCHANGED <<keyVars, attrVars>>
  BY DEF dbVars
<1> DEFINE a == u.columns[c].name
<1>2. a \in DOMAIN attrNamesTable'
  BY <1>1 DEF ColumnHolds, attrVars
<1>3. keyTable' = keyTable /\ attributes'[attrNamesTable'[a]] = attributes[attrNamesTable[a]]
  BY <1>1 DEF keyVars, attrVars
<1>4. \A k \in DOMAIN keyTable : ValueOf(a, k)' = ValueOf(a, k)
  BY <1>1 DEF ValueOf, Entry, keyVars, attrVars
<1> QED
  BY <1>2, <1>3, <1>4, ColumnKept

\* A value of the column that is read, if its name is its own, is the last one.
LEMMA ValueLoaded ==
    ASSUME FaithInv, SetValue, j <= Len(u.keys), i \in OwnColumns
    PROVE  ColumnHolds(i, RowsStored(i))'
<1> USE DEF FaithInv, BoundsInv
<1>20. /\ ColumnsLoaded /\ u' = u /\ i \in Nat \ {0} /\ j \in Nat \ {0}
      /\ Len(u.columns) \in Nat /\ Len(u.keys) \in Nat
  BY FileFacts DEF SetValue, At
<1>0. PICK name, key, d :
         name = u.columns[i].name /\ key = u.keys[j] /\ d = u.values[j][i]
  OBVIOUS
<1>1. /\ pc = "setValue" /\ ColumnsDone = i
      /\ i \in 1 .. Len(u.columns) /\ j \in 1 .. Len(u.keys)
      /\ db_setAttribute(name, key, d)
  BY <1>20, <1>0 DEF SetValue, At, ColumnsDone, ColumnsFit
<1>2. ColumnHolds(i, j - 1)
  <2>1. RowsStored(i) = j - 1
    BY <1>1 DEF RowsStored
  <2> QED
    BY <1>20, <1>1, <2>1 DEF ColumnsLoaded
<1>3. /\ name \in DOMAIN attrNamesTable /\ key \in DOMAIN keyTable
      /\ Declared(i, attributes[attrNamesTable[name]])
      /\ \A k \in DOMAIN keyTable : LastValue(ValueOf(name, k), k, i, j - 1)
  <2>1. KeysLoaded /\ KeysDone = Len(u.keys)
    BY <1>1 DEF KeysDone
  <2> QED
    BY <1>0, <1>1, <1>2, <2>1 DEF ColumnHolds, KeysLoaded
<1>4. d \in Datum /\ d.isText = (u.columns[i].type \in {"STRING", "string"})
  <2>1. d \in Cells
    BY <1>0, <1>1, FileFacts
  <2>2. IsUniverse(u) /\ j \in 1 .. Len(u.values)
    BY <1>1, UniverseAssumption, FileFacts
  <2>3. d.isText = (u.columns[i].type \in {"STRING", "string"})
    BY <1>0, <1>1, <2>2 DEF IsUniverse
  <2> QED
    BY <2>1, <2>3 DEF Cells, Datum
<1>5. /\ attributes[attrNamesTable[name]].type = (IF d.isText THEN "TYPE_STRING" ELSE "TYPE_64")
      /\ d.isText => attributes[attrNamesTable[name]].stringLength = DB_MAX_STRING_LENGTH
  BY <1>3, <1>4 DEF Declared
<1>6. /\ \A a \in DOMAIN attrNamesTable :
            /\ attributes'[attrNamesTable[a]].type = attributes[attrNamesTable[a]].type
            /\ attributes'[attrNamesTable[a]].stringLength
                   = attributes[attrNamesTable[a]].stringLength
      /\ IF d.isText /\ d.value > attributes[attrNamesTable[name]].stringLength
         THEN UNCHANGED attributes
         ELSE ValueBecomes(name, key, d.value)
  BY <1>1, <1>3, <1>4, <1>5, ValueStored DEF KeysFit
<1>7. UNCHANGED <<keyVars, setVars, attrNamesTable, attrCount>>
  BY <1>1 DEF db_setAttribute
<1>8. /\ \A k \in DOMAIN keyTable \ {key} : ValueOf(name, k)' = ValueOf(name, k)
      /\ IF Fits(d) THEN ValueOf(name, key)' = d.value
         ELSE ValueOf(name, key)' = ValueOf(name, key)
  <2>1. CASE Fits(d)
    <3>1. ValueBecomes(name, key, d.value)
      BY <1>4, <1>5, <1>6, <2>1, UniverseAssumption DEF Fits, Datum
    <3> QED
      BY <1>20, <2>1, <3>1 DEF ValueBecomes
  <2>2. CASE ~Fits(d)
    <3>1. UNCHANGED attributes
      BY <1>4, <1>5, <1>6, <2>2, UniverseAssumption DEF Fits, Datum
    <3>2. \A a \in DOMAIN attrNamesTable : \A k \in DOMAIN keyTable :
             ValueOf(a, k)' = ValueOf(a, k)
      BY <1>7, <3>1 DEF ValueOf, Entry, keyVars
    <3> QED
      BY <1>3, <2>2, <3>2
  <2> QED
    BY <2>1, <2>2
<1>9. j \in FittingRows(key, i) <=> Fits(d)
  BY <1>0, <1>1 DEF FittingRows, Rows
<1>10. \A k \in DOMAIN keyTable \ {key} : j \notin FittingRows(k, i)
  BY <1>0 DEF FittingRows, Rows
<1>11. ASSUME NEW k \in DOMAIN keyTable
       PROVE  LastValue(ValueOf(name, k)', k, i, j)
  <2>1. LastValue(ValueOf(name, k), k, i, j - 1)
    BY <1>3
  <2>2. CASE j \notin FittingRows(k, i)
    <3>1. ValueOf(name, k)' = ValueOf(name, k)
      BY <1>8, <1>9, <2>2
    <3> QED
      BY <1>20, <2>1, <2>2, <3>1, RowSkipped
  <2>3. CASE j \in FittingRows(k, i)
    <3>1. k = key /\ ValueOf(name, k)' = d.value
      BY <1>8, <1>9, <1>10, <2>3
    <3>2. LastValue(d.value, k, i, j)
      BY <1>0, <2>3, RowTaken
    <3> QED
      BY <3>1, <3>2
  <2> QED
    BY <2>2, <2>3
<1>12. pc' = pc /\ i' = i /\ j' = j + 1
  BY <1>20 DEF SetValue
<1>13. RowsStored(i)' = j
  BY <1>20, <1>1, <1>12 DEF RowsStored
<1>14. /\ name \in DOMAIN attrNamesTable' /\ keyTable' = keyTable
       /\ attributes'[attrNamesTable'[name]].type = attributes[attrNamesTable[name]].type
       /\ attributes'[attrNamesTable'[name]].stringLength
              = attributes[attrNamesTable[name]].stringLength
  BY <1>3, <1>6, <1>7 DEF keyVars
<1>15. PICK c : c = i
  OBVIOUS
<1>16. Declared(c, attributes[attrNamesTable[u.columns[c].name]])'
  BY <1>20, <1>0, <1>3, <1>14, <1>15 DEF Declared
<1>17. ASSUME NEW k \in DOMAIN keyTable
       PROVE  LastValue(ValueOf(name, k), k, c, RowsStored(c))'
  <2>1. PICK v, n : v = ValueOf(name, k)' /\ n = j
    OBVIOUS
  <2>2. LastValue(v, k, c, n)
    BY <1>11, <1>15, <2>1
  <2>3. LastValue(v, k, c, n)'
    BY <1>20, <2>2 DEF LastValue, FittingRows, Rows
  <2>4. RowsStored(c)' = n
    BY <1>12, <1>13, <1>15, <2>1
  <2> QED
    BY <2>1, <2>3, <2>4
<1>18. u'.columns[c].name = name
  BY <1>20, <1>0, <1>15
<1>19. ColumnHolds(c, RowsStored(c))'
  BY <1>14, <1>16, <1>17, <1>18 DEF ColumnHolds
<1> QED
  BY <1>12, <1>15, <1>19

\* The values read so far are stored.
LEMMA ColumnsNext ==
    ASSUME FaithInv, [LoadNext]_loadVars, pc # "failed", pc' \notin {"failed", "overrun"}
    PROVE  ColumnsLoaded'
<1> USE DEF FaithInv, BoundsInv
<1>0. /\ ColumnsLoaded /\ u' = u /\ i \in Nat \ {0} /\ j \in Nat \ {0}
      /\ Len(u.columns) \in Nat /\ Len(u.keys) \in Nat
      /\ attrCount \in Nat /\ maxAttrSize \in Nat /\ u.keyName \in Text
      /\ \A c \in 1 .. Len(u.columns) : u.columns[c].name \in Text
  BY SameFile, FileFacts, DatabaseAssumption DEF DBInv, AttrsInv
<1>9. OwnColumns' = OwnColumns
  BY <1>0 DEF OwnColumns
<1>1. CASE NameUniverse \/ CheckKeys \/ AddKey \/ NameKey \/ CheckSets \/ CreateSet
           \/ AddMember
  <2> DEFINE Early == BeforeSets \cup {"createSet", "addMember", "checkAttributes"}
  <2>1. pc \in Early /\ pc' \in Early
    <3>1. CASE NameUniverse \/ CheckKeys \/ AddKey \/ NameKey \/ CheckSets
      BY <3>1 DEF NameUniverse, CheckKeys, AddKey, NameKey, CheckSets, Check, At, Goto, BeforeSets
    <3>2. CASE CreateSet
      BY <3>2 DEF CreateSet, At, Goto, BeforeSets
    <3>3. CASE AddMember
      BY <3>3 DEF AddMember, At, Goto, BeforeSets
    <3> QED
      BY <1>1, <3>1, <3>2, <3>3
  <2>2. ColumnsDone = 0 /\ ColumnsDone' = 0 /\ pc' \notin {"createAttribute", "setValue"}
        /\ 1 .. 0 = {}
    BY <2>1 DEF ColumnsDone, BeforeSets
  <2>3. DOMAIN attrNamesTable' \subseteq DOMAIN attrNamesTable \cup {u.keyName}
    <3>1. CASE NameUniverse
      <4>1. CASE db_createAttribute(u.keyName, "TYPE_STRING", DB_MAX_STRING_LENGTH)
        <5>1. DB_MAX_STRING_LENGTH \in Nat /\ "TYPE_STRING" \in Types
          BY UniverseAssumption DEF Types
        <5> QED
          BY <1>0, <4>1, <5>1, CreateAttributeByName DEF AttributeAdded, attrVars
      <4> QED
        BY <3>1, <4>1 DEF NameUniverse, dbVars, attrVars
    <3>2. CASE CheckKeys \/ AddKey \/ NameKey \/ CheckSets \/ CreateSet \/ AddMember
      BY <3>2 DEF CheckKeys, AddKey, NameKey, CheckSets, CreateSet, AddMember, Check, dbVars,
           attrVars, db_addKey, db_setAttribute, db_createSet, db_addToSet
    <3> QED
      BY <1>1, <3>1, <3>2
  <2> QED
    BY <1>0, <2>2, <2>3 DEF ColumnsLoaded
<1>2. CASE CheckAttributes
  <2>1. /\ pc = "checkAttributes" /\ pc' = "createAttribute" /\ i' = 1 /\ UNCHANGED dbVars
        /\ ~(Len(u.columns) > maxAttrSize - attrCount)
    BY <1>2 DEF CheckAttributes, Check, At, Goto
  <2>2. ColumnsDone = 0 /\ ColumnsDone' = 0 /\ 1 .. 0 = {}
    BY <2>1 DEF ColumnsDone
  <2>3. attrCount' + Len(u.columns) - 0 <= maxAttrSize
    BY <1>0, <2>1 DEF dbVars, attrVars
  <2> QED
    BY <1>0, <2>1, <2>2, <2>3 DEF ColumnsLoaded, dbVars, attrVars
<1>3. CASE CreateAttribute
  <2>1. pc = "createAttribute" /\ i' = i /\ j' = 1 /\ ColumnsDone = i - 1
        /\ i - 1 <= Len(u.columns) /\ attrCount + Len(u.columns) - (i - 1) <= maxAttrSize
        /\ \A c \in 1 .. i - 1 : c \in OwnColumns => ColumnHolds(c, Len(u.keys))
    BY <1>0, <1>3 DEF CreateAttribute, At, ColumnsDone, ColumnsLoaded, RowsStored
  <2>2. CASE i > Len(u.columns)
    <3>1. pc' = "loaded" /\ UNCHANGED dbVars
      BY <1>3, <2>2 DEF CreateAttribute, Goto
    <3>2. ColumnsDone' = i - 1 /\ ColumnsDone = ColumnsDone'
      BY <1>0, <2>1, <2>2, <3>1 DEF ColumnsDone
    <3>3. ASSUME NEW c \in 1 .. i - 1, c \in OwnColumns
          PROVE  ColumnHolds(c, RowsStored(c))'
      <4>1. ColumnHolds(c, Len(u.keys))
        BY <2>1, <3>3
      <4>2. PICK n : n = Len(u.keys)
        OBVIOUS
      <4>3. ColumnHolds(c, n)'
        BY <1>0, <3>1, <4>1, <4>2, ColumnUntouched
      <4>4. RowsStored(c)' = n
        BY <1>0, <3>1, <4>2 DEF RowsStored
      <4> QED
        BY <4>3, <4>4
    <3> QED
      BY <1>0, <1>9, <2>1, <3>1, <3>2, <3>3 DEF ColumnsLoaded, dbVars, attrVars
  <2>3. CASE ~(i > Len(u.columns))
    <3> DEFINE name == u.columns[i].name
    <3>1. PICK type, size :
             /\ <<type, size>> \in FileLayouts /\ db_createAttribute(name, type, size)
             /\ \/ /\ u.columns[i].type = "STRING"
                   /\ type = "TYPE_STRING" /\ size = DB_MAX_STRING_LENGTH
                \/ u.columns[i].type = "INTEGER" /\ type = "TYPE_64"
      <4> DEFINE t == u.columns[i].type
      <4>1. t \in {"STRING", "INTEGER"}
        BY <1>3, <2>3 DEF CreateAttribute, Goto
      <4>2. \/ t = "STRING" /\ db_createAttribute(name, "TYPE_STRING", DB_MAX_STRING_LENGTH)
            \/ t = "INTEGER" /\ db_createAttribute(name, "TYPE_64", 0)
        BY <1>3, <2>3, <4>1 DEF CreateAttribute
      <4> QED
        BY <4>2 DEF FileLayouts
    <3>2. pc' = "setValue"
      BY <1>3, <2>3 DEF CreateAttribute, Goto
    <3>3. i \in 1 .. Len(u.columns) /\ attrCount < maxAttrSize
      BY <1>0, <2>1, <2>3
    <3>4. /\ UNCHANGED attrVars \/ AttributeAdded(name, type, size)
          /\ attrCount' \in {attrCount, attrCount + 1}
      <4>1. name \in Text /\ type \in Types /\ size \in Nat
        BY <1>0, <3>1, <3>3, UniverseAssumption DEF FileLayouts, Types
      <4> QED
        BY <3>1, <4>1, CreateAttributeByName DEF db_createAttribute, attrVars
    <3>5. i \in OwnColumns => AttributeAdded(name, type, size)
      <4>1. i \in OwnColumns => name \notin DOMAIN attrNamesTable
        BY SMTT(30), <1>0, <2>1, <3>3 DEF ColumnsLoaded, OwnColumns
      <4> QED
        BY <1>0, <3>1, <3>3, <4>1, AttributeCreated
    <3>6. ColumnsDone' = i /\ 1 .. i = (1 .. i - 1) \cup {i} /\ keyTable' = keyTable
      BY <1>0, <2>1, <3>1, <3>2 DEF ColumnsDone, db_createAttribute, keyVars
    <3>7. \A a \in DOMAIN attrNamesTable' :
             a = u.keyName \/ \E c \in 1 .. i : a = u.columns[c].name
      <4>1. DOMAIN attrNamesTable' \subseteq DOMAIN attrNamesTable \cup {name}
        BY <3>4 DEF AttributeAdded, attrVars
      <4> QED
        BY <1>0, <2>1, <3>6, <4>1 DEF ColumnsLoaded
    <3>8. ASSUME NEW c \in 1 .. i - 1, c \in OwnColumns
          PROVE  ColumnHolds(c, RowsStored(c))'
      <4> DEFINE a == u.columns[c].name
      <4>1. ColumnHolds(c, Len(u.keys)) /\ a \in DOMAIN attrNamesTable
        BY <2>1, <3>8 DEF ColumnHolds
      <4>2. /\ a \in DOMAIN attrNamesTable'
            /\ attributes'[attrNamesTable'[a]] = attributes[attrNamesTable[a]]
            /\ \A k \in DOMAIN keyTable : ValueOf(a, k)' = ValueOf(a, k)
        <5>1. CASE UNCHANGED attrVars
          <6>1. attrNamesTable' = attrNamesTable /\ attributes' = attributes
            BY <5>1 DEF attrVars
          <6> QED
            BY <1>0, <3>6, <4>1, <6>1 DEF ValueOf, Entry
        <5>2. CASE AttributeAdded(name, type, size)
          BY <1>0, <4>1, <5>2 DEF AttributeAdded
        <5> QED
          BY <3>4, <5>1, <5>2
      <4>3. ColumnHolds(c, Len(u.keys))'
        BY <1>0, <3>6, <4>1, <4>2, ColumnKept
      <4>4. RowsStored(c)' = Len(u.keys)
        BY <1>0, <2>1 DEF RowsStored
      <4> QED
        BY <1>0, <4>3, <4>4
    <3>9. ASSUME i \in OwnColumns
          PROVE  ColumnHolds(i, RowsStored(i))'
      <4>0. AttributeAdded(name, type, size)
        BY <3>5, <3>9
      <4>1. RowsStored(i)' = 0
        BY <2>1, <3>2 DEF RowsStored
      <4>2. \A k \in DOMAIN keyTable : ValueOf(name, k)' = 0
        BY <4>0 DEF AttributeAdded
      <4>3. \A k \in DOMAIN keyTable : LastValue(0, k, i, 0)'
        BY DEF LastValue, FittingRows, Rows
      <4>4. Declared(i, attributes[attrNamesTable[name]])'
        BY <1>0, <2>1, <3>1, <4>0 DEF Declared, AttributeAdded
      <4> QED
        BY <1>0, <2>1, <3>6, <4>0, <4>1, <4>2, <4>3, <4>4 DEF ColumnHolds, AttributeAdded
    <3>10. attrCount' + Len(u.columns) - i <= maxAttrSize
      BY <1>0, <2>1, <3>4
    <3>11. \A c \in 1 .. i : c \in OwnColumns => ColumnHolds(c, RowsStored(c))'
      BY <2>1, <3>6, <3>8, <3>9
    <3>12. ColumnsDone' <= Len(u'.columns) /\ attrCount' + Len(u'.columns) - ColumnsDone' <= maxAttrSize
      BY <1>0, <3>3, <3>6, <3>10
    <3>13. \A a \in DOMAIN attrNamesTable' :
              a = u'.keyName \/ \E c \in 1 .. ColumnsDone' : a = u'.columns[c].name
      BY <1>0, <3>6, <3>7
    <3>14. \A c \in 1 .. ColumnsDone' : c \in OwnColumns' => ColumnHolds(c, RowsStored(c))'
      BY <1>9, <3>6, <3>11
    <3> QED
      BY <3>12, <3>13, <3>14 DEF ColumnsLoaded
  <2> QED
    BY <2>2, <2>3
<1>4. CASE SetValue /\ j <= Len(u.keys)
  <2>1. /\ pc = "setValue" /\ ColumnsDone = i /\ i \in 1 .. Len(u.columns)
        /\ j \in 1 .. Len(u.keys) /\ pc' = pc /\ i' = i
    BY <1>0, <1>4 DEF SetValue, At, ColumnsDone, ColumnsFit
  <2>2. PICK name, key, d :
           /\ name = u.columns[i].name /\ d \in Datum
           /\ db_setAttribute(name, key, d)
    <3>1. u.values[j][i] \in Datum
      BY <2>1, FileFacts DEF Cells, Datum
    <3> QED
      BY <1>0, <1>4, <3>1 DEF SetValue
  <2>3. UNCHANGED <<keyVars, setVars, attrNamesTable, attrCount>>
    BY <2>2 DEF db_setAttribute
  <2>4. ColumnsDone' = i
    BY <1>0, <2>1 DEF ColumnsDone
  <2>6. \A a \in DOMAIN attrNamesTable \ {name} :
           /\ attributes'[attrNamesTable[a]] = attributes[attrNamesTable[a]]
           /\ \A k \in DOMAIN keyTable : ValueOf(a, k)' = ValueOf(a, k)
    BY <2>2, OthersKept
  <2>5. ASSUME NEW c \in 1 .. i, c \in OwnColumns
        PROVE  ColumnHolds(c, RowsStored(c))'
    <3>1. CASE c = i
      <4>1. ColumnHolds(i, RowsStored(i))'
        BY <1>4, <2>5, <3>1, ValueLoaded
      <4> QED
        BY <2>1, <3>1, <4>1
    <3>2. CASE c # i
      <4> DEFINE a == u.columns[c].name
      <4>1. RowsStored(c)' = Len(u.keys) /\ RowsStored(c) = Len(u.keys)
        BY <1>0, <2>1, <3>2 DEF RowsStored
      <4>2. ColumnHolds(c, Len(u.keys))
        BY <1>0, <2>1, <2>5, <4>1 DEF ColumnsLoaded
      <4>3. a \in DOMAIN attrNamesTable \ {name}
        BY <2>1, <2>2, <2>5, <3>2, <4>2 DEF ColumnHolds, OwnColumns
      <4>4. /\ attributes'[attrNamesTable[a]] = attributes[attrNamesTable[a]]
            /\ \A k \in DOMAIN keyTable : ValueOf(a, k)' = ValueOf(a, k)
        BY <1>0, <2>6, <4>3
      <4>5. ColumnHolds(c, Len(u.keys))'
        BY <1>0, <2>3, <4>2, <4>3, <4>4, ColumnKept DEF keyVars
      <4> QED
        BY <1>0, <4>1, <4>5
    <3> QED
      BY <3>1, <3>2
  <2> QED
    BY <1>0, <1>9, <2>1, <2>3, <2>4, <2>5 DEF ColumnsLoaded
<1>5. CASE SetValue /\ j > Len(u.keys)
  <2>1. /\ pc = "setValue" /\ pc' = "createAttribute" /\ i' = i + 1 /\ UNCHANGED dbVars
        /\ i <= Len(u.columns) /\ j = Len(u.keys) + 1
    BY <1>0, <1>5 DEF SetValue, At, Goto, ColumnsFit
  <2>2. ColumnsDone = i /\ ColumnsDone' = i
    BY <1>0, <2>1 DEF ColumnsDone
  <2>3. ASSUME NEW c \in 1 .. i, c \in OwnColumns
        PROVE  ColumnHolds(c, RowsStored(c))'
    <3>1. PICK n : n = Len(u.keys)
      OBVIOUS
    <3>2. RowsStored(c) = n /\ RowsStored(c)' = n
      BY <1>0, <2>1, <3>1 DEF RowsStored
    <3>3. ColumnHolds(c, n)
      BY <1>0, <2>2, <2>3, <3>2 DEF ColumnsLoaded
    <3>4. ColumnHolds(c, n)'
      BY <1>0, <2>1, <3>3, ColumnUntouched
    <3> QED
      BY <3>2, <3>4
  <2> QED
    BY <1>0, <1>9, <2>1, <2>2, <2>3 DEF ColumnsLoaded, dbVars, attrVars
<1>6. CASE UNCHANGED loadVars
  <2>1. ColumnsDone' = ColumnsDone /\ UNCHANGED <<pc, i, j>> /\ UNCHANGED dbVars
    BY <1>0, <1>6 DEF loadVars, ColumnsDone
  <2>2. ASSUME NEW c \in 1 .. ColumnsDone, c \in OwnColumns
        PROVE  ColumnHolds(c, RowsStored(c))'
    <3>1. PICK n : n = RowsStored(c)
      OBVIOUS
    <3>2. RowsStored(c)' = n /\ ColumnHolds(c, n)
      BY <1>0, <2>1, <2>2, <3>1 DEF RowsStored, ColumnsLoaded
    <3>3. ColumnHolds(c, n)'
      BY <1>0, <2>1, <3>2, ColumnUntouched
    <3> QED
      BY <3>2, <3>3
  <2> QED
    BY <1>0, <1>9, <2>1, <2>2 DEF ColumnsLoaded, dbVars, attrVars
<1> QED
  BY <1>0, <1>1, <1>2, <1>3, <1>4, <1>5, <1>6 DEF LoadNext

-----------------------------------------------------------------------------
(* What was loaded is true of the file.                                    *)

\* A value of the last row is one of the values.
LEMMA LastIsGiven ==
    ASSUME NEW v, NEW k, NEW c, NEW n, LastValue(v, k, c, n)
    PROVE  v \in {0} \cup {u.values[r][c].value : r \in FittingRows(k, c)}
BY DEF LastValue

TrueColumn(c) ==
    u.columns[c].name \in DOMAIN attrNamesTable =>
        \A k \in DOMAIN keyTable :
            ValueOf(u.columns[c].name, k)
                \in {0} \cup {u.values[r][c].value : r \in FittingRows(k, c)}

\* The columns that are loaded are true, and no other is known.
LEMMA LoadedTrue ==
    ASSUME FaithInv, pc # "failed", NEW c \in OwnColumns
    PROVE  TrueColumn(c)
<1> SUFFICES ASSUME u.columns[c].name \in DOMAIN attrNamesTable, NEW k \in DOMAIN keyTable
             PROVE  ValueOf(u.columns[c].name, k)
                        \in {0} \cup {u.values[r][c].value : r \in FittingRows(k, c)}
  BY DEF TrueColumn
<1>1. ColumnsLoaded /\ Len(u.columns) \in Nat
  BY FileFacts DEF FaithInv, BoundsInv
<1>2. PICK d \in 1 .. ColumnsDone : u.columns[c].name = u.columns[d].name
  BY <1>1 DEF ColumnsLoaded, OwnColumns
<1>3. c = d
  <2>1. ColumnsDone \in Nat /\ ColumnsDone <= Len(u.columns)
    BY <1>1 DEF ColumnsLoaded, ColumnsDone, FaithInv, BoundsInv
  <2>2. d \in 1 .. Len(u.columns)
    BY <1>1, <2>1
  <2> QED
    BY <1>2, <2>2 DEF OwnColumns
<1>4. LastValue(ValueOf(u.columns[c].name, k), k, c, RowsStored(c))
  BY <1>1, <1>2, <1>3 DEF ColumnsLoaded, ColumnHolds
<1> QED
  BY <1>4, LastIsGiven

\* While nothing failed, nothing is stored that the file does not say.
LEMMA TrueSoFar ==
    ASSUME FaithInv, pc # "failed"
    PROVE  PartialLoadTrue
<1>0. /\ KeysLoaded /\ SetsLoaded /\ i \in Nat \ {0} /\ j \in Nat \ {0}
      /\ Len(u.keys) \in Nat /\ DOMAIN u.keys = 1 .. Len(u.keys) /\ Len(u.sets) \in Nat
      /\ \A m, n \in 1 .. Len(u.sets) : u.sets[m].name = u.sets[n].name => m = n
  <2>1. u \in Universes /\ KeysLoaded /\ SetsLoaded /\ i \in Nat \ {0} /\ j \in Nat \ {0}
    BY DEF FaithInv, BoundsInv
  <2>2. IsUniverse(u)
    BY <2>1, UniverseAssumption
  <2> QED
    BY <2>1, <2>2, FileFacts DEF IsUniverse
<1>1. DOMAIN keyTable \subseteq ToSet(u.keys)
  <2>1. KeysDone \in Nat /\ KeysDone <= Len(u.keys)
    BY <1>0 DEF KeysDone, FaithInv, BoundsInv, KeysFit
  <2>2. \A r \in 1 .. KeysDone : r \in 1 .. Len(u.keys)
    BY <1>0, <2>1
  <2> QED
    BY <1>0, <2>2 DEF KeysLoaded, ToSet
<1>2. ASSUME NEW m \in 1 .. Len(u.sets), Known(setNamesTable, u.sets[m].name)
      PROVE  Members(u.sets[m].name) \subseteq FileMembers(m)
  <2>1. SetsDone \in Nat /\ SetsDone <= Len(u.sets)
    BY <1>0 DEF SetsLoaded, SetsDone
  <2>2. PICK n \in 1 .. SetsDone : u.sets[m].name = u.sets[n].name
    BY <1>0, <1>2 DEF SetsLoaded, Known
  <2>3. m = n
    BY <1>0, <2>1, <2>2
  <2>4. Members(u.sets[m].name) = ListedKeys(m, KeysListed(m))
    BY <1>0, <2>2, <2>3 DEF SetsLoaded
  <2>5. Len(u.sets[m].keys) \in Nat
    <3>1. u.sets[m] \in Listed
      BY FileFacts DEF FaithInv, BoundsInv
    <3>2. u.sets[m].keys \in Seq(Text)
      BY <3>1 DEF Listed
    <3> QED
      BY <3>2
  <2>6. KeysListed(m) \in Nat /\ KeysListed(m) <= Len(u.sets[m].keys)
    BY <1>0, <2>5 DEF KeysListed, SetsLoaded
  <2>7. \A p \in 1 .. KeysListed(m) : p \in 1 .. Len(u.sets[m].keys)
    BY <2>5, <2>6
  <2> QED
    BY <2>4, <2>7 DEF ListedKeys, FileMembers
<1>3. \A c \in OwnColumns : TrueColumn(c)
  BY LoadedTrue
<1> QED
  BY <1>1, <1>2, <1>3 DEF PartialLoadTrue, TrueColumn, Known

\* The load stops at a check, which changes nothing, or at a column of a type
\* that is not known, whose attribute holds no value.
LEMMA FailedNext ==
    ASSUME FaithInv, [LoadNext]_loadVars, pc' = "failed"
    PROVE  PartialLoadTrue'
<1> USE DEF FaithInv
<1>0. PartialLoadTrue /\ u' = u /\ status = "ok"
  BY TrueSoFar, SameFile DEF BoundsInv
<1>4. OwnColumns' = OwnColumns
  BY <1>0 DEF OwnColumns
<1>1. CASE UNCHANGED dbVars
  <2>1. UNCHANGED <<keyVars, setVars, attrVars>>
    BY <1>1 DEF dbVars
  <2>2. /\ keyTable' = keyTable /\ setNamesTable' = setNamesTable
        /\ attrNamesTable' = attrNamesTable
    BY <2>1 DEF keyVars, setVars, attrVars
  <2>3. \A m : Members(u.sets[m].name)' = Members(u.sets[m].name)
    BY <1>0, <2>1 DEF Members, Known, keyVars, setVars
  <2>4. \A m : FileMembers(m)' = FileMembers(m)
    BY <1>0 DEF FileMembers
  <2>5. \A c, k : ValueOf(u.columns[c].name, k)' = ValueOf(u.columns[c].name, k)
    BY <1>0, <2>1 DEF ValueOf, Entry, keyVars, attrVars
  <2>6. \A k, c : FittingRows(k, c)' = FittingRows(k, c)
    BY <1>0 DEF FittingRows, Rows
  <2>7. DOMAIN keyTable' \subseteq ToSet(u'.keys)
    BY <1>0, <2>2 DEF PartialLoadTrue
  <2>8. \A m \in 1 .. Len(u'.sets) : Known(setNamesTable, u.sets[m].name)'
            => Members(u.sets[m].name)' \subseteq FileMembers(m)'
    BY <1>0, <2>2, <2>3, <2>4 DEF PartialLoadTrue, Known
  <2>9. \A c \in OwnColumns' : Known(attrNamesTable, u.columns[c].name)' =>
            \A k \in DOMAIN keyTable' :
                ValueOf(u.columns[c].name, k)'
                    \in {0} \cup {u'.values[r][c].value : r \in FittingRows(k, c)'}
    <3>1. ASSUME NEW c \in OwnColumns, u.columns[c].name \in DOMAIN attrNamesTable,
                 NEW k \in DOMAIN keyTable
          PROVE  ValueOf(u.columns[c].name, k)'
                    \in {0} \cup {u'.values[r][c].value : r \in FittingRows(k, c)'}
      <4>1. ValueOf(u.columns[c].name, k)
                    \in {0} \cup {u.values[r][c].value : r \in FittingRows(k, c)}
        BY <1>0, <3>1 DEF PartialLoadTrue, Known
      <4> QED
        BY <1>0, <2>5, <2>6, <4>1
    <3> QED
      BY <1>0, <1>4, <2>2, <3>1 DEF Known
  <2> QED
    BY <2>7, <2>8, <2>9 DEF PartialLoadTrue
<1>2. CASE CreateAttribute /\ ~UNCHANGED dbVars
  <2>0. PICK name : name = u.columns[i].name
    OBVIOUS
  <2>1. /\ pc = "createAttribute" /\ i' = i /\ ~(i > Len(u.columns))
        /\ db_createAttribute(name, "TYPE_UNDEFINED", 0)
    BY <1>2, <2>0 DEF CreateAttribute, At, Goto
  <2>2. UNCHANGED <<keyVars, setVars>> /\ name \in Text /\ i \in 1 .. Len(u.columns)
    BY <2>0, <2>1, FileFacts DEF db_createAttribute, BoundsInv
  <2>3. UNCHANGED attrVars \/ AttributeAdded(name, "TYPE_UNDEFINED", 0)
    BY <2>1, <2>2, CreateAttributeByName DEF Types, BoundsInv
  <2>4. ASSUME NEW c \in OwnColumns, NEW a, a = u.columns[c].name,
               a \in DOMAIN attrNamesTable', NEW k \in DOMAIN keyTable
        PROVE  ValueOf(a, k)' \in {0} \cup {u.values[r][c].value : r \in FittingRows(k, c)}
    <3>1. CASE a \in DOMAIN attrNamesTable
      <4>1. ValueOf(a, k)' = ValueOf(a, k)
        BY <2>2, <2>3, <3>1 DEF AttributeAdded, ValueOf, Entry, keyVars, attrVars
      <4>2. ValueOf(a, k) \in {0} \cup {u.values[r][c].value : r \in FittingRows(k, c)}
        BY <1>0, <2>4, <3>1 DEF PartialLoadTrue, Known
      <4> QED
        BY <4>1, <4>2
    <3>2. CASE a \notin DOMAIN attrNamesTable
      <4>1. a = name /\ ValueOf(a, k)' = 0
        BY <2>3, <2>4, <3>2 DEF AttributeAdded, attrVars
      <4> QED
        BY <4>1
    <3> QED
      BY <3>1, <3>2
  <2>5. DOMAIN keyTable' \subseteq ToSet(u.keys)'
    BY <1>0, <2>2 DEF PartialLoadTrue, keyVars
  <2>6. \A m \in 1 .. Len(u'.sets) : Known(setNamesTable, u.sets[m].name)'
            => Members(u.sets[m].name)' \subseteq FileMembers(m)'
    BY <1>0, <2>2 DEF PartialLoadTrue, Known, Members, FileMembers, keyVars, setVars
  <2>7. \A c \in OwnColumns' : Known(attrNamesTable, u.columns[c].name)' =>
            \A k \in DOMAIN keyTable' :
                ValueOf(u.columns[c].name, k)'
                    \in {0} \cup {u'.values[r][c].value : r \in FittingRows(k, c)'}
    <3>1. ASSUME NEW c \in OwnColumns, u.columns[c].name \in DOMAIN attrNamesTable',
                 NEW k \in DOMAIN keyTable
          PROVE  ValueOf(u.columns[c].name, k)'
                    \in {0} \cup {u.values[r][c].value : r \in FittingRows(k, c)}
      <4>1. PICK a : a = u.columns[c].name
        OBVIOUS
      <4>2. ValueOf(a, k)' \in {0} \cup {u.values[r][c].value : r \in FittingRows(k, c)}
        BY <2>4, <3>1, <4>1
      <4>3. u'.columns[c].name = a
        BY <1>0, <4>1
      <4> QED
        BY <4>2, <4>3
    <3>2. \A k, c : FittingRows(k, c)' = FittingRows(k, c)
      BY <1>0 DEF FittingRows, Rows
    <3> QED
      BY <1>0, <1>4, <2>2, <3>1, <3>2 DEF Known, keyVars
  <2> QED
    BY <2>5, <2>6, <2>7 DEF PartialLoadTrue
<1>3. UNCHANGED dbVars \/ CreateAttribute
  BY DEF LoadNext, NameUniverse, CheckKeys, Check, AddKey, NameKey, CheckSets, CreateSet,
       AddMember, CheckAttributes, SetValue, At, Goto, loadVars, BoundsInv, Places
<1> QED
  BY <1>1, <1>2, <1>3

\* An empty database says nothing.
LEMMA FaithInit == LoadInit => FaithInv
<1> SUFFICES ASSUME LoadInit PROVE FaithInv
  OBVIOUS
<1>1. Init /\ pc = "name" /\ BoundsInv
  BY BoundsInit DEF LoadInit
<1>2. /\ DOMAIN keyTable = {} /\ DOMAIN setNamesTable = {} /\ DOMAIN attrNamesTable = {}
      /\ Counted(keyTable, keyCount) /\ 1 .. 0 = {}
  BY <1>1, EmptyFunction DEF Init
<1>3. KeysDone = 0 /\ SetsDone = 0 /\ ColumnsDone = 0
  BY <1>1 DEF KeysDone, SetsDone, ColumnsDone, BeforeSets
<1>4. Len(u.sets) \in Nat /\ Len(u.columns) \in Nat
  BY <1>1, FileFacts DEF BoundsInv
<1> QED
  BY <1>1, <1>2, <1>3, <1>4 DEF FaithInv, KeysLoaded, SetsLoaded, ColumnsLoaded

\* Every step of the loader keeps FaithInv, unless the name does not fit.
LEMMA FaithNext ==
    ASSUME FaithInv, [LoadNext]_loadVars, pc' # "overrun"
    PROVE  FaithInv'
<1>1. BoundsInv'
  BY BoundsNext DEF FaithInv
<1>2. pc' # "failed" => pc # "failed"
  BY DEF LoadNext, NameUniverse, CheckKeys, Check, AddKey, NameKey, CheckSets, CreateSet,
       AddMember, CheckAttributes, CreateAttribute, SetValue, At, loadVars
<1> QED
  BY <1>1, <1>2, KeysNext, SetsNext, ColumnsNext, FailedNext DEF FaithInv

\* It holds in every execution in which the name fits.
LEMMA FaithInvariant == LoadSpec => [](FaithInv \/ Overrun)
<1>1. (FaithInv \/ Overrun) /\ [LoadNext]_loadVars => (FaithInv \/ Overrun)'
  BY FaithNext, OverrunNext, OverrunStays DEF FaithInv
<1> QED
  BY <1>1, FaithInit, PTL DEF LoadSpec

\* What main() serves after a load that stopped half way is true: no set has a
\* member, and no key a value in a column of its own name, that the file does not
\* give it.
THEOREM PartialLoadIsTrue == LoadSpec => []PartialLoadTrue
<1>1. FaithInv \/ Overrun => PartialLoadTrue
  BY TrueSoFar DEF FaithInv, Overrun, PartialLoadTrue
<1> QED
  BY <1>1, FaithInvariant, PTL

\* The last of all rows that fit is the one with the greatest number.
LEMMA LastOfAll ==
    ASSUME NEW v, NEW k, NEW c, Len(u.keys) \in Nat, LastValue(v, k, c, Len(u.keys))
    PROVE  v = FileValue(k, c)
<1>1. \A r \in FittingRows(k, c) : r \in Nat /\ r <= Len(u.keys)
  BY DEF FittingRows, Rows
<1>2. CASE FittingRows(k, c) = {}
  BY <1>2 DEF LastValue, FileValue
<1>3. CASE FittingRows(k, c) # {}
  <2>1. PICK r \in FittingRows(k, c) :
              v = u.values[r][c].value /\ \A q \in FittingRows(k, c) : r >= q
    BY <1>1, <1>3 DEF LastValue
  <2>2. Max(FittingRows(k, c)) \in FittingRows(k, c)
        /\ \A q \in FittingRows(k, c) : Max(FittingRows(k, c)) >= q
    BY <2>1 DEF Max
  <2>3. Max(FittingRows(k, c)) = r
    BY <1>1, <2>1, <2>2
  <2> QED
    BY <1>3, <2>1, <2>3 DEF FileValue
<1> QED
  BY <1>2, <1>3

\* A load that succeeds has stored everything that the file declares, each set
\* with its members and each key with the values of its last rows.
THEOREM LoadIsFaithful == LoadSpec => []LoadFaithful
<1>1. Overrun => LoadFaithful
  BY DEF Overrun, LoadFaithful
<1>2. FaithInv => LoadFaithful
  <2> SUFFICES ASSUME FaithInv, pc = "loaded" PROVE LoadFaithful
    BY DEF LoadFaithful
  <2>1. /\ KeysLoaded /\ SetsLoaded /\ ColumnsLoaded
        /\ KeysDone = Len(u.keys) /\ SetsDone = Len(u.sets) /\ ColumnsDone = Len(u.columns)
        /\ Len(u.keys) \in Nat /\ DOMAIN u.keys = 1 .. Len(u.keys)
    BY FileFacts DEF FaithInv, BoundsInv, KeysDone, SetsDone, ColumnsDone, BeforeSets
  <2>2. DOMAIN keyTable = ToSet(u.keys)
    BY <2>1 DEF KeysLoaded, ToSet
  <2>3. DOMAIN setNamesTable = {u.sets[m].name : m \in 1 .. Len(u.sets)}
    BY <2>1 DEF SetsLoaded
  <2>4. ASSUME NEW m \in 1 .. Len(u.sets)
        PROVE  Members(u.sets[m].name) = FileMembers(m)
    <3>1. KeysListed(m) = Len(u.sets[m].keys)
      BY DEF KeysListed
    <3>2. Members(u.sets[m].name) = ListedKeys(m, KeysListed(m))
      BY <2>1 DEF SetsLoaded
    <3> QED
      BY <3>1, <3>2 DEF ListedKeys, FileMembers
  <2>5. ASSUME NEW c \in OwnColumns
        PROVE  /\ Known(attrNamesTable, u.columns[c].name)
               /\ \A k \in ToSet(u.keys) : ValueOf(u.columns[c].name, k) = FileValue(k, c)
    <3>1. ColumnHolds(c, Len(u.keys))
      BY <2>1 DEF ColumnsLoaded, RowsStored, OwnColumns
    <3>2. \A k \in ToSet(u.keys) : LastValue(ValueOf(u.columns[c].name, k), k, c, Len(u.keys))
      BY <2>2, <3>1 DEF ColumnHolds
    <3> QED
      BY <2>1, <3>1, <3>2, LastOfAll DEF ColumnHolds, Known
  <2> QED
    BY <2>2, <2>3, <2>4, <2>5 DEF LoadFaithful
<1> QED
  BY <1>1, <1>2, FaithInvariant, PTL
=============================================================================
