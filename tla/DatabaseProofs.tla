---------------------------- MODULE DatabaseProofs ----------------------------
(***************************************************************************)
(* What is true of the database of database.c whatever the limits, the     *)
(* names, the data and the layouts are: the invariants that the runs check *)
(* and the refinement of SetStore.                                         *)
(***************************************************************************)
EXTENDS DatabaseRefinement, FiniteSetTheorems, TLAPS

(***************************************************************************)
(* The inductive invariant.  Indexes are below the count, so the next one  *)
(* is fresh.  Of sets and attributes no more are made than the limit that  *)
(* was passed to createEmptyDB, and their symbol tables have more room     *)
(* than that: st_insert keeps every one of them, and there are as many     *)
(* names as were counted.  (Keys have no such limit: keyCount may run past *)
(* what keyTable holds.)                                                   *)
(***************************************************************************)
SetRecords ==
    /\ sets = [s \in DOMAIN sets |-> sets[s]]
    /\ \A s \in DOMAIN sets :
          sets[s] = [integer_count |-> sets[s].integer_count, bits |-> sets[s].bits]

AttributeRecords ==
    /\ attributes = [a \in DOMAIN attributes |-> attributes[a]]
    /\ \A a \in DOMAIN attributes :
          attributes[a] = [type         |-> attributes[a].type,
                           stringLength |-> attributes[a].stringLength,
                           data         |-> attributes[a].data]

Counted(table, count) ==
    IsFiniteSet(DOMAIN table) /\ Cardinality(DOMAIN table) = count

KeysInv ==
    /\ keyCount \in Nat
    /\ TableOK(keyTable, keyCount) /\ Injective(keyTable)

SetsInv ==
    /\ setCount \in Nat /\ setCount <= maxSetSize
    /\ TableOK(setNamesTable, setCount) /\ Injective(setNamesTable)
    /\ Counted(setNamesTable, setCount)
    /\ Indexes(setNamesTable) = DOMAIN sets
    /\ \A s \in DOMAIN sets : IsBitset(sets[s])
    /\ SetRecords

AttrsInv ==
    /\ attrCount \in Nat /\ attrCount <= maxAttrSize
    /\ TableOK(attrNamesTable, attrCount) /\ Injective(attrNamesTable)
    /\ Counted(attrNamesTable, attrCount)
    /\ Indexes(attrNamesTable) = DOMAIN attributes
    /\ \A a \in DOMAIN attributes :
          /\ attributes[a].type \in Types
          /\ \A k \in DOMAIN attributes[a].data :
                attributes[a].data[k] \in Nat \cup {Garbage}
    /\ AttributeRecords

DBInv ==
    /\ KeysInv /\ SetsInv /\ AttrsInv
    /\ OnlyKeysStored
    /\ status \in {"ok", "exited", "undefined"}

\* Every attribute has a type that some caller gave it.
LayoutsGiven == \A a \in DOMAIN attributes : \E l \in Layouts : attributes[a].type = l[1]

-----------------------------------------------------------------------------
(* The operators of the model.                                             *)

\* create_table: no names, no indexes, nothing counted.
LEMMA EmptyFunction ==
    /\ DOMAIN Empty = {}
    /\ Indexes(Empty) = {}
    /\ Injective(Empty)
    /\ TableOK(Empty, 0)
    /\ Counted(Empty, 0)
BY FS_EmptySet DEF Empty, Indexes, Injective, TableOK, Counted

\* A table of 1.3 times as many slots holds as many entries as the limit.
LEMMA TableHasRoom ==
    ASSUME NEW max \in Nat
    PROVE  TableSize(max) \in Nat /\ TableSize(max) >= max
BY DEF TableSize

\* A symbol table is given the next index, or drops the entry.
Inserted(table, new, name, count) ==
    /\ TableOK(new, count + 1)
    /\ Injective(new)
    /\ \/ new = table
       \/ /\ DOMAIN new = DOMAIN table \cup {name}
          /\ new[name] = count
          /\ Indexes(new) = Indexes(table) \cup {count}
    /\ \A n \in DOMAIN table : n \in DOMAIN new /\ new[n] = table[n]

\* st_insert of a name that st_search did not find, under an index not in use.
LEMMA InsertFresh ==
    ASSUME NEW table, NEW max, NEW name \in Text, NEW count \in Nat,
           TableOK(table, count), Injective(table), name \notin DOMAIN table
    PROVE  Inserted(table, st_insert(table, max, name, count), name, count)
<1> DEFINE new == st_insert(table, max, name, count)
<1> SUFFICES Inserted(table, new, name, count)
  OBVIOUS
<1>0. new = table \/ new = Extend(table, name, count)
  BY DEF st_insert
<1> HIDE DEF new
<1>1. CASE new = table
  BY <1>1 DEF TableOK, Inserted
<1>2. CASE new = Extend(table, name, count)
  <2>1. /\ DOMAIN new = DOMAIN table \cup {name}
        /\ new[name] = count
        /\ \A n \in DOMAIN table : new[n] = table[n]
    BY <1>2 DEF Extend
  <2>2. \A n \in DOMAIN table : table[n] \in 0 .. count - 1
    BY DEF TableOK
  <2>3. TableOK(new, count + 1)
    BY <2>1, <2>2 DEF TableOK
  <2>4. Injective(new)
    BY <2>1, <2>2 DEF Injective
  <2>5. Indexes(new) = Indexes(table) \cup {count}
    BY <2>1 DEF Indexes
  <2> QED
    BY <2>1, <2>3, <2>4, <2>5 DEF Inserted
<1> QED
  BY <1>0, <1>1, <1>2

\* Below the limit nothing is dropped.
LEMMA InsertKept ==
    ASSUME NEW table, NEW max \in Nat, NEW name, NEW count \in Nat,
           Counted(table, count), count < max, name \notin DOMAIN table
    PROVE  /\ st_insert(table, max, name, count) = Extend(table, name, count)
           /\ Counted(st_insert(table, max, name, count), count + 1)
<1>1. st_insert(table, max, name, count) = Extend(table, name, count)
  BY TableHasRoom DEF st_insert, Counted
<1>2. DOMAIN Extend(table, name, count) = DOMAIN table \cup {name}
  BY DEF Extend
<1>3. /\ IsFiniteSet(DOMAIN table \cup {name})
      /\ Cardinality(DOMAIN table \cup {name}) = count + 1
  BY FS_AddElement DEF Counted
<1> QED
  BY <1>1, <1>2, <1>3 DEF Counted

\* What any caller may store.
Datum == [isText : BOOLEAN, value : Nat]

\* What is stored of a value is a value.
LEMMA StoredType ==
    ASSUME NEW type, NEW d \in Datum
    PROVE  Stored(type, d) \in Nat \cup {Garbage}
<1>1. d.value \in Nat
  BY DEF Datum
<1>2. 2 ^ 8 \in Nat \ {0} /\ 2 ^ 16 \in Nat \ {0}
  OBVIOUS
<1>3. d.value % 2 ^ 8 \in Nat /\ d.value % 2 ^ 16 \in Nat
  BY <1>1, <1>2
<1> QED
  BY <1>1, <1>3 DEF Stored

-----------------------------------------------------------------------------
(* The invariant is kept.                                                  *)

\* The three invariants of the runs follow from the inductive one.
LEMMA DBInvImplies == DBInv => TypeOK /\ IndexesDistinct /\ OnlyKeysStored
BY DEF DBInv, KeysInv, SetsInv, AttrsInv, TypeOK, IndexesDistinct

\* An empty database satisfies the invariant.
LEMMA DBInit == Init => DBInv
<1> SUFFICES ASSUME Init PROVE DBInv
  OBVIOUS
<1>1. /\ DOMAIN sets = {} /\ DOMAIN attributes = {}
      /\ sets = [s \in DOMAIN sets |-> sets[s]]
      /\ attributes = [a \in DOMAIN attributes |-> attributes[a]]
  BY DEF Init, Empty
<1>2. KeysInv /\ SetsInv
  BY <1>1, EmptyFunction, DatabaseAssumption DEF Init, KeysInv, SetsInv, SetRecords
<1>3. AttrsInv
  BY <1>1, EmptyFunction, DatabaseAssumption DEF Init, AttrsInv, AttributeRecords
<1>4. OnlyKeysStored
  BY <1>1 DEF OnlyKeysStored
<1> QED
  BY <1>2, <1>3, <1>4 DEF Init, DBInv

\* Each part is about the variables of its own table.
LEMMA KeysKept == KeysInv /\ UNCHANGED keyVars => KeysInv'
BY DEF KeysInv, keyVars, TableOK, Injective

\* The invariant of the sets, where no set is touched.
LEMMA SetsKept == SetsInv /\ UNCHANGED setVars => SetsInv'
BY DEF SetsInv, setVars, TableOK, Injective, Counted, Indexes, IsBitset, SetRecords

\* The invariant of the attributes, where none is touched.
LEMMA AttrsKept == AttrsInv /\ UNCHANGED attrVars => AttrsInv'
BY DEF AttrsInv, attrVars, TableOK, Injective, Counted, Indexes, AttributeRecords

\* db_addKey: the invariant, and what becomes of the tables.
LEMMA AddKeyKeeps ==
    ASSUME DBInv, NEW name \in Text, db_addKey(name)
    PROVE  /\ DBInv'
           /\ \/ UNCHANGED dbVars
              \/ name \notin DOMAIN keyTable /\ UNCHANGED <<keyTable, setVars, attrVars>>
              \/ /\ name \notin DOMAIN keyTable
                 /\ DOMAIN keyTable' = DOMAIN keyTable \cup {name}
                 /\ keyTable'[name] = keyCount
                 /\ \A n \in DOMAIN keyTable : keyTable'[n] = keyTable[n]
                 /\ UNCHANGED <<setVars, attrVars>>
<1>1. UNCHANGED <<setVars, attrVars, status>> /\ KeysInv /\ SetsInv /\ AttrsInv /\ OnlyKeysStored
  BY DEF db_addKey, DBInv
<1>2. SetsInv' /\ AttrsInv'
  BY <1>1, SetsKept, AttrsKept
<1>3. CASE name = 0 \/ Known(keyTable, name)
  <2>1. UNCHANGED dbVars
    BY <1>1, <1>3 DEF db_addKey, dbVars
  <2> QED
    BY <1>1, <1>2, <2>1, KeysKept DEF DBInv, OnlyKeysStored, dbVars, keyVars, setVars, attrVars, Indexes
<1>4. CASE ~(name = 0 \/ Known(keyTable, name))
  <2>1. /\ name \notin DOMAIN keyTable
        /\ keyTable' = st_insert(keyTable, maxKeyCount, name, keyCount)
        /\ keyCount' = keyCount + 1
    BY <1>4 DEF db_addKey, Known
  <2>2. /\ TableOK(keyTable', keyCount + 1)
        /\ Injective(keyTable')
        /\ \/ keyTable' = keyTable
           \/ /\ DOMAIN keyTable' = DOMAIN keyTable \cup {name}
              /\ keyTable'[name] = keyCount
              /\ Indexes(keyTable') = Indexes(keyTable) \cup {keyCount}
        /\ \A n \in DOMAIN keyTable : n \in DOMAIN keyTable' /\ keyTable'[n] = keyTable[n]
    <3>1. Inserted(keyTable, keyTable', name, keyCount)
      BY <1>1, <2>1, InsertFresh DEF KeysInv
    <3> QED
      BY <3>1 DEF Inserted
  <2>3. KeysInv'
    BY <1>1, <2>1, <2>2 DEF KeysInv
  <2>4. Indexes(keyTable) \subseteq Indexes(keyTable')
    BY <2>2 DEF Indexes
  <2>5. OnlyKeysStored'
    BY <1>1, <2>4 DEF OnlyKeysStored, setVars, attrVars
  <2>6. DBInv'
    BY <1>1, <1>2, <2>3, <2>5 DEF DBInv
  <2> QED
    BY <1>1, <2>1, <2>2, <2>6
<1> QED
  BY <1>3, <1>4

\* db_createSet: the invariant, and the set that is new.
LEMMA CreateSetKeeps ==
    ASSUME DBInv, NEW name \in Text, db_createSet(name)
    PROVE  /\ DBInv'
           /\ UNCHANGED <<keyVars, attrVars>>
           /\ \/ UNCHANGED setVars
              \/ /\ name \notin DOMAIN setNamesTable
                 /\ setNamesTable' = Extend(setNamesTable, name, setCount)
                 /\ sets' = Extend(sets, setCount, bitset_initialize(maxKeyCount))
                 /\ setCount \notin DOMAIN sets
<1>1. UNCHANGED <<keyVars, attrVars>> /\ KeysInv /\ SetsInv /\ AttrsInv /\ OnlyKeysStored
  BY DEF db_createSet, DBInv
<1>2. KeysInv' /\ AttrsInv'
  BY <1>1, KeysKept, AttrsKept
<1>3. status' \in {"ok", "exited", "undefined"}
  BY DEF db_createSet, DBInv
<1>4. CASE UNCHANGED setVars
  BY <1>1, <1>2, <1>3, <1>4, SetsKept DEF DBInv, OnlyKeysStored, keyVars, setVars, attrVars, Indexes
<1>5. CASE ~ UNCHANGED setVars
  <2> DEFINE new == bitset_initialize(maxKeyCount)
  <2>1. /\ name \notin DOMAIN setNamesTable
        /\ setCount < maxSetSize
        /\ setNamesTable' = st_insert(setNamesTable, maxSetSize, name, setCount)
        /\ sets' = Extend(sets, setCount, new)
        /\ setCount' = setCount + 1
    BY <1>1, <1>5, DatabaseAssumption DEF db_createSet, Known, SetsInv
  <2>2. /\ TableOK(setNamesTable, setCount) /\ Injective(setNamesTable)
        /\ Counted(setNamesTable, setCount) /\ setCount \in Nat /\ maxSetSize \in Nat
    BY <1>1, DatabaseAssumption DEF SetsInv
  <2>3. /\ setNamesTable' = Extend(setNamesTable, name, setCount)
        /\ Counted(setNamesTable', setCount + 1)
    BY <2>1, <2>2, InsertKept
  <2>4. name \in DOMAIN setNamesTable'
    BY <2>3 DEF Extend
  <2>5. /\ TableOK(setNamesTable', setCount + 1)
        /\ Injective(setNamesTable')
        /\ Indexes(setNamesTable') = Indexes(setNamesTable) \cup {setCount}
    <3>1. Inserted(setNamesTable, setNamesTable', name, setCount)
      BY <2>1, <2>2, InsertFresh
    <3> QED
      BY <2>1, <2>4, <3>1 DEF Inserted
  <2>6. setCount \notin DOMAIN sets
    BY <1>1, <2>2 DEF SetsInv, Indexes, TableOK
  <2>7. /\ DOMAIN sets' = DOMAIN sets \cup {setCount}
        /\ sets'[setCount] = new
        /\ \A s \in DOMAIN sets : sets'[s] = sets[s]
        /\ sets' = [s \in DOMAIN sets' |-> sets'[s]]
    BY <2>1, <2>6 DEF Extend
  <2>8. /\ IsBitset(new) /\ new.bits = {}
        /\ new = [integer_count |-> new.integer_count, bits |-> new.bits]
    BY WordAssumption, DatabaseAssumption DEF IsBitset, bitset_initialize, Words
  <2>9. SetsInv'
    <3>1. \A s \in DOMAIN sets' : IsBitset(sets'[s])
      BY <1>1, <2>7, <2>8 DEF SetsInv
    <3>2. SetRecords'
      BY <1>1, <2>7, <2>8 DEF SetsInv, SetRecords
    <3>3. Indexes(setNamesTable') = DOMAIN sets'
      BY <1>1, <2>5, <2>7 DEF SetsInv
    <3>4. setCount' \in Nat /\ setCount' <= maxSetSize
      BY <2>1, <2>2
    <3>5. TableOK(setNamesTable', setCount') /\ Counted(setNamesTable', setCount')
      BY <2>1, <2>3, <2>5
    <3> QED
      BY <2>5, <3>1, <3>2, <3>3, <3>4, <3>5 DEF SetsInv
  <2>10. OnlyKeysStored'
    BY <1>1, <2>7, <2>8 DEF OnlyKeysStored, keyVars, attrVars, Indexes
  <2> QED
    BY <1>1, <1>2, <1>3, <2>1, <2>3, <2>6, <2>9, <2>10 DEF DBInv
<1> QED
  BY <1>4, <1>5

\* The bitset of this set is given these bits, and no other is changed.
OnlyBits(set, bits) ==
    /\ DOMAIN sets' = DOMAIN sets
    /\ sets'[setNamesTable[set]].bits = bits
    /\ sets'[setNamesTable[set]].integer_count = sets[setNamesTable[set]].integer_count
    /\ \A s \in DOMAIN sets \ {setNamesTable[set]} : sets'[s] = sets[s]

\* A bit that is written is that of a key in its table.
LEMMA BitKeeps ==
    ASSUME DBInv, NEW set \in DOMAIN setNamesTable, NEW key \in DOMAIN keyTable,
           NEW bits,
           bits \subseteq sets[setNamesTable[set]].bits \cup {keyTable[key]},
           SetBit(set, key, [sets[setNamesTable[set]] EXCEPT !.bits = bits]),
           UNCHANGED <<keyVars, setNamesTable, setCount, attrVars>>
    PROVE  /\ DBInv'
           /\ UNCHANGED sets \/ OnlyBits(set, bits)
<1> DEFINE s == setNamesTable[set]
           new == [sets[s] EXCEPT !.bits = bits]
<1>1. /\ KeysInv' /\ AttrsInv' /\ OnlyKeysStored /\ SetsInv
      /\ Indexes(keyTable)' = Indexes(keyTable)
  BY KeysKept, AttrsKept DEF DBInv, keyVars, Indexes
<1>2. status' \in {"ok", "exited", "undefined"}
  BY DEF DBInv, SetBit
<1>3. CASE UNCHANGED sets
  <2>1. SetsInv'
    BY <1>1, <1>3, SetsKept DEF setVars
  <2>2. OnlyKeysStored'
    BY <1>1, <1>3 DEF OnlyKeysStored, attrVars
  <2> QED
    BY <1>1, <1>2, <1>3, <2>1, <2>2 DEF DBInv
<1>4. CASE ~ UNCHANGED sets
  <2>1. keyTable[key] \in Positions(sets[s].integer_count) /\ sets' = [sets EXCEPT ![s] = new]
    BY <1>4 DEF SetBit
  <2>2. /\ s \in DOMAIN sets /\ IsBitset(sets[s])
        /\ sets[s] = [integer_count |-> sets[s].integer_count, bits |-> sets[s].bits]
        /\ sets = [i \in DOMAIN sets |-> sets[i]]
    BY <1>1 DEF SetsInv, SetRecords, Indexes
  <2>3. new = [integer_count |-> sets[s].integer_count, bits |-> bits]
    BY <2>2
  <2>4. IsBitset(new)
    BY <2>1, <2>2, <2>3 DEF IsBitset
  <2> HIDE DEF new
  <2>5. /\ DOMAIN sets' = DOMAIN sets
        /\ sets'[s] = new
        /\ \A i \in DOMAIN sets \ {s} : sets'[i] = sets[i]
        /\ sets' = [i \in DOMAIN sets' |-> sets'[i]]
    BY <2>1, <2>2
  <2>6. SetsInv'
    <3>1. SetRecords' /\ \A i \in DOMAIN sets' : IsBitset(sets'[i])
      BY <1>1, <2>3, <2>4, <2>5 DEF SetsInv, SetRecords
    <3>2. Indexes(setNamesTable)' = DOMAIN sets'
      BY <1>1, <2>5 DEF SetsInv, Indexes
    <3>3. TableOK(setNamesTable, setCount)' /\ Injective(setNamesTable)' /\ Counted(setNamesTable, setCount)'
      BY <1>1 DEF SetsInv, TableOK, Injective, Counted
    <3> QED
      BY <1>1, <3>1, <3>2, <3>3 DEF SetsInv
  <2>7. OnlyKeysStored'
    <3>1. bits \subseteq Indexes(keyTable)
      BY <1>1, <2>2 DEF OnlyKeysStored, Indexes
    <3> QED
      BY <1>1, <2>3, <2>5, <3>1 DEF OnlyKeysStored, attrVars
  <2> QED
    BY <1>1, <1>2, <2>3, <2>5, <2>6, <2>7 DEF DBInv, OnlyBits
<1> QED
  BY <1>3, <1>4

\* db_addToSet: the invariant, and the one bit that is set.
LEMMA AddToSetKeeps ==
    ASSUME DBInv, NEW set, NEW key, db_addToSet(set, key)
    PROVE  /\ DBInv'
           /\ UNCHANGED <<keyVars, setNamesTable, setCount, attrVars>>
           /\ \/ UNCHANGED sets
              \/ /\ set \in DOMAIN setNamesTable /\ key \in DOMAIN keyTable
                 /\ OnlyBits(set, sets[setNamesTable[set]].bits \cup {keyTable[key]})
<1> DEFINE s == setNamesTable[set]
           bits == sets[s].bits \cup {keyTable[key]}
<1>1. UNCHANGED <<keyVars, setNamesTable, setCount, attrVars>>
  BY DEF db_addToSet
<1>2. CASE UNCHANGED <<sets, status>>
  BY <1>1, <1>2, KeysKept, SetsKept, AttrsKept
     DEF DBInv, OnlyKeysStored, keyVars, setVars, attrVars, Indexes
<1>3. CASE ~ UNCHANGED <<sets, status>>
  <2>1. /\ set \in DOMAIN setNamesTable /\ key \in DOMAIN keyTable
        /\ SetBit(set, key, bitset_set_bit(sets[s], keyTable[key]))
    BY <1>3 DEF db_addToSet, Known
  <2>2. SetBit(set, key, [sets[s] EXCEPT !.bits = bits])
    BY <2>1 DEF bitset_set_bit
  <2>3. bits \subseteq sets[s].bits \cup {keyTable[key]}
    OBVIOUS
  <2> HIDE DEF bits
  <2>4. DBInv' /\ (UNCHANGED sets \/ OnlyBits(set, bits))
    BY <1>1, <2>1, <2>2, <2>3, BitKeeps
  <2> QED
    BY <1>1, <2>1, <2>4 DEF bits
<1> QED
  BY <1>2, <1>3

\* db_removeFromSet: the invariant, and the one bit that is cleared.
LEMMA RemoveFromSetKeeps ==
    ASSUME DBInv, NEW set, NEW key, db_removeFromSet(set, key)
    PROVE  /\ DBInv'
           /\ UNCHANGED <<keyVars, setNamesTable, setCount, attrVars>>
           /\ \/ UNCHANGED sets
              \/ /\ set \in DOMAIN setNamesTable /\ key \in DOMAIN keyTable
                 /\ OnlyBits(set, sets[setNamesTable[set]].bits \ {keyTable[key]})
<1> DEFINE s == setNamesTable[set]
           bits == sets[s].bits \ {keyTable[key]}
<1>1. UNCHANGED <<keyVars, setNamesTable, setCount, attrVars>>
  BY DEF db_removeFromSet
<1>2. CASE UNCHANGED <<sets, status>>
  BY <1>1, <1>2, KeysKept, SetsKept, AttrsKept
     DEF DBInv, OnlyKeysStored, keyVars, setVars, attrVars, Indexes
<1>3. CASE ~ UNCHANGED <<sets, status>>
  <2>1. /\ set \in DOMAIN setNamesTable /\ key \in DOMAIN keyTable
        /\ SetBit(set, key, bitset_clear_bit(sets[s], keyTable[key]))
    BY <1>3 DEF db_removeFromSet, Known
  <2>2. SetBit(set, key, [sets[s] EXCEPT !.bits = bits])
    BY <2>1 DEF bitset_clear_bit
  <2>3. bits \subseteq sets[s].bits \cup {keyTable[key]}
    OBVIOUS
  <2> HIDE DEF bits
  <2>4. DBInv' /\ (UNCHANGED sets \/ OnlyBits(set, bits))
    BY <1>1, <2>1, <2>2, <2>3, BitKeeps
  <2> QED
    BY <1>1, <2>1, <2>4 DEF bits
<1> QED
  BY <1>2, <1>3

\* db_createAttribute: the invariant, and the attribute that is new.
LEMMA CreateAttributeKeeps ==
    ASSUME DBInv, NEW name \in Text, NEW type \in Types, NEW stringSize \in Nat,
           db_createAttribute(name, type, stringSize)
    PROVE  /\ DBInv'
           /\ UNCHANGED <<keyVars, setVars>>
           /\ \/ UNCHANGED attrVars
              \/ /\ name \notin DOMAIN attrNamesTable
                 /\ attrNamesTable' = Extend(attrNamesTable, name, attrCount)
                 /\ DOMAIN attributes' = DOMAIN attributes \cup {attrCount}
                 /\ attributes'[attrCount].type = type
                 /\ attributes'[attrCount].stringLength = stringSize
                 /\ DOMAIN attributes'[attrCount].data = {}
                 /\ \A a \in DOMAIN attributes : attributes'[a] = attributes[a]
                 /\ attrCount \notin DOMAIN attributes
<1>1. UNCHANGED <<keyVars, setVars, status>> /\ KeysInv /\ SetsInv /\ AttrsInv /\ OnlyKeysStored
  BY DEF db_createAttribute, DBInv
<1>2. KeysInv' /\ SetsInv' /\ Indexes(keyTable)' = Indexes(keyTable)
  BY <1>1, KeysKept, SetsKept DEF keyVars, Indexes
<1>3. CASE UNCHANGED attrVars
  BY <1>1, <1>2, <1>3, AttrsKept DEF DBInv, OnlyKeysStored, setVars, attrVars
<1>4. CASE ~ UNCHANGED attrVars
  <2> DEFINE new == [type |-> type, stringLength |-> stringSize, data |-> Empty]
  <2>1. /\ name \notin DOMAIN attrNamesTable
        /\ attrCount # maxAttrSize
        /\ attrNamesTable' = st_insert(attrNamesTable, maxAttrSize, name, attrCount)
        /\ attributes' = Extend(attributes, attrCount, new)
        /\ attrCount' = attrCount + 1
    BY <1>4 DEF db_createAttribute, Known
  <2>2. /\ TableOK(attrNamesTable, attrCount) /\ Injective(attrNamesTable)
        /\ Counted(attrNamesTable, attrCount)
        /\ attrCount \in Nat /\ maxAttrSize \in Nat /\ attrCount < maxAttrSize
    BY <1>1, <2>1, DatabaseAssumption DEF AttrsInv
  <2>3. /\ attrNamesTable' = Extend(attrNamesTable, name, attrCount)
        /\ Counted(attrNamesTable', attrCount + 1)
    BY <2>1, <2>2, InsertKept
  <2>4. name \in DOMAIN attrNamesTable'
    BY <2>3 DEF Extend
  <2>5. /\ TableOK(attrNamesTable', attrCount + 1)
        /\ Injective(attrNamesTable')
        /\ Indexes(attrNamesTable') = Indexes(attrNamesTable) \cup {attrCount}
    <3>1. Inserted(attrNamesTable, attrNamesTable', name, attrCount)
      BY <2>1, <2>2, InsertFresh
    <3> QED
      BY <2>1, <2>4, <3>1 DEF Inserted
  <2>6. attrCount \notin DOMAIN attributes
    BY <1>1, <2>2 DEF AttrsInv, Indexes, TableOK
  <2>7. /\ DOMAIN attributes' = DOMAIN attributes \cup {attrCount}
        /\ attributes'[attrCount] = new
        /\ \A a \in DOMAIN attributes : attributes'[a] = attributes[a]
        /\ attributes' = [a \in DOMAIN attributes' |-> attributes'[a]]
    BY <2>1, <2>6 DEF Extend
  <2>8. /\ new.type = type /\ new.stringLength = stringSize /\ DOMAIN new.data = {}
        /\ new = [type |-> new.type, stringLength |-> new.stringLength, data |-> new.data]
    BY EmptyFunction
  <2> HIDE DEF new
  <2>9. AttrsInv'
    <3>1. \A a \in DOMAIN attributes' :
             /\ attributes'[a].type \in Types
             /\ \A k \in DOMAIN attributes'[a].data :
                   attributes'[a].data[k] \in Nat \cup {Garbage}
      BY <1>1, <2>7, <2>8 DEF AttrsInv
    <3>2. AttributeRecords'
      BY <1>1, <2>7, <2>8 DEF AttrsInv, AttributeRecords
    <3>3. Indexes(attrNamesTable') = DOMAIN attributes'
      BY <1>1, <2>5, <2>7 DEF AttrsInv
    <3>4. attrCount' \in Nat /\ attrCount' <= maxAttrSize
      BY <2>1, <2>2
    <3>5. TableOK(attrNamesTable', attrCount') /\ Counted(attrNamesTable', attrCount')
      BY <2>1, <2>3, <2>5
    <3> QED
      BY <2>5, <3>1, <3>2, <3>3, <3>4, <3>5 DEF AttrsInv
  <2>10. OnlyKeysStored'
    BY <1>1, <1>2, <2>7, <2>8 DEF OnlyKeysStored, setVars
  <2> QED
    BY <1>1, <1>2, <2>1, <2>3, <2>6, <2>7, <2>8, <2>9, <2>10 DEF DBInv
<1> QED
  BY <1>3, <1>4

\* The entry of this key is written, with what some attribute stores of the
\* data, and no other entry.
OnlyEntry(attr, key, d) ==
    LET a == attrNamesTable[attr]
    IN  /\ DOMAIN attributes' = DOMAIN attributes
        /\ attributes'[a].type = attributes[a].type
        /\ attributes'[a].stringLength = attributes[a].stringLength
        /\ attributes'[a].data =
              Extend(attributes[a].data, keyTable[key], Stored(attributes[a].type, d))
        /\ \A b \in DOMAIN attributes \ {a} : attributes'[b] = attributes[b]

\* db_setAttribute: the invariant, and the one entry that changes.
LEMMA SetAttributeKeeps ==
    ASSUME DBInv, NEW attr, NEW key, NEW d \in Datum, db_setAttribute(attr, key, d)
    PROVE  /\ DBInv'
           /\ UNCHANGED <<keyVars, setVars, attrNamesTable, attrCount>>
           /\ \/ UNCHANGED attributes
              \/ /\ attr \in DOMAIN attrNamesTable /\ key \in DOMAIN keyTable
                 /\ OnlyEntry(attr, key, d)
<1> DEFINE a == attrNamesTable[attr]
           t == attributes[a]
           k == keyTable[key]
           new == [type         |-> t.type,
                   stringLength |-> t.stringLength,
                   data         |-> Extend(t.data, k, Stored(t.type, d))]
<1>1. /\ UNCHANGED <<keyVars, setVars, attrNamesTable, attrCount>>
      /\ KeysInv /\ SetsInv /\ AttrsInv /\ OnlyKeysStored
  BY DEF db_setAttribute, DBInv
<1>2. KeysInv' /\ SetsInv' /\ Indexes(keyTable)' = Indexes(keyTable)
  BY <1>1, KeysKept, SetsKept DEF keyVars, Indexes
<1>3. status' \in {"ok", "exited", "undefined"}
  BY DEF db_setAttribute, DBInv
<1>4. CASE UNCHANGED attributes
  BY <1>1, <1>2, <1>3, <1>4, AttrsKept DEF DBInv, OnlyKeysStored, setVars, attrVars
<1>5. CASE ~ UNCHANGED attributes
  <2>1. /\ attr \in DOMAIN attrNamesTable /\ key \in DOMAIN keyTable
        /\ attributes' = [attributes EXCEPT ![a].data = Extend(@, k, Stored(t.type, d))]
    BY <1>5 DEF db_setAttribute, Known
  <2>2. /\ a \in DOMAIN attributes /\ k \in Indexes(keyTable)
        /\ attributes = [b \in DOMAIN attributes |-> attributes[b]]
        /\ t = [type |-> t.type, stringLength |-> t.stringLength, data |-> t.data]
    BY <1>1, <2>1 DEF AttrsInv, AttributeRecords, Indexes
  <2>3. attributes' = [attributes EXCEPT ![a] = new]
    <3> DEFINE entries == Extend(t.data, k, Stored(t.type, d))
    <3>1. attributes' = [attributes EXCEPT ![a].data = entries]
      BY <2>1
    <3>2. new = [type |-> t.type, stringLength |-> t.stringLength, data |-> entries]
      OBVIOUS
    <3> HIDE DEF entries, new
    <3>3. [t EXCEPT !.data = entries] = new
      BY <2>2, <3>2
    <3> QED
      BY <2>2, <3>1, <3>3
  <2>4. /\ DOMAIN new.data = DOMAIN t.data \cup {k}
        /\ new.data[k] = Stored(t.type, d)
        /\ \A i \in DOMAIN t.data : i # k => new.data[i] = t.data[i]
    BY DEF Extend
  <2>5. /\ new.type = t.type /\ new.stringLength = t.stringLength
        /\ new = [type |-> new.type, stringLength |-> new.stringLength, data |-> new.data]
        /\ new.data = Extend(t.data, k, Stored(t.type, d))
    OBVIOUS
  <2> HIDE DEF new
  <2>6. /\ DOMAIN attributes' = DOMAIN attributes
        /\ attributes'[a] = new
        /\ \A b \in DOMAIN attributes \ {a} : attributes'[b] = attributes[b]
        /\ attributes' = [b \in DOMAIN attributes' |-> attributes'[b]]
    BY <2>2, <2>3
  <2>7. AttrsInv'
    <3>1. \A i \in DOMAIN new.data : new.data[i] \in Nat \cup {Garbage}
      BY <1>1, <2>2, <2>4, StoredType DEF AttrsInv
    <3>2. \A b \in DOMAIN attributes' :
             /\ attributes'[b].type \in Types
             /\ \A i \in DOMAIN attributes'[b].data :
                   attributes'[b].data[i] \in Nat \cup {Garbage}
      BY <1>1, <2>2, <2>5, <2>6, <3>1 DEF AttrsInv
    <3>3. AttributeRecords'
      BY <1>1, <2>5, <2>6 DEF AttrsInv, AttributeRecords
    <3>4. Indexes(attrNamesTable)' = DOMAIN attributes'
      BY <1>1, <2>6 DEF AttrsInv, Indexes
    <3>5. TableOK(attrNamesTable, attrCount)' /\ Injective(attrNamesTable)' /\ Counted(attrNamesTable, attrCount)'
      BY <1>1 DEF AttrsInv, TableOK, Injective, Counted
    <3> QED
      BY <1>1, <3>2, <3>3, <3>4, <3>5 DEF AttrsInv
  <2>8. OnlyKeysStored'
    BY <1>1, <1>2, <2>2, <2>4, <2>6 DEF OnlyKeysStored, setVars
  <2>9. OnlyEntry(attr, key, d)
    BY <2>5, <2>6 DEF OnlyEntry
  <2> QED
    BY <1>1, <1>2, <1>3, <2>1, <2>7, <2>8, <2>9 DEF DBInv
<1> QED
  BY <1>4, <1>5

\* Every call keeps the invariant.
LEMMA DBNext == DBInv /\ [Next]_dbVars => DBInv'
<1> SUFFICES ASSUME DBInv, [Next]_dbVars PROVE DBInv'
  OBVIOUS
<1>1. CASE \E k \in KeyNames : keyCount < KeyBound /\ db_addKey(k)
  BY <1>1, AddKeyKeeps, DatabaseAssumption
<1>2. CASE \E s \in SetNames : db_createSet(s)
  BY <1>2, CreateSetKeeps, DatabaseAssumption
<1>3. CASE \E s \in SetNames, k \in KeyNames : db_addToSet(s, k)
  BY <1>3, AddToSetKeeps
<1>4. CASE \E s \in SetNames, k \in KeyNames : db_removeFromSet(s, k)
  BY <1>4, RemoveFromSetKeeps
<1>5. CASE \E a \in AttrNames, l \in Layouts : db_createAttribute(a, l[1], l[2])
  <2>1. \A l \in Layouts : l[1] \in Types /\ l[2] \in Nat
    BY DatabaseAssumption
  <2> QED
    BY <1>5, <2>1, CreateAttributeKeeps, DatabaseAssumption
<1>6. CASE \E a \in AttrNames, k \in KeyNames, d \in Data : db_setAttribute(a, k, d)
  BY <1>6, SetAttributeKeeps, DatabaseAssumption DEF Datum
<1>7. CASE UNCHANGED dbVars
  BY <1>7, KeysKept, SetsKept, AttrsKept
     DEF DBInv, OnlyKeysStored, dbVars, keyVars, setVars, attrVars, Indexes
<1> QED
  BY <1>1, <1>2, <1>3, <1>4, <1>5, <1>6, <1>7 DEF Next

\* The invariant holds in every execution.
LEMMA DBInvariant == Spec => []DBInv
<1>1. Init => DBInv
  BY DBInit
<1>2. DBInv /\ [Next]_dbVars => DBInv'
  BY DBNext
<1> QED
  BY <1>1, <1>2, PTL DEF Spec

\* Attributes are created with a layout that the caller may give, and keep it.
LEMMA LayoutsNext ==
    ASSUME DBInv, LayoutsGiven, [Next]_dbVars
    PROVE  LayoutsGiven'
<1>1. CASE UNCHANGED attributes
  BY <1>1 DEF LayoutsGiven
<1>2. CASE \E a \in AttrNames, l \in Layouts : db_createAttribute(a, l[1], l[2])
  <2>1. PICK a \in AttrNames, l \in Layouts : db_createAttribute(a, l[1], l[2])
    BY <1>2
  <2>2. a \in Text /\ l[1] \in Types /\ l[2] \in Nat
    BY DatabaseAssumption
  <2>3. \/ UNCHANGED attrVars
        \/ /\ DOMAIN attributes' = DOMAIN attributes \cup {attrCount}
           /\ attributes'[attrCount].type = l[1]
           /\ \A b \in DOMAIN attributes : attributes'[b] = attributes[b]
    BY <2>1, <2>2, CreateAttributeKeeps
  <2> QED
    BY <2>3 DEF LayoutsGiven, attrVars
<1>3. CASE \E a \in AttrNames, k \in KeyNames, d \in Data : db_setAttribute(a, k, d)
  <2>1. PICK a \in AttrNames, k \in KeyNames, d \in Data : db_setAttribute(a, k, d)
    BY <1>3
  <2>2. d \in Datum
    BY DatabaseAssumption DEF Datum
  <2>3. UNCHANGED attributes \/ OnlyEntry(a, k, d)
    BY <2>1, <2>2, SetAttributeKeeps
  <2> QED
    BY <2>3 DEF LayoutsGiven, OnlyEntry
<1>4. CASE UNCHANGED dbVars
  BY <1>1, <1>4 DEF dbVars, attrVars
<1> QED
  BY <1>1, <1>2, <1>3, <1>4
     DEF Next, db_addKey, db_createSet, db_addToSet, db_removeFromSet, attrVars

\* In every execution attributes have such a layout.
LEMMA LayoutsInvariant == Spec => []LayoutsGiven
<1>1. Init => LayoutsGiven
  BY EmptyFunction DEF Init, LayoutsGiven
<1>2. DBInv /\ LayoutsGiven /\ [Next]_dbVars => LayoutsGiven'
  BY LayoutsNext
<1> QED
  BY <1>1, <1>2, DBInvariant, PTL DEF Spec

\* Names, indexes and entries have the types of database.h.
THEOREM TypeCorrect == Spec => []TypeOK
BY DBInvariant, DBInvImplies, PTL

\* Whatever the limits are, two names never share an index, every named set
\* has its bitset and every named attribute its array.
THEOREM IndexesCorrect == Spec => []IndexesDistinct
BY DBInvariant, DBInvImplies, PTL

\* A bit or an entry belongs to a key that can be found.
THEOREM KeysStoredCorrect == Spec => []OnlyKeysStored
BY DBInvariant, DBInvImplies, PTL

-----------------------------------------------------------------------------
(* The refinement.  Every call is one operation of SetStore, or changes    *)
(* nothing that a caller could tell.                                       *)

storeKeys    == DOMAIN keyTable
storeMembers == [s \in DOMAIN setNamesTable |-> Members(s)]
storeValue   ==
    [a \in DOMAIN attrNamesTable |-> [k \in DOMAIN keyTable |-> ValueOf(a, k)]]
storeVars    == <<storeKeys, storeMembers, storeValue>>

\* A name leads to an array that exists, whose indexes are those of keys.
LEMMA NamesLead ==
    ASSUME DBInv
    PROVE  /\ \A s \in DOMAIN setNamesTable :
                 /\ setNamesTable[s] \in DOMAIN sets
                 /\ sets[setNamesTable[s]].bits \subseteq Indexes(keyTable)
           /\ \A a \in DOMAIN attrNamesTable :
                 /\ attrNamesTable[a] \in DOMAIN attributes
                 /\ DOMAIN attributes[attrNamesTable[a]].data \subseteq Indexes(keyTable)
           /\ \A k \in DOMAIN keyTable : keyTable[k] \in 0 .. keyCount - 1
           /\ keyCount \in Nat
<1>1. \A s \in DOMAIN setNamesTable : setNamesTable[s] \in DOMAIN sets
  BY DEF DBInv, SetsInv, Indexes
<1>2. \A a \in DOMAIN attrNamesTable : attrNamesTable[a] \in DOMAIN attributes
  BY DEF DBInv, AttrsInv, Indexes
<1>3. (\A k \in DOMAIN keyTable : keyTable[k] \in 0 .. keyCount - 1) /\ keyCount \in Nat
  BY DEF DBInv, KeysInv, TableOK
<1> QED
  BY <1>1, <1>2, <1>3 DEF DBInv, OnlyKeysStored

\* What is read by name depends on the tables alone.
LEMMA StoreKept ==
    ASSUME UNCHANGED <<keyTable, setNamesTable, sets, attrNamesTable, attributes>>
    PROVE  UNCHANGED storeVars
<1>1. UNCHANGED storeKeys /\ UNCHANGED storeMembers
  BY DEF storeKeys, storeMembers, Members
<1>2. UNCHANGED storeValue
  BY DEF storeValue, ValueOf, Entry
<1> QED
  BY <1>1, <1>2 DEF storeVars

\* Members by name are a function of these tables.
LEMMA MembersKept ==
    ASSUME UNCHANGED <<keyTable, setNamesTable, sets>>
    PROVE  UNCHANGED <<storeKeys, storeMembers>>
BY DEF storeKeys, storeMembers, Members

\* Values by name are a function of these tables.
LEMMA ValuesKept ==
    ASSUME UNCHANGED <<keyTable, attrNamesTable, attributes>>
    PROVE  UNCHANGED <<storeKeys, storeValue>>
BY DEF storeKeys, storeValue, ValueOf, Entry

\* db_addKey adds the key to the store, or nothing.
LEMMA AddKeyStep ==
    ASSUME DBInv, NEW key \in KeyNames, db_addKey(key)
    PROVE  Store!AddKey(key) \/ UNCHANGED storeVars
<1>1. key \in Text
  BY DatabaseAssumption
<1>2. CASE UNCHANGED <<keyTable, setVars, attrVars>>
  BY <1>2, StoreKept DEF setVars, attrVars
<1>3. CASE /\ key \notin DOMAIN keyTable
           /\ DOMAIN keyTable' = DOMAIN keyTable \cup {key}
           /\ keyTable'[key] = keyCount
           /\ \A n \in DOMAIN keyTable : keyTable'[n] = keyTable[n]
           /\ UNCHANGED <<setVars, attrVars>>
  <2> USE <1>3
  <2>1. keyCount \notin Indexes(keyTable)
    BY NamesLead DEF Indexes
  <2>2. UNCHANGED storeMembers
    <3>1. \A s \in DOMAIN setNamesTable : Members(s)' = Members(s)
      BY <2>1, NamesLead DEF Members, setVars
    <3> QED
      BY <3>1 DEF storeMembers, setVars
  <2>3. storeValue' = [a \in DOMAIN storeValue |-> Store!With(storeValue[a], key, Store!Zero)]
    <3>1. \A a \in DOMAIN attrNamesTable :
             /\ \A k \in DOMAIN keyTable : ValueOf(a, k)' = ValueOf(a, k)
             /\ ValueOf(a, key)' = 0
      BY <2>1, NamesLead DEF ValueOf, Entry, attrVars
    <3>2. \A a \in DOMAIN attrNamesTable :
             [k \in DOMAIN keyTable |-> ValueOf(a, k)]'
                = Store!With([k \in DOMAIN keyTable |-> ValueOf(a, k)], key, Store!Zero)
      BY <3>1 DEF Store!With, Store!Zero
    <3> QED
      BY <3>2 DEF storeValue, attrVars
  <2> QED
    BY <2>2, <2>3 DEF Store!AddKey, storeKeys, storeMembers, storeValue
<1> QED
  BY <1>1, <1>2, <1>3, AddKeyKeeps DEF dbVars, keyVars

\* By name: a new set is empty, and the others keep their members.
SetAdded(set) ==
    /\ set \notin DOMAIN setNamesTable
    /\ DOMAIN setNamesTable' = DOMAIN setNamesTable \cup {set}
    /\ Members(set)' = {}
    /\ \A s \in DOMAIN setNamesTable : Members(s)' = Members(s)

\* db_createSet, seen by name: the set is new and empty, others are as before.
LEMMA CreateSetByName ==
    ASSUME DBInv, NEW set \in Text, db_createSet(set)
    PROVE  UNCHANGED setVars \/ SetAdded(set)
<1>1. UNCHANGED keyVars
  BY DEF db_createSet
<1>2. CASE /\ set \notin DOMAIN setNamesTable
           /\ setNamesTable' = Extend(setNamesTable, set, setCount)
           /\ sets' = Extend(sets, setCount, bitset_initialize(maxKeyCount))
           /\ setCount \notin DOMAIN sets
  <2> USE <1>2
  <2>1. /\ DOMAIN setNamesTable' = DOMAIN setNamesTable \cup {set}
        /\ setNamesTable'[set] = setCount
        /\ \A s \in DOMAIN setNamesTable : setNamesTable'[s] = setNamesTable[s]
        /\ sets'[setCount].bits = {}
        /\ \A s \in DOMAIN sets : sets'[s] = sets[s]
    BY DEF Extend, bitset_initialize
  <2>2. \A s \in DOMAIN setNamesTable : Members(s)' = Members(s)
    BY <1>1, <2>1, NamesLead DEF Members, keyVars
  <2>3. Members(set)' = {}
    BY <1>1, <2>1 DEF Members
  <2> QED
    BY <2>1, <2>2, <2>3 DEF SetAdded
<1> QED
  BY <1>2, CreateSetKeeps

\* db_createSet creates the set in the store, or nothing.
LEMMA CreateSetStep ==
    ASSUME DBInv, NEW set \in SetNames, db_createSet(set)
    PROVE  Store!CreateSet(set) \/ UNCHANGED storeVars
<1>1. set \in Text /\ UNCHANGED <<keyVars, attrVars>>
  BY DatabaseAssumption DEF db_createSet
<1>2. CASE UNCHANGED setVars
  BY <1>1, <1>2, StoreKept DEF keyVars, setVars, attrVars
<1>3. CASE SetAdded(set)
  <2>1. UNCHANGED <<storeKeys, storeValue>>
    BY <1>1, ValuesKept DEF keyVars, attrVars
  <2>2. storeMembers' = Store!With(storeMembers, set, {})
    BY <1>3 DEF SetAdded, storeMembers, Store!With
  <2> QED
    BY <1>3, <2>1, <2>2 DEF SetAdded, Store!CreateSet, storeKeys, storeMembers, storeValue
<1> QED
  BY <1>1, <1>2, <1>3, CreateSetByName

\* The bits of a named set are its members: other sets keep theirs, because
\* their names lead to other bitsets.
MembersBecome(set, names) ==
    /\ Members(set)' = names
    /\ \A s \in DOMAIN setNamesTable \ {set} : Members(s)' = Members(s)

\* A change of one row of bits is a change of the members of one name.
LEMMA BitsByName ==
    ASSUME DBInv, NEW set \in DOMAIN setNamesTable, NEW bits,
           OnlyBits(set, bits), UNCHANGED <<keyVars, setNamesTable>>
    PROVE  MembersBecome(set, {k \in DOMAIN keyTable : keyTable[k] \in bits})
<1>1. Members(set)' = {k \in DOMAIN keyTable : keyTable[k] \in bits}
  BY DEF Members, OnlyBits, keyVars
<1>2. \A s \in DOMAIN setNamesTable \ {set} : Members(s)' = Members(s)
  <2>1. \A s \in DOMAIN setNamesTable \ {set} : setNamesTable[s] # setNamesTable[set]
    BY DEF DBInv, SetsInv, Injective
  <2>2. \A s \in DOMAIN setNamesTable \ {set} : sets'[setNamesTable[s]] = sets[setNamesTable[s]]
    BY <2>1, NamesLead DEF OnlyBits
  <2> QED
    BY <2>2 DEF Members, keyVars
<1> QED
  BY <1>1, <1>2 DEF MembersBecome

\* The same for the store.
LEMMA BitsStep ==
    ASSUME DBInv, NEW set \in DOMAIN setNamesTable, NEW bits,
           OnlyBits(set, bits), UNCHANGED <<keyVars, setNamesTable, attrVars>>
    PROVE  /\ UNCHANGED <<storeKeys, storeValue>>
           /\ storeMembers' =
                 [storeMembers EXCEPT ![set] = {k \in DOMAIN keyTable : keyTable[k] \in bits}]
<1>1. UNCHANGED <<storeKeys, storeValue>>
  BY ValuesKept DEF keyVars, attrVars
<1>2. MembersBecome(set, {k \in DOMAIN keyTable : keyTable[k] \in bits})
  BY BitsByName
<1> QED
  BY <1>1, <1>2 DEF storeMembers, MembersBecome

\* db_addToSet inserts the key into the set of the store, or nothing.
LEMMA AddToSetStep ==
    ASSUME DBInv, NEW set, NEW key, db_addToSet(set, key)
    PROVE  Store!Insert(set, key) \/ UNCHANGED storeVars
<1>1. UNCHANGED <<keyVars, setNamesTable, setCount, attrVars>>
  BY DEF db_addToSet
<1>2. CASE UNCHANGED sets
  BY <1>1, <1>2, StoreKept DEF keyVars, attrVars
<1>3. CASE /\ set \in DOMAIN setNamesTable /\ key \in DOMAIN keyTable
           /\ OnlyBits(set, sets[setNamesTable[set]].bits \cup {keyTable[key]})
  <2> DEFINE bits == sets[setNamesTable[set]].bits
  <2>1. {k \in DOMAIN keyTable : keyTable[k] \in bits \cup {keyTable[key]}}
            = Members(set) \cup {key}
    BY <1>3 DEF Members, DBInv, KeysInv, Injective
  <2>2. /\ UNCHANGED <<storeKeys, storeValue>>
        /\ storeMembers' = [storeMembers EXCEPT ![set] = Members(set) \cup {key}]
    BY <1>1, <1>3, <2>1, BitsStep
  <2>3. storeMembers[set] = Members(set) /\ set \in DOMAIN storeMembers
    BY <1>3 DEF storeMembers
  <2>4. storeMembers' = [storeMembers EXCEPT ![set] = @ \cup {key}]
    BY <2>2, <2>3
  <2> QED
    BY <1>3, <2>2, <2>3, <2>4 DEF Store!Insert, storeKeys, storeMembers, storeValue
<1> QED
  BY <1>1, <1>2, <1>3, AddToSetKeeps

\* db_removeFromSet removes it, or nothing.
LEMMA RemoveFromSetStep ==
    ASSUME DBInv, NEW set, NEW key, db_removeFromSet(set, key)
    PROVE  Store!Remove(set, key) \/ UNCHANGED storeVars
<1>1. UNCHANGED <<keyVars, setNamesTable, setCount, attrVars>>
  BY DEF db_removeFromSet
<1>2. CASE UNCHANGED sets
  BY <1>1, <1>2, StoreKept DEF keyVars, attrVars
<1>3. CASE /\ set \in DOMAIN setNamesTable /\ key \in DOMAIN keyTable
           /\ OnlyBits(set, sets[setNamesTable[set]].bits \ {keyTable[key]})
  <2> DEFINE bits == sets[setNamesTable[set]].bits
  <2>1. {k \in DOMAIN keyTable : keyTable[k] \in bits \ {keyTable[key]}}
            = Members(set) \ {key}
    BY <1>3 DEF Members, DBInv, KeysInv, Injective
  <2>2. /\ UNCHANGED <<storeKeys, storeValue>>
        /\ storeMembers' = [storeMembers EXCEPT ![set] = Members(set) \ {key}]
    BY <1>1, <1>3, <2>1, BitsStep
  <2>3. storeMembers[set] = Members(set) /\ set \in DOMAIN storeMembers
    BY <1>3 DEF storeMembers
  <2>4. storeMembers' = [storeMembers EXCEPT ![set] = @ \ {key}]
    BY <2>2, <2>3
  <2> QED
    BY <1>3, <2>2, <2>3, <2>4 DEF Store!Remove, storeKeys, storeMembers, storeValue
<1> QED
  BY <1>1, <1>2, <1>3, RemoveFromSetKeeps

\* By name: a new attribute has the type that was asked for and is 0 for
\* every key, and the others keep their types and values.
AttributeAdded(attr, type, stringSize) ==
    /\ attr \notin DOMAIN attrNamesTable
    /\ DOMAIN attrNamesTable' = DOMAIN attrNamesTable \cup {attr}
    /\ attributes'[attrNamesTable'[attr]].type = type
    /\ attributes'[attrNamesTable'[attr]].stringLength = stringSize
    /\ \A k \in DOMAIN keyTable : ValueOf(attr, k)' = 0
    /\ \A a \in DOMAIN attrNamesTable :
          /\ attributes'[attrNamesTable'[a]] = attributes[attrNamesTable[a]]
          /\ \A k \in DOMAIN keyTable : ValueOf(a, k)' = ValueOf(a, k)

\* db_createAttribute, seen by name: it is new and without values.
LEMMA CreateAttributeByName ==
    ASSUME DBInv, NEW attr \in Text, NEW type \in Types, NEW stringSize \in Nat,
           db_createAttribute(attr, type, stringSize)
    PROVE  UNCHANGED attrVars \/ AttributeAdded(attr, type, stringSize)
<1>1. UNCHANGED keyVars
  BY DEF db_createAttribute
<1>2. CASE /\ attr \notin DOMAIN attrNamesTable
           /\ attrNamesTable' = Extend(attrNamesTable, attr, attrCount)
           /\ DOMAIN attributes' = DOMAIN attributes \cup {attrCount}
           /\ attributes'[attrCount].type = type
           /\ attributes'[attrCount].stringLength = stringSize
           /\ DOMAIN attributes'[attrCount].data = {}
           /\ \A a \in DOMAIN attributes : attributes'[a] = attributes[a]
           /\ attrCount \notin DOMAIN attributes
  <2> USE <1>2
  <2>1. /\ DOMAIN attrNamesTable' = DOMAIN attrNamesTable \cup {attr}
        /\ attrNamesTable'[attr] = attrCount
        /\ \A a \in DOMAIN attrNamesTable : attrNamesTable'[a] = attrNamesTable[a]
    BY DEF Extend
  <2>2. \A a \in DOMAIN attrNamesTable :
           attributes'[attrNamesTable'[a]] = attributes[attrNamesTable[a]]
    BY <2>1, NamesLead
  <2>3. \A a \in DOMAIN attrNamesTable : \A k \in DOMAIN keyTable : ValueOf(a, k)' = ValueOf(a, k)
    BY <1>1, <2>2 DEF ValueOf, Entry, keyVars
  <2>4. \A k \in DOMAIN keyTable : ValueOf(attr, k)' = 0
    BY <2>1 DEF ValueOf, Entry
  <2> QED
    BY <2>1, <2>2, <2>3, <2>4 DEF AttributeAdded
<1> QED
  BY <1>2, CreateAttributeKeeps

\* db_createAttribute creates the attribute in the store, or nothing.
LEMMA CreateAttributeStep ==
    ASSUME DBInv, NEW attr \in AttrNames, NEW l \in Layouts,
           db_createAttribute(attr, l[1], l[2])
    PROVE  Store!CreateAttribute(attr) \/ UNCHANGED storeVars
<1>1. attr \in Text /\ UNCHANGED <<keyVars, setVars>>
  BY DatabaseAssumption DEF db_createAttribute
<1>2. CASE UNCHANGED attrVars
  BY <1>1, <1>2, StoreKept DEF keyVars, setVars, attrVars
<1>3. CASE AttributeAdded(attr, l[1], l[2])
  <2>1. UNCHANGED <<storeKeys, storeMembers>>
    BY <1>1, MembersKept DEF keyVars, setVars
  <2>2. storeValue' = Store!With(storeValue, attr, [k \in storeKeys |-> Store!Zero])
    BY <1>1, <1>3 DEF AttributeAdded, storeValue, storeKeys, Store!With, Store!Zero, keyVars
  <2> QED
    BY <1>3, <2>1, <2>2
       DEF AttributeAdded, Store!CreateAttribute, storeKeys, storeMembers, storeValue
<1>4. l[1] \in Types /\ l[2] \in Nat
  BY DatabaseAssumption
<1> QED
  BY <1>1, <1>2, <1>3, <1>4, CreateAttributeByName

\* By name: one value is written, the others are kept.
ValueBecomes(attr, key, v) ==
    /\ ValueOf(attr, key)' = v
    /\ \A k \in DOMAIN keyTable \ {key} : ValueOf(attr, k)' = ValueOf(attr, k)
    /\ \A b \in DOMAIN attrNamesTable \ {attr} : \A k \in DOMAIN keyTable :
          ValueOf(b, k)' = ValueOf(b, k)

\* A change of one entry is a change of one key's value in one attribute.
LEMMA EntryByName ==
    ASSUME DBInv, NEW attr \in DOMAIN attrNamesTable, NEW key \in DOMAIN keyTable, NEW d,
           OnlyEntry(attr, key, d), UNCHANGED <<keyVars, attrNamesTable>>
    PROVE  ValueBecomes(attr, key, Stored(attributes[attrNamesTable[attr]].type, d))
<1> DEFINE a == attrNamesTable[attr]
           v == Stored(attributes[a].type, d)
<1> HIDE DEF v
<1>1. /\ attributes'[a].data = Extend(attributes[a].data, keyTable[key], v)
      /\ \A b \in DOMAIN attributes \ {a} : attributes'[b] = attributes[b]
  BY DEF OnlyEntry, v
<1>2. ValueOf(attr, key)' = v
  BY <1>1 DEF ValueOf, Entry, Extend, keyVars
<1>3. \A k \in DOMAIN keyTable \ {key} : ValueOf(attr, k)' = ValueOf(attr, k)
  <2>1. \A k \in DOMAIN keyTable \ {key} : keyTable[k] # keyTable[key]
    BY DEF DBInv, KeysInv, Injective
  <2> QED
    BY <1>1, <2>1 DEF ValueOf, Entry, Extend, keyVars
<1>4. \A b \in DOMAIN attrNamesTable \ {attr} : \A k \in DOMAIN keyTable :
         ValueOf(b, k)' = ValueOf(b, k)
  <2>1. \A b \in DOMAIN attrNamesTable \ {attr} :
           attrNamesTable[b] # a /\ attrNamesTable[b] \in DOMAIN attributes
    BY NamesLead DEF DBInv, AttrsInv, Injective
  <2> QED
    BY <1>1, <2>1 DEF ValueOf, Entry, keyVars
<1> QED
  BY <1>2, <1>3, <1>4 DEF ValueBecomes, v

\* db_setAttribute sets the value of the key in the store, or nothing.
LEMMA SetAttributeStep ==
    ASSUME DBInv, LayoutsGiven, NEW attr, NEW key, NEW d \in Data, db_setAttribute(attr, key, d)
    PROVE  \/ \E v \in {Stored(l[1], e) : l \in Layouts, e \in Data} : Store!SetValue(attr, key, v)
           \/ UNCHANGED storeVars
<1>1. UNCHANGED <<keyVars, setVars, attrNamesTable, attrCount>>
  BY DEF db_setAttribute
<1>2. CASE UNCHANGED attributes
  BY <1>1, <1>2, StoreKept DEF keyVars, setVars
<1>3. CASE /\ attr \in DOMAIN attrNamesTable /\ key \in DOMAIN keyTable
           /\ OnlyEntry(attr, key, d)
  <2> DEFINE a == attrNamesTable[attr]
             v == Stored(attributes[a].type, d)
  <2>1. a \in DOMAIN attributes /\ \E l \in Layouts : attributes[a].type = l[1]
    BY <1>3, NamesLead DEF LayoutsGiven
  <2>2. v \in {Stored(l[1], e) : l \in Layouts, e \in Data}
    BY <2>1
  <2> HIDE DEF v
  <2>3. UNCHANGED <<storeKeys, storeMembers>>
    BY <1>1, MembersKept DEF keyVars, setVars
  <2>4. ValueBecomes(attr, key, v)
    BY <1>1, <1>3, EntryByName DEF v
  <2>5. storeValue' = [storeValue EXCEPT ![attr][key] = v]
    <3>1. [storeValue EXCEPT ![attr][key] = v] =
             [b \in DOMAIN attrNamesTable |-> [k \in DOMAIN keyTable |->
                 IF b = attr /\ k = key THEN v ELSE ValueOf(b, k)]]
      BY <1>3 DEF storeValue
    <3> QED
      BY <1>1, <1>3, <2>4, <3>1 DEF ValueBecomes, storeValue, keyVars
  <2>6. Store!SetValue(attr, key, v)
    BY <1>3, <2>3, <2>5 DEF Store!SetValue, storeKeys, storeMembers, storeValue
  <2> QED
    BY <2>2, <2>6
<1>4. d \in Datum
  BY DatabaseAssumption DEF Datum
<1> QED
  BY <1>1, <1>2, <1>3, <1>4, SetAttributeKeeps

\* An empty database is an empty store.
LEMMA StoreInit == Init => Store!Init
<1> SUFFICES ASSUME Init PROVE Store!Init
  OBVIOUS
<1>1. DOMAIN keyTable = {} /\ DOMAIN setNamesTable = {} /\ DOMAIN attrNamesTable = {}
  BY EmptyFunction DEF Init
<1> QED
  BY <1>1 DEF Store!Init

\* Every call is a step of the store or leaves it alone.
LEMMA StoreStep == DBInv /\ LayoutsGiven /\ [Next]_dbVars => [Store!Next]_Store!store
<1> SUFFICES ASSUME DBInv, LayoutsGiven, [Next]_dbVars PROVE Store!Next \/ UNCHANGED storeVars
  BY DEF Store!store, storeVars, storeKeys, storeMembers, storeValue
<1>1. CASE \E k \in KeyNames : keyCount < KeyBound /\ db_addKey(k)
  BY <1>1, AddKeyStep DEF Store!Next
<1>2. CASE \E s \in SetNames : db_createSet(s)
  BY <1>2, CreateSetStep DEF Store!Next
<1>3. CASE \E s \in SetNames, k \in KeyNames : db_addToSet(s, k)
  BY <1>3, AddToSetStep DEF Store!Next
<1>4. CASE \E s \in SetNames, k \in KeyNames : db_removeFromSet(s, k)
  BY <1>4, RemoveFromSetStep DEF Store!Next
<1>5. CASE \E a \in AttrNames, l \in Layouts : db_createAttribute(a, l[1], l[2])
  BY <1>5, CreateAttributeStep DEF Store!Next
<1>6. CASE \E a \in AttrNames, k \in KeyNames, d \in Data : db_setAttribute(a, k, d)
  BY <1>6, SetAttributeStep DEF Store!Next
<1>7. CASE UNCHANGED dbVars
  BY <1>7, StoreKept DEF dbVars, keyVars, setVars, attrVars
<1> QED
  BY <1>1, <1>2, <1>3, <1>4, <1>5, <1>6, <1>7 DEF Next

\* The tables, bitsets and packed arrays of database.c are SetStore: a call
\* changes the set, or the value of the key, that it names and no other.
THEOREM StoreImplemented == Spec => ImplementsSetStore
<1>1. Init => Store!Init
  BY StoreInit
<1>2. DBInv /\ LayoutsGiven /\ [Next]_dbVars => [Store!Next]_Store!store
  BY StoreStep
<1> QED
  BY <1>1, <1>2, DBInvariant, LayoutsInvariant, PTL DEF Spec, Store!Spec, ImplementsSetStore
=============================================================================
