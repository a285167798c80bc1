----------------------------- MODULE InitParser -----------------------------
(***************************************************************************)
(* parse_initialization of parser.c: the initialization file is read       *)
(* statement by statement, in two passes over its tail, into a universe.   *)
(*                                                                         *)
(* A statement is what fscanf("%[^;];") reads; RowParser parses the body   *)
(* of an INSERT.  The names of keys and attributes are left out, their     *)
(* types are those that the program knows.  The name of a set is one that  *)
(* fits its array (parse_create_set asserts it).                           *)
(***************************************************************************)
EXTENDS RowParser

CONSTANTS
    Files,          \* files that are read
    UniverseName

\* The types of a key or of the attributes: at least one.
TypeList == Seq(Types) \ {<<>>}

IsStatement(st) ==
    CASE st.kind = "UNIVERSE"   -> st.types \in TypeList
      [] st.kind = "ATTRIBUTES" -> st.types \in TypeList
      [] st.kind = "SET"        -> st.name # NULL
      [] st.kind = "INSERT"     -> st.into # NULL /\ st.body # <<>> /\ st.body \in Seq(Token)
      [] st.kind = "EMPTY"      -> TRUE         \* nothing between two ';'
      [] st.kind = "OTHER"      -> TRUE         \* anything else, a final newline too

ASSUME FileAssumption == \A f \in Files :
    f \in Seq(ToSet(f)) /\ \A k \in 1 .. Len(f) : IsStatement(f[k])
ASSUME NameAssumption == UniverseName # NULL

VARIABLES
    file, pos,          \* the file and the statement fscanf reads next
    buffer,             \* the last statement that was read
    pc,                 \* place in the code; done; failed (1 is returned);
                        \* aborted, overfull (an assertion stops the process);
                        \* crashed
    key_data_type_names, attribute_data_type_names,
    key_values, attribute_values,
    sets, sets_length, set_index,
    scanned_commands

types     == <<key_data_type_names, attribute_data_type_names>>
universe  == <<key_values, attribute_values, sets, sets_length>>
parseVars == <<file, pos, buffer, pc, types, universe, set_index, scanned_commands>>

Init ==
    /\ file \in Files /\ pos = 1
    /\ buffer = [kind |-> "OTHER"]
    /\ pc = "universe"
    /\ key_data_type_names = <<>> /\ attribute_data_type_names = <<>>
    /\ key_values = <<>> /\ attribute_values = <<>>
    /\ sets = <<>> /\ sets_length = 0 /\ set_index = 0
    /\ scanned_commands = 0

-----------------------------------------------------------------------------
\* fscanf: 1 with the next statement, 0 where there is no character before the
\* ';' (and it stays there), -1 at the end of the file.
AtEnd   == pos > Len(file)
Matches == ~AtEnd /\ file[pos].kind # "EMPTY"

Fscanf ==
    IF Matches THEN buffer' = file[pos] /\ pos' = pos + 1
    ELSE UNCHANGED <<buffer, pos>>

\* parse_universe_insert, on the statement in the buffer.  The array lists are
\* extended by as many NULLs as rows are counted, and filled in up to the first
\* row that does not parse.
IsUniverseInsert(st) == st.kind = "INSERT" /\ st.into = UniverseName

NoInsert == [status |-> "error", keys |-> <<>>, values |-> <<>>]

parse_universe_insert(st) ==
    IF IsUniverseInsert(st)
    THEN parse_universe_insert_supp(st.body, key_data_type_names, attribute_data_type_names)
    ELSE NoInsert

\* Where the code goes on if it succeeds and if it does not.
InsertIntoUniverse(parsed, success, failure) ==
    /\ key_values' = key_values \o parsed.keys
    /\ attribute_values' = attribute_values \o parsed.values
    /\ pc' = CASE parsed.status = "ok"    -> success
               [] parsed.status = "error" -> failure
               [] OTHER                   -> parsed.status

-----------------------------------------------------------------------------
ReadUniverse ==
    /\ pc = "universe"
    /\ Fscanf
    /\ IF (Matches \/ AtEnd) /\ buffer'.kind = "UNIVERSE"
       THEN pc' = "attributes" /\ key_data_type_names' = buffer'.types
       ELSE pc' = "failed" /\ UNCHANGED key_data_type_names
    /\ UNCHANGED <<file, attribute_data_type_names, universe, set_index, scanned_commands>>

ReadAttributes ==
    /\ pc = "attributes"
    /\ Fscanf
    /\ IF /\ Matches \/ AtEnd
          /\ buffer'.kind = "ATTRIBUTES" /\ buffer'.of = UniverseName
       THEN pc' = "insert" /\ attribute_data_type_names' = buffer'.types
       ELSE pc' = "failed" /\ UNCHANGED attribute_data_type_names
    /\ UNCHANGED <<file, key_data_type_names, universe, set_index, scanned_commands>>

ReadFirstInsert ==
    /\ pc = "insert"
    /\ Fscanf
    /\ InsertIntoUniverse(IF Matches \/ AtEnd THEN parse_universe_insert(buffer') ELSE NoInsert,
                          "inserts", "failed")
    /\ scanned_commands' = IF pc' = "inserts" THEN 3 ELSE 0
    /\ UNCHANGED <<file, types, sets, sets_length, set_index>>

\* The first statement that is no insert into the universe ends the loop; so
\* does an insert with a row that does not parse, whose rows stay.
\* Mutant: it is counted as read.
ReadInsertCounted ==
    /\ pc = "inserts"
    /\ Fscanf
    /\ InsertIntoUniverse(IF Matches THEN parse_universe_insert(buffer') ELSE NoInsert,
                          "inserts", "count")
    /\ scanned_commands' =
            scanned_commands + (IF Matches /\ IsUniverseInsert(buffer') THEN 1 ELSE 0)
    /\ UNCHANGED <<file, types, sets, sets_length, set_index>>

ReadInsert ==
    /\ pc = "inserts"
    /\ Fscanf
    /\ InsertIntoUniverse(IF Matches THEN parse_universe_insert(buffer') ELSE NoInsert,
                          "inserts", "count")
    /\ scanned_commands' = scanned_commands + (IF pc' = "inserts" THEN 1 ELSE 0)
    /\ UNCHANGED <<file, types, sets, sets_length, set_index>>

\* First pass: the CREATE SETs are counted, from the statement in the buffer.
\* Mutant: from the next one.
CountSetFromNext ==
    /\ pc = "count"
    /\ Fscanf
    /\ pc' = IF Matches THEN "count" ELSE "rewind"
    /\ sets_length' = sets_length + (IF Matches /\ file[pos].kind = "SET" THEN 1 ELSE 0)
    /\ UNCHANGED <<file, types, key_values, attribute_values, sets, set_index, scanned_commands>>

CountSet ==
    /\ pc = "count"
    /\ sets_length' = sets_length + (IF buffer.kind = "SET" THEN 1 ELSE 0)
    /\ Fscanf
    /\ pc' = IF Matches THEN "count" ELSE "rewind"
    /\ UNCHANGED <<file, types, key_values, attribute_values, sets, set_index, scanned_commands>>

\* The file is opened again and the statements that were executed are read
\* over; initialize_sets.
Rewind ==
    /\ pc = "rewind"
    /\ pos' = scanned_commands + 1
    /\ buffer' = file[scanned_commands]
    /\ sets' = [n \in 1 .. sets_length |-> [name |-> NULL, keys |-> <<>>]]
    /\ pc' = "sets"
    /\ UNCHANGED <<file, types, key_values, attribute_values, sets_length, set_index, scanned_commands>>

Position(name) == {n \in 1 .. sets_length : sets[n].name = name}

\* parse_create_set; the index is asserted to be one of the counted sets.
CreateSet(name) ==
    IF name = UniverseName \/ Position(name) # {}
    THEN pc' = "failed" /\ UNCHANGED <<sets, set_index>>
    ELSE IF set_index >= sets_length
    THEN pc' = "aborted" /\ UNCHANGED <<sets, set_index>>
    ELSE /\ sets' = [sets EXCEPT ![set_index + 1].name = name]
         /\ set_index' = set_index + 1
         /\ pc' = "sets"

\* parse_set_insert.  Mutant: the members that the set already has are lost.
InsertIntoSetAnew(st) ==
    IF Position(st.into) = {}
    THEN pc' = "failed" /\ UNCHANGED <<sets, set_index>>
    ELSE \E n \in Position(st.into) :
         \E parsed \in {parse_set_insert_supp(st.body, key_data_type_names, 0, Len(key_values))} :
             IF parsed.status = "ok"
             THEN pc' = "sets" /\ sets' = [sets EXCEPT ![n].keys = parsed.keys] /\ UNCHANGED set_index
             ELSE pc' = "failed" /\ UNCHANGED <<sets, set_index>>

InsertIntoSet(st) ==
    IF Position(st.into) = {}
    THEN pc' = "failed" /\ UNCHANGED <<sets, set_index>>
    ELSE \E n \in Position(st.into) :
         \E parsed \in {parse_set_insert_supp(st.body, key_data_type_names,
                                              Len(sets[n].keys), Len(key_values))} :
            /\ pc' = CASE parsed.status = "ok"    -> "sets"
                       [] parsed.status = "error" -> "failed"
                       [] OTHER                   -> parsed.status
            /\ sets' = IF parsed.status = "ok"
                       THEN [sets EXCEPT ![n].keys = @ \o parsed.keys] ELSE sets
            /\ UNCHANGED set_index

\* Second pass.
ReadStatement ==
    /\ pc = "sets" /\ Matches
    /\ Fscanf
    /\ CASE buffer'.kind = "SET"    -> CreateSet(buffer'.name)
         [] buffer'.kind = "INSERT" -> InsertIntoSet(buffer')
         [] OTHER                   -> pc' = "failed" /\ UNCHANGED <<sets, set_index>>
    /\ UNCHANGED <<file, types, key_values, attribute_values, sets_length, scanned_commands>>

EndOfStatements ==
    /\ pc = "sets" /\ ~Matches
    /\ pc' = "done"
    /\ UNCHANGED <<file, pos, buffer, types, universe, set_index, scanned_commands>>

Next ==
    \/ ReadUniverse \/ ReadAttributes \/ ReadFirstInsert \/ ReadInsert
    \/ CountSet \/ Rewind \/ ReadStatement \/ EndOfStatements

Spec == Init /\ [][Next]_parseVars
-----------------------------------------------------------------------------
(* Properties.                                                             *)

\* The loader dereferences every row.  A row that does not parse ends the loop
\* over the inserts without an error and leaves NULLs in the array lists; the
\* parser nevertheless reports success only when there are none, because the
\* second pass meets the same statement again and refuses it.
RowsWhole ==
    pc = "done" =>
        /\ Len(key_values) = Len(attribute_values)
        /\ \A r \in 1 .. Len(key_values) :
              key_values[r] # NULL /\ attribute_values[r] # NULL

\* The first pass counts every set that the second one creates, from whatever
\* statement ended the inserts: the assertion on set_index (parser.c:1091)
\* never fails, and no counted set is left without a name.
SetsCounted ==
    /\ pc # "aborted"
    /\ pc = "done" => set_index = sets_length
=============================================================================
