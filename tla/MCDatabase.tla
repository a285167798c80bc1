------------------------------ MODULE MCDatabase ------------------------------
(* Values for the constants of Database. *)
EXTENDS DatabaseRefinement

Text8  == [isText |-> TRUE, value |-> 8]
Text9  == [isText |-> TRUE, value |-> 9]
Int300 == [isText |-> FALSE, value |-> 300]

StoreData    == {Text8, Text9, Int300}
StoreLayouts == {<<"TYPE_STRING", 8>>, <<"TYPE_8", 0>>}
TypeLayouts  == {<<t, n>> : t \in Types, n \in {0, 8}}
================================================================================
