------------------------------ MODULE SetStore ------------------------------
(***************************************************************************)
(* What database.h promises: keys, named sets of keys, and attributes that *)
(* give every key a value.  An operation changes the set, or the value of  *)
(* the key, that it names and no other; a call that is refused changes     *)
(* nothing.                                                                *)
(***************************************************************************)
EXTENDS Integers

CONSTANTS Key, Set, Attribute, Value

VARIABLES
    keys,       \* keys that can be found
    members,    \* the keys in each set
    value       \* the value of each key, for each attribute

store == <<keys, members, value>>

Zero == 0
With(f, x, v) == [y \in DOMAIN f \cup {x} |-> IF y = x THEN v ELSE f[y]]

Init ==
    /\ keys = {}
    /\ members = [s \in {} |-> {}]
    /\ value = [a \in {} |-> [k \in {} |-> Zero]]

\* A new key is in no set and has no values yet.
AddKey(k) ==
    /\ k \notin keys
    /\ keys' = keys \cup {k}
    /\ value' = [a \in DOMAIN value |-> With(value[a], k, Zero)]
    /\ UNCHANGED members

CreateSet(s) ==
    /\ s \notin DOMAIN members
    /\ members' = With(members, s, {})
    /\ UNCHANGED <<keys, value>>

Insert(s, k) ==
    /\ s \in DOMAIN members /\ k \in keys
    /\ members' = [members EXCEPT ![s] = @ \cup {k}]
    /\ UNCHANGED <<keys, value>>

Remove(s, k) ==
    /\ s \in DOMAIN members /\ k \in keys
    /\ members' = [members EXCEPT ![s] = @ \ {k}]
    /\ UNCHANGED <<keys, value>>

CreateAttribute(a) ==
    /\ a \notin DOMAIN value
    /\ value' = With(value, a, [k \in keys |-> Zero])
    /\ UNCHANGED <<keys, members>>

SetValue(a, k, v) ==
    /\ a \in DOMAIN value /\ k \in keys
    /\ value' = [value EXCEPT ![a][k] = v]
    /\ UNCHANGED <<keys, members>>

Next ==
    \/ \E k \in Key : AddKey(k)
    \/ \E s \in Set : CreateSet(s)
    \/ \E s \in Set, k \in Key : Insert(s, k) \/ Remove(s, k)
    \/ \E a \in Attribute : CreateAttribute(a)
    \/ \E a \in Attribute, k \in Key, v \in Value : SetValue(a, k, v)

Spec == Init /\ [][Next]_store
=============================================================================
