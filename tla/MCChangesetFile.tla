-------------------------- MODULE MCChangesetFile --------------------------
(* Payloads that look like marks, types, lengths and ends of strings.  The   *)
(* tables: two of one name that differ in width, one of the same name and    *)
(* width with another key, one of another name.                              *)
EXTENDS ChangesetFile

Narrow == [name |-> <<84>>, pks |-> <<TRUE>>]
Wide == [name |-> <<84>>, pks |-> <<TRUE, FALSE>>]
Moved == [name |-> <<84>>, pks |-> <<FALSE, TRUE>>]
Other == [name |-> <<18, 1>>, pks |-> <<FALSE, TRUE>>]

Number == [type |-> 1, bytes |-> <<0, 0, 0, 84, 1, 18, 0, 5>>]
Text == [type |-> 3, bytes |-> <<84, 0>>]
Empty == [type |-> 4, bytes |-> <<>>]
Long == [type |-> 4, bytes |-> [i \in 1..128 |-> 9]]

Put(t, row) == [op |-> Insert, table |-> t, old |-> <<>>, new |-> row]
Erase(t, row) == [op |-> Delete, table |-> t, old |-> row, new |-> <<>>]
Change(t, old, new) == [op |-> Update, table |-> t, old |-> old, new |-> new]

SomeEntries == {
    Put(Narrow, <<Long>>),
    Put(Wide, <<Number, Text>>),
    Change(Wide, <<Text, Null>>, <<Undefined, Empty>>),
    Erase(Moved, <<Null, Text>>),
    Change(Other, <<Null, Text>>, <<Text, Undefined>>)}

Records == <<2, 4>>
=============================================================================
