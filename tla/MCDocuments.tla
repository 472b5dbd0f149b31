----------------------------- MODULE MCDocuments -----------------------------
(* TLC instance of Documents: three operations at a time. *)
EXTENDS Documents

CONSTANTS c1, c2, c3, a, b, id

Op(kind, given, name, to) == [kind |-> kind, id |-> given, name |-> name, to |-> to]
Program(x, y, z) == [c \in Callers |-> CASE c = c1 -> x [] c = c2 -> y [] c = c3 -> z]

Add == Op("insert", None, a, a)
Put(name) == Op("insert", id, name, name)
Rename == Op("update", None, a, b)
Take == Op("remove", None, a, a)
Index == Op("index", None, a, a)

MCPrograms ==
  {Program(Add, Take, Add), Program(Put(a), Rename, Index)}
=============================================================================
