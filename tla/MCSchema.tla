------------------------------ MODULE MCSchema -------------------------------
(***************************************************************************)
(* Small instances of Schema for TLC.                                      *)
(***************************************************************************)
EXTENDS Schema, TLC

CONSTANTS t1, t2

Attribute(name, type) == [name |-> name, type |-> type, size |-> type]

MCTableLen == [t \in Tables |-> 3]
MCNameLen == [a |-> 1, b |-> 2, overlong |-> 3, cut |-> 5]

One == [id |-> 1, items |-> <<Attribute("a", 0)>>]
Two == [id |-> 2, items |-> <<Attribute("b", 1), Attribute("a", 0)>>]
Empty == [id |-> 3, items |-> <<>>]
Overlong == [id |-> 4, items |-> <<Attribute("overlong", 0)>>]
Cut == [id |-> 5, items |-> <<Attribute("cut", 0)>>]

MCStoreSchemas == {Two, Overlong}
MCMemorySchemas == {One, Two, Empty}

\* Tables are interchangeable: their names have one length.
TableSymmetry == Permutations(Tables)

\* call and ret are read by no action before they are set.
SchemaView ==
  <<files, open, schema, pc, op, status, blive, others, stuck, clean>>
==============================================================================
