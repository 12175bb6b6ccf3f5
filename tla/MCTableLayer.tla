---------------------------- MODULE MCTableLayer -----------------------------
(***************************************************************************)
(* Small instances of TableLayer for TLC.                                  *)
(***************************************************************************)
EXTENDS TableLayer

CONSTANT t1

Attribute(name, size) == [name |-> name, type |-> size, size |-> size]
a1 == Attribute("a", 1)
a2 == Attribute("b", 2)

Instruction(op_, arg) == [op |-> op_, arg |-> arg]
Define(x) == Instruction("DEFINE_ATTRIBUTE", x)
CreateTable == Instruction("CREATE_TABLE", t1)
HALT == Instruction("HALT", None)
NOP == Instruction("NOP", None)
UNDEFINED == Instruction("UNDEFINED", None)

\* The client can load between the definition and the creation, or not; and it can
\* delete the table between the creation of the one and that of the other.
MCPlans ==
  { <<Define(a1), HALT, CreateTable, UNDEFINED>>,
    <<NOP, Define(a1), CreateTable, HALT, Define(a2), CreateTable, HALT>> }

MCSchemas == [id : 1 .. MaxDicts, items : {<<a1>>, <<a2>>}]
MCTableLen == [t \in Tables |-> 2]
MCNameLen == [a |-> 1, b |-> 1]
ASSUME MCRules == LayerRules

\* status, sstatus, answer, ret and call are read by no action before they are set.
LayerView ==
  <<plan, pc, cells, dicts, defs, clean, kept, files, open, schema, spc, op, stuck, sclean,
    blive, lists, loads, made>>
==============================================================================
