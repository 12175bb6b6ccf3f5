--------------------------- MODULE MCSchemaMisuse ----------------------------
(***************************************************************************)
(* The schema store where its code does not do what its comments, error    *)
(* codes or tests say: under names of any length, and under failures of    *)
(* stdio that it does not look at.                                         *)
(***************************************************************************)
EXTENDS MCSchema

\* NamesRule of Schema is written nowhere in the source.
AnyNamesSpec ==
  Init /\ [][Next \/ \E t \in Tables, s \in Schemas : CreateOpen(t, s)]_vars

\* A client that tries again what it is told has failed.
RetrySpec == Init /\ [][Next \/ FreeNames]_vars

MCOverlong == {Overlong}
MCCut == {Cut}
MCOne == {One, Two}

SizeAt(p) == (CHOOSE b \in blive : b.ptr = p).size

\* "Allocate enough space in memory for the schema": the block of every name that
\* has been read holds the name and its NUL.
NamesFit ==
  schema # None =>
    \A i \in DOMAIN schema.names : NameLen[schema.read[i].name] < SizeAt(schema.names[i])

\* test_save_then_load_schema: the names that are loaded are the names created.
NamesWhole ==
  schema # None => \A i \in DOMAIN schema.read : schema.read[i].name # Garbled

\* "Make sure file does not exist": creating a schema keeps an existing one.
ExistingKept ==
  [][\A t \in Tables, s \in Schemas :
       CreateOpen(t, s) => files[t] = None \/ files' = files]_vars

\* "everything is OK": a create that answers so has stored the schema.
OKMeansStored ==
  [][CreateClose /\ status' = "OK" => files'[op.tbl] = FileOf[op.of]]_vars

\* "freeing something in memory failed": a client that is told so and tries again
\* frees nothing that belongs to another client.
RetryHarmless == others \subseteq blive
==============================================================================
