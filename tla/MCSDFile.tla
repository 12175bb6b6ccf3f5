------------------------------ MODULE MCSDFile -------------------------------
(***************************************************************************)
(* Small instances of SDFile for TLC.                                      *)
(***************************************************************************)
EXTENDS SDFile

MCOffsets == -2 .. 2
MCBytes == 0 .. 1

\* call and out are read by no action.
SDFileView == <<card, saved, stream, heap, ended, stale>>
==============================================================================
