---------------------------- MODULE MCStackMemory ----------------------------
(***************************************************************************)
(* Small instances of StackMemory for TLC.                                 *)
(***************************************************************************)
EXTENDS StackMemory

\* The word every byte of client data reads as: all ones.  It looks like a
\* flagged size, and like no address.
MCData == {-1}

\* The words the manager may still read: the size word of every block, the link
\* of every front block and, while a loop runs, the word at next_front.
Tracked ==
  {b.at : b \in fblk \cup bblk} \cup {FEnd(b) - PtrSize : b \in fblk}
    \cup (IF pc = "idle" THEN {} ELSE {next_front} \cap Addr)

\* VIEWs: call is read by no action.
DataView ==
  <<mem, next_front, last_back, errcode, maxused, ret, pc, fblk, bblk>>

\* No handler reads errcode or maxused either, and no result of a handler
\* depends on a word that is not tracked, so states that differ only there
\* behave alike.
BookkeepingView ==
  <<[a \in Tracked |-> mem[a]], next_front, last_back, ret, pc, fblk, bblk>>
==============================================================================
