-------------------------- MODULE MCStackMemoryMisuse --------------------------
(***************************************************************************)
(* The stack memory manager under clients that follow its documentation    *)
(* and no more: the rules BExtendRule and FExtendRule of StackMemory are   *)
(* not written anywhere in the source.  Each property states what a        *)
(* comment of the source says, and the code violates it.                   *)
(***************************************************************************)
EXTENDS MCStackMemory

\* A client that leaves it to bextend to find out whether there is room.
OverrunSpec == Init /\ [][Next \/ \E n \in Requests : BExtend(n)]_vars

\* A client that extends the top of the front stack whatever is below it.
FragmentSpec == Init /\ [][Next \/ \E n \in Requests : FExtend(n)]_vars

\* "Check that we have adequate memory" (bextend): the back stack never grows
\* into the front stack.
StacksNeverMeet == next_front <= last_back

\* "Change size of this segment to new size, respecting flag bit" (fextend): the
\* top block of the front stack has its size in its size word.
TopSizeWritten ==
  \A b \in fblk : b.live /\ FEnd(b) = next_front => SizeOf(mem[b.at]) = b.size

\* "Get the size of the top memory chunk on front stack" (DB_QMM_SIZEOF_FTOP).
TopSizeRead ==
  \A b \in fblk :
    pc = "idle" /\ b.live /\ FEnd(b) = next_front => DB_QMM_SIZEOF_FTOP = b.size

\* "-6: Attempted to free memory that has not been allocated": bfree does not
\* give this code for a block that it allocated and the client still holds.
AllocatedIsFreeable ==
  [][\A b \in bblk : b.live /\ BFree(b) => errcode' = errcode \/ errcode' # Code(-6)]_vars

\* errcode is 0 or one of the codes -1 to -7 that its documentation lists.
ErrcodeDocumented == errcode \in -7 .. 0

\* "-4: Attempted to free space not at the top of the bottom stack": no other
\* call than a free of the back stack leaves this code.
CodeTellsTheCause ==
  [][errcode' # errcode /\ errcode' = Code(-4) => \E b \in bblk : BFree(b)]_vars
==============================================================================
