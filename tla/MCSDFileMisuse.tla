--------------------------- MODULE MCSDFileMisuse ----------------------------
(***************************************************************************)
(* The SD card shim where it does not do what its comments and its header  *)
(* say.  Each property states one of them.                                 *)
(***************************************************************************)
EXTENDS MCSDFile

\* "Create an empty file for both reading and writing": the mode under which
\* ion_table_create_schema opens a new schema file is one the shim knows.
CreatesForUpdate ==
  [][\A n \in Names : sd_fopen(n, "wb+") => out'.ret = Stream]_vars

\* "A pointer to the data that is to be written": when all elements are reported
\* as written, they are in the file.
WritesTheData ==
  [][\A size \in Sizes, count \in WriteCounts :
       \A data \in [1 .. size * count -> Bytes] :
         sd_fwrite(data, size, count) /\ out'.ret = count =>
           card'[stream.name] = Put(Content, stream.pos, data)]_vars

\* "The number of bytes written. On successes, this should be size * nmemb".
ReturnsBytesWritten ==
  [][\A size \in Sizes, data \in [1 .. 2 -> Bytes] :
       sd_fwrite(data, size, 1) =>
         out'.ret = stream'.pos - stream.pos]_vars

\* fread: "the number of elements of size @p size that have been read", of which there
\* are never more than asked for.
CountsRead ==
  [][\A size \in Sizes, count \in Counts : sd_fread(size, count) => out'.ret <= count]_vars

\* feof: "a non-zero value if the end of file has been reached, 0 otherwise".
EofAtEnd == stream # None /\ stream.eof = 1 => stream.pos = Len(Content)

\* "its content is erased and the file is considered as a new empty file".
EmptyWhenWritten ==
  [][\A n \in Names : sd_fopen(n, "w") /\ out'.ret = Stream => card'[n] = <<>>]_vars

\* "This function will allocate memory, that must be freed by using sd_fclose": when
\* nothing is open there is nothing left to free.
NothingToFree == stream = None => heap = 0
==============================================================================
