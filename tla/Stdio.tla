-------------------------------- MODULE Stdio --------------------------------
(***************************************************************************)
(* The part of C's stdio that callers of the SD card shim are written for: *)
(* one stream at a time, over files that are sequences of bytes.  Each     *)
(* action is one call with its arguments, which call keeps, so that its    *)
(* result is that of this call and of no other.                            *)
(***************************************************************************)
EXTENDS Integers, Sequences

CONSTANTS
  Names,      \* the names of files
  Bytes,      \* the values of a byte
  Sizes,      \* the sizes of the elements read and written
  Counts,     \* how many elements are read in one call
  WriteCounts, \* how many elements are written in one call
  Offsets,    \* the offsets of fseek
  Modes,      \* the modes files are opened under
  None        \* no file, no stream

VARIABLES
  card,       \* the files
  saved,      \* the files as they survive a power failure
  stream,     \* the open stream, as [name, pos, eof]
  call,       \* the last call, as <<name, argument, ...>>
  out         \* what it gave: [ret, data]

svars == <<card, saved, stream, call, out>>

Gave(ret, data) == out' = [ret |-> ret, data |-> data]
Fails == out'.ret # 0 /\ out'.data = <<>>
Content == card[stream.name]
Blocks(n) == [1 .. n -> Bytes]
MoveTo(pos, eof) == stream' = [name |-> stream.name, pos |-> pos, eof |-> eof]

\* Modes that leave the file as it is, and modes that make an empty one.
KeepModes == {"r", "rb", "r+", "r+b", "rb+"}
EmptyModes == {"w", "wb", "w+", "w+b", "wb+"}

Init ==
  /\ card = [n \in Names |-> None] /\ saved = card /\ stream = None
  /\ call = <<"begin">> /\ out = [ret |-> 1, data |-> <<>>]

\* A stream starts at the start of its file.
Open(n, m) ==
  /\ stream = None /\ call' = <<"fopen", n, m>>
  /\ \/ m \in KeepModes /\ card[n] # None /\ UNCHANGED card
     \/ m \in EmptyModes /\ card' = [card EXCEPT ![n] = <<>>]
  /\ stream' = [name |-> n, pos |-> 0, eof |-> FALSE] /\ Gave(1, <<>>)
  /\ saved' = card'

\* An open that fails to make an empty file may have removed the one there was.
OpenFails(n, m) ==
  /\ stream = None /\ call' = <<"fopen", n, m>>
  /\ \/ UNCHANGED card
     \/ m \in EmptyModes /\ card' = [card EXCEPT ![n] = None]
  /\ Gave(0, <<>>) /\ saved' = card' /\ UNCHANGED stream

\* What has been written before a stream is flushed or closed is safe.
CloseStream ==
  /\ stream # None /\ call' = <<"fclose">> /\ stream' = None
  /\ Gave(0, <<>>) /\ saved' = card /\ UNCHANGED card

Flush ==
  /\ stream # None /\ call' = <<"fflush">>
  /\ Gave(0, <<>>) /\ saved' = card /\ UNCHANGED <<card, stream>>

\* The bytes that are there are read, and the whole elements among them counted.  A
\* read that gets less than it asked for has reached the end of the file.
Read(size, count) ==
  /\ stream # None /\ call' = <<"fread", size, count>>
  /\ LET left == Len(Content) - stream.pos
         got == IF size * count <= left THEN size * count ELSE left IN
     /\ Gave(got \div size, SubSeq(Content, stream.pos + 1, stream.pos + got))
     /\ MoveTo(stream.pos + got, stream.eof \/ got < size * count)
  /\ UNCHANGED <<card, saved>>

\* A read that fails gives nothing, and not the count that was asked for, which is
\* all that callers look at.  (C gives less than the count, the shim gives more.)
ReadFails(size, count) ==
  /\ stream # None /\ call' = <<"fread", size, count>>
  /\ out'.ret # count /\ out'.data = <<>> /\ UNCHANGED <<card, saved, stream>>

\* The bytes lie in the file from the position of the stream on.
Put(data) ==
  LET end == stream.pos + Len(data) IN
  [k \in 1 .. (IF Len(Content) > end THEN Len(Content) ELSE end) |->
     IF k \in stream.pos + 1 .. end THEN data[k - stream.pos] ELSE Content[k]]

\* A write that fails has written some whole elements, which are counted, and
\* perhaps a part of the next.
Write(data, size, count) ==
  /\ stream # None /\ call' = <<"fwrite", data, size, count>>
  /\ \E done \in 0 .. count, part \in 0 .. size - 1 :
       LET n == done * size + part IN
       /\ done = count => part = 0
       /\ card' = [card EXCEPT ![stream.name] = Put(SubSeq(data, 1, n))]
       /\ stream' = [stream EXCEPT !.pos = @ + n]
       /\ Gave(done, <<>>)
  /\ UNCHANGED saved

\* A seek arrives if its target is in the file or at its end, and resets the
\* indicator of the end.  Otherwise it fails and changes nothing.  (C lets a stream
\* go beyond the end of its file; the card does not.)
Base(whence) ==
  CASE whence = "SEEK_SET" -> 0
    [] whence = "SEEK_CUR" -> stream.pos
    [] whence = "SEEK_END" -> Len(Content)

Arrives(pos) ==
  IF pos \in 0 .. Len(Content)
    THEN Gave(0, <<>>) /\ MoveTo(pos, FALSE)
    ELSE Fails /\ UNCHANGED stream

Seek(offset, whence) ==
  /\ stream # None /\ call' = <<"fseek", offset, whence>>
  /\ Arrives(Base(whence) + offset) /\ UNCHANGED <<card, saved>>

SetPos(pos) ==
  /\ stream # None /\ call' = <<"fsetpos", pos>>
  /\ Arrives(pos) /\ UNCHANGED <<card, saved>>

Rewind ==
  /\ stream # None /\ call' = <<"rewind">>
  /\ Arrives(0) /\ UNCHANGED <<card, saved>>

\* Whether a read has reached the end, and no seek has left it since.
EndOfFile ==
  /\ stream # None /\ call' = <<"feof">>
  /\ IF stream.eof THEN Fails ELSE Gave(0, <<>>)
  /\ UNCHANGED <<card, saved, stream>>

Tell ==
  /\ stream # None /\ call' = <<"ftell">>
  /\ Gave(stream.pos, <<>>) /\ UNCHANGED <<card, saved, stream>>

\* 1 for a file that was removed, where C gives 0.
Remove(n) ==
  /\ stream = None /\ call' = <<"remove", n>>
  /\ \/ card[n] # None /\ card' = [card EXCEPT ![n] = None] /\ Gave(1, <<>>)
     \/ UNCHANGED card /\ Gave(0, <<>>)
  /\ saved' = card' /\ UNCHANGED stream

Exists(n) ==
  /\ call' = <<"exists", n>> /\ Gave(IF card[n] # None THEN 1 ELSE 0, <<>>)
  /\ UNCHANGED <<card, saved, stream>>

\* A power failure leaves of every file what is safe, and beyond that bytes that were
\* written, old ones or new ones.
PowerFailure ==
  /\ call' = <<"begin">> /\ Gave(1, <<>>) /\ stream' = None /\ saved' = card'
  /\ \A n \in Names :
       \/ card'[n] = None /\ saved[n] = None
       \/ /\ saved[n] # None /\ card'[n] # None /\ Len(card'[n]) >= Len(saved[n])
          /\ \A k \in 1 .. Len(card'[n]) :
               \/ k <= Len(card[n]) /\ card'[n][k] = card[n][k]
               \/ k <= Len(saved[n]) /\ card'[n][k] = saved[n][k]

Next ==
  \/ \E n \in Names, m \in Modes : Open(n, m) \/ OpenFails(n, m)
  \/ \E n \in Names : Remove(n) \/ Exists(n)
  \/ CloseStream \/ Flush \/ Tell \/ EndOfFile \/ Rewind \/ PowerFailure
  \/ \E size \in Sizes, count \in Counts : Read(size, count) \/ ReadFails(size, count)
  \/ \E size \in Sizes, count \in WriteCounts :
       \E data \in Blocks(size * count) : Write(data, size, count)
  \/ \E offset \in Offsets, whence \in {"SEEK_SET", "SEEK_CUR", "SEEK_END"} :
       Seek(offset, whence)
  \/ \E pos \in Offsets \cap Nat : SetPos(pos)

Spec == Init /\ [][Next]_svars
==============================================================================
