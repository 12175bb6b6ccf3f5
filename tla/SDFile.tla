------------------------------- MODULE SDFile --------------------------------
(***************************************************************************)
(* The stdio of the boards, src/src/file/SD_stdio_c_iface.cpp, over the    *)
(* SD library of Arduino, which is external: its File has a position, a    *)
(* size, read, write and seek; FILE_WRITE makes a file that is not there   *)
(* and starts at its end.  What is written is on the card for good when    *)
(* the file is flushed or closed.                                          *)
(*                                                                         *)
(* An operator sd_x is the function of that name.  One stream is open at a *)
(* time.                                                                   *)
(***************************************************************************)
EXTENDS Integers, Sequences

CONSTANTS
  Names, Bytes, Sizes, Counts, Offsets,   \* as in Stdio
  WriteCounts, \* how many elements are written in one call
  Modes,      \* the modes files are opened under
  Faults,     \* the functions of the SD library that may fail
  MaxSize,    \* the bytes a file can have before the card is full
  MaxHeap,    \* how many SD_File fit in memory
  Word,       \* the values of an unsigned int
  None

ASSUME SDFileAssumption ==
  /\ Sizes \subseteq Nat \ {0} /\ Counts \subseteq Nat \ {0} /\ WriteCounts \subseteq Nat \ {0}
  /\ Offsets \subseteq Int /\ MaxSize \in Nat /\ MaxHeap \in Nat /\ Word \in Nat
  /\ \A o \in Offsets : MaxSize + o < Word /\ -o < Word - MaxSize
  /\ Faults \subseteq {"open", "remove", "read", "write", "power"}
  /\ MaxSize < Word

\* The files that fit on the card.
Contents == UNION {[1 .. n -> Bytes] : n \in 0 .. MaxSize}

ASSUME NoneAssumption ==
  /\ None \notin Contents
  /\ None \notin [name : Names, pos : Nat, eof : {0, 1}]
  /\ None \notin [name : Names, pos : Nat, eof : BOOLEAN]

VARIABLES
  card,       \* the files as the library has them
  saved,      \* the files as they are on the card for good
  stream,     \* the open SD_FILE, as [name, pos, eof], or None
  heap,       \* how many SD_File have been allocated and not deleted
  call,       \* the last call, as <<name, argument, ...>>
  out,        \* what it gave: [ret, data]
  ended,      \* history: 1 if a read has reached the end, and no seek has left it since
  stale       \* history: 1 if the eof of the stream may be another

vars == <<card, saved, stream, heap, call, out, ended, stale>>
history == <<ended, stale>>

Gave(ret, data) == out' = [ret |-> ret, data |-> data]
Returns(ret) == Gave(ret, <<>>)
Content == card[stream.name]
SetCard(n, content) == card' = [card EXCEPT ![n] = content]
Ends(e, s) == ended' = e /\ stale' = s
------------------------------------------------------------------------------
(***************************************************************************)
(* Opening and closing.  strstr finds "r+" in "r+b", but not in "rb+".     *)
(***************************************************************************)
ReadModes == {"r", "rb"}
WriteModes == {"w", "wb"}
UpdateModes == {"r+", "r+b"}
EmptyModes == {"w+", "w+b"}
AppendModes == {"a+"}
FileWriteModes == WriteModes \cup UpdateModes \cup EmptyModes \cup AppendModes

NULL == 0
Stream == 1     \* any pointer but NULL

\* A file that is opened to be written is removed first; SD.remove may fail.
Removed(n, m) ==
  IF m \in WriteModes \cup EmptyModes /\ card[n] # None
    THEN {None} \cup (IF "remove" \in Faults THEN {card[n]} ELSE {})
    ELSE {card[n]}

Opened(content) == IF content = None THEN <<>> ELSE content

sd_fopen(n, m) ==
  /\ stream = None /\ call' = <<"fopen", n, m>>
  /\ \/ /\ \/ m \notin ReadModes \cup FileWriteModes
           \/ m \in ReadModes \cup UpdateModes /\ card[n] = None
        /\ Returns(NULL) /\ UNCHANGED <<card, saved, stream, heap>>
     \/ /\ m \in ReadModes \cup FileWriteModes
        /\ m \in ReadModes \cup UpdateModes => card[n] # None
        /\ heap < MaxHeap /\ heap' = heap + 1
        /\ \E content \in Removed(n, m) :
             \/ /\ "open" \in Faults
                /\ SetCard(n, content) /\ Returns(NULL) /\ UNCHANGED stream
             \/ /\ SetCard(n, Opened(content))
                /\ stream' = [name |-> n, eof |-> 0,
                              pos |-> IF m \in ReadModes THEN 0 ELSE Len(Opened(content))]
                /\ Returns(Stream)
        /\ saved' = card'
  /\ Ends(0, 0)

sd_fclose_twice ==                              \* mutant: deleted twice
  /\ stream # None /\ stream' = None /\ call' = <<"fclose">>
  /\ heap' = heap - 2 /\ Returns(0) /\ saved' = card /\ UNCHANGED <<card, history>>
sd_fclose ==
  /\ stream # None /\ stream' = None /\ call' = <<"fclose">>
  /\ heap' = heap - 1 /\ Returns(0) /\ saved' = card /\ UNCHANGED <<card, history>>

sd_feof ==
  /\ stream # None /\ call' = <<"feof">> /\ Returns(IF stream.eof = 1 THEN -1 ELSE 0)
  /\ UNCHANGED <<card, saved, stream, heap, history>>

sd_fflush ==
  /\ stream # None /\ call' = <<"fflush">> /\ saved' = card /\ Returns(0)
  /\ UNCHANGED <<card, stream, heap, history>>
------------------------------------------------------------------------------
(***************************************************************************)
(* Reading and writing.  The library reads as much as there is, or fails   *)
(* with -1, which compares and divides as an unsigned number.              *)
(***************************************************************************)
Elements(got, size) == (got % Word) \div size

sd_fread(size, count) ==
  /\ stream # None /\ call' = <<"fread", size, count>>
  /\ LET n == size * count
         left == Len(Content) - stream.pos
         got == IF n <= left THEN n ELSE left IN
     \/ /\ "read" \in Faults
        /\ Returns(Elements(-1, size)) /\ UNCHANGED <<stream, history>>
     \/ /\ Gave(Elements(got, size), SubSeq(Content, stream.pos + 1, stream.pos + got))
        /\ stream' = [stream EXCEPT !.pos = @ + got, !.eof = IF got < n THEN 1 ELSE @]
        /\ IF got < n THEN Ends(1, 0) ELSE UNCHANGED history
  /\ UNCHANGED <<card, saved, heap>>

\* f.write: the bytes lie from the position on; data is what ptr points to.
Put(content, pos, data) ==
  LET end == pos + Len(data) IN
  [k \in 1 .. (IF Len(content) > end THEN Len(content) ELSE end) |->
     IF k \in pos + 1 .. end THEN data[k - pos] ELSE content[k]]

\* Each round of the loop writes from ptr again, so done elements and k more bytes
\* are the first element over and over.
Repeated(element, done, k) ==
  [i \in 1 .. done * Len(element) + k |-> element[((i - 1) % Len(element)) + 1]]

sd_fwrite(data, size, count) ==
  /\ stream # None /\ call' = <<"fwrite", data, size, count>>
  /\ \E done \in 0 .. count, k \in 0 .. size - 1 :
       LET written == Repeated(SubSeq(data, 1, size), done, k) IN
       /\ done < count => "write" \in Faults \/ stream.pos + (done + 1) * size > MaxSize
       /\ done = count => k = 0
       /\ stream.pos + Len(written) <= MaxSize
       /\ SetCard(stream.name, Put(Content, stream.pos, written))
       /\ stream' = [stream EXCEPT !.pos = @ + Len(written)]
       /\ Returns(done)
  /\ UNCHANGED <<saved, heap, history>>
------------------------------------------------------------------------------
(***************************************************************************)
(* Positions.  f.seek fails beyond the end of the file.                    *)
(***************************************************************************)
FSeek(target) ==
  IF target <= Len(Content)
    THEN /\ Returns(0) /\ stream' = [stream EXCEPT !.pos = target, !.eof = 0]
         /\ Ends(0, 0)
    ELSE Returns(1) /\ stream' = [stream EXCEPT !.eof = 0] /\ Ends(ended, 1)

Refuse(eof) == Returns(-1) /\ stream' = [stream EXCEPT !.eof = eof] /\ Ends(ended, 1)

sd_fseek_set(offset) ==
  \/ offset < 0 /\ Refuse(0)
  \/ offset >= 0 /\ FSeek(offset)

\* The sum is unsigned, and so large when it is before the start of the file.
sd_fseek_cur(offset) ==
  LET target == (offset + stream.pos) % Word IN
  \/ target > Len(Content) /\ Refuse(1)
  \/ target <= Len(Content) /\ FSeek(target)

sd_fseek_end_back(offset) ==                    \* mutant: moves backwards twice
  \/ offset > 0 /\ Refuse(1)
  \/ offset <= 0 /\ FSeek((Len(Content) - offset) % Word)
sd_fseek_end(offset) ==
  \/ offset > 0 /\ Refuse(1)
  \/ offset <= 0 /\ FSeek((Len(Content) + offset) % Word)

sd_fseek(offset, whence) ==
  /\ stream # None /\ call' = <<"fseek", offset, whence>>
  /\ \/ whence = "SEEK_SET" /\ sd_fseek_set(offset)
     \/ whence = "SEEK_CUR" /\ sd_fseek_cur(offset)
     \/ whence = "SEEK_END" /\ sd_fseek_end(offset)
  /\ UNCHANGED <<card, saved, heap>>

\* sd_fgetpos stores the same position.
sd_ftell ==
  /\ stream # None /\ call' = <<"ftell">> /\ Returns(stream.pos)
  /\ UNCHANGED <<card, saved, stream, heap, history>>

\* eof stays, where that of C is reset.
sd_fsetpos(pos) ==
  /\ stream # None /\ call' = <<"fsetpos", pos>>
  /\ IF pos <= Len(Content)
       THEN /\ Returns(0) /\ stream' = [stream EXCEPT !.pos = pos]
            /\ Ends(0, IF ended = 1 THEN 1 ELSE stale)
       ELSE Returns(1) /\ UNCHANGED <<stream, history>>
  /\ UNCHANGED <<card, saved, heap>>

sd_rewind ==
  /\ stream # None /\ call' = <<"rewind">> /\ Returns(0)
  /\ stream' = [stream EXCEPT !.pos = 0, !.eof = 0] /\ Ends(0, 0)
  /\ UNCHANGED <<card, saved, heap>>

sd_remove(n) ==
  /\ stream = None /\ call' = <<"remove", n>>
  /\ \/ card[n] # None /\ SetCard(n, None) /\ Returns(1)
     \/ (card[n] = None \/ "remove" \in Faults) /\ Returns(0) /\ UNCHANGED card
  /\ saved' = card' /\ UNCHANGED <<stream, heap, history>>

SD_File_Exists(n) ==
  /\ call' = <<"exists", n>> /\ Returns(IF card[n] # None THEN 1 ELSE 0)
  /\ UNCHANGED <<card, saved, stream, heap, history>>

\* The power fails and the program starts again with SD_File_Begin.  What has been
\* written and not flushed may be there, in part or not.
Remains(content, safe) ==
  IF content = safe THEN {content}
  ELSE UNION {{rest \in [1 .. n -> Bytes] :
                 \A k \in 1 .. n : rest[k] \in {content[k]} \cup
                                     {safe[j] : j \in {k} \cap DOMAIN safe}} :
              n \in Len(safe) .. Len(content)}

PowerFailure ==
  /\ "power" \in Faults /\ call' = <<"begin">>
  /\ IF stream = None THEN UNCHANGED card
       ELSE \E rest \in Remains(Content, saved[stream.name]) : SetCard(stream.name, rest)
  /\ saved' = card' /\ stream' = None /\ heap' = 0 /\ Returns(1)
  /\ UNCHANGED history

Init ==
  /\ card = [n \in Names |-> None] /\ saved = card /\ stream = None /\ heap = 0
  /\ call = <<"begin">> /\ out = [ret |-> 1, data |-> <<>>] /\ ended = 0 /\ stale = 0

\* The callers' rule: feof is not asked after a seek that was refused, nor after an
\* fsetpos that left the end, until a read comes short or a seek arrives.
EofRule == stale = 0

Next ==
  \/ \E n \in Names : sd_remove(n) \/ \E m \in Modes : sd_fopen(n, m)
  \/ \E n \in Names : SD_File_Exists(n)
  \/ EofRule /\ sd_feof
  \/ sd_fclose \/ sd_fflush \/ sd_ftell \/ sd_rewind \/ PowerFailure
  \/ \E size \in Sizes, count \in Counts : sd_fread(size, count)
  \/ \E size \in Sizes, count \in WriteCounts :
       \E data \in [1 .. size * count -> Bytes] : sd_fwrite(data, size, count)
  \/ \E offset \in Offsets, whence \in {"SEEK_SET", "SEEK_CUR", "SEEK_END"} :
       sd_fseek(offset, whence)
  \/ \E pos \in Offsets \cap Nat : sd_fsetpos(pos)

Spec == Init /\ [][Next]_vars
------------------------------------------------------------------------------
(***************************************************************************)
(* Properties.                                                             *)
(***************************************************************************)
\* The position is inside the file, and every open stream has its SD_File.
TypeOK ==
  /\ stream # None => /\ card[stream.name] # None /\ heap > 0
                      /\ stream.pos \in 0 .. Len(Content) /\ stream.eof \in {0, 1}
  /\ \A n \in Names : card[n] # None => Len(card[n]) <= MaxSize
  /\ heap \in 0 .. MaxHeap

\* The indicator of the end is the one C keeps; what feof answers is stream.eof.
Std == INSTANCE Stdio WITH
  stream <- IF stream = None THEN None
            ELSE [name |-> stream.name, pos |-> stream.pos, eof |-> ended = 1]

\* For whole files opened to be read, or written from empty, one element a write,
\* the shim is a stdio: every call gives what this call with these arguments gives
\* there.  What is written is what is read, a seek arrives where it was sent or
\* does not move, feof tells whether a read has come to the end, under EofRule, a
\* count is never that of a read that failed, and what was written before a flush
\* or a close survives a power failure.
ImplementsStdio == Std!Spec
==============================================================================
