---------------------------- MODULE SDFileProofs -----------------------------
(***************************************************************************)
(* The card shim is type correct and a stdio, for all files, sizes and     *)
(* offsets.                                                                *)
(***************************************************************************)
EXTENDS SDFile, SequenceTheorems, TLAPS

Streams == [name : Names, pos : Nat, eof : {0, 1}]

\* Files are made of bytes and fit on the card; a stream is inside its file.
TypeInv ==
  /\ card \in [Names -> Contents \cup {None}]
  /\ saved \in [Names -> Contents \cup {None}]
  /\ heap \in 0 .. MaxHeap
  /\ stream # None =>
       /\ stream \in Streams /\ heap > 0
       /\ card[stream.name] # None /\ stream.pos <= Len(Content)

\* Only the file of the open stream can be ahead of what is on the card for good, and
\* it is there at least as long.
SavedInv ==
  /\ stream = None => saved = card
  /\ stream # None => \A n \in Names \ {stream.name} : saved[n] = card[n]
  /\ stream # None => saved[stream.name] # None /\ Len(saved[stream.name]) <= Len(Content)

\* Unless it is stale the eof of the stream is the indicator that C keeps.
EndInv ==
  /\ ended \in {0, 1} /\ stale \in {0, 1}
  /\ stream # None /\ stale = 0 => ended = stream.eof
------------------------------------------------------------------------------
(***************************************************************************)
(* Files as sequences of bytes.                                            *)
(***************************************************************************)
LEMMA ContentIs ==
  ASSUME NEW c \in Contents
  PROVE  /\ c \in Seq(Bytes) /\ Len(c) \in 0 .. MaxSize /\ c # None
         /\ c \in [1 .. Len(c) -> Bytes]
  BY NoneAssumption, SDFileAssumption, LenProperties DEF Contents

LEMMA IsContent ==
  ASSUME NEW n \in 0 .. MaxSize, NEW c \in [1 .. n -> Bytes]
  PROVE  c \in Contents /\ Len(c) = n
  BY SDFileAssumption DEF Contents

LEMMA EmptyContent == <<>> \in Contents /\ Len(<<>>) = 0
  <1>1. <<>> \in [1 .. 0 -> Bytes]
    OBVIOUS
  <1>2. 0 \in 0 .. MaxSize
    BY SDFileAssumption
  <1>3. <<>> \in Contents
    BY <1>1, <1>2, IsContent
  <1> QED
    BY <1>3

\* The file after data has been written at a position.
LEMMA PutIs ==
  ASSUME NEW c \in Contents, NEW pos \in 0 .. Len(c), NEW d \in Seq(Bytes),
         pos + Len(d) <= MaxSize
  PROVE  /\ Put(c, pos, d) \in Contents
         /\ Len(Put(c, pos, d)) >= Len(c) /\ Len(Put(c, pos, d)) >= pos + Len(d)
  <1> DEFINE end == pos + Len(d)
             m == IF Len(c) > end THEN Len(c) ELSE end
  <1>1. c \in [1 .. Len(c) -> Bytes] /\ Len(c) \in 0 .. MaxSize /\ Len(d) \in Nat
        /\ d \in [1 .. Len(d) -> Bytes]
    BY ContentIs, LenProperties
  <1>2. m \in 0 .. MaxSize /\ m >= Len(c) /\ m >= end
    BY <1>1, SDFileAssumption
  <1>3. ASSUME NEW k \in 1 .. m
        PROVE  (IF k \in pos + 1 .. end THEN d[k - pos] ELSE c[k]) \in Bytes
    <2>1. CASE k \in pos + 1 .. end
      <3>1. k - pos \in 1 .. Len(d)
        BY <1>1, <2>1
      <3> QED
        BY <1>1, <2>1, <3>1
    <2>2. CASE k \notin pos + 1 .. end
      <3>1. k \in 1 .. Len(c)
        BY <1>1, <2>2
      <3> QED
        BY <1>1, <2>2, <3>1
    <2> QED
      BY <2>1, <2>2
  <1>4. Put(c, pos, d) \in [1 .. m -> Bytes]
    BY <1>3 DEF Put
  <1> QED
    BY <1>2, <1>4, IsContent

\* What the rounds of the loop write: bytes, as many as they say.
LEMMA RepeatedIs ==
  ASSUME NEW size \in Nat \ {0}, NEW e \in Seq(Bytes), Len(e) = size,
         NEW done \in Nat, NEW k \in Nat
  PROVE  Repeated(e, done, k) \in Seq(Bytes) /\ Len(Repeated(e, done, k)) = done * size + k
  <1> DEFINE m == done * size + k
  <1>1. m \in Nat
    OBVIOUS
  <1>2. e \in [1 .. size -> Bytes]
    BY LenProperties
  <1>3. \A i \in 1 .. m : ((i - 1) % size) + 1 \in 1 .. size
    <2> TAKE i \in 1 .. m
    <2>1. i - 1 \in Int
      BY <1>1
    <2>2. (i - 1) % size \in 0 .. size - 1
      BY <2>1, SMT
    <2> QED
      BY <2>2
  <1> HIDE DEF m
  <1>4. [i \in 1 .. m |-> e[((i - 1) % size) + 1]] \in [1 .. m -> Bytes]
    BY <1>2, <1>3
  <1>5. Repeated(e, done, k) \in [1 .. m -> Bytes]
    BY <1>4 DEF Repeated, m
  <1> QED
    BY <1>1, <1>5 DEF m

\* The element at the start of the data.
LEMMA FirstElement ==
  ASSUME NEW size \in Nat \ {0}, NEW count \in Nat \ {0},
         NEW data \in [1 .. size * count -> Bytes]
  PROVE  /\ SubSeq(data, 1, size) \in Seq(Bytes) /\ Len(SubSeq(data, 1, size)) = size
         /\ count = 1 => SubSeq(data, 1, size) = data /\ data \in [1 .. size -> Bytes]
  <1>1. size * count \in Nat /\ size <= size * count
    <2>1. count - 1 \in Nat
      OBVIOUS
    <2>2. size * (count - 1) \in Nat /\ size * count = size * (count - 1) + size
      BY <2>1, SMT
    <2> QED
      BY <2>2
  <1>2. data \in Seq(Bytes) /\ Len(data) = size * count
    BY <1>1
  <1>3. SubSeq(data, 1, size) \in Seq(Bytes) /\ Len(SubSeq(data, 1, size)) = size
        /\ \A i \in 1 .. size : SubSeq(data, 1, size)[i] = data[i]
    BY <1>1, <1>2, SubSeqProperties
  <1>4. ASSUME count = 1 PROVE SubSeq(data, 1, size) = data /\ data \in [1 .. size -> Bytes]
    <2>1. size * count = size
      BY <1>4
    <2> QED
      BY <1>2, <1>3, <2>1, SeqEqual
  <1> QED
    BY <1>3, <1>4
------------------------------------------------------------------------------
(***************************************************************************)
(* Types.                                                                  *)
(***************************************************************************)
\* The open stream and its file.
LEMMA StreamIs ==
  ASSUME TypeInv, stream # None
  PROVE  /\ stream \in Streams /\ stream.name \in Names /\ stream.pos \in 0 .. Len(Content)
         /\ stream.eof \in {0, 1} /\ Content \in Contents /\ Len(Content) \in 0 .. MaxSize
         /\ stream = [name |-> stream.name, pos |-> stream.pos, eof |-> stream.eof]
  <1>1. /\ stream \in Streams /\ card[stream.name] # None /\ stream.pos <= Len(Content)
        /\ card \in [Names -> Contents \cup {None}]
    BY DEF TypeInv
  <1>2. stream.name \in Names /\ stream.pos \in Nat /\ stream.eof \in {0, 1}
        /\ stream = [name |-> stream.name, pos |-> stream.pos, eof |-> stream.eof]
    BY <1>1 DEF Streams
  <1>3. Content \in Contents
    BY <1>1, <1>2 DEF Content
  <1>4. Len(Content) \in 0 .. MaxSize
    BY <1>3, ContentIs
  <1> QED
    BY <1>1, <1>2, <1>3, <1>4, SDFileAssumption

\* A new position and indicator in the same file.
LEMMA Moved ==
  ASSUME TypeInv, stream # None, NEW pos \in 0 .. Len(Content), NEW eof \in {0, 1},
         stream' = [name |-> stream.name, pos |-> pos, eof |-> eof],
         UNCHANGED <<card, saved, heap>>
  PROVE  TypeInv' /\ stream'.name = stream.name /\ stream' # None
  <1>1. pos \in Nat /\ pos <= Len(Content) /\ stream.name \in Names
    BY StreamIs, SDFileAssumption
  <1>2. stream' \in [name : Names, pos : Nat, eof : {0, 1}]
        /\ stream'.name = stream.name /\ stream'.pos = pos
    BY <1>1
  <1>3. Content' = Content
    BY <1>2 DEF Content
  <1>4. stream' # None
    BY <1>2, NoneAssumption
  <1> QED
    BY <1>1, <1>2, <1>3, <1>4 DEF TypeInv, Streams

\* A step that leaves the files alone and opens nothing.
LEMMA Rests ==
  ASSUME TypeInv, UNCHANGED <<card, saved, stream, heap>>
  PROVE  TypeInv'
  BY DEF TypeInv, Content

\* Opening fails, or makes an SD_File, after which it may still fail.
LEMMA OpenDoes ==
  ASSUME NEW n \in Names, NEW m \in Modes, sd_fopen(n, m), TypeInv
  PROVE  \/ /\ out' = [ret |-> 0, data |-> <<>>] /\ UNCHANGED <<card, saved, stream, heap>>
         \/ /\ m \in ReadModes \cup FileWriteModes /\ (m \in ReadModes => card[n] # None)
            /\ heap' = heap + 1 /\ heap < MaxHeap /\ saved' = card'
            /\ \E content \in Removed(n, m) :
                 \/ /\ card' = [card EXCEPT ![n] = content]
                    /\ out' = [ret |-> 0, data |-> <<>>] /\ UNCHANGED stream
                 \/ /\ card' = [card EXCEPT ![n] = Opened(content)]
                    /\ out' = [ret |-> 1, data |-> <<>>]
                    /\ stream' = [name |-> n, eof |-> 0,
                                  pos |-> IF m \in ReadModes THEN 0 ELSE Len(Opened(content))]
  BY DEF sd_fopen, Returns, Gave, SetCard, NULL, Stream

LEMMA OpenType ==
  ASSUME TypeInv, NEW n \in Names, NEW m \in Modes, sd_fopen(n, m)
  PROVE  TypeInv'
  <1>1. CASE UNCHANGED <<card, saved, stream, heap>>
    BY <1>1, Rests
  <1>2. ASSUME NEW content \in Removed(n, m), heap' = heap + 1, heap < MaxHeap,
               saved' = card', card' = [card EXCEPT ![n] = content], UNCHANGED stream
        PROVE  TypeInv'
    <2>1. stream = None
      BY DEF sd_fopen
    <2>2. content \in Contents \cup {None}
      BY DEF Removed, TypeInv
    <2> QED
      BY <1>2, <2>1, <2>2, SDFileAssumption DEF TypeInv
  <1>3. ASSUME NEW content \in Removed(n, m), heap' = heap + 1, heap < MaxHeap,
               saved' = card', card' = [card EXCEPT ![n] = Opened(content)],
               stream' = [name |-> n, eof |-> 0,
                          pos |-> IF m \in ReadModes THEN 0 ELSE Len(Opened(content))]
        PROVE  TypeInv'
    <2>1. content \in Contents \cup {None}
      BY DEF Removed, TypeInv
    <2>2. Opened(content) \in Contents
      BY <2>1, EmptyContent DEF Opened
    <2>3. Len(Opened(content)) \in Nat /\ Opened(content) # None
      BY <2>2, ContentIs, SDFileAssumption
    <2>4. stream'.name = n /\ stream' \in Streams /\ stream'.pos <= Len(Opened(content))
      BY <1>3, <2>3 DEF Streams
    <2>5. card' \in [Names -> Contents \cup {None}] /\ card'[n] = Opened(content)
      BY <1>3, <2>2 DEF TypeInv
    <2>6. Content' = Opened(content)
      BY <2>4, <2>5 DEF Content
    <2>7. heap' \in 0 .. MaxHeap /\ heap' > 0
      BY <1>3, SDFileAssumption DEF TypeInv
    <2> QED
      BY <1>3, <2>3, <2>4, <2>5, <2>6, <2>7 DEF TypeInv
  <1> QED
    BY <1>1, <1>2, <1>3, OpenDoes

LEMMA CloseType == TypeInv /\ sd_fclose => TypeInv'
  BY SDFileAssumption DEF TypeInv, sd_fclose

LEMMA FlushType == TypeInv /\ sd_fflush => TypeInv'
  BY DEF TypeInv, sd_fflush, Content

\* A read gets the bytes that are there, at most those asked for, or fails.
LEMMA ReadDoes ==
  ASSUME TypeInv, NEW size \in Sizes, NEW count \in Counts, sd_fread(size, count)
  PROVE  /\ stream # None /\ UNCHANGED <<card, saved, heap>>
         /\ \/ /\ UNCHANGED <<stream, ended, stale>>
               /\ out' = [ret |-> Elements(-1, size), data |-> <<>>]
            \/ LET left == Len(Content) - stream.pos
                   got == IF size * count <= left THEN size * count ELSE left IN
               /\ got \in 0 .. MaxSize /\ stream.pos + got \in 0 .. Len(Content)
               /\ out' = [ret |-> Elements(got, size),
                          data |-> SubSeq(Content, stream.pos + 1, stream.pos + got)]
               /\ stream' = [name |-> stream.name, pos |-> stream.pos + got,
                             eof |-> IF got < size * count THEN 1 ELSE stream.eof]
               /\ IF got < size * count THEN ended' = 1 /\ stale' = 0
                    ELSE UNCHANGED <<ended, stale>>
  <1> DEFINE left == Len(Content) - stream.pos
             got == IF size * count <= left THEN size * count ELSE left
  <1>1. stream # None
    BY DEF sd_fread
  <1>2. size \in Nat /\ count \in Nat /\ size * count \in Nat
    BY SDFileAssumption
  <1>3. got \in 0 .. MaxSize /\ stream.pos + got \in 0 .. Len(Content)
    <2>1. \A n, p, l, m \in Nat : p <= l /\ l <= m =>
            LET g == IF n <= l - p THEN n ELSE l - p IN g \in 0 .. m /\ p + g \in 0 .. l
      OBVIOUS
    <2>2. stream.pos \in 0 .. Len(Content) /\ Len(Content) \in 0 .. MaxSize /\ MaxSize \in Nat
      BY <1>1, StreamIs, SDFileAssumption
    <2>3. /\ stream.pos \in Nat /\ Len(Content) \in Nat
          /\ stream.pos <= Len(Content) /\ Len(Content) <= MaxSize
      BY <2>2
    <2> QED
      BY ONLY <1>2, <2>1, <2>2, <2>3
  <1>4. stream = [name |-> stream.name, pos |-> stream.pos, eof |-> stream.eof]
    BY <1>1, StreamIs
  <1>5. CASE /\ stream' = [stream EXCEPT !.pos = @ + got, !.eof = IF got < size * count THEN 1 ELSE @]
             /\ out' = [ret |-> Elements(got, size),
                        data |-> SubSeq(Content, stream.pos + 1, stream.pos + got)]
             /\ IF got < size * count THEN ended' = 1 /\ stale' = 0
                  ELSE UNCHANGED <<ended, stale>>
    <2>1. stream' = [name |-> stream.name, pos |-> stream.pos + got,
                     eof |-> IF got < size * count THEN 1 ELSE stream.eof]
      <3> HIDE DEF got
      <3> QED
        BY <1>4, <1>5
    <2> QED
      BY <1>1, <1>3, <1>5, <2>1 DEF sd_fread
  <1>6. CASE /\ UNCHANGED <<stream, ended, stale>>
             /\ out' = [ret |-> Elements(-1, size), data |-> <<>>]
    BY <1>1, <1>6 DEF sd_fread
  <1> QED
    BY <1>5, <1>6 DEF sd_fread, Gave, Returns, Ends, history

LEMMA ReadType ==
  ASSUME TypeInv, NEW size \in Sizes, NEW count \in Counts, sd_fread(size, count)
  PROVE  TypeInv' /\ stream'.name = stream.name /\ stream' # None
  <1>1. stream # None /\ UNCHANGED <<card, saved, heap>> /\ stream.eof \in {0, 1}
    BY ReadDoes, StreamIs
  <1>2. CASE UNCHANGED stream
    BY <1>1, <1>2, Rests
  <1>3. ASSUME NEW pos \in 0 .. Len(Content), NEW eof \in {0, 1},
               stream' = [name |-> stream.name, pos |-> pos, eof |-> eof]
        PROVE  TypeInv' /\ stream'.name = stream.name /\ stream' # None
    BY <1>1, <1>3, Moved
  <1> QED
    BY <1>1, <1>2, <1>3, ReadDoes

\* A write puts bytes at the position of the stream, at most to where the card is full,
\* and leaves the position behind them.
LEMMA WriteDoes ==
  ASSUME TypeInv, NEW size \in Sizes, NEW count \in WriteCounts,
         NEW data \in [1 .. size * count -> Bytes], sd_fwrite(data, size, count)
  PROVE  /\ stream # None /\ UNCHANGED <<saved, heap>>
         /\ \E done \in 0 .. count, k \in 0 .. size - 1, written \in Seq(Bytes) :
              /\ done = count => k = 0
              /\ written = Repeated(SubSeq(data, 1, size), done, k)
              /\ stream.pos + Len(written) \in 0 .. MaxSize
              /\ card' = [card EXCEPT ![stream.name] = Put(Content, stream.pos, written)]
              /\ stream' = [name |-> stream.name, pos |-> stream.pos + Len(written),
                            eof |-> stream.eof]
              /\ out' = [ret |-> done, data |-> <<>>]
  <1> DEFINE W(done, k) == Repeated(SubSeq(data, 1, size), done, k)
  <1>1. stream # None /\ UNCHANGED <<saved, heap>>
    BY DEF sd_fwrite
  <1>2. PICK done \in 0 .. count, k \in 0 .. size - 1 :
          /\ done = count => k = 0
          /\ stream.pos + Len(W(done, k)) <= MaxSize
          /\ SetCard(stream.name, Put(Content, stream.pos, W(done, k)))
          /\ stream' = [stream EXCEPT !.pos = @ + Len(W(done, k))]
          /\ Returns(done)
    BY DEF sd_fwrite
  <1>3. size \in Nat \ {0} /\ count \in Nat \ {0} /\ done \in Nat /\ k \in Nat
    BY SDFileAssumption
  <1>4. SubSeq(data, 1, size) \in Seq(Bytes) /\ Len(SubSeq(data, 1, size)) = size
    BY <1>3, FirstElement
  <1>5. W(done, k) \in Seq(Bytes)
    BY <1>3, <1>4, RepeatedIs
  <1> HIDE DEF W
  <1>6. Len(W(done, k)) \in Nat
    BY <1>5
  <1>7. stream.pos + Len(W(done, k)) \in 0 .. MaxSize
    BY <1>1, <1>2, <1>6, StreamIs, SDFileAssumption
  <1>8. stream' = [name |-> stream.name, pos |-> stream.pos + Len(W(done, k)),
                   eof |-> stream.eof]
    BY <1>1, <1>2, StreamIs
  <1>9. W(done, k) = Repeated(SubSeq(data, 1, size), done, k)
    BY DEF W
  <1> QED
    BY <1>1, <1>2, <1>5, <1>7, <1>8, <1>9 DEF SetCard, Returns, Gave

LEMMA WriteType ==
  ASSUME TypeInv, NEW size \in Sizes, NEW count \in WriteCounts,
         NEW data \in [1 .. size * count -> Bytes], sd_fwrite(data, size, count)
  PROVE  TypeInv' /\ stream'.name = stream.name /\ stream' # None /\ Len(Content') >= Len(Content)
  <1>1. stream # None /\ UNCHANGED <<saved, heap>>
    BY WriteDoes
  <1>2. PICK written \in Seq(Bytes) :
          /\ stream.pos + Len(written) \in 0 .. MaxSize
          /\ card' = [card EXCEPT ![stream.name] = Put(Content, stream.pos, written)]
          /\ stream' = [name |-> stream.name, pos |-> stream.pos + Len(written),
                        eof |-> stream.eof]
    BY WriteDoes
  <1> DEFINE new == Put(Content, stream.pos, written)
  <1>3. /\ new \in Contents /\ new # None
        /\ Len(new) >= Len(Content) /\ Len(new) >= stream.pos + Len(written)
    <2>1. Content \in Contents /\ stream.pos \in 0 .. Len(Content)
      BY <1>1, StreamIs
    <2>2. stream.pos + Len(written) <= MaxSize
      BY <1>2, SDFileAssumption
    <2> QED
      BY <2>1, <2>2, PutIs, NoneAssumption
  <1> HIDE DEF new
  <1>4. stream' \in Streams /\ stream'.name = stream.name /\ stream' # None
        /\ stream'.pos = stream.pos + Len(written)
    BY <1>1, <1>2, StreamIs, SDFileAssumption, NoneAssumption DEF Streams
  <1>5. card' \in [Names -> Contents \cup {None}] /\ card'[stream'.name] = new
    BY <1>1, <1>2, <1>3, <1>4, StreamIs DEF TypeInv, new
  <1>6. Content' = new
    BY <1>5 DEF Content
  <1> QED
    BY <1>1, <1>3, <1>4, <1>5, <1>6 DEF TypeInv

\* Where a seek starts from.
From(whence) ==
  CASE whence = "SEEK_SET" -> 0
    [] whence = "SEEK_CUR" -> stream.pos
    [] whence = "SEEK_END" -> Len(Content)

\* A seek moves inside the file or stays, and sets the indicator or resets it.
LEMMA SeekDoes ==
  ASSUME TypeInv, NEW offset \in Offsets, NEW whence, sd_fseek(offset, whence)
  PROVE  /\ stream # None /\ UNCHANGED <<card, saved, heap>>
         /\ \E eof \in {0, 1} :
              \/ /\ From(whence) + offset \in 0 .. Len(Content)
                 /\ out' = [ret |-> 0, data |-> <<>>] /\ ended' = 0 /\ stale' = 0
                 /\ stream' = [name |-> stream.name, pos |-> From(whence) + offset, eof |-> 0]
              \/ /\ From(whence) + offset \notin 0 .. Len(Content)
                 /\ out'.ret # 0 /\ out'.data = <<>> /\ ended' = ended /\ stale' = 1
                 /\ stream' = [name |-> stream.name, pos |-> stream.pos, eof |-> eof]
  <1> DEFINE Arrives(base) ==
               /\ base + offset \in 0 .. Len(Content) /\ out' = [ret |-> 0, data |-> <<>>]
               /\ ended' = 0 /\ stale' = 0
               /\ stream' = [name |-> stream.name, pos |-> base + offset, eof |-> 0]
             Stays(base, eof) ==
               /\ base + offset \notin 0 .. Len(Content)
               /\ out'.ret # 0 /\ out'.data = <<>> /\ ended' = ended /\ stale' = 1
               /\ stream' = [name |-> stream.name, pos |-> stream.pos, eof |-> eof]
             Done(base) == \E eof \in {0, 1} : Arrives(base) \/ Stays(base, eof)
  <1>1. stream # None /\ UNCHANGED <<card, saved, heap>>
    BY DEF sd_fseek
  <1>2. /\ stream = [name |-> stream.name, pos |-> stream.pos, eof |-> stream.eof]
        /\ stream.pos \in 0 .. Len(Content) /\ Len(Content) \in 0 .. MaxSize
    BY <1>1, StreamIs
  <1>3. /\ offset \in Int /\ MaxSize \in Nat /\ Word \in Nat
        /\ MaxSize + offset < Word /\ -offset < Word - MaxSize /\ MaxSize < Word
    BY SDFileAssumption
  <1>4. ASSUME NEW base \in 0 .. Len(Content)
        PROVE  /\ base + offset >= 0 => (base + offset) % Word = base + offset
               /\ base + offset < 0 => (base + offset) % Word > Len(Content)
    <2>1. base + offset \in Int /\ base + offset < Word /\ -(base + offset) < Word - Len(Content)
      BY <1>2, <1>3
    <2>2. CASE base + offset >= 0
      BY <1>3, <2>1, <2>2, SMT
    <2>3. CASE base + offset < 0
      <3>1. (base + offset) % Word = Word + (base + offset)
        <4>1. -(base + offset) < Word
          BY <1>2, <1>3, <2>1
        <4> QED
          BY <1>3, <2>1, <2>3, <4>1, SMT
      <3>2. (base + offset) % Word > Len(Content)
        <4>1. base + offset \in Int /\ -(base + offset) < Word - Len(Content)
          BY <2>1
        <4>2. Len(Content) \in Nat /\ Word \in Nat
          BY <1>2, <1>3
        <4>3. \A x \in Int, l, w \in Nat : -x < w - l => w + x > l
          OBVIOUS
        <4> QED
          BY ONLY <3>1, <4>1, <4>2, <4>3
      <3> QED
        BY ONLY <2>1, <2>3, <3>2
    <2> QED
      BY <2>1, <2>2, <2>3
  <1>5. ASSUME NEW target \in Nat, FSeek(target)
        PROVE  \/ /\ target <= Len(Content) /\ out' = [ret |-> 0, data |-> <<>>]
                  /\ ended' = 0 /\ stale' = 0
                  /\ stream' = [name |-> stream.name, pos |-> target, eof |-> 0]
               \/ /\ target > Len(Content)
                  /\ out'.ret # 0 /\ out'.data = <<>> /\ ended' = ended /\ stale' = 1
                  /\ stream' = [name |-> stream.name, pos |-> stream.pos, eof |-> 0]
    <2>1. /\ stream' = [stream EXCEPT !.pos = target, !.eof = 0] =>
               stream' = [name |-> stream.name, pos |-> target, eof |-> 0]
          /\ stream' = [stream EXCEPT !.eof = 0] =>
               stream' = [name |-> stream.name, pos |-> stream.pos, eof |-> 0]
      <3>1. stream = [name |-> stream.name, pos |-> stream.pos, eof |-> stream.eof]
        BY <1>2
      <3>2. ASSUME stream' = [stream EXCEPT !.pos = target, !.eof = 0]
            PROVE  stream' = [name |-> stream.name, pos |-> target, eof |-> 0]
        BY <3>1, <3>2
      <3>3. ASSUME stream' = [stream EXCEPT !.eof = 0]
            PROVE  stream' = [name |-> stream.name, pos |-> stream.pos, eof |-> 0]
        BY <3>1, <3>3
      <3> QED
        BY <3>2, <3>3
    <2>2. Len(Content) \in Int
      BY <1>2
    <2>3. CASE target <= Len(Content)
      BY <1>5, <2>1, <2>3 DEF FSeek, Returns, Gave, Ends
    <2>4. CASE ~(target <= Len(Content))
      BY <1>5, <2>1, <2>2, <2>4 DEF FSeek, Returns, Gave, Ends
    <2> QED
      BY <2>3, <2>4
  <1>6. ASSUME NEW eof \in {0, 1}, Refuse(eof)
        PROVE  /\ out'.ret # 0 /\ out'.data = <<>> /\ ended' = ended /\ stale' = 1
               /\ stream' = [name |-> stream.name, pos |-> stream.pos, eof |-> eof]
    BY <1>2, <1>6 DEF Refuse, Returns, Gave, Ends
  <1>7. ASSUME sd_fseek_set(offset) PROVE Done(0)
    <2>1. CASE offset < 0 /\ Refuse(0)
      <3>1. Stays(0, 0)
        BY <1>2, <1>3, <1>6, <2>1
      <3> QED
        BY <1>1, <3>1
    <2>2. CASE offset >= 0 /\ FSeek(offset)
      <3>1. Arrives(0) \/ Stays(0, 0)
        BY <1>2, <1>3, <1>5, <2>2
      <3> QED
        BY <1>1, <3>1
    <2> QED
      BY <1>7, <2>1, <2>2 DEF sd_fseek_set
  <1>8. ASSUME sd_fseek_cur(offset) PROVE Done(stream.pos)
    <2> DEFINE target == (offset + stream.pos) % Word
    <2>1. /\ target \in Nat /\ offset + stream.pos = stream.pos + offset
          /\ stream.pos + offset >= 0 => target = stream.pos + offset
          /\ stream.pos + offset < 0 => target > Len(Content)
      <3>1. offset + stream.pos = stream.pos + offset /\ stream.pos + offset \in Int
        BY <1>2, <1>3
      <3>2. (stream.pos + offset) % Word \in 0 .. Word - 1
        BY <1>3, <3>1, SMT
      <3>3. target = (stream.pos + offset) % Word
        BY <3>1
      <3>4. /\ stream.pos + offset >= 0 => (stream.pos + offset) % Word = stream.pos + offset
            /\ stream.pos + offset < 0 => (stream.pos + offset) % Word > Len(Content)
        BY <1>2, <1>4
      <3>5. target \in Nat
        BY <1>3, <3>2, <3>3
      <3> QED
        BY ONLY <3>1, <3>3, <3>4, <3>5
    <2>2. CASE target > Len(Content) /\ Refuse(1)
      <3>1. Stays(stream.pos, 1)
        <4> HIDE DEF target
        <4> QED
          BY <1>2, <1>3, <1>6, <2>1, <2>2
      <3> QED
        BY <1>1, <3>1
    <2>3. CASE target <= Len(Content) /\ FSeek(target)
      <3>1. Arrives(stream.pos) \/ Stays(stream.pos, 0)
        <4> HIDE DEF target
        <4> QED
          BY <1>2, <1>3, <1>5, <2>1, <2>3
      <3> QED
        BY <1>1, <3>1
    <2> QED
      BY <1>8, <2>2, <2>3 DEF sd_fseek_cur
  <1>9. ASSUME sd_fseek_end(offset) PROVE Done(Len(Content))
    <2> DEFINE target == (Len(Content) + offset) % Word
    <2>1. CASE offset > 0 /\ Refuse(1)
      <3>1. Stays(Len(Content), 1)
        BY <1>2, <1>3, <1>6, <2>1
      <3> QED
        BY <1>1, <3>1
    <2>2. CASE offset <= 0 /\ FSeek(target)
      <3>1. /\ target \in Nat /\ Len(Content) \in 0 .. Len(Content)
            /\ Len(Content) + offset >= 0 => target = Len(Content) + offset
            /\ Len(Content) + offset < 0 => target > Len(Content)
        <4>1. Len(Content) + offset \in Int /\ Len(Content) \in 0 .. Len(Content)
          BY <1>2, <1>3
        <4>2. (Len(Content) + offset) % Word \in 0 .. Word - 1
          BY <1>3, <4>1, SMT
        <4> QED
          BY <1>3, <1>4, <4>1, <4>2
      <3>2. Arrives(Len(Content)) \/ Stays(Len(Content), 0)
        <4> HIDE DEF target
        <4> QED
          BY <1>2, <1>3, <1>5, <2>2, <3>1
      <3> QED
        BY <1>1, <3>2
    <2> QED
      BY <1>9, <2>1, <2>2 DEF sd_fseek_end
  <1>10. Done(From(whence))
    BY <1>7, <1>8, <1>9 DEF sd_fseek, From
  <1> QED
    BY <1>1, <1>10

LEMMA SeekType ==
  ASSUME TypeInv, NEW offset \in Offsets, NEW whence, sd_fseek(offset, whence)
  PROVE  TypeInv' /\ stream'.name = stream.name /\ stream' # None
  <1>1. stream # None /\ UNCHANGED <<card, saved, heap>>
    BY SeekDoes
  <1>2. stream.pos \in 0 .. Len(Content)
    BY <1>1, StreamIs
  <1>3. \E pos \in 0 .. Len(Content), eof \in {0, 1} :
          stream' = [name |-> stream.name, pos |-> pos, eof |-> eof]
    BY <1>2, SeekDoes
  <1> QED
    BY <1>1, <1>3, Moved

\* A stream is set to a position in the file, or stays.
LEMMA SetPosDoes ==
  ASSUME TypeInv, NEW pos \in Offsets \cap Nat, sd_fsetpos(pos)
  PROVE  /\ stream # None /\ UNCHANGED <<card, saved, heap>>
         /\ \/ /\ pos <= Len(Content) /\ pos \in 0 .. Len(Content)
               /\ out' = [ret |-> 0, data |-> <<>>]
               /\ stream' = [name |-> stream.name, pos |-> pos, eof |-> stream.eof]
               /\ ended' = 0 /\ stale' = (IF ended = 1 THEN 1 ELSE stale)
            \/ /\ pos > Len(Content) /\ out'.ret # 0 /\ out'.data = <<>>
               /\ UNCHANGED <<stream, ended, stale>>
  <1>1. stream # None /\ UNCHANGED <<card, saved, heap>>
    BY DEF sd_fsetpos
  <1>2. /\ stream = [name |-> stream.name, pos |-> stream.pos, eof |-> stream.eof]
        /\ Len(Content) \in 0 .. MaxSize
    BY <1>1, StreamIs
  <1>3. Len(Content) \in Nat
    BY <1>2, SDFileAssumption
  <1>4. ASSUME stream' = [stream EXCEPT !.pos = pos]
        PROVE  stream' = [name |-> stream.name, pos |-> pos, eof |-> stream.eof]
    BY <1>2, <1>4
  <1>5. CASE pos <= Len(Content)
    BY <1>1, <1>3, <1>4, <1>5 DEF sd_fsetpos, Returns, Gave, Ends, history
  <1>6. CASE ~(pos <= Len(Content))
    BY <1>1, <1>3, <1>6 DEF sd_fsetpos, Returns, Gave, Ends, history
  <1> QED
    BY <1>5, <1>6

\* A stream goes back to the start of its file.
LEMMA RewindDoes ==
  ASSUME TypeInv, sd_rewind
  PROVE  /\ stream # None /\ UNCHANGED <<card, saved, heap>> /\ out' = [ret |-> 0, data |-> <<>>]
         /\ 0 \in 0 .. Len(Content) /\ ended' = 0
         /\ stream' = [name |-> stream.name, pos |-> 0, eof |-> 0]
  <1>1. stream # None /\ UNCHANGED <<card, saved, heap>> /\ out' = [ret |-> 0, data |-> <<>>]
        /\ ended' = 0
    BY DEF sd_rewind, Returns, Gave, Ends
  <1>2. /\ stream = [name |-> stream.name, pos |-> stream.pos, eof |-> stream.eof]
        /\ 0 \in 0 .. Len(Content)
    BY <1>1, StreamIs, SDFileAssumption
  <1>3. stream' = [stream EXCEPT !.pos = 0, !.eof = 0]
    BY DEF sd_rewind
  <1>4. stream' = [name |-> stream.name, pos |-> 0, eof |-> 0]
    BY <1>2, <1>3
  <1> QED
    BY <1>1, <1>2, <1>4

LEMMA MoveType ==
  ASSUME TypeInv, sd_rewind \/ \E pos \in Offsets \cap Nat : sd_fsetpos(pos)
  PROVE  TypeInv' /\ stream'.name = stream.name /\ stream' # None
  <1>1. stream # None /\ UNCHANGED <<card, saved, heap>>
    BY RewindDoes, SetPosDoes
  <1>2. stream.eof \in {0, 1}
    BY <1>1, StreamIs
  <1>3. CASE UNCHANGED stream
    BY <1>1, <1>3, Rests
  <1>4. ASSUME NEW pos \in 0 .. Len(Content), NEW eof \in {0, 1},
               stream' = [name |-> stream.name, pos |-> pos, eof |-> eof]
        PROVE  TypeInv' /\ stream'.name = stream.name /\ stream' # None
    BY <1>1, <1>4, Moved
  <1> QED
    BY <1>1, <1>2, <1>3, <1>4, RewindDoes, SetPosDoes

\* Removing a file leaves the others.
LEMMA RemoveType == TypeInv /\ (\E n \in Names : sd_remove(n)) => TypeInv'
  <1> SUFFICES ASSUME TypeInv, NEW n \in Names, sd_remove(n) PROVE TypeInv'
    OBVIOUS
  <1>1. stream = None /\ stream' = None /\ heap' = heap /\ saved' = card'
        /\ card' \in {card, [card EXCEPT ![n] = None]}
    BY DEF sd_remove, SetCard
  <1> QED
    BY <1>1 DEF TypeInv

\* What remains of a file is at least what was safe, and each byte is one of its or of
\* what was safe.
LEMMA RemainsIs ==
  ASSUME NEW c \in Contents, NEW safe \in Contents, Len(safe) <= Len(c),
         NEW rest \in Remains(c, safe)
  PROVE  /\ rest \in Contents /\ Len(safe) <= Len(rest) /\ Len(rest) <= Len(c)
         /\ \A k \in 1 .. Len(rest) :
              \/ k <= Len(c) /\ rest[k] = c[k]
              \/ k <= Len(safe) /\ rest[k] = safe[k]
  <1>1. /\ Len(c) \in 0 .. MaxSize /\ Len(safe) \in 0 .. MaxSize
        /\ c \in Seq(Bytes) /\ safe \in Seq(Bytes) /\ MaxSize \in Nat
    BY ContentIs, SDFileAssumption
  <1>2. CASE rest = c
    BY <1>1, <1>2
  <1>3. CASE rest # c
    <2>1. PICK n \in Len(safe) .. Len(c) :
            /\ rest \in [1 .. n -> Bytes]
            /\ \A k \in 1 .. n : rest[k] \in {c[k]} \cup {safe[j] : j \in {k} \cap DOMAIN safe}
      BY <1>3 DEF Remains
    <2>2. n \in 0 .. MaxSize /\ n <= Len(c)
      BY <1>1
    <2>3. rest \in Contents /\ Len(rest) = n
      BY <2>1, <2>2, IsContent
    <2>4. ASSUME NEW k \in 1 .. n
          PROVE  \/ k <= Len(c) /\ rest[k] = c[k]
                 \/ k <= Len(safe) /\ rest[k] = safe[k]
      <3>1. DOMAIN safe = 1 .. Len(safe)
        BY <1>1, LenProperties
      <3>2. k \in Nat /\ k <= Len(c)
        BY <1>1, <2>2
      <3> QED
        BY <1>1, <2>1, <3>1, <3>2
    <2> QED
      BY <2>1, <2>3, <2>4
  <1> QED
    BY <1>2, <1>3

\* A power failure leaves of the file of the open stream what remains.
LEMMA PowerDoes ==
  ASSUME TypeInv, SavedInv, PowerFailure
  PROVE  /\ stream' = None /\ saved' = card' /\ heap' = 0
         /\ \/ stream = None /\ card' = card
            \/ /\ stream # None
               /\ \E rest \in Contents :
                    /\ card' = [card EXCEPT ![stream.name] = rest]
                    /\ Len(saved[stream.name]) <= Len(rest)
                    /\ \A k \in 1 .. Len(rest) :
                         \/ k <= Len(Content) /\ rest[k] = Content[k]
                         \/ k <= Len(saved[stream.name]) /\ rest[k] = saved[stream.name][k]
  <1>1. stream' = None /\ saved' = card' /\ heap' = 0
    BY DEF PowerFailure
  <1>2. CASE stream = None
    BY <1>1, <1>2 DEF PowerFailure
  <1>3. CASE stream # None
    <2>1. /\ Content \in Contents /\ saved[stream.name] \in Contents
          /\ Len(saved[stream.name]) <= Len(Content)
      BY <1>3, StreamIs DEF TypeInv, SavedInv
    <2>2. PICK rest \in Remains(Content, saved[stream.name]) :
            card' = [card EXCEPT ![stream.name] = rest]
      BY <1>3 DEF PowerFailure, SetCard
    <2>3. /\ rest \in Contents /\ Len(saved[stream.name]) <= Len(rest)
          /\ \A k \in 1 .. Len(rest) :
               \/ k <= Len(Content) /\ rest[k] = Content[k]
               \/ k <= Len(saved[stream.name]) /\ rest[k] = saved[stream.name][k]
      BY <2>1, RemainsIs
    <2> QED
      BY <1>1, <1>3, <2>2, <2>3
  <1> QED
    BY <1>2, <1>3
------------------------------------------------------------------------------
(***************************************************************************)
(* The invariant.                                                          *)
(***************************************************************************)
\* What is on the card for good is the card.
LEMMA Saves ==
  ASSUME TypeInv', saved' = card'
  PROVE  SavedInv'
  <1>1. CASE stream' = None
    BY <1>1 DEF SavedInv
  <1>2. CASE stream' # None
    <2>1. Content' \in Contents /\ saved'[stream'.name] = Content' /\ Content' # None
      BY <1>2, NoneAssumption DEF TypeInv, Content, Streams
    <2>2. Len(Content') <= Len(Content')
      BY <2>1, ContentIs, SDFileAssumption
    <2> QED
      BY <1>2, <2>1, <2>2 DEF SavedInv
  <1> QED
    BY <1>1, <1>2

\* The open stream stays open and no file changes.
LEMMA Stays ==
  ASSUME SavedInv, UNCHANGED <<card, saved>>, stream # None, stream' # None,
         stream'.name = stream.name
  PROVE  SavedInv'
  BY DEF SavedInv, Content

\* The file of the open stream gets longer, or other bytes.
LEMMA Grows ==
  ASSUME TypeInv, SavedInv, NEW size \in Sizes, NEW count \in WriteCounts,
         NEW data \in [1 .. size * count -> Bytes], sd_fwrite(data, size, count)
  PROVE  SavedInv'
  <1>1. /\ TypeInv' /\ stream # None /\ stream' # None /\ saved' = saved
        /\ stream'.name = stream.name /\ Len(Content') >= Len(Content)
    BY WriteDoes, WriteType
  <1>2. \A n \in Names : n # stream.name => card'[n] = card[n]
    BY WriteDoes DEF TypeInv
  <1>3. Len(Content) \in Nat /\ Len(Content') \in Nat /\ Len(saved[stream.name]) \in Nat
    <2>1. Content \in Contents /\ Content' \in Contents /\ saved[stream.name] \in Contents
      <3>1. stream.name \in Names /\ stream'.name \in Names
        BY <1>1, StreamIs
      <3> QED
        BY <1>1, <3>1 DEF TypeInv, SavedInv, Content
    <2> QED
      BY <2>1, ContentIs, SDFileAssumption
  <1>4. Len(saved'[stream'.name]) <= Len(Content')
    BY <1>1, <1>3 DEF SavedInv
  <1> QED
    BY <1>1, <1>2, <1>4 DEF SavedInv

LEMMA InitInv == Init => TypeInv /\ SavedInv /\ EndInv
  BY SDFileAssumption DEF Init, TypeInv, SavedInv, EndInv

LEMMA NextInv == TypeInv /\ SavedInv /\ [Next]_vars => TypeInv' /\ SavedInv'
  <1> SUFFICES ASSUME TypeInv, SavedInv, [Next]_vars PROVE TypeInv' /\ SavedInv'
    OBVIOUS
  <1>1. CASE UNCHANGED <<card, saved, stream, heap>>
    <2>1. CASE stream = None
      BY <1>1, <2>1, Rests DEF SavedInv
    <2> QED
      BY <1>1, <2>1, Rests, Stays
  <1>2. ASSUME NEW n \in Names, NEW m \in Modes, sd_fopen(n, m)
        PROVE  TypeInv' /\ SavedInv'
    <2>1. CASE saved' = card'
      BY <1>2, <2>1, OpenType, Saves
    <2> QED
      BY <1>1, <1>2, <2>1, OpenDoes
  <1>3. CASE \E n \in Names : sd_remove(n)
    <2>1. saved' = card'
      BY <1>3 DEF sd_remove
    <2> QED
      BY <1>3, <2>1, RemoveType, Saves
  <1>4. CASE sd_fclose \/ sd_fflush
    <2>1. saved' = card' /\ TypeInv'
      BY <1>4, CloseType, FlushType DEF sd_fclose, sd_fflush
    <2> QED
      BY <2>1, Saves
  <1>5. CASE (\E n \in Names : SD_File_Exists(n)) \/ sd_feof \/ sd_ftell
    <2>1. UNCHANGED <<card, saved, stream, heap>>
      BY <1>5 DEF SD_File_Exists, sd_feof, sd_ftell
    <2> QED
      BY <1>1, <2>1
  <1>6. CASE sd_rewind \/ \E pos \in Offsets \cap Nat : sd_fsetpos(pos)
    <2>1. stream # None /\ UNCHANGED <<card, saved>>
      BY <1>6, RewindDoes, SetPosDoes
    <2> QED
      BY <1>6, <2>1, MoveType, Stays
  <1>7. CASE PowerFailure
    <2>1. /\ stream' = None /\ saved' = card' /\ heap' = 0
          /\ \/ card' = card
             \/ \E rest \in Contents : card' = [card EXCEPT ![stream.name] = rest]
      BY <1>7, PowerDoes
    <2>2. TypeInv'
      BY <2>1, SDFileAssumption DEF TypeInv
    <2> QED
      BY <2>1, <2>2, Saves
  <1>8. ASSUME NEW size \in Sizes, NEW count \in Counts, sd_fread(size, count)
        PROVE  TypeInv' /\ SavedInv'
    <2>1. stream # None /\ UNCHANGED <<card, saved>>
      BY <1>8, ReadDoes
    <2> QED
      BY <1>8, <2>1, ReadType, Stays
  <1>9. ASSUME NEW size \in Sizes, NEW count \in WriteCounts,
               NEW data \in [1 .. size * count -> Bytes], sd_fwrite(data, size, count)
        PROVE  TypeInv' /\ SavedInv'
    BY <1>9, WriteType, Grows
  <1>10. ASSUME NEW offset \in Offsets, NEW whence, sd_fseek(offset, whence)
         PROVE  TypeInv' /\ SavedInv'
    <2>1. stream # None /\ UNCHANGED <<card, saved>>
      BY <1>10, SeekDoes
    <2> QED
      BY <1>10, <2>1, SeekType, Stays
  <1>11. CASE UNCHANGED vars
    BY <1>1, <1>11 DEF vars
  <1> QED
    BY <1>2, <1>3, <1>4, <1>5, <1>6, <1>7, <1>8, <1>9, <1>10, <1>11 DEF Next

\* The indicator: short reads and seeks that arrive set both, a seek that is refused and
\* an fsetpos from the end make it stale.
LEMMA EndNext == TypeInv /\ EndInv /\ [Next]_vars => EndInv'
  <1> SUFFICES ASSUME TypeInv, EndInv, [Next]_vars PROVE EndInv'
    OBVIOUS
  <1>1. CASE UNCHANGED <<stream, ended, stale>>
    BY <1>1 DEF EndInv
  <1>2. ASSUME NEW n \in Names, NEW m \in Modes, sd_fopen(n, m) PROVE EndInv'
    <2>1. ended' = 0 /\ stale' = 0 /\ stream = None
      BY <1>2 DEF sd_fopen, Ends
    <2>2. stream' = None \/ stream'.eof = 0
      BY <1>2, <2>1, OpenDoes
    <2> QED
      BY <2>1, <2>2 DEF EndInv
  <1>3. CASE sd_fclose \/ PowerFailure
    <2>1. stream' = None /\ UNCHANGED <<ended, stale>>
      BY <1>3 DEF sd_fclose, PowerFailure, history
    <2> QED
      BY <2>1 DEF EndInv
  <1>4. CASE (\E n \in Names : sd_remove(n) \/ SD_File_Exists(n)) \/ sd_feof \/ sd_ftell \/ sd_fflush
    <2>1. UNCHANGED <<stream, ended, stale>>
      BY <1>4 DEF sd_remove, SD_File_Exists, sd_feof, sd_ftell, sd_fflush, history
    <2> QED
      BY <1>1, <2>1
  <1>5. ASSUME NEW size \in Sizes, NEW count \in Counts, sd_fread(size, count) PROVE EndInv'
    <2>1. CASE ended' = 1 /\ stale' = 0 /\ stream'.eof = 1
      BY <2>1 DEF EndInv
    <2>2. CASE stream # None /\ stream'.eof = stream.eof /\ UNCHANGED <<ended, stale>>
      BY <2>2 DEF EndInv
    <2> QED
      BY <1>1, <1>5, <2>1, <2>2, ReadDoes
  <1>6. ASSUME NEW size \in Sizes, NEW count \in WriteCounts,
               NEW data \in [1 .. size * count -> Bytes], sd_fwrite(data, size, count)
        PROVE  EndInv'
    <2>1. UNCHANGED <<ended, stale>>
      BY <1>6 DEF sd_fwrite, history
    <2>2. stream # None /\ stream'.eof = stream.eof
      BY <1>6, WriteDoes
    <2> QED
      BY <2>1, <2>2 DEF EndInv
  <1>7. ASSUME NEW offset \in Offsets, NEW whence, sd_fseek(offset, whence) PROVE EndInv'
    <2>1. CASE ended' = ended /\ stale' = 1
      BY <2>1 DEF EndInv
    <2>2. CASE ended' = 0 /\ stale' = 0 /\ stream'.eof = 0
      BY <2>2 DEF EndInv
    <2> QED
      BY <1>7, <2>1, <2>2, SeekDoes
  <1>8. ASSUME NEW pos \in Offsets \cap Nat, sd_fsetpos(pos) PROVE EndInv'
    <2>1. stream # None /\ ended \in {0, 1} /\ stale \in {0, 1}
      BY <1>8, SetPosDoes DEF EndInv
    <2>2. CASE stream'.eof = stream.eof /\ ended' = 0 /\ stale' = (IF ended = 1 THEN 1 ELSE stale)
      BY <2>1, <2>2 DEF EndInv
    <2> QED
      BY <1>1, <1>8, <2>2, SetPosDoes
  <1>9. CASE sd_rewind
    <2>1. ended' = 0 /\ stale' = 0
      BY <1>9 DEF sd_rewind, Ends
    <2>2. stream'.eof = 0
      BY <1>9, RewindDoes
    <2> QED
      BY <2>1, <2>2 DEF EndInv
  <1>10. CASE UNCHANGED vars
    BY <1>1, <1>10 DEF vars
  <1> QED
    BY <1>2, <1>3, <1>4, <1>5, <1>6, <1>7, <1>8, <1>9, <1>10 DEF Next

LEMMA SpecInv == Spec => [](TypeInv /\ SavedInv /\ EndInv)
  BY InitInv, NextInv, EndNext, PTL DEF Spec

\* The position of the open stream never leaves its file, no file outgrows the card, and
\* no SD_File is deleted twice.
THEOREM TypeCorrect == Spec => []TypeOK
  <1>1. TypeInv => TypeOK
    <2> SUFFICES ASSUME TypeInv PROVE TypeOK
      OBVIOUS
    <2>1. \A n \in Names : card[n] # None => Len(card[n]) <= MaxSize
      <3> SUFFICES ASSUME NEW n \in Names, card[n] # None PROVE Len(card[n]) <= MaxSize
        OBVIOUS
      <3>1. card[n] \in Contents
        BY DEF TypeInv
      <3> QED
        BY <3>1, ContentIs, SDFileAssumption
    <2> QED
      BY <2>1, StreamIs DEF TypeInv, TypeOK
  <1> QED
    BY <1>1, SpecInv, PTL
------------------------------------------------------------------------------
(***************************************************************************)
(* The shim as a stdio.                                                    *)
(*                                                                         *)
(* The rules name what callers must keep away from: modes that update or   *)
(* append start at the end of the file, a removal that fails leaves the    *)
(* content to be appended to, several elements written at once are the     *)
(* first one over and over, and the -1 of a read that fails must not,      *)
(* taken for an unsigned number, be the number of elements asked for.      *)
(***************************************************************************)
ShimRules ==
  /\ Modes \cap (UpdateModes \cup AppendModes) = {}
  /\ "remove" \notin Faults
  /\ WriteCounts = {1}
  /\ \A size \in Sizes, count \in Counts : (Word - 1) \div size # count

\* The stream as stdio has it.
StdStream == IF stream = None THEN None
             ELSE [name |-> stream.name, pos |-> stream.pos, eof |-> ended = 1]

LEMMA StdStreamIs ==
  /\ stream = None => StdStream = None
  /\ TypeInv /\ stream # None =>
       /\ StdStream # None /\ StdStream.name = stream.name /\ StdStream.pos = stream.pos
       /\ StdStream.eof <=> ended = 1
       /\ StdStream = [name |-> stream.name, pos |-> stream.pos, eof |-> ended = 1]
       /\ Std!Content = Content
  <1>1. ASSUME TypeInv, stream # None PROVE StdStream # None
    <2>1. stream.name \in Names /\ stream.pos \in Nat
      BY <1>1, StreamIs, SDFileAssumption
    <2>2. StdStream \in [name : Names, pos : Nat, eof : BOOLEAN]
      BY <1>1, <2>1 DEF StdStream
    <2> QED
      BY <2>2, NoneAssumption
  <1> QED
    BY <1>1 DEF StdStream, Std!Content, Content

\* A file is opened empty, or as it is, or not at all.
LEMMA OpenRefines ==
  ASSUME TypeInv, SavedInv, ShimRules, NEW n \in Names, NEW m \in Modes, sd_fopen(n, m)
  PROVE  Std!Open(n, m) \/ Std!OpenFails(n, m)
  <1>1. /\ stream = None /\ saved = card /\ StdStream = None
        /\ call' = <<"fopen", n, m>> /\ ended' = 0
    BY StdStreamIs DEF sd_fopen, SavedInv, Ends
  <1>2. CASE out' = [ret |-> 0, data |-> <<>>] /\ UNCHANGED <<card, saved, stream, heap>>
    BY <1>1, <1>2, StdStreamIs DEF Std!OpenFails, Std!Gave, StdStream
  <1>3. ASSUME m \in ReadModes \cup FileWriteModes, m \in ReadModes => card[n] # None
        PROVE  \/ /\ m \in ReadModes /\ m \in Std!KeepModes
                  /\ card[n] # None /\ Removed(n, m) = {card[n]}
               \/ m \notin ReadModes /\ m \in Std!EmptyModes /\ Removed(n, m) = {None}
    <2>1. CASE m \in ReadModes
      <3>1. m \notin WriteModes \cup EmptyModes /\ m \in Std!KeepModes
        BY <2>1 DEF ReadModes, WriteModes, EmptyModes, Std!KeepModes
      <3> QED
        BY <1>3, <2>1, <3>1 DEF Removed
    <2>2. CASE m \notin ReadModes
      <3>1. m \in WriteModes \cup EmptyModes
        BY <1>3, <2>2 DEF ShimRules, FileWriteModes
      <3>2. m \in Std!EmptyModes
        BY <3>1 DEF WriteModes, EmptyModes, Std!EmptyModes
      <3> QED
        BY <2>2, <3>1, <3>2 DEF Removed, ShimRules
    <2> QED
      BY <2>1, <2>2
  <1>4. ASSUME NEW content \in Removed(n, m), m \in ReadModes \cup FileWriteModes,
               m \in ReadModes => card[n] # None, saved' = card',
               card' = [card EXCEPT ![n] = content],
               out' = [ret |-> 0, data |-> <<>>], UNCHANGED stream
        PROVE  Std!OpenFails(n, m)
    <2>1. card' = card \/ (m \in Std!EmptyModes /\ card' = [card EXCEPT ![n] = None])
      <3>1. content = card[n] \/ (m \in Std!EmptyModes /\ content = None)
        BY <1>3, <1>4
      <3> QED
        BY <1>4, <3>1 DEF TypeInv
    <2> QED
      BY <1>1, <1>4, <2>1 DEF Std!OpenFails, Std!Gave, StdStream
  <1>5. ASSUME NEW content \in Removed(n, m), m \in ReadModes \cup FileWriteModes,
               m \in ReadModes => card[n] # None, saved' = card',
               card' = [card EXCEPT ![n] = Opened(content)],
               out' = [ret |-> 1, data |-> <<>>],
               stream' = [name |-> n, eof |-> 0,
                          pos |-> IF m \in ReadModes THEN 0 ELSE Len(Opened(content))]
        PROVE  Std!Open(n, m)
    <2>1. /\ \/ m \in Std!KeepModes /\ card[n] # None /\ card' = card
             \/ m \in Std!EmptyModes /\ card' = [card EXCEPT ![n] = <<>>]
          /\ stream' = [name |-> n, eof |-> 0, pos |-> 0]
      <3>1. CASE m \in ReadModes
        <4>1. content = card[n] /\ card[n] # None /\ m \in Std!KeepModes
          BY <1>3, <1>5, <3>1
        <4> QED
          BY <1>5, <3>1, <4>1 DEF Opened, TypeInv
      <3>2. CASE m \notin ReadModes
        <4>1. content = None /\ m \in Std!EmptyModes
          BY <1>3, <1>5, <3>2
        <4> QED
          BY <1>5, <3>2, <4>1, EmptyContent DEF Opened
      <3> QED
        BY <3>1, <3>2
    <2>2. stream' # None /\ stream'.name = n /\ stream'.pos = 0
      <3>1. stream' \in [name : Names, pos : Nat, eof : {0, 1}]
        BY <2>1
      <3> QED
        BY <2>1, <3>1, NoneAssumption
    <2>3. StdStream' = [name |-> n, pos |-> 0, eof |-> FALSE]
      <3>1. StdStream' = [name |-> n, pos |-> 0, eof |-> ended' = 1]
        BY <2>2 DEF StdStream
      <3>2. (ended' = 1) = FALSE
        BY <1>1
      <3> QED
        BY <3>1, <3>2, Zenon
    <2> QED
      BY <1>1, <1>5, <2>1, <2>3 DEF Std!Open, Std!Gave, StdStream
  <1> QED
    BY <1>2, <1>4, <1>5, OpenDoes

\* Closing, flushing, asking for the position, the end or a file, and removing one.
LEMMA PlainRefine ==
  ASSUME TypeInv, SavedInv, EndInv
  PROVE  /\ sd_fclose => Std!CloseStream
         /\ sd_fflush => Std!Flush
         /\ sd_ftell => Std!Tell
         /\ EofRule /\ sd_feof => Std!EndOfFile
         /\ \A n \in Names : /\ sd_remove(n) => Std!Remove(n)
                             /\ SD_File_Exists(n) => Std!Exists(n)
  <1>1. ASSUME sd_fclose PROVE Std!CloseStream
    BY <1>1, StdStreamIs DEF sd_fclose, Returns, Gave, Std!CloseStream, Std!Gave, StdStream
  <1>2. ASSUME sd_fflush PROVE Std!Flush
    BY <1>2, StdStreamIs DEF sd_fflush, history, Returns, Gave, Std!Flush, Std!Gave, StdStream
  <1>3. ASSUME sd_ftell PROVE Std!Tell
    BY <1>3, StdStreamIs DEF sd_ftell, history, Returns, Gave, Std!Tell, Std!Gave, StdStream
  <1>4. ASSUME EofRule, sd_feof PROVE Std!EndOfFile
    <2>1. /\ stream # None /\ UNCHANGED <<card, saved, stream, ended>> /\ call' = <<"feof">>
          /\ out' = [ret |-> IF stream.eof = 1 THEN -1 ELSE 0, data |-> <<>>]
      BY <1>4 DEF sd_feof, history, Returns, Gave
    <2>2. StdStream' = StdStream /\ StdStream # None /\ (StdStream.eof <=> stream.eof = 1)
      BY <1>4, <2>1, StdStreamIs DEF StdStream, EndInv, EofRule
    <2>3. IF StdStream.eof THEN out'.ret # 0 /\ out'.data = <<>>
                           ELSE out' = [ret |-> 0, data |-> <<>>]
      BY <2>1, <2>2
    <2> QED
      BY <2>1, <2>2, <2>3 DEF Std!EndOfFile, Std!Fails, Std!Gave, StdStream
  <1>5. ASSUME NEW n \in Names, sd_remove(n) PROVE Std!Remove(n)
    BY <1>5 DEF sd_remove, SetCard, Returns, Gave, Std!Remove, Std!Gave
  <1>6. ASSUME NEW n \in Names, SD_File_Exists(n) PROVE Std!Exists(n)
    BY <1>6 DEF SD_File_Exists, history, Returns, Gave, Std!Exists, Std!Gave
  <1> QED
    BY <1>1, <1>2, <1>3, <1>4, <1>5, <1>6

\* A stream at a new position is that stream of stdio.
LEMMA StdMoved ==
  ASSUME TypeInv, stream # None, NEW pos \in Nat, NEW eof \in {0, 1},
         stream' = [name |-> stream.name, pos |-> pos, eof |-> eof]
  PROVE  StdStream' = [name |-> stream.name, pos |-> pos, eof |-> ended' = 1]
  <1>1. stream.name \in Names
    BY StreamIs
  <1>2. stream' \in [name : Names, pos : Nat, eof : {0, 1}]
    BY <1>1
  <1>3. stream' # None /\ stream'.name = stream.name /\ stream'.pos = pos
    BY <1>2, NoneAssumption
  <1> QED
    BY <1>3 DEF StdStream

\* The whole elements that are there are read and counted, or the count shows that the
\* read has failed.
LEMMA ReadRefines ==
  ASSUME TypeInv, EndInv, ShimRules, NEW size \in Sizes, NEW count \in Counts,
         sd_fread(size, count)
  PROVE  Std!Read(size, count) \/ Std!ReadFails(size, count)
  <1> DEFINE left == Len(Content) - stream.pos
             got == IF size * count <= left THEN size * count ELSE left
  <1>1. stream # None /\ UNCHANGED <<card, saved>> /\ call' = <<"fread", size, count>>
    BY ReadDoes DEF sd_fread
  <1>2. /\ size \in Nat \ {0} /\ count \in Nat /\ Word \in Nat /\ MaxSize < Word
        /\ MaxSize \in Nat /\ stream.eof \in {0, 1} /\ ended \in {0, 1} /\ size * count \in Nat
    BY <1>1, StreamIs, SDFileAssumption DEF EndInv
  <1>3. CASE UNCHANGED <<stream, ended, stale>> /\ out' = [ret |-> Elements(-1, size), data |-> <<>>]
    <2>1. (-1) % Word = Word - 1
      BY <1>2, SMT
    <2>2. out'.ret = (Word - 1) \div size
      BY <1>3, <2>1 DEF Elements
    <2>3. out'.ret # count /\ out'.data = <<>>
      BY <1>3, <2>2 DEF ShimRules
    <2>4. StdStream' = StdStream /\ StdStream # None
      BY <1>1, <1>3, StdStreamIs DEF StdStream
    <2> QED
      BY <1>1, <2>3, <2>4 DEF Std!ReadFails, StdStream
  <1>4. CASE /\ got \in 0 .. MaxSize /\ stream.pos + got \in 0 .. Len(Content)
             /\ out' = [ret |-> Elements(got, size),
                        data |-> SubSeq(Content, stream.pos + 1, stream.pos + got)]
             /\ stream' = [name |-> stream.name, pos |-> stream.pos + got,
                           eof |-> IF got < size * count THEN 1 ELSE stream.eof]
             /\ IF got < size * count THEN ended' = 1 /\ stale' = 0
                  ELSE UNCHANGED <<ended, stale>>
    <2>1. Elements(got, size) = got \div size
      <3>1. got \in Nat /\ got < Word
        BY <1>2, <1>4
      <3> HIDE DEF got
      <3>2. got % Word = got
        BY <1>2, <3>1, SMT
      <3> QED
        BY <3>2 DEF Elements
    <2>2. /\ StdStream # None /\ StdStream.pos = stream.pos /\ StdStream.name = stream.name
          /\ (StdStream.eof <=> ended = 1) /\ Std!Content = Content
      BY <1>1, StdStreamIs
    <2>3. StdStream' = [name |-> stream.name, pos |-> stream.pos + got, eof |-> ended' = 1]
      <3> DEFINE e == IF got < size * count THEN 1 ELSE stream.eof
      <3>1. stream.pos + got \in Nat /\ e \in {0, 1}
        BY <1>1, <1>2, <1>4, StreamIs, SDFileAssumption
      <3> HIDE DEF got, e
      <3>2. stream' = [name |-> stream.name, pos |-> stream.pos + got, eof |-> e]
        BY <1>4 DEF e
      <3> QED
        BY <1>1, <3>1, <3>2, StdMoved
    <2>4. Std!MoveTo(stream.pos + got, StdStream.eof \/ got < size * count)
      <3> HIDE DEF got
      <3>1. (ended' = 1) = (StdStream.eof \/ got < size * count)
        BY <1>2, <1>4, <2>2
      <3>2. StdStream' = [name |-> StdStream.name, pos |-> stream.pos + got,
                          eof |-> (StdStream.eof \/ got < size * count)]
        BY <2>2, <2>3, <3>1, Zenon
      <3> QED
        BY <3>2 DEF Std!MoveTo, StdStream
    <2> QED
      BY <1>1, <1>4, <2>1, <2>2, <2>4 DEF Std!Read, Std!Gave, StdStream
  <1> QED
    BY <1>3, <1>4, ReadDoes

\* An element is written whole, or the start of it.
LEMMA WriteRefines ==
  ASSUME TypeInv, EndInv, ShimRules, NEW size \in Sizes, NEW count \in WriteCounts,
         NEW data \in [1 .. size * count -> Bytes], sd_fwrite(data, size, count)
  PROVE  Std!Write(data, size, count)
  <1>1. /\ stream # None /\ UNCHANGED saved /\ count = 1 /\ size \in Nat \ {0}
        /\ call' = <<"fwrite", data, size, count>> /\ ended' = ended
    BY WriteDoes, SDFileAssumption DEF ShimRules, sd_fwrite, history
  <1>2. /\ SubSeq(data, 1, size) = data /\ data \in [1 .. size -> Bytes]
        /\ data \in Seq(Bytes) /\ Len(data) = size
    BY <1>1, FirstElement
  <1>3. PICK done \in 0 .. count, k \in 0 .. size - 1, written \in Seq(Bytes) :
          /\ done = count => k = 0
          /\ written = Repeated(SubSeq(data, 1, size), done, k)
          /\ stream.pos + Len(written) \in 0 .. MaxSize
          /\ card' = [card EXCEPT ![stream.name] = Put(Content, stream.pos, written)]
          /\ stream' = [name |-> stream.name, pos |-> stream.pos + Len(written),
                        eof |-> stream.eof]
          /\ out' = [ret |-> done, data |-> <<>>]
    BY WriteDoes
  <1>4. /\ StdStream # None /\ StdStream.pos = stream.pos /\ StdStream.name = stream.name
        /\ StdStream = [name |-> stream.name, pos |-> stream.pos, eof |-> ended = 1]
        /\ Std!Content = Content
    BY <1>1, StdStreamIs
  <1>5. StdStream' = [StdStream EXCEPT !.pos = @ + Len(written)]
    <2>1. stream.pos + Len(written) \in Nat /\ stream.eof \in {0, 1}
      BY <1>1, <1>3, StreamIs, SDFileAssumption
    <2>2. StdStream' = [name |-> stream.name, pos |-> stream.pos + Len(written),
                        eof |-> ended = 1]
      BY <1>1, <1>3, <2>1, StdMoved
    <2> QED
      BY <1>4, <2>2
  <1>6. card' = [card EXCEPT ![stream.name] = Std!Put(written)]
    <2>1. Std!Put(written) = Put(Content, stream.pos, written)
      BY <1>4 DEF Std!Put, Put, StdStream
    <2> QED
      BY <1>3, <2>1
  <1>7. written = SubSeq(data, 1, done * size + k) /\ Len(written) = done * size + k
    <2>1. \/ done = 1 /\ k = 0 /\ done * size + k = size
          \/ done = 0 /\ done * size + k = k
      BY <1>1, <1>3
    <2>2. done * size + k \in 0 .. size
      BY <1>1, <1>3, <2>1
    <2> DEFINE n == done * size + k
    <2>0. \A x, y \in Nat : x < y => x % y = x
      BY SMT
    <2>3. n \in Nat /\ \A i \in 1 .. n : i \in 1 .. size /\ ((i - 1) % size) + 1 = i
      <3>1. n \in 0 .. size
        BY <2>2
      <3> HIDE DEF n
      <3>2. ASSUME NEW i \in 1 .. n PROVE i \in 1 .. size /\ ((i - 1) % size) + 1 = i
        <4>1. i - 1 \in Nat /\ size \in Nat /\ i - 1 < size /\ i \in 1 .. size
          BY <1>1, <3>1
        <4>2. (i - 1) % size = i - 1
          BY ONLY <2>0, <4>1
        <4> QED
          BY <4>1, <4>2
      <3> QED
        BY <1>1, <3>1, <3>2
    <2>4. written = [i \in 1 .. n |-> data[((i - 1) % size) + 1]]
      BY <1>2, <1>3 DEF Repeated
    <2> HIDE DEF n
    <2>5. Len(written) = n /\ \A i \in 1 .. n : written[i] = data[i]
      BY <2>3, <2>4
    <2>6. /\ SubSeq(data, 1, n) \in Seq(Bytes) /\ Len(SubSeq(data, 1, n)) = n
          /\ \A i \in 1 .. n : SubSeq(data, 1, n)[i] = data[i]
      <3>1. \A i \in 1 .. n : data[i] \in Bytes
        BY <1>2, <2>3
      <3> QED
        BY <2>3, <3>1, SubSeqProperties
    <2>7. written = SubSeq(data, 1, n)
      BY <1>3, <2>5, <2>6, SeqEqual
    <2> QED
      BY <2>5, <2>7 DEF n
  <1>8. /\ card' = [card EXCEPT ![StdStream.name] = Std!Put(SubSeq(data, 1, done * size + k))]
        /\ StdStream' = [StdStream EXCEPT !.pos = @ + (done * size + k)]
    BY <1>4, <1>5, <1>6, <1>7
  <1> QED
    BY <1>1, <1>3, <1>4, <1>8 DEF Std!Write, Std!Gave, StdStream

\* A stream that arrives at a position in the file.
LEMMA ArrivesRefines ==
  ASSUME TypeInv, EndInv, stream # None, NEW pos \in 0 .. Len(Content), NEW eof \in {0, 1},
         stream' = [name |-> stream.name, pos |-> pos, eof |-> eof], ended' = 0,
         out' = [ret |-> 0, data |-> <<>>]
  PROVE  Std!Arrives(pos)
  <1>1. StdStream.name = stream.name /\ Std!Content = Content /\ pos \in Nat
    BY StdStreamIs, StreamIs, SDFileAssumption
  <1>2. StdStream' = [name |-> stream.name, pos |-> pos, eof |-> ended' = 1]
    BY <1>1, StdMoved
  <1>3. (ended' = 1) = FALSE
    OBVIOUS
  <1>4. StdStream' = [name |-> StdStream.name, pos |-> pos, eof |-> FALSE]
    BY <1>1, <1>2, <1>3, Zenon
  <1> QED
    BY <1>1, <1>4 DEF Std!Arrives, Std!MoveTo, Std!Gave, StdStream

\* A stream that stays because its target is not in the file.
LEMMA RefusedRefines ==
  ASSUME TypeInv, EndInv, stream # None, NEW pos, pos \notin 0 .. Len(Content),
         NEW eof \in {0, 1}, ended' = ended,
         stream' = [name |-> stream.name, pos |-> stream.pos, eof |-> eof],
         out'.ret # 0, out'.data = <<>>
  PROVE  Std!Arrives(pos)
  <1>1. /\ StdStream = [name |-> stream.name, pos |-> stream.pos, eof |-> ended = 1]
        /\ Std!Content = Content /\ stream.pos \in Nat
    BY StdStreamIs, StreamIs, SDFileAssumption
  <1>2. StdStream' = [name |-> stream.name, pos |-> stream.pos, eof |-> ended' = 1]
    BY <1>1, StdMoved
  <1>3. StdStream' = StdStream
    BY <1>1, <1>2, Zenon
  <1> QED
    BY <1>1, <1>3 DEF Std!Arrives, Std!Fails, StdStream

\* A seek arrives where it was sent, exactly when this is in the file.
LEMMA SeekRefines ==
  ASSUME TypeInv, EndInv, NEW offset \in Offsets,
         NEW whence \in {"SEEK_SET", "SEEK_CUR", "SEEK_END"}, sd_fseek(offset, whence)
  PROVE  Std!Seek(offset, whence)
  <1>1. stream # None /\ UNCHANGED <<card, saved>> /\ call' = <<"fseek", offset, whence>>
    BY SeekDoes DEF sd_fseek
  <1>2. StdStream # None /\ Std!Base(whence) = From(whence)
    BY <1>1, StdStreamIs DEF Std!Base, From, StdStream
  <1>3. ASSUME NEW target \in 0 .. Len(Content), out' = [ret |-> 0, data |-> <<>>], ended' = 0,
               stream' = [name |-> stream.name, pos |-> target, eof |-> 0]
        PROVE  Std!Arrives(target)
    <2>1. PICK eof \in {0, 1} : eof = 0
      OBVIOUS
    <2>2. stream' = [name |-> stream.name, pos |-> target, eof |-> eof]
      BY <1>3, <2>1
    <2> QED
      BY <1>1, <1>3, <2>2, ArrivesRefines
  <1>4. ASSUME NEW target, NEW eof \in {0, 1}, target \notin 0 .. Len(Content),
               out'.ret # 0, out'.data = <<>>, ended' = ended,
               stream' = [name |-> stream.name, pos |-> stream.pos, eof |-> eof]
        PROVE  Std!Arrives(target)
    BY <1>1, <1>4, RefusedRefines
  <1>5. Std!Arrives(From(whence) + offset)
    BY <1>3, <1>4, SeekDoes
  <1> QED
    BY <1>1, <1>2, <1>5 DEF Std!Seek, StdStream

\* A position in the file is taken, one beyond it is refused.
LEMMA SetPosRefines ==
  ASSUME TypeInv, EndInv, NEW pos \in Offsets \cap Nat, sd_fsetpos(pos)
  PROVE  Std!SetPos(pos)
  <1>1. /\ stream # None /\ UNCHANGED <<card, saved>> /\ call' = <<"fsetpos", pos>>
        /\ stream.eof \in {0, 1} /\ Len(Content) \in Nat
        /\ stream = [name |-> stream.name, pos |-> stream.pos, eof |-> stream.eof]
    BY SetPosDoes, StreamIs, SDFileAssumption DEF sd_fsetpos
  <1>2. StdStream # None
    BY <1>1, StdStreamIs
  <1>3. Std!Arrives(pos)
    <2>1. CASE /\ pos \in 0 .. Len(Content) /\ out' = [ret |-> 0, data |-> <<>>] /\ ended' = 0
               /\ stream' = [name |-> stream.name, pos |-> pos, eof |-> stream.eof]
      BY <1>1, <2>1, ArrivesRefines
    <2>2. CASE /\ pos > Len(Content) /\ out'.ret # 0 /\ out'.data = <<>>
               /\ UNCHANGED <<stream, ended, stale>>
      <3>1. pos \notin 0 .. Len(Content)
        BY <1>1, <2>2
      <3>2. stream' = [name |-> stream.name, pos |-> stream.pos, eof |-> stream.eof]
        BY <1>1, <2>2
      <3> QED
        BY <1>1, <2>2, <3>1, <3>2, RefusedRefines
    <2> QED
      BY <2>1, <2>2, SetPosDoes
  <1> QED
    BY <1>1, <1>2, <1>3 DEF Std!SetPos, StdStream

\* Rewinding arrives at the start.
LEMMA RewindRefines ==
  ASSUME TypeInv, EndInv, sd_rewind
  PROVE  Std!Rewind
  <1>1. /\ stream # None /\ UNCHANGED <<card, saved>> /\ out' = [ret |-> 0, data |-> <<>>]
        /\ 0 \in 0 .. Len(Content) /\ ended' = 0 /\ call' = <<"rewind">>
        /\ stream' = [name |-> stream.name, pos |-> 0, eof |-> 0]
    BY RewindDoes DEF sd_rewind
  <1>2. StdStream # None
    BY <1>1, StdStreamIs
  <1>3. Std!Arrives(0)
    BY <1>1, ArrivesRefines
  <1> QED
    BY <1>1, <1>2, <1>3 DEF Std!Rewind, StdStream

\* Of every file there is what was safe, and beyond it what was written.
LEMMA PowerRefines ==
  ASSUME TypeInv, SavedInv, PowerFailure
  PROVE  Std!PowerFailure
  <1> DEFINE Left(n) ==
        \/ card'[n] = None /\ saved[n] = None
        \/ /\ saved[n] # None /\ card'[n] # None /\ Len(card'[n]) >= Len(saved[n])
           /\ \A k \in 1 .. Len(card'[n]) :
                \/ k <= Len(card[n]) /\ card'[n][k] = card[n][k]
                \/ k <= Len(saved[n]) /\ card'[n][k] = saved[n][k]
  <1>1. /\ stream' = None /\ saved' = card' /\ call' = <<"begin">>
        /\ out' = [ret |-> 1, data |-> <<>>]
    BY PowerDoes DEF PowerFailure, Returns, Gave
  <1>2. ASSUME NEW n \in Names, card'[n] = card[n], saved[n] = card[n]
        PROVE  Left(n)
    <2>1. CASE card[n] = None
      BY <1>2, <2>1
    <2>2. CASE card[n] # None
      <3>1. card[n] \in Contents
        BY <2>2 DEF TypeInv
      <3>2. Len(card[n]) \in Nat
        BY <3>1, ContentIs, SDFileAssumption
      <3> QED
        BY <1>2, <2>2, <3>2
    <2> QED
      BY <2>1, <2>2
  <1>3. CASE stream = None /\ card' = card
    <2>1. \A n \in Names : Left(n)
      BY <1>2, <1>3 DEF SavedInv
    <2> QED
      BY <1>1, <2>1 DEF Std!PowerFailure, Std!Gave
  <1>4. ASSUME stream # None, NEW rest \in Contents,
               card' = [card EXCEPT ![stream.name] = rest],
               Len(saved[stream.name]) <= Len(rest),
               \A k \in 1 .. Len(rest) :
                 \/ k <= Len(Content) /\ rest[k] = Content[k]
                 \/ k <= Len(saved[stream.name]) /\ rest[k] = saved[stream.name][k]
        PROVE  Std!PowerFailure
    <2>1. ASSUME NEW n \in Names, n # stream.name PROVE Left(n)
      <3>1. card'[n] = card[n] /\ saved[n] = card[n]
        BY <1>4, <2>1 DEF TypeInv, SavedInv
      <3> QED
        BY <1>2, <3>1
    <2>2. Left(stream.name)
      <3>1. /\ card'[stream.name] = rest /\ rest # None /\ saved[stream.name] # None
            /\ saved[stream.name] \in Contents
        BY <1>4, StreamIs, NoneAssumption DEF TypeInv, SavedInv
      <3>2. Len(rest) \in Nat /\ Len(saved[stream.name]) \in Nat
        BY <3>1, ContentIs, SDFileAssumption
      <3> QED
        BY <1>4, <3>1, <3>2 DEF Content
    <2>3. \A n \in Names : Left(n)
      BY <2>1, <2>2
    <2> QED
      BY <1>1, <2>3 DEF Std!PowerFailure, Std!Gave
  <1> QED
    BY <1>3, <1>4, PowerDoes

\* Under the rules for its callers the shim is a stdio: each of its calls gives what that
\* call of stdio with these arguments gives.  What is written is what is read, a seek
\* arrives where it was sent exactly if this is in the file, feof tells whether a read has
\* reached the end, no count is that of a read that failed, and what was written before a
\* flush or a close survives a power failure.
THEOREM ShimIsStdio == ShimRules => (Spec => ImplementsStdio)
  <1> SUFFICES ASSUME ShimRules PROVE Spec => ImplementsStdio
    OBVIOUS
  <1>1. Init => Std!Init
    BY DEF Init, Std!Init
  <1>2. ASSUME TypeInv, SavedInv, EndInv, [Next]_vars
        PROVE  [Std!Next]_(Std!svars)
    <2>1. CASE UNCHANGED vars
      BY <2>1 DEF vars, Std!svars
    <2>2. ASSUME NEW n \in Names, NEW m \in Modes, sd_fopen(n, m) PROVE Std!Next
      BY <1>2, <2>2, OpenRefines DEF Std!Next
    <2>3. ASSUME NEW n \in Names, sd_remove(n) \/ SD_File_Exists(n) PROVE Std!Next
      BY <1>2, <2>3, PlainRefine DEF Std!Next
    <2>4. CASE sd_fclose \/ sd_fflush \/ sd_ftell \/ (EofRule /\ sd_feof)
      BY <1>2, <2>4, PlainRefine DEF Std!Next
    <2>5. CASE PowerFailure
      BY <1>2, <2>5, PowerRefines DEF Std!Next
    <2>6. ASSUME NEW size \in Sizes, NEW count \in Counts, sd_fread(size, count) PROVE Std!Next
      BY <1>2, <2>6, ReadRefines DEF Std!Next
    <2>7. ASSUME NEW size \in Sizes, NEW count \in WriteCounts,
                 NEW data \in [1 .. size * count -> Bytes], sd_fwrite(data, size, count)
          PROVE  Std!Next
      BY <1>2, <2>7, WriteRefines DEF Std!Next, Std!Blocks
    <2>8. ASSUME NEW pos \in Offsets \cap Nat, sd_fsetpos(pos) PROVE Std!Next
      BY <1>2, <2>8, SetPosRefines DEF Std!Next
    <2>9. ASSUME NEW offset \in Offsets,
                 NEW whence \in {"SEEK_SET", "SEEK_CUR", "SEEK_END"}, sd_fseek(offset, whence)
          PROVE  Std!Next
      BY <1>2, <2>9, SeekRefines DEF Std!Next
    <2>10. CASE sd_rewind
      BY <1>2, <2>10, RewindRefines DEF Std!Next
    <2> QED
      BY <1>2, <2>1, <2>2, <2>3, <2>4, <2>5, <2>6, <2>7, <2>8, <2>9, <2>10 DEF Next
  <1> QED
    BY <1>1, <1>2, SpecInv, PTL DEF Spec, ImplementsStdio, Std!Spec
==============================================================================
