----------------------------- MODULE MpVfs_proof -----------------------------
(***************************************************************************)
(* The methods of mpvfs implement the store SQLite counts on, and answer   *)
(* the truth, for any number of files, any width of an int and contents of *)
(* any length.                                                             *)
(***************************************************************************)
EXTENDS MpVfs, SequenceTheorems, TLAPS

\* SQLite deletes no file it has open.
OpenFilesExist == \A f \in File : IsOpen(f) => Exists(file[f].path)

\* A file that is gone does not come back when power is lost.
GoneForGood == \A p \in Path : ~ Exists(p) => media[p] = NoFile

\* No write that succeeds makes a file so long that its size, in an int, looks
\* like that of a short one.
Contents == {c \in Seq(Cell) : Len(c) < 2 * IntLimit}

SizesShow ==
    /\ disk \in [Path -> {NoFile} \cup Contents]
    /\ media \in [Path -> {NoFile} \cup Contents]

\* The type invariant, the directory listings left aside.
FilesTypeOK ==
    /\ StoreTypeOK
    /\ file \in [File -> {Closed} \cup Streams]
    /\ out.rc \in {"OK", "ERROR", "SHORT_READ", "IOERR_WRITE", "raised"}

IInv == FilesTypeOK /\ OpenFilesExist /\ GoneForGood /\ SizesShow

-----------------------------------------------------------------------------
(* Integers *)

\* An int holds what is put into it modulo its range,
LEMMA Int32Range == \A x \in Int : Int32(x) \in -IntLimit .. IntLimit - 1
<1> SUFFICES ASSUME NEW x \in Int PROVE Int32(x) \in -IntLimit .. IntLimit - 1
  OBVIOUS
<1> DEFINE w == 2 * IntLimit
<1>1. w \in Nat /\ w > 0
  BY IntLimitIsPositive
<1>2. x + IntLimit \in Int
  BY IntLimitIsPositive
<1> HIDE DEF w
<1>3. (x + IntLimit) % w \in 0 .. w - 1
  BY <1>1, <1>2
<1>. QED
  BY <1>3, IntLimitIsPositive DEF Int32, w

\* and what fits is not changed.
LEMMA SmallMod == \A w \in Nat \ {0} : \A y \in 0 .. w - 1 : y % w = y
<1> SUFFICES ASSUME NEW w \in Nat \ {0}, NEW y \in 0 .. w - 1 PROVE y % w = y
  OBVIOUS
<1>1. y = w * (y \div w) + (y % w) /\ y % w \in 0 .. w - 1 /\ y \div w \in Int
  OBVIOUS
<1>2. CASE y \div w >= 1
  BY <1>1, <1>2
<1>3. CASE y \div w <= -1
  BY <1>1, <1>3
<1>4. CASE y \div w = 0
  BY <1>1, <1>4
<1>. QED
  BY <1>1, <1>2, <1>3, <1>4

LEMMA ModOfSum == \A w \in Nat \ {0} : \A y \in 0 .. w - 1 : (y + w) % w = y
<1> SUFFICES ASSUME NEW w \in Nat \ {0}, NEW y \in 0 .. w - 1 PROVE (y + w) % w = y
  OBVIOUS
<1> DEFINE d == (y + w) \div w
<1>1. y + w = w * d + ((y + w) % w) /\ (y + w) % w \in 0 .. w - 1 /\ d \in Int
  OBVIOUS
<1> HIDE DEF d
<1>2. CASE d >= 2
  BY <1>1, <1>2
<1>3. CASE d <= 0
  BY <1>1, <1>3
<1>4. CASE d = 1
  BY <1>1, <1>4
<1>. QED
  BY <1>1, <1>2, <1>3, <1>4

LEMMA Int32Fits == \A x \in -IntLimit .. IntLimit - 1 : Int32(x) = x
<1> SUFFICES ASSUME NEW x \in -IntLimit .. IntLimit - 1 PROVE Int32(x) = x
  OBVIOUS
<1>1. 2 * IntLimit \in Nat \ {0} /\ x + IntLimit \in 0 .. 2 * IntLimit - 1
  BY IntLimitIsPositive
<1>2. (x + IntLimit) % (2 * IntLimit) = x + IntLimit
  BY <1>1, SmallMod
<1>. QED
  BY <1>2, IntLimitIsPositive DEF Int32

\* A seek that returns what was asked for went there; no seek leaves the
\* position negative.
LEMMA SeekSetGoesThere ==
  ASSUME NEW f \in File, file[f].pos \in Nat,
         NEW off \in Nat, NEW s \in SeekSet(f, off)
  PROVE  s.pos \in Nat /\ (s.ret = off => s.pos = off /\ off < IntLimit)
<1> DEFINE t == Int32(off)
<1>1. t \in Int /\ t < IntLimit /\ Int32(t) = t
  BY Int32Range, Int32Fits, IntLimitIsPositive
<1> HIDE DEF t
<1>2. s \in SeekTo(file[f].pos, t)
  BY DEF SeekSet, t
<1>3. CASE s = [ret |-> -1, pos |-> file[f].pos]
  BY <1>3
<1>4. CASE t >= 0 /\ s = [ret |-> Int32(t), pos |-> t]
  BY <1>1, <1>4
<1>. QED
  BY <1>1, <1>2, <1>3, <1>4 DEF SeekTo

\* A seek leaves a position, and what it returns is an int.
LEMMA SeekToPos ==
  ASSUME NEW pos \in Nat, NEW target \in Int, NEW s \in SeekTo(pos, target)
  PROVE  s.pos \in Nat /\ s.ret \in Int
<1>1. CASE s = [ret |-> -1, pos |-> pos]
  BY <1>1
<1>2. CASE target >= 0 /\ s = [ret |-> Int32(target), pos |-> target]
  BY <1>2, Int32Range, IntLimitIsPositive
<1>. QED
  BY <1>1, <1>2 DEF SeekTo

-----------------------------------------------------------------------------
(* Contents *)

LEMMA AtIsACell == ASSUME NEW c \in Seq(Cell), NEW i PROVE At(c, i) \in Cell
  BY ZeroIsACell, ElementOfSeq DEF At

LEMMA WrittenIsAContent ==
  ASSUME NEW c \in Contents, NEW off \in Nat, NEW cells \in Seq(Cell),
         off + Len(cells) < 2 * IntLimit
  PROVE  Written(c, off, cells) \in Contents
<1> DEFINE n == IF Len(c) > off + Len(cells) THEN Len(c) ELSE off + Len(cells)
           v(i) == IF i \in off + 1 .. off + Len(cells) THEN cells[i - off] ELSE At(c, i)
<1>1. n \in Nat /\ n < 2 * IntLimit /\ c \in Seq(Cell)
  BY LenProperties DEF Contents
<1>2. \A i \in 1 .. n : v(i) \in Cell
  <2> SUFFICES ASSUME NEW i \in 1 .. n PROVE v(i) \in Cell
    OBVIOUS
  <2>1. CASE i \in off + 1 .. off + Len(cells)
    <3>1. i - off \in 1 .. Len(cells)
      BY <2>1, LenProperties
    <3>. QED
      BY <2>1, <3>1, ElementOfSeq
  <2>2. CASE i \notin off + 1 .. off + Len(cells)
    BY <1>1, <2>2, AtIsACell
  <2>. QED
    BY <2>1, <2>2
<1>3. [i \in 1 .. n |-> v(i)] \in [1 .. n -> Cell]
  BY <1>2
<1>4. Written(c, off, cells) = [i \in 1 .. n |-> v(i)]
  BY DEF Written
<1> HIDE DEF n, v
<1>5. Written(c, off, cells) \in Seq(Cell)
  BY <1>1, <1>3, <1>4, SeqDef
<1>6. Len(Written(c, off, cells)) = n
  BY <1>1, <1>4, <1>5, LenProperties
<1>. QED
  BY <1>1, <1>5, <1>6 DEF Contents

LEMMA MixIsAContent ==
  ASSUME NEW a \in Contents, NEW b \in Contents, NEW m \in Mixes(a, b)
  PROVE  m \in Contents
<1>1. PICK n \in {Len(a), Len(b)} :
        m \in {[i \in 1 .. n |-> IF i \in S THEN At(b, i) ELSE At(a, i)] :
                 S \in SUBSET {i \in 1 .. n : At(a, i) # At(b, i)}}
  BY DEF Mixes
<1>2. n \in Nat /\ n < 2 * IntLimit
  BY LenProperties DEF Contents
<1>3. m \in [1 .. n -> Cell]
  BY <1>1, AtIsACell DEF Contents
<1>4. m \in Seq(Cell)
  BY <1>2, <1>3, SeqDef
<1>5. Len(m) = n
  BY <1>2, <1>3, <1>4, LenProperties
<1>. QED
  BY <1>2, <1>4, <1>5 DEF Contents

LEMMA EmptyIsAContent == << >> \in Contents
  BY EmptySeq, IntLimitIsPositive DEF Contents

\* What a loss of power leaves of a content is a content.
LEMMA SurvivorIsAContent ==
  ASSUME SizesShow, GoneForGood, NEW p \in Path, NEW c \in Survivors(p)
  PROVE  c \in {NoFile} \cup Contents
<1>1. disk[p] \in {NoFile} \cup Contents /\ media[p] \in {NoFile} \cup Contents
  BY DEF SizesShow
<1>2. CASE disk[p] = media[p]
  BY <1>1, <1>2 DEF Survivors
<1>3. CASE disk[p] # media[p] /\ media[p] = NoFile
  <2>1. c \in {NoFile} \cup Mixes(<< >>, disk[p]) /\ disk[p] \in Contents
    BY <1>1, <1>3 DEF Survivors
  <2>. QED
    BY <2>1, MixIsAContent, EmptyIsAContent
<1>4. CASE disk[p] # media[p] /\ media[p] # NoFile
  <2>1. c \in Mixes(media[p], disk[p]) /\ media[p] \in Contents
    BY <1>1, <1>4 DEF Survivors
  <2>2. disk[p] \in Contents
    BY <1>1, <1>4 DEF GoneForGood, Exists
  <2>. QED
    BY <2>1, <2>2, MixIsAContent
<1>. QED
  BY <1>2, <1>3, <1>4

-----------------------------------------------------------------------------
(* Steps *)

LEMMA InitIInv == Init => IInv
<1> SUFFICES ASSUME Init PROVE IInv
  OBVIOUS
<1>1. StoreTypeOK
  BY BlocksAreCells DEF Init, StoreInit, StoreTypeOK
<1>2. file \in [File -> {Closed} \cup Streams]
  BY DEF Init
<1>3. FilesTypeOK
  BY <1>1, <1>2 DEF Init, FilesTypeOK
<1>4. OpenFilesExist
  BY DEF Init, OpenFilesExist, IsOpen, Closed
<1>5. GoneForGood
  BY DEF Init, StoreInit, GoneForGood, Exists
<1>6. SizesShow
  <2>1. Block \subseteq Contents
    <3> SUFFICES ASSUME NEW cells \in Block PROVE cells \in Contents
      OBVIOUS
    <3>1. cells \in Seq(Cell) /\ Len(cells) <= IntLimit /\ Len(cells) \in Nat
      BY BlocksAreCells, BlocksFitInts, LenProperties
    <3>. QED
      BY <3>1, IntLimitIsPositive DEF Contents
  <2>. QED
    BY <2>1 DEF Init, StoreInit, SizesShow
<1>. QED
  BY <1>3, <1>4, <1>5, <1>6 DEF IInv

\* An open MPFILE has a stream on a file that exists.
LEMMA OpenFile ==
  ASSUME IInv, NEW f \in File, IsOpen(f)
  PROVE  /\ file[f] \in Streams
         /\ file[f].path \in Path /\ file[f].pos \in Nat
         /\ Exists(file[f].path) /\ Content(f) \in Contents
<1>1. file[f] \in Streams
  BY DEF IInv, FilesTypeOK, IsOpen, Closed
<1>2. file[f].path \in Path /\ file[f].pos \in Nat
  BY <1>1 DEF Streams
<1>3. Exists(file[f].path)
  BY DEF IInv, OpenFilesExist
<1>. QED
  BY <1>1, <1>2, <1>3 DEF IInv, SizesShow, Exists, Content

\* A method that only moves the position of a stream.
LEMMA MovingKeeps ==
  ASSUME IInv, NEW f \in File, IsOpen(f), NEW pos \in Nat, MovedTo(f, pos)
  PROVE  /\ file' \in [File -> {Closed} \cup Streams]
         /\ \A g \in File : file'[g].stream = file[g].stream
                            /\ (IsOpen(g) => file'[g].path = file[g].path)
<1>1. file[f] \in Streams /\ file \in [File -> {Closed} \cup Streams]
  BY OpenFile DEF IInv, FilesTypeOK
<1>2. file' = [file EXCEPT ![f] = [file[f] EXCEPT !.pos = pos]]
  BY DEF MovedTo
<1>3. /\ [file[f] EXCEPT !.pos = pos] \in Streams
      /\ [file[f] EXCEPT !.pos = pos].stream = file[f].stream
      /\ [file[f] EXCEPT !.pos = pos].path = file[f].path
  BY <1>1 DEF Streams
<1>. QED
  BY <1>1, <1>2, <1>3

\* What every step has to show for IInv.
LEMMA Kept ==
  ASSUME IInv,
         file' \in [File -> {Closed} \cup Streams],
         SizesShow',
         out'.rc \in {"OK", "ERROR", "SHORT_READ", "IOERR_WRITE", "raised"},
         \A g \in File : IsOpen(g)' => Exists(file[g].path)',
         GoneForGood'
  PROVE  IInv'
<1>1. StoreTypeOK'
  BY DEF SizesShow, StoreTypeOK, Contents
<1>. QED
  BY <1>1 DEF IInv, FilesTypeOK, OpenFilesExist, IsOpen, Exists

\* A step that does no more than move a position keeps it.
LEMMA MovesOnly ==
  ASSUME IInv, NEW f \in File, IsOpen(f), NEW pos \in Nat, MovedTo(f, pos),
         UNCHANGED <<disk, media>>,
         out'.rc \in {"OK", "ERROR", "SHORT_READ", "IOERR_WRITE", "raised"}
  PROVE  IInv'
<1>1. /\ file' \in [File -> {Closed} \cup Streams]
      /\ \A g \in File : file'[g].stream = file[g].stream
                         /\ (IsOpen(g) => file'[g].path = file[g].path)
  BY MovingKeeps
<1>2. \A g \in File : IsOpen(g)' => Exists(file[g].path)'
  BY <1>1 DEF IInv, OpenFilesExist, IsOpen, Exists
<1>3. SizesShow' /\ GoneForGood'
  BY DEF IInv, SizesShow, GoneForGood, Exists
<1>. QED
  BY <1>1, <1>2, <1>3, Kept

-----------------------------------------------------------------------------
(* What the methods do *)

\* A part that has as many cells as were asked for,
LEMMA WholePart ==
  ASSUME NEW c \in Contents, NEW off \in Nat, NEW n \in Nat,
         n <= Len(Part(c, off, n))
  PROVE  /\ Part(c, off, n) \in Seq(Cell)
         /\ Len(Part(c, off, n)) = n
<1> DEFINE m == IF off + n < Len(c) THEN off + n ELSE Len(c)
<1>1. c \in Seq(Cell) /\ Len(c) \in Nat
  BY LenProperties DEF Contents
<1>2. m \in Int /\ m <= Len(c) /\ m <= off + n
  BY <1>1
<1>3. \A i \in off + 1 .. m : c[i] \in Cell
  BY <1>1, <1>2, ElementOfSeq
<1> HIDE DEF m
<1>4. /\ SubSeq(c, off + 1, m) \in Seq(Cell)
      /\ Len(SubSeq(c, off + 1, m)) = IF off + 1 <= m THEN m - (off + 1) + 1 ELSE 0
  BY <1>2, <1>3, SubSeqProperties
<1>5. Part(c, off, n) = SubSeq(c, off + 1, m)
  BY DEF Part, m
<1>. QED
  BY <1>2, <1>4, <1>5

\* and a buffer that it fills.
LEMMA FilledUp ==
  ASSUME NEW cells \in Seq(Cell)
  PROVE  Filled(cells, Len(cells)) = cells
<1>1. Len(cells) - Len(cells) = 0
  BY LenProperties
<1>2. [i \in 1 .. 0 |-> Junk] = << >>
  <2>1. [i \in 1 .. 0 |-> Junk] \in Seq({Junk})
    BY SeqDef
  <2>2. Len([i \in 1 .. 0 |-> Junk]) = 0
    BY <2>1, LenProperties
  <2>. QED
    BY <2>1, <2>2, EmptySeq
<1>. QED
  BY <1>1, <1>2, ConcatEmptySeq DEF Filled

\* A read moves the position and nothing else; when it succeeds the buffer has
\* what is at the offset.
LEMMA ReadEffect ==
  ASSUME IInv, NEW f \in File, NEW off \in Offset, NEW n \in Sizes, Read(f, off, n)
  PROVE  /\ IsOpen(f) /\ UNCHANGED <<disk, media>>
         /\ \E pos \in Nat : MovedTo(f, pos)
         /\ out'.call = "read"
         /\ out'.rc \in {"OK", "ERROR", "SHORT_READ"}
         /\ out'.rc = "OK" =>
              /\ out'.file = f /\ out'.off = off
              /\ out'.buf = Part(Content(f), off, Len(out'.buf))
<1>1. IsOpen(f) /\ UNCHANGED <<disk, media>>
  BY DEF Read
<1>2. file[f].pos \in Nat /\ off \in Nat /\ Content(f) \in Contents /\ n \in Nat
  BY <1>1, OpenFile, OffsetsAreNatural DEF Sizes
<1>3. PICK s \in SeekSet(f, off) :
        IF s.ret # off
        THEN /\ MovedTo(f, s.pos)
             /\ out' = [call |-> "read", file |-> f, off |-> off, rc |-> "ERROR",
                        buf |-> Filled(<< >>, n)]
        ELSE \E k \in 0 .. Len(Part(Content(f), s.pos, n)) :
                /\ MovedTo(f, s.pos + k)
                /\ out' = [call |-> "read", file |-> f, off |-> off,
                           rc |-> IF k = n THEN "OK" ELSE "SHORT_READ",
                           buf |-> Filled(Part(Content(f), s.pos, k), n)]
  BY DEF Read
<1>4. s.pos \in Nat /\ (s.ret = off => s.pos = off)
  BY <1>2, <1>3, SeekSetGoesThere
<1>5. CASE s.ret # off
  BY <1>1, <1>3, <1>4, <1>5
<1>6. CASE s.ret = off
  <2>1. PICK k \in 0 .. Len(Part(Content(f), off, n)) :
          /\ MovedTo(f, off + k)
          /\ out' = [call |-> "read", file |-> f, off |-> off,
                     rc |-> IF k = n THEN "OK" ELSE "SHORT_READ",
                     buf |-> Filled(Part(Content(f), off, k), n)]
    BY <1>3, <1>4, <1>6
  <2>2. off + k \in Nat
    BY <1>2
  <2>3. CASE k # n
    BY <1>1, <2>1, <2>2, <2>3
  <2>4. CASE k = n
    <3> DEFINE part == Part(Content(f), off, n)
    <3>1. part \in Seq(Cell) /\ Len(part) = n
      BY <1>2, <2>1, <2>4, WholePart
    <3> HIDE DEF part
    <3>2. Filled(part, n) = part
      BY <3>1, FilledUp
    <3>3. out' = [call |-> "read", file |-> f, off |-> off, rc |-> "OK", buf |-> part]
      BY <2>1, <2>4, <3>2 DEF part
    <3>4. out'.buf = part /\ Len(out'.buf) = n
      BY <3>1, <3>3
    <3>5. out'.buf = Part(Content(f), off, Len(out'.buf))
      BY <3>4 DEF part
    <3>. QED
      BY <1>1, <2>1, <2>2, <3>3, <3>5
  <2>. QED
    BY <2>3, <2>4
<1>. QED
  BY <1>5, <1>6

\* A write puts a prefix of the cells at the offset, or changes nothing.
LEMMA WriteEffect ==
  ASSUME IInv, NEW f \in File, NEW off \in Offset, NEW cells \in Block,
         WriteCells(f, off, cells)
  PROVE  /\ IsOpen(f) /\ UNCHANGED media
         /\ \E pos \in Nat : MovedTo(f, pos)
         /\ out'.call = "write" /\ out'.file = f /\ out'.off = off /\ out'.cells = cells
         /\ out'.rc \in {"OK", "ERROR", "IOERR_WRITE"}
         /\ \/ UNCHANGED disk
            \/ /\ off < IntLimit
               /\ \E k \in 1 .. Len(cells) :
                     disk' = [disk EXCEPT ![file[f].path] =
                                 Written(@, off, SubSeq(cells, 1, k))]
<1>1. IsOpen(f) /\ UNCHANGED media
  BY DEF WriteCells
<1>2. file[f].pos \in Nat /\ off \in Nat /\ Len(cells) \in Nat
  BY <1>1, OpenFile, OffsetsAreNatural, BlocksAreCells, LenProperties
<1>3. PICK s \in SeekSet(f, off) :
        IF s.ret # off
        THEN /\ MovedTo(f, s.pos)
             /\ out' = [call |-> "write", file |-> f, off |-> off, cells |-> cells,
                        rc |-> "ERROR"]
             /\ UNCHANGED disk
        ELSE \E k \in 0 .. (IF CanWrite(f) THEN Len(cells) ELSE 0) :
                /\ s.pos + k <= MaxSize
                /\ disk' = IF k = 0 THEN disk
                           ELSE [disk EXCEPT ![file[f].path] =
                                    Written(@, s.pos, SubSeq(cells, 1, k))]
                /\ MovedTo(f, s.pos + k)
                /\ out' = [call |-> "write", file |-> f, off |-> off, cells |-> cells,
                           rc |-> IF k = Len(cells) THEN "OK" ELSE "IOERR_WRITE"]
  BY DEF WriteCells
<1>4. s.pos \in Nat /\ (s.ret = off => s.pos = off /\ off < IntLimit)
  BY <1>2, <1>3, SeekSetGoesThere
<1>5. CASE s.ret # off
  BY <1>1, <1>3, <1>4, <1>5
<1>6. CASE s.ret = off
  <2>1. PICK k \in 0 .. (IF CanWrite(f) THEN Len(cells) ELSE 0) :
          /\ disk' = IF k = 0 THEN disk
                     ELSE [disk EXCEPT ![file[f].path] =
                              Written(@, off, SubSeq(cells, 1, k))]
          /\ MovedTo(f, off + k)
          /\ out' = [call |-> "write", file |-> f, off |-> off, cells |-> cells,
                     rc |-> IF k = Len(cells) THEN "OK" ELSE "IOERR_WRITE"]
    BY <1>3, <1>4, <1>6
  <2>2. k \in 0 .. Len(cells) /\ off + k \in Nat
    BY <1>2
  <2>3. \E pos \in Nat : MovedTo(f, pos)
    BY <2>1, <2>2
  <2>4. /\ out'.call = "write" /\ out'.file = f /\ out'.off = off /\ out'.cells = cells
        /\ out'.rc \in {"OK", "ERROR", "IOERR_WRITE"}
    BY <2>1
  <2>5. CASE k = 0
    BY <1>1, <2>1, <2>3, <2>4, <2>5
  <2>6. CASE k # 0
    <3>1. k \in 1 .. Len(cells)
      BY <1>2, <2>2, <2>6
    <3>. QED
      BY <1>1, <1>4, <1>6, <2>1, <2>3, <2>4, <2>6, <3>1
  <2>. QED
    BY <2>5, <2>6
<1>. QED
  BY <1>5, <1>6

\* The size in an int is the size, or negative.
LEMMA SizeInInt ==
  ASSUME NEW n \in Nat, n < 2 * IntLimit
  PROVE  Int32(n) = n \/ Int32(n) < 0
<1>1. CASE n < IntLimit
  <2>1. n \in -IntLimit .. IntLimit - 1
    BY <1>1, IntLimitIsPositive
  <2>. QED
    BY <2>1, Int32Fits
<1>2. CASE n >= IntLimit
  <2>1. (n - IntLimit) \in 0 .. 2 * IntLimit - 1 /\ 2 * IntLimit \in Nat \ {0}
    BY <1>2, IntLimitIsPositive
  <2>2. n + IntLimit = (n - IntLimit) + 2 * IntLimit
    BY IntLimitIsPositive
  <2>3. (n + IntLimit) % (2 * IntLimit) = n - IntLimit
    BY <2>1, <2>2, ModOfSum
  <2>. QED
    BY <1>2, <2>3, IntLimitIsPositive DEF Int32
<1>. QED
  BY <1>1, <1>2, IntLimitIsPositive

\* xFileSize moves the position and nothing else; when it succeeds it answers
\* the size.
LEMMA SizeEffect ==
  ASSUME IInv, NEW f \in File, FileSize(f)
  PROVE  /\ IsOpen(f) /\ UNCHANGED <<disk, media>>
         /\ \E pos \in Nat : MovedTo(f, pos)
         /\ out'.call = "size"
         /\ out'.rc \in {"OK", "ERROR"}
         /\ out'.rc = "OK" => out'.file = f /\ out'.size = Len(Content(f))
<1>1. IsOpen(f) /\ UNCHANGED <<disk, media>>
  BY DEF FileSize
<1>2. file[f].pos \in Nat /\ Len(Content(f)) \in Nat /\ Len(Content(f)) < 2 * IntLimit
  BY <1>1, OpenFile, LenProperties DEF Contents
<1>3. PICK t \in SeekCur(f), e \in SeekEnd(f) :
        IF t.ret < 0 \/ e.ret < 0
        THEN /\ MovedTo(f, IF t.ret < 0 THEN t.pos ELSE e.pos)
             /\ out' = [call |-> "size", file |-> f, rc |-> "ERROR"]
        ELSE \E b \in SeekTo(e.pos, Int32(t.ret)) :
                /\ MovedTo(f, b.pos)
                /\ out' = IF b.ret < 0
                          THEN [call |-> "size", file |-> f, rc |-> "ERROR"]
                          ELSE [call |-> "size", file |-> f, rc |-> "OK", size |-> e.ret]
  BY DEF FileSize
<1>4. t.pos \in Nat /\ t.ret \in Int /\ e.pos \in Nat /\ e.ret \in Int
  BY <1>2, <1>3, SeekToPos DEF SeekCur, SeekEnd
<1>5. e.ret < 0 \/ e.ret = Len(Content(f))
  <2>1. e.ret = -1 \/ e.ret = Int32(Len(Content(f)))
    BY <1>3 DEF SeekEnd, SeekTo
  <2>. QED
    BY <1>2, <2>1, SizeInInt
<1>6. CASE t.ret < 0 \/ e.ret < 0
  BY <1>1, <1>3, <1>4, <1>6
<1>7. CASE ~ (t.ret < 0 \/ e.ret < 0)
  <2>1. PICK b \in SeekTo(e.pos, Int32(t.ret)) :
          /\ MovedTo(f, b.pos)
          /\ out' = IF b.ret < 0
                    THEN [call |-> "size", file |-> f, rc |-> "ERROR"]
                    ELSE [call |-> "size", file |-> f, rc |-> "OK", size |-> e.ret]
    BY <1>3, <1>7
  <2>2. Int32(t.ret) \in Int
    BY <1>4, Int32Range, IntLimitIsPositive
  <2>3. b.pos \in Nat
    BY <1>4, <2>1, <2>2, SeekToPos
  <2>4. CASE b.ret < 0
    BY <1>1, <2>1, <2>3, <2>4
  <2>5. CASE ~ (b.ret < 0)
    BY <1>1, <1>5, <1>7, <2>1, <2>3, <2>5
  <2>. QED
    BY <2>4, <2>5
<1>. QED
  BY <1>6, <1>7

-----------------------------------------------------------------------------
(* Steps *)

\* A prefix of cells that may be written may be written.
LEMMA Prefix ==
  ASSUME NEW cells \in Block, NEW k \in 1 .. Len(cells)
  PROVE  /\ SubSeq(cells, 1, k) \in Block /\ SubSeq(cells, 1, k) \in Seq(Cell)
         /\ Len(SubSeq(cells, 1, k)) \in Nat /\ Len(SubSeq(cells, 1, k)) <= IntLimit
  BY PrefixesAreBlocks, BlocksAreCells, BlocksFitInts, LenProperties

LEMMA WriteKeeps ==
  ASSUME IInv, NEW f \in File, NEW off \in Offset, NEW cells \in Block,
         WriteCells(f, off, cells)
  PROVE  IInv'
<1>1. /\ IsOpen(f) /\ UNCHANGED media
      /\ out'.rc \in {"OK", "ERROR", "IOERR_WRITE"}
      /\ \/ UNCHANGED disk
         \/ /\ off < IntLimit
            /\ \E k \in 1 .. Len(cells) :
                  disk' = [disk EXCEPT ![file[f].path] =
                              Written(@, off, SubSeq(cells, 1, k))]
  BY WriteEffect
<1>2. PICK pos \in Nat : MovedTo(f, pos)
  BY WriteEffect
<1>3. CASE UNCHANGED disk
  BY <1>1, <1>2, <1>3, MovesOnly
<1>4. ASSUME off < IntLimit, NEW k \in 1 .. Len(cells),
             disk' = [disk EXCEPT ![file[f].path] = Written(@, off, SubSeq(cells, 1, k))]
      PROVE  IInv'
  <2> DEFINE written == Written(disk[file[f].path], off, SubSeq(cells, 1, k))
  <2>1. file[f].path \in Path /\ disk[file[f].path] \in Contents /\ off \in Nat
    BY <1>1, OpenFile, OffsetsAreNatural DEF Content
  <2>2. off + Len(SubSeq(cells, 1, k)) < 2 * IntLimit
    BY <1>4, <2>1, Prefix, IntLimitIsPositive
  <2>3. written \in Contents
    BY <2>1, <2>2, Prefix, WrittenIsAContent
  <2> HIDE DEF written
  <2>4. disk' = [disk EXCEPT ![file[f].path] = written]
    BY <1>4 DEF written
  <2>5. SizesShow'
    BY <1>1, <2>3, <2>4 DEF IInv, SizesShow
  <2>6. /\ file' \in [File -> {Closed} \cup Streams]
        /\ \A g \in File : file'[g].stream = file[g].stream
                           /\ (IsOpen(g) => file'[g].path = file[g].path)
    BY <1>1, <1>2, MovingKeeps
  <2>7. PICK q \in Path : disk' = [disk EXCEPT ![q] = written] /\ disk[q] # NoFile
    BY <1>1, <2>1, <2>4, OpenFile DEF Exists
  <2>8. disk \in [Path -> {NoFile} \cup Contents]
    BY DEF IInv, SizesShow
  <2>9. written # NoFile
    BY <2>3, NoFileIsNoContent DEF Contents
  <2>10. \A p \in Path : Exists(p)' <=> Exists(p)
    BY <2>7, <2>8, <2>9 DEF Exists
  <2>11. GoneForGood'
    BY <1>1, <2>10 DEF IInv, GoneForGood
  <2>12. \A g \in File : IsOpen(g)' => Exists(file[g].path)'
    <3> SUFFICES ASSUME NEW g \in File, IsOpen(g)' PROVE Exists(file[g].path)'
      OBVIOUS
    <3>1. IsOpen(g) /\ file'[g].path = file[g].path
      BY <2>6 DEF IsOpen
    <3>2. file[g].path \in Path /\ Exists(file[g].path)
      BY <3>1, OpenFile
    <3>. QED
      BY <2>10, <3>1, <3>2 DEF Exists
  <2>. QED
    BY <1>1, <2>5, <2>6, <2>11, <2>12, Kept
<1>. QED
  BY <1>1, <1>3, <1>4

\* A step that moves no stream and changes no file: a sync at most makes a
\* content survive.
LEMMA SyncKeeps ==
  ASSUME IInv, NEW f \in File, IsOpen(f), UNCHANGED <<disk, file>>,
         Flushed(f) \/ UNCHANGED media,
         out'.rc \in {"OK", "ERROR", "SHORT_READ", "IOERR_WRITE", "raised"}
  PROVE  IInv'
<1>1. file[f].path \in Path /\ Exists(file[f].path) /\ Content(f) \in Contents
  BY OpenFile
<1>2. SizesShow'
  BY <1>1 DEF IInv, SizesShow, Flushed
<1>3. GoneForGood'
  BY <1>1 DEF IInv, SizesShow, GoneForGood, Exists, Flushed
<1>4. /\ file' \in [File -> {Closed} \cup Streams]
      /\ \A g \in File : IsOpen(g)' => Exists(file[g].path)'
  BY DEF IInv, FilesTypeOK, OpenFilesExist, IsOpen, Exists
<1>. QED
  BY <1>2, <1>3, <1>4, Kept

\* A step that changes nothing but what it answers.
LEMMA AnswerKeeps ==
  ASSUME IInv, UNCHANGED <<disk, media, file>>,
         out'.rc \in {"OK", "ERROR", "SHORT_READ", "IOERR_WRITE", "raised"}
  PROVE  IInv'
<1>1. /\ file' \in [File -> {Closed} \cup Streams]
      /\ \A g \in File : IsOpen(g)' => Exists(file[g].path)'
  BY DEF IInv, FilesTypeOK, OpenFilesExist, IsOpen, Exists
<1>2. SizesShow' /\ GoneForGood'
  BY DEF IInv, SizesShow, GoneForGood, Exists
<1>. QED
  BY <1>1, <1>2, Kept

\* A regular file that is in the directory its name is looked for in, and is
\* spelt there as in the name, is found: what is missed is hidden.
LEMMA MissedIsHidden ==
  ASSUME NEW n \in Name, Exists(FileNamed[n]), ~ FileExists(n)
  PROVE  Hidden(n)
<1>1. FileNamed[n] \in Path /\ Home[FileNamed[n]] = DirectoryOf(n)
  BY NamesLeadToFiles, FilesAreAtHome
<1>2. CASE Home[FileNamed[n]] = ListedDirectory(n)
  BY <1>1, <1>2 DEF FileExists, Hidden
<1>3. CASE DirectoryOf(n) # ListedDirectory(n)
  BY <1>3 DEF DirectoryOf, ListedDirectory, Hidden
<1>. QED
  BY <1>1, <1>2, <1>3

\* The MPFILE of an open that succeeds.
Opened(n, flags) ==
    [stream |-> TRUE, path |-> FileNamed[n], writable |-> ModeOf(n, flags) # "rb",
     deleteOnClose |-> "DELETEONCLOSE" \in flags, pos |-> 0]

\* Opening changes no file, or leaves one empty that was not there or that its
\* name hides.
LEMMA OpenEffect ==
  ASSUME NEW f \in File, NEW n \in Name, NEW flags \in OpenFlags, Open(f, n, flags)
  PROVE  /\ UNCHANGED media
         /\ out'.call = "open" /\ out'.rc \in {"OK", "raised"}
         /\ \/ UNCHANGED <<disk, file>>
            \/ /\ file' = [file EXCEPT ![f] = Opened(n, flags)]
               /\ UNCHANGED disk /\ Exists(FileNamed[n])
            \/ /\ file' = [file EXCEPT ![f] = Opened(n, flags)]
               /\ disk' = [disk EXCEPT ![FileNamed[n]] = << >>]
               /\ out'.rc = "OK" /\ out'.name = n
               /\ Exists(FileNamed[n]) => Hidden(n)
<1>1. ModeOf(n, flags) = "w+b" => ~ FileExists(n)
  BY DEF ModeOf
<1>2. CASE Raised("open") /\ UNCHANGED <<disk, file>>
  BY <1>2 DEF Open, Raised
<1>3. CASE /\ ModeOf(n, flags) = "w+b"
           /\ disk' = [disk EXCEPT ![FileNamed[n]] = << >>]
           /\ file' = [file EXCEPT ![f] = Opened(n, flags)]
           /\ out' = [call |-> "open", name |-> n, rc |-> "OK"]
  BY <1>1, <1>3, MissedIsHidden DEF Open
<1>4. CASE /\ Exists(FileNamed[n]) /\ UNCHANGED disk
           /\ file' = [file EXCEPT ![f] = Opened(n, flags)]
           /\ out' = [call |-> "open", name |-> n, rc |-> "OK"]
  BY <1>4 DEF Open
<1>. QED
  BY <1>2, <1>3, <1>4 DEF Open, Opened

LEMMA OpenKeeps ==
  ASSUME IInv, NEW f \in File, NEW n \in Name, NEW flags \in OpenFlags, Open(f, n, flags)
  PROVE  IInv'
<1> DEFINE p == FileNamed[n]
           stream == Opened(n, flags)
<1>1. p \in Path
  BY NamesLeadToFiles
<1>2. stream \in Streams
  BY <1>1 DEF Streams, Opened
<1>3. stream.stream = TRUE /\ stream.path = p
  BY DEF Opened
<1> HIDE DEF p, stream
<1>4. ASSUME file' = [file EXCEPT ![f] = stream], UNCHANGED media,
             out'.rc \in {"OK", "raised"},
             \/ UNCHANGED disk /\ Exists(p)
             \/ disk' = [disk EXCEPT ![p] = << >>]
      PROVE  IInv'
  <2>1. file \in [File -> {Closed} \cup Streams] /\ disk \in [Path -> {NoFile} \cup Contents]
    BY DEF IInv, FilesTypeOK, SizesShow
  <2>2. << >> \in Contents /\ << >> # NoFile
    BY EmptyIsAContent, NoFileIsNoContent DEF Contents
  <2>3. \A q \in Path : Exists(q)' <=> Exists(q) \/ q = p
    BY <1>4, <2>1, <2>2 DEF Exists
  <2>4. SizesShow'
    BY <1>4, <1>1, <2>2 DEF IInv, SizesShow
  <2>5. GoneForGood'
    BY <1>4, <2>3 DEF IInv, GoneForGood
  <2>6. file' \in [File -> {Closed} \cup Streams]
    BY <1>2, <1>4, <2>1
  <2>7. \A g \in File : IsOpen(g)' => Exists(file[g].path)'
    <3> SUFFICES ASSUME NEW g \in File, IsOpen(g)' PROVE Exists(file[g].path)'
      OBVIOUS
    <3>1. CASE g = f
      BY <1>1, <1>3, <1>4, <2>1, <2>3, <3>1 DEF Exists
    <3>2. CASE g # f
      <4>1. IsOpen(g) /\ file'[g] = file[g]
        BY <1>4, <2>1, <3>2 DEF IsOpen
      <4>2. file[g].path \in Path /\ Exists(file[g].path)
        BY <4>1, OpenFile
      <4>. QED
        BY <2>3, <4>1, <4>2 DEF Exists
    <3>. QED
      BY <3>1, <3>2
  <2>. QED
    BY <1>4, <2>4, <2>5, <2>6, <2>7, Kept
<1> USE DEF p, stream
<1>5. CASE UNCHANGED <<disk, file>>
  BY <1>5, OpenEffect, AnswerKeeps
<1>. QED
  BY <1>4, <1>5, OpenEffect

\* Files may go when nobody has them open.
LEMMA RemovalKeeps ==
  ASSUME IInv, NEW p \in Path,
         disk' = [disk EXCEPT ![p] = NoFile], media' = [media EXCEPT ![p] = NoFile],
         file' \in [File -> {Closed} \cup Streams],
         \A g \in File : IsOpen(g)' => IsOpen(g) /\ file'[g] = file[g] /\ file[g].path # p,
         out'.rc \in {"OK", "ERROR", "SHORT_READ", "IOERR_WRITE", "raised"}
  PROVE  IInv'
<1>1. /\ disk \in [Path -> {NoFile} \cup Contents]
      /\ media \in [Path -> {NoFile} \cup Contents]
  BY DEF IInv, SizesShow
<1>2. SizesShow'
  BY <1>1 DEF SizesShow
<1>3. GoneForGood'
  BY <1>1 DEF IInv, GoneForGood, Exists
<1>4. \A g \in File : IsOpen(g)' => Exists(file[g].path)'
  <2> SUFFICES ASSUME NEW g \in File, IsOpen(g)' PROVE Exists(file[g].path)'
    OBVIOUS
  <2>1. file[g].path \in Path /\ Exists(file[g].path) /\ file[g].path # p
    BY OpenFile
  <2>. QED
    BY <1>1, <2>1 DEF Exists
<1>. QED
  BY <1>2, <1>3, <1>4, Kept

LEMMA CloseKeeps ==
  ASSUME IInv, NEW f \in File, Close(f)
  PROVE  IInv'
<1>1. CASE UNCHANGED <<disk, media, file>> /\ out'.rc = "raised"
  BY <1>1, AnswerKeeps
<1>2. CASE file' = [file EXCEPT ![f] = Closed]
  <2>1. /\ file' \in [File -> {Closed} \cup Streams]
        /\ \A g \in File : IsOpen(g)' => g # f /\ IsOpen(g) /\ file'[g] = file[g]
    BY <1>2 DEF IInv, FilesTypeOK, IsOpen, Closed
  <2>2. CASE UNCHANGED <<disk, media>> /\ out'.rc \in {"OK", "raised"}
    <3>1. SizesShow' /\ GoneForGood'
      BY <2>2 DEF IInv, SizesShow, GoneForGood, Exists
    <3>2. \A g \in File : IsOpen(g)' => Exists(file[g].path)'
      BY <2>1, <2>2 DEF IInv, OpenFilesExist, Exists
    <3>. QED
      BY <2>1, <2>2, <3>1, <3>2, Kept
  <2>3. CASE /\ IsOpen(f) /\ Others(f, file[f].path) = {}
             /\ disk' = [disk EXCEPT ![file[f].path] = NoFile]
             /\ media' = [media EXCEPT ![file[f].path] = NoFile]
             /\ out'.rc = "OK"
    <3>1. file[f].path \in Path
      BY <2>3, OpenFile
    <3>2. \A g \in File : IsOpen(g)' => file[g].path # file[f].path
      BY <2>1, <2>3 DEF Others
    <3>. QED
      BY <2>1, <2>3, <3>1, <3>2, RemovalKeeps
  <2>. QED
    BY <1>2, <2>2, <2>3 DEF Close, Removed, Raised
<1>. QED
  BY <1>1, <1>2 DEF Close, Raised

LEMMA DeleteKeeps ==
  ASSUME IInv, NEW p \in Path, DeleteFile(p)
  PROVE  IInv'
<1>1. file' = file /\ (\A f \in File : IsOpen(f) => file[f].path # p) /\ Removed(p, "delete")
  BY DEF DeleteFile
<1>2. CASE out'.rc = "raised" /\ UNCHANGED <<disk, media>>
  BY <1>1, <1>2, AnswerKeeps
<1>3. CASE /\ disk' = [disk EXCEPT ![p] = NoFile]
           /\ media' = [media EXCEPT ![p] = NoFile]
           /\ out'.rc = "OK"
  BY <1>1, <1>3, RemovalKeeps DEF IInv, FilesTypeOK, IsOpen
<1>. QED
  BY <1>1, <1>2, <1>3 DEF Removed, Raised

LEMMA PowerOffKeeps ==
  ASSUME IInv, PowerOff
  PROVE  IInv'
<1>1. /\ disk' \in [Path -> UNION {Survivors(p) : p \in Path}]
      /\ \A p \in Path : disk'[p] \in Survivors(p)
      /\ media' = disk'
  BY DEF PowerOff, PowerLoss
<1>2. \A p \in Path : disk'[p] \in {NoFile} \cup Contents
  BY <1>1, SurvivorIsAContent DEF IInv
<1>3. SizesShow'
  BY <1>1, <1>2 DEF SizesShow
<1>4. GoneForGood'
  BY <1>1 DEF GoneForGood, Exists
<1>5. /\ file' \in [File -> {Closed} \cup Streams]
      /\ \A g \in File : IsOpen(g)' => Exists(file[g].path)'
      /\ out'.rc = "OK"
  BY DEF PowerOff, IsOpen, Closed
<1>. QED
  BY <1>3, <1>4, <1>5, Kept

LEMMA NextIInv == IInv /\ [Next]_vars => IInv'
<1> SUFFICES ASSUME IInv, [Next]_vars PROVE IInv'
  OBVIOUS
<1>1. ASSUME NEW f \in File, NEW off \in Offset, NEW n \in Sizes, Read(f, off, n)
      PROVE  IInv'
  BY <1>1, ReadEffect, MovesOnly
<1>2. ASSUME NEW f \in File, NEW off \in Offset, NEW cells \in Block,
             WriteCells(f, off, cells)
      PROVE  IInv'
  BY <1>2, WriteKeeps
<1>3. ASSUME NEW f \in File, NEW n \in Name, NEW flags \in OpenFlags, Open(f, n, flags)
      PROVE  IInv'
  BY <1>3, OpenKeeps
<1>4. ASSUME NEW f \in File, Truncate(f) PROVE IInv'
  BY <1>4, AnswerKeeps DEF Truncate
<1>5. ASSUME NEW f \in File, SyncFile(f) PROVE IInv'
  BY <1>5, SyncKeeps DEF SyncFile
<1>6. ASSUME NEW f \in File, FileSize(f) PROVE IInv'
  BY <1>6, SizeEffect, MovesOnly
<1>7. ASSUME NEW f \in File, Close(f) PROVE IInv'
  BY <1>7, CloseKeeps
<1>8. ASSUME NEW p \in Path, DeleteFile(p) PROVE IInv'
  BY <1>8, DeleteKeeps
<1>9. CASE Access
  BY <1>9, AnswerKeeps DEF Access
<1>10. CASE PowerOff
  BY <1>10, PowerOffKeeps
<1>11. CASE UNCHANGED vars
  BY <1>11, AnswerKeeps DEF vars, IInv, FilesTypeOK
<1>. QED
  BY <1>1, <1>2, <1>3, <1>4, <1>5, <1>6, <1>7, <1>8, <1>9, <1>10, <1>11 DEF Next

\* A file is listed under the spelling of the name that made it, or as before.
ListingOK == listed \in [Path -> Base \cup {Unlisted}]

LEMMA NextListing == ListingOK /\ [Next]_vars => ListingOK'
<1> SUFFICES ASSUME ListingOK, [Next]_vars PROVE ListingOK'
  OBVIOUS
<1>1. CASE UNCHANGED listed
  BY <1>1 DEF ListingOK
<1>2. ASSUME NEW f \in File, NEW n \in Name, NEW flags \in OpenFlags, Open(f, n, flags)
      PROVE  ListingOK'
  <2>1. UNCHANGED listed \/ listed' = [listed EXCEPT ![FileNamed[n]] = n.base]
    BY <1>2 DEF Open
  <2>2. n.base \in Base
    BY NamesAreCut
  <2>. QED
    BY <2>1, <2>2 DEF ListingOK
<1>3. ASSUME NEW f \in File,
             \/ \E off \in Offset, n \in Sizes : Read(f, off, n)
             \/ \E off \in Offset, cells \in Block : WriteCells(f, off, cells)
             \/ Truncate(f) \/ SyncFile(f) \/ FileSize(f) \/ Close(f)
      PROVE  UNCHANGED listed
  BY <1>3 DEF Read, WriteCells, Truncate, SyncFile, FileSize, Close
<1>4. ASSUME NEW p \in Path, DeleteFile(p) PROVE UNCHANGED listed
  BY <1>4 DEF DeleteFile
<1>5. CASE Access \/ PowerOff \/ UNCHANGED vars
  BY <1>1, <1>5 DEF Access, PowerOff, vars
<1>. QED
  BY <1>1, <1>2, <1>3, <1>4, <1>5 DEF Next

\* Every MPFILE, every content, every listing and every answer is of its type.
THEOREM TypeCorrect == Spec => []TypeOK
<1>1. Init => ListingOK
  BY DEF Init, ListingOK
<1>2. IInv /\ ListingOK => TypeOK
  BY DEF IInv, FilesTypeOK, ListingOK, TypeOK
<1>. QED
  BY InitIInv, NextIInv, NextListing, <1>1, <1>2, PTL DEF Spec

-----------------------------------------------------------------------------
(* Answers *)

\* The position of a stream is no part of what its file holds.
LEMMA MovingKeepsContent ==
  ASSUME IInv, NEW f \in File, IsOpen(f), NEW pos \in Nat, MovedTo(f, pos), UNCHANGED disk
  PROVE  file'[f].path = file[f].path /\ Content(f)' = Content(f)
<1>1. file'[f].path = file[f].path
  BY MovingKeeps
<1>. QED
  BY <1>1 DEF Content

LEMMA NextAnswers == IInv /\ AnswersAreTrue /\ [Next]_vars => AnswersAreTrue'
<1> SUFFICES ASSUME IInv, AnswersAreTrue, [Next]_vars PROVE AnswersAreTrue'
  OBVIOUS
<1>1. ASSUME NEW f \in File, NEW off \in Offset, NEW n \in Sizes, Read(f, off, n)
      PROVE  AnswersAreTrue'
  <2>1. /\ IsOpen(f) /\ UNCHANGED <<disk, media>> /\ out'.call = "read"
        /\ out'.rc = "OK" =>
             /\ out'.file = f /\ out'.off = off
             /\ out'.buf = Part(Content(f), off, Len(out'.buf))
    BY <1>1, ReadEffect
  <2>2. Content(f)' = Content(f)
    BY <1>1, <2>1, ReadEffect, MovingKeepsContent
  <2>3. CASE out'.rc = "OK"
    BY <2>1, <2>2, <2>3 DEF AnswersAreTrue, Part
  <2>4. CASE out'.rc # "OK"
    BY <2>4 DEF AnswersAreTrue
  <2>. QED
    BY <2>3, <2>4
<1>2. ASSUME NEW f \in File, FileSize(f) PROVE AnswersAreTrue'
  <2>1. /\ IsOpen(f) /\ UNCHANGED <<disk, media>> /\ out'.call = "size"
        /\ out'.rc = "OK" => out'.file = f /\ out'.size = Len(Content(f))
    BY <1>2, SizeEffect
  <2>2. Content(f)' = Content(f)
    BY <1>2, <2>1, SizeEffect, MovingKeepsContent
  <2>. QED
    BY <2>1, <2>2 DEF AnswersAreTrue
<1>3. ASSUME NEW f \in File, SyncFile(f) PROVE AnswersAreTrue'
  <2>1. IsOpen(f) /\ UNCHANGED <<disk, file>> /\ out'.call = "sync"
        /\ (out'.rc = "OK" => out'.file = f /\ Flushed(f))
    BY <1>3 DEF SyncFile
  <2>2. file[f].path \in Path /\ media \in [Path -> {NoFile} \cup Contents]
    BY <2>1, OpenFile DEF IInv, SizesShow
  <2>3. CASE out'.rc = "OK"
    <3>1. media'[file[f].path] = Content(f)
      BY <2>1, <2>2, <2>3 DEF Flushed
    <3>. QED
      BY <2>1, <2>3, <3>1 DEF AnswersAreTrue, Content
  <2>4. CASE out'.rc # "OK"
    BY <2>4 DEF AnswersAreTrue
  <2>. QED
    BY <2>3, <2>4
<1>4. CASE out'.call \notin {"read", "size", "sync"}
  BY <1>4 DEF AnswersAreTrue
<1>5. CASE UNCHANGED vars
  BY <1>5 DEF vars, AnswersAreTrue, Content
<1>6. ASSUME NEW f \in File, NEW off \in Offset, NEW cells \in Block,
             WriteCells(f, off, cells)
      PROVE  out'.call = "write"
  BY <1>6, WriteEffect
<1>7. ASSUME NEW f \in File, NEW n \in Name, NEW flags \in OpenFlags, Open(f, n, flags)
      PROVE  out'.call = "open"
  BY <1>7, OpenEffect
<1>8. ASSUME NEW f \in File, Truncate(f) \/ Close(f)
      PROVE  out'.call \in {"truncate", "close"}
  BY <1>8 DEF Truncate, Close, Removed, Raised
<1>9. ASSUME NEW p \in Path, DeleteFile(p) PROVE out'.call = "delete"
  BY <1>9 DEF DeleteFile, Removed, Raised
<1>10. CASE Access \/ PowerOff
  BY <1>4, <1>10 DEF Access, PowerOff
<1>. QED
  BY <1>1, <1>2, <1>3, <1>4, <1>5, <1>6, <1>7, <1>8, <1>9, <1>10 DEF Next

\* What a method that succeeds answers is so, wherever the calls before it have
\* left the position of the stream, and whatever an int does to offsets and
\* sizes.
THEOREM TrueAnswers == Spec => []AnswersAreTrue
<1>1. Init => IInv /\ AnswersAreTrue
  BY InitIInv DEF Init, AnswersAreTrue
<1>. QED
  BY <1>1, NextIInv, NextAnswers, PTL DEF Spec

-----------------------------------------------------------------------------
(* The store *)

\* What a file is changed by, one call at a time: nothing, a step of the store,
\* or an open that overwrites a file its name hides.
LEMMA StepImplements == IInv /\ [Next]_vars => [StoreNext \/ Overwrites]_storeVars
<1> SUFFICES ASSUME IInv, [Next]_vars PROVE [StoreNext \/ Overwrites]_storeVars
  OBVIOUS
<1>1. CASE UNCHANGED <<disk, media>>
  BY <1>1 DEF storeVars
<1>2. ASSUME NEW f \in File, NEW off \in Offset, NEW cells \in Block,
             WriteCells(f, off, cells)
      PROVE  [StoreNext \/ Overwrites]_storeVars
  <2>1. CASE UNCHANGED disk
    BY <1>1, <1>2, <2>1, WriteEffect
  <2>2. ASSUME NEW k \in 1 .. Len(cells),
               disk' = [disk EXCEPT ![file[f].path] = Written(@, off, SubSeq(cells, 1, k))]
        PROVE  [StoreNext \/ Overwrites]_storeVars
    <3>1. file[f].path \in Path /\ Exists(file[f].path) /\ UNCHANGED media
      BY <1>2, WriteEffect, OpenFile
    <3>2. SubSeq(cells, 1, k) \in Block
      BY Prefix
    <3>3. Write(file[f].path, off, SubSeq(cells, 1, k))
      BY <2>2, <3>1 DEF Write
    <3>. QED
      BY <3>1, <3>2, <3>3 DEF StoreNext
  <2>. QED
    BY <1>2, <2>1, <2>2, WriteEffect
<1>3. ASSUME NEW f \in File, NEW n \in Name, NEW flags \in OpenFlags, Open(f, n, flags)
      PROVE  [StoreNext \/ Overwrites]_storeVars
  <2>1. FileNamed[n] \in Path /\ UNCHANGED media /\ out'.call = "open"
    BY <1>3, NamesLeadToFiles, OpenEffect
  <2>2. CASE ~ Exists(FileNamed[n]) /\ disk' = [disk EXCEPT ![FileNamed[n]] = << >>]
    <3>1. Create(FileNamed[n])
      BY <2>1, <2>2 DEF Create
    <3>. QED
      BY <2>1, <3>1 DEF StoreNext
  <2>3. CASE /\ Exists(FileNamed[n]) /\ disk' = [disk EXCEPT ![FileNamed[n]] = << >>]
             /\ out'.rc = "OK" /\ out'.name = n
             /\ Hidden(n)
    BY <2>1, <2>3 DEF Overwrites
  <2>. QED
    BY <1>1, <1>3, <2>1, <2>2, <2>3, OpenEffect
<1>4. ASSUME NEW f \in File, SyncFile(f) PROVE [StoreNext \/ Overwrites]_storeVars
  <2>1. CASE Flushed(f) /\ UNCHANGED disk
    <3>1. file[f].path \in Path /\ Exists(file[f].path)
      BY <1>4, OpenFile DEF SyncFile
    <3>2. Sync(file[f].path)
      BY <2>1, <3>1 DEF Sync, Flushed, Content
    <3>. QED
      BY <3>1, <3>2 DEF StoreNext
  <2>. QED
    BY <1>1, <1>4, <2>1 DEF SyncFile
<1>5. ASSUME NEW p \in Path, NEW call, Removed(p, call) PROVE [StoreNext \/ Overwrites]_storeVars
  BY <1>1, <1>5 DEF Removed, StoreNext, Delete
<1>6. ASSUME NEW f \in File, Close(f) PROVE [StoreNext \/ Overwrites]_storeVars
  <2>1. CASE IsOpen(f) /\ Removed(file[f].path, "close")
    BY <1>5, <2>1, OpenFile
  <2>. QED
    BY <1>1, <1>6, <2>1 DEF Close
<1>7. ASSUME NEW p \in Path, DeleteFile(p) PROVE [StoreNext \/ Overwrites]_storeVars
  BY <1>5, <1>7 DEF DeleteFile
<1>8. CASE PowerOff
  BY <1>8 DEF PowerOff, StoreNext
<1>9. ASSUME NEW f \in File, NEW off \in Offset, NEW n \in Sizes, Read(f, off, n)
      PROVE  UNCHANGED <<disk, media>>
  BY <1>9, ReadEffect
<1>10. ASSUME NEW f \in File, Truncate(f) \/ FileSize(f) PROVE UNCHANGED <<disk, media>>
  BY <1>10, SizeEffect DEF Truncate
<1>11. CASE Access \/ UNCHANGED vars
  BY <1>1, <1>11 DEF Access, vars
<1>. QED
  BY <1>1, <1>2, <1>3, <1>4, <1>6, <1>7, <1>8, <1>9, <1>10, <1>11 DEF Next

\* The methods of mpvfs, whose calls stop part of the way, fail and raise, and
\* whose offsets go through ints, are a store as SQLite counts on it, but for
\* the open that empties a file hidden from usqlite_file_exists: one in another
\* directory than the one listed, or listed otherwise than it was asked for.
THEOREM MpVfsImplements == Spec => ImplementsFileStore
<1>1. Init => StoreInit
  BY DEF Init
<1>2. IInv /\ [Next]_vars => [StoreNext \/ Overwrites]_storeVars
  BY StepImplements
<1>. QED
  BY <1>1, <1>2, InitIInv, NextIInv, PTL DEF Spec, ImplementsFileStore

\* A file that is there before and after a step changes by a write at the
\* offset asked for, by an open that overwrites it, or by a loss of power.
LandsWhereAsked(p) ==
    /\ Exists(p) /\ Exists(p)' /\ disk'[p] # disk[p]
    /\ out'.call # "none" /\ ~ Overwrites
    =>
        /\ out'.call = "write"
        /\ out'.file \in File /\ file[out'.file].path = p
        /\ \E k \in 1 .. Len(out'.cells) :
              disk'[p] = Written(disk[p], out'.off, SubSeq(out'.cells, 1, k))

LEMMA StepLands ==
  ASSUME IInv, [Next]_vars, NEW p \in Path
  PROVE  LandsWhereAsked(p)
<1>1. CASE UNCHANGED disk
  BY <1>1 DEF LandsWhereAsked
<1>2. ASSUME NEW f \in File, NEW off \in Offset, NEW cells \in Block,
             WriteCells(f, off, cells)
      PROVE  LandsWhereAsked(p)
  <2>1. /\ out'.call = "write" /\ out'.file = f /\ out'.off = off /\ out'.cells = cells
        /\ disk \in [Path -> {NoFile} \cup Contents]
    BY <1>2, WriteEffect DEF IInv, SizesShow
  <2>2. ASSUME NEW k \in 1 .. Len(cells),
               disk' = [disk EXCEPT ![file[f].path] = Written(@, off, SubSeq(cells, 1, k))]
        PROVE  LandsWhereAsked(p)
    <3>1. CASE p = file[f].path
      <4>1. disk'[p] = Written(disk[p], off, SubSeq(cells, 1, k))
        BY <2>1, <2>2, <3>1
      <4>. QED
        BY <2>1, <3>1, <4>1 DEF LandsWhereAsked
    <3>2. CASE p # file[f].path
      BY <2>1, <2>2, <3>2 DEF LandsWhereAsked
    <3>. QED
      BY <3>1, <3>2
  <2>. QED
    BY <1>1, <1>2, <2>2, WriteEffect
<1>3. ASSUME NEW q \in Path,
             \/ disk' = [disk EXCEPT ![q] = NoFile]
             \/ /\ disk' = [disk EXCEPT ![q] = << >>]
                /\ ~ Exists(q) \/ Overwrites
      PROVE  LandsWhereAsked(p)
  BY <1>3 DEF LandsWhereAsked, Exists, IInv, SizesShow
<1>4. ASSUME NEW f \in File, NEW n \in Name, NEW flags \in OpenFlags, Open(f, n, flags)
      PROVE  LandsWhereAsked(p)
  <2>1. FileNamed[n] \in Path /\ UNCHANGED media /\ out'.call = "open"
    BY <1>4, NamesLeadToFiles, OpenEffect
  <2>2. CASE /\ disk' = [disk EXCEPT ![FileNamed[n]] = << >>]
             /\ out'.rc = "OK" /\ out'.name = n
             /\ Exists(FileNamed[n]) => Hidden(n)
    <3>1. ~ Exists(FileNamed[n]) \/ Overwrites
      BY <2>1, <2>2 DEF Overwrites
    <3>. QED
      BY <1>3, <2>1, <2>2, <3>1
  <2>. QED
    BY <1>1, <1>4, <2>2, OpenEffect
<1>5. ASSUME NEW f \in File, Close(f) PROVE LandsWhereAsked(p)
  BY <1>1, <1>3, <1>5, OpenFile DEF Close, Removed
<1>6. ASSUME NEW q \in Path, DeleteFile(q) PROVE LandsWhereAsked(p)
  BY <1>1, <1>3, <1>6 DEF DeleteFile, Removed
<1>7. CASE PowerOff
  BY <1>7 DEF PowerOff, LandsWhereAsked
<1>8. ASSUME NEW f \in File, NEW off \in Offset, NEW n \in Sizes, Read(f, off, n)
      PROVE  UNCHANGED disk
  BY <1>8, ReadEffect
<1>9. ASSUME NEW f \in File, Truncate(f) \/ FileSize(f) \/ SyncFile(f) PROVE UNCHANGED disk
  BY <1>9, SizeEffect DEF Truncate, SyncFile
<1>10. CASE Access \/ UNCHANGED vars
  BY <1>1, <1>10 DEF Access, vars
<1>. QED
  BY <1>1, <1>2, <1>4, <1>5, <1>6, <1>7, <1>8, <1>9, <1>10 DEF Next

\* No write lands where an int would put it, and no other call changes a file
\* that stays, but for the open of a file its name hides.
THEOREM WritesLand == Spec => WritesLandWhereAsked
<1>1. IInv /\ [Next]_vars => \A p \in Path : LandsWhereAsked(p)
  BY StepLands
<1>2. IInv /\ [Next]_vars =>
        [\A p \in Path :
          /\ Exists(p) /\ Exists(p)' /\ disk'[p] # disk[p]
          /\ out'.call # "none" /\ ~ Overwrites
          =>
             /\ out'.call = "write"
             /\ out'.file \in File /\ file[out'.file].path = p
             /\ \E k \in 1 .. Len(out'.cells) :
                   disk'[p] = Written(disk[p], out'.off, SubSeq(out'.cells, 1, k))]_vars
  BY <1>1 DEF LandsWhereAsked
<1>. QED
  BY <1>2, InitIInv, NextIInv, PTL DEF Spec, WritesLandWhereAsked
=============================================================================
