--------------------------- MODULE Recovery_proof ---------------------------
(***************************************************************************)
(* The promise of the rollback journal, for any number of pages, sectors   *)
(* and transactions: at any moment of a transaction, and whatever part of  *)
(* the writes that are not synced survives a loss of power, the playback   *)
(* of what is left of the journal over what is left of the database file   *)
(* gives back one of the two images.                                       *)
(*                                                                         *)
(* The playback is a function of its number of steps; what a step keeps is *)
(* in PlaysBack, and PlaybackRestores follows it to its end.  MediaInv     *)
(* says what is synced at each point of a transaction; the lemmas ending   *)
(* in Recovers use it, those ending in Media show that it is kept.         *)
(***************************************************************************)
EXTENDS JournalRecovery, Atomic_proof

-----------------------------------------------------------------------------
(* The playback as a function of the number of its steps                   *)

\* What the playback starts from.
Begins(d) == [off |-> 0, left |-> 0, cksumInit |-> 0, dbSize |-> 0, db |-> d]

\* f is the playback of j from d in its first n steps.
PlaysTo(f, j, d, n) ==
    f = [k \in 0 .. n |-> IF k = 0 THEN Begins(d) ELSE PlayedOn(j, f[k - 1])]

\* The order of the naturals, and that a set of them has a least one.
Below == {ss \in Nat \X Nat : ss[1] < ss[2]}

LEMMA LeastNumber ==
  ASSUME NEW T \in SUBSET Nat, T # {}
  PROVE  \E n \in T : \A m \in T : n <= m
<1>1. IsWellFoundedOn(Below, Nat)
  BY NatLessThanWellFounded, Zenon DEF OpToRel, Below
<1>2. PICK n \in T : \A m \in T : ~ (<<m, n>> \in Below)
  BY <1>1, WFMin
<1>. SUFFICES ASSUME NEW m \in T PROVE n <= m
  BY <1>2
<1>3. <<m, n>> \notin Below /\ <<m, n>> \in Nat \X Nat
  BY <1>2
<1>. QED
  BY <1>3 DEF Below

\* A playback of any number of steps exists.
LEMMA PlaybackExists ==
    ASSUME NEW j, NEW d, NEW n \in Nat
    PROVE  \E f : PlaysTo(f, j, d, n)
<1> DEFINE Unplayable == {m \in Nat : ~ \E f : PlaysTo(f, j, d, m)}
<1> SUFFICES ASSUME Unplayable # {} PROVE FALSE
  OBVIOUS
<1>1. PICK m \in Unplayable : \A k \in Unplayable : m <= k
  BY LeastNumber
<1>2. CASE m = 0
  <2>1. PlaysTo([k \in 0 .. 0 |-> Begins(d)], j, d, 0)
    BY DEF PlaysTo
  <2>. QED
    BY <1>2, <2>1
<1>3. CASE m # 0
  <2>1. m - 1 \in Nat /\ ~ (m <= m - 1)
    BY <1>3
  <2>2. PICK f : PlaysTo(f, j, d, m - 1)
    BY <1>1, <2>1
  <2> DEFINE g == [k \in 0 .. m |-> IF k = 0 THEN Begins(d) ELSE PlayedOn(j, f[k - 1])]
  <2>3. \A k \in 0 .. m - 1 : g[k] = f[k]
    BY <2>2 DEF PlaysTo
  <2>4. \A k \in 0 .. m : k # 0 => k - 1 \in 0 .. m - 1
    BY <2>1
  <2>5. PlaysTo(g, j, d, m)
    BY <2>3, <2>4 DEF PlaysTo
  <2>. QED
    BY <2>5
<1>. QED
  BY <1>2, <1>3

\* The playback takes one step after the other.
LEMMA PlaybackIs ==
    ASSUME NEW j, Len(j) \in Nat, NEW d
    PROVE  /\ Playback(j, d)[0] = Begins(d)
           /\ \A n \in 1 .. Len(j) :
                 Playback(j, d)[n] = PlayedOn(j, Playback(j, d)[n - 1])
<1> DEFINE Unfolds(f) == PlaysTo(f, j, d, Len(j))
<1>1. Playback(j, d) = CHOOSE f : Unfolds(f)
  BY DEF Playback, PlaysTo, Begins
<1>2. \E f : Unfolds(f)
  BY PlaybackExists
<1>3. Unfolds(Playback(j, d))
  <2> HIDE DEF Unfolds
  <2>. QED
    BY <1>1, <1>2, Zenon
<1> PICK f : f = Playback(j, d)
  OBVIOUS
<1>4. f = [k \in 0 .. Len(j) |-> IF k = 0 THEN Begins(d) ELSE PlayedOn(j, f[k - 1])]
  BY <1>3 DEF PlaysTo
<1>5. 0 \in 0 .. Len(j) /\ \A n \in 1 .. Len(j) : n \in 0 .. Len(j) /\ n # 0
  OBVIOUS
<1>. QED
  BY <1>4, <1>5

-----------------------------------------------------------------------------
(* Journals that a playback reads as it should                             *)

\* A cell that is not zero is in the file.
LEMMA CellIsThere ==
    ASSUME NEW S, NEW j \in Seq(S), NEW i \in Nat \ {0}, At(j, i) # ZeroCell
    PROVE  i \in 1 .. Len(j) /\ j[i] = At(j, i) /\ i <= Len(j)
BY DEF At

LEMMA NotZero ==
    /\ \A n : Magic(n) # ZeroCell
    /\ \A r, s : Nonce(r, s) # ZeroCell
    /\ \A p : Pgno(p) # ZeroCell
    /\ \A c : PageCell(c) # ZeroCell
    /\ \A r, c : Cksum(r, c) # ZeroCell
    /\ \A c : IsMagic(c) => c # ZeroCell
  BY DEF Magic, Nonce, Pgno, PageCell, Cksum, ZeroCell, IsMagic

\* The segment h of the journal j is complete and counted, with the pages as
\* they were in the image com.
IsCounted(j, segs, h, orig, com) ==
    /\ At(j, h + 1) = Magic(Len(segs[h].pages))
    /\ At(j, h + 2) = Nonce(segs[h].seed, orig)
    /\ \A i \in 1 .. Len(segs[h].pages) :
          /\ segs[h].pages[i] <= orig
          /\ At(j, RecordAt(h, i) + 1) = Pgno(segs[h].pages[i])
          /\ \E c \in Content :
                /\ At(j, RecordAt(h, i) + 2) = PageCell(c)
                /\ At(j, RecordAt(h, i) + 3) = Cksum(segs[h].seed, c)
                /\ segs[h].pages[i] \in OldPages(com) => c = Old(com, segs[h].pages[i])

\* Of the last segment, a playback reads what has a magic.
IsRead(j, segs, hdr, h) == h \in DOMAIN segs /\ (h # hdr \/ IsMagic(At(j, hdr + 1)))

\* The journal j, however much of its last segment is counted, is followed by
\* nothing.
IsPlayable(j, segs, hdr, orig, com) ==
    /\ Chained(segs, hdr)
    /\ \A h \in DOMAIN segs : IsRead(j, segs, hdr, h) => IsCounted(j, segs, h, orig, com)
    /\ IsMagic(At(j, hdr + 1)) => ~ IsMagic(At(j, End(segs, hdr) + 3))

\* Page p has a record that the playback has still to come to.
ToCome(j, segs, hdr, p, off) ==
    \E h \in DOMAIN segs : \E i \in 1 .. Len(segs[h].pages) :
        IsRead(j, segs, hdr, h) /\ RecordAt(h, i) >= off /\ segs[h].pages[i] = p

\* A playback stands before a record of a segment, or behind its last.
StandsIn(segs, h, orig, s) ==
    \E i \in 1 .. Len(segs[h].pages) + 1 :
        /\ s.off = RecordAt(h, i)
        /\ s.left = Len(segs[h].pages) + 1 - i
        /\ s.cksumInit = segs[h].seed
        /\ s.dbSize = orig

PlaybackState == [off : Nat, left : Nat, cksumInit : Nat, dbSize : Nat, db : Databases]

\* The pages that are not back have a record ahead.
PlaysBack(j, segs, hdr, orig, com, s) ==
    /\ s \in PlaybackState
    /\ \A p \in OldPages(com) : Untouched(com, s.db, p) \/ ToCome(j, segs, hdr, p, s.off)
    /\ \/ s.off = 0 /\ s.left = 0
       \/ \E h \in DOMAIN segs : IsRead(j, segs, hdr, h) /\ StandsIn(segs, h, orig, s)

AllBack(com, s) == \A p \in OldPages(com) : Untouched(com, s.db, p)

\* A header that is counted is read.
LEMMA HeaderIsIn ==
    ASSUME NEW j \in Seq(JournalCell), NEW segs \in Segments, NEW h \in DOMAIN segs,
           NEW orig \in 0 .. NPages, NEW com, IsCounted(j, segs, h, orig, com)
    PROVE  /\ HeaderIn(j, h)
           /\ j[h + 1].magic = Len(segs[h].pages)
           /\ Seed(j[h + 2]) = segs[h].seed
           /\ j[h + 2].origSize = orig
<1>1. h \in Nat /\ segs[h].seed \in Nat /\ Len(segs[h].pages) \in Nat
  BY SegmentIs
<1> PICK a \in Nat \ {0} : a = h + 1
  BY <1>1
<1> PICK b \in Nat \ {0} : b = h + 2
  BY <1>1
<1>2. At(j, a) = Magic(Len(segs[h].pages)) /\ At(j, b) = Nonce(segs[h].seed, orig)
  BY DEF IsCounted
<1>3. j[a] = Magic(Len(segs[h].pages)) /\ j[b] = Nonce(segs[h].seed, orig) /\ b <= Len(j)
  BY <1>2, CellIsThere, NotZero
<1>4. /\ IsNonce(j[b]) /\ j[b].nonce = segs[h].seed /\ j[b].origSize = orig
  BY <1>1, <1>3, NonceIs
<1>5. IsMagic(j[a]) /\ j[a].magic = Len(segs[h].pages)
  BY <1>3, MagicReads
<1>. QED
  BY <1>3, <1>4, <1>5 DEF HeaderIn, Seed, HdrSize

\* A header without a magic is not.
LEMMA HeaderIsNotIn ==
    ASSUME NEW j \in Seq(JournalCell), NEW h \in Nat, ~ IsMagic(At(j, h + 1))
    PROVE  ~ HeaderIn(j, h)
<1> SUFFICES ASSUME HeaderIn(j, h) PROVE FALSE
  OBVIOUS
<1>1. h + 1 \in 1 .. Len(j)
  BY DEF HeaderIn, HdrSize
<1>. QED
  BY <1>1 DEF HeaderIn, At

\* A record that is counted is played.
LEMMA RecordIsPlayed ==
    ASSUME NEW j \in Seq(JournalCell), NEW segs \in Segments, NEW h \in DOMAIN segs,
           NEW orig \in 0 .. NPages, NEW com, IsCounted(j, segs, h, orig, com),
           NEW i \in 1 .. Len(segs[h].pages), NEW off, off = RecordAt(h, i)
    PROVE  /\ Verdict(j, off, segs[h].seed, orig) = "play"
           /\ segs[h].pages[i] \in Page
           /\ j[off + 1].pgno = segs[h].pages[i]
           /\ \E c \in Content :
                 /\ j[off + 2] = PageCell(c)
                 /\ segs[h].pages[i] \in OldPages(com) => c = Old(com, segs[h].pages[i])
<1> PICK p \in Page : p = segs[h].pages[i]
  BY SegmentIs
<1>1. off \in Nat
  BY RecordInSegment
<1> PICK a \in Nat \ {0} : a = off + 1
  BY <1>1
<1> PICK b \in Nat \ {0} : b = off + 2
  BY <1>1
<1> PICK e \in Nat \ {0} : e = off + 3
  BY <1>1
<1> PICK c \in Content :
       /\ At(j, b) = PageCell(c) /\ At(j, e) = Cksum(segs[h].seed, c)
       /\ p \in OldPages(com) => c = Old(com, p)
  BY DEF IsCounted
<1>2. At(j, a) = Pgno(p) /\ p <= orig
  BY DEF IsCounted
<1>3. j[a] = Pgno(p) /\ j[b] = PageCell(c) /\ j[e] = Cksum(segs[h].seed, c) /\ e <= Len(j)
  BY <1>2, CellIsThere, NotZero
<1>4. IsPgno(j[a]) /\ j[a].pgno = p /\ j[a] # ZeroCell
  BY <1>3, PgnoIs
<1>5. IsPage(j[b]) /\ j[b].page = c
  BY <1>3, PageCellIs
<1>6. ~ (off + 3 > Len(j)) /\ ~ (p > orig)
  BY <1>2, <1>3, NPagesIsPositive DEF Page
<1>7. Verdict(j, off, segs[h].seed, orig) = "play"
  BY <1>3, <1>4, <1>5, <1>6 DEF Verdict, RecSize
<1>. QED
  BY <1>3, <1>4, <1>7

-----------------------------------------------------------------------------
(* One step of a playback                                                  *)

\* A page written into a file, as PageWritten says.
LEMMA PageIsWritten ==
    ASSUME NEW db \in Databases, NEW p \in Page, NEW c \in Content
    PROVE  PageWritten(db, Written(db, p - 1, <<PageCell(c)>>), p, c)
<1>1. PageCell(c) \in DbCell /\ ContentOf(PageCell(c)) = c
  BY PageCellIs DEF DbCell
<1> PICK cell \in DbCell : cell = PageCell(c)
  BY <1>1
<1>2. db \in Seq(DbCell) /\ Len(db) <= NPages
  BY DEF Databases
<1> PICK new : new = Written(db, p - 1, <<cell>>)
  OBVIOUS
<1>4. /\ new \in Seq(DbCell) /\ Len(new) = Longer(Len(db), p)
      /\ \A i \in 1 .. Len(new) : new[i] = IF i = p THEN cell ELSE At(db, i)
  BY <1>2, DbWritten
<1>5. p \in Nat /\ p >= 1 /\ p <= NPages /\ NPages \in Nat /\ Len(db) \in Nat /\ Len(new) \in Nat
  BY <1>2, <1>4, NPagesIsPositive DEF Page
<1>6. p \in 1 .. Len(new) /\ Len(new) <= NPages
  BY <1>2, <1>4, <1>5 DEF Longer
<1>7. At(new, p) = cell
  BY <1>4, <1>6 DEF At
<1>8. \A q \in Nat : q # p => At(new, q) = At(db, q)
  <2> SUFFICES ASSUME NEW q \in Nat, q # p PROVE At(new, q) = At(db, q)
    OBVIOUS
  <2>1. CASE q \in 1 .. Len(new)
    BY <1>4, <2>1 DEF At
  <2>2. CASE q \notin 1 .. Len(new)
    <3>1. q \notin 1 .. Len(db)
      BY <1>4, <1>5, <2>2 DEF Longer
    <3>. QED
      BY <2>2, <3>1 DEF At
  <2>. QED
    BY <2>1, <2>2
<1>. QED
  BY <1>1, <1>4, <1>6, <1>7, <1>8 DEF PageWritten, Databases

\* The records to come are behind the header that is read next.
LEMMA ToComeAfterHeader ==
    ASSUME NEW j, NEW segs, NEW hdr, Chained(segs, hdr), NEW off \in Nat, NEW h \in DOMAIN segs,
           (off = 0 /\ h = 0) \/ h = off + 2,
           NEW p, ToCome(j, segs, hdr, p, off)
    PROVE  ToCome(j, segs, hdr, p, h + 2)
<1> PICK g \in DOMAIN segs : \E i \in 1 .. Len(segs[g].pages) :
        IsRead(j, segs, hdr, g) /\ RecordAt(g, i) >= off /\ segs[g].pages[i] = p
  BY DEF ToCome
<1> PICK i \in 1 .. Len(segs[g].pages) :
        IsRead(j, segs, hdr, g) /\ RecordAt(g, i) >= off /\ segs[g].pages[i] = p
  OBVIOUS
<1>1. segs \in Segments /\ h \in Nat /\ g \in Nat
  BY SegmentIs DEF Chained
<1>2. RecordAt(g, i) + 3 <= End(segs, g) /\ RecordAt(g, i) \in Nat /\ RecordAt(g, i) >= g + 2
      /\ End(segs, g) \in Nat
  BY <1>1, RecordInSegment, SegmentIs
<1>3. h <= g
  <2> SUFFICES ASSUME g < h PROVE FALSE
    BY <1>1
  <2>1. End(segs, g) + 2 <= h
    BY DEF Chained
  <2>. QED
    BY <1>1, <1>2, <2>1
<1>4. RecordAt(g, i) >= h + 2
  BY <1>1, <1>2, <1>3
<1>. QED
  BY <1>4 DEF ToCome

\* Behind the last record that counts there is none to come.
LEMMA NothingToCome ==
    ASSUME NEW j, NEW segs, NEW hdr, Chained(segs, hdr), NEW off \in Nat,
           \/ End(segs, hdr) <= off
           \/ hdr <= off + 2 /\ ~ IsMagic(At(j, hdr + 1)),
           NEW p
    PROVE  ~ ToCome(j, segs, hdr, p, off)
<1> SUFFICES ASSUME ToCome(j, segs, hdr, p, off) PROVE FALSE
  OBVIOUS
<1> PICK h \in DOMAIN segs : \E i \in 1 .. Len(segs[h].pages) :
        IsRead(j, segs, hdr, h) /\ RecordAt(h, i) >= off
  BY DEF ToCome
<1> PICK i \in 1 .. Len(segs[h].pages) : IsRead(j, segs, hdr, h) /\ RecordAt(h, i) >= off
  OBVIOUS
<1>1. /\ segs \in Segments /\ hdr \in DOMAIN segs /\ End(segs, h) <= End(segs, hdr)
      /\ h # hdr => End(segs, h) + 2 <= hdr
  BY SegmentBeforeLast
<1>2. RecordAt(h, i) + 3 <= End(segs, h) /\ RecordAt(h, i) \in Nat
      /\ End(segs, h) \in Nat /\ End(segs, hdr) \in Nat /\ hdr \in Nat
  BY <1>1, RecordInSegment, SegmentIs
<1>3. CASE End(segs, hdr) <= off
  BY <1>1, <1>2, <1>3
<1>4. CASE hdr <= off + 2 /\ ~ IsMagic(At(j, hdr + 1))
  <2>1. h # hdr
    BY <1>4 DEF IsRead
  <2>. QED
    BY <1>1, <1>2, <1>4, <2>1
<1>. QED
  BY <1>3, <1>4

\* The next header: of a segment that counts, or the playback has come to its
\* end.
LEMMA HeaderPlays ==
    ASSUME NEW j \in Seq(JournalCell), NEW segs, NEW hdr, NEW orig \in 0 .. NPages, NEW com,
           IsPlayable(j, segs, hdr, orig, com),
           NEW s, PlaysBack(j, segs, hdr, orig, com, s), s.left = 0,
           NEW h \in DOMAIN segs, IsRead(j, segs, hdr, h),
           (s.off = 0 /\ h = 0) \/ (s.off # 0 /\ h = s.off + 2)
    PROVE  /\ PlaysBack(j, segs, hdr, orig, com, PlayedOn(j, s))
           /\ PlayedOn(j, s).off >= s.off + 1
<1>1. segs \in Segments /\ Chained(segs, hdr) /\ IsCounted(j, segs, h, orig, com)
  BY DEF IsPlayable, Chained
<1>2. h \in Nat /\ segs[h].seed \in Nat /\ Len(segs[h].pages) \in Nat /\ orig \in Nat
  BY <1>1, SegmentIs, NPagesIsPositive
<1>3. s \in PlaybackState /\ s.off \in Nat
  BY DEF PlaysBack, PlaybackState
<1>4. JournalHdrOffset(s.off) = h
  BY <1>3 DEF JournalHdrOffset
<1>5. /\ HeaderIn(j, h) /\ j[h + 1].magic = Len(segs[h].pages)
      /\ Seed(j[h + 2]) = segs[h].seed /\ j[h + 2].origSize = orig
  BY <1>1, HeaderIsIn
<1>6. s.dbSize = orig \/ h = 0
  <2>1. CASE s.off = 0
    BY <2>1, <1>3
  <2>2. CASE s.off # 0
    BY <2>2 DEF PlaysBack, StandsIn
  <2>. QED
    BY <2>1, <2>2
<1> PICK t : t = PlayedOn(j, s)
  OBVIOUS
<1>7. t = [s EXCEPT !.off = h + 2, !.left = Len(segs[h].pages), !.cksumInit = segs[h].seed,
                    !.dbSize = orig]
  <2>1. t = [s EXCEPT !.off = h + HdrSize, !.left = j[h + 1].magic,
                      !.cksumInit = Seed(j[h + 2]),
                      !.dbSize = IF h = 0 THEN j[h + 2].origSize ELSE @]
    BY <1>4, <1>5 DEF PlayedOn
  <2>2. (IF h = 0 THEN j[h + 2].origSize ELSE s.dbSize) = orig
    BY <1>5, <1>6
  <2>. QED
    BY <1>3, <1>5, <2>1, <2>2 DEF HdrSize, PlaybackState
<1>8. /\ t \in PlaybackState /\ t.off = h + 2 /\ t.left = Len(segs[h].pages)
      /\ t.cksumInit = segs[h].seed /\ t.dbSize = orig /\ t.db = s.db
  <2>1. h + 2 \in Nat
    BY <1>2
  <2>. QED
    BY <1>2, <1>3, <1>7, <2>1, Zenon DEF PlaybackState
<1>9. \A p \in OldPages(com) : Untouched(com, t.db, p) \/ ToCome(j, segs, hdr, p, t.off)
  BY <1>1, <1>3, <1>8, ToComeAfterHeader DEF PlaysBack
<1>10. StandsIn(segs, h, orig, t)
  <2>1. 1 \in 1 .. Len(segs[h].pages) + 1 /\ RecordAt(h, 1) = h + 2
        /\ Len(segs[h].pages) + 1 - 1 = Len(segs[h].pages)
    BY <1>2 DEF RecordAt, HdrSize, RecSize
  <2>. QED
    BY <1>8, <2>1 DEF StandsIn
<1>11. t.off >= s.off + 1
  BY <1>3, <1>8, <1>2
<1>. QED
  BY <1>8, <1>9, <1>10, <1>11 DEF PlaysBack

\* Between two segments, and before the first.
LEMMA HeaderStep ==
    ASSUME NEW j \in Seq(JournalCell), NEW segs, NEW hdr, NEW orig \in 0 .. NPages, NEW com,
           IsPlayable(j, segs, hdr, orig, com),
           NEW s, PlaysBack(j, segs, hdr, orig, com, s), s.left = 0
    PROVE  /\ PlaysBack(j, segs, hdr, orig, com, PlayedOn(j, s))
           /\ PlayedOn(j, s).off >= s.off + 1 \/ AllBack(com, PlayedOn(j, s))
<1>1. /\ segs \in Segments /\ Chained(segs, hdr) /\ 0 \in DOMAIN segs /\ hdr \in DOMAIN segs
      /\ \A h \in DOMAIN segs : h \in Nat /\ h <= hdr
  BY SegmentIs DEF IsPlayable, Chained
<1>2. s \in PlaybackState /\ s.off \in Nat
  BY DEF PlaysBack, PlaybackState
<1>3. ASSUME NEW h \in Nat, JournalHdrOffset(s.off) = h, ~ IsMagic(At(j, h + 1)),
             \A p : ~ ToCome(j, segs, hdr, p, s.off)
      PROVE  PlayedOn(j, s) = s /\ AllBack(com, s)
  <2>1. ~ HeaderIn(j, h)
    BY <1>3, HeaderIsNotIn
  <2>2. PlayedOn(j, s) = s
    BY <1>3, <2>1 DEF PlayedOn
  <2>. QED
    BY <1>3, <2>2 DEF PlaysBack, AllBack
<1>4. CASE s.off = 0
  <2>1. CASE IsRead(j, segs, hdr, 0)
    <3> PICK h \in DOMAIN segs : h = 0
      BY <1>1
    <3>1. IsRead(j, segs, hdr, h) /\ ((s.off = 0 /\ h = 0) \/ (s.off # 0 /\ h = s.off + 2))
      BY <1>4, <2>1
    <3>2. /\ PlaysBack(j, segs, hdr, orig, com, PlayedOn(j, s))
          /\ PlayedOn(j, s).off >= s.off + 1
      BY <3>1, HeaderPlays
    <3>. QED
      BY <3>2
  <2>2. CASE ~ IsRead(j, segs, hdr, 0)
    <3>1. hdr = 0 /\ ~ IsMagic(At(j, hdr + 1))
      BY <1>1, <2>2 DEF IsRead
    <3>2. \A p : ~ ToCome(j, segs, hdr, p, s.off)
      BY <1>1, <1>4, <3>1, NothingToCome
    <3>3. JournalHdrOffset(s.off) = 0
      BY <1>4 DEF JournalHdrOffset
    <3>. QED
      BY <1>3, <3>1, <3>2, <3>3
  <2>. QED
    BY <2>1, <2>2
<1>5. CASE s.off # 0
  <2>1. PICK h \in DOMAIN segs : IsRead(j, segs, hdr, h) /\ StandsIn(segs, h, orig, s)
    BY <1>5 DEF PlaysBack
  <2>2. Len(segs[h].pages) \in Nat /\ h \in Nat /\ End(segs, h) \in Nat
    BY <1>1, SegmentIs
  <2>3. s.off = End(segs, h)
    <3>1. PICK i \in 1 .. Len(segs[h].pages) + 1 :
              s.off = RecordAt(h, i) /\ s.left = Len(segs[h].pages) + 1 - i
      BY <2>1 DEF StandsIn
    <3>2. i = Len(segs[h].pages) + 1
      BY <2>2, <3>1
    <3>. QED
      BY <3>1, <3>2 DEF End
  <2>4. JournalHdrOffset(s.off) = s.off + 2 /\ s.off + 2 \in Nat
    BY <1>2, <1>5 DEF JournalHdrOffset
  <2>5. CASE h = hdr
    <3>1. IsMagic(At(j, hdr + 1)) /\ ~ IsMagic(At(j, End(segs, hdr) + 3))
      BY <2>1, <2>5 DEF IsRead, IsPlayable
    <3>2. ~ IsMagic(At(j, (s.off + 2) + 1))
      <4>1. (s.off + 2) + 1 = End(segs, hdr) + 3
        BY <1>2, <2>3, <2>5
      <4>. QED
        BY <3>1, <4>1
    <3>3. \A p : ~ ToCome(j, segs, hdr, p, s.off)
      <4>1. End(segs, hdr) <= s.off
        BY <1>2, <2>3, <2>5
      <4>. QED
        BY <1>1, <1>2, <4>1, NothingToCome, Zenon
    <3>. QED
      BY <1>3, <2>4, <3>2, <3>3
  <2>6. CASE h # hdr
    <3>1. s.off + 2 \in DOMAIN segs
      BY <1>1, <2>3, <2>6 DEF Chained
    <3>2. CASE IsRead(j, segs, hdr, s.off + 2)
      BY <1>5, <3>1, <3>2, HeaderPlays
    <3>3. CASE ~ IsRead(j, segs, hdr, s.off + 2)
      <4>1. hdr = s.off + 2 /\ ~ IsMagic(At(j, hdr + 1))
        BY <3>1, <3>3 DEF IsRead
      <4>2. \A p : ~ ToCome(j, segs, hdr, p, s.off)
        BY <1>1, <1>2, <4>1, NothingToCome
      <4>. QED
        BY <1>3, <2>4, <4>1, <4>2
    <3>. QED
      BY <3>2, <3>3
  <2>. QED
    BY <2>5, <2>6
<1>. QED
  BY <1>4, <1>5

\* A record puts its page back.
LEMMA RecordStep ==
    ASSUME NEW j \in Seq(JournalCell), NEW segs, NEW hdr, NEW orig \in 0 .. NPages, NEW com,
           IsPlayable(j, segs, hdr, orig, com),
           NEW s, PlaysBack(j, segs, hdr, orig, com, s), s.left # 0
    PROVE  /\ PlaysBack(j, segs, hdr, orig, com, PlayedOn(j, s))
           /\ PlayedOn(j, s).off >= s.off + 1
           /\ AllBack(com, s) => AllBack(com, PlayedOn(j, s))
<1>1. segs \in Segments /\ Chained(segs, hdr)
  BY DEF IsPlayable, Chained
<1>2. /\ s \in PlaybackState /\ s.off \in Nat /\ s.left \in Nat /\ s.left > 0
      /\ s.db \in Databases /\ s.cksumInit \in Nat /\ s.dbSize \in Nat
  BY DEF PlaysBack, PlaybackState
<1>3. PICK h \in DOMAIN segs : IsRead(j, segs, hdr, h) /\ StandsIn(segs, h, orig, s)
  BY DEF PlaysBack
<1>4. PICK i \in 1 .. Len(segs[h].pages) + 1 :
        /\ s.off = RecordAt(h, i) /\ s.left = Len(segs[h].pages) + 1 - i
        /\ s.cksumInit = segs[h].seed /\ s.dbSize = orig
  BY <1>3 DEF StandsIn
<1>5. h \in Nat /\ Len(segs[h].pages) \in Nat /\ IsCounted(j, segs, h, orig, com)
  BY <1>1, <1>3, SegmentIs DEF IsPlayable
<1>6. i \in 1 .. Len(segs[h].pages)
  BY <1>2, <1>4, <1>5
<1> PICK p \in Page : p = segs[h].pages[i]
  BY <1>1, <1>6, SegmentIs
<1>7. Verdict(j, s.off, s.cksumInit, s.dbSize) = "play" /\ j[s.off + 1].pgno = p
  BY <1>1, <1>4, <1>5, <1>6, RecordIsPlayed
<1>8. PICK c \in Content : j[s.off + 2] = PageCell(c) /\ (p \in OldPages(com) => c = Old(com, p))
  BY <1>1, <1>4, <1>5, <1>6, RecordIsPlayed
<1> PICK db : db = Written(s.db, p - 1, <<PageCell(c)>>)
  OBVIOUS
<1>9. PageWritten(s.db, db, p, c)
  BY <1>2, PageIsWritten
<1>10. /\ db \in Databases
       /\ \A q \in Nat \ {0} : q # p /\ Untouched(com, s.db, q) => Untouched(com, db, q)
       /\ p \in OldPages(com) => Untouched(com, db, p)
  <2>1. db \in Databases
    BY <1>9 DEF PageWritten
  <2>2. /\ \A q \in Nat \ {0} : q # p /\ Untouched(com, s.db, q) => Untouched(com, db, q)
        /\ p \in OldPages(com) /\ c = Old(com, p) => Untouched(com, db, p)
    <3> PICK old \in Databases : old = s.db
      BY <1>2
    <3>1. PageWritten(old, db, p, c)
      BY <1>9
    <3>2. /\ \A q \in Nat \ {0} : q # p /\ Untouched(com, old, q) => Untouched(com, db, q)
          /\ p \in OldPages(com) /\ c = Old(com, p) => Untouched(com, db, p)
      BY ONLY <3>1, old \in Databases, p \in Page, OthersKept
    <3>. QED
      BY <3>2
  <2>. QED
    BY <1>8, <2>1, <2>2
<1> PICK t : t = PlayedOn(j, s)
  OBVIOUS
<1>11. /\ t \in PlaybackState /\ t.off = s.off + 3 /\ t.left = s.left - 1
       /\ t.cksumInit = segs[h].seed /\ t.dbSize = orig /\ t.db = db
  <2> PICK off2 \in Nat : off2 = s.off + 3
    BY <1>2
  <2> PICK left2 \in Nat : left2 = s.left - 1
    BY <1>2
  <2>1. t = [s EXCEPT !.off = off2, !.left = left2, !.db = db]
    BY <1>2, <1>7, <1>8 DEF PlayedOn, RecSize, PlaybackState
  <2>2. /\ t \in PlaybackState /\ t.off = off2 /\ t.left = left2
        /\ t.cksumInit = s.cksumInit /\ t.dbSize = s.dbSize /\ t.db = db
    BY <1>2, <1>10, <2>1, Zenon DEF PlaybackState
  <2>. QED
    BY <1>4, <2>2
<1>12. ASSUME NEW q \in OldPages(com), Untouched(com, s.db, q)
       PROVE  Untouched(com, t.db, q)
  <2>1. q \in Nat \ {0}
    BY DEF OldPages
  <2>2. CASE q = p
    BY <1>10, <1>11, <2>2
  <2>3. CASE q # p
    BY <1>10, <1>11, <1>12, <2>1, <2>3
  <2>. QED
    BY <2>2, <2>3
<1>13. ASSUME NEW q \in OldPages(com), ToCome(j, segs, hdr, q, s.off)
       PROVE  Untouched(com, t.db, q) \/ ToCome(j, segs, hdr, q, t.off)
  <2>1. PICK g \in DOMAIN segs : \E k \in 1 .. Len(segs[g].pages) :
            IsRead(j, segs, hdr, g) /\ RecordAt(g, k) >= s.off /\ segs[g].pages[k] = q
    BY <1>13 DEF ToCome
  <2>2. PICK k \in 1 .. Len(segs[g].pages) :
            IsRead(j, segs, hdr, g) /\ RecordAt(g, k) >= s.off /\ segs[g].pages[k] = q
    BY <2>1
  <2>3. CASE g = h /\ k = i
    <3>1. q = p
      BY <2>2, <2>3
    <3>. QED
      BY <1>10, <1>11, <3>1
  <2>4. CASE ~ (g = h /\ k = i)
    <3>1. RecordAt(g, k) \in Nat
      BY <1>1, RecordInSegment
    <3>2. RecordAt(h, i) + 3 <= RecordAt(g, k)
      BY <1>1, <1>2, <1>4, <1>6, <2>2, <2>4, <3>1, RecordsApart
    <3>3. RecordAt(g, k) >= t.off
      BY <1>2, <1>4, <1>11, <3>1, <3>2
    <3>. QED
      BY <2>2, <3>3 DEF ToCome
  <2>. QED
    BY <2>3, <2>4
<1>14. StandsIn(segs, h, orig, t)
  <2>1. i + 1 \in 1 .. Len(segs[h].pages) + 1
    BY <1>5, <1>6
  <2>2. t.off = RecordAt(h, i + 1)
    <3>1. i \in Nat \ {0}
      BY <1>5, <1>6
    <3>. QED
      BY <1>4, <1>5, <1>11, <3>1, RecordAtIs
  <2>3. t.left = Len(segs[h].pages) + 1 - (i + 1)
    <3>1. t.left = s.left - 1 /\ s.left = Len(segs[h].pages) + 1 - i
      BY <1>4, <1>11
    <3>2. \A n, k \in Nat : (n + 1 - k) - 1 = n + 1 - (k + 1)
      OBVIOUS
    <3>3. Len(segs[h].pages) \in Nat /\ i \in Nat
      BY <1>5, <1>6
    <3>. QED
      BY <3>1, <3>2, <3>3, Zenon
  <2>. QED
    BY <1>11, <2>1, <2>2, <2>3 DEF StandsIn
<1>15. PlaysBack(j, segs, hdr, orig, com, t)
  BY <1>3, <1>11, <1>12, <1>13, <1>14 DEF PlaysBack
<1>16. AllBack(com, s) => AllBack(com, t)
  BY <1>12 DEF AllBack
<1>. QED
  BY <1>2, <1>11, <1>15, <1>16

\* A journal that is played back puts every page back that the database had.
LEMMA PlaybackRestores ==
    ASSUME NEW j \in Seq(JournalCell), NEW segs, NEW hdr, NEW orig \in 0 .. NPages,
           NEW com \in Seq(Versions), com # << >>,
           IsPlayable(j, segs, hdr, orig, com),
           NEW d \in Databases,
           \A p \in OldPages(com) : Untouched(com, d, p) \/ ToCome(j, segs, hdr, p, 0)
    PROVE  SeenIn(Replayed(j, d)) = com
<1> PICK run : run = Playback(j, d)
  OBVIOUS
<1>1. /\ Len(j) \in Nat
      /\ run[0] = Begins(d)
      /\ \A n \in 1 .. Len(j) : run[n] = PlayedOn(j, run[n - 1])
  BY PlaybackIs
<1> DEFINE Comes(n) == /\ PlaysBack(j, segs, hdr, orig, com, run[n])
                       /\ run[n].off >= n \/ AllBack(com, run[n])
           Bad == {n \in 0 .. Len(j) : ~ Comes(n)}
<1>2. Bad = {}
  <2> SUFFICES ASSUME Bad # {} PROVE FALSE
    OBVIOUS
  <2>1. Bad \in SUBSET Nat
    OBVIOUS
  <2>2. PICK n \in Bad : \A m \in Bad : n <= m
    BY <2>1, LeastNumber
  <2>3. n \in 0 .. Len(j) /\ ~ Comes(n)
    OBVIOUS
  <2> HIDE DEF Bad
  <2>4. CASE n = 0
    <3>1. Begins(d) \in PlaybackState /\ Begins(d).off = 0 /\ Begins(d).left = 0 /\ Begins(d).db = d
      BY DEF Begins, PlaybackState
    <3>2. Comes(0)
      BY <1>1, <3>1 DEF PlaysBack
    <3>. QED
      BY <2>3, <2>4, <3>2
  <2>5. CASE n # 0
    <3>1. n - 1 \in 0 .. Len(j) /\ n \in 1 .. Len(j) /\ ~ (n <= n - 1) /\ n - 1 \in Nat
      BY <1>1, <2>3, <2>5
    <3>2. Comes(n - 1)
      BY <2>2, <3>1 DEF Bad
    <3> PICK s : s = run[n - 1]
      OBVIOUS
    <3> PICK t : t = run[n]
      OBVIOUS
    <3>3. t = PlayedOn(j, s)
      BY <1>1, <3>1
    <3>4. s \in PlaybackState /\ s.off \in Nat
      BY <3>2 DEF PlaysBack, PlaybackState
    <3>5. /\ PlaysBack(j, segs, hdr, orig, com, t)
          /\ t.off >= s.off + 1 \/ AllBack(com, t)
      BY <3>2, <3>3, HeaderStep, RecordStep
    <3>6. AllBack(com, s) /\ s.left # 0 => AllBack(com, t)
      BY <3>2, <3>3, RecordStep
    <3>7. AllBack(com, s) /\ s.left = 0 => AllBack(com, t)
      <4>1. s.left = 0 => t.db = s.db
        BY <3>3, <3>4 DEF PlayedOn, PlaybackState
      <4>. QED
        BY <4>1 DEF AllBack
    <3>8. t \in PlaybackState /\ t.off \in Nat
      BY <3>5 DEF PlaysBack, PlaybackState
    <3>9. s.off >= n - 1 \/ AllBack(com, s)
      BY <3>2
    <3>10. t.off >= n \/ AllBack(com, t)
      BY <3>1, <3>4, <3>5, <3>6, <3>7, <3>8, <3>9
    <3>. QED
      BY <2>3, <3>5, <3>10
  <2>. QED
    BY <2>4, <2>5
<1> PICK s : s = run[Len(j)]
  OBVIOUS
<1>3. PlaysBack(j, segs, hdr, orig, com, s) /\ (s.off >= Len(j) \/ AllBack(com, s))
  BY <1>1, <1>2
<1>4. s \in PlaybackState /\ s.off \in Nat /\ s.db \in Databases
  BY <1>3 DEF PlaysBack, PlaybackState
<1>5. ASSUME s.off >= Len(j), NEW p PROVE ~ ToCome(j, segs, hdr, p, s.off)
  <2> SUFFICES ASSUME ToCome(j, segs, hdr, p, s.off) PROVE FALSE
    OBVIOUS
  <2>1. PICK h \in DOMAIN segs : \E i \in 1 .. Len(segs[h].pages) :
            IsRead(j, segs, hdr, h) /\ RecordAt(h, i) >= s.off
    BY DEF ToCome
  <2>2. PICK i \in 1 .. Len(segs[h].pages) : RecordAt(h, i) >= s.off
    BY <2>1
  <2>3. segs \in Segments /\ IsCounted(j, segs, h, orig, com)
    BY <2>1 DEF IsPlayable, Chained
  <2>4. RecordAt(h, i) \in Nat
    BY <2>3, RecordInSegment
  <2> PICK a \in Nat \ {0} : a = RecordAt(h, i) + 1
    BY <2>4
  <2>5. At(j, a) = Pgno(segs[h].pages[i])
    BY <2>3 DEF IsCounted
  <2>6. a <= Len(j)
    BY <2>5, CellIsThere, NotZero
  <2>. QED
    BY <1>1, <1>4, <1>5, <2>2, <2>4, <2>6
<1>6. AllBack(com, s)
  BY <1>3, <1>5 DEF PlaysBack, AllBack
<1>7. SeenIn(s.db) = com
  BY <1>4, <1>6, SeenInIs DEF AllBack
<1>. QED
  BY <1>7 DEF Replayed

\* A journal whose first header cannot be read changes nothing.
LEMMA UnreadableChangesNothing ==
    ASSUME NEW j, Len(j) \in Nat, ~ HeaderIn(j, 0), NEW d
    PROVE  Replayed(j, d) = d
<1> PICK run : run = Playback(j, d)
  OBVIOUS
<1>1. /\ run[0] = Begins(d)
      /\ \A n \in 1 .. Len(j) : run[n] = PlayedOn(j, run[n - 1])
  BY PlaybackIs
<1>2. PlayedOn(j, Begins(d)) = Begins(d)
  BY DEF PlayedOn, Begins, JournalHdrOffset
<1> DEFINE Bad == {n \in 0 .. Len(j) : run[n] # Begins(d)}
<1>3. Bad = {}
  <2> SUFFICES ASSUME Bad # {} PROVE FALSE
    OBVIOUS
  <2>1. Bad \in SUBSET Nat
    OBVIOUS
  <2>2. PICK n \in Bad : \A m \in Bad : n <= m
    BY <2>1, LeastNumber
  <2>3. n \in 0 .. Len(j) /\ run[n] # Begins(d)
    OBVIOUS
  <2>4. n # 0
    BY <1>1, <2>3
  <2>5. n \in 1 .. Len(j) /\ n - 1 \in 0 .. Len(j) /\ ~ (n <= n - 1)
    BY <2>3, <2>4
  <2>6. run[n - 1] = Begins(d)
    BY <2>2, <2>5
  <2>. QED
    BY <1>1, <1>2, <2>3, <2>5, <2>6
<1>4. run[Len(j)] = Begins(d)
  BY <1>3
<1>. QED
  BY <1>4 DEF Replayed, Begins

-----------------------------------------------------------------------------
(* What a loss of power can leave                                          *)

MediaJournal == IF media["journal"] = NoFile THEN << >> ELSE media["journal"]

\* j has, cell by cell, what the file had or what it was given.
IsMixed(j, old, new) ==
    \A i \in Nat \ {0} : At(j, i) = At(old, i) \/ At(j, i) = At(new, i)

LEMMA MixIs ==
    ASSUME NEW S, ZeroCell \in S, NEW old \in Seq(S), NEW new \in Seq(S),
           NEW j \in Mixes(old, new)
    PROVE  j \in Seq(S) /\ Len(j) \in {Len(old), Len(new)} /\ IsMixed(j, old, new)
<1>1. PICK n \in {Len(old), Len(new)} : \E T \in SUBSET {i \in 1 .. n : At(old, i) # At(new, i)} :
          j = [i \in 1 .. n |-> IF i \in T THEN At(new, i) ELSE At(old, i)]
  <2> DEFINE Mixed(n) == {[i \in 1 .. n |-> IF i \in T THEN At(new, i) ELSE At(old, i)] :
                              T \in SUBSET {i \in 1 .. n : At(old, i) # At(new, i)}}
  <2>1. j \in UNION {Mixed(n) : n \in {Len(old), Len(new)}}
    BY DEF Mixes
  <2> HIDE DEF Mixed
  <2>2. PICK n \in {Len(old), Len(new)} : j \in Mixed(n)
    BY <2>1
  <2> USE DEF Mixed
  <2>. QED
    BY <2>2
<1>2. PICK T \in SUBSET {i \in 1 .. n : At(old, i) # At(new, i)} :
          j = [i \in 1 .. n |-> IF i \in T THEN At(new, i) ELSE At(old, i)]
  BY <1>1
<1>3. n \in Nat /\ Len(old) \in Nat /\ Len(new) \in Nat
  BY <1>1
<1>4. \A i : At(old, i) \in S /\ At(new, i) \in S
  BY CellAt
<1>5. j \in Seq(S) /\ Len(j) = n
  BY <1>2, <1>3, <1>4
<1>6. ASSUME NEW i \in Nat \ {0} PROVE At(j, i) = At(old, i) \/ At(j, i) = At(new, i)
  <2>1. CASE i \in 1 .. n
    BY <1>2, <1>5, <2>1 DEF At
  <2>2. CASE i \notin 1 .. n
    <3>1. At(j, i) = ZeroCell
      BY <1>5, <2>2 DEF At
    <3>2. At(old, i) = ZeroCell \/ At(new, i) = ZeroCell
      BY <1>1, <2>2 DEF At
    <3>. QED
      BY <3>1, <3>2
  <2>. QED
    BY <2>1, <2>2
<1>. QED
  BY <1>1, <1>5, <1>6 DEF IsMixed

\* The journal comes to the medium before it is known to be there.
JournalKnown == disk["journal"] = NoFile => media["journal"] = NoFile

LEMMA MediaTyped ==
    TypeInv => /\ MediaJournal \in Seq(JournalCell) /\ JournalContent \in Seq(JournalCell)
               /\ \A p \in {"db", "journal"} : disk[p] \in {NoFile} \cup Seq(JournalCell)
               /\ \A p \in {"db", "journal"} : media[p] \in {NoFile} \cup Seq(JournalCell)
<1> SUFFICES ASSUME TypeInv
             PROVE  /\ MediaJournal \in Seq(JournalCell) /\ JournalContent \in Seq(JournalCell)
                    /\ \A p \in {"db", "journal"} : disk[p] \in {NoFile} \cup Seq(JournalCell)
                    /\ \A p \in {"db", "journal"} : media[p] \in {NoFile} \cup Seq(JournalCell)
  OBVIOUS
<1>1. /\ \A p \in {"db", "journal"} : disk[p] \in {NoFile} \cup Seq(JournalCell)
      /\ \A p \in {"db", "journal"} : media[p] \in {NoFile} \cup Seq(JournalCell)
  BY DEF TypeInv, FilesOK, StoreTypeOK
<1>2. << >> \in Seq(JournalCell)
  OBVIOUS
<1>. QED
  BY <1>1, <1>2, InvTyped DEF MediaJournal

\* A journal that survives is played back as one that is a mix of the two.
LEMMA JournalSurvives ==
    ASSUME TypeInv, JournalKnown, NEW j \in Survivors("journal")
    PROVE  \E k \in Seq(JournalCell) :
              /\ IsMixed(k, MediaJournal, JournalContent)
              /\ \A d : Recovered(j, d) = Replayed(k, d)
<1>1. /\ MediaJournal \in Seq(JournalCell) /\ JournalContent \in Seq(JournalCell)
      /\ disk["journal"] \in {NoFile} \cup Seq(JournalCell)
      /\ media["journal"] \in {NoFile} \cup Seq(JournalCell)
  BY MediaTyped
<1>2. CASE j = NoFile /\ media["journal"] = NoFile
  <2>1. IsMixed(<< >>, MediaJournal, JournalContent)
    BY <1>2 DEF IsMixed, MediaJournal
  <2>2. << >> \in Seq(JournalCell) /\ Len(<< >>) = 0
    OBVIOUS
  <2>3. ~ HeaderIn(<< >>, 0)
    BY <2>2 DEF HeaderIn, HdrSize
  <2>4. \A d : Recovered(j, d) = Replayed(<< >>, d)
    BY <1>2, <2>2, <2>3, UnreadableChangesNothing DEF Recovered
  <2>. QED
    BY <2>1, <2>2, <2>4
<1>3. CASE j # NoFile /\ disk["journal"] = media["journal"]
  <2>1. j = disk["journal"]
    BY <1>3 DEF Survivors
  <2>2. j \in Seq(JournalCell) /\ JournalContent = j
    BY <1>1, <1>3, <2>1 DEF JournalContent, Exists
  <2>3. IsMixed(j, MediaJournal, JournalContent)
    BY <2>2 DEF IsMixed
  <2>4. \A d : Recovered(j, d) = Replayed(j, d)
    BY <1>3 DEF Recovered
  <2>. QED
    BY <2>2, <2>3, <2>4
<1>4. CASE j # NoFile /\ disk["journal"] # media["journal"]
  <2>1. disk["journal"] # NoFile /\ JournalContent = disk["journal"]
    BY <1>4 DEF JournalKnown, JournalContent, Exists
  <2>2. j \in Mixes(MediaJournal, JournalContent)
    BY <1>4, <2>1 DEF Survivors, MediaJournal
  <2>3. j \in Seq(JournalCell) /\ IsMixed(j, MediaJournal, JournalContent)
    BY <1>1, <2>2, MixIs, ZeroIs
  <2>4. \A d : Recovered(j, d) = Replayed(j, d)
    BY <1>4 DEF Recovered
  <2>. QED
    BY <2>3, <2>4
<1>5. j = NoFile => media["journal"] = NoFile
  <2> SUFFICES ASSUME j = NoFile, media["journal"] # NoFile PROVE FALSE
    OBVIOUS
  <2>1. disk["journal"] # NoFile
    BY DEF JournalKnown
  <2>2. CASE disk["journal"] = media["journal"]
    BY <2>1, <2>2 DEF Survivors
  <2>3. CASE disk["journal"] # media["journal"]
    <3>1. j \in Mixes(media["journal"], disk["journal"])
      BY <2>3 DEF Survivors
    <3>2. j \in Seq(JournalCell)
      BY <1>1, <2>1, <3>1, MixIs, ZeroIs
    <3>. QED
      BY <3>2, NoFileIsNoContent
  <2>. QED
    BY <2>2, <2>3
<1>. QED
  BY <1>2, <1>3, <1>4, <1>5

\* A database that survives has the pages that both files have.
LEMMA DbSurvives ==
    ASSUME TypeInv, media["db"] \in Databases, NEW d \in Survivors("db")
    PROVE  /\ d \in Databases
           /\ \A com : \A p \in OldPages(com) :
                 Untouched(com, media["db"], p) /\ Untouched(com, disk["db"], p)
                 => Untouched(com, d, p)
<1> PICK old \in Databases : old = media["db"]
  OBVIOUS
<1> PICK new \in Databases : new = disk["db"]
  BY InvTyped
<1>1. CASE new = old
  BY <1>1 DEF Survivors
<1>2. CASE new # old
  <2>1. old # NoFile
    BY NoFileIsNoContent, DbCellsAreCells DEF Databases
  <2>2. d \in Mixes(old, new)
    BY <1>2, <2>1 DEF Survivors
  <2>3. old \in Seq(DbCell) /\ new \in Seq(DbCell) /\ Len(old) <= NPages /\ Len(new) <= NPages
    BY DEF Databases
  <2>4. d \in Seq(DbCell) /\ Len(d) \in {Len(old), Len(new)} /\ IsMixed(d, old, new)
    <3>1. ZeroCell \in DbCell
      BY DEF DbCell
    <3>. QED
      BY <2>2, <2>3, <3>1, MixIs
  <2>5. d \in Databases
    BY <2>3, <2>4 DEF Databases
  <2>6. ASSUME NEW com, NEW p \in OldPages(com), Untouched(com, old, p), Untouched(com, new, p)
        PROVE  Untouched(com, d, p)
    <3>1. p \in Nat \ {0} /\ p <= Len(old) /\ p <= Len(new)
      BY <2>6 DEF OldPages, Untouched
    <3>2. p \in 1 .. Len(old) /\ p \in 1 .. Len(new) /\ p \in 1 .. Len(d)
      BY <2>3, <2>4, <3>1
    <3>3. d[p] = old[p] \/ d[p] = new[p]
      BY <2>4, <3>1, <3>2 DEF IsMixed, At
    <3>. QED
      BY <2>6, <3>2, <3>3 DEF Untouched
  <2>. QED
    BY <2>5, <2>6
<1>. QED
  BY <1>1, <1>2

-----------------------------------------------------------------------------
(* Segments of two journals                                                *)

LEMMA CountedHere ==
    ASSUME NEW j \in Seq(JournalCell), NEW segs, NEW hdr, NEW orig, NEW com,
           Chained(segs, hdr), IsJournal(j, segs, hdr, orig, com), NEW h \in DOMAIN segs,
           h # hdr \/ j[hdr + 1] = Magic(Len(segs[hdr].pages))
    PROVE  IsCounted(j, segs, h, orig, com)
<1>1. /\ segs \in Segments /\ hdr \in DOMAIN segs /\ End(segs, h) <= End(segs, hdr)
      /\ h \in Nat /\ Len(segs[h].pages) \in Nat
      /\ End(segs, h) = h + 2 + 3 * Len(segs[h].pages)
      /\ End(segs, h) \in Nat /\ End(segs, hdr) \in Nat
  BY SegmentBeforeLast, SegmentIs
<1>2. End(segs, h) <= Len(j) /\ Len(j) \in Nat
  BY <1>1 DEF IsJournal
<1>3. ASSUME NEW i \in Nat \ {0}, i <= End(segs, h) PROVE At(j, i) = j[i]
  BY <1>1, <1>2, <1>3 DEF At
<1>4. h + 1 \in Nat \ {0} /\ h + 1 <= End(segs, h) /\ h + 2 \in Nat \ {0} /\ h + 2 <= End(segs, h)
  BY <1>1
<1>5. At(j, h + 1) = Magic(Len(segs[h].pages)) /\ At(j, h + 2) = Nonce(segs[h].seed, orig)
  BY <1>3, <1>4 DEF IsJournal
<1>6. ASSUME NEW i \in 1 .. Len(segs[h].pages)
      PROVE  /\ segs[h].pages[i] <= orig
             /\ At(j, RecordAt(h, i) + 1) = Pgno(segs[h].pages[i])
             /\ \E c \in Content :
                   /\ At(j, RecordAt(h, i) + 2) = PageCell(c)
                   /\ At(j, RecordAt(h, i) + 3) = Cksum(segs[h].seed, c)
                   /\ segs[h].pages[i] \in OldPages(com) => c = Old(com, segs[h].pages[i])
  <2>1. /\ segs[h].pages[i] <= orig
        /\ IsRecord(j, RecordAt(h, i), segs[h].seed, segs[h].pages[i], com)
    BY DEF IsJournal
  <2> PICK off \in Nat : off = RecordAt(h, i) /\ off + 3 <= End(segs, h)
    BY <1>1, RecordInSegment
  <2>2. At(j, off + 1) = j[off + 1] /\ At(j, off + 2) = j[off + 2] /\ At(j, off + 3) = j[off + 3]
    BY <1>1, <1>3
  <2>. QED
    BY <2>1, <2>2 DEF IsRecord
<1>. QED
  BY <1>5, <1>6 DEF IsCounted

LEMMA CountedElsewhere ==
    ASSUME NEW m, NEW k, NEW segs \in Segments, NEW h \in DOMAIN segs, NEW orig, NEW com,
           IsCounted(m, segs, h, orig, com),
           \A i \in Nat \ {0} : h < i /\ i <= End(segs, h) => At(k, i) = At(m, i)
    PROVE  IsCounted(k, segs, h, orig, com)
<1>1. /\ h \in Nat /\ Len(segs[h].pages) \in Nat
      /\ End(segs, h) = h + 2 + 3 * Len(segs[h].pages)
  BY SegmentIs
<1>2. At(k, h + 1) = At(m, h + 1) /\ At(k, h + 2) = At(m, h + 2)
  <2> PICK a \in Nat \ {0}, b \in Nat \ {0} :
            a = h + 1 /\ b = h + 2 /\ h < a /\ a <= End(segs, h) /\ h < b /\ b <= End(segs, h)
    BY <1>1
  <2>1. At(k, a) = At(m, a) /\ At(k, b) = At(m, b)
    BY ZenonT(30)
  <2>. QED
    BY <2>1
<1>3. ASSUME NEW i \in 1 .. Len(segs[h].pages)
      PROVE  /\ At(k, RecordAt(h, i) + 1) = At(m, RecordAt(h, i) + 1)
             /\ At(k, RecordAt(h, i) + 2) = At(m, RecordAt(h, i) + 2)
             /\ At(k, RecordAt(h, i) + 3) = At(m, RecordAt(h, i) + 3)
  <2> PICK off \in Nat : off = RecordAt(h, i) /\ off + 3 <= End(segs, h) /\ off >= h + 2
    BY <1>1, RecordInSegment
  <2>2. End(segs, h) \in Nat
    BY <1>1
  <2> PICK a \in Nat \ {0} : a = off + 1 /\ h < a /\ a <= End(segs, h)
    BY <1>1, <2>2, SMTT(30)
  <2> PICK b \in Nat \ {0} : b = off + 2 /\ h < b /\ b <= End(segs, h)
    BY <1>1, <2>2
  <2> PICK c \in Nat \ {0} : c = off + 3 /\ h < c /\ c <= End(segs, h)
    BY <1>1, <2>2
  <2>1. At(k, a) = At(m, a) /\ At(k, b) = At(m, b) /\ At(k, c) = At(m, c)
    BY ZenonT(30)
  <2>. QED
    BY <2>1
<1>. QED
  BY <1>2, <1>3 DEF IsCounted

\* Up to a header that has no magic.
LEMMA PlayableUpTo ==
    ASSUME NEW m, NEW k, NEW segs, NEW hdr, NEW orig, NEW com, Chained(segs, hdr),
           \A h \in DOMAIN segs \ {hdr} : IsCounted(m, segs, h, orig, com),
           \A i \in 1 .. hdr : At(k, i) = At(m, i),
           ~ IsMagic(At(k, hdr + 1))
    PROVE  /\ IsPlayable(k, segs, hdr, orig, com)
           /\ \A h \in DOMAIN segs \ {hdr} : IsRead(k, segs, hdr, h)
<1>1. segs \in Segments /\ hdr \in DOMAIN segs
  BY DEF Chained
<1>2. hdr \in Nat
  BY <1>1, SegmentIs
<1>3. ASSUME NEW h \in DOMAIN segs \ {hdr} PROVE IsCounted(k, segs, h, orig, com)
  <2>1. End(segs, h) + 2 <= hdr /\ End(segs, h) \in Nat /\ h \in Nat
    BY <1>1, SegmentBeforeLast, SegmentIs
  <2>2. \A i \in Nat \ {0} : h < i /\ i <= End(segs, h) => At(k, i) = At(m, i)
    BY <1>2, <2>1
  <2>. QED
    BY <1>1, <2>2, CountedElsewhere
<1>. QED
  BY <1>1, <1>3 DEF IsPlayable, IsRead

\* With a last segment that is counted as well.
LEMMA PlayableWhole ==
    ASSUME NEW m, NEW k, NEW segs, NEW hdr, NEW orig, NEW com, Chained(segs, hdr),
           \A h \in DOMAIN segs : IsCounted(m, segs, h, orig, com),
           ~ IsMagic(At(m, End(segs, hdr) + 3)),
           \A i \in Nat \ {0} : At(k, i) = At(m, i)
    PROVE  /\ IsPlayable(k, segs, hdr, orig, com)
           /\ \A h \in DOMAIN segs : IsRead(k, segs, hdr, h)
<1>1. segs \in Segments /\ hdr \in DOMAIN segs
  BY DEF Chained
<1>2. hdr \in Nat /\ End(segs, hdr) \in Nat /\ Len(segs[hdr].pages) \in Nat
  BY <1>1, SegmentIs
<1>3. \A h \in DOMAIN segs : IsCounted(k, segs, h, orig, com)
  BY <1>1, CountedElsewhere
<1>4. ~ IsMagic(At(k, End(segs, hdr) + 3))
  BY <1>2
<1>5. IsMagic(At(k, hdr + 1))
  BY <1>1, <1>3, MagicReads DEF IsCounted
<1>. QED
  BY <1>3, <1>4, <1>5 DEF IsPlayable, IsRead

\* A page of a segment that is read is still to come at the start.
LEMMA SegmentToCome ==
    ASSUME NEW j, NEW segs \in Segments, NEW hdr, NEW h \in DOMAIN segs, IsRead(j, segs, hdr, h),
           NEW p, InSegment(segs, h, p)
    PROVE  ToCome(j, segs, hdr, p, 0)
<1>1. PICK i \in 1 .. Len(segs[h].pages) : segs[h].pages[i] = p
  BY DEF InSegment
<1>2. RecordAt(h, i) \in Nat
  BY RecordInSegment
<1>3. RecordAt(h, i) >= 0
  BY <1>2
<1>. QED
  BY <1>1, <1>3 DEF ToCome

-----------------------------------------------------------------------------
(* The files on the medium                                                 *)

\* The records of a transaction that commits are synced and counted.
Finishing == pc.op = "commit" /\ pc.at \in {"pages", "syncDb", "zero", "syncZero"}

\* A transaction has a journal, of which the last segment does not count yet.
Filling == pager.eState \in {"CACHEMOD", "DBMOD"} /\ ~ Finishing

\* The database, before the transaction reaches it for good.
MediaDb ==
    /\ media["db"] \in Databases
    /\ pager.eState = "DBMOD" =>
          \A p \in OldPages(committed) : Untouched(committed, media["db"], p)

PreviousIs == previous = committed \/ (pc.op = "commit" /\ pc.at = "syncZero")

\* What is before the last header is on the medium.
FillingSynced ==
    Filling =>
        /\ \A i \in 1 .. pager.journalHdr :
              (pc.at = "syncZero" => i > 2) => At(JournalContent, i) = At(MediaJournal, i)
        /\ ~ IsMagic(At(MediaJournal, pager.journalHdr + 1))
        /\ pc.at # "syncHdr" => ~ IsMagic(At(JournalContent, pager.journalHdr + 1))

\* No old header follows the records that are synced, and they are there before
\* they are counted.
RecordsSynced ==
    /\ pc.at \in {"syncRecords", "nRec", "syncHdr"} =>
          ~ IsMagic(At(JournalContent, pager.journalOff + 3))
    /\ pc.at \in {"nRec", "syncHdr"} =>
          \A i \in Nat \ {0} : (pc.at = "syncHdr" => i # pager.journalHdr + 1) =>
              At(JournalContent, i) = At(MediaJournal, i)

FinishingSynced ==
    Finishing =>
        \A i \in Nat \ {0} : (pc.at = "syncZero" => i > 2) =>
            At(JournalContent, i) = At(MediaJournal, i)

HeaderZeroed ==
    pc.at = "syncZero" => At(JournalContent, 1) = ZeroCell /\ At(JournalContent, 2) = ZeroCell

\* Between transactions nothing can be read.
NoJournal ==
    pager.eState \notin {"CACHEMOD", "DBMOD", "FINISHED"} =>
        ~ IsMagic(At(MediaJournal, 1)) /\ ~ IsMagic(At(JournalContent, 1))

\* The segments on the medium have every page of the image com that the file
\* may have lost.
RecordsOf(segs, last, com) ==
    /\ Chained(segs, last)
    /\ \A h \in DOMAIN segs : IsCounted(MediaJournal, segs, h, pager.dbOrigSize, com)
    /\ ~ IsMagic(At(MediaJournal, End(segs, last) + 3))
    /\ \A p \in OldPages(com) :
          \/ \E h \in DOMAIN segs : InSegment(segs, h, p)
          \/ Untouched(com, disk["db"], p) /\ p \notin pager.dirty

\* The segments before the last header.
RecordsBefore(segs, com) ==
    /\ Chained(segs, pager.journalHdr)
    /\ \A h \in DOMAIN segs \ {pager.journalHdr} :
          IsCounted(MediaJournal, segs, h, pager.dbOrigSize, com)

MediaRecords ==
    /\ Committing /\ pc.at \in Syncing => \E segs : RecordedBy(segs)
    /\ Committing /\ Finishing => \E segs, last : RecordsOf(segs, last, previous)
    /\ RolledBack => \E segs : RecordsBefore(segs, committed)

MediaInv ==
    /\ JournalKnown /\ MediaDb /\ PreviousIs
    /\ FillingSynced /\ RecordsSynced /\ FinishingSynced /\ HeaderZeroed /\ NoJournal
    /\ MediaRecords

-----------------------------------------------------------------------------
(* What a playback makes of what survives                                  *)

\* The journal k and the database d survive.
Surviving(k, d) ==
    /\ k \in Seq(JournalCell) /\ IsMixed(k, MediaJournal, JournalContent)
    /\ d \in Databases
    /\ \A com : \A p \in OldPages(com) :
          Untouched(com, media["db"], p) /\ Untouched(com, disk["db"], p) => Untouched(com, d, p)

LEMMA SurvivingAre ==
    ASSUME TypeInv, JournalKnown, MediaDb, NEW j \in Survivors("journal"), NEW d \in Survivors("db")
    PROVE  \E k : Surviving(k, d) /\ Recovered(j, d) = Replayed(k, d)
<1>1. media["db"] \in Databases
  BY DEF MediaDb
<1>2. PICK k \in Seq(JournalCell) : /\ IsMixed(k, MediaJournal, JournalContent)
                                    /\ \A e : Recovered(j, e) = Replayed(k, e)
  BY JournalSurvives
<1>. QED
  BY <1>1, <1>2, DbSurvives DEF Surviving

\* A database that needs no journal, and a journal that cannot be read.
LEMMA NothingToPlay ==
    ASSUME TypeInv, NEW k, NEW d, Surviving(k, d), ~ HeaderIn(k, 0),
           NEW com \in Seq(Versions), com # << >>,
           \A p \in OldPages(com) : Untouched(com, media["db"], p) /\ Untouched(com, disk["db"], p)
    PROVE  SeenIn(Replayed(k, d)) = com
<1>1. k \in Seq(JournalCell) /\ Len(k) \in Nat /\ d \in Databases
  BY DEF Surviving
<1>2. Replayed(k, d) = d
  BY <1>1, UnreadableChangesNothing
<1>3. \A p \in OldPages(com) : Untouched(com, d, p)
  BY DEF Surviving
<1>. QED
  BY <1>1, <1>2, <1>3, SeenInIs

LEMMA SettledRecovers ==
    ASSUME TypeInv, FileInv, MediaInv, Settled, committed # << >>,
           NEW k, NEW d, Surviving(k, d)
    PROVE  SeenIn(Replayed(k, d)) = committed
<1>1. pager.eState \in {"CLOSED", "OPEN", "READER", "LOCKED"}
  BY DEF Settled
<1>2. ~ IsMagic(At(MediaJournal, 1)) /\ ~ IsMagic(At(JournalContent, 1))
  BY <1>1 DEF MediaInv, NoJournal
<1>3. k \in Seq(JournalCell) /\ ~ IsMagic(At(k, 0 + 1))
  BY <1>2 DEF Surviving, IsMixed
<1>4. ~ HeaderIn(k, 0)
  BY <1>3, HeaderIsNotIn
<1>5. media["db"] = disk["db"]
  BY <1>1 DEF FileInv, FileSynced
<1>6. \A p \in OldPages(committed) : Untouched(committed, disk["db"], p)
  BY DEF Settled, SettledPages, AllRestored, Restored
<1>7. committed \in Seq(Versions)
  BY InvTyped
<1>. QED
  BY <1>4, <1>5, <1>6, <1>7, NothingToPlay

\* Every page is as it was, or has a record in a segment that is synced.
LEMMA FillingRecovers ==
    ASSUME TypeInv, FileInv, MediaInv, committed # << >>,
           pager.eState \in {"CACHEMOD", "DBMOD"}, ~ Finishing, pc.at # "syncZero",
           NEW segs, HasRecords(committed, disk["db"], JournalContent, segs, pager),
           \A p \in OldPages(committed) : Untouched(committed, disk["db"], p) \/ Ahead(segs, p, 0),
           pc.at = "syncHdr" =>
              /\ JournalContent[pager.journalHdr + 1] = Magic(Len(segs[pager.journalHdr].pages))
              /\ pager.journalOff = End(segs, pager.journalHdr),
           NEW k, NEW d, Surviving(k, d)
    PROVE  SeenIn(Replayed(k, d)) = committed
<1> PICK hdr : hdr = pager.journalHdr
  OBVIOUS
<1> PICK orig : orig = pager.dbOrigSize
  OBVIOUS
<1>1. /\ Chained(segs, hdr) /\ IsJournal(JournalContent, segs, hdr, orig, committed)
      /\ hdr \in Nat /\ orig \in 0 .. NPages /\ JournalContent \in Seq(JournalCell)
      /\ segs \in Segments /\ hdr \in DOMAIN segs /\ committed \in Seq(Versions)
      /\ k \in Seq(JournalCell) /\ IsMixed(k, MediaJournal, JournalContent) /\ d \in Databases
  BY InvTyped DEF HasRecords, Chained, Pagers, Surviving
<1>2. /\ \A i \in 1 .. hdr : At(JournalContent, i) = At(MediaJournal, i)
      /\ ~ IsMagic(At(MediaJournal, hdr + 1))
      /\ pc.at # "syncHdr" => ~ IsMagic(At(JournalContent, hdr + 1))
  BY DEF MediaInv, FillingSynced, Filling
<1>3. IsPlayable(k, segs, hdr, orig, committed)
      /\ \A h \in DOMAIN segs \ {hdr} : IsRead(k, segs, hdr, h)
  <2>1. CASE ~ IsMagic(At(k, hdr + 1))
    <3>1. \A h \in DOMAIN segs \ {hdr} : IsCounted(JournalContent, segs, h, orig, committed)
      BY <1>1, CountedHere
    <3>2. \A i \in 1 .. hdr : At(k, i) = At(JournalContent, i)
      BY <1>1, <1>2 DEF IsMixed
    <3>. QED
      BY <1>1, <2>1, <3>1, <3>2, PlayableUpTo
  <2>2. CASE IsMagic(At(k, hdr + 1))
    <3> PICK at \in Nat \ {0} : at = hdr + 1
      BY <1>1
    <3>1. pc.at = "syncHdr" /\ At(k, at) = At(JournalContent, at)
      BY <1>1, <1>2, <2>2 DEF IsMixed
    <3>2. \A h \in DOMAIN segs : IsCounted(JournalContent, segs, h, orig, committed)
      BY <1>1, <3>1, CountedHere
    <3>3. \A i \in Nat \ {0} : i # at => At(JournalContent, i) = At(MediaJournal, i)
      BY <3>1 DEF MediaInv, RecordsSynced
    <3>4. \A i \in Nat \ {0} : At(k, i) = At(JournalContent, i)
      BY <1>1, <3>1, <3>3 DEF IsMixed
    <3>5. ~ IsMagic(At(JournalContent, End(segs, hdr) + 3))
      BY <3>1 DEF MediaInv, RecordsSynced
    <3>. QED
      BY <1>1, <3>2, <3>4, <3>5, PlayableWhole
  <2>. QED
    BY <2>1, <2>2
<1>4. \A p \in OldPages(committed) : Untouched(committed, disk["db"], p) => Untouched(committed, d, p)
  <2>1. pager.eState = "DBMOD" =>
            \A p \in OldPages(committed) : Untouched(committed, media["db"], p)
    BY DEF MediaInv, MediaDb
  <2>2. pager.eState = "CACHEMOD" => media["db"] = disk["db"]
    BY DEF FileInv, FileSynced
  <2>. QED
    BY <2>1, <2>2 DEF Surviving
<1>5. ASSUME NEW p \in OldPages(committed)
      PROVE  Untouched(committed, d, p) \/ ToCome(k, segs, hdr, p, 0)
  <2>1. CASE Untouched(committed, disk["db"], p)
    BY <1>4, <2>1
  <2>2. CASE ~ Untouched(committed, disk["db"], p)
    <3>1. PICK h \in DOMAIN segs : \E i \in 1 .. Len(segs[h].pages) :
              RecordAt(h, i) >= 0 /\ segs[h].pages[i] = p
      BY <2>2 DEF Ahead
    <3>2. InSegment(segs, h, p)
      BY <3>1 DEF InSegment
    <3>3. h # hdr
      BY <2>2, <3>2 DEF HasRecords
    <3>. QED
      BY <1>1, <1>3, <3>2, <3>3, SegmentToCome
  <2>. QED
    BY <2>1, <2>2
<1>. QED
  BY <1>1, <1>3, <1>5, PlaybackRestores

LEMMA RecordedRecovers ==
    ASSUME TypeInv, FileInv, MediaInv, committed # << >>,
           pager.eState \in {"CACHEMOD", "DBMOD"}, ~ Finishing, pc.at # "syncZero",
           NEW segs, RecordedBy(segs), NEW k, NEW d, Surviving(k, d)
    PROVE  SeenIn(Replayed(k, d)) = committed
<1>1. HasRecords(committed, disk["db"], JournalContent, segs, pager)
  BY DEF RecordedBy, Reversible
<1>2. Recorded(committed, disk["db"], cache, segs, pager, prng)
  BY DEF RecordedBy
<1>3. \A p \in OldPages(committed) : Untouched(committed, disk["db"], p) \/ Ahead(segs, p, 0)
  BY <1>2 DEF Recorded, Restored
<1>4. pc.at = "syncHdr" =>
          /\ JournalContent[pager.journalHdr + 1] = Magic(Len(segs[pager.journalHdr].pages))
          /\ pager.journalOff = End(segs, pager.journalHdr)
  BY <1>2 DEF RecordedBy, Recorded, Counted
<1>. QED
  BY <1>1, <1>3, <1>4, FillingRecovers

LEMMA PlayedRecovers ==
    ASSUME TypeInv, FileInv, MediaInv, committed # << >>, RollingBack,
           NEW k, NEW d, Surviving(k, d)
    PROVE  SeenIn(Replayed(k, d)) = committed
<1>1. /\ pc.op = "rollback" /\ pc.at \in {"hdr", "rec"} /\ pager.eState \in {"CACHEMOD", "DBMOD"}
      /\ ~ Finishing
  BY DEF RollingBack, Finishing
<1>2. PICK segs : PlayedBy(segs)
  BY DEF RollingBack
<1>3. HasRecords(committed, disk["db"], JournalContent, segs, pager)
  BY <1>2 DEF PlayedBy, Reversible
<1>4. ASSUME NEW p \in OldPages(committed)
      PROVE  Untouched(committed, disk["db"], p) \/ Ahead(segs, p, 0)
  <2>1. Restored(committed, disk["db"], cache, p) \/ Ahead(segs, p, pager.journalOff)
    BY <1>2 DEF PlayedBy, Played
  <2>2. CASE Restored(committed, disk["db"], cache, p)
    BY <2>2 DEF Restored
  <2>3. CASE Ahead(segs, p, pager.journalOff)
    <3>1. PICK h \in DOMAIN segs : \E i \in 1 .. Len(segs[h].pages) :
              RecordAt(h, i) >= pager.journalOff /\ segs[h].pages[i] = p
      BY <2>3 DEF Ahead
    <3>2. PICK i \in 1 .. Len(segs[h].pages) : segs[h].pages[i] = p
      BY <3>1
    <3>3. segs \in Segments
      BY <1>3 DEF HasRecords, Chained
    <3>4. RecordAt(h, i) >= 0
      BY <3>3, RecordInSegment
    <3>. QED
      BY <3>2, <3>4 DEF Ahead
  <2>. QED
    BY <2>1, <2>2, <2>3
<1>. QED
  BY <1>1, <1>3, <1>4, FillingRecovers

LEMMA RolledBackRecovers ==
    ASSUME TypeInv, FileInv, MediaInv, committed # << >>, RolledBack,
           NEW k, NEW d, Surviving(k, d)
    PROVE  SeenIn(Replayed(k, d)) = committed
<1>1. /\ pc.op = "rollback" /\ pc.at \in {"syncDb", "zero", "syncZero"}
      /\ pager.eState \in {"CACHEMOD", "DBMOD"} /\ Filling
      /\ \A p \in OldPages(committed) : Untouched(committed, disk["db"], p)
  BY DEF RolledBack, Filling, Finishing, AllRestored, Restored
<1>2. \A p \in OldPages(committed) :
          Untouched(committed, media["db"], p) /\ Untouched(committed, disk["db"], p)
  <2>1. pager.eState = "DBMOD" =>
            \A p \in OldPages(committed) : Untouched(committed, media["db"], p)
    BY DEF MediaInv, MediaDb
  <2>2. pager.eState = "CACHEMOD" => media["db"] = disk["db"]
    BY DEF FileInv, FileSynced
  <2>. QED
    BY <1>1, <2>1, <2>2
<1>3. committed \in Seq(Versions)
  BY InvTyped
<1>4. CASE ~ HeaderIn(k, 0)
  BY <1>2, <1>3, <1>4, NothingToPlay
<1>5. CASE HeaderIn(k, 0)
  <2> PICK hdr : hdr = pager.journalHdr
    OBVIOUS
  <2> PICK orig : orig = pager.dbOrigSize
    OBVIOUS
  <2>1. PICK segs : RecordsBefore(segs, committed)
    BY DEF MediaInv, MediaRecords
  <2>2. /\ Chained(segs, hdr) /\ hdr \in Nat /\ orig \in 0 .. NPages
        /\ \A h \in DOMAIN segs \ {hdr} : IsCounted(MediaJournal, segs, h, orig, committed)
        /\ k \in Seq(JournalCell) /\ IsMixed(k, MediaJournal, JournalContent) /\ d \in Databases
    BY <2>1, InvTyped DEF RecordsBefore, Pagers, Surviving
  <2>3. /\ \A i \in 1 .. hdr :
               (pc.at = "syncZero" => i > 2) => At(JournalContent, i) = At(MediaJournal, i)
        /\ ~ IsMagic(At(MediaJournal, hdr + 1))
        /\ ~ IsMagic(At(JournalContent, hdr + 1))
    BY <1>1 DEF MediaInv, FillingSynced
  <2>4. ~ IsMagic(At(k, hdr + 1))
    <3> PICK at \in Nat \ {0} : at = hdr + 1
      BY <2>2
    <3>. QED
      BY <2>2, <2>3 DEF IsMixed
  <2>5. pc.at = "syncZero" => At(k, 1) = At(MediaJournal, 1) /\ At(k, 2) = At(MediaJournal, 2)
    <3> SUFFICES ASSUME pc.at = "syncZero"
                 PROVE  At(k, 1) = At(MediaJournal, 1) /\ At(k, 2) = At(MediaJournal, 2)
      OBVIOUS
    <3>1. At(JournalContent, 1) = ZeroCell /\ At(JournalContent, 2) = ZeroCell
      BY DEF MediaInv, HeaderZeroed
    <3>2. k[1] # ZeroCell /\ k[2] # ZeroCell /\ 2 <= Len(k)
      BY <1>5, ZeroIs DEF HeaderIn, HdrSize
    <3>3. Len(k) \in Nat /\ 1 \in 1 .. Len(k) /\ 2 \in 1 .. Len(k)
      BY <2>2, <3>2
    <3>4. At(k, 1) # ZeroCell /\ At(k, 2) # ZeroCell
      BY <3>2, <3>3 DEF At
    <3>. QED
      BY <2>2, <3>1, <3>4 DEF IsMixed
  <2>6. \A i \in 1 .. hdr : At(k, i) = At(MediaJournal, i)
    <3> TAKE i \in 1 .. hdr
    <3>1. i \in Nat \ {0} /\ (i > 2 \/ i = 1 \/ i = 2)
      BY <2>2
    <3>. QED
      BY <2>2, <2>3, <2>5, <3>1 DEF IsMixed
  <2>7. IsPlayable(k, segs, hdr, orig, committed)
    BY <2>2, <2>4, <2>6, PlayableUpTo
  <2>. QED
    BY <1>2, <1>3, <2>2, <2>7, PlaybackRestores DEF Surviving
<1>. QED
  BY <1>4, <1>5

\* A transaction that commits is undone as long as its journal can be read.
LEMMA FinishingRecovers ==
    ASSUME TypeInv, FileInv, MediaInv, Committing, Finishing, committed # << >>,
           previous # << >>, previous \in Seq(Versions),
           NEW k, NEW d, Surviving(k, d)
    PROVE  SeenIn(Replayed(k, d)) \in {committed, previous}
<1>1. /\ pc.op = "commit" /\ pc.at \in {"pages", "syncDb", "zero", "syncZero"}
      /\ pc.at = "pages" => pager.eState = "DBMOD"
      /\ pc.at = "syncDb" => pager.eState = "DBMOD"
      /\ pc.at \in {"zero", "syncZero"} => pager.eState = "FINISHED" /\ pager.dirty = {}
  BY DEF Finishing, Committing, CommittingAt, Syncing
<1>2. PICK segs, last : RecordsOf(segs, last, previous)
  BY DEF MediaInv, MediaRecords
<1>3. committed \in Seq(Versions)
  BY InvTyped
<1>4. pc.at = "syncZero" => media["db"] = disk["db"]
  BY <1>1 DEF FileInv, FileSynced
<1>5. CASE pc.at = "syncZero" /\ ~ HeaderIn(k, 0)
  <2>1. Made(committed, disk["db"], cache, pager) /\ committed = View
    BY <1>5 DEF Committing
  <2>2. AllRestored(committed, disk["db"], cache)
    BY <1>1, <1>5, <2>1, CommittedInFile
  <2>3. \A p \in OldPages(committed) : Untouched(committed, disk["db"], p)
    BY <2>2 DEF AllRestored, Restored
  <2>4. SeenIn(Replayed(k, d)) = committed
    BY <1>3, <1>4, <1>5, <2>3, NothingToPlay
  <2>. QED
    BY <2>4
<1>6. CASE pc.at # "syncZero" \/ HeaderIn(k, 0)
  <2>1. /\ k \in Seq(JournalCell) /\ IsMixed(k, MediaJournal, JournalContent) /\ d \in Databases
        /\ \A i \in Nat \ {0} : (pc.at = "syncZero" => i > 2) =>
              At(JournalContent, i) = At(MediaJournal, i)
    BY DEF Surviving, MediaInv, FinishingSynced
  <2>2. pc.at = "syncZero" => At(k, 1) = At(MediaJournal, 1) /\ At(k, 2) = At(MediaJournal, 2)
    <3> SUFFICES ASSUME pc.at = "syncZero"
                 PROVE  At(k, 1) = At(MediaJournal, 1) /\ At(k, 2) = At(MediaJournal, 2)
      OBVIOUS
    <3>1. At(JournalContent, 1) = ZeroCell /\ At(JournalContent, 2) = ZeroCell
      BY DEF MediaInv, HeaderZeroed
    <3>2. k[1] # ZeroCell /\ k[2] # ZeroCell /\ 2 <= Len(k)
      BY <1>6, ZeroIs DEF HeaderIn, HdrSize
    <3>3. Len(k) \in Nat /\ 1 \in 1 .. Len(k) /\ 2 \in 1 .. Len(k)
      BY <2>1, <3>2
    <3>4. At(k, 1) # ZeroCell /\ At(k, 2) # ZeroCell
      BY <3>2, <3>3 DEF At
    <3>. QED
      BY <2>1, <3>1, <3>4 DEF IsMixed
  <2>3. \A i \in Nat \ {0} : At(k, i) = At(MediaJournal, i)
    <3> TAKE i \in Nat \ {0}
    <3>1. i > 2 \/ i = 1 \/ i = 2
      OBVIOUS
    <3>. QED
      BY <2>1, <2>2, <3>1 DEF IsMixed
  <2>4. /\ Chained(segs, last) /\ segs \in Segments
        /\ \A h \in DOMAIN segs : IsCounted(MediaJournal, segs, h, pager.dbOrigSize, previous)
        /\ ~ IsMagic(At(MediaJournal, End(segs, last) + 3))
    BY <1>2 DEF RecordsOf, Chained
  <2>5. /\ IsPlayable(k, segs, last, pager.dbOrigSize, previous)
        /\ \A h \in DOMAIN segs : IsRead(k, segs, last, h)
    BY <2>3, <2>4, PlayableWhole
  <2>6. ASSUME NEW p \in OldPages(previous), Untouched(previous, disk["db"], p)
        PROVE  Untouched(previous, media["db"], p)
    <3>1. CASE pc.at \in {"pages", "syncDb"}
      <4>1. previous = committed /\ pager.eState = "DBMOD"
        BY <1>1, <3>1 DEF MediaInv, PreviousIs
      <4>. QED
        BY <4>1 DEF MediaInv, MediaDb
    <3>2. CASE pc.at \in {"zero", "syncZero"}
      BY <1>1, <2>6, <3>2 DEF FileInv, FileSynced
    <3>. QED
      BY <1>1, <3>1, <3>2
  <2>7. ASSUME NEW p \in OldPages(previous)
        PROVE  Untouched(previous, d, p) \/ ToCome(k, segs, last, p, 0)
    <3>1. CASE \E h \in DOMAIN segs : InSegment(segs, h, p)
      BY <2>4, <2>5, <3>1, SegmentToCome
    <3>2. CASE Untouched(previous, disk["db"], p)
      BY <2>6, <3>2 DEF Surviving
    <3>. QED
      BY <1>2, <3>1, <3>2 DEF RecordsOf
  <2>8. pager.dbOrigSize \in 0 .. NPages
    BY InvTyped DEF Pagers
  <2>9. SeenIn(Replayed(k, d)) = previous
    BY <2>1, <2>5, <2>7, <2>8, PlaybackRestores
  <2>. QED
    BY <2>9
<1>. QED
  BY <1>1, <1>5, <1>6

\* In every phase, a playback gives an image of before or after a transaction.
LEMMA InvRecovers ==
    ASSUME Inv, FileInv, MediaInv, previous # << >>, committed # << >>,
           NEW j \in Survivors("journal"), NEW d \in Survivors("db")
    PROVE  SeenIn(Recovered(j, d)) \in {committed, previous}
<1>1. TypeInv /\ Phase /\ JournalKnown /\ MediaDb
  BY DEF Inv, MediaInv
<1>2. PICK k : Surviving(k, d) /\ Recovered(j, d) = Replayed(k, d)
  BY <1>1, SurvivingAre
<1>3. previous \in Seq(Versions)
  BY <1>1 DEF TypeInv, CountersOK, Versions
<1>4. CASE Settled
  BY <1>1, <1>2, <1>4, SettledRecovers
<1>5. CASE Undecided
  <2>1. /\ pager.eState \in {"CACHEMOD", "DBMOD"} /\ ~ Finishing /\ pc.at # "syncZero"
    BY <1>5 DEF Undecided, UndecidedAt, Finishing, IsIdle, Idle, Syncing
  <2>2. PICK segs : RecordedBy(segs)
    BY <1>5 DEF Undecided
  <2>. QED
    BY <1>1, <1>2, <2>1, <2>2, RecordedRecovers
<1>6. CASE Committing /\ ~ Finishing
  <2>1. /\ pager.eState \in {"CACHEMOD", "DBMOD"} /\ pc.at \in Syncing /\ pc.at # "syncZero"
    BY <1>6 DEF Committing, CommittingAt, Finishing, Syncing
  <2>2. PICK segs : RecordedBy(segs)
    BY <1>6, <2>1 DEF MediaInv, MediaRecords
  <2>. QED
    BY <1>1, <1>2, <1>6, <2>1, <2>2, RecordedRecovers
<1>7. CASE Committing /\ Finishing
  BY <1>1, <1>2, <1>3, <1>7, FinishingRecovers
<1>8. CASE RollingBack
  BY <1>1, <1>2, <1>8, PlayedRecovers
<1>9. CASE RolledBack
  BY <1>1, <1>2, <1>9, RolledBackRecovers
<1>. QED
  BY <1>1, <1>4, <1>5, <1>6, <1>7, <1>8, <1>9 DEF Phase

-----------------------------------------------------------------------------
(* Steps that leave the journal alone                                      *)

Quiet(at) == at \notin {"syncRecords", "nRec", "syncHdr", "syncZero"}

JournalStays ==
    disk'["journal"] = disk["journal"] /\ media'["journal"] = media["journal"]

LEMMA JournalStaysIs ==
    JournalStays => JournalContent' = JournalContent /\ MediaJournal' = MediaJournal
  BY DEF JournalStays, JournalContent, MediaJournal, Exists

\* Most steps.
LEMMA QuietStep ==
    ASSUME MediaInv, MediaRecords', JournalStays, media'["db"] = media["db"],
           UNCHANGED <<committed, previous>>,
           Quiet(pc.at), Quiet(pc'.at),
           Filling' => Filling /\ pager'.journalHdr = pager.journalHdr,
           Finishing' => Finishing,
           pager'.eState = "DBMOD" => pager.eState = "DBMOD",
           pager'.eState \notin {"CACHEMOD", "DBMOD", "FINISHED"} =>
               pager.eState \notin {"CACHEMOD", "DBMOD", "FINISHED"}
    PROVE  MediaInv'
<1>1. JournalContent' = JournalContent /\ MediaJournal' = MediaJournal
  BY JournalStaysIs
<1>2. JournalKnown'
  BY DEF MediaInv, JournalKnown, JournalStays
<1>3. MediaDb'
  BY DEF MediaInv, MediaDb
<1>4. PreviousIs' /\ HeaderZeroed' /\ RecordsSynced'
  BY DEF MediaInv, PreviousIs, HeaderZeroed, RecordsSynced, Quiet
<1>5. FillingSynced'
  BY <1>1 DEF MediaInv, FillingSynced, Quiet
<1>6. FinishingSynced'
  BY <1>1 DEF MediaInv, FinishingSynced, Quiet
<1>7. NoJournal'
  BY <1>1 DEF MediaInv, NoJournal
<1>. QED
  BY <1>2, <1>3, <1>4, <1>5, <1>6, <1>7 DEF MediaInv

LEMMA IdleIs ==
    IsIdle => pc.op = "none" /\ pc.at = "none" /\ Quiet(pc.at) /\ ~ Finishing
  BY DEF IsIdle, Idle, Quiet, Finishing

LEMMA IdleIsNext ==
    pc' = Idle => pc'.op = "none" /\ pc'.at = "none" /\ Quiet(pc'.at) /\ ~ Finishing' /\ MediaRecords'
  BY DEF Idle, Quiet, Finishing, MediaRecords, Committing, CommittingAt, RolledBack

LEMMA SettledMedia ==
    ASSUME TypeInv, MediaInv, Settled, Settled',
           (\/ Open \/ SharedLock \/ Begin \/ EndNothing
            \/ (\E p \in Page : Get(p)) \/ (\E p \in Page : Recycle(p)))
    PROVE  MediaInv'
<1>1. UNCHANGED <<disk, media, committed, previous>>
  BY DEF Open, SharedLock, Begin, EndNothing, Get, Recycle, ghosts
<1>2. pc' = Idle /\ IsIdle /\ ~ Filling' /\ pager'.eState # "DBMOD"
      /\ pager.eState \notin {"CACHEMOD", "DBMOD", "FINISHED"}
  BY DEF Settled, IsIdle, Filling
<1>3. JournalStays
  BY <1>1 DEF JournalStays
<1>. QED
  BY <1>1, <1>2, <1>3, IdleIs, IdleIsNext, QuietStep

LEMMA CloseMedia ==
    ASSUME TypeInv, MediaInv, Settled, Settled', Close
    PROVE  MediaInv'
<1>1. /\ UNCHANGED <<committed, previous>>
      /\ pc' = Idle /\ IsIdle /\ ~ Filling' /\ pager'.eState \notin {"CACHEMOD", "DBMOD", "FINISHED"}
      /\ pager.eState \notin {"CACHEMOD", "DBMOD", "FINISHED"}
  BY DEF Close, ghosts, Settled, IsIdle, Filling
<1>2. CASE ~ pager.jfd
  <2>1. UNCHANGED <<disk, media>>
    BY <1>2 DEF Close
  <2>2. JournalStays
    BY <2>1 DEF JournalStays
  <2>. QED
    BY <1>1, <2>1, <2>2, IdleIs, IdleIsNext, QuietStep
<1>3. CASE pager.jfd
  <2>1. Delete("journal")
    BY <1>3 DEF Close
  <2>2. disk'["journal"] = NoFile /\ media'["journal"] = NoFile /\ media'["db"] = media["db"]
    BY <2>1 DEF Delete, TypeInv, FilesOK, StoreTypeOK
  <2>3. JournalContent' = << >> /\ MediaJournal' = << >>
    BY <2>2 DEF JournalContent, MediaJournal, Exists
  <2>4. At(<< >>, 1) = ZeroCell
    BY DEF At
  <2>5. NoJournal'
    BY <2>3, <2>4, ZeroIs DEF NoJournal
  <2>6. JournalKnown' /\ MediaDb' /\ PreviousIs'
    BY <1>1, <2>2, IdleIs DEF MediaInv, JournalKnown, MediaDb, PreviousIs
  <2>7. FillingSynced' /\ FinishingSynced' /\ RecordsSynced' /\ HeaderZeroed' /\ MediaRecords'
    BY <1>1, IdleIsNext DEF FillingSynced, FinishingSynced, RecordsSynced, HeaderZeroed
  <2>. QED
    BY <2>5, <2>6, <2>7 DEF MediaInv
<1>. QED
  BY <1>2, <1>3

\* Reading and spilling in a transaction.
LEMMA UndecidedMedia ==
    ASSUME TypeInv, MediaInv, Undecided,
           (\/ (\E p \in Page : Get(p)) \/ (\E p \in Page : Recycle(p))
            \/ (\E p \in Page : Spill(p)) \/ SpillPage)
    PROVE  MediaInv'
<1>1. UNCHANGED <<media, committed, previous>> /\ pager.eState \in {"CACHEMOD", "DBMOD"}
  BY DEF Get, Recycle, Spill, SpillPage, ghosts, Undecided, UndecidedAt
<1>2. pager'.eState = pager.eState /\ pager'.journalHdr = pager.journalHdr
  BY InvTyped DEF Get, Recycle, Spill, SpillPage, Pagers
<1>3. disk'["journal"] = disk["journal"]
  BY DEF Get, Recycle, Spill, SpillPage, WriteDb, TypeInv, FilesOK, StoreTypeOK
<1>4. pc.op \in {"none", "spill"} /\ Quiet(pc.at)
  <2>1. CASE SpillPage
    BY <2>1 DEF SpillPage, Quiet
  <2>2. CASE ~ SpillPage
    <3>1. IsIdle
      BY <2>2 DEF Get, Recycle, Spill
    <3>. QED
      BY <3>1, IdleIs
  <2>. QED
    BY <2>1, <2>2
<1>5. pc'.op \in {"none", "spill"} /\ Quiet(pc'.at)
  <2>1. CASE SpillPage
    BY <2>1, IdleIsNext DEF SpillPage
  <2>2. CASE (\E p \in Page : Get(p)) \/ (\E p \in Page : Recycle(p))
    BY <1>4, <2>2 DEF Get, Recycle
  <2>3. CASE \E p \in Page : Spill(p)
    <3> PICK p \in Page : Spill(p)
      BY <2>3
    <3> PICK at \in {"nextHdr", "pages"} : pc' = [Running("spill", at) EXCEPT !.page = p]
      BY DEF Spill
    <3>1. pc'.op = "spill" /\ pc'.at = at
      BY DEF Running, Idle
    <3>. QED
      BY <3>1 DEF Quiet
  <2>. QED
    BY <2>1, <2>2, <2>3
<1>6. ~ Finishing /\ ~ Finishing' /\ Filling
  BY <1>1, <1>4, <1>5 DEF Finishing, Filling
<1>7. MediaRecords'
  BY <1>5 DEF MediaRecords, Committing, CommittingAt, RolledBack
<1>. QED
  BY <1>1, <1>2, <1>3, <1>4, <1>5, <1>6, <1>7, QuietStep DEF JournalStays

LEMMA RollbackMedia ==
    ASSUME TypeInv, MediaInv, Rollback
    PROVE  MediaInv'
<1>1. UNCHANGED <<disk, media, committed, previous>> /\ pager.eState \in {"CACHEMOD", "DBMOD"}
      /\ IsIdle /\ pc' = Running("rollback", "hdr")
  BY DEF Rollback, ghosts
<1>2. pager'.eState = pager.eState /\ pager'.journalHdr = pager.journalHdr
  BY InvTyped DEF Rollback, Pagers
<1>3. pc'.op = "rollback" /\ pc'.at = "hdr" /\ Quiet(pc'.at) /\ ~ Finishing'
  BY <1>1 DEF Running, Idle, Quiet, Finishing
<1>4. MediaRecords'
  BY <1>3 DEF MediaRecords, Committing, CommittingAt, RolledBack
<1>5. Filling
  BY <1>1, IdleIs DEF Filling
<1>. QED
  BY <1>1, <1>2, <1>3, <1>4, <1>5, IdleIs, QuietStep DEF JournalStays

\* What is before the last header of a playback is on the medium.
LEMMA PlaybackMedia ==
    ASSUME TypeInv, MediaInv, RollingBack, RollingBack' \/ RolledBack',
           PlayHeader \/ PlayRecord \/ SkipRecord \/ RefuseRecord \/ SegmentPlayed
    PROVE  MediaInv'
<1>1. /\ UNCHANGED <<media, committed, previous>>
      /\ pc.op = "rollback" /\ pc.at \in {"hdr", "rec"} /\ pager.eState \in {"CACHEMOD", "DBMOD"}
      /\ pc'.op = "rollback" /\ pc'.at \in {"hdr", "rec", "syncDb", "zero", "syncZero"}
  BY DEF PlayHeader, PlayRecord, SkipRecord, RefuseRecord, SegmentPlayed, ghosts,
         RollingBack, RolledBack
<1>2. pager'.eState = pager.eState /\ pager'.journalHdr = pager.journalHdr
      /\ pager'.dbOrigSize = pager.dbOrigSize
  BY InvTyped DEF PlayHeader, PlayRecord, SkipRecord, RefuseRecord, SegmentPlayed, PlaybackEnds, Pagers
<1>3. disk'["journal"] = disk["journal"]
  BY DEF PlayHeader, PlayRecord, SkipRecord, RefuseRecord, SegmentPlayed, WriteDb,
         TypeInv, FilesOK, StoreTypeOK
<1>4. pc'.at # "syncZero"
  BY <1>1, InvTyped DEF PlayHeader, PlayRecord, SkipRecord, RefuseRecord, SegmentPlayed, PlaybackEnds,
         Places, Goes
<1>5. Quiet(pc.at) /\ Quiet(pc'.at) /\ ~ Finishing /\ ~ Finishing' /\ Filling
  BY <1>1, <1>4 DEF Quiet, Finishing, Filling
<1>6. JournalStays /\ JournalContent' = JournalContent /\ MediaJournal' = MediaJournal
  BY <1>1, <1>3, JournalStaysIs DEF JournalStays
<1>7. PICK segs : PlayedBy(segs)
  BY DEF RollingBack
<1>8. RecordsBefore(segs, committed)
  <2> PICK hdr : hdr = pager.journalHdr
    OBVIOUS
  <2>1. /\ Chained(segs, hdr)
        /\ IsJournal(JournalContent, segs, hdr, pager.dbOrigSize, committed)
        /\ segs \in Segments
    BY <1>7 DEF PlayedBy, Reversible, HasRecords, Chained
  <2>2. JournalContent \in Seq(JournalCell) /\ hdr \in Nat
    BY InvTyped DEF Pagers
  <2>3. \A i \in 1 .. hdr : At(MediaJournal, i) = At(JournalContent, i)
    BY <1>1, <1>5 DEF MediaInv, FillingSynced
  <2>4. ASSUME NEW h \in DOMAIN segs \ {hdr}
        PROVE  IsCounted(MediaJournal, segs, h, pager.dbOrigSize, committed)
    <3>1. IsCounted(JournalContent, segs, h, pager.dbOrigSize, committed)
      BY <2>1, <2>2, CountedHere
    <3>2. End(segs, h) + 2 <= hdr /\ End(segs, h) \in Nat /\ h \in Nat
      BY <2>1, SegmentBeforeLast, SegmentIs
    <3>3. \A i \in Nat \ {0} : h < i /\ i <= End(segs, h) =>
              At(MediaJournal, i) = At(JournalContent, i)
      BY <2>2, <2>3, <3>2
    <3>. QED
      BY <2>1, <3>1, <3>3, CountedElsewhere
  <2>. QED
    BY <2>1, <2>4 DEF RecordsBefore
<1>9. RecordsBefore(segs, committed)'
  BY <1>1, <1>2, <1>6, <1>8 DEF RecordsBefore
<1>10. MediaRecords'
  BY <1>1, <1>9 DEF MediaRecords, Committing, CommittingAt
<1>. QED
  BY <1>1, <1>2, <1>5, <1>6, <1>10, QuietStep

-----------------------------------------------------------------------------
(* Steps that write to the journal or sync it                              *)

\* The journal after a call of WriteJournal.
LEMMA JournalCells ==
    ASSUME TypeInv, NEW off \in Nat, NEW cells \in Seq(JournalCell), WriteJournal(off, cells)
    PROVE  /\ disk'["db"] = disk["db"] /\ disk'["journal"] # NoFile
           /\ \A i \in Nat \ {0} :
                 At(JournalContent', i) =
                     IF i \in off + 1 .. off + Len(cells) THEN cells[i - off]
                     ELSE At(JournalContent, i)
<1> PICK j : j = JournalContent
  OBVIOUS
<1> PICK k : k = JournalContent'
  OBVIOUS
<1>1. /\ disk'["db"] = disk["db"] /\ Len(k) \in Nat /\ Len(j) <= Len(k)
      /\ off + Len(cells) <= Len(k)
      /\ \A i \in 1 .. Len(k) :
             k[i] = IF i \in off + 1 .. off + Len(cells) THEN cells[i - off] ELSE At(j, i)
  BY ZenonT(60), JournalWriteDoes
<1>2. Len(j) \in Nat /\ Len(cells) \in Nat
  BY InvTyped
<1>3. ASSUME NEW i \in Nat \ {0}
      PROVE  At(k, i) = IF i \in off + 1 .. off + Len(cells) THEN cells[i - off] ELSE At(j, i)
  <2>1. CASE i \in 1 .. Len(k)
    BY <1>1, <2>1 DEF At
  <2>2. CASE i \notin 1 .. Len(k)
    <3>1. i \notin off + 1 .. off + Len(cells) /\ i \notin 1 .. Len(j)
      BY <1>1, <1>2, <2>2
    <3>. QED
      BY <2>2, <3>1 DEF At
  <2>. QED
    BY <2>1, <2>2
<1>4. disk'["journal"] # NoFile
  <2> PICK new : new = Written(j, off, cells)
    OBVIOUS
  <2>1. new \in Seq(JournalCell)
    BY InvTyped, JournalWritten
  <2>2. disk' = [disk EXCEPT !["journal"] = new]
    BY DEF WriteJournal
  <2>3. disk'["journal"] = new
    BY <2>2 DEF TypeInv, FilesOK, StoreTypeOK
  <2>. QED
    BY <2>1, <2>3, NoFileIsNoContent
<1>. QED
  BY <1>1, <1>3, <1>4

\* One cell.
LEMMA JournalCellWritten ==
    ASSUME TypeInv, NEW off \in Nat, NEW c \in JournalCell, WriteJournal(off, <<c>>)
    PROVE  /\ disk'["db"] = disk["db"] /\ disk'["journal"] # NoFile
           /\ \A i \in Nat \ {0} :
                 At(JournalContent', i) = IF i = off + 1 THEN c ELSE At(JournalContent, i)
<1> PICK cells : cells = <<c>>
  OBVIOUS
<1>1. cells \in Seq(JournalCell) /\ Len(cells) = 1 /\ cells[1] = c
  OBVIOUS
<1>2. /\ disk'["db"] = disk["db"] /\ disk'["journal"] # NoFile
      /\ \A i \in Nat \ {0} :
            At(JournalContent', i) =
                IF i \in off + 1 .. off + Len(cells) THEN cells[i - off]
                ELSE At(JournalContent, i)
  BY <1>1, JournalCells
<1>. QED
  BY <1>1, <1>2

\* Two cells.
LEMMA HeaderWritten ==
    ASSUME TypeInv, NEW off \in Nat, NEW c \in JournalCell, NEW e \in JournalCell,
           WriteJournal(off, <<c, e>>)
    PROVE  /\ disk'["db"] = disk["db"] /\ disk'["journal"] # NoFile
           /\ \A i \in Nat \ {0} :
                 At(JournalContent', i) = IF i = off + 1 THEN c ELSE IF i = off + 2 THEN e
                                          ELSE At(JournalContent, i)
<1> PICK cells \in Seq(JournalCell) : cells = <<c, e>>
  OBVIOUS
<1>1. Len(cells) = 2 /\ cells[1] = c /\ cells[2] = e
  OBVIOUS
<1>2. /\ disk'["db"] = disk["db"] /\ disk'["journal"] # NoFile
      /\ \A i \in Nat \ {0} :
            At(JournalContent', i) =
                IF i \in off + 1 .. off + Len(cells) THEN cells[i - off]
                ELSE At(JournalContent, i)
  BY JournalCells
<1>. QED
  BY <1>1, <1>2

LEMMA SameMedia == media'["journal"] = media["journal"] => MediaJournal' = MediaJournal
  BY DEF MediaJournal

LEMMA SyncedMedia == media'["journal"] = disk["journal"] => MediaJournal' = JournalContent
  BY DEF MediaJournal, JournalContent, Exists

\* What a write of a page adds to the journal is behind the last header.
LEMMA WriteBehind ==
    ASSUME TypeInv, NEW p \in Page, NEW size, NEW new, PagerWritten(p, size, new),
           ~ Starts => pager.journalOff >= pager.journalHdr + 2
    PROVE  /\ disk'["journal"] # NoFile \/ disk' = disk
           /\ Starts => At(JournalContent', 1) = ZeroCell
           /\ ~ Starts => \A i \in 1 .. pager.journalHdr + 1 :
                             At(JournalContent', i) = At(JournalContent, i)
<1> PICK j : j = JournalContent
  OBVIOUS
<1> PICK k : k = JournalContent'
  OBVIOUS
<1>1. /\ Len(k) \in Nat /\ Len(j) <= Len(k) /\ Len(j) \in Nat
      /\ Starts => Len(k) >= 2 /\ k[1] = ZeroCell
      /\ \A i \in 1 .. Len(k) :
             (Starts => i > 2) /\ (IsRecorded(p) => i \notin RecordOff + 1 .. RecordOff + 3)
             => k[i] = At(j, i)
  BY JournalAfterWrite, InvTyped
<1>2. Starts => At(k, 1) = ZeroCell
  BY <1>1 DEF At
<1>3. ASSUME ~ Starts, NEW i \in 1 .. pager.journalHdr + 1 PROVE At(k, i) = At(j, i)
  <2>1. pager.journalHdr \in Nat /\ pager.journalOff \in Nat
    BY InvTyped DEF Pagers
  <2>2. RecordOff = pager.journalOff
    BY <1>3 DEF RecordOff, WithJournal, Starts
  <2>3. i \notin RecordOff + 1 .. RecordOff + 3 /\ i \in Nat
    BY <1>3, <2>1, <2>2
  <2>4. CASE i \in 1 .. Len(k)
    BY <1>1, <1>3, <2>3, <2>4 DEF At
  <2>5. CASE i \notin 1 .. Len(k)
    <3>1. i \notin 1 .. Len(j)
      BY <1>1, <2>3, <2>5
    <3>. QED
      BY <2>5, <3>1 DEF At
  <2>. QED
    BY <2>4, <2>5
<1>4. disk'["journal"] # NoFile \/ disk' = disk
  <2>1. CASE Starts \/ IsRecorded(p)
    <3> PICK off \in Nat : off = WithJournal.journalOff - Len(FirstHeader)
      <4>1. /\ WithJournal.journalOff \in Nat
            /\ Starts => WithJournal.journalOff = 2 /\ Len(FirstHeader) = 2
            /\ ~ Starts => Len(FirstHeader) = 0
        BY WithJournalIs, HeaderCells DEF Pagers
      <4> PICK a \in Nat : a = WithJournal.journalOff
        BY <4>1
      <4> PICK n : n = Len(FirstHeader)
        OBVIOUS
      <4>3. n = 0 \/ (n = 2 /\ a = 2)
        BY <4>1
      <4>4. a - n \in Nat
        BY <4>3
      <4>2. WithJournal.journalOff - Len(FirstHeader) \in Nat
        BY <4>4
      <4>. QED
        BY <4>2
    <3> PICK cells \in Seq(JournalCell) : cells = FirstHeader \o RecordOf(p, WithJournal.cksumInit)
      <4>1. WithJournal.cksumInit \in Nat
        BY WithJournalIs DEF Pagers
      <4>2. FirstHeader \in Seq(JournalCell)
        BY HeaderCells
      <4>3. RecordOf(p, WithJournal.cksumInit) \in Seq(JournalCell)
        BY <4>1, RecordCells DEF PagerWritten
      <4>4. FirstHeader \o RecordOf(p, WithJournal.cksumInit) \in Seq(JournalCell)
        BY <4>2, <4>3
      <4>. QED
        BY <4>4
    <3>1. WriteJournal(off, cells)
      BY <2>1 DEF PagerWritten
    <3>. QED
      BY <3>1, JournalCells
  <2>2. CASE ~ (Starts \/ IsRecorded(p))
    BY <2>2 DEF PagerWritten
  <2>. QED
    BY <2>1, <2>2
<1>. QED
  BY <1>2, <1>3, <1>4

LEMMA WriteMedia ==
    ASSUME TypeInv, MediaInv, MediaRecords', InTransaction, IsIdle,
           NEW p \in Page, NEW size, NEW new, PagerWritten(p, size, new),
           UNCHANGED <<media, committed, previous>>,
           pc'.at \in {"none", "nextHdr"},
           ~ Starts => pager.journalOff >= pager.journalHdr + 2
    PROVE  MediaInv'
<1>1. /\ disk'["journal"] # NoFile \/ disk' = disk
      /\ Starts => At(JournalContent', 1) = ZeroCell
      /\ ~ Starts => \A i \in 1 .. pager.journalHdr + 1 :
                        At(JournalContent', i) = At(JournalContent, i)
  BY WriteBehind
<1>2. /\ pager'.eState = IF Starts THEN "CACHEMOD" ELSE pager.eState
      /\ pager'.journalHdr = IF Starts THEN 0 ELSE pager.journalHdr
      /\ pager.journalHdr \in Nat
      /\ pager'.eState \in {"CACHEMOD", "DBMOD"}
      /\ pager'.eState = "DBMOD" => pager.eState = "DBMOD"
  BY WithJournalIs, InvTyped DEF PagerWritten, InTransaction, Starts, Pagers
<1>3. MediaJournal' = MediaJournal
  BY SameMedia
<1>4. JournalKnown'
  BY <1>1 DEF MediaInv, JournalKnown
<1>5. MediaDb'
  BY <1>2 DEF MediaInv, MediaDb
<1>6. PreviousIs' /\ HeaderZeroed' /\ RecordsSynced' /\ FinishingSynced' /\ NoJournal'
  BY <1>2, IdleIs DEF MediaInv, PreviousIs, HeaderZeroed, RecordsSynced, FinishingSynced, Finishing,
         NoJournal
<1>7. FillingSynced'
  <2>1. CASE Starts
    <3>1. ~ IsMagic(At(MediaJournal, 1))
      BY <2>1 DEF MediaInv, NoJournal, Starts
    <3>. QED
      BY <1>1, <1>2, <1>3, <2>1, <3>1, ZeroIs DEF FillingSynced
  <2>2. CASE ~ Starts
    <3>1. Filling /\ pc.at = "none"
      BY <1>2, <2>2, IdleIs DEF Filling
    <3>2. /\ \A i \in 1 .. pager.journalHdr : At(JournalContent, i) = At(MediaJournal, i)
          /\ ~ IsMagic(At(MediaJournal, pager.journalHdr + 1))
          /\ ~ IsMagic(At(JournalContent, pager.journalHdr + 1))
      BY <3>1 DEF MediaInv, FillingSynced
    <3>3. /\ \A i \in 1 .. pager.journalHdr : At(JournalContent', i) = At(MediaJournal, i)
          /\ ~ IsMagic(At(JournalContent', pager.journalHdr + 1))
      <4>1. pager.journalHdr + 1 \in 1 .. pager.journalHdr + 1
            /\ \A i \in 1 .. pager.journalHdr : i \in 1 .. pager.journalHdr + 1
        BY <1>2
      <4>. QED
        BY <1>1, <2>2, <3>2, <4>1
    <3>. QED
      BY <1>2, <1>3, <2>2, <3>2, <3>3 DEF FillingSynced
  <2>. QED
    BY <2>1, <2>2
<1>. QED
  BY <1>4, <1>5, <1>6, <1>7 DEF MediaInv

LEMMA RecordsBehind ==
    ASSUME TypeInv, NEW segs, RecordedBy(segs)
    PROVE  /\ pager.journalHdr \in Nat /\ pager.journalOff \in Nat
           /\ pager.journalOff = End(segs, pager.journalHdr)
           /\ pager.journalOff >= pager.journalHdr + 2
<1>1. pager.journalHdr \in Nat /\ pager.journalOff \in Nat
  BY InvTyped DEF Pagers
<1>2. HasRecords(committed, disk["db"], JournalContent, segs, pager)
      /\ pager.journalOff = End(segs, pager.journalHdr)
  BY DEF RecordedBy, Reversible, Recorded
<1>3. pager.journalHdr + 2 <= End(segs, pager.journalHdr)
  BY <1>1, <1>2, EndIs
<1>. QED
  BY <1>1, <1>2, <1>3

LEMMA WritesMedia ==
    ASSUME TypeInv, MediaInv, Settled \/ Undecided,
           NewDatabase \/ (\E p \in Page : WritePage(p)) \/ Extend
    PROVE  MediaInv'
<1>1. IsIdle /\ InTransaction /\ UNCHANGED <<pc, committed>>
  BY WriteActions
<1> PICK p, size, new : Writes(p, size, new) /\ PagerWritten(p, size, new)
  BY WriteActions
<1>2. p \in Page
  BY WritesAre
<1>3. UNCHANGED <<media, previous>>
  BY DEF NewDatabase, WritePage, Extend, ghosts
<1>4. ~ Starts => pager.journalOff >= pager.journalHdr + 2
  <2>1. CASE Settled
    BY <1>1, <2>1 DEF Settled, InTransaction, Starts
  <2>2. CASE Undecided
    <3> PICK segs : RecordedBy(segs)
      BY <2>2 DEF Undecided
    <3>. QED
      BY RecordsBehind
  <2>. QED
    BY <2>1, <2>2
<1>5. pc'.at = "none" /\ pc'.op = "none"
  BY <1>1, IdleIs
<1>6. MediaRecords'
  BY <1>5 DEF MediaRecords, Committing, CommittingAt, RolledBack
<1>. QED
  BY <1>1, <1>2, <1>3, <1>4, <1>5, <1>6, WriteMedia

LEMMA CommitMedia ==
    ASSUME TypeInv, TypeInv', MediaInv, Undecided, Commit
    PROVE  MediaInv'
<1>1. /\ pc' = Running("commit", "nextHdr") /\ UNCHANGED <<media, committed, previous>>
      /\ pager.eState \in {"CACHEMOD", "DBMOD"} /\ IsIdle /\ InTransaction
  BY DEF Commit, ghosts, InTransaction
<1>2. pc'.op = "commit" /\ pc'.at = "nextHdr"
  BY <1>1 DEF Running, Idle
<1>3. Quiet(pc'.at) /\ ~ Finishing' /\ Filling
  BY <1>1, <1>2, IdleIs DEF Quiet, Finishing, Filling
<1>4. (\E segs : RecordedBy(segs)') => MediaRecords'
  BY <1>2, <1>3 DEF MediaRecords, RolledBack
<1> PICK segs : RecordedBy(segs)
  BY DEF Undecided
<1>5. CASE pager.changeCountDone
  <2>1. UNCHANGED <<disk, pager, cache, prng>>
    BY <1>5 DEF Commit
  <2>2. JournalContent' = JournalContent
    BY <2>1, SameDisk
  <2>3. Counted(JournalContent, pager, "nextHdr")
    BY <1>1, IdleIs DEF RecordedBy, Counted
  <2>4. RecordedBy(segs)'
    BY <1>1, <1>2, <2>1, <2>2, <2>3 DEF RecordedBy
  <2>. QED
    BY <1>1, <1>3, <1>4, <2>1, <2>4, IdleIs, QuietStep DEF JournalStays
<1>6. CASE ~ pager.changeCountDone
  <2>1. PagerWrite(1, Size, {}, TRUE)
    BY <1>6 DEF Commit
  <2>2. Size \in 1 .. NPages /\ 1 \in Page
    <3>1. Size \in 0 .. NPages /\ Size # 0
      BY <1>1, BegunSees DEF Undecided, Made
    <3>. QED
      BY <3>1, NPagesIsPositive DEF Page
  <2>3. PagerWritten(1, Size, {})
    BY <2>1, <2>2, PagerWriteDoes
  <2>6. Writes(1, Size, {})
    BY <2>2, NPagesIsPositive DEF Writes
  <2>4. \E s : RecordedBy(s)'
    BY <1>1, <1>2, <2>3, <2>6, WriteGoesOn
  <2>5. pager.journalOff >= pager.journalHdr + 2
    BY RecordsBehind
  <2>. QED
    BY <1>1, <1>2, <1>4, <2>2, <2>3, <2>4, <2>5, WriteMedia
<1>. QED
  BY <1>5, <1>6

-----------------------------------------------------------------------------
(* syncJournal                                                             *)

\* Where syncJournal is called from.
SyncingAt ==
    /\ pc.op \in {"spill", "commit"}
    /\ pager.eState \in {"CACHEMOD", "DBMOD"}
    /\ ~ Finishing /\ Filling

LEMMA NextHeaderMedia ==
    ASSUME TypeInv, MediaInv, SyncingAt, NextHeader, NEW segs, RecordedBy(segs)
    PROVE  MediaInv'
<1>1. /\ UNCHANGED <<media, pager, committed, previous>>
      /\ pc.at = "nextHdr" /\ pc'.at = "syncRecords" /\ pc'.op = pc.op
  BY InvTyped DEF NextHeader, Goes, ghosts, Places
<1>2. RecordedBy(segs)'
  BY NextHeaderRecords
<1> PICK hdr \in Nat, off \in Nat :
        hdr = pager.journalHdr /\ off = pager.journalOff /\ off >= hdr + 2
  BY RecordsBehind
<1>3. JournalHdrOffset(off) = off + 2
  BY DEF JournalHdrOffset
<1>4. /\ disk'["journal"] # NoFile \/ disk' = disk
      /\ ~ IsMagic(At(JournalContent', off + 3))
      /\ \A i \in Nat \ {0} : i # off + 3 => At(JournalContent', i) = At(JournalContent, i)
  <2>1. CASE OldHeaderFollows
    <3> PICK o \in Nat : o = off + 2
      OBVIOUS
    <3>1. WriteJournal(o, <<ZeroCell>>)
      BY <1>3, <2>1 DEF NextHeader
    <3>2. /\ disk'["journal"] # NoFile
          /\ \A i \in Nat \ {0} : At(JournalContent', i) =
                IF i = o + 1 THEN ZeroCell ELSE At(JournalContent, i)
      BY <3>1, ZeroIs, JournalCellWritten
    <3>3. o + 1 = off + 3 /\ off + 3 \in Nat \ {0}
      OBVIOUS
    <3>. QED
      BY <3>2, <3>3, ZeroIs
  <2>2. CASE ~ OldHeaderFollows
    <3>1. disk' = disk
      BY <2>2 DEF NextHeader
    <3>2. JournalContent' = JournalContent
      BY <3>1, SameDisk
    <3>3. ~ IsMagic(At(JournalContent, off + 3))
      <4>1. Len(JournalContent) \in Nat
        BY InvTyped
      <4>2. CASE off + 2 < Len(JournalContent)
        <5>1. ~ IsMagic(JournalContent[off + 3])
          <6>1. (off + 2) + 1 = off + 3
            OBVIOUS
          <6>. QED
            BY <1>3, <2>2, <4>2, <6>1 DEF OldHeaderFollows
        <5>2. off + 3 \in 1 .. Len(JournalContent)
          BY <4>1, <4>2
        <5>. QED
          BY <5>1, <5>2 DEF At
      <4>3. CASE ~ (off + 2 < Len(JournalContent))
        <5>1. off + 3 \notin 1 .. Len(JournalContent)
          BY <4>1, <4>3
        <5>. QED
          BY <5>1, ZeroIs DEF At
      <4>. QED
        BY <4>2, <4>3
    <3>. QED
      BY <3>1, <3>2, <3>3
  <2>. QED
    BY <2>1, <2>2
<1>5. MediaJournal' = MediaJournal
  BY <1>1, SameMedia
<1>6. JournalKnown' /\ MediaDb' /\ PreviousIs'
  BY <1>1, <1>4 DEF MediaInv, JournalKnown, MediaDb, PreviousIs
<1>7. ~ Finishing' /\ Filling'
  BY <1>1, SyncingAt DEF Finishing, Filling, SyncingAt
<1>8. FinishingSynced' /\ HeaderZeroed' /\ NoJournal'
  BY <1>1, <1>7 DEF FinishingSynced, HeaderZeroed, NoJournal, SyncingAt
<1>9. RecordsSynced'
  BY <1>1, <1>4 DEF RecordsSynced
<1>10. FillingSynced'
  <2>1. /\ \A i \in 1 .. hdr : At(JournalContent, i) = At(MediaJournal, i)
        /\ ~ IsMagic(At(MediaJournal, hdr + 1)) /\ ~ IsMagic(At(JournalContent, hdr + 1))
    BY <1>1 DEF MediaInv, FillingSynced, SyncingAt
  <2>2. /\ \A i \in 1 .. hdr : i \in Nat \ {0} /\ i # off + 3
        /\ hdr + 1 \in Nat \ {0} /\ hdr + 1 # off + 3
    OBVIOUS
  <2>3. /\ \A i \in 1 .. hdr : At(JournalContent', i) = At(MediaJournal, i)
        /\ ~ IsMagic(At(JournalContent', hdr + 1))
    BY <1>4, <2>1, <2>2
  <2>. QED
    BY <1>1, <1>5, <2>1, <2>3 DEF FillingSynced
<1>11. MediaRecords'
  BY <1>1, <1>2, <1>7 DEF MediaRecords, RolledBack, SyncingAt
<1>. QED
  BY <1>6, <1>8, <1>9, <1>10, <1>11 DEF MediaInv

LEMMA SyncRecordsMedia ==
    ASSUME TypeInv, MediaInv, SyncingAt, SyncRecords, NEW segs, RecordedBy(segs)
    PROVE  MediaInv'
<1>1. /\ UNCHANGED <<disk, pager, committed>> /\ previous' = committed
      /\ pc.at = "syncRecords" /\ pc'.at = "nRec" /\ pc'.op = pc.op
      /\ disk["journal"] # NoFile
      /\ media' = [media EXCEPT !["journal"] = disk["journal"]]
  BY InvTyped DEF SyncRecords, Sync, Exists, Goes, Places
<1>2. media'["journal"] = disk["journal"] /\ media'["db"] = media["db"]
  BY <1>1 DEF TypeInv, FilesOK, StoreTypeOK
<1>3. JournalContent' = JournalContent /\ MediaJournal' = JournalContent
  BY <1>1, <1>2, SameDisk, SyncedMedia
<1>4. RecordedBy(segs)'
  BY SyncRecordsRecords
<1>5. JournalKnown' /\ MediaDb' /\ PreviousIs'
  BY <1>1, <1>2 DEF MediaInv, JournalKnown, MediaDb, PreviousIs
<1>6. ~ Finishing' /\ Filling'
  BY <1>1 DEF Finishing, Filling, SyncingAt
<1>7. FinishingSynced' /\ HeaderZeroed' /\ NoJournal'
  BY <1>1, <1>6 DEF FinishingSynced, HeaderZeroed, NoJournal, SyncingAt
<1>8. RecordsSynced'
  BY <1>1, <1>3 DEF MediaInv, RecordsSynced
<1>9. FillingSynced'
  BY <1>1, <1>3 DEF MediaInv, FillingSynced, SyncingAt
<1>10. MediaRecords'
  BY <1>1, <1>4, <1>6 DEF MediaRecords, RolledBack, SyncingAt
<1>. QED
  BY <1>5, <1>7, <1>8, <1>9, <1>10 DEF MediaInv

LEMMA CountRecordsMedia ==
    ASSUME TypeInv, MediaInv, SyncingAt, CountRecords, NEW segs, RecordedBy(segs)
    PROVE  MediaInv'
<1>1. /\ UNCHANGED <<media, pager, committed, previous>>
      /\ pc.at = "nRec" /\ pc'.at = "syncHdr" /\ pc'.op = pc.op
      /\ WriteJournal(pager.journalHdr, <<Magic(pager.nRec)>>)
  BY InvTyped DEF CountRecords, Goes, ghosts, Places
<1>2. RecordedBy(segs)'
  BY CountRecordsRecords
<1> PICK hdr \in Nat, off \in Nat :
        hdr = pager.journalHdr /\ off = pager.journalOff /\ off >= hdr + 2
  BY RecordsBehind
<1> PICK magic \in JournalCell : magic = Magic(pager.nRec)
  BY InvTyped, MagicIs DEF Pagers
<1>3. /\ disk'["journal"] # NoFile
      /\ \A i \in Nat \ {0} : At(JournalContent', i) =
            IF i = hdr + 1 THEN magic ELSE At(JournalContent, i)
  BY <1>1, JournalCellWritten
<1>4. MediaJournal' = MediaJournal
  BY <1>1, SameMedia
<1>5. JournalKnown' /\ MediaDb' /\ PreviousIs'
  BY <1>1, <1>3 DEF MediaInv, JournalKnown, MediaDb, PreviousIs
<1>6. ~ Finishing' /\ Filling'
  BY <1>1 DEF Finishing, Filling, SyncingAt
<1>7. FinishingSynced' /\ HeaderZeroed' /\ NoJournal'
  BY <1>1, <1>6 DEF FinishingSynced, HeaderZeroed, NoJournal, SyncingAt
<1>8. RecordsSynced'
  <2>1. /\ ~ IsMagic(At(JournalContent, off + 3))
        /\ \A i \in Nat \ {0} : At(JournalContent, i) = At(MediaJournal, i)
    BY <1>1 DEF MediaInv, RecordsSynced
  <2>2. off + 3 \in Nat \ {0} /\ off + 3 # hdr + 1
    OBVIOUS
  <2>3. ~ IsMagic(At(JournalContent', off + 3))
    BY <1>3, <2>1, <2>2
  <2>4. \A i \in Nat \ {0} : i # hdr + 1 => At(JournalContent', i) = At(MediaJournal, i)
    BY <1>3, <2>1
  <2>. QED
    BY <1>1, <1>4, <2>3, <2>4 DEF RecordsSynced
<1>9. FillingSynced'
  <2>1. /\ \A i \in 1 .. hdr : At(JournalContent, i) = At(MediaJournal, i)
        /\ ~ IsMagic(At(MediaJournal, hdr + 1))
    BY <1>1 DEF MediaInv, FillingSynced, SyncingAt
  <2>2. \A i \in 1 .. hdr : i \in Nat \ {0} /\ i # hdr + 1
    OBVIOUS
  <2>3. \A i \in 1 .. hdr : At(JournalContent', i) = At(MediaJournal, i)
    BY <1>3, <2>1, <2>2
  <2>. QED
    BY <1>1, <1>4, <2>1, <2>3 DEF FillingSynced
<1>10. MediaRecords'
  BY <1>1, <1>2, <1>6 DEF MediaRecords, RolledBack, SyncingAt
<1>. QED
  BY <1>5, <1>7, <1>8, <1>9, <1>10 DEF MediaInv

\* What both forms of the last step have in common.
LEMMA SyncHeaderCommon ==
    ASSUME TypeInv, FileInv, MediaInv, SyncingAt, SyncHeader
    PROVE  /\ pc.at = "syncHdr" /\ pc'.at = "pages" /\ pc'.op = pc.op
           /\ pager'.eState = "DBMOD" /\ pager'.dbOrigSize = pager.dbOrigSize
           /\ pager'.dirty = pager.dirty
           /\ UNCHANGED <<committed, previous>> /\ previous = committed
           /\ media'["db"] = media["db"] /\ media'["journal"] = disk["journal"]
           /\ MediaJournal' = JournalContent
           /\ MediaDb' /\ PreviousIs' /\ HeaderZeroed' /\ RecordsSynced' /\ NoJournal'
<1>1. /\ pc.at = "syncHdr" /\ pc'.at = "pages" /\ pc'.op = pc.op
      /\ pager'.eState = "DBMOD" /\ pager'.dbOrigSize = pager.dbOrigSize
      /\ pager'.dirty = pager.dirty
  BY SyncHeaderDoes
<1>2. UNCHANGED <<committed, previous>>
      /\ media' = [media EXCEPT !["journal"] = disk["journal"]]
  BY DEF SyncHeader, ghosts
<1>3. media'["db"] = media["db"] /\ media'["journal"] = disk["journal"]
  BY <1>2 DEF TypeInv, FilesOK, StoreTypeOK
<1>4. previous = committed
  BY <1>1 DEF MediaInv, PreviousIs
<1>5. \A p \in OldPages(committed) : Untouched(committed, media["db"], p)
  <2>1. CASE pager.eState = "DBMOD"
    BY <2>1 DEF MediaInv, MediaDb
  <2>2. CASE pager.eState = "CACHEMOD"
    BY <2>2 DEF FileInv, FileSynced, FileUntouched
  <2>. QED
    BY <2>1, <2>2 DEF SyncingAt
<1>6. MediaDb'
  BY <1>2, <1>3, <1>5 DEF MediaInv, MediaDb
<1>7. PreviousIs' /\ HeaderZeroed' /\ RecordsSynced' /\ NoJournal'
  BY <1>1, <1>2, <1>4 DEF PreviousIs, HeaderZeroed, RecordsSynced, NoJournal
<1>. QED
  BY <1>1, <1>2, <1>3, <1>4, <1>6, <1>7, SyncedMedia

LEMMA SpillHeaderMedia ==
    ASSUME TypeInv, FileInv, MediaInv, SyncingAt, SyncHeader, pc.op = "spill",
           NEW segs, RecordedBy(segs)
    PROVE  MediaInv'
<1> PICK off \in Nat : off = pager.journalOff /\ off >= 2
  <2>1. pager.journalOff \in Nat /\ pager.journalHdr \in Nat
        /\ pager.journalOff >= pager.journalHdr + 2
    BY RecordsBehind
  <2>2. pager.journalOff >= 2
    BY <2>1
  <2>. QED
    BY <2>1, <2>2
<1> PICK hdr \in Nat : hdr = off + 2
  OBVIOUS
<1>1. JournalHdrOffset(off) = hdr
  BY DEF JournalHdrOffset
<1> PICK nonce \in JournalCell : nonce = Nonce(prng + 1, pager.dbOrigSize)
  <2>1. prng + 1 \in Nat /\ pager.dbOrigSize \in 0 .. NPages
    BY InvTyped DEF Pagers
  <2>. QED
    BY <2>1, NonceIs
<1>2. pager'.journalHdr = hdr /\ WriteJournal(hdr, <<ZeroCell, nonce>>)
  BY <1>1, SyncHeaderDoes
<1>3. /\ disk'["journal"] # NoFile
      /\ \A i \in Nat \ {0} :
            At(JournalContent', i) = IF i = hdr + 1 THEN ZeroCell ELSE IF i = hdr + 2 THEN nonce
                                     ELSE At(JournalContent, i)
  BY <1>2, ZeroIs, HeaderWritten
<1>4. JournalKnown'
  BY <1>3 DEF JournalKnown
<1>5. ~ Finishing' /\ FinishingSynced'
  BY SyncHeaderCommon DEF Finishing, FinishingSynced
<1>6. FillingSynced'
  <2>1. ~ IsMagic(At(JournalContent, hdr + 1))
    <3>1. hdr + 1 = off + 3
      OBVIOUS
    <3>. QED
      BY <3>1, SyncHeaderCommon DEF MediaInv, RecordsSynced
  <2>2. hdr + 1 \in Nat \ {0} /\ \A i \in 1 .. hdr : i \in Nat \ {0} /\ i # hdr + 1 /\ i # hdr + 2
    OBVIOUS
  <2>3. \A i \in 1 .. hdr : At(JournalContent', i) = At(JournalContent, i)
    BY <1>3, <2>2
  <2>4. ~ IsMagic(At(JournalContent', hdr + 1))
    BY <1>3, <2>2, ZeroIs
  <2>. QED
    BY <1>2, <2>1, <2>3, <2>4, SyncHeaderCommon DEF FillingSynced
<1>7. MediaRecords'
  BY SyncHeaderCommon DEF MediaRecords, Committing, CommittingAt, RolledBack
<1>. QED
  BY <1>4, <1>5, <1>6, <1>7, SyncHeaderCommon DEF MediaInv

\* The records of a transaction that commits are all on the medium.
LEMMA CommitHeaderMedia ==
    ASSUME TypeInv, FileInv, MediaInv, SyncingAt, SyncHeader, pc.op = "commit",
           NEW segs, RecordedBy(segs)
    PROVE  MediaInv'
<1>1. disk' = disk
  BY SyncHeaderDoes
<1>2. JournalContent' = JournalContent
  BY <1>1, SameDisk
<1>3. JournalKnown'
  BY <1>1, SyncHeaderCommon DEF JournalKnown
<1>4. Finishing' /\ ~ Filling' /\ FillingSynced'
  BY SyncHeaderCommon DEF Finishing, Filling, FillingSynced
<1>5. FinishingSynced'
  BY <1>2, SyncHeaderCommon DEF FinishingSynced
<1> PICK hdr : hdr = pager.journalHdr
  OBVIOUS
<1>6. /\ Chained(segs, hdr) /\ segs \in Segments
      /\ IsJournal(JournalContent, segs, hdr, pager.dbOrigSize, committed)
      /\ Recorded(committed, disk["db"], cache, segs, pager, prng)
      /\ JournalContent[hdr + 1] = Magic(pager.nRec)
  BY SyncHeaderCommon DEF RecordedBy, Reversible, HasRecords, Chained, Counted
<1>7. Len(segs[hdr].pages) = pager.nRec /\ pager.journalOff = End(segs, hdr)
  BY <1>6 DEF Recorded
<1>8. \A h \in DOMAIN segs : IsCounted(JournalContent, segs, h, pager.dbOrigSize, committed)
  BY <1>6, <1>7, InvTyped, CountedHere
<1>9. ~ IsMagic(At(JournalContent, End(segs, hdr) + 3))
  BY <1>7, SyncHeaderCommon DEF MediaInv, RecordsSynced
<1>10. ASSUME NEW p \in OldPages(committed)
       PROVE  \/ \E h \in DOMAIN segs : InSegment(segs, h, p)
              \/ Untouched(committed, disk["db"], p) /\ p \notin pager.dirty
  <2>1. CASE p \in pager.inJournal
    <3>1. Ahead(segs, p, 0)
      BY <1>6, <2>1 DEF Recorded
    <3>. QED
      BY <3>1 DEF Ahead, InSegment
  <2>2. CASE p \notin pager.inJournal
    BY <1>6, <2>2 DEF Recorded, Restored
  <2>. QED
    BY <2>1, <2>2
<1>11. RecordsOf(segs, hdr, previous)'
  BY <1>1, <1>6, <1>8, <1>9, <1>10, SyncHeaderCommon DEF RecordsOf
<1>12. MediaRecords'
  BY <1>11, SyncHeaderCommon DEF MediaRecords, RolledBack, Syncing
<1>. QED
  BY <1>3, <1>4, <1>5, <1>12, SyncHeaderCommon DEF MediaInv

LEMMA SyncingMedia ==
    ASSUME TypeInv, FileInv, MediaInv, SyncingAt, NEW segs, RecordedBy(segs),
           NextHeader \/ SyncRecords \/ CountRecords \/ SyncHeader
    PROVE  MediaInv'
BY NextHeaderMedia, SyncRecordsMedia, CountRecordsMedia, SpillHeaderMedia, CommitHeaderMedia
   DEF SyncingAt

LEMMA SyncsMedia ==
    ASSUME TypeInv, FileInv, MediaInv, Undecided \/ Committing,
           NextHeader \/ SyncRecords \/ CountRecords \/ SyncHeader
    PROVE  MediaInv'
<1>1. pc.at \in Syncing
  BY Guards
<1>2. CASE Undecided
  <2>1. SyncingAt
    BY <1>1, <1>2 DEF Undecided, UndecidedAt, SyncingAt, Syncing, IsIdle, Idle, Finishing, Filling
  <2> PICK segs : RecordedBy(segs)
    BY <1>2 DEF Undecided
  <2>. QED
    BY <2>1, SyncingMedia
<1>3. CASE Committing
  <2>1. SyncingAt
    BY <1>1, <1>3 DEF Committing, CommittingAt, SyncingAt, Syncing, Finishing, Filling
  <2> PICK segs : RecordedBy(segs)
    BY <1>1, <1>3 DEF MediaInv, MediaRecords
  <2>. QED
    BY <2>1, SyncingMedia
<1>. QED
  BY <1>2, <1>3

-----------------------------------------------------------------------------
(* Commit                                                                  *)

LEMMA CommitPageMedia ==
    ASSUME TypeInv, MediaInv, Committing, CommitPage
    PROVE  MediaInv'
<1> PICK p \in pager.dirty :
        /\ IF p <= pager.dbSize THEN WriteDb(p, PageCell(cache[p])) ELSE UNCHANGED disk
        /\ pager' = [pager EXCEPT !.dirty = @ \ {p}]
  BY DEF CommitPage
<1>1. /\ pc.op = "commit" /\ pc.at = "pages" /\ UNCHANGED <<media, pc, committed, previous>>
      /\ pager.eState = "DBMOD" /\ previous = committed
  BY DEF CommitPage, ghosts, Committing, CommittingAt, Syncing, MediaInv, PreviousIs
<1>2. /\ pager'.dirty = pager.dirty \ {p} /\ pager'.eState = pager.eState
      /\ pager'.journalHdr = pager.journalHdr /\ pager'.dbOrigSize = pager.dbOrigSize
  BY InvTyped DEF Pagers
<1>3. p \in DOMAIN cache /\ p \in Page /\ cache[p] \in Content /\ disk["db"] \in Databases
  BY InvTyped
<1>4. disk'["journal"] = disk["journal"]
  BY DEF WriteDb, TypeInv, FilesOK, StoreTypeOK
<1>5. Finishing /\ ~ Filling' /\ Quiet(pc.at) /\ Quiet(pc'.at)
  BY <1>1 DEF Finishing, Filling, Quiet
<1>6. JournalStays /\ MediaJournal' = MediaJournal
  BY <1>1, <1>4, JournalStaysIs DEF JournalStays
<1>7. ASSUME NEW q \in OldPages(committed), Untouched(committed, disk["db"], q), q # p
      PROVE  Untouched(committed, disk'["db"], q)
  <2>1. CASE p <= pager.dbSize
    <3> PICK db : db = disk["db"]
      OBVIOUS
    <3> PICK new : new = disk'["db"]
      OBVIOUS
    <3>1. PageWritten(db, new, p, cache[p])
      BY <1>1, <1>3, <2>1, DbWriteDoes
    <3>2. q \in Nat \ {0}
      BY DEF OldPages
    <3>3. Untouched(committed, new, q)
      BY <1>3, <1>7, <3>1, <3>2, OthersKept
    <3>. QED
      BY <3>3
  <2>2. CASE ~ (p <= pager.dbSize)
    BY <1>7, <2>2
  <2>. QED
    BY <2>1, <2>2
<1>8. PICK segs, last : RecordsOf(segs, last, committed)
  BY <1>1, <1>5 DEF MediaInv, MediaRecords
<1>9. RecordsOf(segs, last, previous)'
  BY <1>1, <1>2, <1>6, <1>7, <1>8 DEF RecordsOf
<1>10. MediaRecords'
  BY <1>1, <1>9 DEF MediaRecords, RolledBack, Syncing
<1>. QED
  BY <1>1, <1>2, <1>5, <1>6, <1>10, QuietStep

\* Steps that sync or change the database file are nothing to the journal.
LEMMA RecordsStay ==
    ASSUME NEW segs, NEW last, RecordsOf(segs, last, previous),
           MediaJournal' = MediaJournal, disk'["db"] = disk["db"], pager'.dirty = pager.dirty,
           pager'.dbOrigSize = pager.dbOrigSize, previous' = previous
    PROVE  RecordsOf(segs, last, previous)'
  BY DEF RecordsOf

LEMMA PagesDoneMedia ==
    ASSUME TypeInv, MediaInv, Committing, CommitPagesDone
    PROVE  MediaInv'
<1>1. /\ pc.op = "commit" /\ pc.at = "pages" /\ pc'.op = "commit" /\ pc'.at = "syncDb"
      /\ UNCHANGED <<disk, media, pager, committed, previous>>
      /\ pager.eState = "DBMOD"
  BY InvTyped DEF CommitPagesDone, ghosts, Goes, Places, Committing, CommittingAt, Syncing
<1>2. Finishing /\ ~ Filling' /\ Quiet(pc.at) /\ Quiet(pc'.at)
  BY <1>1 DEF Finishing, Filling, Quiet
<1>3. JournalStays /\ MediaJournal' = MediaJournal
  BY <1>1, JournalStaysIs DEF JournalStays
<1>4. PICK segs, last : RecordsOf(segs, last, previous)
  BY <1>2 DEF MediaInv, MediaRecords
<1>5. RecordsOf(segs, last, previous)'
  BY <1>1, <1>3, <1>4, RecordsStay
<1>6. MediaRecords'
  BY <1>1, <1>5 DEF MediaRecords, RolledBack, Syncing
<1>. QED
  BY <1>1, <1>2, <1>3, <1>6, QuietStep

\* Of a commit or of a rollback.
LEMMA SyncDbMedia ==
    ASSUME TypeInv, MediaInv, Committing \/ RolledBack, SyncDb
    PROVE  MediaInv'
<1>1. /\ pc.at = "syncDb" /\ pc'.op = pc.op /\ pc'.at = "zero"
      /\ UNCHANGED <<disk, committed, previous>>
      /\ media' = [media EXCEPT !["db"] = disk["db"]]
      /\ pager' = IF pc.op = "commit" THEN [pager EXCEPT !.eState = "FINISHED"] ELSE pager
  BY InvTyped DEF SyncDb, Sync, ghosts, Goes, Places
<1>2. media'["db"] = disk["db"] /\ media'["journal"] = media["journal"]
  BY <1>1 DEF TypeInv, FilesOK, StoreTypeOK
<1>3. JournalContent' = JournalContent /\ MediaJournal' = MediaJournal
  BY <1>1, <1>2, JournalStaysIs DEF JournalStays
<1>4. /\ pager'.eState = IF pc.op = "commit" THEN "FINISHED" ELSE pager.eState
      /\ pager'.journalHdr = pager.journalHdr /\ pager'.dbOrigSize = pager.dbOrigSize
      /\ pager'.dirty = pager.dirty
  BY <1>1, InvTyped DEF Pagers
<1>5. /\ pc.op \in {"commit", "rollback"}
      /\ pc.op = "rollback" =>
            /\ RolledBack /\ pager.eState \in {"CACHEMOD", "DBMOD"}
            /\ \A p \in OldPages(committed) : Untouched(committed, disk["db"], p)
  BY <1>1 DEF Committing, CommittingAt, RolledBack, Syncing, AllRestored, Restored
<1>6. JournalKnown' /\ PreviousIs' /\ HeaderZeroed' /\ RecordsSynced'
  BY <1>1, <1>2 DEF MediaInv, JournalKnown, PreviousIs, HeaderZeroed, RecordsSynced
<1>7. MediaDb'
  BY <1>1, <1>2, <1>4, <1>5, InvTyped DEF MediaDb
<1>8. FinishingSynced'
  BY <1>1, <1>3 DEF MediaInv, FinishingSynced, Finishing
<1>9. FillingSynced'
  <2>1. CASE pc.op = "commit"
    BY <1>1, <2>1 DEF FillingSynced, Filling, Finishing
  <2>2. CASE pc.op = "rollback"
    <3>1. Filling
      BY <1>5, <2>2 DEF Filling, Finishing
    <3>. QED
      BY <1>1, <1>3, <1>4, <2>2, <3>1 DEF MediaInv, FillingSynced
  <2>. QED
    BY <1>5, <2>1, <2>2
<1>10. NoJournal'
  BY <1>4, <1>5 DEF NoJournal
<1>11. MediaRecords'
  <2>1. CASE pc.op = "commit"
    <3>1. Committing /\ Finishing
      BY <1>1, <2>1 DEF RolledBack, Finishing
    <3> PICK segs, last : RecordsOf(segs, last, previous)
      BY <3>1 DEF MediaInv, MediaRecords
    <3>2. RecordsOf(segs, last, previous)'
      BY <1>1, <1>3, <1>4, RecordsStay
    <3>. QED
      BY <1>1, <2>1, <3>2 DEF MediaRecords, RolledBack, Syncing
  <2>2. CASE pc.op = "rollback"
    <3> PICK segs : RecordsBefore(segs, committed)
      BY <1>5, <2>2 DEF MediaInv, MediaRecords
    <3>1. RecordsBefore(segs, committed)'
      BY <1>1, <1>3, <1>4 DEF RecordsBefore
    <3>. QED
      BY <1>1, <2>2, <3>1 DEF MediaRecords, Committing, CommittingAt
  <2>. QED
    BY <1>5, <2>1, <2>2
<1>. QED
  BY <1>6, <1>7, <1>8, <1>9, <1>10, <1>11 DEF MediaInv

LEMMA ZeroHeaderMedia ==
    ASSUME TypeInv, MediaInv, Committing \/ RolledBack, ZeroHeader
    PROVE  MediaInv'
<1>1. /\ pc.at = "zero" /\ pc'.op = pc.op /\ pc'.at = "syncZero"
      /\ WriteJournal(0, <<ZeroCell, ZeroCell>>)
      /\ UNCHANGED <<media, pager>>
      /\ pc.op = "commit" => previous' = committed
      /\ pc.op # "commit" => UNCHANGED <<committed, previous>>
  BY InvTyped DEF ZeroHeader, Goes, Places
<1>2. /\ disk'["db"] = disk["db"] /\ disk'["journal"] # NoFile
      /\ \A i \in Nat \ {0} :
            At(JournalContent', i) = IF i = 1 THEN ZeroCell ELSE IF i = 2 THEN ZeroCell
                                     ELSE At(JournalContent, i)
  <2>1. \A i \in Nat : (i = 0 + 1 <=> i = 1) /\ (i = 0 + 2 <=> i = 2)
    OBVIOUS
  <2>. QED
    BY <1>1, <2>1, ZeroIs, HeaderWritten
<1>3. /\ At(JournalContent', 1) = ZeroCell /\ At(JournalContent', 2) = ZeroCell
      /\ \A i \in Nat \ {0} : i > 2 => At(JournalContent', i) = At(JournalContent, i)
  BY <1>2
<1>4. MediaJournal' = MediaJournal
  BY <1>1, SameMedia
<1>5. previous = committed
  BY <1>1 DEF MediaInv, PreviousIs
<1>6. /\ pc.op \in {"commit", "rollback"}
      /\ pc.op = "commit" => Committing /\ Finishing /\ pager.eState = "FINISHED"
      /\ pc.op = "rollback" => RolledBack /\ Filling /\ pager.eState \in {"CACHEMOD", "DBMOD"}
  BY <1>1 DEF Committing, CommittingAt, RolledBack, Syncing, Finishing, Filling
<1>7. JournalKnown' /\ PreviousIs' /\ HeaderZeroed' /\ RecordsSynced' /\ NoJournal'
  BY <1>1, <1>2, <1>3, <1>5, <1>6
     DEF MediaInv, JournalKnown, PreviousIs, HeaderZeroed, RecordsSynced, NoJournal
<1>8. MediaDb'
  BY <1>1, <1>6 DEF MediaInv, MediaDb
<1>9. FinishingSynced'
  <2>1. CASE pc.op = "commit"
    BY <1>1, <1>3, <1>4, <1>6, <2>1 DEF MediaInv, FinishingSynced
  <2>2. CASE pc.op = "rollback"
    BY <1>1, <2>2 DEF FinishingSynced, Finishing
  <2>. QED
    BY <1>6, <2>1, <2>2
<1>10. CASE pc.op = "commit"
  <2>1. FillingSynced'
    BY <1>1, <1>6, <1>10 DEF FillingSynced, Filling
  <2> PICK segs, last : RecordsOf(segs, last, previous)
    BY <1>6, <1>10 DEF MediaInv, MediaRecords
  <2>2. RecordsOf(segs, last, previous)'
    BY <1>1, <1>2, <1>4, <1>5, <1>10, RecordsStay
  <2>3. MediaRecords'
    BY <1>1, <1>10, <2>2 DEF MediaRecords, RolledBack, Syncing
  <2>. QED
    BY <1>7, <1>8, <1>9, <2>1, <2>3 DEF MediaInv
<1>11. CASE pc.op = "rollback"
  <2> PICK segs : RecordsBefore(segs, committed)
    BY <1>6, <1>11 DEF MediaInv, MediaRecords
  <2>1. RecordsBefore(segs, committed)'
    BY <1>1, <1>4, <1>11 DEF RecordsBefore
  <2>2. MediaRecords'
    BY <1>1, <1>11, <2>1 DEF MediaRecords, Committing, CommittingAt
  <2> PICK hdr : hdr = pager.journalHdr
    OBVIOUS
  <2>3. hdr \in Nat /\ (hdr = 0 \/ hdr > 2)
    <3>1. /\ Chained(segs, hdr) /\ segs \in Segments /\ 0 \in DOMAIN segs /\ hdr \in Nat
      BY InvTyped DEF RecordsBefore, Chained, Pagers
    <3>2. CASE hdr # 0
      <4>1. End(segs, 0) + 2 <= hdr
        BY <3>1, <3>2, SegmentBeforeLast
      <4>2. End(segs, 0) \in Nat /\ Len(segs[0].pages) \in Nat
            /\ End(segs, 0) = 0 + 2 + 3 * Len(segs[0].pages)
        BY <3>1, SegmentIs
      <4>. QED
        BY <3>1, <4>1, <4>2
    <3>. QED
      BY <3>1, <3>2
  <2>4. /\ \A i \in 1 .. hdr : At(JournalContent, i) = At(MediaJournal, i)
        /\ ~ IsMagic(At(MediaJournal, hdr + 1))
        /\ ~ IsMagic(At(JournalContent, hdr + 1))
    BY <1>1, <1>6, <1>11 DEF MediaInv, FillingSynced
  <2>5. \A i \in 1 .. hdr : i > 2 => At(JournalContent', i) = At(MediaJournal, i)
    BY <1>3, <2>3, <2>4
  <2>6. ~ IsMagic(At(JournalContent', hdr + 1))
    <3>1. CASE hdr = 0
      BY <1>3, <3>1, ZeroIs
    <3>2. CASE hdr > 2
      <4> PICK i \in Nat \ {0} : i = hdr + 1 /\ i > 2
        BY <2>3, <3>2
      <4>. QED
        BY <1>3, <2>4
    <3>. QED
      BY <2>3, <3>1, <3>2
  <2>7. FillingSynced'
    BY <1>1, <1>4, <2>4, <2>5, <2>6 DEF FillingSynced
  <2>. QED
    BY <1>7, <1>8, <1>9, <2>2, <2>7 DEF MediaInv
<1>. QED
  BY <1>6, <1>10, <1>11

LEMMA EndMedia ==
    ASSUME TypeInv, MediaInv, Committing \/ RolledBack, EndTransaction
    PROVE  MediaInv'
<1>1. pager.journalOff # 0
  BY DEF Committing, CommittingAt, RolledBack
<1>2. /\ pc.at = "syncZero" /\ pc' = Idle /\ disk' = disk /\ disk["journal"] # NoFile
      /\ committed' = committed /\ previous' = committed
      /\ media' = [media EXCEPT !["journal"] = disk["journal"]]
  BY <1>1 DEF EndTransaction, Sync, Exists
<1>3. media'["journal"] = disk["journal"] /\ media'["db"] = media["db"]
  BY <1>2 DEF TypeInv, FilesOK, StoreTypeOK
<1>4. pager'.eState = "READER"
  BY InvTyped DEF EndTransaction, Pagers
<1>5. JournalContent' = JournalContent /\ MediaJournal' = JournalContent
  BY <1>2, <1>3, SameDisk, SyncedMedia
<1>6. NoJournal'
  BY <1>2, <1>5, ZeroIs DEF MediaInv, HeaderZeroed, NoJournal
<1>7. JournalKnown' /\ PreviousIs' /\ MediaDb'
  BY <1>2, <1>3, <1>4 DEF MediaInv, JournalKnown, PreviousIs, MediaDb
<1>8. FillingSynced' /\ FinishingSynced' /\ RecordsSynced' /\ HeaderZeroed' /\ MediaRecords'
  BY <1>2, <1>4, IdleIsNext DEF FillingSynced, Filling, FinishingSynced, RecordsSynced, HeaderZeroed
<1>. QED
  BY <1>6, <1>7, <1>8 DEF MediaInv

-----------------------------------------------------------------------------
(* Every step                                                              *)

LEMMA NextMedia == Inv /\ FileInv /\ MediaInv /\ [Next]_vars => MediaInv'
<1> SUFFICES ASSUME Inv, FileInv, MediaInv, [Next]_vars PROVE MediaInv'
  OBVIOUS
<1>1. TypeInv /\ TypeInv' /\ SeedsDrawn /\ Phase
  BY NextTyped DEF Inv
<1>2. CASE UNCHANGED vars
  <2>1. UNCHANGED <<disk, media, pager, cache, prng, pc, committed, previous, tx>>
    BY <1>2 DEF vars
  <2>2. JournalContent' = JournalContent /\ MediaJournal' = MediaJournal
    BY <2>1 DEF JournalContent, Exists, MediaJournal
  <2>3. (Filling' <=> Filling) /\ (Finishing' <=> Finishing)
    BY <2>1 DEF Filling, Finishing
  <2>4. View' = View
    BY <2>1 DEF View, IsDatabase, Size, Fetched, DbSize
  <2>5. (Committing' <=> Committing) /\ (RolledBack' <=> RolledBack)
    BY <2>1, <2>4 DEF Committing, CommittingAt, RolledBack
  <2>6. \A segs : RecordedBy(segs) => RecordedBy(segs)'
    BY <2>1, <2>2 DEF RecordedBy
  <2>7. \A segs, last : RecordsOf(segs, last, previous) => RecordsOf(segs, last, previous)'
    BY <2>1, <2>2 DEF RecordsOf
  <2>8. \A segs : RecordsBefore(segs, committed) => RecordsBefore(segs, committed)'
    BY <2>1, <2>2 DEF RecordsBefore
  <2>9. MediaRecords'
    <3>1. Committing /\ pc.at \in Syncing => \E segs : RecordedBy(segs)'
      BY <2>6 DEF MediaInv, MediaRecords
    <3>2. Committing /\ Finishing => \E segs, last : RecordsOf(segs, last, previous)'
      BY <2>7 DEF MediaInv, MediaRecords
    <3>3. RolledBack => \E segs : RecordsBefore(segs, committed)'
      BY <2>8 DEF MediaInv, MediaRecords
    <3>. QED
      BY <2>1, <2>3, <2>5, <3>1, <3>2, <3>3 DEF MediaRecords
  <2>. QED
    BY <2>1, <2>2, <2>3, <2>9
       DEF MediaInv, JournalKnown, MediaDb, PreviousIs, FillingSynced, RecordsSynced,
           FinishingSynced, HeaderZeroed, NoJournal
<1>3. CASE Next /\ Settled
  <2>1. Settled' \/ Undecided'
    BY <1>1, <1>3, SettledNext
  <2>2. CASE NewDatabase \/ Extend \/ (\E p \in Page : WritePage(p))
    BY <1>1, <1>3, <2>2, WritesMedia
  <2>3. CASE Close
    BY <1>1, <1>3, <2>3, CloseKeeps, CloseMedia
  <2>4. CASE Open \/ SharedLock \/ Begin \/ EndNothing
             \/ (\E p \in Page : Get(p)) \/ (\E p \in Page : Recycle(p))
    <3>1. Settled'
      BY <1>1, <1>3, <2>4, OpenKeeps, SharedLockKeeps, BeginKeeps, EndNothingKeeps, GetSettled,
         RecycleSettled
    <3>. QED
      BY <1>1, <1>3, <2>4, <3>1, SettledMedia
  <2>. QED
    BY <1>3, <2>2, <2>3, <2>4, SettledActs
<1>4. CASE Next /\ Undecided
  BY <1>1, <1>4, UndecidedActs, WritesMedia, UndecidedMedia, CommitMedia, RollbackMedia, SyncsMedia
<1>5. CASE Next /\ Committing
  BY <1>1, <1>5, CommittingActs, SyncsMedia, CommitPageMedia, PagesDoneMedia, SyncDbMedia,
     ZeroHeaderMedia, EndMedia
<1>6. CASE Next /\ RollingBack
  BY <1>1, <1>6, RollingBackActs, RollingBackNext, PlaybackMedia
<1>7. CASE Next /\ RolledBack
  BY <1>1, <1>7, RolledBackActs, SyncDbMedia, ZeroHeaderMedia, EndMedia
<1>. QED
  BY <1>1, <1>2, <1>3, <1>4, <1>5, <1>6, <1>7 DEF Phase

LEMMA InitMedia == Init => MediaInv
<1> SUFFICES ASSUME Init PROVE MediaInv
  OBVIOUS
<1>1. /\ disk["journal"] = NoFile /\ media = disk /\ pc = Idle /\ pager = ClosedPager
      /\ previous = committed
  BY DEF Init
<1>2. TypeInv
  BY InitTyped
<1>3. JournalContent = << >> /\ MediaJournal = << >>
  BY <1>1 DEF JournalContent, Exists, MediaJournal
<1>4. At(<< >>, 1) = ZeroCell
  BY DEF At
<1>5. IsIdle /\ pager.eState = "CLOSED"
  BY <1>1 DEF IsIdle, ClosedPager
<1>6. JournalKnown /\ PreviousIs /\ NoJournal
  BY <1>1, <1>3, <1>4, ZeroIs DEF JournalKnown, PreviousIs, NoJournal
<1>7. MediaDb
  BY <1>1, <1>2, <1>5, InvTyped DEF MediaDb
<1>8. FillingSynced /\ RecordsSynced /\ FinishingSynced /\ HeaderZeroed /\ MediaRecords
  BY <1>5, IdleIs DEF FillingSynced, Filling, RecordsSynced, FinishingSynced, HeaderZeroed,
     MediaRecords, Committing, CommittingAt, RolledBack
<1>. QED
  BY <1>6, <1>7, <1>8 DEF MediaInv

-----------------------------------------------------------------------------
(* The theorem                                                             *)

\* As long as no call fails and the power stays on.
WhileSound ==
    \/ crashes = 0 /\ fails = 0 /\ Inv /\ FileInv /\ MediaInv
    \/ fails \in Nat \ {0}
    \/ crashes \in Nat \ {0}

LEMMA CrashesKept == Next => crashes' = crashes
BY DEF Next, ghosts, Open, SharedLock, Begin, NewDatabase, Extend, Get, Recycle, WritePage, Spill,
       NextHeader, SyncRecords, CountRecords, SyncHeader, SpillPage, EndNothing, Commit, CommitPage,
       CommitPagesDone, SyncDb, ZeroHeader, EndTransaction, Rollback, PlayHeader, PlayRecord,
       SkipRecord, RefuseRecord, SegmentPlayed, Close

LEMMA WhileSoundKept == WhileSound /\ [FaultNext]_faultVars => WhileSound'
<1> SUFFICES ASSUME WhileSound, [FaultNext]_faultVars PROVE WhileSound'
  OBVIOUS
<1>1. CASE UNCHANGED faultVars
  <2>1. UNCHANGED vars /\ UNCHANGED <<crashes, fails>>
    BY <1>1 DEF faultVars, vars
  <2>2. CASE crashes = 0 /\ fails = 0 /\ Inv /\ FileInv /\ MediaInv
    BY <2>1, <2>2, NextInv, FileInvKept, NextMedia DEF WhileSound
  <2>. QED
    BY <2>1, <2>2 DEF WhileSound
<1>2. CASE Next /\ UNCHANGED <<fails, harm>>
  <2>1. crashes' = crashes /\ fails' = fails
    BY <1>2, CrashesKept
  <2>2. CASE crashes = 0 /\ fails = 0 /\ Inv /\ FileInv /\ MediaInv
    BY <1>2, <2>1, <2>2, NextInv, FileInvKept, NextMedia DEF WhileSound
  <2>. QED
    BY <2>1, <2>2 DEF WhileSound
<1>3. CASE PowerOff /\ fails = 0
  <2>1. crashes' = crashes + 1
    BY <1>3 DEF PowerOff
  <2>2. crashes \in Nat
    BY <1>3 DEF WhileSound
  <2>. QED
    BY <2>1, <2>2 DEF WhileSound
<1>4. CASE Fails
  <2>1. fails' = fails + 1 /\ crashes = 0
    BY <1>4 DEF Fails
  <2>2. fails \in Nat
    BY <2>1 DEF WhileSound
  <2>. QED
    BY <2>1, <2>2 DEF WhileSound
<1>5. CASE RecoverHot \/ CloseOwed
  <2>1. Owed /\ UNCHANGED <<crashes, fails>>
    BY <1>5 DEF RecoverHot, CloseOwed, ghosts
  <2>2. ~ Inv
    BY <2>1 DEF Owed, Inv, Phase, Settled, Undecided, UndecidedAt, Committing, CommittingAt,
       RollingBack, RolledBack
  <2>. QED
    BY <2>1, <2>2 DEF WhileSound
<1>6. CASE \/ \E p \in Page : RecordFails(p)
           \/ CommitFails \/ SpillFails \/ NextHeaderUnread \/ NewHeaderFails
           \/ ZeroHeaderFails \/ EndTransactionFails
           \/ PlaybackGivesUp \/ PlaybackFails \/ RecordUnread
  <2>1. Fails
    BY <1>6 DEF RecordFails, CommitFails, SpillFails, NextHeaderUnread, NewHeaderFails,
       ZeroHeaderFails, EndTransactionFails, PlaybackGivesUp, PlaybackFails, RecordUnread
  <2>. QED
    BY <1>4, <2>1
<1>. QED
  BY <1>1, <1>2, <1>3, <1>5, <1>6 DEF FaultNext

\* A rollback journal restores: at any moment of any transaction on a database
\* that has pages, and whatever part of the writes that are not synced survives,
\* a pager that is told of the journal comes back to the image before the
\* transaction or, once its journal is being finished, after it.
THEOREM JournalRestores == FaultSpec => [](fails = 0 /\ previous # << >> => Recoverable)
<1>1. FaultInit => WhileSound
  <2> SUFFICES ASSUME FaultInit PROVE WhileSound
    OBVIOUS
  <2>1. Init /\ fails = 0 /\ crashes = 0
    BY DEF FaultInit, Init
  <2>2. FileInv
    BY <2>1 DEF Init, FileInv, FileSynced, FileUntouched, ClosedPager
  <2>. QED
    BY <2>1, <2>2, InitTyped, InitInv, InitMedia DEF WhileSound, Inv, Phase
<1>2. WhileSound => (fails = 0 /\ previous # << >> => Recoverable)
  <2> SUFFICES ASSUME WhileSound, fails = 0, previous # << >>, AtMostOneFailure
               PROVE  \A j \in Survivors("journal"), d \in Survivors("db") :
                          SeenIn(Recovered(j, d)) \in {committed, previous}
    BY DEF Recoverable
  <2>1. Inv /\ FileInv /\ MediaInv
    BY DEF WhileSound, AtMostOneFailure
  <2>2. committed # << >>
    <3>1. CASE previous = committed
      BY <3>1
    <3>2. CASE pc.op = "commit" /\ pc.at = "syncZero"
      <4>1. TypeInv /\ Committing
        BY <2>1, <3>2 DEF Inv, Phase, Settled, Undecided, UndecidedAt, RollingBack, RolledBack, IsIdle,
           Idle
      <4>2. /\ Made(committed, disk["db"], cache, pager) /\ committed = View
            /\ pager.dirty = {} /\ pager.eState = "FINISHED"
        BY <3>2, <4>1 DEF Committing, CommittingAt, Syncing
      <4>. QED
        BY <4>1, <4>2, CommittedInFile
    <3>. QED
      BY <2>1, <3>1, <3>2 DEF MediaInv, PreviousIs
  <2>. QED
    BY <2>1, <2>2, InvRecovers
<1>. QED
  BY <1>1, <1>2, WhileSoundKept, PTL DEF FaultSpec
=============================================================================
