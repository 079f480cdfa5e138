---------------------------- MODULE Atomic_proof ----------------------------
(***************************************************************************)
(* A rollback keeps the invariant of Journal_proof, so that every step     *)
(* does; from it, that the page cache agrees with the file, that what was  *)
(* committed is durable, and that a program sees atomic transactions.      *)
(***************************************************************************)
EXTENDS Journal_proof

-----------------------------------------------------------------------------
(* Rolling back.  PlayedBy uses of the pager only these fields.            *)

LEMMA ReversibleFor ==
    ASSUME NEW com, NEW db, NEW j, NEW segs, NEW pg, Reversible(com, db, j, segs, pg),
           NEW pg2, pg2.journalHdr = pg.journalHdr, pg2.dbOrigSize = pg.dbOrigSize,
           pg2.eState = pg.eState
    PROVE  Reversible(com, db, j, segs, pg2)
BY DEF Reversible, HasRecords

LEMMA RollbackKeeps ==
    TypeInv /\ SeedsDrawn /\ Undecided /\ Rollback => SeedsDrawn' /\ RollingBack'
<1> SUFFICES ASSUME TypeInv, SeedsDrawn, Undecided, Rollback PROVE SeedsDrawn' /\ RollingBack'
  OBVIOUS
<1>1. /\ pager.eState \in {"CACHEMOD", "DBMOD"} /\ pc = Idle
      /\ pager' = [pager EXCEPT !.journalOff = 0]
      /\ pc' = Running("rollback", "hdr")
      /\ UNCHANGED <<disk, cache, prng, committed, tx>>
  BY DEF Rollback, ghosts, IsIdle
<1>2. /\ pc'.op = "rollback" /\ pc'.at = "hdr" /\ pc.at = "none"
      /\ pager'.journalOff = 0 /\ pager'.journalHdr = pager.journalHdr
      /\ pager'.dbOrigSize = pager.dbOrigSize /\ pager'.eState = pager.eState
  BY <1>1, InvTyped DEF Running, Idle, Pagers
<1>3. JournalContent' = JournalContent
  BY <1>1, SameDisk
<1> PICK segs : RecordedBy(segs)
  BY DEF Undecided
<1>4. /\ Reversible(committed, disk["db"], JournalContent, segs, pager)
      /\ Recorded(committed, disk["db"], cache, segs, pager, prng)
      /\ JournalContent[pager.journalHdr + 1] = ZeroCell
  BY <1>2 DEF RecordedBy, Counted
<1>5. Reversible(committed, disk["db"], JournalContent, segs, pager')
  BY <1>2, <1>4, ReversibleFor
<1>6. \A p \in OldPages(committed) :
          Restored(committed, disk["db"], cache, p) \/ Ahead(segs, p, 0)
  BY <1>4 DEF Recorded
<1>7. Played(committed, disk["db"], cache, JournalContent, segs, pager', pc')
  BY <1>2, <1>4, <1>6 DEF Played, ReadsAt
<1>8. PlayedBy(segs)'
  BY <1>1, <1>3, <1>5, <1>7 DEF PlayedBy
<1>. QED
  BY <1>1, <1>2, <1>3, <1>8 DEF RollingBack, SeedsDrawn

LEMMA MagicReads == \A n : IsMagic(Magic(n)) /\ Magic(n).magic = n
BY DEF IsMagic, Magic

\* The header of a segment can be read, and gives its seed and its records.
LEMMA SegmentReads ==
    ASSUME TypeInv, pc.op = "rollback", NEW segs,
           Reversible(committed, disk["db"], JournalContent, segs, pager),
           JournalContent[pager.journalHdr + 1] = ZeroCell,
           NEW h \in DOMAIN segs
    PROVE  /\ h \in Nat /\ HeaderReadable(h) /\ h + 2 <= Len(JournalContent)
           /\ Seed(JournalContent[h + 2]) = segs[h].seed
           /\ JournalContent[h + 2].origSize = pager.dbOrigSize
           /\ h # pager.journalHdr => RecordsAfter(h) = Len(segs[h].pages)
           /\ h = pager.journalHdr =>
                 RecordsAfter(h) = (Len(JournalContent) - (h + 2)) \div 3
<1> PICK j : j = JournalContent
  OBVIOUS
<1> PICK hdr \in Nat : hdr = pager.journalHdr
  BY InvTyped DEF Pagers
<1> PICK orig \in 0 .. NPages : orig = pager.dbOrigSize
  BY InvTyped DEF Pagers
<1>1. Chained(segs, hdr) /\ IsJournal(j, segs, hdr, orig, committed) /\ j[hdr + 1] = ZeroCell
  BY DEF Reversible, HasRecords
<1>2. /\ segs \in Segments /\ h \in Nat /\ segs[h].seed \in Nat
      /\ End(segs, h) = h + 2 + 3 * Len(segs[h].pages) /\ Len(segs[h].pages) \in Nat
      /\ End(segs, h) <= End(segs, hdr) /\ End(segs, h) \in Nat /\ End(segs, hdr) \in Nat
  BY <1>1, SegmentBeforeLast, SegmentIs
<1>3. End(segs, hdr) <= Len(j) /\ Len(j) \in Nat
  BY <1>1, InvTyped DEF IsJournal
<1>4. h + 2 <= Len(j)
  BY <1>2, <1>3
<1>5. j[h + 2] = Nonce(segs[h].seed, orig) /\ (h # hdr => j[h + 1] = Magic(Len(segs[h].pages)))
  BY <1>1 DEF IsJournal
<1>6. IsNonce(j[h + 2]) /\ Seed(j[h + 2]) = segs[h].seed /\ j[h + 2].origSize = orig
  BY <1>2, <1>5, NonceIs DEF Seed
<1>7. ~Hot
  BY DEF Hot
<1>8. HeaderReadable(h)
  BY <1>4, <1>5, <1>6, <1>7, MagicReads DEF HeaderReadable, HdrSize
<1>9. h # hdr => RecordsAfter(h) = Len(segs[h].pages)
  BY <1>5, MagicReads DEF RecordsAfter
<1>10. h = hdr => RecordsAfter(h) = (Len(j) - (h + 2)) \div 3
  BY <1>1, <1>7, ZeroIs DEF RecordsAfter, HdrSize, RecSize
<1>. QED
  BY <1>2, <1>4, <1>6, <1>8, <1>9, <1>10

\* After the last header no record is ahead.
LEMMA NothingAhead ==
    ASSUME NEW segs, NEW hdr, Chained(segs, hdr), NEW off \in Nat, End(segs, hdr) < off + 3,
           NEW p
    PROVE  ~Ahead(segs, p, off)
<1> SUFFICES ASSUME Ahead(segs, p, off) PROVE FALSE
  OBVIOUS
<1> PICK h \in DOMAIN segs : \E i \in 1 .. Len(segs[h].pages) : RecordAt(h, i) >= off
  BY DEF Ahead
<1> PICK i \in 1 .. Len(segs[h].pages) : RecordAt(h, i) >= off
  OBVIOUS
<1>1. segs \in Segments /\ hdr \in DOMAIN segs /\ End(segs, h) <= End(segs, hdr)
  BY SegmentBeforeLast
<1>2. RecordAt(h, i) + 3 <= End(segs, h) /\ RecordAt(h, i) \in Nat
      /\ End(segs, h) \in Nat /\ End(segs, hdr) \in Nat
  BY <1>1, RecordInSegment, SegmentIs
<1>. QED
  BY <1>1, <1>2

\* What follows a header has the records that were ahead of it.
LEMMA AheadOfHeader ==
    ASSUME NEW segs, NEW hdr, Chained(segs, hdr), NEW off \in Nat, NEW h \in DOMAIN segs,
           \/ off = 0 /\ h = 0
           \/ h = off + 2,
           NEW p, Ahead(segs, p, off)
    PROVE  Ahead(segs, p, h + 2)
<1> PICK g \in DOMAIN segs :
        \E i \in 1 .. Len(segs[g].pages) : RecordAt(g, i) >= off /\ segs[g].pages[i] = p
  BY DEF Ahead
<1> PICK i \in 1 .. Len(segs[g].pages) : RecordAt(g, i) >= off /\ segs[g].pages[i] = p
  OBVIOUS
<1>1. segs \in Segments /\ h \in Nat /\ g \in Nat
  BY SegmentIs DEF Chained
<1>2. RecordAt(g, i) + 3 <= End(segs, g) /\ RecordAt(g, i) \in Nat /\ RecordAt(g, i) >= g + 2
      /\ End(segs, g) \in Nat
  BY <1>1, RecordInSegment, SegmentIs
<1>3. h <= g
  <2> SUFFICES ASSUME g < h PROVE FALSE
    BY <1>1
  <2>1. End(segs, g) + 2 <= h
    BY DEF Chained
  <2>. QED
    BY <1>1, <1>2, <2>1
<1>4. RecordAt(g, i) >= h + 2
  BY <1>1, <1>2, <1>3
<1>. QED
  BY <1>4 DEF Ahead

\* A playback ends when every page is restored.
LEMMA PlaybackEndsKeeps ==
    ASSUME TypeInv, SeedsDrawn, RollingBack, PlaybackEnds,
           UNCHANGED <<disk, cache, prng, committed>>,
           NEW segs, PlayedBy(segs), pager.journalOff # 0,
           \A p : ~Ahead(segs, p, pager.journalOff)
    PROVE  SeedsDrawn' /\ RolledBack'
<1>1. /\ pc'.op = "rollback" /\ pc'.at \in {"syncDb", "zero"}
      /\ pager'.eState = pager.eState /\ pager'.journalOff = pager.journalOff
      /\ pager'.dbSize = pager.dbSize
  BY InvTyped DEF RollingBack, PlaybackEnds, Places, Pagers
<1>2. /\ AllRestored(committed, disk["db"], cache)
      /\ pager.dbSize = pager.dbOrigSize
  BY DEF PlayedBy, Played, AllRestored
<1>3. /\ NewFileIsBlank(committed, disk["db"]) /\ Len(committed) <= pager.dbSize
      /\ committed = << >> => pager.dbSize = 0
  BY <1>2 DEF PlayedBy, Reversible, HasRecords
<1>4. SeedsDrawn'
  BY SameDisk DEF SeedsDrawn
<1>. QED
  BY <1>1, <1>2, <1>3, <1>4 DEF RolledBack, RollingBack

LEMMA PlayHeaderKeeps ==
    TypeInv /\ SeedsDrawn /\ RollingBack /\ PlayHeader => SeedsDrawn' /\ (RollingBack' \/ RolledBack')
<1> SUFFICES ASSUME TypeInv, SeedsDrawn, RollingBack, PlayHeader
             PROVE  SeedsDrawn' /\ (RollingBack' \/ RolledBack')
  OBVIOUS
<1> PICK segs : PlayedBy(segs)
  BY DEF RollingBack
<1> PICK hdr \in Nat : hdr = pager.journalHdr
  BY InvTyped DEF Pagers
<1> PICK at \in Nat : at = pager.journalOff
  BY InvTyped DEF Pagers
<1> PICK j : j = JournalContent
  OBVIOUS
<1> PICK off : off = JournalHdrOffset(pager.journalOff)
  OBVIOUS
<1>1. /\ pc.at = "hdr" /\ pc.op = "rollback" /\ UNCHANGED <<disk, cache, prng, committed, tx>>
      /\ HeaderReadable(off) =>
            /\ pager' = [pager EXCEPT
                    !.journalOff = off + 2,
                    !.cksumInit = Seed(j[off + 2]),
                    !.dbSize = IF off = 0 THEN j[off + 2].origSize ELSE pager.dbSize]
            /\ pc' = [pc EXCEPT !.at = "rec", !.left = RecordsAfter(off)]
      /\ ~HeaderReadable(off) => PlaybackEnds
  BY DEF PlayHeader, ghosts, RollingBack, HdrSize
<1>2. /\ Reversible(committed, disk["db"], j, segs, pager)
      /\ Played(committed, disk["db"], cache, j, segs, pager, pc)
      /\ Chained(segs, hdr) /\ j[hdr + 1] = ZeroCell
      /\ ReadsAt(j, segs, pager)
  BY <1>1 DEF PlayedBy, Reversible, HasRecords, Played
<1>3. Len(j) \in Nat /\ End(segs, hdr) <= Len(j) /\ End(segs, hdr) \in Nat
  <2>1. HasRecords(committed, disk["db"], j, segs, pager)
    BY <1>2 DEF Reversible
  <2>. QED
    BY <2>1, EndIs, InvTyped
<1>4. CASE off \in DOMAIN segs /\ (at = 0 => off = 0) /\ (at # 0 => off = at + 2)
  <2>1. /\ off \in Nat /\ HeaderReadable(off) /\ off + 2 <= Len(j)
        /\ Seed(j[off + 2]) = segs[off].seed
        /\ j[off + 2].origSize = pager.dbOrigSize
        /\ off # hdr => RecordsAfter(off) = Len(segs[off].pages)
        /\ off = hdr => RecordsAfter(off) = (Len(j) - (off + 2)) \div 3
    BY <1>1, <1>2, <1>4, SegmentReads
  <2>2. /\ pc'.op = "rollback" /\ pc'.at = "rec" /\ pc'.left = RecordsAfter(off)
        /\ pager'.journalOff = off + 2 /\ pager'.cksumInit = segs[off].seed
        /\ pager'.eState = pager.eState /\ pager'.journalHdr = hdr
        /\ pager'.dbOrigSize = pager.dbOrigSize
    BY <1>1, <2>1, InvTyped DEF Places, Pagers
  <2>3. pager'.dbSize = pager.dbOrigSize
    <3>1. pager'.dbSize = IF off = 0 THEN pager.dbOrigSize ELSE pager.dbSize
      BY <1>1, <2>1, InvTyped DEF Pagers
    <3>2. off # 0 => pager.dbSize = pager.dbOrigSize
      BY <1>2, <1>4 DEF Played
    <3>. QED
      BY <3>1, <3>2
  <2>4. ASSUME NEW p \in OldPages(committed)
        PROVE  Restored(committed, disk["db"], cache, p) \/ Ahead(segs, p, off + 2)
    <3>1. Restored(committed, disk["db"], cache, p) \/ Ahead(segs, p, at)
      BY <1>2 DEF Played
    <3>. QED
      BY <1>2, <1>4, <3>1, AheadOfHeader
  <2>5. PlaysAt(j, segs, pager', pc'.left)
    <3>1. pager'.journalOff = RecordAt(off, 1)
      BY <2>1, <2>2 DEF RecordAt, HdrSize, RecSize
    <3>2. off # hdr => 1 - 1 + pc'.left = Len(segs[off].pages)
      <4>1. segs \in Segments
        BY <1>2 DEF Chained
      <4>2. Len(segs[off].pages) \in Nat
        BY <1>4, <4>1, SegmentIs
      <4>. QED
        BY <2>1, <2>2, <4>2
    <3>3. off = hdr => RecordAt(off, 1 + pc'.left) + 3 > Len(j)
      <4> SUFFICES ASSUME off = hdr PROVE RecordAt(off, 1 + pc'.left) + 3 > Len(j)
        OBVIOUS
      <4> PICK rest \in Nat : rest = Len(j) - (off + 2)
        BY <1>3, <2>1
      <4>1. pc'.left = rest \div 3
        BY <2>1, <2>2
      <4> PICK left \in Nat : left = rest \div 3 /\ rest < 3 * left + 3
        BY Thirds
      <4>2. RecordAt(off, 1 + left) = off + 2 + 3 * left
        BY <2>1 DEF RecordAt, HdrSize, RecSize
      <4> PICK m \in Nat : m = Len(j)
        BY <1>3
      <4> PICK h \in Nat : h = off
        BY <2>1
      <4>3. m = rest + (h + 2)
        <5>1. rest = m - (h + 2)
          OBVIOUS
        <5>. QED
          BY ONLY <5>1, m \in Nat, h \in Nat, rest \in Nat
      <4>4. h + 2 + 3 * left + 3 > m
        BY ONLY <4>3, h \in Nat, rest \in Nat, left \in Nat, rest < 3 * left + 3
      <4>. QED
        BY <4>1, <4>2, <4>4
    <3>. QED
      BY <1>4, <2>2, <3>1, <3>2, <3>3 DEF PlaysAt
  <2>6. Played(committed, disk["db"], cache, j, segs, pager', pc')
    BY <1>2, <2>2, <2>3, <2>4, <2>5 DEF Played
  <2>7. Reversible(committed, disk["db"], j, segs, pager')
    BY <1>2, <2>2, ReversibleFor
  <2>8. JournalContent' = j
    BY <1>1, SameDisk
  <2>9. PlayedBy(segs)'
    BY <1>1, <2>6, <2>7, <2>8 DEF PlayedBy
  <2>. QED
    BY <1>1, <2>2, <2>8, <2>9 DEF RollingBack, SeedsDrawn
<1>5. CASE at # 0 /\ at + 3 > Len(j)
  <2>1. off = at + 2
    BY <1>5 DEF JournalHdrOffset
  <2>2. ~HeaderReadable(off)
    BY <1>3, <1>5, <2>1 DEF HeaderReadable, HdrSize
  <2>3. \A p : ~Ahead(segs, p, at)
    <3>1. End(segs, hdr) < at + 3
      BY <1>3, <1>5
    <3>. QED
      BY <1>2, <3>1, NothingAhead
  <2>. QED
    BY <1>1, <1>5, <2>2, <2>3, PlaybackEndsKeeps
<1>6. (at = 0 => off = 0) /\ (at # 0 => off = at + 2)
  BY DEF JournalHdrOffset
<1>7. 0 \in DOMAIN segs
  BY <1>2 DEF Chained
<1>. QED
  BY <1>2, <1>4, <1>5, <1>6, <1>7 DEF ReadsAt

-----------------------------------------------------------------------------
(* The records of a rollback                                               *)

\* A record of this transaction is played, with the page it is of.
LEMMA RecordReads ==
    ASSUME TypeInv, NEW segs, PlayedBy(segs),
           NEW h \in DOMAIN segs, NEW i \in 1 .. Len(segs[h].pages),
           pager.journalOff = RecordAt(h, i), pager.cksumInit = segs[h].seed
    PROVE  /\ VerdictNow = "play"
           /\ segs[h].pages[i] \in Page /\ segs[h].pages[i] <= pager.dbOrigSize
           /\ JournalContent[pager.journalOff + 1].pgno = segs[h].pages[i]
           /\ \E c \in Content :
                 /\ JournalContent[pager.journalOff + 2] = PageCell(c)
                 /\ JournalContent[pager.journalOff + 2].page = c
                 /\ segs[h].pages[i] \in OldPages(committed) => c = Old(committed, segs[h].pages[i])
<1> PICK j : j = JournalContent
  OBVIOUS
<1> PICK hdr \in Nat : hdr = pager.journalHdr
  BY InvTyped DEF Pagers
<1> PICK orig \in 0 .. NPages : orig = pager.dbOrigSize
  BY InvTyped DEF Pagers
<1>1. HasRecords(committed, disk["db"], j, segs, pager)
  BY DEF PlayedBy, Reversible
<1>2. Chained(segs, hdr) /\ IsJournal(j, segs, hdr, orig, committed)
  BY <1>1 DEF HasRecords
<1>3. /\ segs \in Segments /\ h \in Nat /\ segs[h].seed \in Nat /\ segs[h].pages[i] \in Page
      /\ End(segs, h) <= End(segs, hdr) /\ End(segs, h) \in Nat /\ End(segs, hdr) \in Nat
      /\ RecordAt(h, i) \in Nat /\ RecordAt(h, i) >= h + 2 /\ RecordAt(h, i) + 3 <= End(segs, h)
  BY <1>2, SegmentBeforeLast, SegmentIs, RecordInSegment
<1> PICK p \in Page : p = segs[h].pages[i]
  BY <1>3
<1> PICK off \in Nat : off = RecordAt(h, i)
  BY <1>3
<1>4. Len(j) \in Nat /\ End(segs, hdr) <= Len(j)
  BY <1>2, InvTyped DEF IsJournal
<1>5. off + 3 <= Len(j) /\ off # 0
  BY SMTT(30), <1>3, <1>4
<1>6. p <= orig /\ IsRecord(j, off, segs[h].seed, p, committed)
  BY <1>2 DEF IsJournal
<1> PICK c \in Content : /\ j[off + 2] = PageCell(c) /\ j[off + 3] = Cksum(segs[h].seed, c)
                         /\ p \in OldPages(committed) => c = Old(committed, p)
  BY <1>6 DEF IsRecord
<1>7. j[off + 1] = Pgno(p)
  BY <1>6 DEF IsRecord
<1>8. /\ IsPgno(j[off + 1]) /\ j[off + 1].pgno = p /\ j[off + 1] # ZeroCell
      /\ IsPage(j[off + 2]) /\ j[off + 2].page = c
  BY <1>7, PgnoIs, PageCellIs
<1>9. pager.dbSize = orig
  BY <1>5 DEF PlayedBy, Played
<1>10. VerdictNow = "play"
  <2>1. ~(off + 3 > Len(j)) /\ ~(p > orig)
    <3>1. p \in Nat /\ orig \in Nat
      BY NPagesIsPositive DEF Page
    <3>. QED
      BY SMTT(30), <1>4, <1>5, <1>6, <3>1
  <2>2. j[off + 3] = Cksum(pager.cksumInit, j[off + 2].page)
    BY <1>8
  <2>. QED
    BY <1>8, <1>9, <2>1, <2>2 DEF VerdictNow, Verdict, RecSize
<1>. QED
  BY <1>6, <1>8, <1>10

\* What follows the records of this transaction is never played.
LEMMA NoRecordReads ==
    ASSUME TypeInv, NEW segs, PlayedBy(segs),
           End(segs, pager.journalHdr) <= pager.journalOff,
           pager.cksumInit = segs[pager.journalHdr].seed
    PROVE  VerdictNow # "play" /\ \A p : ~Ahead(segs, p, pager.journalOff)
<1> PICK j : j = JournalContent
  OBVIOUS
<1> PICK hdr \in Nat : hdr = pager.journalHdr
  BY InvTyped DEF Pagers
<1> PICK off \in Nat : off = pager.journalOff
  BY InvTyped DEF Pagers
<1>1. HasRecords(committed, disk["db"], j, segs, pager) /\ SeedsBefore(j, End(segs, hdr), segs[hdr].seed)
  BY DEF PlayedBy, Reversible
<1>2. Chained(segs, hdr) /\ segs \in Segments /\ hdr \in DOMAIN segs
  BY <1>1 DEF HasRecords, Chained
<1>3. End(segs, hdr) \in Nat /\ segs[hdr].seed \in Nat
  BY <1>2, SegmentIs
<1>4. \A p : ~Ahead(segs, p, off)
  <2>1. End(segs, hdr) < off + 3
    BY <1>3
  <2>. QED
    BY <1>2, <2>1, NothingAhead
<1>5. VerdictNow # "play"
  <2> SUFFICES ASSUME VerdictNow = "play" PROVE FALSE
    OBVIOUS
  <2>1. /\ ~(off + 3 > Len(j))
        /\ IsPage(j[off + 2]) /\ j[off + 3] = Cksum(segs[hdr].seed, j[off + 2].page)
    BY DEF VerdictNow, Verdict, RecSize
  <2>2. j \in Seq(JournalCell) /\ Len(j) \in Nat
    BY InvTyped
  <2>3. off + 3 \in 1 .. Len(j) /\ off + 2 \in 1 .. Len(j) /\ off + 3 > End(segs, hdr)
    BY SMTT(30), <1>3, <2>1, <2>2
  <2>4. j[off + 2] \in JournalCell /\ off + 3 \in DOMAIN j
    BY <2>2, <2>3
  <2>5. j[off + 2].page \in Content
    BY <2>1, <2>4, CellsHold
  <2>6. IsCksum(j[off + 3]) /\ j[off + 3].cksum[1] = segs[hdr].seed
    BY <1>3, <2>1, <2>5, CksumIs
  <2>7. j[off + 3].cksum[1] < segs[hdr].seed
    BY <1>1, <2>3, <2>4, <2>6 DEF SeedsBefore
  <2>. QED
    BY <1>3, <2>6, <2>7
<1>. QED
  BY <1>4, <1>5

\* Where a rollback reads: a record of this transaction or what follows them.
LEMMA ReadsWhere ==
    ASSUME TypeInv, NEW segs, PlayedBy(segs), pc.at = "rec", pc.left > 0
    PROVE  \/ \E h \in DOMAIN segs : \E i \in 1 .. Len(segs[h].pages) :
                  /\ pager.journalOff = RecordAt(h, i)
                  /\ pager.cksumInit = segs[h].seed
           \/ /\ End(segs, pager.journalHdr) <= pager.journalOff
              /\ pager.cksumInit = segs[pager.journalHdr].seed
<1> PICK j : j = JournalContent
  OBVIOUS
<1> PICK hdr \in Nat : hdr = pager.journalHdr
  BY InvTyped DEF Pagers
<1> PICK left \in Nat : left = pc.left
  BY InvTyped DEF Places
<1>1. PlaysAt(j, segs, pager, left)
  BY DEF PlayedBy, Played
<1>2. Chained(segs, hdr) /\ segs \in Segments /\ hdr \in DOMAIN segs
  BY DEF PlayedBy, Reversible, HasRecords, Chained
<1> PICK h \in DOMAIN segs : \E i \in Nat \ {0} :
        /\ pager.journalOff = RecordAt(h, i)
        /\ pager.cksumInit = segs[h].seed
        /\ h # hdr => i - 1 + left = Len(segs[h].pages)
  BY <1>1 DEF PlaysAt
<1> PICK i \in Nat \ {0} :
        /\ pager.journalOff = RecordAt(h, i)
        /\ pager.cksumInit = segs[h].seed
        /\ h # hdr => i - 1 + left = Len(segs[h].pages)
  OBVIOUS
<1>3. Len(segs[h].pages) \in Nat /\ h \in Nat /\ End(segs, h) = h + 2 + 3 * Len(segs[h].pages)
  BY <1>2, SegmentIs
<1> PICK n \in Nat : n = Len(segs[h].pages)
  BY <1>3
<1>4. CASE i <= n
  <2>1. i \in 1 .. Len(segs[h].pages)
    BY <1>4
  <2>. QED
    BY <2>1
<1>5. CASE ~(i <= n)
  <2>1. h = hdr
    <3> SUFFICES ASSUME h # hdr PROVE FALSE
      OBVIOUS
    <3>1. i - 1 + left = n /\ left > 0
      OBVIOUS
    <3>. QED
      BY ONLY <1>5, <3>1, i \in Nat \ {0}, n \in Nat, left \in Nat
  <2>2. RecordAt(h, i) = h + 3 * i - 1
    BY <1>3, RecordAtIs
  <2>3. End(segs, h) <= RecordAt(h, i)
    BY <1>3, <1>5, <2>2
  <2>. QED
    BY <2>1, <2>3
<1>. QED
  BY <1>4, <1>5

LEMMA PlaysNext ==
    ASSUME NEW segs \in Segments, NEW j, NEW pg, NEW left \in Nat, left > 0,
           PlaysAt(j, segs, pg, left),
           NEW pg2, pg2.journalOff = pg.journalOff + 3, pg2.cksumInit = pg.cksumInit,
           pg2.journalHdr = pg.journalHdr
    PROVE  PlaysAt(j, segs, pg2, left - 1)
<1> PICK h \in DOMAIN segs : \E i \in Nat \ {0} :
        /\ pg.journalOff = RecordAt(h, i)
        /\ pg.cksumInit = segs[h].seed
        /\ h # pg.journalHdr => i - 1 + left = Len(segs[h].pages)
        /\ h = pg.journalHdr => RecordAt(h, i + left) + 3 > Len(j)
  BY DEF PlaysAt
<1> PICK i \in Nat \ {0} :
        /\ pg.journalOff = RecordAt(h, i)
        /\ pg.cksumInit = segs[h].seed
        /\ h # pg.journalHdr => i - 1 + left = Len(segs[h].pages)
        /\ h = pg.journalHdr => RecordAt(h, i + left) + 3 > Len(j)
  OBVIOUS
<1>1. h \in Nat
  BY SegmentIs
<1>2. RecordAt(h, i + 1) = RecordAt(h, i) + 3
  BY <1>1, RecordAtIs
<1>3. i + 1 \in Nat \ {0} /\ (i + 1) - 1 + (left - 1) = i - 1 + left
      /\ (i + 1) + (left - 1) = i + left
  BY ONLY i \in Nat \ {0}, left \in Nat
<1>4. /\ pg2.journalOff = RecordAt(h, i + 1) /\ pg2.cksumInit = segs[h].seed
      /\ h # pg2.journalHdr => (i + 1) - 1 + (left - 1) = Len(segs[h].pages)
      /\ h = pg2.journalHdr => RecordAt(h, (i + 1) + (left - 1)) + 3 > Len(j)
  BY <1>2, <1>3
<1>. QED
  BY <1>3, <1>4 DEF PlaysAt

LEMMA AheadOfRecord ==
    ASSUME NEW segs, NEW hdr, Chained(segs, hdr),
           NEW h \in DOMAIN segs, NEW i \in 1 .. Len(segs[h].pages),
           NEW q, q # segs[h].pages[i], Ahead(segs, q, RecordAt(h, i))
    PROVE  Ahead(segs, q, RecordAt(h, i) + 3)
<1> PICK g \in DOMAIN segs :
        \E k \in 1 .. Len(segs[g].pages) :
            RecordAt(g, k) >= RecordAt(h, i) /\ segs[g].pages[k] = q
  BY DEF Ahead
<1> PICK k \in 1 .. Len(segs[g].pages) :
        RecordAt(g, k) >= RecordAt(h, i) /\ segs[g].pages[k] = q
  OBVIOUS
<1>1. segs \in Segments
  BY DEF Chained
<1>2. RecordAt(g, k) \in Nat /\ RecordAt(h, i) \in Nat
  BY <1>1, RecordInSegment
<1>3. RecordAt(h, i) <= RecordAt(g, k)
  BY <1>2
<1>4. RecordAt(h, i) + 3 <= RecordAt(g, k)
  BY <1>3, RecordsApart
<1>5. RecordAt(g, k) >= RecordAt(h, i) + 3
  BY <1>2, <1>4
<1>. QED
  BY <1>5 DEF Ahead

LEMMA SegmentPlayedKeeps ==
    TypeInv /\ SeedsDrawn /\ RollingBack /\ SegmentPlayed => SeedsDrawn' /\ RollingBack'
<1> SUFFICES ASSUME TypeInv, SeedsDrawn, RollingBack, SegmentPlayed
             PROVE  SeedsDrawn' /\ RollingBack'
  OBVIOUS
<1>1. /\ pc.at = "rec" /\ pc.left = 0 /\ pc' = [pc EXCEPT !.at = "hdr"]
      /\ UNCHANGED <<disk, pager, cache, prng, committed, tx>>
  BY DEF SegmentPlayed, Goes, ghosts
<1>2. pc'.at = "hdr" /\ pc'.op = pc.op
  BY <1>1, InvTyped DEF Places
<1>3. JournalContent' = JournalContent
  BY <1>1, SameDisk
<1> PICK segs : PlayedBy(segs)
  BY DEF RollingBack
<1> PICK j : j = JournalContent
  OBVIOUS
<1> PICK hdr \in Nat : hdr = pager.journalHdr
  BY InvTyped DEF Pagers
<1>4. /\ Played(committed, disk["db"], cache, j, segs, pager, pc)
      /\ PlaysAt(j, segs, pager, 0)
  BY <1>1 DEF PlayedBy, Played
<1>5. Chained(segs, hdr) /\ segs \in Segments
  BY DEF PlayedBy, Reversible, HasRecords, Chained
<1> PICK h \in DOMAIN segs : \E i \in Nat \ {0} :
        /\ pager.journalOff = RecordAt(h, i)
        /\ h # hdr => i - 1 + 0 = Len(segs[h].pages)
        /\ h = hdr => RecordAt(h, i + 0) + 3 > Len(j)
  BY <1>4 DEF PlaysAt
<1> PICK i \in Nat \ {0} :
        /\ pager.journalOff = RecordAt(h, i)
        /\ h # hdr => i - 1 + 0 = Len(segs[h].pages)
        /\ h = hdr => RecordAt(h, i + 0) + 3 > Len(j)
  OBVIOUS
<1>6. h \in Nat /\ Len(segs[h].pages) \in Nat
  BY <1>5, SegmentIs
<1>7. pager.journalOff >= 2
  <2>1. RecordAt(h, i) >= h + 2 /\ RecordAt(h, i) \in Nat
    BY <1>6, RecordAtIs
  <2>. QED
    BY <1>6, <2>1
<1>8. ReadsAt(j, segs, pager)
  <2>1. CASE h = hdr
    BY <1>7, <2>1 DEF ReadsAt
  <2>2. CASE h # hdr
    <3>1. i = Len(segs[h].pages) + 1
      BY <1>6, <2>2
    <3>2. pager.journalOff = End(segs, h)
      BY <3>1 DEF End
    <3>3. End(segs, h) + 2 \in DOMAIN segs
      BY <1>5, <2>2 DEF Chained
    <3>. QED
      BY <1>7, <3>2, <3>3 DEF ReadsAt
  <2>. QED
    BY <2>1, <2>2
<1>9. Played(committed, disk["db"], cache, j, segs, pager, pc')
  BY <1>2, <1>4, <1>8 DEF Played
<1>10. PlayedBy(segs)'
  BY <1>1, <1>3, <1>9 DEF PlayedBy
<1>. QED
  BY <1>1, <1>2, <1>3, <1>10 DEF RollingBack, SeedsDrawn

LEMMA RefuseRecordKeeps ==
    TypeInv /\ SeedsDrawn /\ RollingBack /\ RefuseRecord => SeedsDrawn' /\ RolledBack'
<1> SUFFICES ASSUME TypeInv, SeedsDrawn, RollingBack, RefuseRecord
             PROVE  SeedsDrawn' /\ RolledBack'
  OBVIOUS
<1> PICK segs : PlayedBy(segs)
  BY DEF RollingBack
<1>1. /\ pc.at = "rec" /\ pc.left > 0 /\ VerdictNow = "done" /\ PlaybackEnds
      /\ UNCHANGED <<disk, cache, prng, committed>>
  BY DEF RefuseRecord, ghosts
<1>2. VerdictNow # "play"
  BY <1>1
<1>3. /\ End(segs, pager.journalHdr) <= pager.journalOff
      /\ pager.cksumInit = segs[pager.journalHdr].seed
  BY <1>1, <1>2, ReadsWhere, RecordReads
<1>4. \A p : ~Ahead(segs, p, pager.journalOff)
  BY <1>3, NoRecordReads
<1>5. pager.journalOff # 0
  <2> PICK hdr \in Nat : hdr = pager.journalHdr
    BY InvTyped DEF Pagers
  <2>1. HasRecords(committed, disk["db"], JournalContent, segs, pager)
    BY DEF PlayedBy, Reversible
  <2> PICK end \in Nat : end = End(segs, hdr)
    BY <2>1, EndIs
  <2>2. hdr + 2 <= end
    BY <2>1, EndIs
  <2>. QED
    BY <1>3, <2>2
<1>. QED
  BY <1>1, <1>4, <1>5, PlaybackEndsKeeps

LEMMA SkipRecordKeeps ==
    TypeInv /\ SeedsDrawn /\ RollingBack /\ SkipRecord => SeedsDrawn' /\ RollingBack'
<1> SUFFICES ASSUME TypeInv, SeedsDrawn, RollingBack, SkipRecord
             PROVE  SeedsDrawn' /\ RollingBack'
  OBVIOUS
<1> PICK segs : PlayedBy(segs)
  BY DEF RollingBack
<1> PICK j : j = JournalContent
  OBVIOUS
<1> PICK left \in Nat : left = pc.left
  BY InvTyped DEF Places
<1>1. /\ pc.at = "rec" /\ pc.left > 0 /\ VerdictNow = "skip"
      /\ pager' = [pager EXCEPT !.journalOff = pager.journalOff + 3]
      /\ pc' = [pc EXCEPT !.left = pc.left - 1]
      /\ UNCHANGED <<disk, cache, prng, committed>>
  BY DEF SkipRecord, ghosts, RecSize
<1>2. /\ pc'.at = "rec" /\ pc'.op = pc.op /\ pc'.left = left - 1
      /\ pager'.journalOff = pager.journalOff + 3 /\ pager'.journalHdr = pager.journalHdr
      /\ pager'.cksumInit = pager.cksumInit /\ pager'.dbSize = pager.dbSize
      /\ pager'.dbOrigSize = pager.dbOrigSize /\ pager'.eState = pager.eState
  BY <1>1, InvTyped DEF Places, Pagers
<1>3. JournalContent' = j
  BY <1>1, SameDisk
<1>4. VerdictNow # "play"
  BY <1>1
<1>5. /\ End(segs, pager.journalHdr) <= pager.journalOff
      /\ pager.cksumInit = segs[pager.journalHdr].seed
  BY <1>1, <1>4, ReadsWhere, RecordReads
<1>6. \A p : ~Ahead(segs, p, pager.journalOff)
  BY <1>5, NoRecordReads
<1>7. /\ Reversible(committed, disk["db"], j, segs, pager)
      /\ Played(committed, disk["db"], cache, j, segs, pager, pc)
      /\ segs \in Segments /\ PlaysAt(j, segs, pager, left)
  BY <1>1 DEF PlayedBy, Reversible, HasRecords, Chained, Played
<1>8. PlaysAt(j, segs, pager', left - 1)
  BY <1>1, <1>2, <1>7, PlaysNext
<1>9. pager.journalOff # 0
  <2> PICK hdr \in Nat : hdr = pager.journalHdr
    BY InvTyped DEF Pagers
  <2>1. HasRecords(committed, disk["db"], JournalContent, segs, pager)
    BY <1>7 DEF Reversible
  <2> PICK end \in Nat : end = End(segs, hdr)
    BY <2>1, EndIs
  <2>2. hdr + 2 <= end
    BY <2>1, EndIs
  <2>. QED
    BY <1>5, <2>2
<1>10. Played(committed, disk["db"], cache, j, segs, pager', pc')
  <2>1. /\ j[pager.journalHdr + 1] = ZeroCell /\ pager.dbSize = pager.dbOrigSize
        /\ \A p \in OldPages(committed) : Restored(committed, disk["db"], cache, p)
    BY <1>6, <1>7, <1>9 DEF Played
  <2>. QED
    BY <1>2, <1>8, <2>1 DEF Played
<1>11. Reversible(committed, disk["db"], j, segs, pager')
  BY <1>2, <1>7, ReversibleFor
<1>12. PlayedBy(segs)'
  BY <1>1, <1>3, <1>10, <1>11 DEF PlayedBy
<1>. QED
  BY <1>1, <1>2, <1>3, <1>12 DEF RollingBack, SeedsDrawn

\* What playing record i of the segment at h does: page p gets the content c.
LEMMA PlayRecordDoes ==
    ASSUME TypeInv, PlayRecord, NEW segs, PlayedBy(segs),
           NEW h \in DOMAIN segs, NEW i \in 1 .. Len(segs[h].pages),
           pager.journalOff = RecordAt(h, i), pager.cksumInit = segs[h].seed
    PROVE  \E p \in Page : \E c \in Content :
              /\ p = segs[h].pages[i] /\ p <= pager.dbOrigSize
              /\ p \in OldPages(committed) => c = Old(committed, p)
              /\ IF GoesToFile THEN PageWritten(disk["db"], disk'["db"], p, c)
                 ELSE disk'["db"] = disk["db"]
              /\ JournalContent' = JournalContent
              /\ DOMAIN cache' = DOMAIN cache
              /\ \A q \in DOMAIN cache : cache'[q] = IF q = p THEN c ELSE cache[q]
<1> PICK j : j = JournalContent
  OBVIOUS
<1> PICK off \in Nat : off = pager.journalOff
  BY InvTyped DEF Pagers
<1> PICK p \in Page : p = segs[h].pages[i] /\ p <= pager.dbOrigSize /\ j[off + 1].pgno = p
  BY RecordReads
<1> PICK c \in Content :
        /\ j[off + 2] = PageCell(c) /\ j[off + 2].page = c
        /\ p \in OldPages(committed) => c = Old(committed, p)
  BY RecordReads
<1>1. /\ IF GoesToFile THEN WriteDb(p, PageCell(c)) ELSE UNCHANGED disk
      /\ cache' = IF p \in DOMAIN cache THEN [cache EXCEPT ![p] = c] ELSE cache
      /\ media' = media
  BY DEF PlayRecord
<1>2. /\ IF GoesToFile THEN PageWritten(disk["db"], disk'["db"], p, c)
         ELSE disk'["db"] = disk["db"]
      /\ JournalContent' = JournalContent
  <2>1. CASE GoesToFile
    BY <1>1, <2>1, DbWriteDoes
  <2>2. CASE ~GoesToFile
    BY <1>1, <2>2, SameDisk
  <2>. QED
    BY <2>1, <2>2
<1>3. DOMAIN cache' = DOMAIN cache
      /\ \A q \in DOMAIN cache : cache'[q] = IF q = p THEN c ELSE cache[q]
  BY <1>1 DEF TypeInv, CacheOK
<1>. QED
  BY <1>2, <1>3

LEMMA PlayRecordKeeps ==
    TypeInv /\ SeedsDrawn /\ RollingBack /\ PlayRecord => SeedsDrawn' /\ RollingBack'
<1> SUFFICES ASSUME TypeInv, SeedsDrawn, RollingBack, PlayRecord
             PROVE  SeedsDrawn' /\ RollingBack'
  OBVIOUS
<1> PICK segs : PlayedBy(segs)
  BY DEF RollingBack
<1> PICK j : j = JournalContent
  OBVIOUS
<1> PICK left \in Nat : left = pc.left
  BY InvTyped DEF Places
<1> PICK hdr \in Nat : hdr = pager.journalHdr
  BY InvTyped DEF Pagers
<1> PICK off \in Nat : off = pager.journalOff
  BY InvTyped DEF Pagers
<1> PICK com \in Seq(Versions) : com = committed
  BY InvTyped
<1> PICK db \in Databases : db = disk["db"]
  BY InvTyped
<1> PICK db2 : db2 = disk'["db"]
  OBVIOUS
<1>1. /\ pc.at = "rec" /\ pc.left > 0 /\ VerdictNow = "play"
      /\ pager' = [pager EXCEPT !.journalOff = off + 3]
      /\ pc' = [pc EXCEPT !.left = pc.left - 1]
      /\ UNCHANGED <<prng, committed>>
  BY DEF PlayRecord, ghosts, RecSize
<1>2. /\ pc'.at = "rec" /\ pc'.op = pc.op /\ pc'.left = left - 1
      /\ pager'.journalOff = off + 3 /\ pager'.journalHdr = hdr
      /\ pager'.cksumInit = pager.cksumInit /\ pager'.dbSize = pager.dbSize
      /\ pager'.dbOrigSize = pager.dbOrigSize /\ pager'.eState = pager.eState
  BY <1>1, InvTyped DEF Places, Pagers
<1>3. ~(/\ End(segs, pager.journalHdr) <= pager.journalOff
        /\ pager.cksumInit = segs[pager.journalHdr].seed)
  BY <1>1, NoRecordReads
<1> PICK h \in DOMAIN segs : \E i \in 1 .. Len(segs[h].pages) :
        pager.journalOff = RecordAt(h, i) /\ pager.cksumInit = segs[h].seed
  BY <1>1, <1>3, ReadsWhere
<1> PICK i \in 1 .. Len(segs[h].pages) :
        pager.journalOff = RecordAt(h, i) /\ pager.cksumInit = segs[h].seed
  OBVIOUS
<1> PICK p \in Page : \E c \in Content :
        /\ p = segs[h].pages[i] /\ p <= pager.dbOrigSize
        /\ p \in OldPages(com) => c = Old(com, p)
        /\ IF GoesToFile THEN PageWritten(db, db2, p, c) ELSE db2 = db
        /\ JournalContent' = JournalContent
        /\ DOMAIN cache' = DOMAIN cache
        /\ \A q \in DOMAIN cache : cache'[q] = IF q = p THEN c ELSE cache[q]
  BY PlayRecordDoes
<1> PICK c \in Content :
        /\ p = segs[h].pages[i] /\ p <= pager.dbOrigSize
        /\ p \in OldPages(com) => c = Old(com, p)
        /\ IF GoesToFile THEN PageWritten(db, db2, p, c) ELSE db2 = db
        /\ JournalContent' = JournalContent
        /\ DOMAIN cache' = DOMAIN cache
        /\ \A q \in DOMAIN cache : cache'[q] = IF q = p THEN c ELSE cache[q]
  OBVIOUS
<1>4. /\ HasRecords(com, db, j, segs, pager)
      /\ SeedsBefore(j, End(segs, hdr), segs[hdr].seed)
      /\ Played(com, db, cache, j, segs, pager, pc)
      /\ PlaysAt(j, segs, pager, left)
  BY <1>1 DEF PlayedBy, Reversible, Played
<1>5. /\ Chained(segs, hdr) /\ segs \in Segments /\ IsJournal(j, segs, hdr, pager.dbOrigSize, com)
      /\ Len(com) <= pager.dbOrigSize /\ (com = << >> => pager.dbOrigSize = 0)
      /\ NewFileIsBlank(com, db)
      /\ pager.eState = "CACHEMOD" => \A q \in OldPages(com) : Untouched(com, db, q)
      /\ \A q \in OldPages(com) : InSegment(segs, hdr, q) => Untouched(com, db, q)
  BY <1>4 DEF HasRecords, Chained
<1>6. com # << >>
  BY <1>5, NPagesIsPositive DEF Page
<1>7. OldPages(com) \subseteq Nat \ {0}
  BY DEF OldPages
\* The other pages of the file stay, and this one is what it was.
<1>8. \A q \in OldPages(com) : q # p /\ Untouched(com, db, q) => Untouched(com, db2, q)
  <2>1. CASE GoesToFile
    <3>1. PageWritten(db, db2, p, c)
      BY <2>1
    <3>2. \A q \in Nat \ {0} : q # p /\ Untouched(com, db, q) => Untouched(com, db2, q)
      BY ONLY <3>1, db \in Databases, p \in Page, OthersKept
    <3>. QED
      BY <1>7, <3>2
  <2>2. CASE ~GoesToFile
    BY <2>2
  <2>. QED
    BY <2>1, <2>2
<1>9. p \in OldPages(com) => Untouched(com, db2, p)
  <2> SUFFICES ASSUME p \in OldPages(com) PROVE Untouched(com, db2, p)
    OBVIOUS
  <2>1. CASE GoesToFile
    <3>1. PageWritten(db, db2, p, c) /\ c = Old(com, p)
      BY <2>1
    <3>. QED
      BY ONLY <3>1, db \in Databases, p \in Page, p \in OldPages(com), OthersKept
  <2>2. CASE ~GoesToFile
    <3>1. pager.eState = "CACHEMOD" \/ off + 3 > hdr
      BY <2>2 DEF GoesToFile, FileMayDiffer, RecSize, RollingBack
    <3>2. CASE pager.eState = "CACHEMOD"
      BY <1>5, <2>2, <3>2
    <3>3. CASE off + 3 > hdr
      <4>1. h = hdr
        <5> SUFFICES ASSUME h # hdr PROVE FALSE
          OBVIOUS
        <5>1. End(segs, h) + 2 <= hdr
          BY <1>5, SegmentBeforeLast
        <5>2. RecordAt(h, i) + 3 <= End(segs, h) /\ End(segs, h) \in Nat
          BY <1>5, RecordInSegment, SegmentIs
        <5>. QED
          BY <3>3, <5>1, <5>2
      <4>2. InSegment(segs, hdr, p)
        BY <4>1 DEF InSegment
      <4>. QED
        BY <1>5, <2>2, <4>2
    <3>. QED
      BY <3>1, <3>2, <3>3
  <2>. QED
    BY <2>1, <2>2
<1>10. HasRecords(com, db2, j, segs, pager')
  <2>1. NewFileIsBlank(com, db2)
    BY <1>6 DEF NewFileIsBlank
  <2>2. pager.eState = "CACHEMOD" => \A q \in OldPages(com) : Untouched(com, db2, q)
    BY <1>5, <1>8, <1>9
  <2>3. \A q \in OldPages(com) : InSegment(segs, hdr, q) => Untouched(com, db2, q)
    BY <1>5, <1>8, <1>9
  <2>. QED
    BY <1>2, <1>5, <2>1, <2>2, <2>3 DEF HasRecords
<1>11. ASSUME NEW q \in OldPages(com)
       PROVE  Restored(com, db2, cache', q) \/ Ahead(segs, q, off + 3)
  <2>1. CASE q = p
    BY <1>9, <2>1 DEF Restored
  <2>2. CASE q # p /\ Restored(com, db, cache, q)
    BY <1>8, <2>2 DEF Restored
  <2>3. CASE q # p /\ Ahead(segs, q, off)
    BY <1>5, <2>3, AheadOfRecord
  <2>. QED
    BY <1>4, <2>1, <2>2, <2>3 DEF Played
<1>12. PlaysAt(j, segs, pager', left - 1)
  <2>1. left > 0 /\ segs \in Segments /\ PlaysAt(j, segs, pager, left)
    BY <1>1, <1>4, <1>5
  <2>2. pager'.journalOff = pager.journalOff + 3 /\ pager'.cksumInit = pager.cksumInit
        /\ pager'.journalHdr = pager.journalHdr
    BY <1>2
  <2>. QED
    BY ONLY <2>1, <2>2, left \in Nat, PlaysNext
<1>13. off # 0
  <2>1. RecordAt(h, i) >= h + 2 /\ h \in Nat
    BY <1>5, RecordInSegment, SegmentIs
  <2>. QED
    BY <2>1
<1>14. Played(com, db2, cache', j, segs, pager', pc')
  <2>1. j[hdr + 1] = ZeroCell /\ pager.dbSize = pager.dbOrigSize
    BY <1>4, <1>13 DEF Played
  <2>. QED
    BY <1>2, <1>11, <1>12, <2>1 DEF Played
<1>15. PlayedBy(segs)'
  BY <1>1, <1>2, <1>4, <1>10, <1>14 DEF PlayedBy, Reversible
<1>. QED
  BY <1>1, <1>2, <1>15 DEF RollingBack, SeedsDrawn

LEMMA RolledBackKeeps ==
    TypeInv /\ SeedsDrawn /\ RolledBack /\ (SyncDb \/ ZeroHeader) => SeedsDrawn' /\ RolledBack'
<1> SUFFICES ASSUME TypeInv, SeedsDrawn, RolledBack, SyncDb \/ ZeroHeader
             PROVE  SeedsDrawn' /\ RolledBack'
  OBVIOUS
<1>1. CASE SyncDb
  <2>1. /\ pc' = [pc EXCEPT !.at = "zero"] /\ pager' = pager
        /\ UNCHANGED <<disk, cache, prng, committed>>
    BY <1>1 DEF SyncDb, Sync, Goes, ghosts, RolledBack
  <2>2. pc'.at = "zero" /\ pc'.op = pc.op
    BY <2>1, InvTyped DEF Places
  <2>. QED
    BY <2>1, <2>2, SameDisk DEF RolledBack, SeedsDrawn
<1>2. CASE ZeroHeader
  <2>1. /\ SeedsDrawn' /\ disk'["db"] = disk["db"]
        /\ pc'.at = "syncZero" /\ pc'.op = pc.op
        /\ UNCHANGED <<pager, cache>>
        /\ committed' = IF pc.op = "commit" THEN View ELSE committed
    BY <1>2, ZeroHeaderDoes
  <2>. QED
    BY <2>1 DEF RolledBack
<1>. QED
  BY <1>1, <1>2

LEMMA RolledBackEnds ==
    TypeInv /\ SeedsDrawn /\ RolledBack /\ EndTransaction => SeedsDrawn' /\ Settled'
<1> SUFFICES ASSUME TypeInv, SeedsDrawn, RolledBack, EndTransaction PROVE SeedsDrawn' /\ Settled'
  OBVIOUS
<1>1. /\ ~Hot /\ AllRestored(committed, disk["db"], cache)
      /\ NewFileIsBlank(committed, disk["db"])
      /\ Len(committed) <= pager.dbSize /\ (committed = << >> => pager.dbSize = 0)
  BY DEF RolledBack, Hot
<1>. QED
  BY <1>1, EndSettles

-----------------------------------------------------------------------------
(* The steps of each phase                                                 *)

\* When an action may happen.
LEMMA Guards ==
    /\ Open => pager.eState = "CLOSED"
    /\ SharedLock => pager.eState = "OPEN"
    /\ Begin \/ Close => IsIdle /\ pager.eState = "READER"
    /\ EndNothing => IsIdle /\ pager.eState = "LOCKED"
    /\ NewDatabase \/ Extend \/ (\E p \in Page : WritePage(p)) => IsIdle /\ InTransaction
    /\ (\E p \in Page : Get(p)) \/ (\E p \in Page : Recycle(p)) => IsIdle
    /\ (\E p \in Page : Spill(p)) \/ Commit \/ Rollback =>
          IsIdle /\ pager.eState \in {"CACHEMOD", "DBMOD"}
    /\ NextHeader \/ SyncRecords \/ CountRecords \/ SyncHeader => pc.at \in Syncing
    /\ SpillPage => pc.op = "spill" /\ pc.at = "pages"
    /\ CommitPage \/ CommitPagesDone => pc.op = "commit" /\ pc.at = "pages"
    /\ SyncDb => pc.at = "syncDb"
    /\ ZeroHeader => pc.at = "zero"
    /\ EndTransaction => \/ pc.at = "syncZero"
                         \/ pc.at = "zero" /\ pager.journalOff = 0
    /\ PlayHeader => pc.at = "hdr"
    /\ PlayRecord \/ SkipRecord \/ RefuseRecord \/ SegmentPlayed => pc.at = "rec"
<1>1. /\ Open => pager.eState = "CLOSED"
      /\ SharedLock => pager.eState = "OPEN"
      /\ Begin \/ Close => IsIdle /\ pager.eState = "READER"
      /\ EndNothing => IsIdle /\ pager.eState = "LOCKED"
  BY DEF Open, SharedLock, Begin, Close, EndNothing
<1>2. NewDatabase \/ Extend \/ (\E p \in Page : WritePage(p)) => IsIdle /\ InTransaction
  BY DEF NewDatabase, Extend, WritePage, InTransaction
<1>3. (\E p \in Page : Get(p)) \/ (\E p \in Page : Recycle(p)) => IsIdle
  BY DEF Get, Recycle
<1>4. (\E p \in Page : Spill(p)) \/ Commit \/ Rollback =>
          IsIdle /\ pager.eState \in {"CACHEMOD", "DBMOD"}
  BY DEF Spill, Commit, Rollback
<1>5. NextHeader \/ SyncRecords \/ CountRecords \/ SyncHeader => pc.at \in Syncing
  BY DEF NextHeader, SyncRecords, CountRecords, SyncHeader, Syncing
<1>6. /\ SpillPage => pc.op = "spill" /\ pc.at = "pages"
      /\ CommitPage \/ CommitPagesDone => pc.op = "commit" /\ pc.at = "pages"
      /\ SyncDb => pc.at = "syncDb"
      /\ ZeroHeader => pc.at = "zero"
  BY DEF SpillPage, CommitPage, CommitPagesDone, SyncDb, ZeroHeader
<1>7. EndTransaction => \/ pc.at = "syncZero"
                        \/ pc.at = "zero" /\ pager.journalOff = 0
  BY DEF EndTransaction
<1>8. /\ PlayHeader => pc.at = "hdr"
      /\ PlayRecord \/ SkipRecord \/ RefuseRecord \/ SegmentPlayed => pc.at = "rec"
  BY DEF PlayHeader, PlayRecord, SkipRecord, RefuseRecord, SegmentPlayed
<1>. QED
  BY <1>1, <1>2, <1>3, <1>4, <1>5, <1>6, <1>7, <1>8

LEMMA SettledActs ==
    Settled /\ Next => \/ Open \/ SharedLock \/ Begin \/ EndNothing \/ Close
                       \/ NewDatabase \/ Extend \/ (\E p \in Page : WritePage(p))
                       \/ (\E p \in Page : Get(p)) \/ (\E p \in Page : Recycle(p))
<1> SUFFICES ASSUME Settled, Next
             PROVE  \/ Open \/ SharedLock \/ Begin \/ EndNothing \/ Close
                    \/ NewDatabase \/ Extend \/ (\E p \in Page : WritePage(p))
                    \/ (\E p \in Page : Get(p)) \/ (\E p \in Page : Recycle(p))
  OBVIOUS
<1>1. pc.at = "none" /\ pc.op = "none" /\ pager.eState \notin {"CACHEMOD", "DBMOD"}
  BY DEF Settled, IsIdle, Idle
<1>. QED
  BY <1>1, Guards DEF Next, Syncing

LEMMA UndecidedActs ==
    Undecided /\ Next => \/ NewDatabase \/ Extend \/ (\E p \in Page : WritePage(p))
                         \/ (\E p \in Page : Get(p)) \/ (\E p \in Page : Recycle(p))
                         \/ (\E p \in Page : Spill(p)) \/ Commit \/ Rollback
                         \/ NextHeader \/ SyncRecords \/ CountRecords \/ SyncHeader \/ SpillPage
<1> SUFFICES ASSUME Undecided, Next
             PROVE  \/ NewDatabase \/ Extend \/ (\E p \in Page : WritePage(p))
                    \/ (\E p \in Page : Get(p)) \/ (\E p \in Page : Recycle(p))
                    \/ (\E p \in Page : Spill(p)) \/ Commit \/ Rollback
                    \/ NextHeader \/ SyncRecords \/ CountRecords \/ SyncHeader \/ SpillPage
  OBVIOUS
<1>1. /\ pc.at \in Syncing \cup {"none", "pages"} /\ pc.op # "commit"
      /\ pager.eState \in {"CACHEMOD", "DBMOD"}
  BY DEF Undecided, UndecidedAt, IsIdle, Idle
<1>. QED
  BY <1>1, Guards DEF Next, Syncing

LEMMA CommittingActs ==
    Committing /\ Next => \/ NextHeader \/ SyncRecords \/ CountRecords \/ SyncHeader
                          \/ CommitPage \/ CommitPagesDone \/ SyncDb \/ ZeroHeader
                          \/ EndTransaction
<1> SUFFICES ASSUME Committing, Next
             PROVE  \/ NextHeader \/ SyncRecords \/ CountRecords \/ SyncHeader
                    \/ CommitPage \/ CommitPagesDone \/ SyncDb \/ ZeroHeader
                    \/ EndTransaction
  OBVIOUS
<1>1. /\ ~IsIdle /\ pc.op = "commit" /\ pc.at \notin {"hdr", "rec"}
      /\ pager.eState \notin {"CLOSED", "OPEN", "READER", "LOCKED"}
  BY DEF Committing, CommittingAt, IsIdle, Idle, Syncing
<1>. QED
  BY <1>1, Guards DEF Next

LEMMA RollingBackActs ==
    RollingBack /\ Next => PlayHeader \/ PlayRecord \/ SkipRecord \/ RefuseRecord \/ SegmentPlayed
<1> SUFFICES ASSUME RollingBack, Next
             PROVE  PlayHeader \/ PlayRecord \/ SkipRecord \/ RefuseRecord \/ SegmentPlayed
  OBVIOUS
<1>1. /\ ~IsIdle /\ pc.op = "rollback" /\ pc.at \in {"hdr", "rec"}
      /\ pager.eState \notin {"CLOSED", "OPEN", "READER", "LOCKED"}
  BY DEF RollingBack, IsIdle, Idle
<1>. QED
  BY <1>1, Guards DEF Next, Syncing

LEMMA RolledBackActs == RolledBack /\ Next => SyncDb \/ ZeroHeader \/ EndTransaction
<1> SUFFICES ASSUME RolledBack, Next PROVE SyncDb \/ ZeroHeader \/ EndTransaction
  OBVIOUS
<1>1. /\ ~IsIdle /\ pc.op = "rollback" /\ pc.at \in {"syncDb", "zero", "syncZero"}
      /\ pager.eState \notin {"CLOSED", "OPEN", "READER", "LOCKED"}
  BY DEF RolledBack, IsIdle, Idle
<1>. QED
  BY <1>1, Guards DEF Next, Syncing

LEMMA SettledNext ==
    TypeInv /\ TypeInv' /\ SeedsDrawn /\ Settled /\ Next => SeedsDrawn' /\ (Settled' \/ Undecided')
<1> SUFFICES ASSUME TypeInv, TypeInv', SeedsDrawn, Settled, Next
             PROVE  SeedsDrawn' /\ (Settled' \/ Undecided')
  OBVIOUS
<1>1. CASE Open \/ SharedLock \/ Begin \/ EndNothing
           \/ (\E p \in Page : Get(p)) \/ (\E p \in Page : Recycle(p))
  <2>1. UNCHANGED <<disk, prng>>
    BY <1>1 DEF Open, SharedLock, Begin, EndNothing, Get, Recycle
  <2>2. SeedsDrawn'
    BY <2>1, SameDisk DEF SeedsDrawn
  <2>3. Settled'
    BY <1>1, OpenKeeps, SharedLockKeeps, BeginKeeps, EndNothingKeeps, GetSettled, RecycleSettled
  <2>. QED
    BY <2>2, <2>3
<1>2. CASE Close
  BY <1>2, CloseKeeps
<1>3. CASE NewDatabase \/ Extend \/ (\E p \in Page : WritePage(p))
  BY <1>3, WriteKeeps
<1>. QED
  BY <1>1, <1>2, <1>3, SettledActs

LEMMA UndecidedNext ==
    TypeInv /\ TypeInv' /\ SeedsDrawn /\ Undecided /\ Next
    => SeedsDrawn' /\ (Undecided' \/ Committing' \/ RollingBack')
<1> SUFFICES ASSUME TypeInv, TypeInv', SeedsDrawn, Undecided, Next
             PROVE  SeedsDrawn' /\ (Undecided' \/ Committing' \/ RollingBack')
  OBVIOUS
<1>1. CASE NewDatabase \/ Extend \/ (\E p \in Page : WritePage(p))
  BY <1>1, WriteKeeps
<1>2. CASE \/ (\E p \in Page : Get(p)) \/ (\E p \in Page : Recycle(p))
           \/ (\E p \in Page : Spill(p))
  <2>1. UNCHANGED <<disk, prng>>
    BY <1>2 DEF Get, Recycle, Spill
  <2>2. SeedsDrawn'
    BY <2>1, SameDisk DEF SeedsDrawn
  <2>. QED
    BY <1>2, <2>2, GetUndecided, RecycleUndecided, SpillKeeps
<1>3. CASE NextHeader \/ SyncRecords \/ CountRecords \/ SyncHeader
  <2>1. pager.journalOff # 0
    BY UndecidedJournalOff
  <2>2. SeedsDrawn'
    BY <1>3, <2>1, SyncingWrites
  <2>. QED
    BY <1>3, <2>2, NextHeaderUndecided, SyncRecordsUndecided, CountRecordsUndecided,
       SyncHeaderUndecided
<1>4. CASE SpillPage
  BY <1>4, SpillPageUndecided
<1>5. CASE Commit
  BY <1>5, CommitKeeps
<1>6. CASE Rollback
  BY <1>6, RollbackKeeps
<1>. QED
  BY <1>1, <1>2, <1>3, <1>4, <1>5, <1>6, UndecidedActs

LEMMA CommittingNext ==
    TypeInv /\ SeedsDrawn /\ Committing /\ Next => SeedsDrawn' /\ (Committing' \/ Settled')
BY CommittingActs, CommitSyncs, CommitPageKeeps, CommitGoesOn, CommitZeroes, CommitEnds

LEMMA RollingBackNext ==
    TypeInv /\ SeedsDrawn /\ RollingBack /\ Next => SeedsDrawn' /\ (RollingBack' \/ RolledBack')
BY RollingBackActs, PlayHeaderKeeps, PlayRecordKeeps, SkipRecordKeeps, RefuseRecordKeeps,
   SegmentPlayedKeeps

LEMMA RolledBackNext ==
    TypeInv /\ SeedsDrawn /\ RolledBack /\ Next => SeedsDrawn' /\ (RolledBack' \/ Settled')
BY RolledBackActs, RolledBackKeeps, RolledBackEnds

LEMMA NextInv == Inv /\ [Next]_vars => Inv'
<1> SUFFICES ASSUME Inv, [Next]_vars PROVE Inv'
  OBVIOUS
<1>1. TypeInv /\ TypeInv' /\ SeedsDrawn /\ Phase
  BY NextTyped DEF Inv
<1>2. CASE Next
  <2>1. SeedsDrawn' /\ (Settled' \/ Undecided' \/ Committing' \/ RollingBack' \/ RolledBack')
    BY <1>1, <1>2, SettledNext, UndecidedNext, CommittingNext, RollingBackNext, RolledBackNext
       DEF Phase
  <2>. QED
    BY <1>1, <2>1 DEF Inv, Phase
<1>3. CASE UNCHANGED vars
  <2>1. UNCHANGED <<disk, pager, cache, prng, pc, committed, tx>>
    BY <1>3 DEF vars
  <2>2. JournalContent' = JournalContent /\ (IsIdle' <=> IsIdle) /\ View' = View
    BY <2>1 DEF JournalContent, Exists, IsIdle, View, IsDatabase, Size, Fetched, DbSize
  <2>3. Settled => Settled'
    BY <2>1, <2>2 DEF Settled
  <2>4. Undecided => Undecided'
    BY <2>1, <2>2 DEF Undecided, UndecidedAt, RecordedBy
  <2>5. Committing => Committing'
    BY <2>1, <2>2 DEF Committing, CommittingAt
  <2>6. RollingBack => RollingBack'
    BY <2>1, <2>2 DEF RollingBack, PlayedBy
  <2>7. RolledBack => RolledBack'
    BY <2>1, <2>2 DEF RolledBack
  <2>8. SeedsDrawn'
    BY <1>1, <2>1, <2>2 DEF SeedsDrawn
  <2>9. Phase'
    BY <1>1, <2>3, <2>4, <2>5, <2>6, <2>7 DEF Phase
  <2>. QED
    BY <1>1, <2>8, <2>9 DEF Inv
<1>. QED
  BY <1>2, <1>3

LEMMA InvHolds == Spec => []Inv
<1>1. Init => Inv
  BY InitTyped, InitInv DEF Inv, Phase
<1>. QED
  BY <1>1, NextInv, PTL DEF Spec

-----------------------------------------------------------------------------
LEMMA InvCleanPagesAgree == Inv => CleanPagesAgree
<1> SUFFICES ASSUME Inv, IsDatabase, ~PlayingBack,
                    NEW p \in (DOMAIN cache \cap 1 .. Size) \ pager.dirty
             PROVE  cache[p] = ContentOf(At(disk["db"], p))
  BY DEF CleanPagesAgree
<1>1. TypeInv /\ (Settled \/ Undecided \/ Committing)
  BY DEF Inv, Phase, RollingBack, RolledBack, PlayingBack
<1>2. Len(disk["db"]) \in Nat
  BY <1>1, InvTyped, NPagesIsPositive
<1>3. ASSUME p <= Len(disk["db"]) PROVE At(disk["db"], p) = disk["db"][p]
  BY <1>1, <1>2, <1>3, SizeTyped, NPagesIsPositive DEF At
<1>4. CASE Settled
  <2>1. committed # << >> /\ Size = Len(committed)
    BY <1>1, <1>4, SettledSees
  <2>2. p \in OldPages(committed)
    BY <2>1 DEF OldPages
  <2>3. Restored(committed, disk["db"], cache, p)
    BY <1>4, <2>2 DEF Settled, SettledPages, AllRestored
  <2>. QED
    BY <1>3, <2>3 DEF Restored, Untouched
<1>5. CASE Undecided \/ Committing
  <2>1. Begun(committed, disk["db"], cache, pager)
    BY <1>5 DEF Undecided, Committing, Made
  <2>2. Size = cache[1].size
    BY <2>1 DEF Begun, Size, Fetched
  <2>3. p <= Len(disk["db"]) /\ cache[p] = ContentOf(disk["db"][p])
    BY <2>1, <2>2 DEF Begun
  <2>. QED
    BY <1>3, <2>3
<1>. QED
  BY <1>1, <1>4, <1>5

\* A clean page of the cache is the page of the file, through every commit and
\* rollback: what a rollback puts back in the file it puts back in the cache.
THEOREM CachedPagesAgree == Spec => []CleanPagesAgree
<1>. QED
  BY InvHolds, InvCleanPagesAgree, PTL

-----------------------------------------------------------------------------
(* The refinement: what a program sees in each phase                       *)

Image == IF Unfinished THEN committed ELSE View

Writing == IF /\ InTransaction \/ pager.eState = "FINISHED"
              /\ ~ PlayingBack
              /\ pc.at # "syncZero"
           THEN tx ELSE 0

LEMMA SettledShows ==
    TypeInv /\ Settled =>
        /\ Image = View
        /\ Writing = (IF pager.eState = "LOCKED" THEN tx ELSE 0)
        /\ pager.eState = "LOCKED" => tx # 0
        /\ committed # << >> => View = committed
        /\ committed = << >> => (IsDatabase <=> DbSize = 0) /\ (IsDatabase => View = << >>)
<1> SUFFICES ASSUME TypeInv, Settled
             PROVE  /\ Image = View
                    /\ Writing = (IF pager.eState = "LOCKED" THEN tx ELSE 0)
                    /\ pager.eState = "LOCKED" => tx # 0
                    /\ committed # << >> => View = committed
                    /\ committed = << >> => (IsDatabase <=> DbSize = 0) /\ (IsDatabase => View = << >>)
  OBVIOUS
<1>1. ~Unfinished /\ ~PlayingBack
  BY DEF Settled, IsIdle, Idle, Unfinished, PlayingBack, Owed
<1>2. pc.at # "syncZero" /\ (InTransaction <=> pager.eState = "LOCKED") /\ pager.eState # "FINISHED"
  BY DEF Settled, IsIdle, Idle, InTransaction
<1>3. pager.eState = "LOCKED" => tx # 0
  BY DEF Settled
<1>. QED
  BY <1>1, <1>2, <1>3, SettledSees DEF Image, Writing

LEMMA SettledShowsNext ==
    (TypeInv /\ Settled =>
        /\ Image = View
        /\ Writing = (IF pager.eState = "LOCKED" THEN tx ELSE 0)
        /\ pager.eState = "LOCKED" => tx # 0
        /\ committed # << >> => View = committed
        /\ committed = << >> => (IsDatabase <=> DbSize = 0) /\ (IsDatabase => View = << >>))'
BY SettledShows, PTL

LEMMA UndecidedShows ==
    TypeInv /\ Undecided =>
        /\ Image = View /\ Writing = tx /\ tx # 0
        /\ Made(committed, disk["db"], cache, pager)
        /\ pager.eState \in {"CACHEMOD", "DBMOD"}
<1> SUFFICES ASSUME TypeInv, Undecided
             PROVE  /\ Image = View /\ Writing = tx /\ tx # 0
                    /\ Made(committed, disk["db"], cache, pager)
                    /\ pager.eState \in {"CACHEMOD", "DBMOD"}
  OBVIOUS
<1>1. pc.op \in {"none", "spill"} /\ pc.at # "syncZero" /\ tx # 0
      /\ pager.eState \in {"CACHEMOD", "DBMOD"}
  BY DEF Undecided, UndecidedAt, IsIdle, Idle, Syncing
<1>2. ~Unfinished /\ ~PlayingBack /\ InTransaction
  BY <1>1 DEF Unfinished, PlayingBack, Owed, InTransaction
<1>. QED
  BY <1>1, <1>2 DEF Image, Writing, Undecided

LEMMA UndecidedShowsNext ==
    (TypeInv /\ Undecided =>
        /\ Image = View /\ Writing = tx /\ tx # 0
        /\ Made(committed, disk["db"], cache, pager)
        /\ pager.eState \in {"CACHEMOD", "DBMOD"})'
BY UndecidedShows, PTL

LEMMA CommittingShows ==
    TypeInv /\ Committing =>
        /\ Image = View /\ Writing = (IF pc.at = "syncZero" THEN 0 ELSE tx) /\ tx # 0
        /\ Made(committed, disk["db"], cache, pager)
        /\ pager.eState \in {"CACHEMOD", "DBMOD", "FINISHED"}
        /\ pc.at = "syncZero" => committed = View
<1> SUFFICES ASSUME TypeInv, Committing
             PROVE  /\ Image = View /\ Writing = (IF pc.at = "syncZero" THEN 0 ELSE tx) /\ tx # 0
                    /\ Made(committed, disk["db"], cache, pager)
                    /\ pager.eState \in {"CACHEMOD", "DBMOD", "FINISHED"}
                    /\ pc.at = "syncZero" => committed = View
  OBVIOUS
<1>1. pc.op = "commit" /\ tx # 0 /\ pager.eState \in {"CACHEMOD", "DBMOD", "FINISHED"}
  BY DEF Committing, CommittingAt
<1>2. ~Unfinished /\ ~PlayingBack /\ (InTransaction \/ pager.eState = "FINISHED")
  BY <1>1 DEF Unfinished, PlayingBack, Owed, InTransaction
<1>. QED
  BY <1>1, <1>2 DEF Image, Writing, Committing

LEMMA CommittingShowsNext ==
    (TypeInv /\ Committing =>
        /\ Image = View /\ Writing = (IF pc.at = "syncZero" THEN 0 ELSE tx) /\ tx # 0
        /\ Made(committed, disk["db"], cache, pager)
        /\ pager.eState \in {"CACHEMOD", "DBMOD", "FINISHED"}
        /\ pc.at = "syncZero" => committed = View)'
BY CommittingShows, PTL

LEMMA RollbackShows == RollingBack \/ RolledBack => Image = committed /\ Writing = 0
BY DEF RollingBack, RolledBack, Image, Writing, Unfinished, PlayingBack

LEMMA RollbackShowsNext == (RollingBack \/ RolledBack => Image = committed /\ Writing = 0)'
BY RollbackShows, PTL

LEMMA BegunShowsNext ==
    (/\ TypeInv /\ pager.eState \notin {"CLOSED", "OPEN"}
     /\ Begun(committed, disk["db"], cache, pager)
     => /\ DbSize = pager.dbSize /\ Size = cache[1].size
        /\ View = [p \in 1 .. Size |-> Fetched(p).by])'
<1>1. /\ TypeInv /\ pager.eState \notin {"CLOSED", "OPEN"}
      /\ Begun(committed, disk["db"], cache, pager)
      => /\ DbSize = pager.dbSize /\ Size = cache[1].size
         /\ View = [p \in 1 .. Size |-> Fetched(p).by]
  BY BegunSees
<1>. QED
  BY <1>1, PTL

\* One step of the refinement: a step of the abstract database, or none, but
\* for a new file that is left as no database.
DbStep == [Db!Next]_(Db!dbVars) \/ (committed' = << >> /\ ~IsDatabase')

LEMMA DbStays ==
    committed' = committed /\ Image' = Image /\ Writing' = Writing => DbStep
BY DEF DbStep, Db!dbVars, Image, Writing

LEMMA DbBegins ==
    /\ committed' = committed /\ Image' = Image
    /\ Writing = 0 /\ Writing' \in Version \ {0}
    => DbStep
BY DEF DbStep, Db!Next, Db!Begin, Image, Writing

LEMMA DbRollsBack ==
    /\ committed' = committed /\ Image' = committed
    /\ Writing # 0 /\ Writing' = 0
    => DbStep
BY DEF DbStep, Db!Next, Db!Rollback, Image, Writing

LEMMA DbCommits ==
    /\ committed' = Image /\ Image' = Image
    /\ Writing # 0 /\ Writing' = 0
    => DbStep
BY DEF DbStep, Db!Next, Db!Commit, Image, Writing

LEMMA DbChanges ==
    ASSUME NEW n \in Len(Image) .. NPages, NEW S \in SUBSET (1 .. n),
           Len(Image) + 1 .. n \subseteq S,
           Image' = [p \in 1 .. n |-> IF p \in S THEN Writing ELSE Image[p]],
           committed' = committed, Writing # 0, Writing' = Writing
    PROVE  DbStep
<1>1. Db!Change
  BY DEF Db!Change, Image, Writing
<1>. QED
  BY <1>1 DEF DbStep, Db!Next

-----------------------------------------------------------------------------
LEMMA SettledSteps ==
    TypeInv /\ TypeInv' /\ SeedsDrawn /\ Settled /\ Settled'
    /\ (\/ Open \/ SharedLock \/ Begin \/ EndNothing \/ Close
        \/ (\E p \in Page : Get(p)) \/ (\E p \in Page : Recycle(p)))
    => DbStep
<1> SUFFICES ASSUME TypeInv, TypeInv', SeedsDrawn, Settled, Settled',
                    \/ Open \/ SharedLock \/ Begin \/ EndNothing \/ Close
                    \/ (\E p \in Page : Get(p)) \/ (\E p \in Page : Recycle(p))
             PROVE  DbStep
  OBVIOUS
<1>1. /\ Image = View
      /\ Writing = (IF pager.eState = "LOCKED" THEN tx ELSE 0)
      /\ pager.eState = "LOCKED" => tx # 0
      /\ committed # << >> => View = committed
      /\ committed = << >> => (IsDatabase <=> DbSize = 0) /\ (IsDatabase => View = << >>)
  BY SettledShows
<1>2. /\ Image' = View'
      /\ Writing' = (IF pager'.eState = "LOCKED" THEN tx' ELSE 0)
      /\ committed' # << >> => View' = committed'
      /\ committed' = << >> =>
            (IsDatabase' <=> DbSize' = 0) /\ (IsDatabase' => View' = << >>)
  BY SettledShowsNext
<1>3. committed' = committed
  BY DEF Open, SharedLock, Begin, EndNothing, Close, Get, Recycle, ghosts
<1>4. committed = << >> /\ DbSize' = 0 => DbSize = 0
  <2> SUFFICES ASSUME committed = << >>, DbSize' = 0 PROVE DbSize = 0
    OBVIOUS
  <2>1. CASE Open
    BY <2>1 DEF Open, DbSize, TypeInv, PagerOK, Pagers
  <2>2. CASE SharedLock
    BY <2>2, InvTyped DEF SharedLock, DbSize, Pagers
  <2>3. CASE Begin \/ EndNothing
    BY <2>3, InvTyped DEF Begin, EndNothing, DbSize, Pagers
  <2>4. CASE (\E p \in Page : Get(p)) \/ (\E p \in Page : Recycle(p))
    BY <2>4 DEF Get, Recycle, DbSize
  <2>5. CASE Close
    <3>1. pager.eState = "READER" /\ pager'.eState = "CLOSED"
      BY <2>5 DEF Close, ClosedPager
    <3>2. disk'["db"] = disk["db"]
      BY <2>5, CloseKeeps
    <3>3. Len(disk["db"]) = 0
      BY <3>1, <3>2 DEF DbSize
    <3>4. pager.dbSize <= 0 /\ pager.dbSize \in 0 .. NPages
      BY <3>1, <3>3, InvTyped DEF Settled, SettledPages, Pagers
    <3>. QED
      BY <3>1, <3>4, NPagesIsPositive DEF DbSize
  <2>. QED
    BY <2>1, <2>2, <2>3, <2>4, <2>5
<1>5. View' = View \/ (committed' = << >> /\ ~IsDatabase')
  BY <1>1, <1>2, <1>3, <1>4
<1>6. CASE Begin /\ View' = View
  <2>1. /\ pager.eState = "READER" /\ pager'.eState = "LOCKED" /\ tx' = tx + 1 /\ tx < MaxTx
    BY <1>6, InvTyped DEF Begin, Pagers
  <2>2. tx \in 0 .. MaxTx /\ MaxTx \in Nat
    BY InvTyped, BoundsAreNumbers
  <2>3. tx' \in Version \ {0}
    BY <2>1, <2>2 DEF Version
  <2>. QED
    BY <1>1, <1>2, <1>3, <1>6, <2>1, <2>3, DbBegins
<1>7. CASE EndNothing
  <2>1. pager.eState = "LOCKED" /\ pager'.eState = "READER" /\ Size > 0
    BY <1>7, InvTyped DEF EndNothing, Pagers
  <2>2. committed # << >>
    BY <2>1, SettledSees
  <2>. QED
    BY <1>1, <1>2, <1>3, <2>1, <2>2, DbRollsBack
<1>8. CASE /\ View' = View
           /\ \/ Open \/ SharedLock \/ Close
              \/ (\E p \in Page : Get(p)) \/ (\E p \in Page : Recycle(p))
  <2>1. CASE Open \/ SharedLock \/ Close
    <3>1. pager \in Pagers
      BY InvTyped
    <3>2. Open => pager.eState = "CLOSED" /\ pager'.eState = "OPEN"
      BY <3>1 DEF Open, Pagers
    <3>3. SharedLock => pager.eState = "OPEN" /\ pager'.eState = "READER"
      BY <3>1 DEF SharedLock, Pagers
    <3>4. Close => pager.eState = "READER" /\ pager'.eState = "CLOSED"
      BY DEF Close, ClosedPager
    <3>5. pager.eState # "LOCKED" /\ pager'.eState # "LOCKED"
      BY <2>1, <3>2, <3>3, <3>4
    <3>. QED
      BY <1>1, <1>2, <1>3, <1>8, <3>5, DbStays
  <2>2. CASE (\E p \in Page : Get(p)) \/ (\E p \in Page : Recycle(p))
    <3>1. pager' = pager /\ tx' = tx
      BY <2>2 DEF Get, Recycle, ghosts
    <3>. QED
      BY <1>1, <1>2, <1>3, <1>8, <3>1, DbStays
  <2>. QED
    BY <1>8, <2>1, <2>2
<1>. QED
  BY <1>5, <1>6, <1>7, <1>8 DEF DbStep

\* A step that writes shows the pages it writes, and those before as they were.
LEMMA WriteShows ==
    ASSUME TypeInv, TypeInv', pager.eState \notin {"CLOSED", "OPEN"},
           pager'.eState \notin {"CLOSED", "OPEN"},
           Begun(committed, disk["db"], cache, pager),
           NEW p, NEW size, NEW new, Writes(p, size, new), PagerWritten(p, size, new),
           committed' = committed
    PROVE  /\ View' = [q \in 1 .. size |-> IF q \in {p} \cup new THEN tx ELSE View[q]]
           /\ {p} \cup new \in SUBSET (1 .. size)
           /\ Len(View) + 1 .. size \subseteq {p} \cup new
           /\ size \in Len(View) .. NPages
<1>1. /\ p \in 1 .. size /\ new \subseteq 1 .. size /\ size \in 1 .. NPages /\ Size <= size
      /\ \A q \in 1 .. size : q \notin {p} \cup new => q \in 1 .. Size
  BY WritesAre
<1>2. /\ Size \in 0 .. NPages /\ View = [q \in 1 .. Size |-> Fetched(q).by]
  BY BegunSees
<1>3. Len(View) = Size
  BY <1>2
<1>4. /\ Begun(committed, disk["db"], cache, pager)' /\ cache'[1].size = size
      /\ \A q \in 1 .. size :
            FetchedFrom(cache', disk'["db"], pager'.dbSize, q).by =
               IF q \in {p} \cup new THEN tx ELSE Fetched(q).by
  BY WriteSeen DEF Made
<1>5. DbSize' = pager'.dbSize /\ Size' = size
      /\ View' = [q \in 1 .. size |-> Fetched(q)'.by]
  BY <1>4, BegunShowsNext
<1>6. \A q : Fetched(q)' = FetchedFrom(cache', disk'["db"], pager'.dbSize, q)
  BY <1>5 DEF Fetched, FetchedFrom
<1>7. \A q \in 1 .. size :
         Fetched(q)'.by = IF q \in {p} \cup new THEN tx ELSE View[q]
  BY <1>1, <1>2, <1>4, <1>6
<1>8. View' = [q \in 1 .. size |-> IF q \in {p} \cup new THEN tx ELSE View[q]]
  BY <1>5, <1>7
<1>9. Len(View) + 1 .. size \subseteq {p} \cup new
  <2> SUFFICES ASSUME NEW q \in Len(View) + 1 .. size, q \notin {p} \cup new PROVE FALSE
    OBVIOUS
  <2>1. q \in 1 .. size
    BY <1>1, <1>2, <1>3
  <2>2. q \in 1 .. Size
    BY <1>1, <2>1
  <2>. QED
    BY <1>2, <1>3, <2>2
<1>10. size \in Len(View) .. NPages
  BY <1>1, <1>2, <1>3, NPagesIsPositive
<1>. QED
  BY <1>1, <1>8, <1>9, <1>10

LEMMA WriteIsChange ==
    ASSUME TypeInv, TypeInv', pager.eState \notin {"CLOSED", "OPEN"},
           pager'.eState \notin {"CLOSED", "OPEN"},
           Begun(committed, disk["db"], cache, pager),
           NEW p, NEW size, NEW new, Writes(p, size, new), PagerWritten(p, size, new),
           committed' = committed, Image = View, Image' = View',
           Writing = tx, Writing' = tx, tx # 0
    PROVE  DbStep
<1> DEFINE S == {p} \cup new
<1>1. /\ View' = [q \in 1 .. size |-> IF q \in S THEN tx ELSE View[q]]
      /\ S \in SUBSET (1 .. size) /\ Len(View) + 1 .. size \subseteq S
      /\ size \in Len(View) .. NPages
  BY WriteShows
<1> HIDE DEF S
<1>2. /\ Image' = [q \in 1 .. size |-> IF q \in S THEN Writing ELSE Image[q]]
      /\ Len(Image) + 1 .. size \subseteq S /\ size \in Len(Image) .. NPages
  BY <1>1
<1>3. Writing # 0 /\ Writing' = Writing
  OBVIOUS
<1>. QED
  BY ONLY <1>1, <1>2, <1>3, committed' = committed, DbChanges

LEMMA WriteSteps ==
    ASSUME TypeInv, TypeInv', SeedsDrawn, Settled \/ Undecided,
           NewDatabase \/ (\E p \in Page : WritePage(p)) \/ Extend
    PROVE  DbStep
<1>1. IsIdle /\ InTransaction /\ UNCHANGED <<pc, committed, tx>>
      /\ Begun(committed, disk["db"], cache, pager)
  BY WriteActions
<1> PICK p : \E size, new : Writes(p, size, new) /\ PagerWritten(p, size, new)
  BY WriteActions
<1> PICK size : \E new : Writes(p, size, new) /\ PagerWritten(p, size, new)
  OBVIOUS
<1> PICK new : Writes(p, size, new) /\ PagerWritten(p, size, new)
  OBVIOUS
<1>2. Undecided'
  BY WriteKeeps
<1>3. Image' = View' /\ Writing' = tx' /\ pager'.eState \notin {"CLOSED", "OPEN"}
  BY <1>2, UndecidedShowsNext
<1>4. Image = View /\ Writing = tx /\ tx # 0 /\ pager.eState \notin {"CLOSED", "OPEN"}
  <2>1. CASE Settled
    BY <1>1, <2>1, SettledShows DEF Settled, InTransaction
  <2>2. CASE Undecided
    BY <2>2, UndecidedShows
  <2>. QED
    BY <2>1, <2>2
<1>. QED
  BY <1>1, <1>3, <1>4, WriteIsChange

\* A step shows nothing new if it leaves the size as it is and every page as it
\* would be fetched.
LEMMA NothingNew ==
    ASSUME TypeInv, TypeInv', pager.eState \notin {"CLOSED", "OPEN"},
           pager'.eState \notin {"CLOSED", "OPEN"},
           Begun(committed, disk["db"], cache, pager),
           1 \in DOMAIN cache', cache'[1] = cache[1], pager'.dbSize = pager.dbSize,
           \A q \in 1 .. cache[1].size :
               FetchedFrom(cache', disk'["db"], pager.dbSize, q)
               = FetchedFrom(cache, disk["db"], pager.dbSize, q)
    PROVE  View' = View
<1>1. /\ DbSize = pager.dbSize /\ Size = cache[1].size /\ Size \in Nat /\ 1 \in DOMAIN cache
  BY BegunSees DEF Begun
<1>2. DbSize' = pager.dbSize
  BY DEF DbSize
<1>3. /\ SizeOf(cache', disk'["db"], pager.dbSize) = cache[1].size
      /\ SizeOf(cache, disk["db"], pager.dbSize) = cache[1].size
  BY <1>1 DEF SizeOf, FetchedFrom
<1>4. /\ View = ViewOf(cache, disk["db"], pager.dbSize)
      /\ View' = ViewOf(cache', disk'["db"], pager.dbSize)
  <2>1. (View = ViewOf(cache, disk["db"], DbSize))'
    BY ViewIs, PTL
  <2>. QED
    BY <1>1, <1>2, <2>1, ViewIs
<1>5. Valid(cache', disk'["db"], pager.dbSize) <=> Valid(cache, disk["db"], pager.dbSize)
  BY <1>3 DEF Valid
<1>. QED
  BY <1>1, <1>3, <1>4, <1>5, SameView

LEMMA NothingNewSame ==
    ASSUME TypeInv, TypeInv', pager.eState \notin {"CLOSED", "OPEN"},
           pager'.eState \notin {"CLOSED", "OPEN"},
           Begun(committed, disk["db"], cache, pager),
           disk'["db"] = disk["db"], cache' = cache, pager'.dbSize = pager.dbSize
    PROVE  View' = View
BY NothingNew DEF Begun

\* Nor does a page that goes to the file.
LEMMA NothingNewPage ==
    ASSUME TypeInv, TypeInv', pager.eState \notin {"CLOSED", "OPEN"},
           pager'.eState \notin {"CLOSED", "OPEN"},
           Begun(committed, disk["db"], cache, pager),
           NEW p \in DOMAIN cache, PageWritten(disk["db"], disk'["db"], p, cache[p]),
           cache' = cache, pager'.dbSize = pager.dbSize
    PROVE  View' = View
<1> PICK db \in Databases : db = disk["db"]
  BY InvTyped
<1> PICK db2 : db2 = disk'["db"]
  OBVIOUS
<1>1. \A q \in Nat : FetchedFrom(cache, db2, pager.dbSize, q) = FetchedFrom(cache, db, pager.dbSize, q)
  BY InvTyped, WriteUnseen
<1>. QED
  BY <1>1, NothingNew DEF Begun

LEMMA UndecidedStays ==
    ASSUME TypeInv, TypeInv', Undecided, Undecided', committed' = committed, tx' = tx,
           View' = View
    PROVE  DbStep
BY UndecidedShows, UndecidedShowsNext, DbStays

LEMMA UndecidedSteps ==
    TypeInv /\ TypeInv' /\ SeedsDrawn /\ Undecided /\ Next => DbStep
<1> SUFFICES ASSUME TypeInv, TypeInv', SeedsDrawn, Undecided, Next PROVE DbStep
  OBVIOUS
<1>1. /\ Image = View /\ Writing = tx /\ tx # 0
      /\ Made(committed, disk["db"], cache, pager) /\ Begun(committed, disk["db"], cache, pager)
      /\ pager.eState \in {"CACHEMOD", "DBMOD"} /\ InTransaction
  BY UndecidedShows DEF Made, InTransaction
<1>2. CASE NewDatabase \/ Extend \/ (\E p \in Page : WritePage(p))
  BY <1>2, WriteSteps
<1>3. CASE \E p \in Page : Get(p)
  <2> PICK p \in Page : Get(p)
    BY <1>3
  <2>1. Undecided' /\ UNCHANGED <<disk, pager, committed, tx>>
    BY GetUndecided DEF Get, ghosts
  <2>2. /\ p # 1 /\ p \in 1 .. cache[1].size /\ p \notin DOMAIN cache
        /\ DOMAIN cache' = {p} \cup DOMAIN cache
        /\ \A q \in DOMAIN cache' : cache'[q] = IF q = p THEN Fetched(p) ELSE cache[q]
    BY <1>1, GetReads
  <2>3. Fetched(p) = FetchedFrom(cache, disk["db"], pager.dbSize, p)
    BY <1>1, ViewIs DEF DbSize
  <2>4. 1 \in DOMAIN cache' /\ cache'[1] = cache[1]
    BY <1>1, <2>2 DEF Begun
  <2>5. \A q : FetchedFrom(cache', disk["db"], pager.dbSize, q)
               = FetchedFrom(cache, disk["db"], pager.dbSize, q)
    BY <2>2, <2>3 DEF FetchedFrom
  <2>6. View' = View
    BY <1>1, <2>1, <2>4, <2>5, NothingNew
  <2>. QED
    BY <2>1, <2>6, UndecidedStays
<1>4. CASE \E p \in Page : Recycle(p)
  <2> PICK p \in Page : Recycle(p)
    BY <1>4
  <2>1. Undecided' /\ UNCHANGED <<disk, pager, committed, tx>>
    BY RecycleUndecided DEF Recycle, ghosts
  <2>2. /\ p # 1 /\ cache' = [q \in DOMAIN cache \ {p} |-> cache[q]]
        /\ \A q \in 1 .. cache[1].size :
              FetchedFrom(cache', disk["db"], pager.dbSize, q)
              = FetchedFrom(cache, disk["db"], pager.dbSize, q)
    BY <1>1, RecycleKeepsFetched
  <2>3. 1 \in DOMAIN cache' /\ cache'[1] = cache[1]
    BY <1>1, <2>2 DEF Begun
  <2>4. View' = View
    BY <1>1, <2>1, <2>2, <2>3, NothingNew
  <2>. QED
    BY <2>1, <2>4, UndecidedStays
<1>5. CASE \E p \in Page : Spill(p)
  <2>1. Undecided' /\ UNCHANGED <<disk, pager, cache, committed, tx>>
    BY <1>5, SpillKeeps DEF Spill, ghosts
  <2>2. View' = View
    BY <1>1, <2>1, NothingNewSame
  <2>. QED
    BY <2>1, <2>2, UndecidedStays
<1>6. CASE NextHeader \/ SyncRecords \/ CountRecords \/ SyncHeader
  <2>1. pager.journalOff # 0
    BY UndecidedJournalOff
  <2>2. disk'["db"] = disk["db"] /\ UNCHANGED <<cache, committed, tx>>
    BY <1>6, <2>1, SyncingWrites
  <2>3. Undecided'
    BY <1>6, NextHeaderUndecided, SyncRecordsUndecided, CountRecordsUndecided, SyncHeaderUndecided
  <2>4. pager'.dbSize = pager.dbSize
    BY <1>6, SyncHeaderDoes DEF NextHeader, SyncRecords, CountRecords
  <2>5. pager'.eState \notin {"CLOSED", "OPEN"}
    BY <2>3, UndecidedShowsNext
  <2>6. View' = View
    BY <1>1, <2>2, <2>4, <2>5, NothingNewSame
  <2>. QED
    BY <2>2, <2>3, <2>6, UndecidedStays
<1>7. CASE SpillPage
  <2> PICK p \in DOMAIN cache : p = pc.page
    BY <1>7 DEF TypeInv, PcOK, SpillPage
  <2>1. /\ WriteDb(p, PageCell(cache[p])) /\ pager' = [pager EXCEPT !.dirty = @ \ {p}]
        /\ UNCHANGED <<media, cache, committed, tx>>
    BY <1>7 DEF SpillPage, ghosts
  <2>2. pager'.eState = pager.eState /\ pager'.dbSize = pager.dbSize
    BY <2>1, InvTyped DEF Pagers
  <2>3. p \in Page /\ cache[p] \in Content
    BY InvTyped
  <2>4. PageWritten(disk["db"], disk'["db"], p, cache[p])
    BY <2>1, <2>3, DbWriteDoes
  <2>5. View' = View
    BY <1>1, <2>1, <2>2, <2>4, NothingNewPage
  <2>6. Undecided'
    BY <1>7, SpillPageUndecided
  <2>. QED
    BY <2>1, <2>5, <2>6, UndecidedStays
<1>8. CASE Commit
  <2>1. Committing'
    BY <1>8, CommitKeeps
  <2>2. pc'.at = "nextHdr" /\ committed' = committed /\ tx' = tx
    BY <1>8 DEF Commit, Running, Idle, ghosts
  <2>3. Image' = View' /\ Writing' = tx' /\ pager'.eState \notin {"CLOSED", "OPEN"}
    BY <2>1, <2>2, CommittingShowsNext
  <2>4. CASE pager.changeCountDone
    <3>1. UNCHANGED <<disk, pager, cache>>
      BY <1>8, <2>4 DEF Commit
    <3>2. View' = View
      BY <1>1, <2>3, <3>1, NothingNewSame
    <3>. QED
      BY <1>1, <2>2, <2>3, <3>2, DbStays
  <2>5. CASE ~pager.changeCountDone
    <3>1. PagerWrite(1, Size, {}, TRUE)
      BY <1>8, <2>5 DEF Commit
    <3>2. Size \in 1 .. NPages /\ 1 \in Page
      <4>1. Size \in 0 .. NPages /\ Size # 0
        BY <1>1, BegunSees DEF Made
      <4>. QED
        BY <4>1, NPagesIsPositive DEF Page
    <3>3. PagerWritten(1, Size, {})
      BY <3>1, <3>2, PagerWriteDoes
    <3>4. Writes(1, Size, {})
      BY <3>2, NPagesIsPositive DEF Writes
    <3>. QED
      BY <1>1, <2>2, <2>3, <3>3, <3>4, WriteIsChange
  <2>. QED
    BY <2>4, <2>5
<1>9. CASE Rollback
  <2>1. RollingBack' /\ committed' = committed
    BY <1>9, RollbackKeeps DEF Rollback, ghosts
  <2>. QED
    BY <1>1, <2>1, RollbackShowsNext, DbRollsBack
<1>. QED
  BY <1>2, <1>3, <1>4, <1>5, <1>6, <1>7, <1>8, <1>9, UndecidedActs

LEMMA CommittingSteps ==
    TypeInv /\ TypeInv' /\ SeedsDrawn /\ Committing /\ Next => DbStep
<1> SUFFICES ASSUME TypeInv, TypeInv', SeedsDrawn, Committing, Next PROVE DbStep
  OBVIOUS
<1>1. /\ Image = View /\ Writing = (IF pc.at = "syncZero" THEN 0 ELSE tx) /\ tx # 0
      /\ Made(committed, disk["db"], cache, pager) /\ Begun(committed, disk["db"], cache, pager)
      /\ pager.eState \in {"CACHEMOD", "DBMOD", "FINISHED"}
      /\ pc.at = "syncZero" => committed = View
      /\ pc.op = "commit" /\ pager.journalOff # 0
  BY CommittingShows DEF Made, Committing, CommittingAt
<1>2. Committing' => /\ Image' = View'
                     /\ Writing' = (IF pc'.at = "syncZero" THEN 0 ELSE tx')
                     /\ pager'.eState \notin {"CLOSED", "OPEN"}
  BY CommittingShowsNext
<1>3. CASE NextHeader \/ SyncRecords \/ CountRecords \/ SyncHeader
  <2>1. Committing'
    BY <1>3, CommitSyncs
  <2>2. disk'["db"] = disk["db"] /\ UNCHANGED <<cache, committed, tx>>
    BY <1>1, <1>3, SyncingWrites
  <2>3. pager'.dbSize = pager.dbSize
    BY <1>3, SyncHeaderDoes DEF NextHeader, SyncRecords, CountRecords
  <2>4. pc.at # "syncZero" /\ pc'.at # "syncZero"
    <3>1. CASE NextHeader \/ SyncRecords \/ CountRecords
      <4>1. pc.at # "syncZero" /\ \E at \in Syncing : pc' = [pc EXCEPT !.at = at]
        BY <3>1 DEF NextHeader, SyncRecords, CountRecords, Goes, Syncing
      <4>. QED
        BY <4>1, InvTyped DEF Places, Syncing
    <3>2. CASE SyncHeader
      BY <3>2, SyncHeaderDoes
    <3>. QED
      BY <1>3, <3>1, <3>2
  <2>5. View' = View
    BY <1>1, <1>2, <2>1, <2>2, <2>3, NothingNewSame
  <2>. QED
    BY <1>1, <1>2, <2>1, <2>2, <2>4, <2>5, DbStays
<1>4. CASE CommitPage
  <2>1. Committing'
    BY <1>4, CommitPageKeeps
  <2> PICK p \in pager.dirty :
          /\ IF p <= pager.dbSize THEN WriteDb(p, PageCell(cache[p])) ELSE UNCHANGED disk
          /\ pager' = [pager EXCEPT !.dirty = @ \ {p}]
    BY <1>4 DEF CommitPage
  <2>2. pc.at = "pages" /\ UNCHANGED <<media, cache, pc, committed, tx>>
    BY <1>4 DEF CommitPage, ghosts
  <2>3. pager'.dbSize = pager.dbSize
    BY InvTyped DEF Pagers
  <2>4. p \in DOMAIN cache /\ p \in Page /\ cache[p] \in Content
    BY InvTyped
  <2>5. View' = View
    <3>1. CASE p <= pager.dbSize
      <4>1. WriteDb(p, PageCell(cache[p]))
        BY <3>1
      <4>2. PageWritten(disk["db"], disk'["db"], p, cache[p])
        BY <2>2, <2>4, <4>1, DbWriteDoes
      <4>. QED
        BY <1>1, <1>2, <2>1, <2>2, <2>3, <2>4, <4>2, NothingNewPage
    <3>2. CASE ~(p <= pager.dbSize)
      <4>1. disk' = disk
        BY <3>2
      <4>. QED
        BY <1>1, <1>2, <2>1, <2>2, <2>3, <4>1, NothingNewSame
    <3>. QED
      BY <3>1, <3>2
  <2>. QED
    BY <1>1, <1>2, <2>1, <2>2, <2>5, DbStays
<1>5. CASE CommitPagesDone \/ SyncDb
  <2>1. Committing'
    BY <1>5, CommitGoesOn
  <2>2. UNCHANGED <<disk, cache, committed, tx>> /\ pc.at # "syncZero"
        /\ \E at \in {"syncDb", "zero"} : pc' = [pc EXCEPT !.at = at]
    BY <1>5 DEF CommitPagesDone, SyncDb, Sync, Goes, ghosts
  <2>3. pc'.at # "syncZero"
    BY <2>2, InvTyped DEF Places
  <2>4. pager'.dbSize = pager.dbSize
    BY <1>5, InvTyped DEF CommitPagesDone, SyncDb, Pagers
  <2>5. View' = View
    BY <1>1, <1>2, <2>1, <2>2, <2>4, NothingNewSame
  <2>. QED
    BY <1>1, <1>2, <2>1, <2>2, <2>3, <2>5, DbStays
<1>6. CASE ZeroHeader
  <2>1. Committing'
    BY <1>6, CommitZeroes
  <2>2. pc.at = "zero" /\ pc'.at = "syncZero" /\ View' = View /\ committed' = View
    BY <1>1, <1>6, ZeroHeaderDoes
  <2>. QED
    BY <1>1, <1>2, <2>1, <2>2, DbCommits
<1>7. CASE EndTransaction
  <2>1. Settled'
    BY <1>7, CommitEnds
  <2>2. pc.at = "syncZero" /\ committed' = committed
        /\ pager' = [pager EXCEPT !.eState = "READER", !.journalOff = 0, !.nRec = 0,
                                  !.inJournal = {}, !.dirty = {}, !.needSync = {},
                                  !.dbSize = IF Hot THEN DbSize ELSE @]
    BY <1>1, <1>7 DEF EndTransaction
  <2>3. pager'.eState = "READER"
    BY <2>2, InvTyped DEF Pagers
  <2>4. committed # << >>
    <3>1. Size # 0 /\ Size \in 0 .. NPages /\ View = [p \in 1 .. Size |-> Fetched(p).by]
      BY <1>1, BegunSees DEF Made
    <3>2. Len(View) = Size
      BY <3>1
    <3>. QED
      BY <1>1, <2>2, <3>1, <3>2
  <2>5. Image' = committed' /\ Writing' = 0
    BY <2>1, <2>2, <2>3, <2>4, SettledShowsNext
  <2>. QED
    BY <1>1, <2>2, <2>5, DbStays
<1>. QED
  BY <1>3, <1>4, <1>5, <1>6, <1>7, CommittingActs

LEMMA RollbackSteps ==
    TypeInv /\ TypeInv' /\ SeedsDrawn /\ (RollingBack \/ RolledBack) /\ Next => DbStep
<1> SUFFICES ASSUME TypeInv, TypeInv', SeedsDrawn, RollingBack \/ RolledBack, Next PROVE DbStep
  OBVIOUS
<1>1. Image = committed /\ Writing = 0 /\ pc.op = "rollback"
  BY RollbackShows DEF RollingBack, RolledBack
<1>2. \/ PlayHeader \/ PlayRecord \/ SkipRecord \/ RefuseRecord \/ SegmentPlayed
      \/ SyncDb \/ ZeroHeader \/ EndTransaction
  BY RollingBackActs, RolledBackActs
<1>3. committed' = committed
  BY <1>1, <1>2 DEF PlayHeader, PlayRecord, SkipRecord, RefuseRecord, SegmentPlayed, SyncDb,
     ZeroHeader, EndTransaction, ghosts
<1>4. RollingBack' \/ RolledBack' \/ Settled'
  BY RollingBackNext, RolledBackNext
<1>5. CASE RollingBack' \/ RolledBack'
  BY <1>1, <1>3, <1>5, RollbackShowsNext, DbStays
<1>6. CASE Settled'
  <2>1. IsIdle'
    BY <1>6 DEF Settled
  <2>2. EndTransaction
    <3>1. pc'.op = "none" /\ pc.op = "rollback"
      BY <1>1, <2>1 DEF IsIdle, Idle
    <3>2. pc' # Idle \/ EndTransaction
      BY <1>2, <3>1, InvTyped DEF PlayHeader, PlayRecord, SkipRecord, RefuseRecord, SegmentPlayed,
         SyncDb, ZeroHeader, PlaybackEnds, Goes, Places
    <3>. QED
      BY <2>1, <3>2 DEF IsIdle
  <2>3. pager'.eState = "READER"
    BY <2>2, InvTyped DEF EndTransaction, Pagers
  <2>4. /\ Image' = View' /\ Writing' = 0
        /\ committed' # << >> => View' = committed'
        /\ committed' = << >> => (IsDatabase' => View' = << >>)
    BY <1>6, <2>3, SettledShowsNext
  <2>5. CASE committed' = << >> /\ ~IsDatabase'
    BY <2>5 DEF DbStep
  <2>6. CASE Image' = committed'
    BY <1>1, <1>3, <2>4, <2>6, DbStays
  <2>. QED
    BY <2>4, <2>5, <2>6
<1>. QED
  BY <1>4, <1>5, <1>6

LEMMA StepsImplement == Inv /\ [Next]_vars => [DbStep]_vars
<1> SUFFICES ASSUME Inv, Next PROVE DbStep
  OBVIOUS
<1>1. TypeInv /\ TypeInv' /\ SeedsDrawn /\ Phase
  BY NextTyped DEF Inv
<1>2. CASE Settled
  <2>1. CASE NewDatabase \/ Extend \/ (\E p \in Page : WritePage(p))
    BY <1>1, <1>2, <2>1, WriteSteps
  <2>2. CASE \/ Open \/ SharedLock \/ Begin \/ EndNothing \/ Close
             \/ (\E p \in Page : Get(p)) \/ (\E p \in Page : Recycle(p))
    <3>1. Settled'
      BY <1>1, <1>2, <2>2, OpenKeeps, SharedLockKeeps, BeginKeeps, EndNothingKeeps, CloseKeeps,
         GetSettled, RecycleSettled
    <3>. QED
      BY <1>1, <1>2, <2>2, <3>1, SettledSteps
  <2>. QED
    BY <1>2, <2>1, <2>2, SettledActs
<1>. QED
  BY <1>1, <1>2, UndecidedSteps, CommittingSteps, RollbackSteps DEF Phase

LEMMA InitImplements == Init => Db!Init
<1> SUFFICES ASSUME Init PROVE Db!Init
  OBVIOUS
<1>1. TypeInv /\ Settled
  BY InitTyped, InitInv
<1>2. pager.eState = "CLOSED"
  BY DEF Init, ClosedPager
<1> PICK n \in InitialSize : /\ disk = [db |-> [p \in 1 .. n |-> PageCell(WrittenBy(0, p, n))],
                                        journal |-> NoFile]
                             /\ committed = [p \in 1 .. n |-> 0]
  BY DEF Init
<1>3. n \in Nat /\ MaxTx \in Nat
  BY SizesAreSizes, NPagesIsPositive, BoundsAreNumbers
<1>4. committed \in Seq(Version)
  <2>1. 0 \in Version
    BY <1>3 DEF Version
  <2>. QED
    BY <1>3, <2>1, IsASeq
<1>5. Image = committed
  <2>1. CASE committed # << >>
    BY <1>1, <2>1, SettledShows
  <2>2. CASE committed = << >>
    <3>1. n = 0
      BY <1>3, <2>2
    <3>2. DbSize = 0
      BY <1>2, <1>3, <3>1 DEF DbSize
    <3>. QED
      BY <1>1, <2>2, <3>2, SettledShows
  <2>. QED
    BY <2>1, <2>2
<1>6. Writing = 0
  BY <1>1, <1>2, SettledShows
<1>. QED
  BY <1>4, <1>5, <1>6 DEF Db!Init, Image, Writing

\* What a program sees of the pager, whatever is cached, spilled, journalled or
\* played back and in whatever order, is a database with atomic transactions:
\* a commit keeps what was seen, a rollback puts every page and the number of
\* pages back, and no other step but a write changes anything.
THEOREM AtomicTransactions == Spec => ImplementsAtomicDb
<1>1. Init => Db!Init
  BY InitImplements
<1>2. Inv /\ [Next]_vars => [DbStep]_vars
  BY StepsImplement
<1>. QED
  BY <1>1, <1>2, InvHolds, PTL DEF Spec, ImplementsAtomicDb, DbStep

-----------------------------------------------------------------------------
(* Durability: the database file is synced before its journal is finished,  *)
(* and not written before its records are synced.                          *)

AtEnd == pc.at \in {"zero", "syncZero"}

FileSynced == pager.eState # "DBMOD" \/ AtEnd => media["db"] = disk["db"]

FileUntouched ==
    pager.eState = "CACHEMOD" =>
        \A p \in OldPages(committed) : Untouched(committed, disk["db"], p)

FileInv == FileSynced /\ FileUntouched

LEMMA SyncDoes ==
    ASSUME TypeInv, NEW f \in {"db", "journal"}, Sync(f)
    PROVE  /\ disk' = disk
           /\ media'["db"] = IF f = "db" THEN disk["db"] ELSE media["db"]
BY DEF Sync, TypeInv, FilesOK, StoreTypeOK

\* The steps that write no page to the file.
FileKept ==
    /\ disk'["db"] = disk["db"] /\ media'["db"] = media["db"]
    /\ pager'.eState # "DBMOD" \/ AtEnd' => pager.eState # "DBMOD" \/ AtEnd
    /\ pager'.eState = "CACHEMOD" =>
          /\ pager.eState \in {"LOCKED", "CACHEMOD"}
          /\ committed' = committed

\* The steps that do.
PageWrites == pager'.eState = "DBMOD" /\ ~AtEnd'

LEMMA OpenFile ==
    TypeInv /\ Settled /\ (Open \/ SharedLock \/ Begin \/ EndNothing) => FileKept
<1> SUFFICES ASSUME TypeInv, Settled, Open \/ SharedLock \/ Begin \/ EndNothing PROVE FileKept
  OBVIOUS
<1>1. disk' = disk /\ media' = media /\ pager.eState # "DBMOD"
  BY DEF Open, SharedLock, Begin, EndNothing, Settled
<1>2. pager'.eState # "CACHEMOD"
  BY InvTyped DEF Open, SharedLock, Begin, EndNothing, Pagers
<1>. QED
  BY <1>1, <1>2 DEF FileKept

LEMMA CloseFile ==
    TypeInv /\ SeedsDrawn /\ Settled /\ Close => FileKept
<1> SUFFICES ASSUME TypeInv, SeedsDrawn, Settled, Close PROVE FileKept
  OBVIOUS
<1>1. disk'["db"] = disk["db"] /\ pager.eState # "DBMOD"
  BY CloseKeeps DEF Settled
<1>2. media'["db"] = media["db"]
  BY DEF Close, Delete, TypeInv, FilesOK, StoreTypeOK
<1>3. pager'.eState # "CACHEMOD"
  BY DEF Close, ClosedPager
<1>. QED
  BY <1>1, <1>2, <1>3 DEF FileKept

LEMMA CacheFile ==
    (\E p \in Page : Get(p)) \/ (\E p \in Page : Recycle(p)) \/ (\E p \in Page : Spill(p))
    => FileKept
<1> SUFFICES ASSUME (\E p \in Page : Get(p)) \/ (\E p \in Page : Recycle(p))
                    \/ (\E p \in Page : Spill(p))
             PROVE  FileKept
  OBVIOUS
<1>1. UNCHANGED <<disk, media, pager, committed>>
  BY DEF Get, Recycle, Spill, ghosts
<1>2. AtEnd' => AtEnd
  <2>1. CASE (\E p \in Page : Get(p)) \/ (\E p \in Page : Recycle(p))
    BY <2>1 DEF Get, Recycle, AtEnd
  <2>2. CASE \E p \in Page : Spill(p)
    BY <2>2 DEF Spill, AtEnd, Running, Idle
  <2>. QED
    BY <2>1, <2>2
<1>. QED
  BY <1>1, <1>2 DEF FileKept

LEMMA WriteFile ==
    ASSUME TypeInv, TypeInv', SeedsDrawn, Settled \/ Undecided,
           NewDatabase \/ (\E p \in Page : WritePage(p)) \/ Extend
    PROVE  FileKept
<1>1. InTransaction /\ UNCHANGED <<pc, committed>>
  BY WriteActions
<1> PICK p : \E size, new : Writes(p, size, new) /\ PagerWritten(p, size, new)
  BY WriteActions
<1> PICK size : \E new : Writes(p, size, new) /\ PagerWritten(p, size, new)
  OBVIOUS
<1> PICK new : Writes(p, size, new) /\ PagerWritten(p, size, new)
  OBVIOUS
<1>2. disk'["db"] = disk["db"]
  BY WritesAre, DbAfterWrite
<1>3. media' = media
  BY DEF NewDatabase, WritePage, Extend
<1>4. pager'.eState = IF pager.eState = "LOCKED" THEN "CACHEMOD" ELSE pager.eState
  BY WithJournalIs DEF PagerWritten, Starts
<1>. QED
  BY <1>1, <1>2, <1>3, <1>4 DEF FileKept, AtEnd, InTransaction

LEMMA CommitFile ==
    ASSUME TypeInv, TypeInv', SeedsDrawn, Undecided, Commit
    PROVE  FileKept
<1>1. /\ pager.eState \in {"CACHEMOD", "DBMOD"} /\ media' = media /\ committed' = committed
      /\ pc' = Running("commit", "nextHdr")
  BY DEF Commit, ghosts
<1>2. ~AtEnd'
  BY <1>1 DEF AtEnd, Running, Idle
<1>3. disk'["db"] = disk["db"] /\ pager'.eState = pager.eState
  <2>1. CASE pager.changeCountDone
    BY <2>1 DEF Commit
  <2>2. CASE ~pager.changeCountDone
    <3>1. PagerWrite(1, Size, {}, TRUE)
      BY <2>2 DEF Commit
    <3>2. Size \in 1 .. NPages /\ 1 \in Page
      <4>1. Size \in 0 .. NPages /\ Size # 0
        BY <1>1, BegunSees DEF Undecided, Made
      <4>. QED
        BY <4>1, NPagesIsPositive DEF Page
    <3>3. PagerWritten(1, Size, {})
      BY <3>1, <3>2, PagerWriteDoes
    <3>. QED
      BY <1>1, <3>2, <3>3, DbAfterWrite, WithJournalIs DEF PagerWritten, Starts
  <2>. QED
    BY <2>1, <2>2
<1>. QED
  BY <1>1, <1>2, <1>3 DEF FileKept

LEMMA SyncingFile ==
    ASSUME TypeInv, SeedsDrawn, pager.journalOff # 0, Undecided \/ Committing,
           NextHeader \/ SyncRecords \/ CountRecords \/ SyncHeader
    PROVE  FileKept \/ PageWrites
<1>1. disk'["db"] = disk["db"] /\ committed' = committed
  BY SyncingWrites
<1>2. CASE NextHeader \/ SyncRecords \/ CountRecords
  <2>1. pager' = pager /\ \E at \in Syncing : pc' = [pc EXCEPT !.at = at]
    BY <1>2 DEF NextHeader, SyncRecords, CountRecords, Goes, Syncing
  <2>2. ~AtEnd'
    BY <2>1, InvTyped DEF Places, Syncing, AtEnd
  <2>3. media'["db"] = media["db"]
    BY <1>2, SyncDoes DEF NextHeader, SyncRecords, CountRecords
  <2>. QED
    BY <1>1, <2>1, <2>2, <2>3 DEF FileKept
<1>3. CASE SyncHeader
  BY <1>3, SyncHeaderDoes DEF PageWrites, AtEnd
<1>. QED
  BY <1>2, <1>3

LEMMA PagesFile ==
    /\ TypeInv /\ SeedsDrawn /\ Undecided /\ SpillPage => PageWrites
    /\ TypeInv /\ SeedsDrawn /\ Committing /\ (CommitPage \/ CommitPagesDone) => PageWrites
<1>1. ASSUME TypeInv, SeedsDrawn, Undecided, SpillPage PROVE PageWrites
  <2>1. pager.eState = "DBMOD"
    BY <1>1 DEF SpillPage, Undecided, UndecidedAt, IsIdle, Idle, Syncing
  <2>2. pager' = [pager EXCEPT !.dirty = @ \ {pc.page}] /\ pc' = Idle
    BY <1>1 DEF SpillPage
  <2>. QED
    BY <1>1, <2>1, <2>2, InvTyped DEF PageWrites, AtEnd, Idle, Pagers
<1>2. ASSUME TypeInv, SeedsDrawn, Committing, CommitPage PROVE PageWrites
  <2>1. pager.eState = "DBMOD" /\ pc.at = "pages" /\ pc' = pc
    BY <1>2 DEF CommitPage, Committing, CommittingAt, Syncing
  <2>2. pager'.eState = pager.eState
    BY <1>2, InvTyped DEF CommitPage, Pagers
  <2>. QED
    BY <2>1, <2>2 DEF PageWrites, AtEnd
<1>3. ASSUME TypeInv, SeedsDrawn, Committing, CommitPagesDone PROVE PageWrites
  <2>1. pager.eState = "DBMOD" /\ pager' = pager /\ pc' = [pc EXCEPT !.at = "syncDb"]
    BY <1>3 DEF CommitPagesDone, Goes, Committing, CommittingAt, Syncing
  <2>. QED
    BY <1>3, <2>1, InvTyped DEF PageWrites, AtEnd, Places
<1>. QED
  BY <1>1, <1>2, <1>3

LEMMA EndFile ==
    ASSUME TypeInv, SeedsDrawn, Committing \/ RolledBack, ZeroHeader \/ EndTransaction
    PROVE  FileKept
<1>1. CASE ZeroHeader
  <2>1. /\ disk'["db"] = disk["db"] /\ pager' = pager /\ pc.at = "zero"
        /\ committed' = IF pc.op = "commit" THEN View ELSE committed
    BY <1>1, ZeroHeaderDoes
  <2>2. media' = media
    BY <1>1 DEF ZeroHeader
  <2>3. pc.op = "commit" => pager.eState = "FINISHED"
    BY <2>1 DEF Committing, CommittingAt, RolledBack, Syncing
  <2>. QED
    BY <2>1, <2>2, <2>3 DEF FileKept, AtEnd
<1>2. CASE EndTransaction
  <2>1. AtEnd /\ disk' = disk /\ media'["db"] = media["db"]
    BY <1>2, SyncDoes DEF EndTransaction, AtEnd
  <2>2. pager'.eState = "READER"
    BY <1>2, InvTyped DEF EndTransaction, Pagers
  <2>. QED
    BY <2>1, <2>2 DEF FileKept
<1>. QED
  BY <1>1, <1>2

LEMMA RollbackFile == TypeInv /\ Rollback => FileKept
<1> SUFFICES ASSUME TypeInv, Rollback PROVE FileKept
  OBVIOUS
<1>1. UNCHANGED <<disk, media, committed>> /\ pc' = Running("rollback", "hdr")
      /\ pager' = [pager EXCEPT !.journalOff = 0] /\ pager.eState \in {"CACHEMOD", "DBMOD"}
  BY DEF Rollback, ghosts
<1>2. ~AtEnd' /\ pager'.eState = pager.eState
  BY <1>1, InvTyped DEF AtEnd, Running, Idle, Pagers
<1>. QED
  BY <1>1, <1>2 DEF FileKept

LEMMA PlaybackFile ==
    ASSUME TypeInv, RollingBack,
           PlayHeader \/ PlayRecord \/ SkipRecord \/ RefuseRecord \/ SegmentPlayed
    PROVE  FileKept \/ PageWrites
<1>1. /\ pc.at \in {"hdr", "rec"} /\ pager.eState \in {"CACHEMOD", "DBMOD"}
      /\ media' = media /\ committed' = committed
  BY DEF RollingBack, PlayHeader, PlayRecord, SkipRecord, RefuseRecord, SegmentPlayed, ghosts
<1>2. pager'.eState = pager.eState
  BY InvTyped DEF PlayHeader, PlayRecord, SkipRecord, RefuseRecord, SegmentPlayed, PlaybackEnds,
     Pagers
<1>3. ASSUME PlaybackEnds PROVE AtEnd' => pager.eState # "DBMOD"
  <2>1. pc'.at = IF FileMayDiffer THEN "syncDb" ELSE "zero"
    BY <1>3, InvTyped DEF PlaybackEnds, Places
  <2>. QED
    BY <2>1 DEF FileMayDiffer, AtEnd
<1>4. AtEnd' => pager.eState # "DBMOD"
  <2>1. CASE PlaybackEnds
    BY <1>3, <2>1
  <2>2. CASE ~PlaybackEnds
    <3>1. pc'.at \in {"hdr", "rec"}
      BY <1>1, <2>2, InvTyped DEF PlayHeader, PlayRecord, SkipRecord, RefuseRecord, SegmentPlayed,
         Goes, Places
    <3>. QED
      BY <3>1 DEF AtEnd
  <2>. QED
    BY <2>1, <2>2
<1>5. disk' = disk \/ pager.eState = "DBMOD"
  BY <1>1 DEF PlayHeader, PlayRecord, SkipRecord, RefuseRecord, SegmentPlayed, GoesToFile,
     FileMayDiffer
<1>. QED
  BY <1>1, <1>2, <1>4, <1>5 DEF FileKept, PageWrites

LEMMA FileSteps == Inv /\ Next => FileKept \/ PageWrites \/ SyncDb
<1> SUFFICES ASSUME Inv, Next PROVE FileKept \/ PageWrites \/ SyncDb
  OBVIOUS
<1>1. TypeInv /\ TypeInv' /\ SeedsDrawn /\ Phase
  BY NextTyped DEF Inv
<1>2. CASE Settled
  BY <1>1, <1>2, SettledActs, OpenFile, CloseFile, CacheFile, WriteFile
<1>3. CASE Undecided
  <2>1. pager.journalOff # 0
    BY <1>1, <1>3, UndecidedJournalOff
  <2>. QED
    BY <1>1, <1>3, <2>1, UndecidedActs, WriteFile, CacheFile, CommitFile, RollbackFile,
       SyncingFile, PagesFile
<1>4. CASE Committing
  <2>1. pager.journalOff # 0
    BY <1>4 DEF Committing, CommittingAt
  <2>. QED
    BY <1>1, <1>4, <2>1, CommittingActs, SyncingFile, PagesFile, EndFile
<1>5. CASE RollingBack
  BY <1>1, <1>5, RollingBackActs, PlaybackFile
<1>6. CASE RolledBack
  BY <1>1, <1>6, RolledBackActs, EndFile
<1>. QED
  BY <1>1, <1>2, <1>3, <1>4, <1>5, <1>6 DEF Phase

LEMMA FileInvKept == Inv /\ FileInv /\ [Next]_vars => FileInv'
<1> SUFFICES ASSUME Inv, FileInv, [Next]_vars PROVE FileInv'
  OBVIOUS
<1>1. CASE UNCHANGED vars
  BY <1>1 DEF vars, FileInv, FileSynced, FileUntouched, AtEnd
<1>2. CASE FileKept
  <2>1. FileSynced'
    BY <1>2 DEF FileKept, FileInv, FileSynced
  <2>2. FileUntouched'
    <3> SUFFICES ASSUME pager'.eState = "CACHEMOD", NEW p \in OldPages(committed)
                 PROVE  Untouched(committed, disk["db"], p)
      BY <1>2 DEF FileKept, FileUntouched
    <3>1. CASE pager.eState = "CACHEMOD"
      BY <3>1 DEF FileInv, FileUntouched
    <3>2. CASE pager.eState = "LOCKED"
      BY <3>2 DEF Inv, Phase, Settled, SettledPages, AllRestored, Restored, Undecided,
         UndecidedAt, Committing, CommittingAt, RollingBack, RolledBack
    <3>. QED
      BY <1>2, <3>1, <3>2 DEF FileKept
  <2>. QED
    BY <2>1, <2>2 DEF FileInv
<1>3. CASE PageWrites
  BY <1>3 DEF PageWrites, FileInv, FileSynced, FileUntouched
<1>4. CASE SyncDb
  <2>1. disk' = disk /\ media'["db"] = disk["db"] /\ committed' = committed
    BY <1>4, SyncDoes DEF SyncDb, Inv, ghosts
  <2>2. pager'.eState \in {pager.eState, "FINISHED"}
    BY <1>4, InvTyped DEF SyncDb, Inv, Pagers
  <2>. QED
    BY <2>1, <2>2 DEF FileInv, FileSynced, FileUntouched
<1>. QED
  BY <1>1, <1>2, <1>3, <1>4, FileSteps

LEMMA SeenInIs ==
    ASSUME NEW com \in Seq(Versions), NEW db \in Databases, com # << >>,
           \A p \in OldPages(com) : Untouched(com, db, p)
    PROVE  SeenIn(db) = com
<1>1. Len(com) \in Nat /\ Len(com) >= 1 /\ Len(db) \in Nat /\ Len(db) <= NPages
  BY DEF Databases
<1>2. \A p \in OldPages(com) : p <= Len(db) /\ p \in 1 .. Len(db)
  BY <1>1 DEF Untouched, OldPages
<1>3. Len(com) <= Len(db) /\ Len(com) <= NPages
  BY <1>1, <1>2, NPagesIsPositive DEF OldPages
<1>4. ContentOf(At(db, 1)).size = Len(com)
  <2>1. 1 \in OldPages(com) /\ At(db, 1) = db[1]
    BY <1>1, <1>2 DEF OldPages, At
  <2>. QED
    BY <1>1, <1>3, <2>1, OldIs DEF Untouched
<1>5. \A p \in 1 .. Len(com) : ContentOf(db[p]).by = com[p]
  BY <1>1, <1>3, OldIs DEF OldPages, Untouched
<1>6. [p \in 1 .. Len(com) |-> ContentOf(db[p]).by] = com
  BY <1>5, LenProperties
<1>. QED
  BY <1>1, <1>3, <1>4, <1>6 DEF SeenIn, IsSize

LEMMA FileIsDurable == Inv /\ FileInv => DurableUnlessNew
<1> SUFFICES ASSUME Inv, FileInv, committed # << >>, pager.eState \notin {"DBMOD", "FINISHED"}
             PROVE  SeenIn(media["db"]) = committed
  BY DEF DurableUnlessNew, IdleIsDurable
<1>1. TypeInv /\ media["db"] = disk["db"]
  BY DEF Inv, FileInv, FileSynced
<1>2. \A p \in OldPages(committed) : Untouched(committed, disk["db"], p)
  <2>1. CASE pager.eState = "CACHEMOD"
    BY <2>1 DEF FileInv, FileUntouched
  <2>2. CASE pager.eState # "CACHEMOD"
    BY <2>2 DEF Inv, Phase, Settled, SettledPages, AllRestored, Restored, Undecided,
       UndecidedAt, Committing, CommittingAt, RollingBack, RolledBack, Syncing
  <2>. QED
    BY <2>1, <2>2
<1>. QED
  BY <1>1, <1>2, InvTyped, SeenInIs

\* Outside of a transaction that has reached the file, what was committed is in
\* the file, synced, and needs no journal to survive: pages reach the file after
\* the records of the old ones are synced, and the journal is finished after the
\* file is.
THEOREM CommittedIsDurable == Spec => []DurableUnlessNew
<1>1. Init => FileInv
  BY DEF Init, FileInv, FileSynced, FileUntouched, ClosedPager
<1>2. Spec => []FileInv
  BY <1>1, InvHolds, FileInvKept, PTL DEF Spec
<1>. QED
  BY <1>2, InvHolds, FileIsDurable, PTL

\* As long as the power stays on, a database that has pages is what was committed
\* whenever no transaction is open: the records of older transactions that a
\* rollback finds in the journal have older seeds.
THEOREM RollbacksRestore == Spec => [](committed # << >> => RollbackRestores)
<1>1. Inv => (committed # << >> => RollbackRestores)
  <2> SUFFICES ASSUME Inv, committed # << >>, pager.eState = "READER" PROVE View = committed
    BY DEF RollbackRestores
  <2>1. TypeInv /\ Settled
    BY DEF Inv, Phase, Undecided, UndecidedAt, Committing, CommittingAt, RollingBack, RolledBack
  <2>. QED
    BY <2>1, SettledSees
<1>. QED
  BY <1>1, InvHolds, PTL
=============================================================================
