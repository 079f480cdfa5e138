--------------------------- MODULE Journal_proof ---------------------------
(***************************************************************************)
(* Transactions of one connection, without a loss of power, for every      *)
(* number of pages and of transactions: the types, and the invariant that  *)
(* Atomic_proof rests on, kept from the start to the commit.               *)
(***************************************************************************)
EXTENDS Journal, SequenceTheorems, FiniteSetTheorems, TLAPS

-----------------------------------------------------------------------------
(* Cells *)

IsCksum(c) == DOMAIN c = {"cksum"}

\* What each cell of a journal is, and what it is not.
LEMMA ZeroIs ==
    /\ ZeroCell \in JournalCell
    /\ ~IsMagic(ZeroCell) /\ ~IsNonce(ZeroCell) /\ ~IsPgno(ZeroCell)
    /\ ~IsPage(ZeroCell) /\ ~IsCksum(ZeroCell)
BY DEF ZeroCell, JournalCell, IsMagic, IsNonce, IsPgno, IsPage, IsCksum

LEMMA MagicIs ==
    ASSUME NEW n \in 0 .. NPages
    PROVE  /\ Magic(n) \in JournalCell
           /\ IsMagic(Magic(n)) /\ Magic(n).magic = n
           /\ ~IsPgno(Magic(n)) /\ ~IsCksum(Magic(n))
BY DEF Magic, JournalCell, IsMagic, IsPgno, IsCksum

LEMMA NonceIs ==
    ASSUME NEW r \in Nat, NEW s \in 0 .. NPages
    PROVE  /\ Nonce(r, s) \in JournalCell
           /\ IsNonce(Nonce(r, s)) /\ Nonce(r, s).nonce = r /\ Nonce(r, s).origSize = s
           /\ ~IsCksum(Nonce(r, s))
BY DEF Nonce, JournalCell, IsNonce, IsCksum

LEMMA PgnoIs ==
    ASSUME NEW p \in Page
    PROVE  /\ Pgno(p) \in JournalCell
           /\ IsPgno(Pgno(p)) /\ Pgno(p).pgno = p /\ Pgno(p) # ZeroCell
           /\ ~IsCksum(Pgno(p))
BY DEF Pgno, JournalCell, IsPgno, IsCksum, ZeroCell

LEMMA PageCellIs ==
    ASSUME NEW c \in Content
    PROVE  /\ PageCell(c) \in JournalCell
           /\ IsPage(PageCell(c)) /\ PageCell(c).page = c /\ ContentOf(PageCell(c)) = c
           /\ ~IsCksum(PageCell(c))
           /\ PageCell(c) \in [page : Content]
BY DEF PageCell, JournalCell, IsPage, IsCksum, ContentOf

LEMMA CksumIs ==
    ASSUME NEW r \in Nat, NEW c \in Content
    PROVE  /\ Cksum(r, c) \in JournalCell
           /\ IsCksum(Cksum(r, c)) /\ Cksum(r, c).cksum[1] = r
BY DEF Cksum, JournalCell, IsCksum

\* And what can be read from a cell.
LEMMA CellsHold ==
    ASSUME NEW c \in JournalCell
    PROVE  /\ IsMagic(c) => c.magic \in 0 .. NPages
           /\ IsNonce(c) => c.nonce \in Nat /\ c.origSize \in 0 .. NPages
           /\ IsPgno(c) => c.pgno \in Page /\ c = Pgno(c.pgno)
           /\ IsPage(c) => c.page \in Content /\ c = PageCell(c.page) /\ c \in [page : Content]
           /\ IsCksum(c) => c.cksum[1] \in Nat
BY DEF JournalCell, IsMagic, IsNonce, IsPgno, IsPage, IsCksum, Pgno, PageCell, ZeroCell

DbCell == [page : Content] \cup {ZeroCell}

LEMMA BlankIs == Blank \in Content /\ ContentOf(ZeroCell) = Blank /\ Blank.size = 0
BY NPagesIsPositive, ZeroIs DEF Blank, Content, ContentOf

LEMMA DbCellsHold ==
    ASSUME NEW c \in DbCell
    PROVE  c \in JournalCell /\ ContentOf(c) \in Content
BY ZeroIs, BlankIs DEF DbCell, JournalCell, ContentOf, IsPage

LEMMA WrittenIsContent ==
    ASSUME NEW v \in Version \cup {Nobody}, NEW p \in Page, NEW s \in 0 .. NPages
    PROVE  /\ WrittenBy(v, p, s) \in Content
           /\ WrittenBy(v, p, s).by = v
           /\ WrittenBy(v, p, s).size = IF p = 1 THEN s ELSE 0
BY NPagesIsPositive DEF WrittenBy, Content

-----------------------------------------------------------------------------
(* Contents *)

LEMMA CellAt ==
    ASSUME NEW S, ZeroCell \in S, NEW c \in Seq(S), NEW i
    PROVE  At(c, i) \in S
BY ElementOfSeq DEF At

Longer(m, n) == IF m > n THEN m ELSE n

\* A write keeps what it does not reach.
LEMMA WrittenIs ==
    ASSUME NEW S, ZeroCell \in S, NEW c \in Seq(S), NEW off \in Nat, NEW cells \in Seq(S)
    PROVE  /\ Written(c, off, cells) \in Seq(S)
           /\ Len(Written(c, off, cells)) = Longer(Len(c), off + Len(cells))
           /\ \A i \in 1 .. Len(Written(c, off, cells)) :
                 Written(c, off, cells)[i] =
                    IF i \in off + 1 .. off + Len(cells) THEN cells[i - off] ELSE At(c, i)
<1> DEFINE n == Longer(Len(c), off + Len(cells))
           v(i) == IF i \in off + 1 .. off + Len(cells) THEN cells[i - off] ELSE At(c, i)
<1>1. Len(c) \in Nat /\ Len(cells) \in Nat
  OBVIOUS
<1>2. n \in Nat
  BY <1>1 DEF Longer
<1>3. ASSUME NEW i \in 1 .. n PROVE v(i) \in S
  <2>1. CASE i \in off + 1 .. off + Len(cells)
    <3>1. i - off \in 1 .. Len(cells)
      BY <1>1, <2>1
    <3>. QED
      BY <3>1, <2>1, ElementOfSeq
  <2>2. CASE i \notin off + 1 .. off + Len(cells)
    BY <2>2, CellAt
  <2>. QED
    BY <2>1, <2>2
<1>4. Written(c, off, cells) = [i \in 1 .. n |-> v(i)]
  BY DEF Written, Longer
<1> HIDE DEF n, v
<1>5. [i \in 1 .. n |-> v(i)] \in Seq(S) /\ Len([i \in 1 .. n |-> v(i)]) = n
  <2>1. [i \in 1 .. n |-> v(i)] \in Seq(S)
    BY <1>2, <1>3, IsASeq
  <2>2. DOMAIN [i \in 1 .. n |-> v(i)] = 1 .. Len([i \in 1 .. n |-> v(i)])
    BY <2>1, LenProperties
  <2>. QED
    BY <2>1, <2>2, <1>2, LenProperties
<1>6. \A i \in 1 .. n : Written(c, off, cells)[i] = v(i)
  BY <1>4
<1>. QED
  BY <1>4, <1>5, <1>6 DEF n, v

-----------------------------------------------------------------------------
(* Types.  A record counts a page that the journal has not had before, so  *)
(* that there are at most as many as pages.                                *)

FilesOK ==
    /\ StoreTypeOK
    /\ disk["db"] \in Seq(DbCell)
    /\ Len(disk["db"]) <= NPages

States == {"CLOSED", "OPEN", "READER", "LOCKED", "CACHEMOD", "DBMOD", "FINISHED"}

Pagers ==
    [eState : States, jfd : BOOLEAN, journalOff : Nat, journalHdr : Nat,
     nRec : 0 .. NPages, cksumInit : Nat, changeCountDone : BOOLEAN,
     dbSize : 0 .. NPages, dbOrigSize : 0 .. NPages,
     inJournal : SUBSET Page, dirty : SUBSET Page, needSync : SUBSET Page]

PagerOK ==
    /\ pager \in Pagers
    /\ pager.dirty \subseteq DOMAIN cache
    /\ pager.nRec <= Cardinality(pager.inJournal)

CacheOK == DOMAIN cache \subseteq Page /\ cache \in [DOMAIN cache -> Content]

Places ==
    [op : {"none", "spill", "commit", "rollback", "again", "recover"},
     at : {"none", "nextHdr", "syncRecords", "nRec", "syncHdr", "pages",
           "syncDb", "hdr", "rec", "zero", "syncZero"},
     page : Page \cup {0}, left : Nat]

PcOK == pc \in Places /\ (pc.op = "spill" => pc.page \in DOMAIN cache)

CountersOK ==
    /\ prng \in Nat
    /\ committed \in Seq(Version \cup {Nobody}) /\ previous \in Seq(Version \cup {Nobody})
    /\ tx \in 0 .. MaxTx
    /\ crashes \in 0 .. MaxCrash

TypeInv == FilesOK /\ PagerOK /\ CacheOK /\ PcOK /\ CountersOK

LEMMA TypeInvTypes == TypeInv => TypeOK
BY DEF TypeInv, TypeOK, FilesOK, PagerOK, CacheOK, PcOK, CountersOK, DbCell, Pagers,
       Places, States

LEMMA JournalTyped == FilesOK => JournalContent \in Seq(JournalCell)
BY DEF FilesOK, StoreTypeOK, JournalContent, Exists

\* The two ways to write.
LEMMA DiskWithJournal ==
    ASSUME FilesOK, NEW c \in Seq(JournalCell), disk' = [disk EXCEPT !["journal"] = c]
    PROVE  /\ disk'["db"] = disk["db"] /\ JournalContent' = c
           /\ disk' \in [{"db", "journal"} -> {NoFile} \cup Seq(JournalCell)]
BY NoFileIsNoContent DEF FilesOK, StoreTypeOK, JournalContent, Exists

LEMMA DbCellsAreCells == \A c \in Seq(DbCell) : c \in Seq(JournalCell)
BY DbCellsHold, SeqMonotonic DEF DbCell

LEMMA DiskWithDb ==
    ASSUME FilesOK, NEW c \in Seq(DbCell), disk' = [disk EXCEPT !["db"] = c]
    PROVE  /\ disk'["db"] = c /\ JournalContent' = JournalContent
           /\ disk' \in [{"db", "journal"} -> {NoFile} \cup Seq(JournalCell)]
BY DbCellsAreCells DEF FilesOK, StoreTypeOK, JournalContent, Exists

LEMMA DbSizeTyped == TypeInv => DbSize \in 0 .. NPages
BY NPagesIsPositive DEF TypeInv, FilesOK, PagerOK, Pagers, DbSize

LEMMA FetchedTyped == TypeInv => \A p : Fetched(p) \in Content
<1> SUFFICES ASSUME TypeInv, NEW p PROVE Fetched(p) \in Content
  OBVIOUS
<1>1. At(disk["db"], p) \in DbCell
  BY CellAt DEF TypeInv, FilesOK, DbCell
<1>. QED
  BY <1>1, DbCellsHold, BlankIs DEF Fetched, TypeInv, CacheOK

LEMMA SizeTyped == TypeInv => Size \in 0 .. NPages
BY FetchedTyped DEF Size, Content

LEMMA ViewTyped == TypeInv => View \in Seq(Version \cup {Nobody})
<1> SUFFICES ASSUME TypeInv PROVE View \in Seq(Version \cup {Nobody})
  OBVIOUS
<1>1. CASE IsDatabase
  <2>1. \A p \in 1 .. Size : Fetched(p).by \in Version \cup {Nobody}
    BY FetchedTyped DEF Content
  <2>2. [p \in 1 .. Size |-> Fetched(p).by] \in Seq(Version \cup {Nobody})
    BY <2>1, SizeTyped, IsASeq
  <2>. QED
    BY <1>1, <2>2 DEF View
<1>2. CASE ~IsDatabase
  BY <1>2 DEF View, NotADatabase
<1>. QED
  BY <1>1, <1>2

-----------------------------------------------------------------------------
(* What pager_write does *)

Starts == pager.eState = "LOCKED"

IsRecorded(p) == p \notin pager.inJournal /\ p <= pager.dbOrigSize

LEMMA WithJournalIs ==
    ASSUME TypeInv
    PROVE  /\ WithJournal \in Pagers
           /\ WithJournal.eState = IF Starts THEN "CACHEMOD" ELSE pager.eState
           /\ WithJournal.nRec = IF Starts THEN 0 ELSE pager.nRec
           /\ WithJournal.journalHdr = IF Starts THEN 0 ELSE pager.journalHdr
           /\ WithJournal.journalOff = IF Starts THEN 2 ELSE pager.journalOff
           /\ WithJournal.cksumInit = IF Starts THEN prng + 1 ELSE pager.cksumInit
           /\ WithJournal.dbSize = pager.dbSize
           /\ WithJournal.dbOrigSize = pager.dbOrigSize
           /\ WithJournal.inJournal = pager.inJournal
           /\ WithJournal.dirty = pager.dirty
           /\ WithJournal.needSync = pager.needSync
<1>1. pager \in Pagers /\ prng + 1 \in Nat /\ 0 \in 0 .. NPages
  BY NPagesIsPositive DEF TypeInv, PagerOK, CountersOK
<1>2. CASE Starts
  <2>1. WithJournal =
          [pager EXCEPT !.eState = "CACHEMOD", !.jfd = TRUE, !.nRec = 0, !.journalHdr = 0,
                        !.journalOff = 2, !.cksumInit = prng + 1]
    BY <1>2 DEF WithJournal, Starts, HdrSize, NextSeed
  <2>. QED
    BY <1>1, <1>2, <2>1 DEF Pagers, States
<1>3. CASE ~Starts
  BY <1>1, <1>3 DEF WithJournal, Starts
<1>. QED
  BY <1>2, <1>3

\* The cells that a write of page p adds to the journal.
LEMMA HeaderCells ==
    ASSUME TypeInv
    PROVE  /\ FirstHeader \in Seq(JournalCell)
           /\ Starts => /\ Len(FirstHeader) = 2
                        /\ FirstHeader[1] = ZeroCell
                        /\ FirstHeader[2] = Nonce(prng + 1, pager.dbOrigSize)
           /\ ~Starts => FirstHeader = << >>
<1>1. prng + 1 \in Nat /\ pager.dbOrigSize \in 0 .. NPages
  BY DEF TypeInv, CountersOK, PagerOK, Pagers
<1>2. Nonce(prng + 1, pager.dbOrigSize) \in JournalCell
  BY <1>1, NonceIs
<1>. QED
  BY <1>2, ZeroIs DEF FirstHeader, Header, NextSeed, Starts

LEMMA RecordCells ==
    ASSUME TypeInv, NEW p \in Page, p \in DOMAIN cache, NEW r \in Nat
    PROVE  /\ RecordOf(p, r) \in Seq(JournalCell)
           /\ IsRecorded(p) => RecordOf(p, r) = <<Pgno(p), PageCell(cache[p]), Cksum(r, cache[p])>>
           /\ ~IsRecorded(p) => RecordOf(p, r) = << >>
<1>1. cache[p] \in Content
  BY DEF TypeInv, CacheOK
<1>2. /\ Pgno(p) \in JournalCell /\ PageCell(cache[p]) \in JournalCell
      /\ Cksum(r, cache[p]) \in JournalCell
  BY <1>1, PgnoIs, PageCellIs, CksumIs
<1>3. p \in Nat /\ pager.dbOrigSize \in Nat
  BY DEF Page, TypeInv, PagerOK, Pagers
<1>4. IsRecorded(p) <=> ~(p \in pager.inJournal \/ p > pager.dbOrigSize)
  BY <1>3 DEF IsRecorded
<1>. QED
  BY <1>2, <1>4 DEF RecordOf

LEMMA JournalWritten ==
    ASSUME NEW c \in Seq(JournalCell), NEW off \in Nat, NEW cells \in Seq(JournalCell)
    PROVE  /\ Written(c, off, cells) \in Seq(JournalCell)
           /\ Len(Written(c, off, cells)) = Longer(Len(c), off + Len(cells))
           /\ \A i \in 1 .. Len(Written(c, off, cells)) :
                 Written(c, off, cells)[i] =
                    IF i \in off + 1 .. off + Len(cells) THEN cells[i - off] ELSE At(c, i)
<1>1. ZeroCell \in JournalCell
  BY ZeroIs
<1>. QED
  BY <1>1, WrittenIs

LEMMA DbCellsWritten ==
    ASSUME NEW c \in Seq(DbCell), NEW off \in Nat, NEW cells \in Seq(DbCell)
    PROVE  /\ Written(c, off, cells) \in Seq(DbCell)
           /\ Len(Written(c, off, cells)) = Longer(Len(c), off + Len(cells))
           /\ \A i \in 1 .. Len(Written(c, off, cells)) :
                 Written(c, off, cells)[i] =
                    IF i \in off + 1 .. off + Len(cells) THEN cells[i - off] ELSE At(c, i)
<1>1. ZeroCell \in DbCell
  BY DEF DbCell
<1>. QED
  BY <1>1, WrittenIs

LEMMA DbWritten ==
    ASSUME NEW c \in Seq(DbCell), NEW p \in Page, NEW cell \in DbCell
    PROVE  /\ Written(c, p - 1, <<cell>>) \in Seq(DbCell)
           /\ Len(Written(c, p - 1, <<cell>>)) = Longer(Len(c), p)
           /\ \A i \in 1 .. Len(Written(c, p - 1, <<cell>>)) :
                 Written(c, p - 1, <<cell>>)[i] = IF i = p THEN cell ELSE At(c, i)
<1>1. p - 1 \in Nat /\ <<cell>> \in Seq(DbCell)
  BY NPagesIsPositive DEF Page
<1> PICK off \in Nat : off = p - 1
  BY <1>1
<1> PICK cells \in Seq(DbCell) : cells = <<cell>>
  BY <1>1
<1>2. Len(cells) = 1 /\ cells[1] = cell /\ off + Len(cells) = p /\ p \in Nat
  BY NPagesIsPositive DEF Page
<1>3. /\ Written(c, off, cells) \in Seq(DbCell)
      /\ Len(Written(c, off, cells)) = Longer(Len(c), off + Len(cells))
      /\ \A i \in 1 .. Len(Written(c, off, cells)) :
            Written(c, off, cells)[i] =
               IF i \in off + 1 .. off + Len(cells) THEN cells[i - off] ELSE At(c, i)
  BY ONLY DbCellsWritten, c \in Seq(DbCell), off \in Nat, cells \in Seq(DbCell)
<1>4. \A i \in 1 .. Len(Written(c, off, cells)) :
         Written(c, off, cells)[i] = IF i = p THEN cell ELSE At(c, i)
  <2> TAKE i \in 1 .. Len(Written(c, off, cells))
  <2>1. i \in off + 1 .. off + Len(cells) <=> i = p
    BY <1>2, <1>3
  <2>2. i = p => i - off = 1
    BY <1>2
  <2>. QED
    BY <1>2, <1>3, <2>1, <2>2
<1>. QED
  BY <1>2, <1>3, <1>4

\* Where the record goes.
RecordOff == WithJournal.journalOff

LEMMA CellsWritten ==
    ASSUME TypeInv, NEW p \in Page, p \in DOMAIN cache,
           Starts \/ IsRecorded(p),
           WriteJournal(WithJournal.journalOff - Len(FirstHeader),
                        FirstHeader \o RecordOf(p, WithJournal.cksumInit))
    PROVE  /\ disk'["db"] = disk["db"]
           /\ disk' \in [{"db", "journal"} -> {NoFile} \cup Seq(JournalCell)]
           /\ JournalContent' \in Seq(JournalCell)
           /\ Len(JournalContent') = Longer(Len(JournalContent),
                                            RecordOff + (IF IsRecorded(p) THEN 3 ELSE 0))
           /\ Starts => /\ JournalContent'[1] = ZeroCell
                        /\ JournalContent'[2] = Nonce(prng + 1, pager.dbOrigSize)
           /\ IsRecorded(p) =>
                 /\ JournalContent'[RecordOff + 1] = Pgno(p)
                 /\ JournalContent'[RecordOff + 2] = PageCell(cache[p])
                 /\ JournalContent'[RecordOff + 3] = Cksum(WithJournal.cksumInit, cache[p])
           /\ \A i \in 1 .. Len(JournalContent') :
                 (Starts => i > 2) /\ (IsRecorded(p) => i \notin RecordOff + 1 .. RecordOff + 3)
                 => JournalContent'[i] = At(JournalContent, i)
<1> PICK j : j = JournalContent
  OBVIOUS
<1> PICK h : h = FirstHeader
  OBVIOUS
<1> PICK seed : seed = WithJournal.cksumInit
  OBVIOUS
<1> PICK r : r = RecordOf(p, seed)
  OBVIOUS
<1> PICK off : off = RecordOff
  OBVIOUS
<1>1. seed \in Nat /\ off \in Nat /\ (Starts => off = 2)
  BY WithJournalIs DEF RecordOff, Pagers
<1>2. /\ h \in Seq(JournalCell)
      /\ Starts => /\ Len(h) = 2 /\ h[1] = ZeroCell
                   /\ h[2] = Nonce(prng + 1, pager.dbOrigSize)
      /\ ~Starts => h = << >>
  BY HeaderCells
<1>3. /\ r \in Seq(JournalCell)
      /\ IsRecorded(p) => r = <<Pgno(p), PageCell(cache[p]), Cksum(seed, cache[p])>>
      /\ ~IsRecorded(p) => r = << >>
  BY <1>1, RecordCells
<1>4. /\ IsRecorded(p) => /\ Len(r) = 3 /\ r[1] = Pgno(p)
                          /\ r[2] = PageCell(cache[p]) /\ r[3] = Cksum(seed, cache[p])
      /\ ~IsRecorded(p) => Len(r) = 0
  BY <1>3
<1>5. j \in Seq(JournalCell)
  BY JournalTyped DEF TypeInv
<1> DEFINE cells == h \o r
<1> DEFINE start == off - Len(h)
<1>6. /\ cells \in Seq(JournalCell) /\ Len(cells) = Len(h) + Len(r)
      /\ \A i \in 1 .. Len(cells) : cells[i] = IF i <= Len(h) THEN h[i] ELSE r[i - Len(h)]
  BY <1>2, <1>3, ConcatProperties
<1> HIDE DEF cells
<1>7. start \in Nat /\ start + Len(cells) = off + Len(r) /\ start + Len(h) = off
      /\ (Starts => start = 0)
  <2>1. Len(h) \in Nat /\ Len(r) \in Nat /\ Len(cells) = Len(h) + Len(r)
    BY <1>2, <1>3, <1>6
  <2>2. Starts => off = Len(h)
    BY <1>1, <1>2
  <2>3. ~Starts => Len(h) = 0
    BY <1>2
  <2>4. Len(h) <= off
    BY <2>1, <2>2, <2>3, <1>1
  <2>. QED
    BY <2>1, <2>2, <2>4, <1>1
<1>8. disk' = [disk EXCEPT !["journal"] = Written(j, start, cells)]
  BY DEF WriteJournal, RecordOff, cells
<1> HIDE DEF start
<1>9. /\ Written(j, start, cells) \in Seq(JournalCell)
      /\ Len(Written(j, start, cells)) = Longer(Len(j), start + Len(cells))
      /\ \A i \in 1 .. Len(Written(j, start, cells)) :
            Written(j, start, cells)[i] =
               IF i \in start + 1 .. start + Len(cells) THEN cells[i - start] ELSE At(j, i)
  BY <1>5, <1>6, <1>7, JournalWritten
<1> PICK new : new = Written(j, start, cells)
  OBVIOUS
<1>10. new \in Seq(JournalCell) /\ JournalContent' = new
       /\ disk'["db"] = disk["db"]
       /\ disk' \in [{"db", "journal"} -> {NoFile} \cup Seq(JournalCell)]
  BY <1>8, <1>9, DiskWithJournal DEF TypeInv
<1>11. Len(j) \in Nat /\ Len(h) \in Nat /\ Len(r) \in Nat /\ Len(new) \in Nat
  BY <1>2, <1>3, <1>5, <1>10
<1>12. Len(new) = Longer(Len(j), off + Len(r))
       /\ start + Len(cells) <= Len(new)
  BY <1>7, <1>9, <1>11, <1>1 DEF Longer
<1>13. \A i \in 1 .. Len(new) :
         /\ i \in start + 1 .. off => new[i] = h[i - start]
         /\ i \in off + 1 .. off + Len(r) => new[i] = r[i - off]
         /\ i \notin start + 1 .. off + Len(r) => new[i] = At(j, i)
  <2> TAKE i \in 1 .. Len(new)
  <2>1. ASSUME i \in start + 1 .. off + Len(r)
        PROVE  i - start \in 1 .. Len(cells) /\ new[i] = cells[i - start]
    BY <2>1, <1>7, <1>1, <1>6, <1>9, <1>11
  <2>2. ASSUME i \in start + 1 .. off PROVE new[i] = h[i - start]
    <3>1. i \in start + 1 .. off + Len(r) /\ i - start <= Len(h)
      BY <2>2, <1>7, <1>1, <1>11
    <3>. QED
      BY <3>1, <2>1, <1>6
  <2>3. ASSUME i \in off + 1 .. off + Len(r) PROVE new[i] = r[i - off]
    <3>1. i \in start + 1 .. off + Len(r) /\ ~(i - start <= Len(h))
          /\ (i - start) - Len(h) = i - off
      BY <2>3, <1>7, <1>1, <1>11
    <3>. QED
      BY <3>1, <2>1, <1>6
  <2>4. ASSUME i \notin start + 1 .. off + Len(r) PROVE new[i] = At(j, i)
    BY <2>4, <1>9, <1>7
  <2>. QED
    BY <2>2, <2>3, <2>4
<1>14. Starts => new[1] = ZeroCell /\ new[2] = Nonce(prng + 1, pager.dbOrigSize)
  <2> SUFFICES ASSUME Starts PROVE new[1] = ZeroCell /\ new[2] = h[2]
    BY <1>2
  <2>. QED
    <3>1. 1 \in 1 .. Len(new) /\ 2 \in 1 .. Len(new)
      BY <1>12, <1>11, <1>1 DEF Longer
    <3>2. 1 \in start + 1 .. off /\ 2 \in start + 1 .. off /\ 1 - start = 1 /\ 2 - start = 2
      BY <1>7, <1>1
    <3>. QED
      BY <3>1, <3>2, <1>13, <1>7, <1>2
<1>15. IsRecorded(p) => /\ new[off + 1] = Pgno(p)
                        /\ new[off + 2] = PageCell(cache[p])
                        /\ new[off + 3] = Cksum(seed, cache[p])
  <2> SUFFICES ASSUME IsRecorded(p)
               PROVE  new[off + 1] = r[1] /\ new[off + 2] = r[2] /\ new[off + 3] = r[3]
    BY <1>4
  <2>1. \A k \in 1 .. 3 : new[off + k] = r[k]
    <3> SUFFICES ASSUME NEW k \in 1 .. 3 PROVE new[off + k] = r[k]
      OBVIOUS
    <3>1. off + k \in 1 .. Len(new)
      BY <1>12, <1>11, <1>1, <1>4 DEF Longer
    <3>2. off + k \in off + 1 .. off + Len(r) /\ (off + k) - off = k
      BY <1>11, <1>1, <1>4
    <3>3. new[off + k] = r[(off + k) - off]
      BY <3>1, <3>2, <1>13
    <3>. QED
      BY <3>2, <3>3
  <2>. QED
    BY <2>1
<1>16. ASSUME NEW i \in 1 .. Len(new), Starts => i > 2,
              IsRecorded(p) => i \notin off + 1 .. off + 3
       PROVE  new[i] = At(j, i)
  <2>1. i \notin start + 1 .. off + Len(r)
    <3>1. CASE Starts
      <4>1. start = 0 /\ off = 2 /\ i > 2 /\ i \in Nat
        BY <3>1, <1>16, <1>7, <1>1, <1>11
      <4>2. CASE IsRecorded(p)
        <5>1. Len(r) = 3 /\ i \notin off + 1 .. off + 3
          BY <4>2, <1>16, <1>4
        <5>. QED
          BY <4>1, <5>1
      <4>3. CASE ~IsRecorded(p)
        <5>1. Len(r) = 0
          BY <4>3, <1>4
        <5>. QED
          BY <4>1, <5>1
      <4>. QED
        BY <4>2, <4>3
    <3>2. CASE ~Starts
      <4>1. start = off
        <5>1. Len(h) = 0
          BY <3>2, <1>2
        <5>. QED
          BY <5>1, <1>7
      <4>2. Len(r) = 3 /\ i \notin off + 1 .. off + 3
        BY <3>2, <1>16, <1>4
      <4>. QED
        BY <4>1, <4>2, <1>11, <1>1
    <3>. QED
      BY <3>1, <3>2
  <2>. QED
    BY <2>1, <1>13
<1>. QED
  BY <1>10, <1>12, <1>14, <1>15, <1>16, <1>4

\* The record itself, for IsRecorded(p).
RecordedIn(p) == IF IsRecorded(p) THEN {p} ELSE {}

PagerWritten(p, size, new) ==
    /\ p \in DOMAIN cache
    /\ IF Starts \/ IsRecorded(p)
       THEN WriteJournal(WithJournal.journalOff - Len(FirstHeader),
                         FirstHeader \o RecordOf(p, WithJournal.cksumInit))
       ELSE disk' = disk
    /\ pager' \in Pagers
    /\ pager'.eState = WithJournal.eState
    /\ pager'.journalOff = RecordOff + (IF IsRecorded(p) THEN 3 ELSE 0)
    /\ pager'.journalHdr = WithJournal.journalHdr
    /\ pager'.nRec = WithJournal.nRec + (IF IsRecorded(p) THEN 1 ELSE 0)
    /\ pager'.cksumInit = WithJournal.cksumInit
    /\ pager'.dbSize = (IF \A q \in {p} \cup new : q <= pager.dbSize
                        THEN pager.dbSize ELSE pager.dbSize + 1)
    /\ pager'.dbOrigSize = pager.dbOrigSize
    /\ pager'.inJournal = pager.inJournal \cup RecordedIn(p)
                            \cup {q \in new : q <= pager.dbOrigSize}
    /\ pager'.dirty = pager.dirty \cup {p} \cup new
    /\ RecordedIn(p) \cup pager.needSync \subseteq pager'.needSync
    /\ pager'.nRec <= Cardinality(pager'.inJournal)
    /\ prng' = IF Starts THEN prng + 1 ELSE prng
    /\ cache' = WithPages([q \in {p} \cup new |-> WrittenBy(tx, q, size)])

LEMMA PagerWriteDoes ==
    ASSUME TypeInv, NEW p \in Page, NEW size, NEW new \in SUBSET Page, NEW done \in BOOLEAN,
           PagerWrite(p, size, new, done)
    PROVE  PagerWritten(p, size, new)
<1> DEFINE record == RecordOf(p, WithJournal.cksumInit)
           recorded == IF record = << >> THEN {} ELSE {p}
           cells == FirstHeader \o record
           pg == WithJournal
           dbSize == IF \A q \in {p} \cup new : q <= pg.dbSize THEN pg.dbSize ELSE pg.dbSize + 1
           inJournal == pg.inJournal \cup recorded \cup {q \in new : q <= pg.dbOrigSize}
           needSync == pg.needSync \cup recorded \cup Appended({p} \cup new, pg)
           dirty == pg.dirty \cup ({p} \cup new)
           nRec == IF record = << >> THEN pg.nRec ELSE pg.nRec + 1
           journalOff == pg.journalOff + Len(record)
<1>1. /\ p \in DOMAIN cache
      /\ IF cells = << >> THEN UNCHANGED disk
         ELSE WriteJournal(pg.journalOff - Len(FirstHeader), cells)
      /\ pager' = [pg EXCEPT
              !.journalOff = journalOff, !.nRec = nRec, !.inJournal = inJournal,
              !.needSync = needSync, !.dirty = dirty, !.dbSize = dbSize,
              !.changeCountDone = done]
      /\ prng' = IF pager.eState = "LOCKED" THEN prng + 1 ELSE prng
      /\ cache' = WithPages([q \in {p} \cup new |-> WrittenBy(tx, q, size)])
  BY DEF PagerWrite, NextSeed
<1>2. pg \in Pagers /\ pg.cksumInit \in Nat
  BY WithJournalIs DEF Pagers
<1>3. /\ record \in Seq(JournalCell) /\ FirstHeader \in Seq(JournalCell)
      /\ Len(record) = IF IsRecorded(p) THEN 3 ELSE 0
      /\ record = << >> <=> ~IsRecorded(p)
  <2> PICK r : r = WithJournal.cksumInit
    OBVIOUS
  <2>1. /\ RecordOf(p, r) \in Seq(JournalCell)
        /\ IsRecorded(p) => RecordOf(p, r) = <<Pgno(p), PageCell(cache[p]), Cksum(r, cache[p])>>
        /\ ~IsRecorded(p) => RecordOf(p, r) = << >>
    BY <1>1, <1>2, RecordCells
  <2>2. IsRecorded(p) => Len(RecordOf(p, r)) = 3 /\ RecordOf(p, r) # << >>
    BY SMTT(30), <2>1
  <2>3. ~IsRecorded(p) => Len(RecordOf(p, r)) = 0
    BY <2>1
  <2>. QED
    BY <2>1, <2>2, <2>3, HeaderCells
<1>4. cells = << >> <=> ~(Starts \/ IsRecorded(p))
  <2>1. FirstHeader = << >> <=> ~Starts
    BY HeaderCells
  <2>. QED
    BY <1>3, <2>1, ConcatEqualIffEmpty, ConcatProperties
<1>5. recorded = RecordedIn(p) /\ nRec = pg.nRec + (IF IsRecorded(p) THEN 1 ELSE 0)
  <2>1. pg.nRec \in Nat
    BY <1>2 DEF Pagers
  <2>. QED
    BY <1>3, <2>1 DEF RecordedIn
<1>6. dbSize \in 0 .. NPages
  BY <1>2, NPagesIsPositive DEF Pagers, Page
<1>7. inJournal \in SUBSET Page /\ dirty \in SUBSET Page /\ needSync \in SUBSET Page
  BY <1>2 DEF Pagers, Appended
<1>8. /\ nRec \in Nat /\ nRec <= Cardinality(inJournal)
      /\ Cardinality(inJournal) \in Nat /\ Cardinality(inJournal) <= NPages
  <2>1. /\ pg.nRec \in Nat /\ pg.nRec <= Cardinality(pg.inJournal)
        /\ pg.inJournal \in SUBSET Page
    <3>1. pager.nRec \in Nat /\ pager.nRec <= Cardinality(pager.inJournal)
          /\ pager.inJournal \in SUBSET Page
      BY DEF TypeInv, PagerOK, Pagers
    <3>2. Cardinality(pager.inJournal) \in Nat
      <4>1. IsFiniteSet(Page)
        BY FS_Interval, NPagesIsPositive DEF Page
      <4>2. IsFiniteSet(pager.inJournal)
        BY <3>1, <4>1, FS_Subset
      <4>. QED
        BY <4>2, FS_CardinalityType
    <3>. QED
      BY <3>1, <3>2, WithJournalIs
  <2>2. IsFiniteSet(Page) /\ Cardinality(Page) = NPages
    BY FS_Interval, NPagesIsPositive DEF Page
  <2>3. /\ IsFiniteSet(inJournal) /\ Cardinality(inJournal) <= NPages
        /\ Cardinality(inJournal) \in Nat
    BY <1>7, <2>2, FS_Subset, FS_CardinalityType
  <2>4. pg.inJournal \cup recorded \subseteq inJournal
    OBVIOUS
  <2>5. /\ IsFiniteSet(pg.inJournal \cup recorded) /\ IsFiniteSet(pg.inJournal)
        /\ Cardinality(pg.inJournal \cup recorded) <= Cardinality(inJournal)
        /\ Cardinality(pg.inJournal \cup recorded) \in Nat
        /\ Cardinality(pg.inJournal) \in Nat
    BY <2>1, <2>2, <2>3, <2>4, FS_Subset, FS_CardinalityType
  <2>6. nRec <= Cardinality(pg.inJournal \cup recorded)
    <3>1. CASE IsRecorded(p)
      <4>1. p \notin pg.inJournal /\ recorded = {p}
        BY <3>1, <1>5, WithJournalIs DEF IsRecorded, RecordedIn
      <4>2. Cardinality(pg.inJournal \cup {p}) = Cardinality(pg.inJournal) + 1
        BY <2>5, <4>1, FS_AddElement
      <4>. QED
        BY <3>1, <4>1, <4>2, <2>1, <2>5, <1>3
    <3>2. CASE ~IsRecorded(p)
      BY <3>2, <1>3, <2>1
    <3>. QED
      BY <3>1, <3>2
  <2>7. nRec \in Nat
    BY <2>1
  <2>. QED
    BY <2>3, <2>5, <2>6, <2>7
<1>9. journalOff \in Nat /\ journalOff = RecordOff + (IF IsRecorded(p) THEN 3 ELSE 0)
  BY <1>2, <1>3 DEF Pagers, RecordOff
<1>10. nRec \in 0 .. NPages
  BY <1>8, NPagesIsPositive
<1> HIDE DEF journalOff, nRec, inJournal, needSync, dirty, dbSize, pg
<1>11. /\ pager' \in Pagers
       /\ pager'.eState = pg.eState /\ pager'.journalHdr = pg.journalHdr
       /\ pager'.cksumInit = pg.cksumInit /\ pager'.dbOrigSize = pg.dbOrigSize
       /\ pager'.journalOff = journalOff /\ pager'.nRec = nRec
       /\ pager'.inJournal = inJournal /\ pager'.needSync = needSync
       /\ pager'.dirty = dirty /\ pager'.dbSize = dbSize
  BY <1>1, <1>2, <1>6, <1>7, <1>9, <1>10 DEF Pagers
<1> USE DEF pg
<1>12. dirty = pager.dirty \cup {p} \cup new
  BY WithJournalIs DEF dirty
<1>13. RecordedIn(p) \cup pager.needSync \subseteq needSync
  BY WithJournalIs, <1>5 DEF needSync
<1>14. inJournal = pager.inJournal \cup RecordedIn(p) \cup {q \in new : q <= pager.dbOrigSize}
  BY WithJournalIs, <1>5 DEF inJournal
<1>15. dbSize = IF \A q \in {p} \cup new : q <= pager.dbSize
                THEN pager.dbSize ELSE pager.dbSize + 1
  BY WithJournalIs DEF dbSize
<1>16. WithJournal.dbOrigSize = pager.dbOrigSize
  BY WithJournalIs
<1> HIDE DEF record, recorded
<1>. QED
  BY <1>1, <1>4, <1>5, <1>8, <1>9, <1>11, <1>12, <1>13, <1>14, <1>15, <1>16 DEF Starts, record, PagerWritten

-----------------------------------------------------------------------------
(* The types are kept *)

LEMMA CacheWithPages ==
    ASSUME CacheOK, NEW S \in SUBSET Page, NEW new \in [S -> Content], cache' = WithPages(new)
    PROVE  /\ CacheOK'
           /\ DOMAIN cache' = S \cup DOMAIN cache
           /\ \A q \in DOMAIN cache' : cache'[q] = IF q \in S THEN new[q] ELSE cache[q]
<1>1. cache' = [q \in S \cup DOMAIN cache |-> IF q \in S THEN new[q] ELSE cache[q]]
  BY DEF WithPages
<1>. QED
  BY <1>1 DEF CacheOK

LEMMA WrittenPagesTyped ==
    ASSUME TypeInv, NEW size \in 0 .. NPages, NEW S \in SUBSET Page
    PROVE  \A q \in S : WrittenBy(tx, q, size) \in Content
BY WrittenIsContent DEF TypeInv, CountersOK, Version

LEMMA PagerWriteTyped ==
    ASSUME TypeInv, NEW p \in Page, NEW size \in 0 .. NPages, NEW new \in SUBSET Page,
           NEW done \in BOOLEAN, PagerWrite(p, size, new, done), UNCHANGED media
    PROVE  FilesOK' /\ PagerOK' /\ CacheOK' /\ prng' \in Nat
<1>0. PagerWritten(p, size, new)
  BY PagerWriteDoes
<1>1. CacheOK' /\ DOMAIN cache' = {p} \cup new \cup DOMAIN cache
  <2>1. \A q \in {p} \cup new : WrittenBy(tx, q, size) \in Content
    BY WrittenPagesTyped
  <2>2. cache' = WithPages([q \in {p} \cup new |-> WrittenBy(tx, q, size)])
    BY <1>0 DEF PagerWritten
  <2> DEFINE f == [q \in {p} \cup new |-> WrittenBy(tx, q, size)]
  <2>3. f \in [{p} \cup new -> Content] /\ cache' = WithPages(f)
    BY <2>1, <2>2
  <2> HIDE DEF f
  <2>. QED
    BY <2>3, CacheWithPages DEF TypeInv
<1>2. PagerOK'
  <2>1. /\ pager' \in Pagers /\ pager'.nRec <= Cardinality(pager'.inJournal)
        /\ pager'.dirty = pager.dirty \cup {p} \cup new
    BY <1>0 DEF PagerWritten
  <2>. QED
    BY <1>1, <2>1 DEF PagerOK, TypeInv
<1>3. FilesOK'
  <2>1. CASE Starts \/ IsRecorded(p)
    <3>1. disk' \in [{"db", "journal"} -> {NoFile} \cup Seq(JournalCell)]
          /\ disk'["db"] = disk["db"]
      BY <2>1, <1>0, CellsWritten DEF PagerWritten
    <3>. QED
      BY <3>1 DEF FilesOK, StoreTypeOK, TypeInv
  <2>2. CASE ~(Starts \/ IsRecorded(p))
    <3>1. disk' = disk
      BY <2>2, <1>0 DEF PagerWritten
    <3>. QED
      BY <3>1 DEF FilesOK, StoreTypeOK, TypeInv
  <2>. QED
    BY <2>1, <2>2
<1>4. prng' \in Nat
  BY <1>0 DEF TypeInv, CountersOK, PagerWritten
<1>. QED
  BY <1>1, <1>2, <1>3, <1>4

LEMMA JournalWriteTyped ==
    ASSUME FilesOK, NEW off \in Nat, NEW cells \in Seq(JournalCell), WriteJournal(off, cells),
           \/ UNCHANGED media
           \/ media' = [media EXCEPT !["journal"] = disk["journal"]]
    PROVE  FilesOK'
<1>1. /\ disk' = [disk EXCEPT !["journal"] = Written(JournalContent, off, cells)]
      /\ Written(JournalContent, off, cells) \in Seq(JournalCell)
  BY JournalWritten, JournalTyped DEF WriteJournal
<1>2. /\ disk' \in [{"db", "journal"} -> {NoFile} \cup Seq(JournalCell)]
      /\ disk'["db"] = disk["db"]
  BY <1>1, DiskWithJournal
<1>3. media' \in [{"db", "journal"} -> {NoFile} \cup Seq(JournalCell)]
  BY DEF FilesOK, StoreTypeOK
<1>. QED
  BY <1>2, <1>3 DEF FilesOK, StoreTypeOK

LEMMA DbWriteTyped ==
    ASSUME FilesOK, NEW p \in Page, NEW cell \in DbCell, WriteDb(p, cell), UNCHANGED media
    PROVE  /\ FilesOK'
           /\ disk'["db"] = Written(disk["db"], p - 1, <<cell>>)
           /\ JournalContent' = JournalContent
<1> PICK c : c = Written(disk["db"], p - 1, <<cell>>)
  OBVIOUS
<1>1. p \in Nat /\ p <= NPages
  BY NPagesIsPositive DEF Page
<1>2. disk["db"] \in Seq(DbCell) /\ Len(disk["db"]) <= NPages
  BY DEF FilesOK
<1>3. c \in Seq(DbCell) /\ Len(c) = Longer(Len(disk["db"]), p)
  BY <1>2, DbWritten
<1>4. Len(c) <= NPages
  BY <1>1, <1>2, <1>3, NPagesIsPositive DEF Longer, Page
<1>5. disk' = [disk EXCEPT !["db"] = c]
  BY DEF WriteDb, FilesOK, StoreTypeOK
<1>6. /\ disk'["db"] = c /\ JournalContent' = JournalContent
      /\ disk' \in [{"db", "journal"} -> {NoFile} \cup Seq(JournalCell)]
  BY <1>3, <1>5, DiskWithDb
<1>. QED
  BY <1>3, <1>4, <1>6 DEF FilesOK, StoreTypeOK

LEMMA SyncTyped ==
    ASSUME FilesOK, NEW path \in {"db", "journal"}, Sync(path)
    PROVE  FilesOK' /\ UNCHANGED disk
BY DEF FilesOK, StoreTypeOK, Sync

\* The steps that only change the page cache, the pager or what it is doing.
LEMMA PagerChangeTyped ==
    ASSUME TypeInv, UNCHANGED <<disk, media>>, CacheOK', PagerOK', PcOK', CountersOK'
    PROVE  TypeInv'
BY DEF TypeInv, FilesOK, StoreTypeOK

LEMMA GoesTyped ==
    ASSUME TypeInv, NEW at \in {"nextHdr", "syncRecords", "nRec", "syncHdr", "pages",
                                "syncDb", "hdr", "rec", "zero", "syncZero"},
           Goes(at), UNCHANGED cache
    PROVE  PcOK'
BY DEF TypeInv, PcOK, Places, Goes

LEMMA IdleTyped == pc' = Idle => PcOK'
BY DEF PcOK, Places, Idle

LEMMA GetTyped ==
    ASSUME TypeInv, NEW p \in Page, cache' = WithPages([q \in {p} |-> Fetched(q)])
    PROVE  CacheOK' /\ DOMAIN cache' = {p} \cup DOMAIN cache
<1> DEFINE f == [q \in {p} |-> Fetched(q)]
<1>1. f \in [{p} -> Content] /\ {p} \in SUBSET Page
  BY FetchedTyped
<1> HIDE DEF f
<1>2. cache' = WithPages(f)
  BY DEF f
<1>. QED
  BY <1>1, <1>2, CacheWithPages DEF TypeInv

LEMMA ReadingTyped ==
    ASSUME TypeInv,
           Open \/ SharedLock \/ Begin \/ EndNothing \/ Close
           \/ \E p \in Page : Get(p) \/ Recycle(p)
    PROVE  TypeInv'
<1> USE DEF ghosts, CountersOK
<1>1. CASE Open
  BY <1>1, PagerChangeTyped DEF Open, TypeInv, PagerOK, CacheOK, PcOK, Pagers, States
<1>2. CASE SharedLock
  BY <1>2, PagerChangeTyped, DbSizeTyped
     DEF SharedLock, TypeInv, PagerOK, CacheOK, PcOK, Pagers, States
<1>3. CASE EndNothing
  BY <1>3, PagerChangeTyped DEF EndNothing, TypeInv, PagerOK, CacheOK, PcOK, Pagers, States
<1>4. CASE Begin
  <2>1. CacheOK' /\ DOMAIN cache' = {1} \cup DOMAIN cache
    <3>1. 1 \in Page
      BY NPagesIsPositive DEF Page
    <3>. QED
      BY <3>1, <1>4, GetTyped DEF Begin
  <2>2. PagerOK'
    BY <1>4, <2>1 DEF Begin, TypeInv, PagerOK, Pagers, States
  <2>3. PcOK' /\ CountersOK'
    BY <1>4, <2>1, BoundsAreNumbers DEF Begin, TypeInv, PcOK, IsIdle, Idle
  <2>. QED
    BY <1>4, <2>1, <2>2, <2>3, PagerChangeTyped DEF Begin
<1>5. ASSUME NEW p \in Page, Get(p) PROVE TypeInv'
  <2>1. CacheOK' /\ DOMAIN cache' = {p} \cup DOMAIN cache
    BY <1>5, GetTyped DEF Get
  <2>2. PagerOK' /\ PcOK' /\ CountersOK'
    BY <1>5, <2>1 DEF Get, TypeInv, PagerOK, PcOK
  <2>. QED
    BY <1>5, <2>1, <2>2, PagerChangeTyped DEF Get
<1>6. ASSUME NEW p \in Page, Recycle(p) PROVE TypeInv'
  <2>1. CacheOK' /\ DOMAIN cache' = DOMAIN cache \ {p}
    BY <1>6 DEF Recycle, Without, TypeInv, CacheOK
  <2>2. PagerOK' /\ PcOK' /\ CountersOK'
    BY <1>6, <2>1 DEF Recycle, TypeInv, PagerOK, PcOK, IsIdle, Idle
  <2>. QED
    BY <1>6, <2>1, <2>2, PagerChangeTyped DEF Recycle
<1>7. CASE Close
  <2>1. CacheOK'
    BY <1>7 DEF Close, CacheOK
  <2>2. PagerOK'
    <3>1. ClosedPager \in Pagers
      BY NPagesIsPositive DEF ClosedPager, Pagers, States
    <3>2. Cardinality({}) = 0
      BY FS_EmptySet
    <3>. QED
      BY <1>7, <3>1, <3>2 DEF Close, ClosedPager, PagerOK
  <2>3. PcOK' /\ CountersOK'
    BY <1>7, IdleTyped DEF Close, IsIdle, TypeInv
  <2>4. FilesOK'
    BY <1>7 DEF Close, Delete, TypeInv, FilesOK, StoreTypeOK
  <2>. QED
    BY <2>1, <2>2, <2>3, <2>4 DEF TypeInv
<1>. QED
  BY <1>1, <1>2, <1>3, <1>4, <1>5, <1>6, <1>7

LEMMA WritingTyped ==
    ASSUME TypeInv,
           NewDatabase \/ Extend \/ Commit \/ \E p \in Page : WritePage(p)
    PROVE  TypeInv'
<1>1. ASSUME NEW p \in Page, NEW size \in 0 .. NPages, NEW new \in SUBSET Page,
             NEW done \in BOOLEAN, PagerWrite(p, size, new, done),
             UNCHANGED <<media, ghosts>>,
             (pc' = pc /\ IsIdle) \/ pc' = Running("commit", "nextHdr")
      PROVE  TypeInv'
  <2>1. FilesOK' /\ PagerOK' /\ CacheOK' /\ prng' \in Nat
    BY <1>1, PagerWriteTyped
  <2>2. PcOK'
    <3>1. CASE pc' = pc /\ IsIdle
      BY <3>1, IdleTyped DEF IsIdle
    <3>2. CASE pc' = Running("commit", "nextHdr")
      BY <3>2 DEF PcOK, Places, Running, Idle
    <3>. QED
      BY <1>1, <3>1, <3>2
  <2>3. CountersOK'
    BY <1>1, <2>1 DEF TypeInv, CountersOK, ghosts
  <2>. QED
    BY <2>1, <2>2, <2>3 DEF TypeInv
<1>2. 1 \in Page /\ 1 \in 0 .. NPages /\ {} \in SUBSET Page
  BY NPagesIsPositive DEF Page
<1>3. Size \in 0 .. NPages /\ pager.changeCountDone \in BOOLEAN
  BY SizeTyped DEF TypeInv, PagerOK, Pagers
<1>4. CASE NewDatabase
  BY <1>1, <1>2, <1>3, <1>4 DEF NewDatabase, ghosts
<1>5. CASE Extend
  <2>1. Size + 1 \in 0 .. NPages /\ {Size + 1} \in SUBSET Page
    BY <1>5, <1>3, NPagesIsPositive DEF Extend, Page
  <2>. QED
    BY <1>1, <1>2, <1>3, <1>5, <2>1 DEF Extend, ghosts
<1>6. ASSUME NEW p \in Page, WritePage(p) PROVE TypeInv'
  BY <1>1, <1>2, <1>3, <1>6 DEF WritePage, ghosts
<1>7. CASE Commit
  <2>1. CASE pager.changeCountDone
    BY <1>7, <2>1, PagerChangeTyped
       DEF Commit, TypeInv, PcOK, Places, Running, Idle, CacheOK, PagerOK, CountersOK, ghosts
  <2>2. CASE ~pager.changeCountDone
    BY <1>1, <1>2, <1>3, <1>7, <2>2 DEF Commit, ghosts
  <2>. QED
    BY <2>1, <2>2
<1>. QED
  BY <1>4, <1>5, <1>6, <1>7

LEMMA SyncingTyped ==
    ASSUME TypeInv,
           NextHeader \/ SyncRecords \/ CountRecords \/ SyncHeader
    PROVE  TypeInv'
<1> USE DEF ghosts
<1>1. /\ ZeroCell \in JournalCell /\ <<ZeroCell>> \in Seq(JournalCell)
      /\ JournalHdrOffset(pager.journalOff) \in Nat
      /\ pager.journalHdr \in Nat /\ pager.nRec \in 0 .. NPages
  BY ZeroIs DEF TypeInv, PagerOK, Pagers, JournalHdrOffset
<1>2. ASSUME UNCHANGED <<pager, cache>>, NEW at \in {"syncRecords", "nRec", "syncHdr"}, Goes(at)
      PROVE  PagerOK' /\ CacheOK' /\ PcOK'
  BY <1>2, GoesTyped DEF TypeInv, PagerOK, CacheOK
<1>3. CASE NextHeader
  <2>1. FilesOK'
    <3>1. CASE OldHeaderFollows
      BY <1>1, <1>3, <3>1, JournalWriteTyped DEF NextHeader, TypeInv
    <3>2. CASE ~OldHeaderFollows
      BY <1>3, <3>2 DEF NextHeader, TypeInv, FilesOK, StoreTypeOK
    <3>. QED
      BY <3>1, <3>2
  <2>. QED
    BY <1>2, <1>3, <2>1 DEF NextHeader, TypeInv, CountersOK
<1>4. CASE SyncRecords
  BY <1>2, <1>4, SyncTyped DEF SyncRecords, TypeInv, CountersOK
<1>5. CASE CountRecords
  <2>1. <<Magic(pager.nRec)>> \in Seq(JournalCell)
    BY <1>1, MagicIs
  <2>2. FilesOK'
    BY <1>1, <1>5, <2>1, JournalWriteTyped DEF CountRecords, TypeInv
  <2>. QED
    BY <1>2, <1>5, <2>2 DEF CountRecords, TypeInv, CountersOK
<1>6. CASE SyncHeader
  <2> DEFINE synced == [pager EXCEPT !.eState = "DBMOD", !.needSync = {},
                                     !.journalHdr = pager.journalOff]
  <2>1. synced \in Pagers /\ synced.dirty = pager.dirty
        /\ synced.nRec = pager.nRec /\ synced.inJournal = pager.inJournal
        /\ synced.journalOff = pager.journalOff
    BY DEF TypeInv, PagerOK, Pagers, States
  <2>2. PcOK' /\ CacheOK'
    BY <1>6, GoesTyped DEF SyncHeader, TypeInv, CacheOK
  <2>3. CASE pc.op = "spill"
    <3>1. pager' = WithNewHeader(synced) /\ prng' = NextSeed
      BY <1>6, <2>3 DEF SyncHeader
    <3>2. prng + 1 \in Nat /\ JournalHdrOffset(synced.journalOff) \in Nat
          /\ JournalHdrOffset(synced.journalOff) + 2 \in Nat /\ 0 \in 0 .. NPages
      BY <1>1, <2>1, NPagesIsPositive DEF TypeInv, CountersOK
    <3> HIDE DEF synced
    <3>3. /\ pager' \in Pagers /\ pager'.dirty = synced.dirty
          /\ pager'.nRec = 0 /\ pager'.inJournal = synced.inJournal
          /\ pager'.journalHdr = JournalHdrOffset(synced.journalOff)
      BY <2>1, <3>1, <3>2 DEF WithNewHeader, NextSeed, HdrSize, Pagers
    <3>4. PagerOK'
      <4>1. pager.inJournal \in SUBSET Page
        BY DEF TypeInv, PagerOK, Pagers
      <4>2. Cardinality(pager.inJournal) \in Nat
        <5>1. IsFiniteSet(Page)
          BY FS_Interval, NPagesIsPositive DEF Page
        <5>2. IsFiniteSet(pager.inJournal)
          BY <4>1, <5>1, FS_Subset
        <5>. QED
          BY <5>2, FS_CardinalityType
      <4>3. cache' = cache
        BY <1>6 DEF SyncHeader
      <4>. QED
        BY <2>1, <3>3, <4>2, <4>3 DEF TypeInv, PagerOK
    <3>5. Header(NextSeed) \in Seq(JournalCell)
      <4>1. pager.dbOrigSize \in 0 .. NPages /\ NextSeed \in Nat
        BY <3>2 DEF TypeInv, PagerOK, Pagers, NextSeed
      <4>. QED
        BY <1>1, <4>1, NonceIs DEF Header
    <3>6. FilesOK'
      <4> PICK off \in Nat : off = pager'.journalHdr
        BY <3>2, <3>3
      <4>1. disk' = [disk EXCEPT !["journal"] = Written(JournalContent, off, Header(NextSeed))]
        BY <1>6, <2>3 DEF SyncHeader, WriteJournal
      <4>2. media' = [media EXCEPT !["journal"] = disk["journal"]]
        BY <1>6 DEF SyncHeader
      <4>. QED
        BY <3>5, <4>1, <4>2, JournalWriteTyped DEF TypeInv, WriteJournal
    <3>7. CountersOK'
      BY <1>6, <3>1, <3>2 DEF SyncHeader, TypeInv, CountersOK, NextSeed
    <3>. QED
      BY <2>2, <3>4, <3>6, <3>7 DEF TypeInv
  <2>4. CASE pc.op # "spill"
    <3>1. pager' = synced /\ UNCHANGED <<disk, prng, cache>>
          /\ media' = [media EXCEPT !["journal"] = disk["journal"]]
          /\ UNCHANGED ghosts
      BY <1>6, <2>4 DEF SyncHeader
    <3> HIDE DEF synced
    <3>. QED
      BY <2>1, <2>2, <3>1 DEF TypeInv, PagerOK, CountersOK, FilesOK, StoreTypeOK
  <2>. QED
    BY <2>3, <2>4
<1>. QED
  BY <1>3, <1>4, <1>5, <1>6

LEMMA SpillAndCommitTyped ==
    ASSUME TypeInv,
           SpillPage \/ CommitPage \/ CommitPagesDone \/ SyncDb \/ ZeroHeader \/ EndTransaction
           \/ \E p \in Page : Spill(p)
    PROVE  TypeInv'
<1> USE DEF ghosts
<1>1. ASSUME NEW p \in DOMAIN cache
      PROVE  p \in Page /\ PageCell(cache[p]) \in DbCell
  BY <1>1, PageCellIs DEF TypeInv, CacheOK, DbCell
<1>2. ASSUME NEW p \in Page, pager' = [pager EXCEPT !.dirty = @ \ {p}], UNCHANGED cache
      PROVE  PagerOK' /\ CacheOK'
  BY <1>2 DEF TypeInv, PagerOK, CacheOK, Pagers
<1>3. ASSUME NEW p \in Page, Spill(p) PROVE TypeInv'
  <2>1. PcOK'
    BY <1>3 DEF Spill, TypeInv, PagerOK, PcOK, Places, Running, Idle
  <2>. QED
    BY <1>3, <2>1, PagerChangeTyped DEF Spill, TypeInv, PagerOK, CacheOK, CountersOK
<1>4. CASE SpillPage
  <2>1. pc.page \in DOMAIN cache
    BY <1>4 DEF SpillPage, TypeInv, PcOK
  <2> PICK p : p = pc.page
    OBVIOUS
  <2>2. p \in Page /\ PageCell(cache[p]) \in DbCell
    BY <2>1, <1>1
  <2>3. FilesOK'
    BY <1>4, <2>2, DbWriteTyped DEF SpillPage, TypeInv
  <2>4. PagerOK' /\ CacheOK'
    BY <1>4, <2>2, <1>2 DEF SpillPage
  <2>5. PcOK' /\ CountersOK'
    BY <1>4, IdleTyped DEF SpillPage, TypeInv, CountersOK
  <2>. QED
    BY <2>3, <2>4, <2>5 DEF TypeInv
<1>5. CASE CommitPage
  <2> PICK p \in pager.dirty :
          /\ IF p <= pager.dbSize THEN WriteDb(p, PageCell(cache[p])) ELSE UNCHANGED disk
          /\ pager' = [pager EXCEPT !.dirty = @ \ {p}]
    BY <1>5 DEF CommitPage
  <2>1. p \in Page /\ PageCell(cache[p]) \in DbCell
    BY <1>1 DEF TypeInv, PagerOK
  <2>2. FilesOK'
    <3>1. CASE p <= pager.dbSize
      BY <1>5, <2>1, <3>1, DbWriteTyped DEF CommitPage, TypeInv
    <3>2. CASE ~(p <= pager.dbSize)
      BY <1>5, <3>2 DEF CommitPage, TypeInv, FilesOK, StoreTypeOK
    <3>. QED
      BY <3>1, <3>2
  <2>3. PagerOK' /\ CacheOK'
    BY <1>5, <2>1, <1>2 DEF CommitPage
  <2>4. PcOK' /\ CountersOK'
    BY <1>5 DEF CommitPage, TypeInv, PcOK, CountersOK
  <2>. QED
    BY <2>2, <2>3, <2>4 DEF TypeInv
<1>6. CASE CommitPagesDone
  <2>1. PcOK'
    BY <1>6, GoesTyped DEF CommitPagesDone
  <2>. QED
    BY <1>6, <2>1, PagerChangeTyped
       DEF CommitPagesDone, TypeInv, PagerOK, CacheOK, CountersOK
<1>7. CASE SyncDb
  <2>1. PcOK' /\ FilesOK'
    BY <1>7, GoesTyped, SyncTyped DEF SyncDb, TypeInv
  <2>2. PagerOK' /\ CacheOK'
    BY <1>7 DEF SyncDb, TypeInv, PagerOK, CacheOK, Pagers, States
  <2>. QED
    BY <1>7, <2>1, <2>2 DEF SyncDb, TypeInv, CountersOK
<1>8. CASE ZeroHeader
  <2>1. PcOK' /\ PagerOK' /\ CacheOK'
    BY <1>8, GoesTyped DEF ZeroHeader, TypeInv, PagerOK, CacheOK
  <2>2. FilesOK'
    <3>1. <<ZeroCell, ZeroCell>> \in Seq(JournalCell) /\ 0 \in Nat
      BY ZeroIs
    <3>. QED
      BY <1>8, <3>1, JournalWriteTyped DEF ZeroHeader, TypeInv
  <2>3. CountersOK'
    BY <1>8, ViewTyped DEF ZeroHeader, TypeInv, CountersOK
  <2>. QED
    BY <2>1, <2>2, <2>3 DEF TypeInv
<1>9. CASE EndTransaction
  <2>1. FilesOK'
    <3>1. CASE Sync("journal")
      BY <3>1, SyncTyped DEF TypeInv
    <3>2. CASE UNCHANGED <<disk, media>>
      BY <3>2 DEF TypeInv, FilesOK, StoreTypeOK
    <3>. QED
      BY <1>9, <3>1, <3>2 DEF EndTransaction
  <2>2. CacheOK' /\ PcOK'
    BY <1>9, IdleTyped DEF EndTransaction, TypeInv, CacheOK
  <2>3. PagerOK'
    <3> PICK n \in 0 .. NPages : n = IF Hot THEN DbSize ELSE pager.dbSize
      BY DbSizeTyped DEF TypeInv, PagerOK, Pagers
    <3>1. pager' = [pager EXCEPT !.eState = "READER", !.journalOff = 0, !.nRec = 0,
                                 !.inJournal = {}, !.dirty = {}, !.needSync = {},
                                 !.dbSize = n]
      BY <1>9 DEF EndTransaction
    <3>2. pager' \in Pagers /\ pager'.nRec = 0 /\ pager'.inJournal = {} /\ pager'.dirty = {}
      <4>1. pager \in Pagers /\ 0 \in 0 .. NPages
        BY NPagesIsPositive DEF TypeInv, PagerOK
      <4>. QED
        BY ONLY <3>1, <4>1, n \in 0 .. NPages DEF Pagers, States
    <3>. QED
      BY <3>2, FS_EmptySet DEF PagerOK
  <2>4. CountersOK'
    BY <1>9 DEF EndTransaction, TypeInv, CountersOK
  <2>. QED
    BY <2>1, <2>2, <2>3, <2>4 DEF TypeInv
<1>. QED
  BY <1>3, <1>4, <1>5, <1>6, <1>7, <1>8, <1>9

LEMMA Thirds ==
    \A n \in Nat : n \div 3 \in Nat /\ 3 * (n \div 3) <= n /\ n < 3 * (n \div 3) + 3
OBVIOUS

LEMMA CellOfJournal ==
    ASSUME FilesOK, NEW i \in 1 .. Len(JournalContent)
    PROVE  JournalContent[i] \in JournalCell
BY JournalTyped, ElementOfSeq

LEMMA PlaybackTyped ==
    ASSUME TypeInv,
           Rollback \/ PlayHeader \/ PlayRecord \/ SkipRecord \/ RefuseRecord \/ SegmentPlayed
    PROVE  TypeInv'
<1> USE DEF ghosts
<1>1. ASSUME PlaybackEnds, UNCHANGED cache PROVE PagerOK' /\ PcOK' /\ CacheOK'
  BY <1>1 DEF PlaybackEnds, TypeInv, PagerOK, Pagers, PcOK, Places, CacheOK
<1>2. Len(JournalContent) \in Nat
  BY JournalTyped DEF TypeInv
<1>3. CASE Rollback
  <2>1. PagerOK' /\ PcOK' /\ CacheOK'
    BY <1>3 DEF Rollback, TypeInv, PagerOK, Pagers, PcOK, Places, CacheOK, Running, Idle
  <2>. QED
    BY <1>3, <2>1, PagerChangeTyped DEF Rollback, TypeInv, CountersOK
<1>4. CASE PlayHeader
  <2> PICK off \in Nat : off = JournalHdrOffset(pager.journalOff)
    BY DEF TypeInv, PagerOK, Pagers, JournalHdrOffset
  <2>1. CASE HeaderReadable(off)
    <3>1. off + 1 \in 1 .. Len(JournalContent) /\ off + 2 \in 1 .. Len(JournalContent)
      BY <1>2, <2>1 DEF HeaderReadable, HdrSize
    <3>2. Seed(JournalContent[off + 2]) \in Nat
      BY <3>1, CellOfJournal, CellsHold DEF Seed, TypeInv
    <3>3. off = 0 => JournalContent[off + 2].origSize \in 0 .. NPages
      BY <2>1, <3>1, CellOfJournal, CellsHold DEF HeaderReadable, TypeInv
    <3>4. RecordsAfter(off) \in Nat
      <4>1. IsMagic(JournalContent[off + 1]) => JournalContent[off + 1].magic \in 0 .. NPages
        BY <3>1, CellOfJournal, CellsHold DEF TypeInv
      <4>2. Len(JournalContent) - (off + HdrSize) \in Nat
        BY <1>2, <3>1 DEF HdrSize
      <4>3. (Len(JournalContent) - (off + HdrSize)) \div RecSize \in Nat
        BY <4>2, Thirds DEF RecSize
      <4>. QED
        BY <4>1, <4>3, NPagesIsPositive DEF RecordsAfter
    <3> PICK n \in 0 .. NPages :
          n = IF off = 0 THEN JournalContent[off + 2].origSize ELSE pager.dbSize
      BY <3>3 DEF TypeInv, PagerOK, Pagers
    <3> PICK seed \in Nat : seed = Seed(JournalContent[off + 2])
      BY <3>2
    <3> PICK left \in Nat : left = RecordsAfter(off)
      BY <3>4
    <3>5. /\ pager' = [pager EXCEPT !.journalOff = off + 2, !.cksumInit = seed, !.dbSize = n]
          /\ pc' = [pc EXCEPT !.at = "rec", !.left = left]
          /\ UNCHANGED <<disk, media, cache, prng, ghosts>>
      BY <1>4, <2>1 DEF PlayHeader, HdrSize
    <3>6. PagerOK'
      <4>1. /\ pager' \in Pagers /\ pager'.nRec = pager.nRec
            /\ pager'.inJournal = pager.inJournal /\ pager'.dirty = pager.dirty
        <5>1. pager \in Pagers
          BY DEF TypeInv, PagerOK
        <5>2. pager' = [pager EXCEPT !.journalOff = off + 2, !.cksumInit = seed, !.dbSize = n]
          BY <3>5
        <5>3. off + 2 \in Nat
          OBVIOUS
        <5>. QED
          BY ONLY <5>1, <5>2, <5>3, seed \in Nat, n \in 0 .. NPages DEF Pagers
      <4>. QED
        BY <3>5, <4>1 DEF TypeInv, PagerOK
    <3>7. PcOK' /\ CacheOK'
      BY <3>5 DEF TypeInv, PcOK, Places, CacheOK
    <3>. QED
      BY <3>5, <3>6, <3>7, PagerChangeTyped DEF TypeInv, CountersOK
  <2>2. CASE ~HeaderReadable(off)
    BY <1>1, <1>4, <2>2, PagerChangeTyped DEF PlayHeader, TypeInv, CountersOK
  <2>. QED
    BY <2>1, <2>2
<1>5. CASE PlayRecord
  <2> PICK off \in Nat : off = pager.journalOff
    BY DEF TypeInv, PagerOK, Pagers
  <2>1. /\ off + 1 \in 1 .. Len(JournalContent) /\ off + 2 \in 1 .. Len(JournalContent)
        /\ IsPgno(JournalContent[off + 1]) /\ IsPage(JournalContent[off + 2])
    BY <1>2, <1>5 DEF PlayRecord, VerdictNow, Verdict, RecSize
  <2> PICK p \in Page : p = JournalContent[off + 1].pgno
    BY <2>1, CellOfJournal, CellsHold DEF TypeInv
  <2> PICK old \in DbCell : old = JournalContent[off + 2]
    BY <2>1, CellOfJournal, CellsHold DEF TypeInv, DbCell
  <2>2. old.page \in Content
    BY <2>1, CellOfJournal, CellsHold DEF TypeInv
  <2>3. /\ IF GoesToFile THEN WriteDb(p, old) ELSE UNCHANGED disk
        /\ cache' = IF p \in DOMAIN cache THEN [cache EXCEPT ![p] = old.page] ELSE cache
        /\ pager' = [pager EXCEPT !.journalOff = off + 3]
        /\ pc.left > 0
        /\ pc' = [pc EXCEPT !.left = @ - 1]
        /\ UNCHANGED <<media, prng, ghosts>>
    BY <1>5 DEF PlayRecord, RecSize
  <2>4. FilesOK'
    <3>1. CASE GoesToFile
      BY <2>3, <3>1, DbWriteTyped DEF TypeInv
    <3>2. CASE ~GoesToFile
      BY <2>3, <3>2 DEF TypeInv, FilesOK, StoreTypeOK
    <3>. QED
      BY <3>1, <3>2
  <2>5. CacheOK' /\ DOMAIN cache' = DOMAIN cache
    BY <2>2, <2>3 DEF TypeInv, CacheOK
  <2>6. PagerOK'
    BY <2>3, <2>5 DEF TypeInv, PagerOK, Pagers
  <2>7. PcOK'
    BY <2>3, <2>5 DEF TypeInv, PcOK, Places
  <2>. QED
    BY <2>3, <2>4, <2>5, <2>6, <2>7 DEF TypeInv, CountersOK
<1>6. CASE SkipRecord
  <2>1. PagerOK' /\ PcOK' /\ CacheOK'
    BY <1>6 DEF SkipRecord, TypeInv, PagerOK, Pagers, PcOK, Places, CacheOK, RecSize
  <2>. QED
    BY <1>6, <2>1, PagerChangeTyped DEF SkipRecord, TypeInv, CountersOK
<1>7. CASE RefuseRecord
  BY <1>1, <1>7, PagerChangeTyped DEF RefuseRecord, TypeInv, CountersOK
<1>8. CASE SegmentPlayed
  <2>1. PagerOK' /\ PcOK' /\ CacheOK'
    BY <1>8, GoesTyped DEF SegmentPlayed, TypeInv, PagerOK, CacheOK
  <2>. QED
    BY <1>8, <2>1, PagerChangeTyped DEF SegmentPlayed, TypeInv, CountersOK
<1>. QED
  BY <1>3, <1>4, <1>5, <1>6, <1>7, <1>8

LEMMA InitTyped == Init => TypeInv
<1> SUFFICES ASSUME Init PROVE TypeInv
  OBVIOUS
<1> PICK n \in InitialSize :
      /\ disk = [db |-> [p \in 1 .. n |-> PageCell(WrittenBy(0, p, n))], journal |-> NoFile]
      /\ committed = [p \in 1 .. n |-> 0]
  BY DEF Init
<1>1. n \in 0 .. NPages /\ 0 \in Version
  BY SizesAreSizes, BoundsAreNumbers DEF Version
<1> DEFINE db == [p \in 1 .. n |-> PageCell(WrittenBy(0, p, n))]
<1>2. \A p \in 1 .. n : PageCell(WrittenBy(0, p, n)) \in DbCell
  <2> TAKE p \in 1 .. n
  <2>1. p \in Page
    BY <1>1, NPagesIsPositive DEF Page
  <2>2. WrittenBy(0, p, n) \in Content
    BY <1>1, <2>1, WrittenIsContent
  <2>. QED
    BY <2>2, PageCellIs DEF DbCell
<1>3. db \in Seq(DbCell) /\ n \in Nat
  BY <1>1, <1>2, IsASeq, NPagesIsPositive
<1>4. Len(db) = n
  BY <1>3, LenProperties
<1> HIDE DEF db
<1>5. disk["db"] = db /\ disk["journal"] = NoFile /\ DOMAIN disk = {"db", "journal"}
      /\ disk \in [{"db", "journal"} -> {NoFile} \cup Seq(JournalCell)]
  <2>1. disk = [db |-> db, journal |-> NoFile]
    BY DEF db
  <2>2. db \in Seq(JournalCell)
    BY <1>3, DbCellsAreCells
  <2>. QED
    BY ONLY <2>1, <2>2
<1>6. FilesOK
  <2>1. media = disk
    BY DEF Init
  <2>2. Len(disk["db"]) <= NPages /\ disk["db"] \in Seq(DbCell)
    <3>1. disk["db"] = db
      BY <1>5
    <3>2. n <= NPages
      BY <1>1, NPagesIsPositive
    <3>. QED
      BY ONLY <1>3, <1>4, <3>1, <3>2
  <2>. QED
    BY <1>5, <2>1, <2>2 DEF FilesOK, StoreTypeOK
<1>7. PagerOK /\ CacheOK
  <2>1. ClosedPager \in Pagers
    BY NPagesIsPositive DEF ClosedPager, Pagers, States
  <2>2. Cardinality({}) = 0
    BY FS_EmptySet
  <2>. QED
    BY <2>1, <2>2 DEF Init, PagerOK, CacheOK, ClosedPager
<1>8. PcOK
  BY DEF Init, PcOK, Places, Idle
<1>9. CountersOK
  <2>1. committed \in Seq(Version \cup {Nobody})
    BY <1>1, <1>3, IsASeq
  <2>. QED
    BY <2>1, BoundsAreNumbers DEF Init, CountersOK
<1>. QED
  BY <1>6, <1>7, <1>8, <1>9 DEF TypeInv

LEMMA NextTyped == TypeInv /\ [Next]_vars => TypeInv'
<1> SUFFICES ASSUME TypeInv, [Next]_vars PROVE TypeInv'
  OBVIOUS
<1>1. CASE UNCHANGED vars
  BY <1>1 DEF vars, TypeInv, FilesOK, StoreTypeOK, PagerOK, CacheOK, PcOK, CountersOK
<1>2. CASE Next
  BY <1>2, ReadingTyped, WritingTyped, SyncingTyped, SpillAndCommitTyped, PlaybackTyped
     DEF Next
<1>. QED
  BY <1>1, <1>2

LEMMA TypeInvHolds == Spec => []TypeInv
<1>. QED
  BY InitTyped, NextTyped, PTL DEF Spec

\* The files, the pager, the page cache and the counters have their types:
\* there are never more records than pages, and no page is written that the
\* cache does not have.
THEOREM TypeCorrect == Spec => []TypeOK
<1>. QED
  BY TypeInvHolds, TypeInvTypes, PTL

-----------------------------------------------------------------------------
(* The pages.  com stands for committed, db for the database file, pages   *)
(* for the page cache, n for the number of pages of the database.          *)

OldPages(com) == 1 .. Len(com)

\* Page p as the last transaction left it.
Old(com, p) == WrittenBy(com[p], p, Len(com))

Untouched(com, db, p) == p <= Len(db) /\ ContentOf(db[p]) = Old(com, p)

Restored(com, db, pages, p) ==
    Untouched(com, db, p) /\ (p \in DOMAIN pages => pages[p] = Old(com, p))

AllRestored(com, db, pages) == \A p \in OldPages(com) : Restored(com, db, pages, p)

\* A new file has no page 1, or a blank one.
NewFileIsBlank(com, db) == com = << >> => ContentOf(At(db, 1)).size = 0

NewPageIsBlank(com, pages) == com = << >> /\ 1 \in DOMAIN pages => pages[1].size = 0

\* Fetched, Size, IsDatabase and View of such a state.
FetchedFrom(pages, db, n, p) ==
    IF p \in DOMAIN pages THEN pages[p]
    ELSE IF p <= n THEN ContentOf(At(db, p))
    ELSE Blank

SizeOf(pages, db, n) == FetchedFrom(pages, db, n, 1).size

Valid(pages, db, n) == IsSize(SizeOf(pages, db, n), n)

ViewOf(pages, db, n) ==
    IF Valid(pages, db, n)
    THEN [p \in 1 .. SizeOf(pages, db, n) |-> FetchedFrom(pages, db, n, p).by]
    ELSE NotADatabase

LEMMA ViewIs ==
    /\ \A p : Fetched(p) = FetchedFrom(cache, disk["db"], DbSize, p)
    /\ Size = SizeOf(cache, disk["db"], DbSize)
    /\ IsDatabase <=> Valid(cache, disk["db"], DbSize)
    /\ View = ViewOf(cache, disk["db"], DbSize)
BY DEF Fetched, Size, IsDatabase, View, FetchedFrom, SizeOf, Valid, ViewOf

Versions == Version \cup {Nobody}

Databases == {db \in Seq(DbCell) : Len(db) <= NPages}

Caches == UNION {[S -> Content] : S \in SUBSET Page}

LEMMA PagesTyped ==
    TypeInv => cache \in Caches /\ disk["db"] \in Databases /\ committed \in Seq(Versions)
BY DEF TypeInv, CacheOK, FilesOK, CountersOK, Caches, Databases, Versions

LEMMA OldIs ==
    ASSUME NEW com \in Seq(Versions), Len(com) <= NPages, NEW p \in OldPages(com)
    PROVE  /\ p \in Page /\ Old(com, p) \in Content
           /\ Old(com, p).by = com[p]
           /\ Old(com, p).size = IF p = 1 THEN Len(com) ELSE 0
<1>1. com[p] \in Version \cup {Nobody} /\ p \in Page /\ Len(com) \in 0 .. NPages
  BY NPagesIsPositive, ElementOfSeq DEF OldPages, Versions, Page
<1>. QED
  BY SMTT(30), <1>1, WrittenIsContent DEF Old

\* A database as it was committed is what a program sees.
LEMMA RestoredView ==
    ASSUME NEW com \in Seq(Versions), NEW db \in Databases, NEW pages \in Caches, NEW n \in Nat,
           AllRestored(com, db, pages), Len(com) <= n
    PROVE  com # << >> =>
               /\ Valid(pages, db, n) /\ SizeOf(pages, db, n) = Len(com)
               /\ ViewOf(pages, db, n) = com
<1> SUFFICES ASSUME com # << >>
             PROVE  /\ Valid(pages, db, n) /\ SizeOf(pages, db, n) = Len(com)
                    /\ ViewOf(pages, db, n) = com
  OBVIOUS
<1>1. Len(com) \in Nat /\ Len(com) >= 1 /\ Len(db) \in Nat /\ Len(db) <= NPages
  BY DEF Databases
<1>2. \A p \in OldPages(com) : p <= Len(db) /\ p \in 1 .. Len(db)
  BY <1>1 DEF AllRestored, Restored, Untouched, OldPages
<1>3. Len(com) <= NPages
  BY <1>1, <1>2, NPagesIsPositive DEF OldPages
<1>4. \A p \in OldPages(com) : FetchedFrom(pages, db, n, p) = Old(com, p)
  <2> TAKE p \in OldPages(com)
  <2>1. p <= n /\ At(db, p) = db[p]
    BY <1>1, <1>2 DEF OldPages, At
  <2>. QED
    BY <2>1 DEF AllRestored, Restored, Untouched, FetchedFrom
<1>5. SizeOf(pages, db, n) = Len(com)
  <2>1. 1 \in OldPages(com)
    BY <1>1 DEF OldPages
  <2>. QED
    BY <2>1, <1>3, <1>4, OldIs DEF SizeOf
<1>6. Valid(pages, db, n)
  BY <1>1, <1>5 DEF Valid, IsSize
<1>7. \A p \in 1 .. Len(com) : FetchedFrom(pages, db, n, p).by = com[p]
  BY <1>3, <1>4, OldIs DEF OldPages
<1>8. [p \in 1 .. Len(com) |-> FetchedFrom(pages, db, n, p).by] = com
  BY <1>7, LenProperties
<1>. QED
  BY <1>5, <1>6, <1>8 DEF ViewOf

LEMMA BlankView ==
    ASSUME NEW db, NEW pages, NEW n \in Nat,
           NewFileIsBlank(<< >>, db), NewPageIsBlank(<< >>, pages)
    PROVE  /\ SizeOf(pages, db, n) = 0
           /\ Valid(pages, db, n) => n = 0 /\ ViewOf(pages, db, n) = << >>
           /\ n = 0 => Valid(pages, db, n)
<1>1. SizeOf(pages, db, n) = 0
  BY BlankIs DEF SizeOf, FetchedFrom, NewFileIsBlank, NewPageIsBlank
<1>2. Valid(pages, db, n) <=> n = 0
  BY <1>1 DEF Valid, IsSize
<1>3. Valid(pages, db, n) => ViewOf(pages, db, n) = << >>
  BY <1>1 DEF ViewOf
<1>. QED
  BY <1>1, <1>2, <1>3

\* One page of the file is written.
PageWritten(db, new, p, c) ==
    /\ new \in Databases
    /\ Len(new) = Longer(Len(db), p)
    /\ ContentOf(At(new, p)) = c
    /\ \A q \in Nat : q # p => At(new, q) = At(db, q)

LEMMA WriteDbWrites ==
    ASSUME TypeInv, NEW p \in Page, NEW c \in Content, WriteDb(p, PageCell(c)), UNCHANGED media
    PROVE  PageWritten(disk["db"], disk'["db"], p, c)
<1>1. PageCell(c) \in DbCell /\ ContentOf(PageCell(c)) = c
  BY PageCellIs DEF DbCell
<1> PICK cell \in DbCell : cell = PageCell(c)
  BY <1>1
<1> PICK db : db = disk["db"]
  OBVIOUS
<1>2. db \in Seq(DbCell) /\ Len(db) <= NPages
  BY DEF TypeInv, FilesOK
<1> PICK new : new = Written(db, p - 1, <<cell>>)
  OBVIOUS
<1>3. disk'["db"] = new
  BY DbWriteTyped DEF TypeInv
<1>4. /\ new \in Seq(DbCell) /\ Len(new) = Longer(Len(db), p)
      /\ \A i \in 1 .. Len(new) : new[i] = IF i = p THEN cell ELSE At(db, i)
  BY <1>2, DbWritten
<1>5. p \in Nat /\ p >= 1 /\ p <= NPages /\ NPages \in Nat /\ Len(db) \in Nat /\ Len(new) \in Nat
  BY <1>2, <1>4, NPagesIsPositive DEF Page
<1>6. p \in 1 .. Len(new) /\ Len(new) <= NPages
  BY <1>2, <1>4, <1>5 DEF Longer
<1>7. At(new, p) = cell
  BY <1>4, <1>6 DEF At
<1>8. \A q \in Nat : q # p => At(new, q) = At(db, q)
  <2> SUFFICES ASSUME NEW q \in Nat, q # p PROVE At(new, q) = At(db, q)
    OBVIOUS
  <2>1. CASE q \in 1 .. Len(new)
    BY <1>4, <2>1 DEF At
  <2>2. CASE q \notin 1 .. Len(new)
    <3>1. q \notin 1 .. Len(db)
      BY <1>4, <1>5, <2>2 DEF Longer
    <3>. QED
      BY <2>2, <3>1 DEF At
  <2>. QED
    BY <2>1, <2>2
<1>. QED
  BY <1>1, <1>3, <1>4, <1>6, <1>7, <1>8 DEF PageWritten, Databases

LEMMA OthersKept ==
    ASSUME NEW com, NEW db \in Databases, NEW new, NEW p \in Page, NEW c,
           PageWritten(db, new, p, c)
    PROVE  /\ \A q \in Nat \ {0} : q # p /\ Untouched(com, db, q) => Untouched(com, new, q)
           /\ p # 1 /\ NewFileIsBlank(com, db) => NewFileIsBlank(com, new)
           /\ \A q \in Nat \ {0} : q <= Len(db) => q <= Len(new)
           /\ \A q \in Nat \ {0} : q # p /\ q <= Len(db) => new[q] = db[q]
           /\ p <= Len(new) /\ ContentOf(new[p]) = c
           /\ p \in OldPages(com) /\ c = Old(com, p) => Untouched(com, new, p)
<1>1. /\ Len(db) \in Nat /\ Len(new) \in Nat /\ Len(new) = Longer(Len(db), p)
      /\ p \in Nat /\ p >= 1
  BY NPagesIsPositive DEF PageWritten, Databases, Page
<1>2. Len(db) <= Len(new) /\ p <= Len(new)
  BY <1>1 DEF Longer
<1>3. \A q \in Nat \ {0} : q # p /\ q <= Len(db) => new[q] = db[q]
  BY <1>1, <1>2 DEF PageWritten, At
<1>4. ContentOf(new[p]) = c
  BY <1>1, <1>2 DEF PageWritten, At
<1>5. p # 1 /\ NewFileIsBlank(com, db) => NewFileIsBlank(com, new)
  BY DEF PageWritten, NewFileIsBlank
<1>. QED
  BY <1>1, <1>2, <1>3, <1>4, <1>5 DEF Untouched

\* To write a page that the cache has changes nothing of what is seen.
LEMMA WriteUnseen ==
    ASSUME NEW pages, NEW db, NEW new, NEW p \in DOMAIN pages, NEW c, NEW n,
           PageWritten(db, new, p, c)
    PROVE  /\ \A q \in Nat : FetchedFrom(pages, new, n, q) = FetchedFrom(pages, db, n, q)
           /\ SizeOf(pages, new, n) = SizeOf(pages, db, n)
           /\ Valid(pages, new, n) <=> Valid(pages, db, n)
<1>1. \A q \in Nat : FetchedFrom(pages, new, n, q) = FetchedFrom(pages, db, n, q)
  BY DEF PageWritten, FetchedFrom
<1>. QED
  BY <1>1 DEF SizeOf, Valid

\* What is seen depends only on the pages that the database has.
LEMMA SameView ==
    ASSUME NEW pages, NEW db, NEW n, NEW pages2, NEW db2, NEW n2,
           SizeOf(pages, db, n) \in Nat,
           SizeOf(pages2, db2, n2) = SizeOf(pages, db, n),
           Valid(pages2, db2, n2) <=> Valid(pages, db, n),
           \A p \in 1 .. SizeOf(pages, db, n) :
               FetchedFrom(pages2, db2, n2, p) = FetchedFrom(pages, db, n, p)
    PROVE  ViewOf(pages2, db2, n2) = ViewOf(pages, db, n)
BY DEF ViewOf

-----------------------------------------------------------------------------
(* The journal of a transaction, as segments: segs[h] is the seed after    *)
(* the header at h, and the pages of the records that follow it.  hdr is   *)
(* the header being filled, orig the size of the database before.          *)

RecordAt(h, i) == h + HdrSize + RecSize * (i - 1)

End(segs, h) == RecordAt(h, Len(segs[h].pages) + 1)

Segments == UNION {[S -> [seed : Nat, pages : Seq(Page)]] : S \in SUBSET Nat}

Chained(segs, hdr) ==
    /\ segs \in Segments
    /\ 0 \in DOMAIN segs /\ hdr \in DOMAIN segs
    /\ \A h \in DOMAIN segs : h <= hdr
    /\ \A h \in DOMAIN segs \ {hdr} : End(segs, h) + 2 \in DOMAIN segs
    /\ \A g, h \in DOMAIN segs : h < g => End(segs, h) + 2 <= g

IsRecord(j, off, seed, p, com) ==
    /\ j[off + 1] = Pgno(p)
    /\ \E c \in Content :
          /\ j[off + 2] = PageCell(c)
          /\ j[off + 3] = Cksum(seed, c)
          /\ p \in OldPages(com) => c = Old(com, p)

IsJournal(j, segs, hdr, orig, com) ==
    /\ End(segs, hdr) <= Len(j)
    /\ \A h \in DOMAIN segs :
          /\ j[h + 2] = Nonce(segs[h].seed, orig)
          /\ h # hdr => j[h + 1] = Magic(Len(segs[h].pages))
          /\ \A i \in 1 .. Len(segs[h].pages) :
                /\ segs[h].pages[i] <= orig
                /\ IsRecord(j, RecordAt(h, i), segs[h].seed, segs[h].pages[i], com)

\* No check-sum after off has the seed, or a later one.
SeedsBefore(j, off, seed) ==
    \A i \in DOMAIN j : IsCksum(j[i]) /\ i > off => j[i].cksum[1] < seed

\* A record of page p is at off or after it.
Ahead(segs, p, off) ==
    \E h \in DOMAIN segs : \E i \in 1 .. Len(segs[h].pages) :
        RecordAt(h, i) >= off /\ segs[h].pages[i] = p

InSegment(segs, h, p) == \E i \in 1 .. Len(segs[h].pages) : segs[h].pages[i] = p

LEMMA SegmentIs ==
    ASSUME NEW segs \in Segments, NEW h \in DOMAIN segs
    PROVE  /\ h \in Nat /\ segs[h].seed \in Nat /\ segs[h].pages \in Seq(Page)
           /\ Len(segs[h].pages) \in Nat
           /\ \A i \in 1 .. Len(segs[h].pages) : segs[h].pages[i] \in Page
           /\ End(segs, h) = h + 2 + 3 * Len(segs[h].pages)
           /\ End(segs, h) \in Nat
<1>1. h \in Nat /\ segs[h].seed \in Nat /\ segs[h].pages \in Seq(Page)
  BY DEF Segments
<1>2. Len(segs[h].pages) \in Nat /\ \A i \in 1 .. Len(segs[h].pages) : segs[h].pages[i] \in Page
  BY <1>1, ElementOfSeq
<1>3. End(segs, h) = h + 2 + 3 * Len(segs[h].pages)
  BY <1>1, <1>2 DEF End, RecordAt, HdrSize, RecSize
<1>. QED
  BY <1>1, <1>2, <1>3

LEMMA RecordAtIs ==
    ASSUME NEW h \in Nat, NEW i \in Nat \ {0}
    PROVE  RecordAt(h, i) \in Nat /\ RecordAt(h, i) = h + 3 * i - 1 /\ RecordAt(h, i) >= h + 2
           /\ RecordAt(h, i + 1) = RecordAt(h, i) + 3
BY DEF RecordAt, HdrSize, RecSize

LEMMA RecordInSegment ==
    ASSUME NEW segs \in Segments, NEW h \in DOMAIN segs, NEW i \in 1 .. Len(segs[h].pages)
    PROVE  RecordAt(h, i) + 3 <= End(segs, h) /\ RecordAt(h, i) \in Nat /\ RecordAt(h, i) >= h + 2
<1>1. /\ h \in Nat /\ Len(segs[h].pages) \in Nat
      /\ End(segs, h) = h + 2 + 3 * Len(segs[h].pages)
  BY SegmentIs
<1>2. i \in Nat \ {0} /\ i <= Len(segs[h].pages)
  BY <1>1
<1>3. RecordAt(h, i) = h + 3 * i - 1
  BY <1>1, <1>2, RecordAtIs
<1>. QED
  BY <1>1, <1>2, <1>3

\* Records do not overlap.
LEMMA RecordsApart ==
    ASSUME NEW segs, NEW hdr, Chained(segs, hdr),
           NEW h \in DOMAIN segs, NEW i \in 1 .. Len(segs[h].pages),
           NEW g \in DOMAIN segs, NEW k \in 1 .. Len(segs[g].pages),
           RecordAt(h, i) <= RecordAt(g, k)
    PROVE  \/ h = g /\ i = k
           \/ RecordAt(h, i) + 3 <= RecordAt(g, k)
<1>1. segs \in Segments
  BY DEF Chained
<1>2. /\ RecordAt(h, i) + 3 <= End(segs, h) /\ RecordAt(h, i) \in Nat /\ RecordAt(h, i) >= h + 2
      /\ RecordAt(g, k) + 3 <= End(segs, g) /\ RecordAt(g, k) \in Nat /\ RecordAt(g, k) >= g + 2
      /\ End(segs, h) \in Nat /\ End(segs, g) \in Nat /\ h \in Nat /\ g \in Nat
  BY <1>1, RecordInSegment, SegmentIs
<1>3. CASE h = g
  <2>1. i \in Nat \ {0} /\ k \in Nat \ {0}
    BY SMTT(30), <1>1, SegmentIs
  <2>2. RecordAt(h, i) = h + 3 * i - 1 /\ RecordAt(h, k) = h + 3 * k - 1
    BY <1>2, <2>1, RecordAtIs
  <2>. QED
    BY <1>2, <1>3, <2>1, <2>2, SMTT(30)
<1>4. CASE h < g
  <2>1. End(segs, h) + 2 <= g
    BY <1>4 DEF Chained
  <2>. QED
    BY <1>2, <2>1
<1>5. CASE g < h
  <2>1. End(segs, g) + 2 <= h
    BY <1>5 DEF Chained
  <2>. QED
    BY <1>2, <2>1
<1>. QED
  BY <1>2, <1>3, <1>4, <1>5

LEMMA SegmentBeforeLast ==
    ASSUME NEW segs, NEW hdr, Chained(segs, hdr), NEW h \in DOMAIN segs
    PROVE  /\ segs \in Segments /\ hdr \in DOMAIN segs
           /\ End(segs, h) <= End(segs, hdr)
           /\ h # hdr => End(segs, h) + 2 <= hdr
<1>1. segs \in Segments /\ hdr \in DOMAIN segs /\ h <= hdr
  BY DEF Chained
<1>2. /\ h \in Nat /\ hdr \in Nat /\ End(segs, h) \in Nat /\ End(segs, hdr) \in Nat
      /\ hdr <= End(segs, hdr)
  BY SMTT(30), <1>1, SegmentIs
<1>3. h # hdr => End(segs, h) + 2 <= hdr
  BY <1>1, <1>2 DEF Chained
<1>. QED
  BY <1>1, <1>2, <1>3

\* What follows the records may change, and the magic of the last header.
LEMMA JournalKept ==
    ASSUME NEW segs, NEW hdr, Chained(segs, hdr), NEW j, NEW j2, NEW orig, NEW com,
           IsJournal(j, segs, hdr, orig, com),
           End(segs, hdr) <= Len(j2),
           \A i \in 1 .. End(segs, hdr) : i # hdr + 1 => j2[i] = j[i]
    PROVE  IsJournal(j2, segs, hdr, orig, com)
<1>1. segs \in Segments /\ hdr \in DOMAIN segs /\ hdr \in Nat /\ End(segs, hdr) \in Nat
  BY SegmentIs DEF Chained
<1>2. ASSUME NEW h \in DOMAIN segs
      PROVE  /\ j2[h + 2] = Nonce(segs[h].seed, orig)
             /\ h # hdr => j2[h + 1] = Magic(Len(segs[h].pages))
             /\ \A i \in 1 .. Len(segs[h].pages) :
                   /\ segs[h].pages[i] <= orig
                   /\ IsRecord(j2, RecordAt(h, i), segs[h].seed, segs[h].pages[i], com)
  <2>1. /\ j[h + 2] = Nonce(segs[h].seed, orig)
        /\ h # hdr => j[h + 1] = Magic(Len(segs[h].pages))
        /\ \A i \in 1 .. Len(segs[h].pages) :
              /\ segs[h].pages[i] <= orig
              /\ IsRecord(j, RecordAt(h, i), segs[h].seed, segs[h].pages[i], com)
    BY DEF IsJournal
  <2>2. /\ h \in Nat /\ End(segs, h) \in Nat /\ Len(segs[h].pages) \in Nat
        /\ End(segs, h) >= h + 2 /\ End(segs, h) <= End(segs, hdr)
        /\ h # hdr => End(segs, h) + 2 <= hdr
    BY SMTT(30), <1>1, SegmentIs, SegmentBeforeLast
  <2>3. \A i \in h + 2 .. End(segs, h) : j2[i] = j[i]
    BY <1>1, <2>2
  <2>4. h # hdr => j2[h + 1] = j[h + 1]
    BY <1>1, <2>2
  <2>5. ASSUME NEW i \in 1 .. Len(segs[h].pages)
        PROVE  IsRecord(j2, RecordAt(h, i), segs[h].seed, segs[h].pages[i], com)
    <3> PICK off \in Nat : off = RecordAt(h, i)
      BY <1>1, RecordInSegment
    <3>1. off >= h + 2 /\ off + 3 <= End(segs, h)
      BY <1>1, RecordInSegment
    <3>2. j2[off + 1] = j[off + 1] /\ j2[off + 2] = j[off + 2] /\ j2[off + 3] = j[off + 3]
      <4>1. /\ off + 1 \in h + 2 .. End(segs, h) /\ off + 2 \in h + 2 .. End(segs, h)
            /\ off + 3 \in h + 2 .. End(segs, h)
        BY <2>2, <3>1
      <4>. QED
        BY <2>3, <4>1
    <3>3. IsRecord(j, off, segs[h].seed, segs[h].pages[i], com)
      BY <2>1
    <3>. QED
      BY <3>2, <3>3 DEF IsRecord
  <2>6. j2[h + 2] = j[h + 2]
    BY <2>2, <2>3
  <2>. QED
    BY <2>1, <2>4, <2>5, <2>6
<1>. QED
  BY <1>2 DEF IsJournal

FirstSegment(seed) == [h \in {0} |-> [seed |-> seed, pages |-> << >>]]

LEMMA JournalStarted ==
    ASSUME NEW seed \in Nat, NEW j, NEW orig, NEW com,
           Len(j) \in Nat, Len(j) >= 2, j[2] = Nonce(seed, orig)
    PROVE  /\ Chained(FirstSegment(seed), 0)
           /\ IsJournal(j, FirstSegment(seed), 0, orig, com)
           /\ End(FirstSegment(seed), 0) = 2
           /\ FirstSegment(seed)[0] = [seed |-> seed, pages |-> << >>]
<1> PICK segs : segs = FirstSegment(seed)
  OBVIOUS
<1>1. DOMAIN segs = {0} /\ segs[0] = [seed |-> seed, pages |-> << >>]
  BY DEF FirstSegment
<1>2. segs \in Segments
  <2>1. [seed |-> seed, pages |-> << >>] \in [seed : Nat, pages : Seq(Page)]
    OBVIOUS
  <2>2. segs \in [{0} -> [seed : Nat, pages : Seq(Page)]]
    BY <2>1 DEF FirstSegment
  <2>. QED
    BY <2>2, {0} \in SUBSET Nat DEF Segments
<1>3. Len(segs[0].pages) = 0
  BY <1>1
<1>4. End(segs, 0) = 2
  BY <1>1, <1>2, <1>3, SegmentIs
<1>5. Chained(segs, 0)
  BY <1>1, <1>2 DEF Chained
<1>6. IsJournal(j, segs, 0, orig, com)
  BY <1>1, <1>3, <1>4 DEF IsJournal
<1>. QED
  BY <1>1, <1>4, <1>5, <1>6

WithRecord(segs, hdr, p) ==
    [h \in DOMAIN segs |->
        IF h = hdr THEN [seed |-> segs[h].seed, pages |-> Append(segs[h].pages, p)] ELSE segs[h]]

LEMMA RecordAdded ==
    ASSUME NEW segs, NEW hdr, Chained(segs, hdr), NEW j, NEW orig, NEW com,
           IsJournal(j, segs, hdr, orig, com),
           NEW p \in Page, p <= orig, Len(j) \in Nat, End(segs, hdr) + 3 <= Len(j),
           IsRecord(j, End(segs, hdr), segs[hdr].seed, p, com)
    PROVE  /\ Chained(WithRecord(segs, hdr, p), hdr)
           /\ IsJournal(j, WithRecord(segs, hdr, p), hdr, orig, com)
           /\ End(WithRecord(segs, hdr, p), hdr) = End(segs, hdr) + 3
           /\ WithRecord(segs, hdr, p)[hdr].seed = segs[hdr].seed
           /\ Len(WithRecord(segs, hdr, p)[hdr].pages) = Len(segs[hdr].pages) + 1
           /\ \A q : InSegment(WithRecord(segs, hdr, p), hdr, q) <=>
                        q = p \/ InSegment(segs, hdr, q)
           /\ \A q : Ahead(segs, q, 0) \/ q = p => Ahead(WithRecord(segs, hdr, p), q, 0)
<1> PICK new : new = WithRecord(segs, hdr, p)
  OBVIOUS
<1> PICK old : old = segs[hdr].pages
  OBVIOUS
<1>1. segs \in Segments /\ hdr \in DOMAIN segs /\ hdr \in Nat /\ End(segs, hdr) \in Nat
      /\ old \in Seq(Page) /\ segs[hdr].seed \in Nat /\ Len(old) \in Nat
      /\ End(segs, hdr) = hdr + 2 + 3 * Len(old)
  BY SegmentIs DEF Chained
<1>2. /\ Append(old, p) \in Seq(Page) /\ Len(Append(old, p)) = Len(old) + 1
      /\ \A i \in 1 .. Len(old) : Append(old, p)[i] = old[i]
      /\ Append(old, p)[Len(old) + 1] = p
  BY <1>1, AppendProperties
<1>3. /\ DOMAIN new = DOMAIN segs
      /\ \A h \in DOMAIN segs \ {hdr} : new[h] = segs[h]
      /\ new[hdr] = [seed |-> segs[hdr].seed, pages |-> Append(old, p)]
  BY <1>1 DEF WithRecord
<1>4. new \in Segments
  <2>1. [seed |-> segs[hdr].seed, pages |-> Append(old, p)] \in [seed : Nat, pages : Seq(Page)]
    BY <1>1, <1>2
  <2>2. DOMAIN segs \in SUBSET Nat
        /\ \A h \in DOMAIN segs : segs[h] \in [seed : Nat, pages : Seq(Page)]
    BY <1>1 DEF Segments
  <2>3. new \in [DOMAIN segs -> [seed : Nat, pages : Seq(Page)]]
    <3>1. \A h \in DOMAIN segs : new[h] \in [seed : Nat, pages : Seq(Page)]
      BY <1>3, <2>1, <2>2
    <3>2. new = [h \in DOMAIN segs |-> new[h]]
      BY <1>3 DEF WithRecord
    <3>. QED
      BY <3>1, <3>2
  <2>. QED
    BY <2>2, <2>3 DEF Segments
<1>5. \A h \in DOMAIN segs \ {hdr} : End(new, h) = End(segs, h)
  BY <1>3 DEF End
<1>6. End(new, hdr) = End(segs, hdr) + 3
  <2>1. End(new, hdr) = hdr + 2 + 3 * Len(new[hdr].pages)
    BY <1>1, <1>3, <1>4, SegmentIs
  <2>2. Len(new[hdr].pages) = Len(old) + 1
    BY <1>2, <1>3
  <2>. QED
    BY <1>1, <2>1, <2>2
<1>7. Chained(new, hdr)
  <2>1. \A g, h \in DOMAIN segs : h < g => h # hdr /\ End(segs, h) + 2 <= g
    <3> SUFFICES ASSUME NEW g \in DOMAIN segs, NEW h \in DOMAIN segs, h < g
                 PROVE  h # hdr /\ End(segs, h) + 2 <= g
      OBVIOUS
    <3>1. g <= hdr /\ g \in Nat /\ h \in Nat
      BY <1>1, SegmentIs DEF Chained
    <3>. QED
      BY <1>1, <3>1 DEF Chained
  <2>2. \A h \in DOMAIN segs \ {hdr} : End(new, h) + 2 \in DOMAIN new
    BY <1>3, <1>5 DEF Chained
  <2>3. \A g, h \in DOMAIN new : h < g => End(new, h) + 2 <= g
    BY <1>3, <1>5, <2>1
  <2>. QED
    BY <1>3, <1>4, <2>2, <2>3 DEF Chained
<1>8. IsJournal(j, new, hdr, orig, com)
  <2>1. End(new, hdr) <= Len(j)
    BY <1>6
  <2>2. ASSUME NEW h \in DOMAIN new
        PROVE  /\ j[h + 2] = Nonce(new[h].seed, orig)
               /\ h # hdr => j[h + 1] = Magic(Len(new[h].pages))
               /\ \A i \in 1 .. Len(new[h].pages) :
                     /\ new[h].pages[i] <= orig
                     /\ IsRecord(j, RecordAt(h, i), new[h].seed, new[h].pages[i], com)
    <3>1. CASE h # hdr
      BY <1>3, <3>1 DEF IsJournal
    <3>2. CASE h = hdr
      <4>1. j[h + 2] = Nonce(new[h].seed, orig)
        BY <1>1, <1>3, <3>2 DEF IsJournal
      <4>2. ASSUME NEW i \in 1 .. Len(old) + 1
            PROVE  /\ new[h].pages[i] <= orig
                   /\ IsRecord(j, RecordAt(h, i), new[h].seed, new[h].pages[i], com)
        <5>1. CASE i \in 1 .. Len(old)
          <6>1. new[h].pages[i] = old[i] /\ new[h].seed = segs[hdr].seed
            BY <1>2, <1>3, <3>2, <5>1
          <6>2. old[i] <= orig /\ IsRecord(j, RecordAt(hdr, i), segs[hdr].seed, old[i], com)
            BY <1>1, <5>1 DEF IsJournal
          <6>. QED
            BY <3>2, <6>1, <6>2
        <5>2. CASE i = Len(old) + 1
          <6>1. new[h].pages[i] = p /\ new[h].seed = segs[hdr].seed
            BY <1>2, <1>3, <3>2, <5>2
          <6>2. RecordAt(hdr, Len(old) + 1) = End(segs, hdr)
            BY DEF End
          <6>. QED
            BY <3>2, <5>2, <6>1, <6>2
        <5>. QED
          BY SMTT(30), <1>1, <5>1, <5>2
      <4>3. Len(new[h].pages) = Len(old) + 1
        BY <1>2, <1>3, <3>2
      <4>. QED
        BY <3>2, <4>1, <4>2, <4>3
    <3>. QED
      BY <3>1, <3>2
  <2>. QED
    BY <2>1, <2>2 DEF IsJournal
<1>9. Len(new[hdr].pages) = Len(old) + 1 /\ new[hdr].seed = segs[hdr].seed
      /\ new[hdr].pages = Append(old, p)
  BY <1>2, <1>3
<1>10. \A q : InSegment(new, hdr, q) <=> q = p \/ InSegment(segs, hdr, q)
  <2> TAKE q
  <2>1. ASSUME InSegment(new, hdr, q) PROVE q = p \/ InSegment(segs, hdr, q)
    <3> PICK i \in 1 .. Len(old) + 1 : Append(old, p)[i] = q
      BY <1>9, <2>1 DEF InSegment
    <3>1. CASE i = Len(old) + 1
      BY <1>2, <3>1
    <3>2. CASE i \in 1 .. Len(old)
      <4>1. old[i] = q
        BY <1>2, <3>2
      <4>. QED
        BY <3>2, <4>1 DEF InSegment
    <3>3. i = Len(old) + 1 \/ i \in 1 .. Len(old)
      BY <1>1
    <3>. QED
      BY ONLY <3>1, <3>2, <3>3
  <2>2. ASSUME q = p \/ InSegment(segs, hdr, q) PROVE InSegment(new, hdr, q)
    <3>1. CASE q = p
      <4>1. Len(old) + 1 \in 1 .. Len(new[hdr].pages)
        BY <1>1, <1>9
      <4>. QED
        BY <1>2, <1>9, <3>1, <4>1 DEF InSegment
    <3>2. CASE InSegment(segs, hdr, q)
      <4> PICK i \in 1 .. Len(old) : old[i] = q
        BY <3>2 DEF InSegment
      <4>1. i \in 1 .. Len(new[hdr].pages)
        BY <1>1, <1>9
      <4>. QED
        BY <1>2, <1>9, <4>1 DEF InSegment
    <3>. QED
      BY <2>2, <3>1, <3>2
  <2>. QED
    BY <2>1, <2>2
<1>11. \A q : Ahead(segs, q, 0) \/ q = p => Ahead(new, q, 0)
  <2> TAKE q
  <2>1. CASE q = p
    <3> PICK i \in 1 .. Len(new[hdr].pages) : new[hdr].pages[i] = p
      BY <1>10 DEF InSegment
    <3>1. RecordAt(hdr, i) >= 0
      BY SMTT(30), <1>1, <1>3, <1>4, RecordInSegment
    <3>. QED
      BY <1>1, <1>3, <2>1, <3>1 DEF Ahead
  <2>2. CASE Ahead(segs, q, 0)
    <3> PICK h \in DOMAIN segs : \E i \in 1 .. Len(segs[h].pages) :
          RecordAt(h, i) >= 0 /\ segs[h].pages[i] = q
      BY <2>2 DEF Ahead
    <3> PICK i \in 1 .. Len(segs[h].pages) : RecordAt(h, i) >= 0 /\ segs[h].pages[i] = q
      BY <2>2 DEF Ahead
    <3>1. i \in 1 .. Len(new[h].pages) /\ new[h].pages[i] = q
      <4>1. CASE h = hdr
        <5>1. i \in 1 .. Len(old) /\ old[i] = q
          BY <4>1
        <5>2. i \in 1 .. Len(old) + 1 /\ Append(old, p)[i] = q
          BY <1>1, <1>2, <5>1
        <5>. QED
          BY <1>9, <4>1, <5>2
      <4>2. CASE h # hdr
        BY <1>3, <4>2
      <4>. QED
        BY <4>1, <4>2
    <3>. QED
      BY <1>3, <3>1 DEF Ahead
  <2>. QED
    BY <2>1, <2>2
<1>. QED
  BY <1>6, <1>7, <1>8, <1>9, <1>10, <1>11

WithSegment(segs, at, seed) ==
    [h \in DOMAIN segs \cup {at} |->
        IF h = at THEN [seed |-> seed, pages |-> << >>] ELSE segs[h]]

LEMMA SegmentAdded ==
    ASSUME NEW segs, NEW hdr, Chained(segs, hdr), NEW j, NEW orig, NEW com,
           IsJournal(j, segs, hdr, orig, com), j[hdr + 1] = Magic(Len(segs[hdr].pages)),
           NEW at, at = End(segs, hdr) + 2, NEW seed \in Nat, j[at + 2] = Nonce(seed, orig),
           Len(j) \in Nat, at + 2 <= Len(j)
    PROVE  /\ at \in Nat
           /\ Chained(WithSegment(segs, at, seed), at)
           /\ IsJournal(j, WithSegment(segs, at, seed), at, orig, com)
           /\ End(WithSegment(segs, at, seed), at) = at + 2
           /\ WithSegment(segs, at, seed)[at] = [seed |-> seed, pages |-> << >>]
           /\ \A q : Ahead(segs, q, 0) => Ahead(WithSegment(segs, at, seed), q, 0)
<1> PICK new : new = WithSegment(segs, at, seed)
  OBVIOUS
<1>1. /\ segs \in Segments /\ hdr \in DOMAIN segs /\ hdr \in Nat /\ End(segs, hdr) \in Nat
      /\ at \in Nat /\ End(segs, hdr) >= hdr + 2
  <2>1. segs \in Segments /\ hdr \in DOMAIN segs
    BY DEF Chained
  <2>2. hdr \in Nat /\ End(segs, hdr) \in Nat
        /\ Len(segs[hdr].pages) \in Nat /\ End(segs, hdr) = hdr + 2 + 3 * Len(segs[hdr].pages)
    BY <2>1, SegmentIs
  <2>. QED
    BY SMTT(30), <2>1, <2>2
<1>2. \A h \in DOMAIN segs : h \in Nat /\ h <= hdr /\ h < at /\ End(segs, h) + 2 <= at
      /\ End(segs, h) \in Nat
  <2> TAKE h \in DOMAIN segs
  <2>1. h \in Nat /\ End(segs, h) \in Nat
        /\ Len(segs[h].pages) \in Nat /\ End(segs, h) = h + 2 + 3 * Len(segs[h].pages)
    BY <1>1, SegmentIs
  <2>2. h <= hdr
    BY DEF Chained
  <2>3. End(segs, h) <= End(segs, hdr)
    BY SegmentBeforeLast
  <2>4. h < at /\ End(segs, h) + 2 <= at
    <3> PICK e \in Nat : e = End(segs, h)
      BY <2>1
    <3> PICK last \in Nat : last = End(segs, hdr)
      BY <1>1
    <3>1. at = last + 2 /\ last >= hdr + 2 /\ e <= last /\ hdr \in Nat
      BY <1>1, <2>3
    <3>. QED
      BY ONLY <2>1, <2>2, <3>1, e \in Nat, last \in Nat, e = End(segs, h)
  <2>. QED
    BY <2>1, <2>2, <2>4
<1>3. /\ DOMAIN new = DOMAIN segs \cup {at}
      /\ \A h \in DOMAIN segs : new[h] = segs[h]
      /\ new[at] = [seed |-> seed, pages |-> << >>]
  BY <1>1, <1>2 DEF WithSegment
<1>4. new \in Segments
  <2>1. [seed |-> seed, pages |-> << >>] \in [seed : Nat, pages : Seq(Page)]
    OBVIOUS
  <2>2. DOMAIN segs \in SUBSET Nat
        /\ \A h \in DOMAIN segs : segs[h] \in [seed : Nat, pages : Seq(Page)]
    BY <1>1 DEF Segments
  <2>3. new \in [DOMAIN segs \cup {at} -> [seed : Nat, pages : Seq(Page)]]
    <3>1. \A h \in DOMAIN segs \cup {at} : new[h] \in [seed : Nat, pages : Seq(Page)]
      BY <1>3, <2>1, <2>2
    <3>2. new = [h \in DOMAIN segs \cup {at} |-> new[h]]
      BY <1>3 DEF WithSegment
    <3>. QED
      BY <3>1, <3>2
  <2>4. DOMAIN segs \cup {at} \in SUBSET Nat
    BY <1>1, <2>2
  <2>. QED
    BY <2>3, <2>4 DEF Segments
<1>5. /\ \A h \in DOMAIN segs : End(new, h) = End(segs, h)
      /\ End(new, at) = at + 2
  <2>1. \A h \in DOMAIN segs : End(new, h) = End(segs, h)
    BY <1>3 DEF End
  <2>2. Len(new[at].pages) = 0
    BY <1>3
  <2>. QED
    BY SMTT(30), <1>1, <1>3, <1>4, <2>1, <2>2, SegmentIs
<1>6. Chained(new, at)
  <2>1. 0 \in DOMAIN new /\ at \in DOMAIN new
    BY <1>3 DEF Chained
  <2>2. \A h \in DOMAIN new : h <= at
    BY SMTT(30), <1>1, <1>2, <1>3
  <2>3. \A h \in DOMAIN new \ {at} : End(new, h) + 2 \in DOMAIN new
    <3> TAKE h \in DOMAIN new \ {at}
    <3>1. h \in DOMAIN segs
      BY <1>3
    <3>2. CASE h = hdr
      BY <1>3, <1>5, <3>1, <3>2
    <3>3. CASE h # hdr
      <4>1. End(segs, h) + 2 \in DOMAIN segs
        BY <3>1, <3>3 DEF Chained
      <4>. QED
        BY <1>3, <1>5, <3>1, <4>1
    <3>. QED
      BY <3>2, <3>3
  <2>4. \A g, h \in DOMAIN new : h < g => End(new, h) + 2 <= g
    <3> SUFFICES ASSUME NEW g \in DOMAIN new, NEW h \in DOMAIN new, h < g
                 PROVE  End(new, h) + 2 <= g
      OBVIOUS
    <3>1. h \in DOMAIN segs
      BY SMTT(30), <1>1, <1>2, <1>3
    <3>2. CASE g = at
      BY <1>2, <1>5, <3>1, <3>2
    <3>3. CASE g \in DOMAIN segs
      <4>1. End(segs, h) + 2 <= g
        BY <3>1, <3>3 DEF Chained
      <4>. QED
        BY <1>5, <3>1, <4>1
    <3>. QED
      BY <1>3, <3>2, <3>3
  <2>. QED
    BY <1>4, <2>1, <2>2, <2>3, <2>4 DEF Chained
<1>7. IsJournal(j, new, at, orig, com)
  <2>1. End(new, at) <= Len(j)
    BY <1>5
  <2>2. ASSUME NEW h \in DOMAIN new
        PROVE  /\ j[h + 2] = Nonce(new[h].seed, orig)
               /\ h # at => j[h + 1] = Magic(Len(new[h].pages))
               /\ \A i \in 1 .. Len(new[h].pages) :
                     /\ new[h].pages[i] <= orig
                     /\ IsRecord(j, RecordAt(h, i), new[h].seed, new[h].pages[i], com)
    <3>1. CASE h \in DOMAIN segs
      <4>1. new[h] = segs[h]
        BY <1>3, <3>1
      <4>2. j[h + 1] = Magic(Len(segs[h].pages))
        BY <3>1 DEF IsJournal
      <4>. QED
        BY <3>1, <4>1, <4>2 DEF IsJournal
    <3>2. CASE h = at
      <4>1. new[h].seed = seed /\ Len(new[h].pages) = 0
        BY <1>3, <3>2
      <4>. QED
        BY <3>2, <4>1
    <3>. QED
      BY <1>3, <3>1, <3>2
  <2>. QED
    BY <2>1, <2>2 DEF IsJournal
<1>8. \A q : Ahead(segs, q, 0) => Ahead(new, q, 0)
  BY <1>3 DEF Ahead
<1>. QED
  BY <1>1, <1>3, <1>5, <1>6, <1>7, <1>8

-----------------------------------------------------------------------------
(* The invariant.  The pager is in one of five phases; com, db, pages, j    *)
(* and pg stand for committed, the database file, the page cache, the       *)
(* journal and the pager.                                                   *)

Syncing == {"nextHdr", "syncRecords", "nRec", "syncHdr"}

SettledPages(com, db, pages, pg) ==
    /\ AllRestored(com, db, pages)
    /\ NewFileIsBlank(com, db)
    /\ NewPageIsBlank(com, pages)
    /\ pg.eState \in {"READER", "LOCKED"} => Len(com) <= pg.dbSize
    /\ pg.eState = "READER" /\ com = << >> => pg.dbSize <= Len(db)
    /\ pg.eState = "LOCKED" =>
          /\ pg.dbOrigSize = pg.dbSize
          /\ 1 \in DOMAIN pages
          /\ com = << >> => pg.dbSize = 0

\* The database as a transaction sees it: what is not in the file is in the
\* cache and dirty.
Begun(com, db, pages, pg) ==
    /\ 1 \in DOMAIN pages
    /\ IsSize(pages[1].size, pg.dbSize)
    /\ Len(com) <= pages[1].size
    /\ \A p \in 1 .. pages[1].size :
          /\ \/ p \in pg.dirty
             \/ p <= Len(db) /\ (p \in DOMAIN pages => pages[p] = ContentOf(db[p]))
          /\ p # 1 => FetchedFrom(pages, db, pg.dbSize, p).size = 0

\* And when it has written something.
Made(com, db, pages, pg) == Begun(com, db, pages, pg) /\ pages[1].size # 0

\* What a rollback needs: the records, and that what follows them has older
\* seeds.
HasRecords(com, db, j, segs, pg) ==
    /\ Chained(segs, pg.journalHdr)
    /\ IsJournal(j, segs, pg.journalHdr, pg.dbOrigSize, com)
    /\ Len(com) <= pg.dbOrigSize
    /\ com = << >> => pg.dbOrigSize = 0
    /\ NewFileIsBlank(com, db)
    /\ pg.eState = "CACHEMOD" => \A p \in OldPages(com) : Untouched(com, db, p)
    /\ \A p \in OldPages(com) : InSegment(segs, pg.journalHdr, p) => Untouched(com, db, p)

Reversible(com, db, j, segs, pg) ==
    /\ HasRecords(com, db, j, segs, pg)
    /\ SeedsBefore(j, End(segs, pg.journalHdr), segs[pg.journalHdr].seed)

\* What a transaction has recorded so far.
Recorded(com, db, pages, segs, pg, seed) ==
    /\ Len(segs[pg.journalHdr].pages) = pg.nRec
    /\ segs[pg.journalHdr].seed = seed /\ pg.cksumInit = seed
    /\ pg.dbOrigSize <= pg.dbSize
    /\ pg.journalOff = End(segs, pg.journalHdr)
    /\ \A p \in OldPages(com) :
          /\ p \notin pg.inJournal => Restored(com, db, pages, p)
          /\ p \in pg.inJournal => Ahead(segs, p, 0)
          /\ p \in pg.dirty => p \in pg.inJournal
    /\ \A p \in Page : InSegment(segs, pg.journalHdr, p) => p \in pg.needSync

\* The number of records is in the header for a moment.
Counted(j, pg, at) ==
    j[pg.journalHdr + 1] = IF at = "syncHdr" THEN Magic(pg.nRec) ELSE ZeroCell

\* The next record to play.
PlaysAt(j, segs, pg, left) ==
    \E h \in DOMAIN segs : \E i \in Nat \ {0} :
        /\ pg.journalOff = RecordAt(h, i)
        /\ pg.cksumInit = segs[h].seed
        /\ h # pg.journalHdr => i - 1 + left = Len(segs[h].pages)
        /\ h = pg.journalHdr => RecordAt(h, i + left) + 3 > Len(j)

\* Where the next header may be.
ReadsAt(j, segs, pg) ==
    \/ pg.journalOff = 0
    \/ /\ pg.journalOff >= 2
       /\ pg.journalOff + 2 \in DOMAIN segs \/ pg.journalOff + 3 > Len(j)

Played(com, db, pages, j, segs, pg, place) ==
    /\ j[pg.journalHdr + 1] = ZeroCell
    /\ \A p \in OldPages(com) :
          Restored(com, db, pages, p) \/ Ahead(segs, p, pg.journalOff)
    /\ pg.journalOff # 0 => pg.dbSize = pg.dbOrigSize
    /\ place.at = "hdr" => ReadsAt(j, segs, pg)
    /\ place.at = "rec" => PlaysAt(j, segs, pg, place.left)

Settled ==
    /\ pager.eState \in {"CLOSED", "OPEN", "READER", "LOCKED"}
    /\ IsIdle
    /\ pager.dirty = {} /\ pager.inJournal = {}
    /\ pager.eState \in {"CLOSED", "OPEN"} => ~pager.jfd /\ DOMAIN cache = {}
    /\ pager.eState = "LOCKED" => tx >= 1
    /\ SettledPages(committed, disk["db"], cache, pager)

\* Something was written, and neither commit nor rollback has begun.
UndecidedAt ==
    /\ pager.eState \in {"CACHEMOD", "DBMOD"}
    /\ tx >= 1
    /\ \/ IsIdle
       \/ /\ pc.op = "spill"
          /\ pc.page \in pager.dirty \ {1}
          /\ \/ pc.at \in Syncing
             \/ pc.at = "pages" /\ pager.eState = "DBMOD" /\ pc.page \notin pager.needSync

RecordedBy(segs) ==
    /\ Reversible(committed, disk["db"], JournalContent, segs, pager)
    /\ Recorded(committed, disk["db"], cache, segs, pager, prng)
    /\ Counted(JournalContent, pager, pc.at)

Undecided ==
    /\ UndecidedAt
    /\ Made(committed, disk["db"], cache, pager)
    /\ \E segs : RecordedBy(segs)

CommittingAt ==
    /\ pc.op = "commit"
    /\ tx >= 1
    /\ pager.journalOff # 0
    /\ \/ pc.at \in Syncing /\ pager.eState \in {"CACHEMOD", "DBMOD"}
       \/ pc.at = "pages" /\ pager.eState = "DBMOD"
       \/ pc.at = "syncDb" /\ pager.eState = "DBMOD" /\ pager.dirty = {}
       \/ pc.at \in {"zero", "syncZero"} /\ pager.eState = "FINISHED" /\ pager.dirty = {}

Committing ==
    /\ CommittingAt
    /\ Made(committed, disk["db"], cache, pager)
    /\ pc.at = "syncZero" => committed = View

PlayedBy(segs) ==
    /\ Reversible(committed, disk["db"], JournalContent, segs, pager)
    /\ Played(committed, disk["db"], cache, JournalContent, segs, pager, pc)

RollingBack ==
    /\ pc.op = "rollback"
    /\ pc.at \in {"hdr", "rec"}
    /\ pager.eState \in {"CACHEMOD", "DBMOD"}
    /\ \E segs : PlayedBy(segs)

RolledBack ==
    /\ pc.op = "rollback"
    /\ pc.at \in {"syncDb", "zero", "syncZero"}
    /\ pager.eState \in {"CACHEMOD", "DBMOD"}
    /\ pager.journalOff # 0
    /\ AllRestored(committed, disk["db"], cache)
    /\ NewFileIsBlank(committed, disk["db"])
    /\ Len(committed) <= pager.dbSize
    /\ committed = << >> => pager.dbSize = 0

Phase == Settled \/ Undecided \/ Committing \/ RollingBack \/ RolledBack

\* Every check-sum in the journal has a seed that was drawn.
SeedsDrawn == SeedsBefore(JournalContent, 0, prng + 1)

Inv == TypeInv /\ SeedsDrawn /\ Phase

-----------------------------------------------------------------------------
LEMMA InvTyped ==
    TypeInv =>
        /\ pager \in Pagers /\ cache \in Caches /\ disk["db"] \in Databases
        /\ committed \in Seq(Versions) /\ Len(committed) \in Nat
        /\ pager.dirty \subseteq DOMAIN cache /\ DOMAIN cache \subseteq Page
        /\ \A p \in DOMAIN cache : cache[p] \in Content
        /\ pc \in Places /\ prng \in Nat /\ tx \in 0 .. MaxTx
        /\ Len(disk["db"]) \in 0 .. NPages /\ JournalContent \in Seq(JournalCell)
        /\ Len(JournalContent) \in Nat
<1> SUFFICES ASSUME TypeInv
    PROVE
        /\ pager \in Pagers /\ cache \in Caches /\ disk["db"] \in Databases
        /\ committed \in Seq(Versions) /\ Len(committed) \in Nat
        /\ pager.dirty \subseteq DOMAIN cache /\ DOMAIN cache \subseteq Page
        /\ \A p \in DOMAIN cache : cache[p] \in Content
        /\ pc \in Places /\ prng \in Nat /\ tx \in 0 .. MaxTx
        /\ Len(disk["db"]) \in 0 .. NPages /\ JournalContent \in Seq(JournalCell)
        /\ Len(JournalContent) \in Nat
  OBVIOUS
<1>1. cache \in Caches /\ disk["db"] \in Databases /\ committed \in Seq(Versions)
  BY PagesTyped
<1>2. Len(disk["db"]) \in 0 .. NPages /\ Len(committed) \in Nat
  BY <1>1, NPagesIsPositive DEF Databases
<1>3. JournalContent \in Seq(JournalCell)
  BY JournalTyped DEF TypeInv
<1>4. Len(JournalContent) \in Nat
  BY <1>3
<1>. QED
  BY <1>1, <1>2, <1>3, <1>4 DEF TypeInv, PagerOK, CacheOK, PcOK, CountersOK

\* What a program sees of a settled pager.
LEMMA SettledSees ==
    ASSUME TypeInv, Settled
    PROVE  /\ committed # << >> => IsDatabase /\ Size = Len(committed) /\ View = committed
           /\ committed = << >> => /\ Size = 0
                                   /\ IsDatabase <=> DbSize = 0
                                   /\ IsDatabase => View = << >>
<1> PICK com \in Seq(Versions) : com = committed
  BY InvTyped
<1> PICK db \in Databases : db = disk["db"]
  BY InvTyped
<1> PICK pages \in Caches : pages = cache
  BY InvTyped
<1> PICK n \in Nat : n = DbSize
  BY DbSizeTyped, NPagesIsPositive
<1>1. AllRestored(com, db, pages) /\ NewFileIsBlank(com, db) /\ NewPageIsBlank(com, pages)
  BY DEF Settled, SettledPages
<1>2. /\ Size = SizeOf(pages, db, n) /\ (IsDatabase <=> Valid(pages, db, n))
      /\ View = ViewOf(pages, db, n)
  BY ViewIs
<1>3. com # << >> => Len(com) <= n
  <2> SUFFICES ASSUME com # << >> PROVE Len(com) <= n
    OBVIOUS
  <2>1. CASE pager.eState \in {"READER", "LOCKED"}
    BY <2>1 DEF DbSize, Settled, SettledPages
  <2>2. CASE pager.eState \in {"CLOSED", "OPEN"}
    <3>1. n = Len(db)
      BY <2>2 DEF DbSize
    <3>2. Len(com) \in OldPages(com)
      BY DEF OldPages
    <3>. QED
      BY <1>1, <3>1, <3>2 DEF AllRestored, Restored, Untouched
  <2>. QED
    BY <2>1, <2>2 DEF Settled
<1>4. com # << >> => Valid(pages, db, n) /\ SizeOf(pages, db, n) = Len(com)
                     /\ ViewOf(pages, db, n) = com
  BY <1>1, <1>3, RestoredView
<1>5. com = << >> => /\ SizeOf(pages, db, n) = 0
                     /\ Valid(pages, db, n) => n = 0 /\ ViewOf(pages, db, n) = << >>
                     /\ n = 0 => Valid(pages, db, n)
  BY <1>1, BlankView
<1>. QED
  BY <1>2, <1>4, <1>5

LEMMA InitInv == Init => SeedsDrawn /\ Settled
<1> SUFFICES ASSUME Init PROVE SeedsDrawn /\ Settled
  OBVIOUS
<1> PICK n \in InitialSize :
      /\ disk = [db |-> [p \in 1 .. n |-> PageCell(WrittenBy(0, p, n))], journal |-> NoFile]
      /\ committed = [p \in 1 .. n |-> 0]
  BY DEF Init
<1> TypeInv
  BY InitTyped
<1> PICK com \in Seq(Versions) : com = committed
  BY InvTyped
<1> PICK db \in Databases : db = disk["db"]
  BY InvTyped
<1>1. n \in 0 .. NPages /\ n \in Nat /\ 0 \in Version
  BY SizesAreSizes, BoundsAreNumbers, NPagesIsPositive DEF Version
<1>2. com = [p \in 1 .. n |-> 0] /\ db = [p \in 1 .. n |-> PageCell(WrittenBy(0, p, n))]
  OBVIOUS
<1>3. Len(com) = n /\ Len(db) = n
  <2>1. DOMAIN com = 1 .. n /\ DOMAIN com = 1 .. Len(com) /\ Len(com) \in Nat
    BY <1>2, LenProperties
  <2>2. DOMAIN db = 1 .. n /\ DOMAIN db = 1 .. Len(db) /\ Len(db) \in Nat
    BY <1>2, LenProperties DEF Databases
  <2>. QED
    BY <1>1, <2>1, <2>2
<1>4. ASSUME NEW p \in OldPages(com)
      PROVE  Untouched(com, db, p)
  <2>1. p \in 1 .. n /\ p \in Page /\ p <= n
    BY <1>1, <1>3, NPagesIsPositive DEF OldPages, Page
  <2>2. db[p] = PageCell(WrittenBy(0, p, n)) /\ com[p] = 0
    BY <1>2, <2>1
  <2>3. WrittenBy(0, p, n) \in Content
    BY <1>1, <2>1, WrittenIsContent
  <2>4. ContentOf(db[p]) = WrittenBy(0, p, n)
    BY <2>2, <2>3, PageCellIs
  <2>. QED
    BY <1>3, <2>1, <2>2, <2>4 DEF Untouched, Old
<1>5. cache = << >> /\ DOMAIN cache = {} /\ pager = ClosedPager /\ pc = Idle
  BY DEF Init
<1>6. NewFileIsBlank(com, db)
  <2> SUFFICES ASSUME com = << >> PROVE ContentOf(At(db, 1)).size = 0
    BY DEF NewFileIsBlank
  <2>1. Len(com) = 0
    BY ONLY com = << >>
  <2>2. 1 \notin 1 .. Len(db)
    BY <1>3, <2>1
  <2>. QED
    BY <2>2, BlankIs DEF At
<1>7. SettledPages(com, db, cache, pager)
  BY <1>4, <1>5, <1>6 DEF SettledPages, AllRestored, Restored, NewPageIsBlank, ClosedPager
<1>8. Settled
  BY <1>5, <1>7 DEF Settled, ClosedPager, IsIdle
<1>9. SeedsDrawn
  <2>1. JournalContent = << >>
    BY DEF JournalContent, Exists
  <2>. QED
    BY <2>1 DEF SeedsDrawn, SeedsBefore
<1>. QED
  BY <1>8, <1>9

\* Steps that leave the journal alone.
LEMMA SeedsKept ==
    ASSUME TypeInv, TypeInv', SeedsDrawn, JournalContent' = JournalContent, prng' = prng
    PROVE  SeedsDrawn'
BY DEF SeedsDrawn

LEMMA SameDisk == disk' = disk => JournalContent' = JournalContent
BY DEF JournalContent, Exists

LEMMA OpenKeeps == TypeInv /\ Settled /\ Open => Settled'
<1> SUFFICES ASSUME TypeInv, Settled, Open PROVE Settled'
  OBVIOUS
<1>1. pager' = [pager EXCEPT !.eState = "OPEN"] /\ pager.eState = "CLOSED"
      /\ UNCHANGED <<disk, cache, pc, committed, tx>>
  BY DEF Open, ghosts
<1>2. /\ pager'.eState = "OPEN" /\ pager'.jfd = pager.jfd /\ pager'.dirty = pager.dirty
      /\ pager'.inJournal = pager.inJournal
  BY <1>1, InvTyped DEF Pagers
<1>. QED
  BY <1>1, <1>2 DEF Settled, SettledPages, IsIdle

LEMMA SharedLockKeeps == TypeInv /\ Settled /\ SharedLock => Settled'
<1> SUFFICES ASSUME TypeInv, Settled, SharedLock PROVE Settled'
  OBVIOUS
<1>1. pager' = [pager EXCEPT !.eState = "READER", !.dbSize = Len(disk["db"])]
      /\ pager.eState = "OPEN" /\ UNCHANGED <<disk, cache, pc, committed, tx>>
  BY DEF SharedLock, ghosts, DbSize
<1>2. /\ pager'.eState = "READER" /\ pager'.dirty = pager.dirty
      /\ pager'.inJournal = pager.inJournal /\ pager'.dbSize = Len(disk["db"])
  BY <1>1, InvTyped DEF Pagers
<1>3. Len(committed) <= Len(disk["db"])
  <2> PICK m \in Nat : m = Len(committed)
    BY InvTyped
  <2> PICK n \in Nat : n = Len(disk["db"])
    BY InvTyped
  <2>1. m # 0 => m \in OldPages(committed)
    BY DEF OldPages
  <2>2. m # 0 => m <= n
    BY <2>1 DEF Settled, SettledPages, AllRestored, Restored, Untouched
  <2>. QED
    BY <2>2
<1>4. Len(disk["db"]) \in Nat
  BY InvTyped
<1>. QED
  BY <1>1, <1>2, <1>3, <1>4 DEF Settled, SettledPages, IsIdle

LEMMA GetSettled == TypeInv /\ Settled /\ (\E p \in Page : Get(p)) => Settled'
<1> SUFFICES ASSUME TypeInv, Settled, NEW p \in Page, Get(p) PROVE Settled'
  OBVIOUS
<1>1. /\ IsIdle /\ pager.eState \in {"READER", "LOCKED"} /\ p \notin DOMAIN cache
      /\ p = 1 \/ p <= Size
      /\ cache' = WithPages([q \in {p} |-> Fetched(q)])
      /\ UNCHANGED <<disk, pager, pc, committed, tx>>
  BY DEF Get, ghosts, Settled, InTransaction
<1>2. [q \in {p} |-> Fetched(q)] \in [{p} -> Content]
  BY FetchedTyped
<1>3. /\ DOMAIN cache' = {p} \cup DOMAIN cache
      /\ \A q \in DOMAIN cache' : cache'[q] = IF q = p THEN Fetched(p) ELSE cache[q]
  BY <1>1, <1>2, CacheWithPages DEF TypeInv
<1> PICK com \in Seq(Versions) : com = committed
  BY InvTyped
<1> PICK db \in Databases : db = disk["db"]
  BY InvTyped
<1>4. AllRestored(com, db, cache) /\ NewFileIsBlank(com, db) /\ NewPageIsBlank(com, cache)
      /\ Len(com) <= pager.dbSize
  BY <1>1 DEF Settled, SettledPages
<1>5. Fetched(p) = IF p <= pager.dbSize THEN ContentOf(At(db, p)) ELSE Blank
  BY <1>1 DEF Fetched, DbSize
<1>6. AllRestored(com, db, cache')
  <2> SUFFICES ASSUME NEW q \in OldPages(com) PROVE Restored(com, db, cache', q)
    BY DEF AllRestored
  <2>1. Restored(com, db, cache, q)
    BY <1>4 DEF AllRestored
  <2>2. ASSUME q = p PROVE Fetched(p) = Old(com, q)
    <3>1. q \in 1 .. Len(db) /\ q <= pager.dbSize
      <4>1. q <= Len(com) /\ q >= 1 /\ q \in Nat /\ Len(com) \in Nat /\ Len(db) \in Nat
            /\ pager.dbSize \in Nat
        BY InvTyped DEF OldPages, Pagers
      <4>. QED
        BY <1>4, <2>1, <4>1 DEF Restored, Untouched
    <3>. QED
      BY <1>5, <2>1, <2>2, <3>1 DEF Restored, Untouched, At
  <2>. QED
    BY <1>3, <2>1, <2>2 DEF Restored
<1>7. NewPageIsBlank(com, cache')
  <2> SUFFICES ASSUME com = << >>, 1 \in DOMAIN cache' PROVE cache'[1].size = 0
    BY DEF NewPageIsBlank
  <2>1. p = 1 => Fetched(p).size = 0
    BY <1>4, <1>5, BlankIs DEF NewFileIsBlank
  <2>. QED
    BY <1>3, <1>4, <2>1 DEF NewPageIsBlank
<1>8. 1 \in DOMAIN cache => 1 \in DOMAIN cache'
  BY <1>3
<1>. QED
  BY <1>1, <1>4, <1>6, <1>7, <1>8 DEF Settled, SettledPages, IsIdle

LEMMA RecycleSettled == TypeInv /\ Settled /\ (\E p \in Page : Recycle(p)) => Settled'
<1> SUFFICES ASSUME TypeInv, Settled, NEW p \in Page, Recycle(p) PROVE Settled'
  OBVIOUS
<1>1. /\ ~(pager.eState = "LOCKED" /\ p = 1) /\ p \in DOMAIN cache
      /\ cache' = [q \in DOMAIN cache \ {p} |-> cache[q]]
      /\ UNCHANGED <<disk, pager, pc, committed, tx>>
  BY DEF Recycle, ghosts, InTransaction, Without
<1>2. AllRestored(committed, disk["db"], cache')
  BY <1>1 DEF Settled, SettledPages, AllRestored, Restored
<1>3. NewPageIsBlank(committed, cache')
  BY <1>1 DEF Settled, SettledPages, NewPageIsBlank
<1>. QED
  BY <1>1, <1>2, <1>3 DEF Settled, SettledPages, IsIdle

LEMMA BeginKeeps == TypeInv /\ Settled /\ Begin => Settled'
<1> SUFFICES ASSUME TypeInv, Settled, Begin PROVE Settled'
  OBVIOUS
<1>1. /\ pager.eState = "READER" /\ IsDatabase
      /\ tx' = tx + 1
      /\ cache' = WithPages([q \in {1} |-> Fetched(q)])
      /\ pager' = [pager EXCEPT !.eState = "LOCKED", !.journalOff = 0, !.dbOrigSize = pager.dbSize]
      /\ UNCHANGED <<disk, pc, committed>>
  BY DEF Begin
<1>2. [q \in {1} |-> Fetched(q)] \in [{1} -> Content] /\ {1} \in SUBSET Page
  BY FetchedTyped, NPagesIsPositive DEF Page
<1>3. /\ DOMAIN cache' = {1} \cup DOMAIN cache
      /\ \A q \in DOMAIN cache' : cache'[q] = IF q \in {1} THEN [i \in {1} |-> Fetched(i)][q] ELSE cache[q]
  BY <1>1, <1>2, CacheWithPages DEF TypeInv
<1>4. \A q \in DOMAIN cache' : cache'[q] = IF q = 1 THEN Fetched(1) ELSE cache[q]
  BY <1>3
<1>5. /\ pager'.eState = "LOCKED" /\ pager'.dbOrigSize = pager.dbSize
      /\ pager'.dbSize = pager.dbSize /\ pager'.dirty = pager.dirty
      /\ pager'.inJournal = pager.inJournal
  BY <1>1, InvTyped DEF Pagers
<1>6. tx' >= 1
  BY <1>1, InvTyped, BoundsAreNumbers
<1>7. Fetched(1).size = Size /\ (committed = << >> => Size = 0 /\ pager.dbSize = 0)
  BY <1>1, SettledSees DEF Size, DbSize
<1>8. AllRestored(committed, disk["db"], cache')
  <2> SUFFICES ASSUME NEW q \in OldPages(committed)
               PROVE  Restored(committed, disk["db"], cache', q)
    BY DEF AllRestored
  <2>1. Restored(committed, disk["db"], cache, q)
    BY DEF Settled, SettledPages, AllRestored
  <2>2. q = 1 => Fetched(1) = Old(committed, q)
    <3> SUFFICES ASSUME q = 1 PROVE Fetched(1) = Old(committed, q)
      OBVIOUS
    <3>1. CASE 1 \in DOMAIN cache
      BY <2>1, <3>1 DEF Restored, Fetched
    <3>2. CASE 1 \notin DOMAIN cache
      <4>1. 1 <= pager.dbSize /\ 1 \in 1 .. Len(disk["db"])
        <5>1. Len(committed) >= 1 /\ Len(committed) \in Nat /\ pager.dbSize \in Nat
              /\ Len(disk["db"]) \in Nat
          BY InvTyped DEF OldPages, Pagers
        <5>2. Len(committed) <= pager.dbSize
          BY <1>1 DEF Settled, SettledPages
        <5>. QED
          BY <2>1, <5>1, <5>2 DEF Restored, Untouched
      <4>. QED
        BY <1>1, <2>1, <3>2, <4>1 DEF Restored, Untouched, Fetched, DbSize, At
    <3>. QED
      BY <3>1, <3>2
  <2>. QED
    BY <1>3, <1>4, <2>1, <2>2 DEF Restored
<1>9. NewPageIsBlank(committed, cache')
  BY <1>3, <1>4, <1>7 DEF NewPageIsBlank
<1>10. NewFileIsBlank(committed, disk["db"]) /\ Len(committed) <= pager.dbSize
  BY <1>1 DEF Settled, SettledPages
<1>. QED
  BY <1>1, <1>3, <1>5, <1>6, <1>7, <1>8, <1>9, <1>10 DEF Settled, SettledPages, IsIdle

LEMMA EndNothingKeeps == TypeInv /\ Settled /\ EndNothing => Settled'
<1> SUFFICES ASSUME TypeInv, Settled, EndNothing PROVE Settled'
  OBVIOUS
<1>1. /\ pager.eState = "LOCKED" /\ Size > 0
      /\ pager' = [pager EXCEPT !.eState = "READER"]
      /\ UNCHANGED <<disk, cache, pc, committed, tx>>
  BY DEF EndNothing, ghosts
<1>2. /\ pager'.eState = "READER" /\ pager'.dbSize = pager.dbSize /\ pager'.dirty = pager.dirty
      /\ pager'.inJournal = pager.inJournal
  BY <1>1, InvTyped DEF Pagers
<1>3. committed # << >>
  BY <1>1, SettledSees
<1>. QED
  BY <1>1, <1>2, <1>3 DEF Settled, SettledPages, IsIdle

LEMMA CloseKeeps ==
    TypeInv /\ SeedsDrawn /\ Settled /\ Close => SeedsDrawn' /\ Settled' /\ disk'["db"] = disk["db"]
<1> SUFFICES ASSUME TypeInv, SeedsDrawn, Settled, Close
             PROVE  SeedsDrawn' /\ Settled' /\ disk'["db"] = disk["db"]
  OBVIOUS
<1>1. /\ pager' = ClosedPager /\ cache' = << >> /\ DOMAIN cache' = {}
      /\ UNCHANGED <<prng, pc, committed, tx>>
  BY DEF Close, ghosts
<1>2. disk'["db"] = disk["db"] /\ (JournalContent' = JournalContent \/ JournalContent' = << >>)
  <2>1. CASE pager.jfd
    <3>1. disk' = [disk EXCEPT !["journal"] = NoFile]
      BY <2>1 DEF Close, Delete
    <3>2. disk'["journal"] = NoFile /\ disk'["db"] = disk["db"]
      BY <3>1 DEF TypeInv, FilesOK, StoreTypeOK
    <3>. QED
      BY <3>2 DEF JournalContent, Exists
  <2>2. CASE ~pager.jfd
    BY <2>2, SameDisk DEF Close
  <2>. QED
    BY <2>1, <2>2
<1>3. SeedsDrawn'
  <2>1. CASE JournalContent' = JournalContent
    BY <1>1, <2>1 DEF SeedsDrawn
  <2>2. CASE JournalContent' = << >>
    BY <2>2 DEF SeedsDrawn, SeedsBefore
  <2>. QED
    BY <1>2, <2>1, <2>2
<1>4. AllRestored(committed, disk["db"], cache') /\ NewFileIsBlank(committed, disk["db"])
      /\ NewPageIsBlank(committed, cache')
  BY <1>1 DEF Settled, SettledPages, AllRestored, Restored, NewPageIsBlank
<1>. QED
  BY <1>1, <1>2, <1>3, <1>4 DEF Settled, SettledPages, IsIdle, ClosedPager

-----------------------------------------------------------------------------
(* What is seen of a transaction.                                          *)

LEMMA LockedBegun ==
    TypeInv /\ Settled /\ pager.eState = "LOCKED" => Begun(committed, disk["db"], cache, pager)
<1> SUFFICES ASSUME TypeInv, Settled, pager.eState = "LOCKED"
             PROVE  Begun(committed, disk["db"], cache, pager)
  OBVIOUS
<1> PICK com \in Seq(Versions) : com = committed
  BY InvTyped
<1> PICK db \in Databases : db = disk["db"]
  BY InvTyped
<1> PICK n \in 0 .. NPages : n = pager.dbSize
  BY InvTyped DEF Pagers
<1>1. /\ AllRestored(com, db, cache) /\ NewPageIsBlank(com, cache) /\ Len(com) <= n
      /\ 1 \in DOMAIN cache /\ (com = << >> => n = 0)
  BY DEF Settled, SettledPages
<1>2. Len(com) \in Nat /\ n \in Nat /\ NPages \in Nat /\ Len(com) <= NPages
  BY <1>1, NPagesIsPositive
<1>3. \A p \in OldPages(com) : /\ p \in Page /\ p <= Len(db) /\ ContentOf(db[p]) = Old(com, p)
                               /\ p \in DOMAIN cache => cache[p] = Old(com, p)
                               /\ Old(com, p).size = IF p = 1 THEN Len(com) ELSE 0
  BY <1>1, <1>2, OldIs DEF AllRestored, Restored, Untouched
<1>4. cache[1].size = Len(com) /\ (Len(com) = 0 => n = 0)
  <2>1. CASE com = << >>
    <3>1. Len(com) = 0
      BY ONLY <2>1
    <3>. QED
      BY <1>1, <2>1, <3>1 DEF NewPageIsBlank
  <2>2. CASE com # << >>
    <3>1. Len(com) # 0 /\ 1 \in OldPages(com)
      BY <2>2, <1>2, EmptySeq DEF OldPages
    <3>. QED
      BY <1>1, <1>3, <3>1
  <2>. QED
    BY <2>1, <2>2
<1>5. IsSize(cache[1].size, n) /\ Len(com) <= cache[1].size
  BY <1>1, <1>2, <1>4 DEF IsSize
<1>6. ASSUME NEW p \in 1 .. cache[1].size
      PROVE  /\ p <= Len(db) /\ (p \in DOMAIN cache => cache[p] = ContentOf(db[p]))
             /\ p # 1 => FetchedFrom(cache, db, n, p).size = 0
  <2>1. p \in OldPages(com) /\ p <= n
    BY <1>1, <1>2, <1>4 DEF OldPages
  <2>2. p \in 1 .. Len(db)
    <3>1. Len(db) \in Nat
      BY DEF Databases
    <3>. QED
      BY <1>3, <2>1, <3>1 DEF OldPages
  <2>. QED
    BY <1>3, <2>1, <2>2 DEF FetchedFrom, At
<1>. QED
  BY <1>1, <1>5, <1>6 DEF Begun

LEMMA BegunSees ==
    ASSUME TypeInv, pager.eState \notin {"CLOSED", "OPEN"},
           Begun(committed, disk["db"], cache, pager)
    PROVE  /\ DbSize = pager.dbSize /\ Size = cache[1].size /\ IsDatabase
           /\ Size \in 0 .. NPages /\ pager.dbSize \in 0 .. NPages
           /\ Size <= pager.dbSize
           /\ View = [p \in 1 .. Size |-> Fetched(p).by]
           /\ Len(committed) <= Size
<1>1. DbSize = pager.dbSize
  BY DEF DbSize
<1>2. Size = cache[1].size
  BY DEF Begun, Size, Fetched
<1>3. IsDatabase /\ Len(committed) <= Size
  BY <1>1, <1>2 DEF Begun, IsDatabase
<1>4. Size \in 0 .. NPages /\ pager.dbSize \in 0 .. NPages
  BY SizeTyped, InvTyped DEF Pagers
<1>5. Size <= pager.dbSize
  BY <1>1, <1>3, <1>4, NPagesIsPositive DEF IsDatabase, IsSize
<1>6. View = [p \in 1 .. Size |-> Fetched(p).by]
  BY <1>3 DEF View
<1>. QED
  BY <1>1, <1>2, <1>3, <1>4, <1>5, <1>6

\* The page p that is written, the pages new that are added, and the size that
\* the database then has.
Writes(p, size, new) ==
    \/ new = {} /\ size = Size /\ p \in 1 .. Size
    \/ /\ p = 1 /\ size = Size + 1 /\ size <= NPages
       /\ \/ new = {Size + 1} /\ Size >= 1
          \/ new = {} /\ Size = 0

LEMMA WritesAre ==
    ASSUME TypeInv, NEW p, NEW size, NEW new, Writes(p, size, new)
    PROVE  /\ p \in Page /\ size \in 1 .. NPages /\ size \in Nat /\ new \in SUBSET Page
           /\ p \in 1 .. size /\ new \subseteq 1 .. size
           /\ \A q \in 1 .. size : q \notin {p} \cup new => q \in 1 .. Size
           /\ size # Size => p = 1
           /\ Size <= size
           /\ \A q \in new : q > Size
<1>1. Size \in Nat /\ Size <= NPages /\ NPages \in Nat /\ NPages >= 1
  BY SizeTyped, NPagesIsPositive
<1>2. CASE new = {} /\ size = Size /\ p \in 1 .. Size
  BY <1>1, <1>2 DEF Page
<1>3. CASE p = 1 /\ size = Size + 1 /\ size <= NPages /\ new = {Size + 1} /\ Size >= 1
  BY <1>1, <1>3 DEF Page
<1>4. CASE p = 1 /\ size = Size + 1 /\ size <= NPages /\ new = {} /\ Size = 0
  BY <1>1, <1>4 DEF Page
<1>. QED
  BY <1>2, <1>3, <1>4 DEF Writes

LEMMA CacheAfterWrite ==
    ASSUME TypeInv, NEW p \in Page, NEW size \in 0 .. NPages, NEW new \in SUBSET Page,
           PagerWritten(p, size, new)
    PROVE  /\ DOMAIN cache' = {p} \cup new \cup DOMAIN cache
           /\ \A q \in DOMAIN cache' :
                 cache'[q] = IF q \in {p} \cup new THEN WrittenBy(tx, q, size) ELSE cache[q]
           /\ \A q \in {p} \cup new : /\ WrittenBy(tx, q, size) \in Content
                                      /\ WrittenBy(tx, q, size).by = tx
                                      /\ WrittenBy(tx, q, size).size = IF q = 1 THEN size ELSE 0
<1>1. {p} \cup new \in SUBSET Page
  OBVIOUS
<1> PICK S \in SUBSET Page : S = {p} \cup new
  BY <1>1
<1>2. \A q \in S : /\ WrittenBy(tx, q, size) \in Content
                   /\ WrittenBy(tx, q, size).by = tx
                   /\ WrittenBy(tx, q, size).size = IF q = 1 THEN size ELSE 0
  BY WrittenIsContent, InvTyped DEF Version
<1>3. [q \in S |-> WrittenBy(tx, q, size)] \in [S -> Content]
  BY <1>2
<1>4. cache' = WithPages([q \in S |-> WrittenBy(tx, q, size)])
  BY DEF PagerWritten
<1>5. cache' = [q \in S \cup DOMAIN cache |-> IF q \in S THEN WrittenBy(tx, q, size) ELSE cache[q]]
  BY <1>4 DEF WithPages
<1>. QED
  BY <1>2, <1>5

LEMMA DbAfterWrite ==
    ASSUME TypeInv, NEW p \in Page, NEW size, NEW new, PagerWritten(p, size, new)
    PROVE  disk'["db"] = disk["db"]
<1>1. CASE Starts \/ IsRecorded(p)
  BY <1>1, CellsWritten DEF PagerWritten
<1>2. CASE ~(Starts \/ IsRecorded(p))
  BY <1>2 DEF PagerWritten
<1>. QED
  BY <1>1, <1>2

LEMMA SizeAfterWrite ==
    ASSUME TypeInv, pager.eState \notin {"CLOSED", "OPEN"},
           Begun(committed, disk["db"], cache, pager),
           NEW p, NEW size, NEW new, Writes(p, size, new), PagerWritten(p, size, new)
    PROVE  pager'.dbSize \in Nat /\ size <= pager'.dbSize /\ pager.dbSize <= pager'.dbSize
<1>1. /\ Size \in Nat /\ pager.dbSize \in Nat /\ Size <= pager.dbSize
      /\ size \in Nat /\ (size = Size \/ (size = Size + 1 /\ size \in {p} \cup new))
  BY BegunSees, WritesAre, NPagesIsPositive DEF Writes
<1>2. pager'.dbSize = (IF \A q \in {p} \cup new : q <= pager.dbSize
                       THEN pager.dbSize ELSE pager.dbSize + 1)
  BY DEF PagerWritten
<1>. QED
  BY <1>1, <1>2

\* After a write the program sees a database with the new pages.
LEMMA WriteSeen ==
    ASSUME TypeInv, pager.eState \notin {"CLOSED", "OPEN"},
           Begun(committed, disk["db"], cache, pager),
           NEW p, NEW size, NEW new, Writes(p, size, new), PagerWritten(p, size, new),
           committed' = committed
    PROVE  /\ Made(committed, disk["db"], cache, pager)'
           /\ \A q \in 1 .. size :
                 FetchedFrom(cache', disk'["db"], pager'.dbSize, q).by =
                    IF q \in {p} \cup new THEN tx ELSE Fetched(q).by
           /\ cache'[1].size = size
<1> PICK db \in Databases : db = disk["db"]
  BY InvTyped
<1> PICK S : S = {p} \cup new
  OBVIOUS
<1>1. /\ p \in Page /\ size \in 1 .. NPages /\ size \in Nat /\ new \in SUBSET Page /\ S \subseteq 1 .. size
      /\ \A q \in 1 .. size : q \notin S => q \in 1 .. Size
      /\ size # Size => p = 1
      /\ Size <= size
  BY WritesAre
<1>2. /\ DOMAIN cache' = S \cup DOMAIN cache
      /\ \A q \in DOMAIN cache' :
            cache'[q] = IF q \in S THEN WrittenBy(tx, q, size) ELSE cache[q]
      /\ \A q \in S : /\ WrittenBy(tx, q, size).by = tx
                      /\ WrittenBy(tx, q, size).size = IF q = 1 THEN size ELSE 0
  <2>1. size \in 0 .. NPages
    BY <1>1, NPagesIsPositive
  <2>. QED
    BY SMTT(30), <1>1, <2>1, CacheAfterWrite
<1>3. disk'["db"] = db
  BY <1>1, DbAfterWrite
<1>4. pager'.dbSize \in Nat /\ size <= pager'.dbSize /\ pager.dbSize <= pager'.dbSize
  BY SizeAfterWrite
<1>5. /\ DbSize = pager.dbSize /\ Size = cache[1].size /\ Size \in Nat /\ pager.dbSize \in Nat
      /\ Size <= pager.dbSize /\ Len(committed) <= Size /\ 1 \in DOMAIN cache
  BY BegunSees, NPagesIsPositive DEF Begun
<1>6. cache'[1].size = size
  <2>1. CASE 1 \in S
    BY <1>2, <2>1
  <2>2. CASE 1 \notin S
    BY <1>1, <1>2, <1>5, <2>2
  <2>. QED
    BY <2>1, <2>2
<1>7. IsSize(size, pager'.dbSize) /\ size # 0
  BY <1>1, <1>4, NPagesIsPositive DEF IsSize
<1>8. Len(committed) <= size
  <2>1. Len(committed) \in Nat
    BY InvTyped
  <2>. QED
    BY <1>1, <1>5, <2>1
<1>9. pager'.dirty = pager.dirty \cup S
  BY DEF PagerWritten
<1>10. ASSUME NEW q \in 1 .. size
       PROVE  /\ FetchedFrom(cache', db, pager'.dbSize, q).by =
                    IF q \in S THEN tx ELSE Fetched(q).by
              /\ \/ q \in pager'.dirty
                 \/ q <= Len(db) /\ (q \in DOMAIN cache' => cache'[q] = ContentOf(db[q]))
              /\ q # 1 => FetchedFrom(cache', db, pager'.dbSize, q).size = 0
  <2>1. CASE q \in S
    <3>1. FetchedFrom(cache', db, pager'.dbSize, q) = WrittenBy(tx, q, size)
      BY <1>2, <2>1 DEF FetchedFrom
    <3>. QED
      BY <1>2, <1>9, <2>1, <3>1
  <2>2. CASE q \notin S
    <3>1. q \in 1 .. cache[1].size /\ q <= pager.dbSize /\ q <= pager'.dbSize
      BY <1>1, <1>4, <1>5, <2>2
    <3>2. FetchedFrom(cache', db, pager'.dbSize, q) = FetchedFrom(cache, db, pager.dbSize, q)
      BY <1>2, <2>2, <3>1 DEF FetchedFrom
    <3>3. Fetched(q) = FetchedFrom(cache, db, pager.dbSize, q)
      BY <1>5, ViewIs
    <3>4. /\ \/ q \in pager.dirty
             \/ q <= Len(db) /\ (q \in DOMAIN cache => cache[q] = ContentOf(db[q]))
          /\ q # 1 => FetchedFrom(cache, db, pager.dbSize, q).size = 0
      BY <3>1 DEF Begun
    <3>. QED
      BY <1>2, <1>9, <2>2, <3>2, <3>3, <3>4
  <2>. QED
    BY <2>1, <2>2
<1>11. 1 \in DOMAIN cache'
  BY <1>2, <1>5
<1>12. Begun(committed', db, cache', pager')
  BY <1>6, <1>7, <1>8, <1>10, <1>11 DEF Begun
<1>13. Made(committed, disk["db"], cache, pager)'
  BY <1>3, <1>6, <1>7, <1>12 DEF Made
<1>. QED
  BY <1>3, <1>6, <1>10, <1>13

-----------------------------------------------------------------------------
(* What a write does to the journal                                        *)

LEMMA JournalAfterWrite ==
    ASSUME TypeInv, NEW p \in Page, NEW size, NEW new, PagerWritten(p, size, new)
    PROVE  /\ JournalContent' \in Seq(JournalCell) /\ Len(JournalContent') \in Nat
           /\ Len(JournalContent) <= Len(JournalContent')
           /\ Starts => /\ Len(JournalContent') >= 2
                        /\ JournalContent'[1] = ZeroCell
                        /\ JournalContent'[2] = Nonce(prng + 1, pager.dbOrigSize)
           /\ IsRecorded(p) => /\ RecordOff + 3 <= Len(JournalContent')
                               /\ JournalContent'[RecordOff + 1] = Pgno(p)
                               /\ JournalContent'[RecordOff + 2] = PageCell(cache[p])
                               /\ JournalContent'[RecordOff + 3] =
                                     Cksum(WithJournal.cksumInit, cache[p])
           /\ \A i \in 1 .. Len(JournalContent') :
                 (Starts => i > 2) /\ (IsRecorded(p) => i \notin RecordOff + 1 .. RecordOff + 3)
                 => JournalContent'[i] = At(JournalContent, i)
<1>1. JournalContent \in Seq(JournalCell) /\ Len(JournalContent) \in Nat
  BY InvTyped
<1>2. RecordOff \in Nat /\ (Starts => RecordOff = 2)
  BY WithJournalIs DEF RecordOff, Pagers
<1>3. CASE Starts \/ IsRecorded(p)
  <2>1. p \in DOMAIN cache
        /\ WriteJournal(WithJournal.journalOff - Len(FirstHeader),
                        FirstHeader \o RecordOf(p, WithJournal.cksumInit))
    BY <1>3 DEF PagerWritten
  <2>2. /\ JournalContent' \in Seq(JournalCell)
        /\ Len(JournalContent') = Longer(Len(JournalContent),
                                         RecordOff + (IF IsRecorded(p) THEN 3 ELSE 0))
        /\ Starts => /\ JournalContent'[1] = ZeroCell
                     /\ JournalContent'[2] = Nonce(prng + 1, pager.dbOrigSize)
        /\ IsRecorded(p) =>
              /\ JournalContent'[RecordOff + 1] = Pgno(p)
              /\ JournalContent'[RecordOff + 2] = PageCell(cache[p])
              /\ JournalContent'[RecordOff + 3] = Cksum(WithJournal.cksumInit, cache[p])
        /\ \A i \in 1 .. Len(JournalContent') :
              (Starts => i > 2) /\ (IsRecorded(p) => i \notin RecordOff + 1 .. RecordOff + 3)
              => JournalContent'[i] = At(JournalContent, i)
    BY <1>3, <2>1, CellsWritten
  <2>3. Len(JournalContent') \in Nat
    BY <2>2
  <2> PICK m \in Nat : m = Len(JournalContent)
    BY <1>1
  <2> PICK m2 \in Nat : m2 = Len(JournalContent')
    BY <2>3
  <2>4. m <= m2 /\ (Starts => m2 >= 2) /\ (IsRecorded(p) => RecordOff + 3 <= m2)
    BY <1>2, <2>2 DEF Longer
  <2>. QED
    BY <2>2, <2>3, <2>4
<1>4. CASE ~(Starts \/ IsRecorded(p))
  <2>1. JournalContent' = JournalContent
    BY <1>4, SameDisk DEF PagerWritten
  <2>2. \A i \in 1 .. Len(JournalContent) : JournalContent[i] = At(JournalContent, i)
    BY DEF At
  <2>. QED
    BY <1>1, <1>4, <2>1, <2>2
<1>. QED
  BY <1>3, <1>4

\* A check-sum in the journal is an old one or that of the record.
LEMMA CksumsAfterWrite ==
    ASSUME TypeInv, NEW p \in Page, NEW size, NEW new, PagerWritten(p, size, new),
           NEW i \in DOMAIN JournalContent', IsCksum(JournalContent'[i])
    PROVE  \/ /\ i \in DOMAIN JournalContent /\ JournalContent'[i] = JournalContent[i]
              /\ i \in Nat
           \/ /\ IsRecorded(p) /\ i = RecordOff + 3
              /\ JournalContent'[i].cksum[1] = WithJournal.cksumInit
<1> PICK j : j = JournalContent
  OBVIOUS
<1> PICK j2 : j2 = JournalContent'
  OBVIOUS
<1>1. j2 \in Seq(JournalCell) /\ Len(j2) \in Nat /\ j \in Seq(JournalCell) /\ Len(j) \in Nat
  BY JournalAfterWrite, InvTyped
<1>2. i \in 1 .. Len(j2) /\ i \in Nat
  BY <1>1
<1>3. RecordOff \in Nat /\ WithJournal.cksumInit \in Nat
  BY WithJournalIs DEF RecordOff, Pagers
<1>4. cache[p] \in Content /\ pager.dbOrigSize \in 0 .. NPages /\ prng + 1 \in Nat
  <2>1. p \in DOMAIN cache
    BY DEF PagerWritten
  <2>2. pager \in Pagers /\ prng \in Nat /\ cache[p] \in Content
    BY <2>1, InvTyped
  <2>. QED
    BY <2>2 DEF Pagers
<1>5. CASE Starts /\ i <= 2
  <2>1. i = 1 \/ i = 2
    BY <1>2, <1>5
  <2>2. j2[1] = ZeroCell /\ j2[2] = Nonce(prng + 1, pager.dbOrigSize)
    BY <1>5, JournalAfterWrite
  <2>3. ~IsCksum(ZeroCell) /\ ~IsCksum(Nonce(prng + 1, pager.dbOrigSize))
    BY <1>4, ZeroIs, NonceIs
  <2>. QED
    BY <2>1, <2>2, <2>3
<1>6. CASE IsRecorded(p) /\ i \in RecordOff + 1 .. RecordOff + 3
  <2>1. i = RecordOff + 1 \/ i = RecordOff + 2 \/ i = RecordOff + 3
    BY <1>3, <1>6
  <2>2. /\ j2[RecordOff + 1] = Pgno(p) /\ j2[RecordOff + 2] = PageCell(cache[p])
        /\ j2[RecordOff + 3] = Cksum(WithJournal.cksumInit, cache[p])
    BY <1>6, JournalAfterWrite
  <2>3. ~IsCksum(Pgno(p)) /\ ~IsCksum(PageCell(cache[p]))
        /\ Cksum(WithJournal.cksumInit, cache[p]).cksum[1] = WithJournal.cksumInit
    BY <1>3, <1>4, PgnoIs, PageCellIs, CksumIs
  <2>. QED
    BY <1>6, <2>1, <2>2, <2>3
<1>7. CASE (Starts => i > 2) /\ (IsRecorded(p) => i \notin RecordOff + 1 .. RecordOff + 3)
  <2>1. j2[i] = At(j, i)
    BY <1>2, <1>7, JournalAfterWrite
  <2>2. i \in 1 .. Len(j)
    BY <2>1, ZeroIs DEF At
  <2>. QED
    BY <1>1, <1>2, <2>1, <2>2 DEF At
<1>. QED
  BY <1>2, <1>5, <1>6, <1>7

LEMMA SeedsAfterWrite ==
    ASSUME TypeInv, SeedsDrawn, NEW p \in Page, NEW size, NEW new, PagerWritten(p, size, new),
           Starts \/ pager.cksumInit = prng
    PROVE  SeedsDrawn'
<1>1. prng \in Nat /\ WithJournal.cksumInit = prng' /\ prng' \in Nat /\ prng <= prng'
  BY WithJournalIs, InvTyped DEF PagerWritten
<1>2. ASSUME NEW i \in DOMAIN JournalContent', IsCksum(JournalContent'[i])
      PROVE  JournalContent'[i].cksum[1] < prng' + 1
  <2>1. CASE /\ i \in DOMAIN JournalContent /\ JournalContent'[i] = JournalContent[i]
             /\ i \in Nat
    <3>1. i > 0 /\ JournalContent[i] \in JournalCell
      BY <2>1, InvTyped
    <3>2. JournalContent[i].cksum[1] < prng + 1 /\ JournalContent[i].cksum[1] \in Nat
      BY <1>2, <2>1, <3>1, CellsHold DEF SeedsDrawn, SeedsBefore
    <3>. QED
      BY <1>1, <2>1, <3>2
  <2>2. CASE JournalContent'[i].cksum[1] = WithJournal.cksumInit
    <3>1. \A n \in Nat : n < n + 1
      OBVIOUS
    <3>2. JournalContent'[i].cksum[1] = prng'
      BY <1>1, <2>2
    <3>. QED
      BY ONLY <1>1, <3>1, <3>2
  <2>. QED
    BY <1>2, <2>1, <2>2, CksumsAfterWrite
<1>. QED
  BY <1>2 DEF SeedsDrawn, SeedsBefore

\* With segs as the records before, the page is recorded if it has to be.
LEMMA WriteRecords ==
    ASSUME TypeInv, TypeInv', NEW p, NEW size, NEW new, Writes(p, size, new),
           PagerWritten(p, size, new), committed' = committed, pc'.at # "syncHdr",
           Len(committed) <= Size,
           NEW segs,
           HasRecords(committed, disk["db"], JournalContent', segs, WithJournal),
           Recorded(committed, disk["db"], cache, segs, WithJournal, prng'),
           SeedsBefore(JournalContent',
                       End(segs, WithJournal.journalHdr) + (IF IsRecorded(p) THEN 3 ELSE 0), prng'),
           JournalContent'[WithJournal.journalHdr + 1] = ZeroCell
    PROVE  \E s : RecordedBy(s)'
<1> PICK com \in Seq(Versions) : com = committed
  BY InvTyped
<1> PICK db : db = disk["db"]
  OBVIOUS
<1> PICK hdr \in Nat : hdr = WithJournal.journalHdr
  BY WithJournalIs DEF Pagers
<1> PICK orig \in Nat : orig = pager.dbOrigSize
  BY InvTyped DEF Pagers
<1> PICK seed \in Nat : seed = prng'
  BY DEF TypeInv, CountersOK
<1> PICK j : j = JournalContent'
  OBVIOUS
<1>1. p \in Page /\ new \in SUBSET Page /\ \A q \in new : q > Size
  BY WritesAre
<1>2. /\ pager'.journalHdr = hdr /\ pager'.dbOrigSize = orig /\ WithJournal.dbOrigSize = orig
      /\ pager'.eState = WithJournal.eState
      /\ pager'.journalOff = RecordOff + (IF IsRecorded(p) THEN 3 ELSE 0)
      /\ pager'.nRec = WithJournal.nRec + (IF IsRecorded(p) THEN 1 ELSE 0)
      /\ pager'.cksumInit = WithJournal.cksumInit
      /\ pager'.inJournal = pager.inJournal \cup RecordedIn(p) \cup {q \in new : q <= pager.dbOrigSize}
      /\ pager'.dirty = pager.dirty \cup {p} \cup new
      /\ RecordedIn(p) \cup pager.needSync \subseteq pager'.needSync
      /\ p \in DOMAIN cache
  BY WithJournalIs DEF PagerWritten
<1>3. /\ Chained(segs, hdr) /\ IsJournal(j, segs, hdr, orig, com)
      /\ Len(com) <= orig /\ (com = << >> => orig = 0) /\ NewFileIsBlank(com, db)
      /\ pager'.eState = "CACHEMOD" => \A q \in OldPages(com) : Untouched(com, db, q)
      /\ \A q \in OldPages(com) : InSegment(segs, hdr, q) => Untouched(com, db, q)
  BY <1>2 DEF HasRecords
<1>4. /\ Len(segs[hdr].pages) = WithJournal.nRec
      /\ segs[hdr].seed = seed /\ WithJournal.cksumInit = seed
      /\ orig <= pager.dbSize
      /\ RecordOff = End(segs, hdr)
      /\ \A q \in OldPages(com) :
            /\ q \notin pager.inJournal => Restored(com, db, cache, q)
            /\ q \in pager.inJournal => Ahead(segs, q, 0)
            /\ q \in pager.dirty => q \in pager.inJournal
      /\ \A q \in Page : InSegment(segs, hdr, q) => q \in pager.needSync
  BY <1>2, WithJournalIs DEF Recorded, RecordOff
<1>5. /\ Len(j) \in Nat
      /\ IsRecorded(p) => /\ RecordOff + 3 <= Len(j)
                          /\ j[RecordOff + 1] = Pgno(p)
                          /\ j[RecordOff + 2] = PageCell(cache[p])
                          /\ j[RecordOff + 3] = Cksum(WithJournal.cksumInit, cache[p])
  BY <1>1, JournalAfterWrite
<1>6. disk'["db"] = db /\ pager.dbSize <= pager'.dbSize
  <2>1. disk'["db"] = db
    BY <1>1, DbAfterWrite
  <2>2. pager'.dbSize = (IF \A q \in {p} \cup new : q <= pager.dbSize
                         THEN pager.dbSize ELSE pager.dbSize + 1)
    BY DEF PagerWritten
  <2>3. pager.dbSize \in Nat
    BY InvTyped DEF Pagers
  <2>. QED
    BY <2>1, <2>2, <2>3
<1>7. orig <= pager'.dbSize
  <2>1. pager.dbSize \in Nat
    BY InvTyped DEF Pagers
  <2>2. pager'.dbSize \in Nat
    <3>1. pager' \in Pagers
      BY DEF PagerWritten
    <3>. QED
      BY <3>1 DEF Pagers
  <2>. QED
    BY <2>1, <2>2, <1>4, <1>6
<1>8. \A q \in DOMAIN cache' : q \notin {p} \cup new => q \in DOMAIN cache /\ cache'[q] = cache[q]
  <2>1. size \in 0 .. NPages
    BY WritesAre, NPagesIsPositive
  <2>2. /\ DOMAIN cache' = {p} \cup new \cup DOMAIN cache
        /\ \A q \in DOMAIN cache' :
              cache'[q] = IF q \in {p} \cup new THEN WrittenBy(tx, q, size) ELSE cache[q]
    BY ONLY ZenonT(60), TypeInv, PagerWritten(p, size, new), <1>1, <2>1, CacheAfterWrite
  <2>. QED
    BY <2>2
<1>9. ASSUME NEW q \in OldPages(com)
      PROVE  /\ q \notin new /\ (q = p => p \in pager'.inJournal)
             /\ q \in pager'.inJournal <=> q \in pager.inJournal \/ (q = p /\ IsRecorded(p))
  <2>1. q \in Nat /\ q <= Len(com) /\ Len(com) \in Nat /\ Size \in Nat
    BY SizeTyped, NPagesIsPositive DEF OldPages
  <2>2. q \notin new
    BY <1>1, <2>1
  <2>3. q <= orig
    BY <1>3, <2>1
  <2>4. q \in pager'.inJournal <=> q \in pager.inJournal \/ (q = p /\ IsRecorded(p))
    BY <1>2, <2>2 DEF RecordedIn
  <2>5. q = p => p \in pager.inJournal \/ IsRecorded(p)
    BY <2>3 DEF IsRecorded
  <2>. QED
    BY <2>2, <2>4, <2>5
<1>10. ASSUME NEW q \in OldPages(com), q \notin pager'.inJournal
       PROVE  Restored(com, db, cache', q)
  <2>1. q \notin {p} \cup new /\ q \notin pager.inJournal
    BY <1>9, <1>10
  <2>2. Restored(com, db, cache, q)
    BY <1>4, <2>1
  <2>. QED
    BY <1>8, <2>1, <2>2 DEF Restored
<1>11. \A q \in OldPages(com) : q \in pager'.dirty => q \in pager'.inJournal
  BY <1>2, <1>4, <1>9
<1>12. pager'.cksumInit = seed /\ pc'.at # "syncHdr"
  BY <1>2, <1>4
<1>13. CASE ~IsRecorded(p)
  <2>1. HasRecords(com, db, j, segs, pager')
    BY <1>2, <1>3 DEF HasRecords
  <2>2. SeedsBefore(j, End(segs, hdr), seed)
    <3>1. End(segs, hdr) \in Nat
      <4>1. segs \in Segments /\ hdr \in DOMAIN segs
        BY <1>3 DEF Chained
      <4>. QED
        BY <4>1, SegmentIs
    <3>2. End(segs, hdr) + 0 = End(segs, hdr)
      BY <3>1
    <3>. QED
      BY <1>13, <3>2
  <2>3. Reversible(com, db, j, segs, pager')
    BY <1>2, <1>4, <2>1, <2>2 DEF Reversible
  <2>4. pager'.nRec = WithJournal.nRec /\ pager'.journalOff = End(segs, hdr)
    <3>1. WithJournal.nRec \in Nat /\ RecordOff \in Nat
      BY WithJournalIs DEF Pagers, RecordOff
    <3>. QED
      BY <1>2, <1>4, <1>13, <3>1
  <2>5. \A q \in Page : InSegment(segs, hdr, q) => q \in pager'.needSync
    BY <1>2, <1>4
  <2>6. \A q \in OldPages(com) : q \in pager'.inJournal => Ahead(segs, q, 0)
    BY <1>4, <1>9, <1>13
  <2>7. Recorded(com, db, cache', segs, pager', seed)
    BY <1>2, <1>4, <1>7, <1>10, <1>11, <1>12, <2>4, <2>5, <2>6 DEF Recorded
  <2>8. Counted(j, pager', pc'.at)
    BY <1>2, <1>12 DEF Counted
  <2>. QED
    BY <1>6, <2>3, <2>7, <2>8 DEF RecordedBy
<1>14. CASE IsRecorded(p)
  <2> PICK s : s = WithRecord(segs, hdr, p)
    OBVIOUS
  <2>1. p <= orig
    BY <1>14 DEF IsRecorded
  <2>2. IsRecord(j, End(segs, hdr), segs[hdr].seed, p, com)
    <3>1. cache[p] \in Content
      BY <1>2, InvTyped
    <3>2. p \in OldPages(com) => cache[p] = Old(com, p)
      <4> SUFFICES ASSUME p \in OldPages(com) PROVE cache[p] = Old(com, p)
        OBVIOUS
      <4>1. p \notin pager.inJournal
        BY <1>14 DEF IsRecorded
      <4>. QED
        BY <1>2, <1>4, <4>1 DEF Restored
    <3>. QED
      BY <1>4, <1>5, <1>14, <3>1, <3>2 DEF IsRecord
  <2>3. /\ Chained(s, hdr) /\ IsJournal(j, s, hdr, orig, com)
        /\ End(s, hdr) = End(segs, hdr) + 3 /\ s[hdr].seed = segs[hdr].seed
        /\ Len(s[hdr].pages) = Len(segs[hdr].pages) + 1
        /\ \A q : InSegment(s, hdr, q) <=> q = p \/ InSegment(segs, hdr, q)
        /\ \A q : Ahead(segs, q, 0) \/ q = p => Ahead(s, q, 0)
    <3>1. End(segs, hdr) + 3 <= Len(j) /\ Len(j) \in Nat
      BY <1>4, <1>5, <1>14
    <3>. QED
      BY ONLY RecordAdded, <1>1, <1>3, <2>1, <2>2, <3>1, s = WithRecord(segs, hdr, p)
  <2>4. p \in OldPages(com) => Untouched(com, db, p)
    <3>1. p \notin pager.inJournal
      BY <1>14 DEF IsRecorded
    <3>. QED
      BY <1>4, <3>1 DEF Restored
  <2>5. HasRecords(com, db, j, s, pager')
    BY <1>2, <1>3, <2>3, <2>4 DEF HasRecords
  <2>6. SeedsBefore(j, End(s, hdr), seed)
    BY <1>14, <2>3
  <2>7. Reversible(com, db, j, s, pager')
    BY <1>2, <1>4, <2>3, <2>5, <2>6 DEF Reversible
  <2>8. pager'.nRec = Len(s[hdr].pages) /\ pager'.journalOff = End(s, hdr)
    BY <1>2, <1>4, <1>14, <2>3
  <2>9. \A q \in Page : InSegment(s, hdr, q) => q \in pager'.needSync
    BY <1>2, <1>4, <1>14, <2>3 DEF RecordedIn
  <2>10. \A q \in OldPages(com) : q \in pager'.inJournal => Ahead(s, q, 0)
    BY <1>4, <1>9, <2>3
  <2>11. Recorded(com, db, cache', s, pager', seed)
    BY <1>2, <1>4, <1>7, <1>10, <1>11, <1>12, <2>3, <2>8, <2>9, <2>10 DEF Recorded
  <2>12. Counted(j, pager', pc'.at)
    BY <1>2, <1>12 DEF Counted
  <2>. QED
    BY <1>6, <2>7, <2>11, <2>12 DEF RecordedBy
<1>. QED
  BY <1>13, <1>14

LEMMA WriteStarts ==
    ASSUME TypeInv, TypeInv', SeedsDrawn, Settled, Starts, NEW p, NEW size, NEW new,
           Writes(p, size, new), PagerWritten(p, size, new), committed' = committed,
           pc'.at # "syncHdr"
    PROVE  \E s : RecordedBy(s)'
<1> PICK com \in Seq(Versions) : com = committed
  BY InvTyped
<1> PICK db : db = disk["db"]
  OBVIOUS
<1> PICK orig \in Nat : orig = pager.dbOrigSize
  BY InvTyped DEF Pagers
<1> PICK seed \in Nat : seed = prng + 1
  BY InvTyped
<1> PICK j : j = JournalContent'
  OBVIOUS
<1> PICK segs : segs = FirstSegment(seed)
  OBVIOUS
<1> PICK pg : pg = WithJournal
  OBVIOUS
<1>1. p \in Page
  BY WritesAre
<1>2. /\ pg.eState = "CACHEMOD" /\ pg.nRec = 0 /\ pg.journalHdr = 0 /\ pg.journalOff = 2
      /\ pg.cksumInit = seed /\ pg.dbSize = pager.dbSize /\ pg.dbOrigSize = orig
      /\ pg.inJournal = pager.inJournal /\ pg.dirty = pager.dirty /\ RecordOff = 2
  BY WithJournalIs DEF RecordOff
<1>3. prng' = seed
  BY DEF PagerWritten
<1>4. pager.eState = "LOCKED" /\ IsIdle /\ pager.inJournal = {} /\ pager.dirty = {}
      /\ SettledPages(com, db, cache, pager)
  BY DEF Settled, Starts
<1>5. /\ AllRestored(com, db, cache) /\ NewFileIsBlank(com, db)
      /\ Len(com) <= pager.dbSize /\ orig = pager.dbSize /\ (com = << >> => pager.dbSize = 0)
  BY <1>4 DEF SettledPages
<1>6. Len(committed) <= Size
  BY <1>4, LockedBegun, BegunSees
<1>7. Len(j) \in Nat /\ Len(j) >= 2 /\ j[1] = ZeroCell /\ j[2] = Nonce(seed, orig)
  BY <1>1, JournalAfterWrite
<1>8. /\ Chained(segs, 0) /\ IsJournal(j, segs, 0, orig, com) /\ End(segs, 0) = 2
      /\ segs[0] = [seed |-> seed, pages |-> << >>]
  BY <1>7, JournalStarted
<1>9. segs[0].seed = seed /\ Len(segs[0].pages) = 0 /\ \A q : ~InSegment(segs, 0, q)
  <2>1. segs[0].seed = seed /\ Len(segs[0].pages) = 0
    BY <1>8
  <2>. QED
    BY <2>1 DEF InSegment
<1>10. HasRecords(com, db, j, segs, pg)
  <2>1. \A q \in OldPages(com) : Untouched(com, db, q)
    BY <1>5 DEF AllRestored, Restored
  <2>. QED
    BY <1>2, <1>5, <1>8, <2>1 DEF HasRecords
<1>11. Recorded(com, db, cache, segs, pg, seed)
  <2>1. orig <= pg.dbSize /\ pg.journalOff = End(segs, 0)
    BY <1>2, <1>5, <1>8
  <2>2. \A q \in OldPages(com) : Restored(com, db, cache, q)
    BY <1>5 DEF AllRestored
  <2>. QED
    BY <1>2, <1>4, <1>9, <2>1, <2>2 DEF Recorded
<1>12. ASSUME NEW n \in {2, 5}, IsRecorded(p) => n = 5
       PROVE  SeedsBefore(j, n, seed)
  <2> SUFFICES ASSUME NEW i \in DOMAIN j, IsCksum(j[i]), i > n PROVE j[i].cksum[1] < seed
    BY DEF SeedsBefore
  <2>1. ~(IsRecorded(p) /\ i = RecordOff + 3)
    BY <1>2, <1>12
  <2>2. i \in DOMAIN JournalContent /\ j[i] = JournalContent[i] /\ i \in Nat
    BY <1>1, <2>1, CksumsAfterWrite
  <2>3. i > 0
    BY <2>2
  <2>. QED
    BY <2>2, <2>3 DEF SeedsDrawn, SeedsBefore
<1>13. SeedsBefore(j, 2 + (IF IsRecorded(p) THEN 3 ELSE 0), seed)
  <2>1. CASE IsRecorded(p)
    BY <1>12, <2>1
  <2>2. CASE ~IsRecorded(p)
    BY <1>12, <2>2
  <2>. QED
    BY <2>1, <2>2
<1>14. /\ HasRecords(committed, disk["db"], JournalContent', segs, WithJournal)
       /\ Recorded(committed, disk["db"], cache, segs, WithJournal, prng')
       /\ SeedsBefore(JournalContent',
                      End(segs, WithJournal.journalHdr) + (IF IsRecorded(p) THEN 3 ELSE 0), prng')
       /\ JournalContent'[WithJournal.journalHdr + 1] = ZeroCell
  BY <1>2, <1>3, <1>7, <1>8, <1>10, <1>11, <1>13
<1>. QED
  BY <1>4, <1>6, <1>14, WriteRecords

LEMMA WriteGoesOn ==
    ASSUME TypeInv, TypeInv', Undecided, IsIdle, NEW p, NEW size, NEW new,
           Writes(p, size, new), PagerWritten(p, size, new), committed' = committed,
           pc'.at # "syncHdr"
    PROVE  \E s : RecordedBy(s)'
<1> PICK com \in Seq(Versions) : com = committed
  BY InvTyped
<1> PICK db : db = disk["db"]
  OBVIOUS
<1> PICK hdr \in Nat : hdr = pager.journalHdr
  BY InvTyped DEF Pagers
<1> PICK seed \in Nat : seed = prng
  BY InvTyped
<1> PICK j2 : j2 = JournalContent'
  OBVIOUS
<1> PICK j : j = JournalContent
  OBVIOUS
<1> PICK segs : RecordedBy(segs)
  BY DEF Undecided
<1>1. p \in Page
  BY WritesAre
<1>2. ~Starts /\ WithJournal = pager /\ prng' = prng /\ RecordOff = pager.journalOff
  BY DEF Undecided, UndecidedAt, Starts, WithJournal, PagerWritten, RecordOff
<1>3. /\ HasRecords(com, db, j, segs, pager) /\ SeedsBefore(j, End(segs, hdr), segs[hdr].seed)
      /\ Recorded(com, db, cache, segs, pager, seed)
      /\ j[hdr + 1] = ZeroCell
  BY DEF RecordedBy, Reversible, Counted, IsIdle, Idle
<1>4. /\ Chained(segs, hdr) /\ IsJournal(j, segs, hdr, pager.dbOrigSize, com)
      /\ End(segs, hdr) = pager.journalOff /\ segs[hdr].seed = seed
  BY <1>3 DEF HasRecords, Recorded
<1> PICK end \in Nat : end = End(segs, hdr)
  BY <1>4, InvTyped DEF Pagers
<1>5. end >= hdr + 2 /\ end <= Len(j)
  <2>1. segs \in Segments /\ hdr \in DOMAIN segs
    BY <1>4 DEF Chained
  <2>2. end = hdr + 2 + 3 * Len(segs[hdr].pages) /\ Len(segs[hdr].pages) \in Nat
    BY <2>1, SegmentIs
  <2>3. end >= hdr + 2
    BY <2>2
  <2>4. end <= Len(j)
    BY <1>4 DEF IsJournal
  <2>. QED
    BY <2>3, <2>4
<1>6. /\ Len(j) \in Nat /\ Len(j2) \in Nat /\ Len(j) <= Len(j2)
      /\ \A i \in 1 .. Len(j2) :
             (IsRecorded(p) => i \notin end + 1 .. end + 3) => j2[i] = At(j, i)
  BY <1>1, <1>2, <1>4, JournalAfterWrite, InvTyped
<1>7. \A i \in 1 .. end : j2[i] = j[i]
  <2> SUFFICES ASSUME NEW i \in 1 .. end PROVE j2[i] = j[i]
    OBVIOUS
  <2>1. i \in 1 .. Len(j2) /\ i \in 1 .. Len(j) /\ i \notin end + 1 .. end + 3
    BY <1>5, <1>6
  <2>. QED
    BY <1>6, <2>1 DEF At
<1>8. IsJournal(j2, segs, hdr, pager.dbOrigSize, com)
  <2>1. end <= Len(j2)
    BY <1>5, <1>6
  <2>. QED
    BY <1>4, <1>7, <2>1, JournalKept
<1>9. HasRecords(com, db, j2, segs, pager)
  BY <1>3, <1>8 DEF HasRecords
<1>10. ASSUME NEW n \in Nat, n >= end, IsRecorded(p) => n = end + 3
       PROVE  SeedsBefore(j2, n, seed)
  <2> SUFFICES ASSUME NEW i \in DOMAIN j2, IsCksum(j2[i]), i > n PROVE j2[i].cksum[1] < seed
    BY DEF SeedsBefore
  <2>1. ~(IsRecorded(p) /\ i = RecordOff + 3)
    BY <1>2, <1>4, <1>10
  <2>2. i \in DOMAIN JournalContent /\ j2[i] = JournalContent[i] /\ i \in Nat
    BY <1>1, <2>1, CksumsAfterWrite
  <2>3. i > end
    BY <1>10, <2>2
  <2>. QED
    BY <1>3, <1>4, <2>2, <2>3 DEF SeedsBefore
<1>11. SeedsBefore(j2, end + (IF IsRecorded(p) THEN 3 ELSE 0), seed)
  <2>1. end + (IF IsRecorded(p) THEN 3 ELSE 0) \in Nat
        /\ end + (IF IsRecorded(p) THEN 3 ELSE 0) >= end
        /\ (IsRecorded(p) => end + (IF IsRecorded(p) THEN 3 ELSE 0) = end + 3)
    OBVIOUS
  <2>. QED
    BY <1>10, <2>1
<1>12. j2[hdr + 1] = ZeroCell
  <2>1. hdr + 1 \in 1 .. end
    BY <1>5
  <2>. QED
    BY <1>3, <1>7, <2>1
<1>13. Len(committed) <= Size
  <2>1. pager.eState \notin {"CLOSED", "OPEN"}
    BY DEF Undecided, UndecidedAt
  <2>. QED
    BY <2>1, BegunSees DEF Undecided, Made
<1>14. /\ HasRecords(committed, disk["db"], JournalContent', segs, WithJournal)
       /\ Recorded(committed, disk["db"], cache, segs, WithJournal, prng')
       /\ SeedsBefore(JournalContent',
                      End(segs, WithJournal.journalHdr) + (IF IsRecorded(p) THEN 3 ELSE 0), prng')
       /\ JournalContent'[WithJournal.journalHdr + 1] = ZeroCell
  BY <1>2, <1>3, <1>9, <1>11, <1>12
<1>. QED
  BY <1>13, <1>14, WriteRecords

-----------------------------------------------------------------------------
(* The writes of a transaction                                             *)

\* The page p, the size and the new pages of a write.
LEMMA WriteActions ==
    ASSUME TypeInv, Settled \/ Undecided,
           NewDatabase \/ (\E p \in Page : WritePage(p)) \/ Extend
    PROVE  /\ IsIdle /\ InTransaction
           /\ Begun(committed, disk["db"], cache, pager)
           /\ \E p, size, new :
                 Writes(p, size, new) /\ PagerWritten(p, size, new)
           /\ UNCHANGED <<pc, committed, tx>>
<1>0. pager.changeCountDone \in BOOLEAN
  BY InvTyped DEF Pagers
<1>1. IsIdle /\ InTransaction /\ UNCHANGED <<pc, committed, tx>>
  BY DEF NewDatabase, WritePage, Extend, ghosts, InTransaction
<1>2. Begun(committed, disk["db"], cache, pager)
  <2>1. CASE Settled
    BY <1>1, <2>1, LockedBegun DEF Settled, InTransaction
  <2>2. CASE Undecided
    BY <2>2 DEF Undecided, Made
  <2>. QED
    BY <2>1, <2>2
<1>3. Size \in Nat /\ 1 \in Page /\ NPages \in Nat /\ 1 <= NPages /\ Size <= NPages
  BY SizeTyped, NPagesIsPositive DEF Page
<1>4. ASSUME NewDatabase PROVE \E p, size, new : Writes(p, size, new) /\ PagerWritten(p, size, new)
  <2>1. Size = 0 /\ PagerWrite(1, 1, {}, pager.changeCountDone)
    BY <1>4 DEF NewDatabase
  <2>2. PagerWritten(1, 1, {})
    BY <1>0, <1>3, <2>1, PagerWriteDoes
  <2>3. Writes(1, 1, {})
    BY <1>3, <2>1 DEF Writes
  <2>. QED
    BY <2>2, <2>3
<1>5. ASSUME NEW p \in Page, WritePage(p)
      PROVE  \E q, size, new : Writes(q, size, new) /\ PagerWritten(q, size, new)
  <2>1. p <= Size /\ PagerWrite(p, Size, {}, pager.changeCountDone)
    BY <1>5 DEF WritePage
  <2>2. PagerWritten(p, Size, {})
    BY <1>0, <2>1, PagerWriteDoes
  <2>3. Writes(p, Size, {})
    BY <1>3, <2>1 DEF Writes, Page
  <2>. QED
    BY <2>2, <2>3
<1>6. ASSUME Extend PROVE \E p, size, new : Writes(p, size, new) /\ PagerWritten(p, size, new)
  <2>1. Size \in 1 .. NPages - 1 /\ PagerWrite(1, Size + 1, {Size + 1}, pager.changeCountDone)
    BY <1>6 DEF Extend
  <2>2. {Size + 1} \in SUBSET Page
    BY <1>3, <2>1 DEF Page
  <2>3. PagerWritten(1, Size + 1, {Size + 1})
    BY <1>0, <1>3, <2>1, <2>2, PagerWriteDoes
  <2>4. Writes(1, Size + 1, {Size + 1})
    BY <1>3, <2>1 DEF Writes
  <2>. QED
    BY <2>3, <2>4
<1>. QED
  BY <1>1, <1>2, <1>4, <1>5, <1>6

LEMMA WriteKeeps ==
    ASSUME TypeInv, TypeInv', SeedsDrawn, Settled \/ Undecided,
           NewDatabase \/ (\E p \in Page : WritePage(p)) \/ Extend
    PROVE  SeedsDrawn' /\ Undecided'
<1>1. IsIdle /\ InTransaction /\ UNCHANGED <<pc, committed, tx>>
      /\ Begun(committed, disk["db"], cache, pager)
  BY WriteActions
<1> PICK p : \E size, new : Writes(p, size, new) /\ PagerWritten(p, size, new)
  BY WriteActions
<1> PICK size : \E new : Writes(p, size, new) /\ PagerWritten(p, size, new)
  OBVIOUS
<1> PICK new : Writes(p, size, new) /\ PagerWritten(p, size, new)
  OBVIOUS
<1>2. p \in Page
  BY WritesAre
<1>3. Made(committed, disk["db"], cache, pager)'
  BY <1>1, WriteSeen DEF InTransaction
<1>4. CASE Settled
  <2>1. Starts /\ tx >= 1
    BY <1>1, <1>4 DEF Settled, InTransaction, Starts
  <2>2. \E s : RecordedBy(s)'
    BY <1>1, <1>4, <2>1, WriteStarts DEF IsIdle, Idle
  <2>3. pager'.eState = "CACHEMOD"
    BY <2>1, WithJournalIs DEF PagerWritten
  <2>4. SeedsDrawn'
    BY <1>2, <2>1, SeedsAfterWrite
  <2>. QED
    BY <1>1, <1>3, <2>1, <2>2, <2>3, <2>4 DEF Undecided, UndecidedAt, IsIdle
<1>5. CASE Undecided
  <2>1. pager.eState \in {"CACHEMOD", "DBMOD"} /\ ~Starts /\ tx >= 1 /\ pager.cksumInit = prng
    BY <1>5 DEF Undecided, UndecidedAt, Starts, RecordedBy, Recorded
  <2>2. \E s : RecordedBy(s)'
    BY <1>1, <1>5, WriteGoesOn DEF IsIdle, Idle
  <2>3. pager'.eState = pager.eState
    BY <2>1, WithJournalIs DEF PagerWritten
  <2>4. SeedsDrawn'
    BY <1>2, <2>1, SeedsAfterWrite
  <2>. QED
    BY <1>1, <1>3, <2>1, <2>2, <2>3, <2>4 DEF Undecided, UndecidedAt, IsIdle
<1>. QED
  BY <1>4, <1>5

-----------------------------------------------------------------------------
(* Reading and spilling in a transaction                                   *)

LEMMA MadeKept ==
    ASSUME NEW com, NEW db, NEW pages, NEW pg, Made(com, db, pages, pg), NEW pages2,
           1 \in DOMAIN pages2, pages2[1] = pages[1],
           \A q \in 1 .. pages[1].size :
               /\ FetchedFrom(pages2, db, pg.dbSize, q) = FetchedFrom(pages, db, pg.dbSize, q)
               /\ q \in DOMAIN pages2 =>
                     \/ q \in DOMAIN pages /\ pages2[q] = pages[q]
                     \/ pages2[q] = ContentOf(db[q])
    PROVE  Made(com, db, pages2, pg)
BY DEF Made, Begun

\* A page that is read into the cache in a transaction.
LEMMA GetReads ==
    ASSUME TypeInv, NEW p \in Page, Get(p), Begun(committed, disk["db"], cache, pager),
           InTransaction
    PROVE  /\ p # 1 /\ p \in 1 .. cache[1].size /\ p \notin DOMAIN cache
           /\ DOMAIN cache' = {p} \cup DOMAIN cache
           /\ \A q \in DOMAIN cache' : cache'[q] = IF q = p THEN Fetched(p) ELSE cache[q]
           /\ p <= Len(disk["db"]) /\ p <= pager.dbSize
           /\ Fetched(p) = ContentOf(disk["db"][p])
<1>1. /\ p \notin DOMAIN cache /\ (p = 1 \/ p <= Size)
      /\ cache' = WithPages([q \in {p} |-> Fetched(q)])
  BY DEF Get
<1>2. [q \in {p} |-> Fetched(q)] \in [{p} -> Content] /\ {p} \in SUBSET Page
  BY FetchedTyped
<1>3. /\ DOMAIN cache' = {p} \cup DOMAIN cache
      /\ \A q \in DOMAIN cache' : cache'[q] = IF q = p THEN Fetched(p) ELSE cache[q]
  BY <1>1, <1>2, CacheWithPages DEF TypeInv
<1>4. p # 1 /\ DbSize = pager.dbSize /\ Size = cache[1].size /\ Size \in Nat
      /\ pager.dbSize \in Nat /\ Size <= pager.dbSize
  BY <1>1, BegunSees, NPagesIsPositive DEF InTransaction, Begun
<1>5. p \in 1 .. cache[1].size /\ p <= pager.dbSize
  BY <1>1, <1>4, NPagesIsPositive DEF Page
<1>6. p \notin pager.dirty
  BY <1>1, InvTyped
<1>7. p <= Len(disk["db"])
  BY <1>5, <1>6 DEF Begun
<1>8. p \in 1 .. Len(disk["db"])
  BY <1>5, <1>7, InvTyped, NPagesIsPositive DEF Page
<1>9. Fetched(p) = ContentOf(disk["db"][p])
  BY <1>1, <1>4, <1>5, <1>8 DEF Fetched, At
<1>. QED
  BY <1>1, <1>3, <1>4, <1>5, <1>7, <1>9

LEMMA GetUndecided == TypeInv /\ Undecided /\ (\E p \in Page : Get(p)) => Undecided'
<1> SUFFICES ASSUME TypeInv, Undecided, NEW p \in Page, Get(p) PROVE Undecided'
  OBVIOUS
<1>1. UNCHANGED <<disk, media, pager, prng, pc, committed, tx>>
  BY DEF Get, ghosts
<1>2. Made(committed, disk["db"], cache, pager) /\ Begun(committed, disk["db"], cache, pager)
      /\ InTransaction
  BY DEF Undecided, UndecidedAt, Made, InTransaction
<1>3. /\ p # 1 /\ p \in 1 .. cache[1].size /\ p \notin DOMAIN cache
      /\ DOMAIN cache' = {p} \cup DOMAIN cache
      /\ \A q \in DOMAIN cache' : cache'[q] = IF q = p THEN Fetched(p) ELSE cache[q]
      /\ p <= Len(disk["db"]) /\ p <= pager.dbSize
      /\ Fetched(p) = ContentOf(disk["db"][p])
  BY <1>2, GetReads
<1>4. Made(committed, disk["db"], cache', pager)
  <2>1. \A q : FetchedFrom(cache', disk["db"], pager.dbSize, q)
               = FetchedFrom(cache, disk["db"], pager.dbSize, q)
    <3>1. FetchedFrom(cache, disk["db"], pager.dbSize, p) = Fetched(p)
      BY <1>2, BegunSees, ViewIs DEF InTransaction
    <3>. QED
      BY <1>3, <3>1 DEF FetchedFrom
  <2>2. 1 \in DOMAIN cache' /\ cache'[1] = cache[1]
    BY <1>2, <1>3 DEF Begun
  <2>3. \A q \in DOMAIN cache' :
           \/ q \in DOMAIN cache /\ cache'[q] = cache[q]
           \/ cache'[q] = ContentOf(disk["db"][q])
    BY <1>3
  <2>. QED
    BY <1>2, <2>1, <2>2, <2>3, MadeKept
<1> PICK segs : RecordedBy(segs)
  BY DEF Undecided
<1>5. Recorded(committed, disk["db"], cache, segs, pager, prng)
  BY DEF RecordedBy
<1>6. ASSUME NEW q \in OldPages(committed), q \notin pager.inJournal
      PROVE  Restored(committed, disk["db"], cache', q)
  <2>1. Restored(committed, disk["db"], cache, q)
    BY <1>5, <1>6 DEF Recorded
  <2>. QED
    BY <1>3, <2>1 DEF Restored, Untouched
<1>7. Recorded(committed, disk["db"], cache', segs, pager, prng)
  BY <1>5, <1>6 DEF Recorded
<1>8. JournalContent' = JournalContent
  BY <1>1, SameDisk
<1>9. RecordedBy(segs)'
  BY <1>1, <1>7, <1>8 DEF RecordedBy
<1>10. UndecidedAt'
  BY <1>1 DEF Undecided, UndecidedAt, IsIdle
<1>. QED
  BY <1>1, <1>4, <1>9, <1>10 DEF Undecided

LEMMA RecycleKeepsFetched ==
    ASSUME TypeInv, NEW p \in Page, Recycle(p), Begun(committed, disk["db"], cache, pager),
           InTransaction
    PROVE  /\ p # 1 /\ p \in DOMAIN cache /\ p \notin pager.dirty
           /\ cache' = [q \in DOMAIN cache \ {p} |-> cache[q]]
           /\ \A q \in 1 .. cache[1].size :
                 FetchedFrom(cache', disk["db"], pager.dbSize, q)
                 = FetchedFrom(cache, disk["db"], pager.dbSize, q)
<1>1. /\ p # 1 /\ p \in DOMAIN cache /\ p \notin pager.dirty
      /\ cache' = [q \in DOMAIN cache \ {p} |-> cache[q]]
  BY DEF Recycle, Without
<1>2. ASSUME p \in 1 .. cache[1].size
      PROVE  FetchedFrom(cache', disk["db"], pager.dbSize, p) = cache[p]
  <2>1. p <= Len(disk["db"]) /\ cache[p] = ContentOf(disk["db"][p])
    BY <1>1, <1>2 DEF Begun
  <2>2. cache[1].size = Size /\ Size \in Nat /\ pager.dbSize \in Nat /\ Size <= pager.dbSize
    BY BegunSees, NPagesIsPositive DEF InTransaction
  <2>3. p <= pager.dbSize /\ p \in 1 .. Len(disk["db"])
    BY <1>2, <2>1, <2>2, InvTyped, NPagesIsPositive DEF Page
  <2>. QED
    BY <1>1, <2>1, <2>3 DEF FetchedFrom, At
<1>. QED
  BY <1>1, <1>2 DEF FetchedFrom

LEMMA RecycleUndecided == TypeInv /\ Undecided /\ (\E p \in Page : Recycle(p)) => Undecided'
<1> SUFFICES ASSUME TypeInv, Undecided, NEW p \in Page, Recycle(p) PROVE Undecided'
  OBVIOUS
<1>1. UNCHANGED <<disk, media, pager, prng, pc, committed, tx>>
  BY DEF Recycle, ghosts
<1>2. Made(committed, disk["db"], cache, pager) /\ Begun(committed, disk["db"], cache, pager)
      /\ InTransaction
  BY DEF Undecided, UndecidedAt, Made, InTransaction
<1>3. /\ p # 1 /\ p \in DOMAIN cache /\ p \notin pager.dirty
      /\ cache' = [q \in DOMAIN cache \ {p} |-> cache[q]]
      /\ \A q \in 1 .. cache[1].size :
            FetchedFrom(cache', disk["db"], pager.dbSize, q)
            = FetchedFrom(cache, disk["db"], pager.dbSize, q)
  BY <1>2, RecycleKeepsFetched
<1>4. Made(committed, disk["db"], cache', pager)
  <2>1. 1 \in DOMAIN cache' /\ cache'[1] = cache[1]
    BY <1>2, <1>3 DEF Begun
  <2>2. \A q \in DOMAIN cache' : q \in DOMAIN cache /\ cache'[q] = cache[q]
    BY <1>3
  <2>. QED
    BY <1>2, <1>3, <2>1, <2>2, MadeKept
<1> PICK segs : RecordedBy(segs)
  BY DEF Undecided
<1>5. Recorded(committed, disk["db"], cache, segs, pager, prng)
  BY DEF RecordedBy
<1>6. Recorded(committed, disk["db"], cache', segs, pager, prng)
  BY <1>3, <1>5 DEF Recorded, Restored
<1>7. JournalContent' = JournalContent
  BY <1>1, SameDisk
<1>8. RecordedBy(segs)'
  BY <1>1, <1>6, <1>7 DEF RecordedBy
<1>9. UndecidedAt'
  BY <1>1 DEF Undecided, UndecidedAt, IsIdle
<1>. QED
  BY <1>1, <1>4, <1>8, <1>9 DEF Undecided

LEMMA SpillKeeps == TypeInv /\ Undecided /\ (\E p \in Page : Spill(p)) => Undecided'
<1> SUFFICES ASSUME TypeInv, Undecided, NEW p \in Page, Spill(p) PROVE Undecided'
  OBVIOUS
<1>1. /\ UNCHANGED <<disk, media, pager, cache, prng, committed, tx>>
      /\ IsIdle /\ p \in pager.dirty \ {1}
      /\ pc' = [Running("spill", IF p \in pager.needSync \/ pager.eState = "CACHEMOD"
                                 THEN "nextHdr" ELSE "pages") EXCEPT !.page = p]
  BY DEF Spill, ghosts
<1>2. /\ pc'.op = "spill" /\ pc'.page = p
      /\ pc'.at = IF p \in pager.needSync \/ pager.eState = "CACHEMOD"
                  THEN "nextHdr" ELSE "pages"
  BY <1>1 DEF Running, Idle
<1> PICK segs : RecordedBy(segs)
  BY DEF Undecided
<1>3. JournalContent' = JournalContent
  BY <1>1, SameDisk
<1>4. pc.at # "syncHdr" /\ pc'.at # "syncHdr"
  BY <1>1, <1>2 DEF IsIdle, Idle
<1>5. RecordedBy(segs)'
  BY <1>1, <1>3, <1>4 DEF RecordedBy, Counted
<1>6. UndecidedAt'
  BY <1>1, <1>2 DEF Undecided, UndecidedAt, Syncing
<1>. QED
  BY <1>1, <1>5, <1>6 DEF Undecided

-----------------------------------------------------------------------------
(* Writes to the journal that are no records                               *)

LEMMA JournalWriteDoes ==
    ASSUME TypeInv, NEW off \in Nat, NEW cells \in Seq(JournalCell), WriteJournal(off, cells)
    PROVE  /\ disk'["db"] = disk["db"]
           /\ JournalContent' \in Seq(JournalCell) /\ Len(JournalContent') \in Nat
           /\ Len(JournalContent) <= Len(JournalContent')
           /\ off + Len(cells) <= Len(JournalContent')
           /\ \A i \in 1 .. Len(JournalContent') :
                 JournalContent'[i] = IF i \in off + 1 .. off + Len(cells) THEN cells[i - off]
                                      ELSE At(JournalContent, i)
<1> PICK j : j = JournalContent
  OBVIOUS
<1>1. j \in Seq(JournalCell) /\ Len(j) \in Nat
  BY InvTyped
<1> PICK new : new = Written(j, off, cells)
  OBVIOUS
<1>2. /\ new \in Seq(JournalCell) /\ Len(new) = Longer(Len(j), off + Len(cells))
      /\ \A i \in 1 .. Len(new) :
            new[i] = IF i \in off + 1 .. off + Len(cells) THEN cells[i - off] ELSE At(j, i)
  BY <1>1, JournalWritten
<1>3. disk' = [disk EXCEPT !["journal"] = new]
  BY DEF WriteJournal
<1>4. disk'["db"] = disk["db"] /\ JournalContent' = new
  BY <1>2, <1>3, DiskWithJournal DEF TypeInv
<1>5. Len(new) \in Nat /\ Len(cells) \in Nat
  BY <1>2
<1>6. Len(j) <= Len(new) /\ off + Len(cells) <= Len(new)
  BY <1>1, <1>2, <1>5 DEF Longer
<1>. QED
  BY <1>2, <1>4, <1>5, <1>6

LEMMA SeedsOfCells ==
    ASSUME TypeInv, NEW off \in Nat, NEW cells \in Seq(JournalCell), WriteJournal(off, cells),
           \A i \in 1 .. Len(cells) : ~IsCksum(cells[i]),
           NEW n, NEW seed, SeedsBefore(JournalContent, n, seed)
    PROVE  SeedsBefore(JournalContent', n, seed)
<1> PICK j : j = JournalContent
  OBVIOUS
<1> PICK new : new = JournalContent'
  OBVIOUS
<1>1. /\ new \in Seq(JournalCell) /\ Len(new) \in Nat
      /\ \A i \in 1 .. Len(new) :
            new[i] = IF i \in off + 1 .. off + Len(cells) THEN cells[i - off] ELSE At(j, i)
  BY JournalWriteDoes
<1>2. ASSUME NEW i \in DOMAIN new, IsCksum(new[i]), i > n
      PROVE  new[i].cksum[1] < seed
  <2>1. i \in 1 .. Len(new) /\ i \in Nat /\ Len(cells) \in Nat
    BY <1>1
  <2>2. CASE i \in off + 1 .. off + Len(cells)
    <3>1. i - off \in 1 .. Len(cells)
      BY <2>1, <2>2
    <3>. QED
      BY <1>1, <1>2, <2>1, <2>2, <3>1
  <2>3. CASE i \notin off + 1 .. off + Len(cells)
    <3>1. new[i] = At(j, i)
      BY <1>1, <2>1, <2>3
    <3>2. i \in 1 .. Len(j) /\ new[i] = j[i]
      BY <1>2, <3>1, ZeroIs DEF At
    <3>3. i \in DOMAIN j
      <4>1. j \in Seq(JournalCell)
        BY InvTyped
      <4>. QED
        BY <3>2, <4>1
    <3>. QED
      BY <1>2, <3>2, <3>3 DEF SeedsBefore
  <2>. QED
    BY <2>2, <2>3
<1>. QED
  BY <1>2 DEF SeedsBefore

LEMMA SeedsLater ==
    ASSUME NEW j \in Seq(JournalCell), NEW r \in Nat, NEW r2 \in Nat, r <= r2,
           SeedsBefore(j, 0, r)
    PROVE  SeedsBefore(j, 0, r2)
<1> SUFFICES ASSUME NEW i \in DOMAIN j, IsCksum(j[i]), i > 0 PROVE j[i].cksum[1] < r2
  BY DEF SeedsBefore
<1>1. j[i].cksum[1] < r
  BY DEF SeedsBefore
<1>2. j[i].cksum[1] \in Nat
  BY CellsHold
<1>. QED
  BY <1>1, <1>2

\* What the steps that sync the journal write.
LEMMA SyncingWrites ==
    ASSUME TypeInv, SeedsDrawn, pager.journalOff # 0,
           NextHeader \/ SyncRecords \/ CountRecords \/ SyncHeader
    PROVE  SeedsDrawn' /\ disk'["db"] = disk["db"] /\ UNCHANGED <<cache, committed, tx>>
<1>1. UNCHANGED <<cache, committed, tx>>
  BY DEF NextHeader, SyncRecords, CountRecords, SyncHeader, ghosts
<1> SUFFICES SeedsDrawn' /\ disk'["db"] = disk["db"]
  BY <1>1
<1>2. pager.journalOff \in Nat /\ pager.journalHdr \in Nat /\ pager.nRec \in 0 .. NPages
      /\ pager.dbOrigSize \in 0 .. NPages /\ prng \in Nat
  BY InvTyped DEF Pagers
<1>3. JournalHdrOffset(pager.journalOff) \in Nat
  BY <1>2 DEF JournalHdrOffset
<1>4. ASSUME disk' = disk, prng' = prng
      PROVE  SeedsDrawn' /\ disk'["db"] = disk["db"]
  BY <1>4, SameDisk DEF SeedsDrawn
<1>5. ASSUME NEW off \in Nat, NEW cells \in Seq(JournalCell), WriteJournal(off, cells),
             \A i \in 1 .. Len(cells) : ~IsCksum(cells[i]), prng' \in {prng, prng + 1}
      PROVE  SeedsDrawn' /\ disk'["db"] = disk["db"]
  <2>1. SeedsBefore(JournalContent', 0, prng + 1)
    BY <1>5, SeedsOfCells DEF SeedsDrawn
  <2>2. JournalContent' \in Seq(JournalCell) /\ disk'["db"] = disk["db"]
    BY <1>5, JournalWriteDoes
  <2> PICK n \in Nat : n = prng
    BY <1>2
  <2> PICK n2 \in {n, n + 1} : n2 = prng'
    BY <1>5
  <2>3. n + 1 \in Nat /\ n2 + 1 \in Nat /\ n + 1 <= n2 + 1
    BY ONLY n \in Nat, n2 \in {n, n + 1}
  <2>4. SeedsBefore(JournalContent', 0, prng' + 1)
    BY <2>1, <2>2, <2>3, SeedsLater
  <2>. QED
    BY <2>2, <2>4 DEF SeedsDrawn
<1>6. CASE NextHeader
  <2>1. CASE OldHeaderFollows
    <3>1. WriteJournal(JournalHdrOffset(pager.journalOff), <<ZeroCell>>) /\ prng' = prng
      BY <1>6, <2>1 DEF NextHeader
    <3>2. <<ZeroCell>> \in Seq(JournalCell) /\ \A i \in 1 .. Len(<<ZeroCell>>) : ~IsCksum(<<ZeroCell>>[i])
      BY ZeroIs
    <3>. QED
      BY <1>3, <1>5, <3>1, <3>2
  <2>2. CASE ~OldHeaderFollows
    BY <1>4, <1>6, <2>2 DEF NextHeader
  <2>. QED
    BY <2>1, <2>2
<1>7. CASE SyncRecords
  BY <1>4, <1>7 DEF SyncRecords, Sync
<1>8. CASE CountRecords
  <2>1. WriteJournal(pager.journalHdr, <<Magic(pager.nRec)>>) /\ prng' = prng
    BY <1>8 DEF CountRecords
  <2> PICK cell \in JournalCell : cell = Magic(pager.nRec) /\ ~IsCksum(cell)
    BY <1>2, MagicIs
  <2>2. <<cell>> \in Seq(JournalCell) /\ \A i \in 1 .. Len(<<cell>>) : ~IsCksum(<<cell>>[i])
    OBVIOUS
  <2>. QED
    BY <1>2, <1>5, <2>1, <2>2
<1>9. CASE SyncHeader
  <2>1. CASE pc.op = "spill"
    <3>1. /\ WriteJournal(JournalHdrOffset(pager.journalOff), Header(prng + 1))
          /\ prng' = prng + 1
      <4> DEFINE synced == [pager EXCEPT !.eState = "DBMOD", !.needSync = {},
                                         !.journalHdr = pager.journalOff]
                 off == JournalHdrOffset(pager.journalOff)
      <4>1. /\ pager' = WithNewHeader(synced)
            /\ WriteJournal(pager'.journalHdr, Header(prng + 1)) /\ prng' = prng + 1
        BY <1>9, <2>1 DEF SyncHeader, NextSeed
      <4>2. synced.journalOff = pager.journalOff /\ synced \in Pagers
        BY <1>2, InvTyped DEF Pagers, States
      <4> HIDE DEF synced
      <4>3. pager' = [synced EXCEPT !.nRec = 0, !.cksumInit = prng + 1, !.journalHdr = off,
                                    !.journalOff = off + 2]
        BY <4>1, <4>2 DEF WithNewHeader, NextSeed, HdrSize
      <4>4. pager'.journalHdr = off
        BY <4>2, <4>3 DEF Pagers
      <4>. QED
        BY <4>1, <4>4
    <3> PICK nonce \in JournalCell : nonce = Nonce(prng + 1, pager.dbOrigSize) /\ ~IsCksum(nonce)
      BY <1>2, NonceIs
    <3>2. Header(prng + 1) = <<ZeroCell, nonce>>
      BY DEF Header
    <3>3. /\ <<ZeroCell, nonce>> \in Seq(JournalCell) /\ Len(<<ZeroCell, nonce>>) = 2
          /\ <<ZeroCell, nonce>>[1] = ZeroCell /\ <<ZeroCell, nonce>>[2] = nonce
      BY ZeroIs
    <3>4. \A i \in 1 .. 2 : ~IsCksum(<<ZeroCell, nonce>>[i])
      <4>1. \A i \in 1 .. 2 : i = 1 \/ i = 2
        OBVIOUS
      <4>. QED
        BY <3>3, <4>1, ZeroIs
    <3>. QED
      BY <1>3, <1>5, <3>1, <3>2, <3>3, <3>4
  <2>2. CASE pc.op # "spill"
    BY <1>4, <1>9, <2>2 DEF SyncHeader
  <2>. QED
    BY <2>1, <2>2
<1>. QED
  BY <1>1, <1>6, <1>7, <1>8, <1>9

LEMMA DbWriteDoes ==
    ASSUME TypeInv, NEW p \in Page, NEW c \in Content, WriteDb(p, PageCell(c)), UNCHANGED media
    PROVE  /\ PageWritten(disk["db"], disk'["db"], p, c)
           /\ JournalContent' = JournalContent
<1>1. PageWritten(disk["db"], disk'["db"], p, c)
  BY WriteDbWrites
<1>2. JournalContent' = JournalContent
  BY DEF WriteDb, JournalContent, Exists, TypeInv, FilesOK, StoreTypeOK
<1>. QED
  BY <1>1, <1>2

-----------------------------------------------------------------------------
(* Syncing the journal to spill a page                                     *)

LEMMA EndIs ==
    ASSUME NEW com, NEW db, NEW j, NEW segs, NEW pg, HasRecords(com, db, j, segs, pg),
           pg.journalHdr \in Nat
    PROVE  /\ End(segs, pg.journalHdr) \in Nat
           /\ pg.journalHdr + 2 <= End(segs, pg.journalHdr)
           /\ End(segs, pg.journalHdr) <= Len(j)
           /\ segs \in Segments /\ pg.journalHdr \in DOMAIN segs
<1>1. segs \in Segments /\ pg.journalHdr \in DOMAIN segs
  BY DEF HasRecords, Chained
<1>2. /\ End(segs, pg.journalHdr) = pg.journalHdr + 2 + 3 * Len(segs[pg.journalHdr].pages)
      /\ Len(segs[pg.journalHdr].pages) \in Nat /\ End(segs, pg.journalHdr) \in Nat
  BY <1>1, SegmentIs
<1>3. pg.journalHdr + 2 <= End(segs, pg.journalHdr)
  BY <1>2
<1>4. End(segs, pg.journalHdr) <= Len(j)
  BY DEF HasRecords, IsJournal
<1>. QED
  BY <1>1, <1>2, <1>3, <1>4

LEMMA RecordsKept ==
    ASSUME NEW com, NEW db, NEW j, NEW segs, NEW pg, HasRecords(com, db, j, segs, pg),
           NEW j2, End(segs, pg.journalHdr) <= Len(j2),
           \A i \in 1 .. End(segs, pg.journalHdr) : i # pg.journalHdr + 1 => j2[i] = j[i]
    PROVE  HasRecords(com, db, j2, segs, pg)
<1>1. Chained(segs, pg.journalHdr) /\ IsJournal(j, segs, pg.journalHdr, pg.dbOrigSize, com)
  BY DEF HasRecords
<1>2. IsJournal(j2, segs, pg.journalHdr, pg.dbOrigSize, com)
  BY <1>1, JournalKept
<1>. QED
  BY <1>2 DEF HasRecords

LEMMA NextHeaderRecords ==
    ASSUME TypeInv, NextHeader, NEW segs, RecordedBy(segs)
    PROVE  RecordedBy(segs)' /\ disk'["db"] = disk["db"]
<1>1. /\ UNCHANGED <<pager, cache, prng, committed, tx>> /\ pc.at = "nextHdr"
      /\ pc' = [pc EXCEPT !.at = "syncRecords"]
  BY DEF NextHeader, Goes, ghosts
<1>2. pc'.at = "syncRecords" /\ pc'.op = pc.op /\ pc'.page = pc.page
  BY <1>1, InvTyped DEF Places
<1> PICK hdr \in Nat : hdr = pager.journalHdr
  BY InvTyped DEF Pagers
<1>3. /\ HasRecords(committed, disk["db"], JournalContent, segs, pager)
      /\ SeedsBefore(JournalContent, End(segs, hdr), segs[hdr].seed)
      /\ Recorded(committed, disk["db"], cache, segs, pager, prng)
      /\ JournalContent[hdr + 1] = ZeroCell
      /\ pager.journalOff = End(segs, hdr)
  BY <1>1 DEF RecordedBy, Reversible, Counted, Recorded
<1> PICK end \in Nat : end = End(segs, hdr)
  BY <1>3, EndIs
<1>4. hdr + 2 <= end /\ end <= Len(JournalContent)
  BY <1>3, EndIs
<1>5. /\ disk'["db"] = disk["db"]
      /\ SeedsBefore(JournalContent', end, segs[hdr].seed)
      /\ end <= Len(JournalContent')
      /\ \A i \in 1 .. end : JournalContent'[i] = JournalContent[i]
  <2>1. CASE OldHeaderFollows
    <3> PICK off \in Nat : off = end + 2
      OBVIOUS
    <3>1. WriteJournal(off, <<ZeroCell>>)
      <4>1. JournalHdrOffset(pager.journalOff) = off
        BY <1>3, <1>4 DEF JournalHdrOffset
      <4>. QED
        BY <2>1, <4>1 DEF NextHeader
    <3> PICK cells : cells = <<ZeroCell>>
      OBVIOUS
    <3>2. cells \in Seq(JournalCell) /\ Len(cells) = 1 /\ \A i \in 1 .. Len(cells) : ~IsCksum(cells[i])
      BY ZeroIs
    <3>3. /\ disk'["db"] = disk["db"] /\ Len(JournalContent') \in Nat
          /\ Len(JournalContent) <= Len(JournalContent')
          /\ \A i \in 1 .. Len(JournalContent') :
                JournalContent'[i] = IF i \in off + 1 .. off + Len(cells) THEN cells[i - off]
                                     ELSE At(JournalContent, i)
      BY ZenonT(60), <3>1, <3>2, JournalWriteDoes
    <3>4. SeedsBefore(JournalContent', end, segs[hdr].seed)
      BY <1>3, <3>1, <3>2, SeedsOfCells
    <3>5. Len(JournalContent) \in Nat
      BY InvTyped
    <3>6. end <= Len(JournalContent')
      BY <1>4, <3>3, <3>5
    <3>7. ASSUME NEW i \in 1 .. end PROVE JournalContent'[i] = JournalContent[i]
      <4>1. i \in 1 .. Len(JournalContent') /\ i \in 1 .. Len(JournalContent)
            /\ i \notin off + 1 .. off + Len(cells)
        BY <1>4, <3>2, <3>3, <3>5, <3>6
      <4>. QED
        BY <3>3, <4>1 DEF At
    <3>. QED
      BY <3>3, <3>4, <3>6, <3>7
  <2>2. CASE ~OldHeaderFollows
    <3>1. disk' = disk
      BY <2>2 DEF NextHeader
    <3>2. JournalContent' = JournalContent
      BY <3>1, SameDisk
    <3>. QED
      BY <1>3, <1>4, <3>1, <3>2
  <2>. QED
    BY <2>1, <2>2
<1>6. HasRecords(committed, disk["db"], JournalContent', segs, pager)
  BY <1>3, <1>5, RecordsKept
<1>7. JournalContent'[hdr + 1] = ZeroCell
  <2>1. hdr + 1 \in 1 .. end
    BY <1>4
  <2>. QED
    BY <1>3, <1>5, <2>1
<1>8. RecordedBy(segs)'
  BY <1>1, <1>2, <1>3, <1>5, <1>6, <1>7 DEF RecordedBy, Reversible, Counted
<1>. QED
  BY <1>5, <1>8

LEMMA NextHeaderUndecided == TypeInv /\ Undecided /\ NextHeader => Undecided'
<1> SUFFICES ASSUME TypeInv, Undecided, NextHeader PROVE Undecided'
  OBVIOUS
<1>1. /\ UNCHANGED <<pager, cache, prng, committed, tx>> /\ pc.at = "nextHdr"
      /\ pc' = [pc EXCEPT !.at = "syncRecords"]
  BY DEF NextHeader, Goes, ghosts
<1>2. pc'.at = "syncRecords" /\ pc'.op = pc.op /\ pc'.page = pc.page
  BY <1>1, InvTyped DEF Places
<1>3. (\E segs : RecordedBy(segs)') /\ disk'["db"] = disk["db"]
  BY NextHeaderRecords DEF Undecided
<1>4. UndecidedAt'
  BY <1>1, <1>2 DEF Undecided, UndecidedAt, Syncing, IsIdle, Idle
<1>. QED
  BY <1>1, <1>3, <1>4 DEF Undecided

LEMMA SyncRecordsRecords ==
    ASSUME TypeInv, SyncRecords, NEW segs, RecordedBy(segs)
    PROVE  RecordedBy(segs)'
<1>1. /\ UNCHANGED <<disk, pager, cache, prng, committed, tx>> /\ pc.at = "syncRecords"
      /\ pc' = [pc EXCEPT !.at = "nRec"]
  BY DEF SyncRecords, Goes, ghosts, Sync
<1>2. pc'.at = "nRec" /\ pc'.op = pc.op /\ pc'.page = pc.page
  BY <1>1, InvTyped DEF Places
<1>3. JournalContent' = JournalContent
  BY <1>1, SameDisk
<1>. QED
  BY <1>1, <1>2, <1>3 DEF RecordedBy, Counted

LEMMA SyncRecordsUndecided == TypeInv /\ Undecided /\ SyncRecords => Undecided'
<1> SUFFICES ASSUME TypeInv, Undecided, SyncRecords PROVE Undecided'
  OBVIOUS
<1>1. /\ UNCHANGED <<disk, pager, cache, prng, committed, tx>> /\ pc.at = "syncRecords"
      /\ pc' = [pc EXCEPT !.at = "nRec"]
  BY DEF SyncRecords, Goes, ghosts, Sync
<1>2. pc'.at = "nRec" /\ pc'.op = pc.op /\ pc'.page = pc.page
  BY <1>1, InvTyped DEF Places
<1>3. \E segs : RecordedBy(segs)'
  BY SyncRecordsRecords DEF Undecided
<1>4. UndecidedAt'
  BY <1>1, <1>2 DEF Undecided, UndecidedAt, Syncing, IsIdle, Idle
<1>. QED
  BY <1>1, <1>3, <1>4 DEF Undecided

LEMMA CountRecordsRecords ==
    ASSUME TypeInv, CountRecords, NEW segs, RecordedBy(segs)
    PROVE  RecordedBy(segs)' /\ disk'["db"] = disk["db"]
<1>1. /\ UNCHANGED <<pager, cache, prng, committed, tx>> /\ pc.at = "nRec"
      /\ pc' = [pc EXCEPT !.at = "syncHdr"]
      /\ WriteJournal(pager.journalHdr, <<Magic(pager.nRec)>>)
  BY DEF CountRecords, Goes, ghosts
<1>2. pc'.at = "syncHdr" /\ pc'.op = pc.op /\ pc'.page = pc.page
  BY <1>1, InvTyped DEF Places
<1> PICK hdr \in Nat : hdr = pager.journalHdr
  BY InvTyped DEF Pagers
<1>3. /\ HasRecords(committed, disk["db"], JournalContent, segs, pager)
      /\ SeedsBefore(JournalContent, End(segs, hdr), segs[hdr].seed)
      /\ Recorded(committed, disk["db"], cache, segs, pager, prng)
  BY DEF RecordedBy, Reversible
<1> PICK end \in Nat : end = End(segs, hdr)
  BY <1>3, EndIs
<1>4. hdr + 2 <= end /\ end <= Len(JournalContent)
  BY <1>3, EndIs
<1> PICK cell \in JournalCell : cell = Magic(pager.nRec) /\ ~IsCksum(cell)
  BY InvTyped, MagicIs DEF Pagers
<1> PICK cells : cells = <<cell>>
  OBVIOUS
<1>5. cells \in Seq(JournalCell) /\ Len(cells) = 1 /\ cells[1] = cell
      /\ \A i \in 1 .. Len(cells) : ~IsCksum(cells[i])
  OBVIOUS
<1>6. /\ disk'["db"] = disk["db"] /\ Len(JournalContent') \in Nat
      /\ Len(JournalContent) <= Len(JournalContent')
      /\ \A i \in 1 .. Len(JournalContent') :
            JournalContent'[i] = IF i \in hdr + 1 .. hdr + Len(cells) THEN cells[i - hdr]
                                 ELSE At(JournalContent, i)
  BY ZenonT(60), <1>1, <1>5, JournalWriteDoes
<1>7. SeedsBefore(JournalContent', end, segs[hdr].seed)
  BY <1>1, <1>3, <1>5, SeedsOfCells
<1>8. Len(JournalContent) \in Nat
  BY InvTyped
<1>9. end <= Len(JournalContent')
  BY <1>4, <1>6, <1>8
<1>10. ASSUME NEW i \in 1 .. end, i # hdr + 1 PROVE JournalContent'[i] = JournalContent[i]
  <2>1. i \in 1 .. Len(JournalContent') /\ i \in 1 .. Len(JournalContent)
        /\ i \notin hdr + 1 .. hdr + Len(cells)
    BY <1>4, <1>5, <1>6, <1>8, <1>9, <1>10
  <2>. QED
    BY <1>6, <2>1 DEF At
<1>11. JournalContent'[hdr + 1] = Magic(pager.nRec)
  <2>1. hdr + 1 \in 1 .. Len(JournalContent') /\ hdr + 1 \in hdr + 1 .. hdr + Len(cells)
        /\ (hdr + 1) - hdr = 1
    BY <1>4, <1>5, <1>6, <1>9
  <2>. QED
    BY <1>5, <1>6, <2>1
<1>12. HasRecords(committed, disk["db"], JournalContent', segs, pager)
  BY <1>3, <1>9, <1>10, RecordsKept
<1>13. RecordedBy(segs)'
  BY <1>1, <1>2, <1>3, <1>6, <1>7, <1>11, <1>12 DEF RecordedBy, Reversible, Counted
<1>. QED
  BY <1>6, <1>13

LEMMA CountRecordsUndecided == TypeInv /\ Undecided /\ CountRecords => Undecided'
<1> SUFFICES ASSUME TypeInv, Undecided, CountRecords PROVE Undecided'
  OBVIOUS
<1>1. /\ UNCHANGED <<pager, cache, prng, committed, tx>> /\ pc.at = "nRec"
      /\ pc' = [pc EXCEPT !.at = "syncHdr"]
  BY DEF CountRecords, Goes, ghosts
<1>2. pc'.at = "syncHdr" /\ pc'.op = pc.op /\ pc'.page = pc.page
  BY <1>1, InvTyped DEF Places
<1>3. (\E segs : RecordedBy(segs)') /\ disk'["db"] = disk["db"]
  BY CountRecordsRecords DEF Undecided
<1>4. UndecidedAt'
  BY <1>1, <1>2 DEF Undecided, UndecidedAt, Syncing, IsIdle, Idle
<1>. QED
  BY <1>1, <1>3, <1>4 DEF Undecided

\* The pager after the header is synced.
LEMMA SyncHeaderDoes ==
    ASSUME TypeInv, SyncHeader
    PROVE  /\ pc.at = "syncHdr" /\ pc'.at = "pages" /\ pc'.op = pc.op /\ pc'.page = pc.page
           /\ UNCHANGED <<cache, committed, tx>>
           /\ pager'.eState = "DBMOD" /\ pager'.needSync = {}
           /\ pager'.dbSize = pager.dbSize /\ pager'.dbOrigSize = pager.dbOrigSize
           /\ pager'.inJournal = pager.inJournal /\ pager'.dirty = pager.dirty
           /\ pc.op = "spill" =>
                 /\ pager'.nRec = 0 /\ pager'.cksumInit = prng + 1 /\ prng' = prng + 1
                 /\ pager'.journalHdr = JournalHdrOffset(pager.journalOff)
                 /\ pager'.journalOff = JournalHdrOffset(pager.journalOff) + 2
                 /\ WriteJournal(JournalHdrOffset(pager.journalOff),
                                 <<ZeroCell, Nonce(prng + 1, pager.dbOrigSize)>>)
           /\ pc.op # "spill" =>
                 /\ pager'.journalOff = pager.journalOff
                 /\ UNCHANGED <<disk, prng>>
<1> DEFINE synced == [pager EXCEPT !.eState = "DBMOD", !.needSync = {},
                                   !.journalHdr = pager.journalOff]
           off == JournalHdrOffset(pager.journalOff)
<1>1. /\ pc.at = "syncHdr" /\ pc' = [pc EXCEPT !.at = "pages"]
      /\ UNCHANGED <<cache, committed, tx>>
      /\ pc.op = "spill" => /\ pager' = WithNewHeader(synced)
                            /\ WriteJournal(pager'.journalHdr, Header(prng + 1))
                            /\ prng' = prng + 1
      /\ pc.op # "spill" => pager' = synced /\ UNCHANGED <<disk, prng>>
  BY DEF SyncHeader, Goes, ghosts, NextSeed
<1>2. pc'.at = "pages" /\ pc'.op = pc.op /\ pc'.page = pc.page
  BY <1>1, InvTyped DEF Places
<1>3. /\ synced \in Pagers /\ synced.eState = "DBMOD" /\ synced.needSync = {}
      /\ synced.dbSize = pager.dbSize /\ synced.dbOrigSize = pager.dbOrigSize
      /\ synced.inJournal = pager.inJournal /\ synced.dirty = pager.dirty
      /\ synced.journalOff = pager.journalOff
  BY InvTyped DEF Pagers, States
<1> HIDE DEF synced
<1>4. CASE pc.op = "spill"
  <2>1. pager' = [synced EXCEPT !.nRec = 0, !.cksumInit = prng + 1, !.journalHdr = off,
                                !.journalOff = off + 2]
    BY <1>1, <1>3, <1>4 DEF WithNewHeader, NextSeed, HdrSize
  <2>2. /\ pager'.nRec = 0 /\ pager'.cksumInit = prng + 1 /\ pager'.journalHdr = off
        /\ pager'.journalOff = off + 2
        /\ pager'.eState = synced.eState /\ pager'.needSync = synced.needSync
        /\ pager'.dbSize = synced.dbSize /\ pager'.dbOrigSize = synced.dbOrigSize
        /\ pager'.inJournal = synced.inJournal /\ pager'.dirty = synced.dirty
    BY <1>3, <2>1 DEF Pagers
  <2>3. WriteJournal(off, <<ZeroCell, Nonce(prng + 1, pager.dbOrigSize)>>)
    BY <1>1, <1>4, <2>2 DEF Header
  <2>. QED
    BY <1>1, <1>2, <1>3, <1>4, <2>2, <2>3
<1>5. CASE pc.op # "spill"
  BY <1>1, <1>2, <1>3, <1>5
<1>. QED
  BY <1>4, <1>5

LEMMA SyncHeaderUndecided == TypeInv /\ SeedsDrawn /\ Undecided /\ SyncHeader => Undecided'
<1> SUFFICES ASSUME TypeInv, SeedsDrawn, Undecided, SyncHeader PROVE Undecided'
  OBVIOUS
<1>1. /\ pc.at = "syncHdr" /\ pc'.at = "pages" /\ pc'.op = pc.op /\ pc'.page = pc.page
      /\ UNCHANGED <<cache, committed, tx>>
      /\ pager'.eState = "DBMOD" /\ pager'.needSync = {}
      /\ pager'.dbSize = pager.dbSize /\ pager'.dbOrigSize = pager.dbOrigSize
      /\ pager'.inJournal = pager.inJournal /\ pager'.dirty = pager.dirty
  BY SyncHeaderDoes
<1>2. pc.op = "spill" /\ pc.page \in pager.dirty \ {1} /\ tx >= 1
  BY <1>1 DEF Undecided, UndecidedAt, IsIdle, Idle
<1> PICK segs : RecordedBy(segs)
  BY DEF Undecided
<1> PICK hdr \in Nat : hdr = pager.journalHdr
  BY InvTyped DEF Pagers
<1> PICK com \in Seq(Versions) : com = committed
  BY InvTyped
<1> PICK orig \in 0 .. NPages : orig = pager.dbOrigSize
  BY InvTyped DEF Pagers
<1> PICK seed \in Nat : seed = prng + 1
  BY InvTyped
<1>3. /\ HasRecords(com, disk["db"], JournalContent, segs, pager)
      /\ Recorded(com, disk["db"], cache, segs, pager, prng)
      /\ JournalContent[hdr + 1] = Magic(pager.nRec)
      /\ pager.journalOff = End(segs, hdr)
  BY <1>1 DEF RecordedBy, Reversible, Counted, Recorded
<1> PICK end \in Nat : end = End(segs, hdr)
  BY <1>3, EndIs
<1>4. hdr + 2 <= end /\ end <= Len(JournalContent)
  BY <1>3, EndIs
<1> PICK off \in Nat : off = end + 2
  OBVIOUS
<1>5. JournalHdrOffset(pager.journalOff) = off
  BY <1>3, <1>4 DEF JournalHdrOffset
<1>6. /\ pager'.nRec = 0 /\ pager'.cksumInit = seed /\ prng' = seed
      /\ pager'.journalHdr = off /\ pager'.journalOff = off + 2
      /\ WriteJournal(off, <<ZeroCell, Nonce(seed, orig)>>)
  BY <1>2, <1>5, SyncHeaderDoes
<1> PICK nonce \in JournalCell : nonce = Nonce(seed, orig) /\ ~IsCksum(nonce)
  BY NonceIs
<1> PICK cells : cells = <<ZeroCell, nonce>>
  OBVIOUS
<1>7. /\ cells \in Seq(JournalCell) /\ Len(cells) = 2
      /\ cells[1] = ZeroCell /\ cells[2] = nonce
      /\ \A i \in 1 .. Len(cells) : ~IsCksum(cells[i])
  <2>1. /\ cells \in Seq(JournalCell) /\ Len(cells) = 2
        /\ cells[1] = ZeroCell /\ cells[2] = nonce
    BY ZeroIs
  <2>2. \A i \in 1 .. 2 : i = 1 \/ i = 2
    OBVIOUS
  <2>. QED
    BY <2>1, <2>2, ZeroIs
<1> PICK j2 : j2 = JournalContent'
  OBVIOUS
<1>8. /\ disk'["db"] = disk["db"] /\ Len(j2) \in Nat
      /\ Len(JournalContent) <= Len(j2) /\ off + 2 <= Len(j2)
      /\ \A i \in 1 .. Len(j2) :
            j2[i] = IF i \in off + 1 .. off + 2 THEN cells[i - off] ELSE At(JournalContent, i)
  <2>1. WriteJournal(off, cells) /\ cells \in Seq(JournalCell)
    BY <1>6, <1>7
  <2>2. /\ disk'["db"] = disk["db"] /\ Len(j2) \in Nat
        /\ Len(JournalContent) <= Len(j2) /\ off + Len(cells) <= Len(j2)
        /\ \A i \in 1 .. Len(j2) :
              j2[i] = IF i \in off + 1 .. off + Len(cells) THEN cells[i - off]
                      ELSE At(JournalContent, i)
    <3>1. /\ disk'["db"] = disk["db"] /\ Len(JournalContent') \in Nat
          /\ Len(JournalContent) <= Len(JournalContent') /\ off + Len(cells) <= Len(JournalContent')
          /\ \A i \in 1 .. Len(JournalContent') :
                JournalContent'[i] = IF i \in off + 1 .. off + Len(cells) THEN cells[i - off]
                                     ELSE At(JournalContent, i)
      BY ONLY TypeInv, off \in Nat, <2>1, JournalWriteDoes
    <3>. QED
      BY <3>1
  <2>. QED
    BY <1>7, <2>2
<1> PICK m2 \in Nat : m2 = Len(j2)
  BY <1>8
<1>9. Len(JournalContent) \in Nat
  BY InvTyped
<1>10. j2[off + 1] = ZeroCell /\ j2[off + 2] = nonce
  <2>1. /\ off + 1 \in 1 .. Len(j2) /\ off + 2 \in 1 .. Len(j2)
        /\ off + 1 \in off + 1 .. off + 2 /\ off + 2 \in off + 1 .. off + 2
        /\ (off + 1) - off = 1 /\ (off + 2) - off = 2
    <3>1. off + 2 <= m2
      BY <1>8
    <3>2. /\ off + 1 \in 1 .. m2 /\ off + 2 \in 1 .. m2
          /\ off + 1 \in off + 1 .. off + 2 /\ off + 2 \in off + 1 .. off + 2
          /\ (off + 1) - off = 1 /\ (off + 2) - off = 2
      BY ONLY <3>1, off \in Nat, m2 \in Nat
    <3>. QED
      BY <3>2
  <2>. QED
    BY <1>7, <1>8, <2>1
<1>11. ASSUME NEW i \in 1 .. end PROVE j2[i] = JournalContent[i]
  <2>1. i \in 1 .. Len(j2) /\ i \in 1 .. Len(JournalContent) /\ i \notin off + 1 .. off + 2
    <3> PICK m \in Nat : m = Len(JournalContent)
      BY <1>9
    <3>1. end <= m /\ m <= m2
      BY <1>4, <1>8
    <3>2. i \in 1 .. m2 /\ i \in 1 .. m /\ i \notin off + 1 .. off + 2
      BY ONLY <3>1, i \in 1 .. end, m \in Nat, m2 \in Nat, end \in Nat, off = end + 2
    <3>. QED
      BY <3>2
  <2>. QED
    BY <1>8, <2>1 DEF At
<1>12. end <= Len(j2)
  BY <1>4, <1>8, <1>9
<1>13. HasRecords(com, disk["db"], j2, segs, pager)
  BY <1>3, <1>11, <1>12, RecordsKept
<1>14. j2[hdr + 1] = Magic(Len(segs[hdr].pages))
  <2>1. hdr + 1 \in 1 .. end
    BY SMTT(30), <1>4
  <2>2. Len(segs[hdr].pages) = pager.nRec
    BY <1>3 DEF Recorded
  <2>. QED
    BY <1>3, <1>11, <2>1, <2>2
<1> PICK new : new = WithSegment(segs, off, seed)
  OBVIOUS
<1>15. /\ Chained(new, off) /\ IsJournal(j2, new, off, orig, com) /\ End(new, off) = off + 2
       /\ new[off] = [seed |-> seed, pages |-> << >>]
       /\ \A q : Ahead(segs, q, 0) => Ahead(new, q, 0)
  <2>1. Chained(segs, hdr) /\ IsJournal(j2, segs, hdr, orig, com)
    BY <1>13 DEF HasRecords
  <2>2. j2[off + 2] = Nonce(seed, orig) /\ off = End(segs, hdr) + 2
        /\ Len(j2) \in Nat /\ off + 2 <= Len(j2)
    BY <1>8, <1>10
  <2>3. /\ Chained(WithSegment(segs, off, seed), off)
        /\ IsJournal(j2, WithSegment(segs, off, seed), off, orig, com)
        /\ End(WithSegment(segs, off, seed), off) = off + 2
        /\ WithSegment(segs, off, seed)[off] = [seed |-> seed, pages |-> << >>]
        /\ \A q : Ahead(segs, q, 0) => Ahead(WithSegment(segs, off, seed), q, 0)
    <3>1. off \in Nat /\ seed \in Nat
      OBVIOUS
    <3>. QED
      BY ONLY <1>14, <2>1, <2>2, <3>1, SegmentAdded
  <2>. QED
    BY <2>3
<1>16. new[off].seed = seed /\ Len(new[off].pages) = 0 /\ \A q : ~InSegment(new, off, q)
  <2>1. new[off].seed = seed /\ Len(new[off].pages) = 0
    BY <1>15
  <2>. QED
    BY <2>1 DEF InSegment
<1>17. HasRecords(com, disk["db"], j2, new, pager')
  <2>1. /\ Len(com) <= pager'.dbOrigSize /\ (com = << >> => pager'.dbOrigSize = 0)
        /\ NewFileIsBlank(com, disk["db"])
    BY <1>1, <1>3 DEF HasRecords
  <2>. QED
    BY <1>1, <1>6, <1>15, <1>16, <2>1 DEF HasRecords
<1>18. SeedsBefore(j2, off + 2, seed)
  <2>1. SeedsBefore(JournalContent, 0, seed)
    BY DEF SeedsDrawn
  <2>2. SeedsBefore(j2, 0, seed)
    BY <1>6, <1>7, <2>1, SeedsOfCells
  <2> SUFFICES ASSUME NEW i \in DOMAIN j2, IsCksum(j2[i]), i > off + 2 PROVE j2[i].cksum[1] < seed
    BY DEF SeedsBefore
  <2>3. j2 \in Seq(JournalCell)
    BY <1>6, <1>7, JournalWriteDoes
  <2>4. i > 0
    BY <2>3
  <2>. QED
    BY <2>2, <2>4 DEF SeedsBefore
<1>19. Recorded(com, disk["db"], cache, new, pager', seed)
  <2>1. /\ pager.dbOrigSize <= pager.dbSize
        /\ \A p \in OldPages(com) :
              /\ p \notin pager.inJournal => Restored(com, disk["db"], cache, p)
              /\ p \in pager.inJournal => Ahead(segs, p, 0)
              /\ p \in pager.dirty => p \in pager.inJournal
    BY <1>3 DEF Recorded
  <2>. QED
    BY <1>1, <1>6, <1>15, <1>16, <2>1 DEF Recorded
<1>20. RecordedBy(new)'
  BY <1>1, <1>6, <1>8, <1>10, <1>15, <1>16, <1>17, <1>18, <1>19 DEF RecordedBy, Reversible, Counted
<1>21. UndecidedAt'
  BY <1>1, <1>2 DEF UndecidedAt
<1>22. Made(committed, disk["db"], cache, pager)'
  BY <1>1, <1>8 DEF Undecided, Made, Begun
<1>. QED
  BY <1>20, <1>21, <1>22 DEF Undecided

LEMMA OnePageWritten ==
    ASSUME NEW db \in Databases, NEW new, NEW p \in Page, NEW c, PageWritten(db, new, p, c)
    PROVE  /\ \A q \in Nat \ {0} : q <= Len(db) => q <= Len(new)
           /\ \A q \in Nat \ {0} : q # p /\ q <= Len(db) => new[q] = db[q]
           /\ p <= Len(new) /\ ContentOf(new[p]) = c
<1>1. /\ Len(db) \in Nat /\ Len(new) \in Nat /\ Len(new) = Longer(Len(db), p)
      /\ p \in Nat /\ p >= 1
  BY NPagesIsPositive DEF PageWritten, Databases, Page
<1>2. Len(db) <= Len(new) /\ p <= Len(new)
  BY <1>1 DEF Longer
<1>3. \A q \in Nat \ {0} : q # p /\ q <= Len(db) => new[q] = db[q]
  BY <1>1, <1>2 DEF PageWritten, At
<1>4. ContentOf(new[p]) = c
  BY <1>1, <1>2 DEF PageWritten, At
<1>. QED
  BY <1>1, <1>2, <1>3, <1>4

\* Of a page that is written to the file it is the same what a program sees.
LEMMA MadeAfterPage ==
    ASSUME TypeInv, NEW p \in DOMAIN cache, NEW db2, PageWritten(disk["db"], db2, p, cache[p]),
           Made(committed, disk["db"], cache, pager),
           NEW pg2, pg2.dbSize = pager.dbSize, pg2.dirty = pager.dirty \ {p}
    PROVE  Made(committed, db2, cache, pg2)
<1> PICK db \in Databases : db = disk["db"]
  BY InvTyped
<1>1. /\ p \in Page /\ cache[p] \in Content /\ cache[1].size \in 0 .. NPages
      /\ 1 \in DOMAIN cache /\ IsSize(cache[1].size, pager.dbSize)
      /\ Len(committed) <= cache[1].size /\ cache[1].size # 0
  BY InvTyped DEF Made, Begun, Content
<1>2. /\ \A q \in Nat \ {0} : q <= Len(db) => q <= Len(db2)
      /\ \A q \in Nat \ {0} : q # p /\ q <= Len(db) => db2[q] = db[q]
      /\ p <= Len(db2) /\ ContentOf(db2[p]) = cache[p]
  <2>1. PageWritten(db, db2, p, cache[p]) /\ p \in Page
    BY <1>1
  <2>. QED
    BY ONLY <2>1, db \in Databases, OnePageWritten
<1>3. \A q \in Nat : FetchedFrom(cache, db2, pager.dbSize, q) = FetchedFrom(cache, db, pager.dbSize, q)
  BY WriteUnseen
<1>4. ASSUME NEW q \in 1 .. cache[1].size
      PROVE  /\ \/ q \in pager.dirty \ {p}
                \/ q <= Len(db2) /\ (q \in DOMAIN cache => cache[q] = ContentOf(db2[q]))
             /\ q # 1 => FetchedFrom(cache, db2, pager.dbSize, q).size = 0
  <2>1. q \in Nat \ {0}
    BY <1>1
  <2>2. /\ \/ q \in pager.dirty
           \/ q <= Len(db) /\ (q \in DOMAIN cache => cache[q] = ContentOf(db[q]))
        /\ q # 1 => FetchedFrom(cache, db, pager.dbSize, q).size = 0
    BY DEF Made, Begun
  <2>. QED
    BY <1>2, <1>3, <2>1, <2>2
<1>. QED
  BY <1>1, <1>4 DEF Made, Begun

LEMMA SpillPageUndecided ==
    TypeInv /\ SeedsDrawn /\ Undecided /\ SpillPage => SeedsDrawn' /\ Undecided'
<1> SUFFICES ASSUME TypeInv, SeedsDrawn, Undecided, SpillPage PROVE SeedsDrawn' /\ Undecided'
  OBVIOUS
<1> PICK p \in DOMAIN cache : p = pc.page
  BY DEF TypeInv, PcOK, SpillPage
<1> PICK db \in Databases : db = disk["db"]
  BY InvTyped
<1> PICK com \in Seq(Versions) : com = committed
  BY InvTyped
<1>1. /\ pc.op = "spill" /\ pc.at = "pages" /\ pc' = Idle
      /\ WriteDb(p, PageCell(cache[p]))
      /\ pager' = [pager EXCEPT !.dirty = @ \ {p}]
      /\ UNCHANGED <<media, cache, prng, committed, tx>>
  BY DEF SpillPage, ghosts
<1>2. /\ tx >= 1 /\ pager.eState = "DBMOD" /\ p \in pager.dirty \ {1} /\ p \notin pager.needSync
  BY <1>1 DEF Undecided, UndecidedAt, IsIdle, Idle, Syncing
<1>3. /\ pager'.dirty = pager.dirty \ {p} /\ pager'.eState = "DBMOD"
      /\ pager'.journalHdr = pager.journalHdr /\ pager'.journalOff = pager.journalOff
      /\ pager'.nRec = pager.nRec /\ pager'.cksumInit = pager.cksumInit
      /\ pager'.dbSize = pager.dbSize /\ pager'.dbOrigSize = pager.dbOrigSize
      /\ pager'.inJournal = pager.inJournal /\ pager'.needSync = pager.needSync
  BY <1>1, <1>2, InvTyped DEF Pagers
<1>4. p \in Page /\ cache[p] \in Content
  BY InvTyped
<1> PICK db2 : db2 = disk'["db"]
  OBVIOUS
<1>5. PageWritten(db, db2, p, cache[p]) /\ JournalContent' = JournalContent
  BY <1>1, <1>4, DbWriteDoes
<1>6. SeedsDrawn'
  BY <1>1, <1>5 DEF SeedsDrawn
<1>7. Made(committed', db2, cache', pager')
  BY <1>1, <1>3, <1>5, MadeAfterPage DEF Undecided
<1>8. /\ \A q \in Nat \ {0} : q # p /\ Untouched(com, db, q) => Untouched(com, db2, q)
      /\ NewFileIsBlank(com, db) => NewFileIsBlank(com, db2)
  BY ONLY <1>2, <1>4, <1>5, db \in Databases, OthersKept
<1>9. OldPages(com) \subseteq Page /\ OldPages(com) \subseteq Nat \ {0}
  <2>1. Len(committed) <= cache[1].size /\ 1 \in DOMAIN cache
    BY DEF Undecided, Made, Begun
  <2>2. cache[1].size \in 0 .. NPages /\ Len(committed) \in Nat
    BY <2>1, InvTyped DEF Content
  <2>. QED
    BY <2>1, <2>2, NPagesIsPositive DEF OldPages, Page
<1> PICK segs : RecordedBy(segs)
  BY DEF Undecided
<1> PICK hdr \in Nat : hdr = pager.journalHdr
  BY InvTyped DEF Pagers
<1>10. /\ HasRecords(com, db, JournalContent, segs, pager)
       /\ SeedsBefore(JournalContent, End(segs, hdr), segs[hdr].seed)
       /\ Recorded(com, db, cache, segs, pager, prng)
       /\ JournalContent[hdr + 1] = ZeroCell
  BY <1>1 DEF RecordedBy, Reversible, Counted
<1>11. HasRecords(com, db2, JournalContent, segs, pager')
  <2>1. ASSUME NEW q \in OldPages(com), InSegment(segs, hdr, q) PROVE Untouched(com, db2, q)
    <3>1. Untouched(com, db, q)
      BY <1>10, <2>1 DEF HasRecords
    <3>2. q # p
      BY <1>2, <1>9, <1>10, <2>1 DEF Recorded
    <3>. QED
      BY <1>8, <1>9, <3>1, <3>2
  <2>2. /\ Chained(segs, hdr) /\ IsJournal(JournalContent, segs, hdr, pager.dbOrigSize, com)
        /\ Len(com) <= pager.dbOrigSize /\ (com = << >> => pager.dbOrigSize = 0)
        /\ NewFileIsBlank(com, db)
    BY <1>10 DEF HasRecords
  <2>. QED
    BY <1>3, <1>8, <2>1, <2>2 DEF HasRecords
<1>12. Recorded(com, db2, cache, segs, pager', prng)
  <2>1. ASSUME NEW q \in OldPages(com), q \notin pager.inJournal
        PROVE  Restored(com, db2, cache, q)
    <3>1. Restored(com, db, cache, q) /\ q # p
      BY <1>2, <1>10, <2>1 DEF Recorded
    <3>. QED
      BY <1>8, <1>9, <3>1 DEF Restored
  <2>. QED
    BY <1>3, <1>10, <2>1 DEF Recorded
<1>13. RecordedBy(segs)'
  BY <1>1, <1>3, <1>5, <1>10, <1>11, <1>12 DEF RecordedBy, Reversible, Counted, Idle
<1>14. UndecidedAt'
  BY <1>1, <1>2, <1>3 DEF UndecidedAt, IsIdle
<1>. QED
  BY <1>6, <1>7, <1>13, <1>14 DEF Undecided

-----------------------------------------------------------------------------
(* Committing *)

LEMMA UndecidedJournalOff ==
    TypeInv /\ Undecided => pager.journalOff \in Nat /\ pager.journalOff >= 2
<1> SUFFICES ASSUME TypeInv, Undecided PROVE pager.journalOff \in Nat /\ pager.journalOff >= 2
  OBVIOUS
<1> PICK segs : RecordedBy(segs)
  BY DEF Undecided
<1> PICK hdr \in Nat : hdr = pager.journalHdr
  BY InvTyped DEF Pagers
<1>1. /\ HasRecords(committed, disk["db"], JournalContent, segs, pager)
      /\ pager.journalOff = End(segs, hdr)
  BY DEF RecordedBy, Reversible, Recorded
<1>2. End(segs, hdr) \in Nat /\ hdr + 2 <= End(segs, hdr)
  BY <1>1, EndIs
<1> PICK end \in Nat : end = End(segs, hdr)
  BY <1>2
<1>. QED
  BY <1>1, <1>2

LEMMA CommitKeeps ==
    TypeInv /\ TypeInv' /\ SeedsDrawn /\ Undecided /\ Commit => SeedsDrawn' /\ Committing'
<1> SUFFICES ASSUME TypeInv, TypeInv', SeedsDrawn, Undecided, Commit
             PROVE  SeedsDrawn' /\ Committing'
  OBVIOUS
<1>1. /\ pc' = Running("commit", "nextHdr") /\ UNCHANGED <<committed, tx>>
      /\ pager.eState \in {"CACHEMOD", "DBMOD"} /\ tx >= 1
  BY DEF Commit, ghosts, Undecided, UndecidedAt
<1>2. pc'.op = "commit" /\ pc'.at = "nextHdr"
  BY <1>1 DEF Running, Idle
<1>3. pager.journalOff \in Nat /\ pager.journalOff >= 2
  BY UndecidedJournalOff
<1>4. Made(committed, disk["db"], cache, pager) /\ Begun(committed, disk["db"], cache, pager)
  BY DEF Undecided, Made
<1>5. CASE pager.changeCountDone
  <2>1. UNCHANGED <<disk, pager, cache, prng>>
    BY <1>5 DEF Commit
  <2>2. CommittingAt'
    BY <1>1, <1>2, <1>3, <2>1 DEF CommittingAt, Syncing
  <2>3. SeedsDrawn'
    BY <2>1, SameDisk DEF SeedsDrawn
  <2>. QED
    BY <1>1, <1>2, <1>4, <2>1, <2>2, <2>3 DEF Committing
<1>6. CASE ~pager.changeCountDone
  <2>1. PagerWrite(1, Size, {}, TRUE)
    BY <1>6 DEF Commit
  <2>2. Size \in 1 .. NPages /\ 1 \in Page
    <3>1. Size \in 0 .. NPages /\ Size # 0
      BY <1>1, <1>4, BegunSees DEF Made
    <3>. QED
      BY <3>1, NPagesIsPositive DEF Page
  <2>3. PagerWritten(1, Size, {})
    BY <2>1, <2>2, PagerWriteDoes
  <2>4. Writes(1, Size, {})
    BY <2>2, NPagesIsPositive DEF Writes
  <2>5. Made(committed, disk["db"], cache, pager)'
    BY <1>1, <1>4, <2>3, <2>4, WriteSeen
  <2>6. ~Starts /\ pager.cksumInit = prng
    BY <1>1 DEF Starts, Undecided, RecordedBy, Recorded
  <2>7. pager'.eState = pager.eState /\ pager'.journalOff \in {pager.journalOff, pager.journalOff + 3}
    BY <1>3, <2>3, <2>6, WithJournalIs DEF PagerWritten, RecordOff
  <2>8. pager'.journalOff # 0
    BY <1>3, <2>7
  <2>9. SeedsDrawn'
    BY <2>2, <2>3, <2>6, SeedsAfterWrite
  <2>10. CommittingAt'
    BY <1>1, <1>2, <2>7, <2>8 DEF CommittingAt, Syncing
  <2>. QED
    BY <1>2, <2>5, <2>9, <2>10 DEF Committing
<1>. QED
  BY <1>5, <1>6

LEMMA CommitSyncs ==
    TypeInv /\ SeedsDrawn /\ Committing /\ (NextHeader \/ SyncRecords \/ CountRecords \/ SyncHeader)
    => SeedsDrawn' /\ Committing'
<1> SUFFICES ASSUME TypeInv, SeedsDrawn, Committing,
                    NextHeader \/ SyncRecords \/ CountRecords \/ SyncHeader
             PROVE  SeedsDrawn' /\ Committing'
  OBVIOUS
<1>1. pc.op = "commit" /\ tx >= 1 /\ pager.journalOff # 0
      /\ Made(committed, disk["db"], cache, pager)
  BY DEF Committing, CommittingAt
<1>2. SeedsDrawn' /\ disk'["db"] = disk["db"] /\ UNCHANGED <<cache, committed, tx>>
  BY <1>1, SyncingWrites
<1>3. CASE NextHeader \/ SyncRecords \/ CountRecords
  <2>1. /\ pager' = pager /\ pc.at \in Syncing
        /\ \E at \in Syncing : pc' = [pc EXCEPT !.at = at]
    BY <1>3 DEF NextHeader, SyncRecords, CountRecords, Goes, Syncing
  <2>2. pc'.op = pc.op /\ pc'.at \in Syncing
    BY <2>1, InvTyped DEF Places
  <2>3. pager.eState \in {"CACHEMOD", "DBMOD"}
    BY <2>1 DEF Committing, CommittingAt, Syncing
  <2>4. CommittingAt' /\ pc'.at # "syncZero"
    BY <1>1, <1>2, <2>1, <2>2, <2>3 DEF CommittingAt, Syncing
  <2>. QED
    BY <1>1, <1>2, <2>1, <2>4 DEF Committing
<1>4. CASE SyncHeader
  <2>1. /\ pc'.at = "pages" /\ pc'.op = pc.op /\ pager'.eState = "DBMOD"
        /\ pager'.dbSize = pager.dbSize /\ pager'.dirty = pager.dirty
        /\ pager'.journalOff = pager.journalOff
    BY <1>1, <1>4, SyncHeaderDoes
  <2>2. CommittingAt'
    BY <1>1, <1>2, <2>1 DEF CommittingAt
  <2>3. Made(committed, disk["db"], cache, pager)'
    BY <1>1, <1>2, <2>1 DEF Made, Begun
  <2>. QED
    BY <1>2, <2>1, <2>2, <2>3 DEF Committing
<1>. QED
  BY <1>3, <1>4

LEMMA CommitPageKeeps ==
    TypeInv /\ SeedsDrawn /\ Committing /\ CommitPage => SeedsDrawn' /\ Committing'
<1> SUFFICES ASSUME TypeInv, SeedsDrawn, Committing, CommitPage PROVE SeedsDrawn' /\ Committing'
  OBVIOUS
<1> PICK p \in pager.dirty :
        /\ IF p <= pager.dbSize THEN WriteDb(p, PageCell(cache[p])) ELSE UNCHANGED disk
        /\ pager' = [pager EXCEPT !.dirty = @ \ {p}]
  BY DEF CommitPage
<1>1. /\ pc.op = "commit" /\ pc.at = "pages" /\ UNCHANGED <<media, cache, prng, pc, committed, tx>>
  BY DEF CommitPage, ghosts
<1>2. /\ tx >= 1 /\ pager.journalOff # 0 /\ pager.eState = "DBMOD"
      /\ Made(committed, disk["db"], cache, pager)
  BY <1>1 DEF Committing, CommittingAt, Syncing
<1>3. /\ pager'.dirty = pager.dirty \ {p} /\ pager'.eState = pager.eState
      /\ pager'.journalOff = pager.journalOff /\ pager'.dbSize = pager.dbSize
  BY InvTyped DEF Pagers
<1>4. p \in DOMAIN cache /\ p \in Page /\ cache[p] \in Content
  BY InvTyped
<1>5. CommittingAt'
  BY <1>1, <1>2, <1>3 DEF CommittingAt
<1>6. CASE p <= pager.dbSize
  <2>1. WriteDb(p, PageCell(cache[p]))
    BY <1>6
  <2>2. PageWritten(disk["db"], disk'["db"], p, cache[p]) /\ JournalContent' = JournalContent
    BY <1>1, <1>4, <2>1, DbWriteDoes
  <2>3. Made(committed, disk["db"], cache, pager)'
    BY <1>1, <1>2, <1>3, <1>4, <2>2, MadeAfterPage
  <2>. QED
    BY <1>1, <1>5, <2>2, <2>3 DEF Committing, SeedsDrawn
<1>7. CASE ~(p <= pager.dbSize)
  <2>1. disk' = disk
    BY <1>7
  <2>2. p \notin 1 .. cache[1].size
    <3>1. IsSize(cache[1].size, pager.dbSize) /\ 1 \in DOMAIN cache
      BY <1>2 DEF Made, Begun
    <3>2. cache[1].size \in 0 .. NPages /\ pager.dbSize \in 0 .. NPages
      BY <3>1, InvTyped DEF Content, Pagers
    <3>. QED
      BY <1>4, <1>7, <3>1, <3>2, NPagesIsPositive DEF IsSize, Page
  <2>3. Made(committed, disk["db"], cache, pager)'
    BY <1>1, <1>2, <1>3, <2>1, <2>2 DEF Made, Begun
  <2>. QED
    BY <1>1, <1>5, <2>1, <2>3, SameDisk DEF Committing, SeedsDrawn
<1>. QED
  BY <1>6, <1>7

LEMMA CommitGoesOn ==
    TypeInv /\ SeedsDrawn /\ Committing /\ (CommitPagesDone \/ SyncDb) => SeedsDrawn' /\ Committing'
<1> SUFFICES ASSUME TypeInv, SeedsDrawn, Committing, CommitPagesDone \/ SyncDb
             PROVE  SeedsDrawn' /\ Committing'
  OBVIOUS
<1>1. /\ UNCHANGED <<disk, cache, prng, committed, tx>>
      /\ pc.op = "commit" /\ tx >= 1 /\ pager.journalOff # 0
      /\ Made(committed, disk["db"], cache, pager)
  BY DEF CommitPagesDone, SyncDb, Sync, ghosts, Committing, CommittingAt
<1>2. SeedsDrawn'
  BY <1>1, SameDisk DEF SeedsDrawn
<1>3. CASE CommitPagesDone
  <2>1. pc' = [pc EXCEPT !.at = "syncDb"] /\ pager' = pager /\ pager.dirty = {} /\ pc.at = "pages"
    BY <1>3 DEF CommitPagesDone, Goes
  <2>2. pc'.at = "syncDb" /\ pc'.op = pc.op
    BY <2>1, InvTyped DEF Places
  <2>3. CommittingAt'
    BY <1>1, <2>1, <2>2 DEF CommittingAt, Committing, Syncing
  <2>. QED
    BY <1>1, <1>2, <2>1, <2>2, <2>3 DEF Committing
<1>4. CASE SyncDb
  <2>1. pc' = [pc EXCEPT !.at = "zero"] /\ pager' = [pager EXCEPT !.eState = "FINISHED"]
        /\ pc.at = "syncDb"
    BY <1>1, <1>4 DEF SyncDb, Goes
  <2>2. /\ pc'.at = "zero" /\ pc'.op = pc.op
        /\ pager'.eState = "FINISHED" /\ pager'.dirty = pager.dirty
        /\ pager'.dbSize = pager.dbSize /\ pager'.journalOff = pager.journalOff
    BY <2>1, InvTyped DEF Places, Pagers
  <2>3. CommittingAt'
    BY <1>1, <2>1, <2>2 DEF CommittingAt, Committing, Syncing
  <2>4. Made(committed, disk["db"], cache, pager)'
    BY <1>1, <2>2 DEF Made, Begun
  <2>. QED
    BY <1>2, <2>2, <2>3, <2>4 DEF Committing
<1>. QED
  BY <1>3, <1>4

\* The header is zeroed: nothing but the journal changes.
LEMMA ZeroHeaderDoes ==
    ASSUME TypeInv, SeedsDrawn, ZeroHeader
    PROVE  /\ SeedsDrawn' /\ disk'["db"] = disk["db"]
           /\ pc.at = "zero" /\ pc'.at = "syncZero" /\ pc'.op = pc.op
           /\ UNCHANGED <<pager, cache, prng, tx>>
           /\ View' = View
           /\ committed' = IF pc.op = "commit" THEN View ELSE committed
<1>1. /\ pc.at = "zero" /\ pc' = [pc EXCEPT !.at = "syncZero"]
      /\ WriteJournal(0, <<ZeroCell, ZeroCell>>)
      /\ UNCHANGED <<pager, cache, prng, tx>>
      /\ committed' = IF pc.op = "commit" THEN View ELSE committed
  BY DEF ZeroHeader, Goes
<1>2. pc'.at = "syncZero" /\ pc'.op = pc.op
  BY <1>1, InvTyped DEF Places
<1> PICK cells : cells = <<ZeroCell, ZeroCell>>
  OBVIOUS
<1>3. cells \in Seq(JournalCell) /\ \A i \in 1 .. Len(cells) : ~IsCksum(cells[i])
  <2>1. cells \in Seq(JournalCell) /\ Len(cells) = 2 /\ cells[1] = ZeroCell /\ cells[2] = ZeroCell
    BY ZeroIs
  <2>2. \A i \in 1 .. 2 : i = 1 \/ i = 2
    OBVIOUS
  <2>. QED
    BY <2>1, <2>2, ZeroIs
<1>4. WriteJournal(0, cells)
  BY <1>1
<1>5. disk'["db"] = disk["db"]
  BY <1>3, <1>4, JournalWriteDoes
<1>6. SeedsBefore(JournalContent', 0, prng + 1)
  BY <1>3, <1>4, SeedsOfCells DEF SeedsDrawn
<1>7. View' = View
  BY <1>1, <1>5 DEF View, IsDatabase, Size, Fetched, DbSize
<1>. QED
  BY <1>1, <1>2, <1>5, <1>6, <1>7 DEF SeedsDrawn

LEMMA CommitZeroes ==
    TypeInv /\ SeedsDrawn /\ Committing /\ ZeroHeader => SeedsDrawn' /\ Committing'
<1> SUFFICES ASSUME TypeInv, SeedsDrawn, Committing, ZeroHeader PROVE SeedsDrawn' /\ Committing'
  OBVIOUS
<1>1. /\ pc.op = "commit" /\ tx >= 1 /\ pager.journalOff # 0
      /\ Made(committed, disk["db"], cache, pager)
  BY DEF Committing, CommittingAt
<1>2. /\ SeedsDrawn' /\ disk'["db"] = disk["db"]
      /\ pc.at = "zero" /\ pc'.at = "syncZero" /\ pc'.op = pc.op
      /\ UNCHANGED <<pager, cache, prng, tx>>
      /\ View' = View /\ committed' = View
  BY <1>1, ZeroHeaderDoes
<1>3. pager.eState = "FINISHED" /\ pager.dirty = {}
  BY <1>2 DEF Committing, CommittingAt, Syncing
<1>4. CommittingAt'
  BY <1>1, <1>2, <1>3 DEF CommittingAt
<1>5. Len(View) = cache[1].size /\ cache[1].size \in Nat
  <2>1. /\ Size = cache[1].size /\ Size \in 0 .. NPages
        /\ View = [p \in 1 .. Size |-> Fetched(p).by]
    BY <1>1, <1>3, BegunSees DEF Made
  <2>2. Size \in Nat /\ DOMAIN View = 1 .. Size /\ View \in Seq(Versions)
    BY <2>1, ViewTyped, NPagesIsPositive DEF Versions
  <2>. QED
    BY <2>1, <2>2, LenProperties
<1>6. Made(committed, disk["db"], cache, pager)'
  <2>1. Len(committed') <= cache[1].size
    BY <1>2, <1>5
  <2>. QED
    BY <1>1, <1>2, <2>1 DEF Made, Begun
<1>. QED
  BY <1>2, <1>4, <1>6 DEF Committing

\* What the pages of the file are after a commit.
LEMMA CommittedInFile ==
    ASSUME TypeInv, Made(committed, disk["db"], cache, pager), committed = View,
           pager.dirty = {}, pager.eState = "FINISHED"
    PROVE  /\ AllRestored(committed, disk["db"], cache)
           /\ committed # << >> /\ Len(committed) <= pager.dbSize
<1>1. /\ DbSize = pager.dbSize /\ Size = cache[1].size /\ IsDatabase
      /\ Size \in 0 .. NPages /\ pager.dbSize \in 0 .. NPages /\ Size <= pager.dbSize
      /\ View = [p \in 1 .. Size |-> Fetched(p).by] /\ 1 \in DOMAIN cache /\ Size # 0
  BY BegunSees DEF Made, Begun
<1> PICK com \in Seq(Versions) : com = committed
  BY InvTyped
<1>2. Size \in Nat /\ Len(com) = Size /\ \A p \in 1 .. Size : com[p] = Fetched(p).by
  <2>1. Size \in Nat
    BY <1>1, NPagesIsPositive
  <2>2. com = [p \in 1 .. Size |-> Fetched(p).by]
    BY <1>1
  <2>3. DOMAIN com = 1 .. Size
    BY <2>2
  <2>. QED
    BY <2>1, <2>2, <2>3, LenProperties
<1> PICK db \in Databases : db = disk["db"]
  BY InvTyped
<1>3. ASSUME NEW p \in OldPages(com)
      PROVE  Restored(com, db, cache, p)
  <2>1. p \in 1 .. Size /\ p \in Nat /\ p >= 1 /\ p <= pager.dbSize
    BY <1>1, <1>2 DEF OldPages
  <2>2. p <= Len(db) /\ (p \in DOMAIN cache => cache[p] = ContentOf(db[p]))
    BY <1>1, <2>1 DEF Made, Begun
  <2>3. p # 1 => Fetched(p).size = 0
    <3>1. Fetched(p) = FetchedFrom(cache, db, pager.dbSize, p)
      BY <1>1, ViewIs
    <3>2. p # 1 => FetchedFrom(cache, db, pager.dbSize, p).size = 0
      BY <1>1, <2>1 DEF Made, Begun
    <3>. QED
      BY <3>1, <3>2
  <2>4. p = 1 => Fetched(p).size = Size
    BY DEF Size
  <2>5. ContentOf(db[p]) = Fetched(p)
    <3>1. p \in 1 .. Len(db)
      <4>1. Len(db) \in Nat
        BY DEF Databases
      <4>. QED
        BY <2>1, <2>2, <4>1
    <3>2. At(disk["db"], p) = db[p]
      BY <3>1 DEF At
    <3>. QED
      BY <1>1, <2>1, <2>2, <3>2 DEF Fetched
  <2>6. Fetched(p) = Old(com, p)
    <3>1. Fetched(p) \in Content
      BY FetchedTyped
    <3>2. Fetched(p) = [by |-> Fetched(p).by, size |-> Fetched(p).size]
      BY <3>1 DEF Content
    <3>3. Fetched(p).by = com[p] /\ Fetched(p).size = IF p = 1 THEN Len(com) ELSE 0
      BY <1>2, <2>1, <2>3, <2>4
    <3>. QED
      BY <3>2, <3>3 DEF Old, WrittenBy
  <2>. QED
    BY <2>2, <2>5, <2>6 DEF Restored, Untouched
<1>4. committed # << >>
  BY <1>1, <1>2
<1>. QED
  BY <1>1, <1>2, <1>3, <1>4 DEF AllRestored

\* The pager is settled again.
LEMMA EndSettles ==
    ASSUME TypeInv, SeedsDrawn, EndTransaction, ~Hot,
           AllRestored(committed, disk["db"], cache), NewFileIsBlank(committed, disk["db"]),
           Len(committed) <= pager.dbSize, committed = << >> => pager.dbSize = 0
    PROVE  /\ SeedsDrawn' /\ Settled' /\ disk'["db"] = disk["db"]
           /\ pager'.eState = "READER" /\ pager'.dbSize = pager.dbSize
           /\ UNCHANGED <<committed, tx>>
<1>1. /\ disk' = disk /\ pc' = Idle /\ UNCHANGED <<prng, committed, tx>>
      /\ pager' = [pager EXCEPT !.eState = "READER", !.journalOff = 0, !.nRec = 0,
                                !.inJournal = {}, !.dirty = {}, !.needSync = {},
                                !.dbSize = pager.dbSize]
      /\ cache' = [p \in {q \in DOMAIN cache : q <= pager.dbSize} |-> cache[p]]
  BY DEF EndTransaction, Sync
<1>2. /\ pager'.eState = "READER" /\ pager'.dirty = {} /\ pager'.inJournal = {}
      /\ pager'.dbSize = pager.dbSize
  BY <1>1, InvTyped DEF Pagers
<1>3. AllRestored(committed, disk["db"], cache')
  BY <1>1 DEF AllRestored, Restored
<1>4. NewPageIsBlank(committed, cache')
  <2> SUFFICES ASSUME committed = << >>, 1 \in DOMAIN cache' PROVE cache'[1].size = 0
    BY DEF NewPageIsBlank
  <2>1. pager.dbSize = 0
    OBVIOUS
  <2>2. 1 <= pager.dbSize
    BY <1>1
  <2>. QED
    BY <2>1, <2>2
<1>5. committed = << >> => pager.dbSize <= Len(disk["db"])
  BY InvTyped
<1>6. SettledPages(committed, disk["db"], cache', pager')
  BY <1>2, <1>3, <1>4, <1>5 DEF SettledPages
<1>7. Settled'
  BY <1>1, <1>2, <1>6 DEF Settled, IsIdle
<1>8. SeedsDrawn'
  BY <1>1, SameDisk DEF SeedsDrawn
<1>. QED
  BY <1>1, <1>2, <1>7, <1>8

LEMMA CommitEnds ==
    TypeInv /\ SeedsDrawn /\ Committing /\ EndTransaction => SeedsDrawn' /\ Settled'
<1> SUFFICES ASSUME TypeInv, SeedsDrawn, Committing, EndTransaction PROVE SeedsDrawn' /\ Settled'
  OBVIOUS
<1>1. pc.op = "commit" /\ pager.journalOff # 0
  BY DEF Committing, CommittingAt
<1>2. pc.at = "syncZero"
  BY <1>1 DEF EndTransaction
<1>3. /\ Made(committed, disk["db"], cache, pager) /\ committed = View
      /\ pager.eState = "FINISHED" /\ pager.dirty = {}
  BY <1>2 DEF Committing, CommittingAt, Syncing
<1>4. /\ AllRestored(committed, disk["db"], cache)
      /\ committed # << >> /\ Len(committed) <= pager.dbSize
  BY <1>3, CommittedInFile
<1>5. ~Hot /\ NewFileIsBlank(committed, disk["db"])
  BY <1>1, <1>4 DEF Hot, NewFileIsBlank
<1>. QED
  BY <1>4, <1>5, EndSettles
=============================================================================
