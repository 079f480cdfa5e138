------------------------------ MODULE Journal ------------------------------
(***************************************************************************)
(* Transactions on one database file: the rollback journal of SQLite's     *)
(* pager as usqlite_config.h configures it (exclusive locking, so that the *)
(* journal stays open and is finished by zeroing its header; synchronous   *)
(* FULL) and as usqlite_vfs.c lets it work: xAccess finds no file, so no   *)
(* journal is ever hot, xTruncate does nothing and xRandomness gives no    *)
(* randomness, so that the check-sum seeds are the same in every run.      *)
(*                                                                         *)
(* A step changes the files by at most one write to neighbouring cells or  *)
(* one sync; several calls in one step are writes between two syncs, of    *)
(* which a loss of power keeps any part in any case.                       *)
(***************************************************************************)
EXTENDS Integers, Sequences, SequencesExt

CONSTANTS
    NPages,       \* bound: pages of the database
    InitialSize,  \* pages it may have at first; 0 is a file that is empty
    NoFile,       \* the "content" of a file that does not exist
    MaxTx,        \* bound: transactions
    MaxCrash      \* bound: losses of power

ASSUME NPagesIsPositive == NPages \in Nat \ {0}
ASSUME SizesAreSizes == InitialSize \subseteq 0 .. NPages
ASSUME BoundsAreNumbers == MaxTx \in Nat /\ MaxCrash \in Nat

VARIABLES
    disk, media,   \* the files, see FileStore
    pager,         \* struct Pager
    cache,         \* cache[p]: the content of p, for a page in the page cache
    prng,          \* random numbers drawn since the program was started
    pc,            \* what the pager is doing
    committed,     \* the pages as the last transaction left them
    previous,      \* committed, or what a loss of power may bring back
    tx,            \* transactions begun
    crashes

vars == <<disk, media, pager, cache, prng, pc, committed, previous, tx, crashes>>

Page == 1 .. NPages

\* Transactions have the numbers from 1, the first pages were written by 0.
Version == 0 .. MaxTx

Nobody == -1

\* What is in a page: the transaction that wrote it and, in page 1, the number
\* of pages of the database.
Content == [by : Version \cup {Nobody}, size : 0 .. NPages]

\* The content of a page that was never written.
Blank == [by |-> Nobody, size |-> 0]

WrittenBy(v, p, size) == [by |-> v, size |-> IF p = 1 THEN size ELSE 0]

-----------------------------------------------------------------------------
(* The cells of the two files.  The database has one per page.  A journal  *)
(* is made of headers (magic with nRec; seed of the check-sums with the    *)
(* size of the database before the transaction) and of records (page       *)
(* number; page; check-sum); a header starts at a sector of its own, here  *)
(* after a gap of two cells, so that records of different transactions     *)
(* need not line up.                                                       *)

PageCell(c) == [page |-> c]
Magic(n) == [magic |-> n]
Nonce(r, origSize) == [nonce |-> r, origSize |-> origSize]
Pgno(p) == [pgno |-> p]
\* pager_cksum
Cksum(r, c) == [cksum |-> <<r, c>>]
ZeroCell == [zero |-> 0]

IsMagic(c) == DOMAIN c = {"magic"}
IsPgno(c) == DOMAIN c = {"pgno"}
IsPage(c) == DOMAIN c = {"page"}
IsNonce(c) == DOMAIN c = {"nonce", "origSize"}

\* Other cells are as good as any as a seed.
Seed(c) == IF IsNonce(c) THEN c.nonce ELSE 0

ContentOf(c) == IF IsPage(c) THEN c.page ELSE Blank

JournalCell ==
    [page : Content] \cup [magic : 0 .. NPages] \cup [nonce : Nat, origSize : 0 .. NPages]
      \cup [pgno : Page] \cup [cksum : Nat \X Content] \cup {ZeroCell}

ASSUME NoFileIsNoContent == NoFile \notin Seq(JournalCell)

INSTANCE FileStore WITH
    Path <- {"db", "journal"}, Cell <- JournalCell, Zero <- ZeroCell,
    Offset <- {}, Block <- {}

HdrSize == 2
RecSize == 3

\* Mutant: to the beginning of the sector, not to the next one.
HdrOffsetBefore(off) == IF off <= HdrSize THEN 0 ELSE off + 2

\* journalHdrOffset.  (Records that end on a sector are left out.)
JournalHdrOffset(off) == IF off = 0 THEN 0 ELSE off + 2

JournalContent == IF Exists("journal") THEN disk["journal"] ELSE << >>

WriteJournal(off, cells) ==
    disk' = [disk EXCEPT !["journal"] = Written(JournalContent, off, cells)]

WriteDb(p, cell) == disk' = [disk EXCEPT !["db"] = Written(@, p - 1, <<cell>>)]

\* The magic is written only when the records it counts are synced.
Header(nonce) == <<ZeroCell, Nonce(nonce, pager.dbOrigSize)>>

-----------------------------------------------------------------------------
(* State *)

ClosedPager ==
    [eState |-> "CLOSED", jfd |-> FALSE, journalOff |-> 0, journalHdr |-> 0,
     nRec |-> 0, cksumInit |-> 0, changeCountDone |-> FALSE,
     dbSize |-> 0, dbOrigSize |-> 0,
     inJournal |-> {}, dirty |-> {}, needSync |-> {}]

Idle == [op |-> "none", at |-> "none", page |-> 0, left |-> 0]

IsIdle == pc = Idle

Running(op, at) == [Idle EXCEPT !.op = op, !.at = at]

Goes(at) == pc' = [pc EXCEPT !.at = at]

\* The playback of a journal that some earlier call has left (isHot).
Hot == pc.op = "recover"

PlayingBack == pc.op \in {"rollback", "again", "recover"}

\* An exclusive pager that gave up keeps its journal open: a rollback is owed.
Owed == pager.eState = "OPEN" /\ pager.jfd

TypeOK ==
    /\ StoreTypeOK
    /\ disk["db"] \in Seq([page : Content] \cup {ZeroCell})
    /\ pager \in [eState : {"CLOSED", "OPEN", "READER", "LOCKED", "CACHEMOD",
                            "DBMOD", "FINISHED"},
                  jfd : BOOLEAN, journalOff : Nat, journalHdr : Nat,
                  nRec : 0 .. NPages, cksumInit : Nat, changeCountDone : BOOLEAN,
                  dbSize : 0 .. NPages, dbOrigSize : 0 .. NPages,
                  inJournal : SUBSET Page, dirty : SUBSET Page,
                  needSync : SUBSET Page]
    /\ DOMAIN cache \subseteq Page
    /\ cache \in [DOMAIN cache -> Content]
    /\ prng \in Nat
    /\ pc \in [op : {"none", "spill", "commit", "rollback", "again", "recover"},
               at : {"none", "nextHdr", "syncRecords", "nRec", "syncHdr", "pages",
                     "syncDb", "hdr", "rec", "zero", "syncZero"},
               page : Page \cup {0}, left : Nat]
    /\ {committed, previous} \subseteq Seq(Version \cup {Nobody})
    /\ tx \in 0 .. MaxTx
    /\ crashes \in 0 .. MaxCrash

Init ==
    /\ \E n \in InitialSize :
          /\ disk = [db |-> [p \in 1 .. n |-> PageCell(WrittenBy(0, p, n))],
                     journal |-> NoFile]
          /\ committed = [p \in 1 .. n |-> 0]
    /\ media = disk
    /\ pager = ClosedPager
    /\ cache = << >>
    /\ prng = 0
    /\ pc = Idle
    /\ previous = committed
    /\ tx = 0
    /\ crashes = 0

-----------------------------------------------------------------------------
(* What a program sees *)

\* pagerPagecount, asked again whenever the pager is opened.
DbSize ==
    IF pager.eState \in {"CLOSED", "OPEN"} THEN Len(disk["db"]) ELSE pager.dbSize

Fetched(p) ==
    IF p \in DOMAIN cache THEN cache[p]
    ELSE IF p <= DbSize THEN ContentOf(At(disk["db"], p))
    ELSE Blank

\* The size a file says it has, if it has as many pages (lockBtree).
IsSize(size, pages) == IF pages = 0 THEN size = 0 ELSE size \in 1 .. pages

Size == Fetched(1).size

IsDatabase == IsSize(Size, DbSize)

\* What SQLite answers for such a file ("file is not a database", "database
\* disk image is malformed").
NotADatabase == <<Nobody>>

View == IF IsDatabase THEN [p \in 1 .. Size |-> Fetched(p).by] ELSE NotADatabase

-----------------------------------------------------------------------------
(* Reading *)

ghosts == <<committed, previous, tx, crashes>>

Open ==
    /\ pager.eState = "CLOSED"
    /\ pager' = [pager EXCEPT !.eState = "OPEN"]
    /\ UNCHANGED <<disk, media, cache, prng, pc, ghosts>>

\* Without a lock on the file, hasHotJournal asks xAccess whether there is a
\* journal and is told that there is none.
SharedLock ==
    /\ pager.eState = "OPEN"
    /\ ~ Owed
    /\ pager' = [pager EXCEPT !.eState = "READER", !.dbSize = DbSize]
    /\ UNCHANGED <<disk, media, cache, prng, pc, ghosts>>

InTransaction == pager.eState \in {"LOCKED", "CACHEMOD", "DBMOD"}

\* The page cache with new pages, or with new contents.
WithPages(new) ==
    [q \in DOMAIN new \cup DOMAIN cache |-> IF q \in DOMAIN new THEN new[q] ELSE cache[q]]

Get(p) ==
    /\ IsIdle
    /\ pager.eState = "READER" \/ InTransaction
    /\ p \notin DOMAIN cache
    /\ p = 1 \/ (IsDatabase /\ p <= Size)
    /\ cache' = WithPages([q \in {p} |-> Fetched(q)])
    /\ UNCHANGED <<disk, media, pager, prng, pc, ghosts>>

Without(p) == [q \in DOMAIN cache \ {p} |-> cache[q]]

\* Mutant: the memory of any page is taken.
RecycleAny(p) ==
    /\ IsIdle
    /\ p \in DOMAIN cache
    /\ cache' = Without(p)
    /\ UNCHANGED <<disk, media, pager, prng, pc, ghosts>>

\* The page cache takes the memory of a clean page for another; a transaction
\* holds on to page 1.
Recycle(p) ==
    /\ IsIdle
    /\ p \in DOMAIN cache \ pager.dirty
    /\ ~ (InTransaction /\ p = 1)
    /\ cache' = Without(p)
    /\ UNCHANGED <<disk, media, pager, prng, pc, ghosts>>

-----------------------------------------------------------------------------
(* Writing *)

\* sqlite3BtreeBeginTrans: page 1 is read, then sqlite3PagerBegin.
Begin ==
    /\ IsIdle
    /\ pager.eState = "READER"
    /\ IsDatabase
    /\ tx < MaxTx
    /\ tx' = tx + 1
    /\ cache' = WithPages([q \in {1} |-> Fetched(q)])
    /\ pager' = [pager EXCEPT !.eState = "LOCKED", !.journalOff = 0, !.dbOrigSize = pager.dbSize]
    /\ UNCHANGED <<disk, media, prng, pc, committed, previous, crashes>>

\* sqlite3_randomness, whose state mpvfsRandomness leaves as it is: the numbers
\* are a function of how many were drawn since the program was started.
NextSeed == prng + 1

\* pager_open_journal: an existing journal is opened as it is, and its first
\* header is written over.
WithJournal ==
    IF pager.eState = "LOCKED"
    THEN [pager EXCEPT !.eState = "CACHEMOD", !.jfd = TRUE, !.nRec = 0, !.journalHdr = 0,
                       !.journalOff = HdrSize, !.cksumInit = NextSeed]
    ELSE pager

FirstHeader == IF pager.eState = "LOCKED" THEN Header(NextSeed) ELSE << >>

\* Mutant: a page that the journal has is recorded again.
RecordAlways(p, cksumInit) ==
    <<Pgno(p), PageCell(cache[p]), Cksum(cksumInit, cache[p])>>

\* pagerAddPageToRollbackJournal, for a page that the database had before and
\* the journal does not have.
RecordOf(p, cksumInit) ==
    IF p \in pager.inJournal \/ p > pager.dbOrigSize THEN << >>
    ELSE <<Pgno(p), PageCell(cache[p]), Cksum(cksumInit, cache[p])>>

\* Of the pages S, those that need no record but must not reach the file before
\* the header with the old size.
Appended(S, pg) ==
    IF pg.eState = "DBMOD" THEN {} ELSE {p \in S : p > pg.dbOrigSize}

\* pager_write of page p, and what the B-tree then puts in it; the pages new
\* are taken from behind the end of the database.
PagerWrite(p, size, new, changeCountDone) ==
    LET pg == WithJournal
        record == RecordOf(p, pg.cksumInit)
        recorded == IF record = << >> THEN {} ELSE {p}
        cells == FirstHeader \o record
        written == {p} \cup new
    IN  /\ p \in DOMAIN cache
        /\ IF cells = << >> THEN UNCHANGED disk
           ELSE WriteJournal(pg.journalOff - Len(FirstHeader), cells)
        /\ pager' = [pg EXCEPT
              !.journalOff = @ + Len(record),
              !.nRec = IF record = << >> THEN @ ELSE @ + 1,
              !.inJournal = @ \cup recorded \cup {q \in new : q <= pg.dbOrigSize},
              !.needSync = @ \cup recorded \cup Appended(written, pg),
              !.dirty = @ \cup written,
              !.dbSize = IF \A q \in written : q <= @ THEN @ ELSE @ + 1,
              !.changeCountDone = changeCountDone]
        /\ prng' = IF pager.eState = "LOCKED" THEN NextSeed ELSE prng
        /\ cache' = WithPages([q \in written |-> WrittenBy(tx, q, size)])

\* newDatabase: the first transaction on an empty file makes page 1.
NewDatabase ==
    /\ IsIdle
    /\ pager.eState = "LOCKED"
    /\ Size = 0
    /\ PagerWrite(1, 1, {}, pager.changeCountDone)
    /\ UNCHANGED <<media, pc, ghosts>>

WritePage(p) ==
    /\ IsIdle
    /\ InTransaction
    /\ p <= Size
    /\ PagerWrite(p, Size, {}, pager.changeCountDone)
    /\ UNCHANGED <<media, pc, ghosts>>

\* allocateBtreePage, at the end of the database: page 1 counts the new page.
Extend ==
    /\ IsIdle
    /\ InTransaction
    /\ Size \in 1 .. NPages - 1
    /\ PagerWrite(1, Size + 1, {Size + 1}, pager.changeCountDone)
    /\ UNCHANGED <<media, pc, ghosts>>

-----------------------------------------------------------------------------
(* syncJournal: the records are synced, then counted in the header, then   *)
(* the header is synced.                                                   *)

\* Mutant: what follows the records is left as it is.
NextHeaderKept ==
    /\ pc.at = "nextHdr"
    /\ Goes("syncRecords")
    /\ UNCHANGED <<disk, media, pager, cache, prng, ghosts>>

\* A header of an older transaction that happens to follow.
OldHeaderFollows ==
    LET off == JournalHdrOffset(pager.journalOff)
    IN  off < Len(JournalContent) /\ IsMagic(JournalContent[off + 1])

\* It is made unreadable.
NextHeader ==
    /\ pc.at = "nextHdr"
    /\ IF OldHeaderFollows
       THEN WriteJournal(JournalHdrOffset(pager.journalOff), <<ZeroCell>>)
       ELSE UNCHANGED disk
    /\ Goes("syncRecords")
    /\ UNCHANGED <<media, pager, cache, prng, ghosts>>

SyncRecords ==
    /\ pc.at = "syncRecords"
    /\ Sync("journal")
    /\ Goes("nRec")
    /\ previous' = committed
    /\ UNCHANGED <<pager, cache, prng, committed, tx, crashes>>

CountRecords ==
    /\ pc.at = "nRec"
    /\ WriteJournal(pager.journalHdr, <<Magic(pager.nRec)>>)
    /\ Goes("syncHdr")
    /\ UNCHANGED <<media, pager, cache, prng, ghosts>>

\* writeJournalHdr, for the records to come of a transaction that goes on.
WithNewHeader(pg) ==
    LET off == JournalHdrOffset(pg.journalOff)
    IN  [pg EXCEPT !.nRec = 0, !.cksumInit = NextSeed,
                   !.journalHdr = off, !.journalOff = off + HdrSize]

SyncHeader ==
    LET synced == [pager EXCEPT !.eState = "DBMOD", !.needSync = {},
                                !.journalHdr = pager.journalOff]
    IN  /\ pc.at = "syncHdr"
        /\ media' = [media EXCEPT !["journal"] = disk["journal"]]
        /\ IF pc.op = "spill"
           THEN /\ pager' = WithNewHeader(synced)
                /\ WriteJournal(pager'.journalHdr, Header(NextSeed))
                /\ prng' = NextSeed
           ELSE /\ pager' = synced
                /\ UNCHANGED <<disk, prng>>
        /\ Goes("pages")
        /\ UNCHANGED <<cache, ghosts>>

-----------------------------------------------------------------------------
(* Spilling (pagerStress): the cache needs the memory of a dirty page.     *)

\* Page 1 is in use as long as a transaction lasts.
Spill(p) ==
    /\ IsIdle
    /\ pager.eState \in {"CACHEMOD", "DBMOD"}
    /\ p \in pager.dirty \ {1}
    /\ pc' = [Running("spill", IF p \in pager.needSync \/ pager.eState = "CACHEMOD"
                              THEN "nextHdr" ELSE "pages") EXCEPT !.page = p]
    /\ UNCHANGED <<disk, media, pager, cache, prng, ghosts>>

SpillPage ==
    /\ pc.op = "spill"
    /\ pc.at = "pages"
    /\ WriteDb(pc.page, PageCell(cache[pc.page]))
    /\ pager' = [pager EXCEPT !.dirty = @ \ {pc.page}]
    /\ pc' = Idle
    /\ UNCHANGED <<media, cache, prng, ghosts>>

-----------------------------------------------------------------------------
(* Commit (sqlite3PagerCommitPhaseOne, sqlite3PagerCommitPhaseTwo)         *)

\* A transaction that wrote nothing ends, either way, without a call.
EndNothing ==
    /\ IsIdle
    /\ pager.eState = "LOCKED"
    /\ Size > 0
    /\ pager' = [pager EXCEPT !.eState = "READER"]
    /\ UNCHANGED <<disk, media, cache, prng, pc, ghosts>>

\* pager_incr_changecounter: once per connection and rollback, page 1 is
\* written too.
Commit ==
    /\ IsIdle
    /\ pager.eState \in {"CACHEMOD", "DBMOD"}
    /\ pc' = Running("commit", "nextHdr")
    /\ IF pager.changeCountDone
       THEN UNCHANGED <<disk, pager, cache, prng>>
       ELSE PagerWrite(1, Size, {}, TRUE)
    /\ UNCHANGED <<media, ghosts>>

\* pager_write_pagelist, one page after the other; pages behind the end of the
\* database are not written.
CommitPage ==
    /\ pc.op = "commit"
    /\ pc.at = "pages"
    /\ \E p \in pager.dirty :
          /\ \A q \in pager.dirty : p <= q
          /\ IF p <= pager.dbSize THEN WriteDb(p, PageCell(cache[p])) ELSE UNCHANGED disk
          /\ pager' = [pager EXCEPT !.dirty = @ \ {p}]
    /\ UNCHANGED <<media, cache, prng, pc, ghosts>>

CommitPagesDone ==
    /\ pc.op = "commit"
    /\ pc.at = "pages"
    /\ pager.dirty = {}
    /\ Goes("syncDb")
    /\ UNCHANGED <<disk, media, pager, cache, prng, ghosts>>

\* Mutant: the database file is not synced before the journal is finished.
NoSyncDb ==
    /\ pc.at = "syncDb"
    /\ pager' = IF pc.op = "commit" THEN [pager EXCEPT !.eState = "FINISHED"] ELSE pager
    /\ Goes("zero")
    /\ UNCHANGED <<disk, media, cache, prng, ghosts>>

SyncDb ==
    /\ pc.at = "syncDb"
    /\ Sync("db")
    /\ pager' = IF pc.op = "commit" THEN [pager EXCEPT !.eState = "FINISHED"] ELSE pager
    /\ Goes("zero")
    /\ UNCHANGED <<cache, prng, ghosts>>

-----------------------------------------------------------------------------
(* pager_end_transaction, zeroJournalHdr: the journal is finished.  This   *)
(* makes a transaction committed, and its sync makes it stay so.           *)

ZeroHeader ==
    /\ pc.at = "zero"
    /\ pager.journalOff # 0
    /\ WriteJournal(0, <<ZeroCell, ZeroCell>>)
    /\ Goes("syncZero")
    /\ IF pc.op = "commit"
       THEN committed' = View /\ previous' = committed
       ELSE UNCHANGED <<committed, previous>>
    /\ UNCHANGED <<media, pager, cache, prng, tx, crashes>>

\* A playback that found no header to read leaves the journal as it is.
EndTransaction ==
    /\ \/ /\ pc.at = "syncZero"
          /\ Sync("journal")
          /\ previous' = committed
       \/ /\ pc.at = "zero"
          /\ pager.journalOff = 0
          /\ UNCHANGED <<disk, media, previous>>
    /\ pager' = [pager EXCEPT !.eState = "READER", !.journalOff = 0, !.nRec = 0,
                              !.inJournal = {}, !.dirty = {}, !.needSync = {},
                              !.dbSize = IF Hot THEN DbSize ELSE @]
    /\ pc' = Idle
    /\ cache' = [p \in {q \in DOMAIN cache : q <= pager.dbSize} |-> cache[p]]
    /\ UNCHANGED <<prng, committed, tx, crashes>>

-----------------------------------------------------------------------------
(* Rollback (pager_playback)                                               *)

Rollback ==
    /\ IsIdle
    /\ pager.eState \in {"CACHEMOD", "DBMOD"}
    /\ pager' = [pager EXCEPT !.journalOff = 0]
    /\ pc' = Running("rollback", "hdr")
    /\ UNCHANGED <<disk, media, cache, prng, ghosts>>

FileMayDiffer == pager.eState \in {"DBMOD", "FINISHED", "OPEN"}

\* What follows the last record; the change counter may just have been put
\* back.
PlaybackEnds ==
    /\ pc' = [pc EXCEPT !.at = IF FileMayDiffer THEN "syncDb" ELSE "zero",
                        !.left = 0]
    /\ pager' = [pager EXCEPT !.changeCountDone = FALSE]

\* The number of records after the header at off: those it counts or, for the
\* header being filled, all that the file has room for, whatever older
\* transactions left there.
RecordsAfter(off) ==
    LET first == JournalContent[off + 1]
        counted == IF IsMagic(first) THEN first.magic ELSE 0
    IN  IF counted = 0 /\ ~ Hot /\ pager.journalHdr = off
        THEN (Len(JournalContent) - (off + HdrSize)) \div RecSize
        ELSE counted

\* readJournalHdr; the magic of the header being filled is not looked at, but
\* the sizes in the first header are.
HeaderReadable(off) ==
    /\ off + HdrSize <= Len(JournalContent)
    /\ (off = pager.journalHdr /\ ~ Hot) \/ IsMagic(JournalContent[off + 1])
    /\ off = 0 => IsNonce(JournalContent[off + 2])

\* The first header has the size to go back to.  The file keeps its length:
\* mpvfsTruncate does nothing.
PlayHeader ==
    LET off == JournalHdrOffset(pager.journalOff)
    IN  /\ pc.at = "hdr"
        /\ IF HeaderReadable(off)
           THEN /\ pager' = [pager EXCEPT
                      !.journalOff = off + HdrSize,
                      !.cksumInit = Seed(JournalContent[off + 2]),
                      !.dbSize = IF off = 0 THEN JournalContent[off + 2].origSize ELSE @]
                /\ pc' = [pc EXCEPT !.at = "rec", !.left = RecordsAfter(off)]
           ELSE PlaybackEnds
        /\ UNCHANGED <<disk, media, cache, prng, ghosts>>

\* What pager_playback_one_page makes of the record at off of the journal j.
Verdict(j, off, cksumInit, dbSize) ==
    LET pgno == j[off + 1]
    IN  IF off + RecSize > Len(j) \/ pgno = ZeroCell THEN "done"
        ELSE IF ~ IsPgno(pgno) THEN "skip"
        ELSE IF pgno.pgno > dbSize THEN "skip"
        ELSE IF /\ IsPage(j[off + 2])
                /\ j[off + 3] = Cksum(cksumInit, j[off + 2].page) THEN "play"
        ELSE "done"

VerdictNow ==
    Verdict(JournalContent, pager.journalOff, pager.cksumInit, pager.dbSize)

\* Mutant: only the file is put back.
PlayRecordToFile ==
    LET off == pager.journalOff
        j == JournalContent
    IN  /\ pc.at = "rec"
        /\ pc.left > 0
        /\ VerdictNow = "play"
        /\ IF FileMayDiffer /\ off + RecSize <= pager.journalHdr
           THEN WriteDb(j[off + 1].pgno, j[off + 2])
           ELSE UNCHANGED disk
        /\ pager' = [pager EXCEPT !.journalOff = off + RecSize]
        /\ pc' = [pc EXCEPT !.left = @ - 1]
        /\ UNCHANGED <<media, cache, prng, ghosts>>

\* Records that were synced before the file was changed go back to it.
GoesToFile == FileMayDiffer /\ pager.journalOff + RecSize <= pager.journalHdr

\* And every record goes to the page cache, if it has the page.
PlayRecord ==
    LET off == pager.journalOff
        p == JournalContent[off + 1].pgno
        old == JournalContent[off + 2]
    IN  /\ pc.at = "rec"
        /\ pc.left > 0
        /\ VerdictNow = "play"
        /\ IF GoesToFile THEN WriteDb(p, old) ELSE UNCHANGED disk
        /\ cache' = IF p \in DOMAIN cache THEN [cache EXCEPT ![p] = old.page] ELSE cache
        /\ pager' = [pager EXCEPT !.journalOff = off + RecSize]
        /\ pc' = [pc EXCEPT !.left = @ - 1]
        /\ UNCHANGED <<media, prng, ghosts>>

SkipRecord ==
    /\ pc.at = "rec"
    /\ pc.left > 0
    /\ VerdictNow = "skip"
    /\ pager' = [pager EXCEPT !.journalOff = @ + RecSize]
    /\ pc' = [pc EXCEPT !.left = @ - 1]
    /\ UNCHANGED <<disk, media, cache, prng, ghosts>>

RefuseRecord ==
    /\ pc.at = "rec"
    /\ pc.left > 0
    /\ VerdictNow = "done"
    /\ PlaybackEnds
    /\ UNCHANGED <<disk, media, cache, prng, ghosts>>

SegmentPlayed ==
    /\ pc.at = "rec"
    /\ pc.left = 0
    /\ Goes("hdr")
    /\ UNCHANGED <<disk, media, pager, cache, prng, ghosts>>

-----------------------------------------------------------------------------
(* The end of a connection and of a program                                *)

\* sqlite3PagerClose: the journal, if this connection has opened one, is
\* removed.  A transaction was rolled back before.
Close ==
    /\ IsIdle
    /\ pager.eState = "READER"
    /\ IF pager.jfd THEN Delete("journal") ELSE UNCHANGED <<disk, media>>
    /\ pager' = ClosedPager
    /\ cache' = << >>
    /\ UNCHANGED <<prng, pc, ghosts>>

\* The board loses power; SQLite's random numbers start again.
PowerOff ==
    /\ crashes < MaxCrash
    /\ crashes' = crashes + 1
    /\ \E d \in Survivors("db"), j \in Survivors("journal") :
          disk' = [db |-> d, journal |-> j]
    /\ media' = disk'
    /\ pager' = ClosedPager
    /\ cache' = << >>
    /\ prng' = 0
    /\ pc' = Idle
    /\ committed' = View'
    /\ previous' = View'
    /\ UNCHANGED tx

Next ==
    \/ Open \/ SharedLock \/ Begin \/ NewDatabase \/ Extend
    \/ \E p \in Page : Get(p) \/ Recycle(p) \/ WritePage(p) \/ Spill(p)
    \/ NextHeader \/ SyncRecords \/ CountRecords \/ SyncHeader \/ SpillPage
    \/ EndNothing \/ Commit \/ CommitPage \/ CommitPagesDone
    \/ SyncDb \/ ZeroHeader \/ EndTransaction
    \/ Rollback \/ PlayHeader \/ PlayRecord \/ SkipRecord
    \/ RefuseRecord \/ SegmentPlayed
    \/ Close

Spec == Init /\ [][Next]_vars

PowerSpec == Init /\ [][Next \/ PowerOff]_vars

-----------------------------------------------------------------------------
(* Properties *)

\* A clean page of the cache is the page of the file: the cache of an exclusive
\* pager is never validated again, so a page that differs would stay.
CleanPagesAgree ==
    IsDatabase /\ ~ PlayingBack =>
        \A p \in (DOMAIN cache \cap 1 .. Size) \ pager.dirty :
            cache[p] = ContentOf(At(disk["db"], p))

\* What the next program sees in the file db.
SeenIn(db) ==
    LET size == ContentOf(At(db, 1)).size
    IN  IF IsSize(size, Len(db)) THEN [p \in 1 .. size |-> ContentOf(db[p]).by]
        ELSE NotADatabase

\* Outside of a transaction that has reached the file, what was committed is
\* in the file and needs no journal to survive.
IdleIsDurable ==
    pager.eState \notin {"DBMOD", "FINISHED"} /\ ~ Owed =>
        SeenIn(media["db"]) = committed

\* What was committed in a database that has pages is in the file, synced,
\* whenever no transaction has reached the file: a page is written after the
\* record of the old one, and the journal is finished after the file is synced.
\* (See RollbackRestores for a file that has no pages yet.)
DurableUnlessNew == committed # << >> => IdleIsDurable

\* While pages are being put back nobody looks.
Unfinished == PlayingBack \/ Owed

\* What a program sees is a database with atomic transactions: only a write
\* changes a page, which reading, recycling and spilling never do, a commit
\* keeps what was seen and a rollback puts every page, and the number of pages,
\* back.  But for one case: a new file that such a transaction has spilled to is
\* no database after a rollback, because xTruncate does nothing (see
\* RollbackRestores).
Db == INSTANCE AtomicDb WITH
    image <- IF Unfinished THEN committed ELSE View,
    writing <- IF /\ InTransaction \/ pager.eState = "FINISHED"
                  /\ ~ PlayingBack
                  /\ pc.at # "syncZero"
               THEN tx ELSE 0

ImplementsAtomicDb ==
    /\ Db!Init
    /\ [][[Db!Next]_(Db!dbVars) \/ (committed' = << >> /\ ~ IsDatabase')]_vars

\* sqlite3.c: "If a journal file exists, and there is no RESERVED lock on the
\* database file, then it either needs to be played back or deleted."  With
\* xAccess as it is, neither happens, so a loss of power leaves part of a
\* transaction.
CrashIsAtomic ==
    [][crashes' # crashes =>
          committed' \in {committed, previous} \cup (IF pc.op = "commit" THEN {View} ELSE {})]_vars

\* sqlite3.c: "The Pager.cksumInit variable is usually randomized above to
\* protect against there being existing records in the journal file."  Without
\* randomness a rollback takes records of an earlier run for its own.
RollbackRestores ==
    pager.eState = "READER" => View = committed
=============================================================================
