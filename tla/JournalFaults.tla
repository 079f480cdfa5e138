--------------------------- MODULE JournalFaults ---------------------------
(***************************************************************************)
(* Journal when a call of the file system fails.  usqlite_vfs.c tells      *)
(* SQLite of it in three ways: a write that stops part of the way is       *)
(* SQLITE_IOERR_WRITE, a read SQLITE_IOERR_SHORT_READ, and a seek or a     *)
(* flush is SQLITE_ERROR.  To the pager the first two are errors of the    *)
(* medium: it gives up what it knows and plays its journal back before it  *)
(* reads again.  The third is an error of the statement.                   *)
(*                                                                         *)
(* A sync that fails has done nothing.  Reads of the database that fail,   *)
(* a failure to delete the journal and a rollback that fails a second time *)
(* with SQLITE_ERROR are left out.                                         *)
(***************************************************************************)
EXTENDS Journal

CONSTANT MaxFail   \* bound: calls that fail

VARIABLES
    fails,   \* calls that have failed
    harm     \* the failures after which the code does not keep its promises

faultVars == <<vars, fails, harm>>

FaultInit == Init /\ fails = 0 /\ harm = {}

-----------------------------------------------------------------------------
(* What a failed call leaves in a file *)

\* Some of the cells are written, the next one perhaps in part: then it is
\* neither old nor new, but the number in a magic is still zero.
PartsOf(cells) ==
    LET half(c) == IF IsMagic(c) THEN Magic(0) ELSE ZeroCell
        upTo(n) == SubSeq(cells, 1, n)
        short == 0 .. Len(cells) - 1
    IN  {upTo(n) : n \in short} \cup {Append(upTo(n), half(cells[n + 1])) : n \in short}

WritesPart(path, off, part) ==
    LET content == IF Exists(path) THEN disk[path] ELSE << >>
    IN  disk' = [disk EXCEPT ![path] = IF part = << >> THEN content
                                       ELSE Written(content, off, part)]

WriteFails(path, off, cells) ==
    \E part \in PartsOf(cells) : WritesPart(path, off, part)

-----------------------------------------------------------------------------
(* What the pager and its callers make of it *)

\* Bound: calls fail, or the board loses power, but not both.
Fails ==
    /\ crashes = 0
    /\ fails < MaxFail
    /\ fails' = fails + 1

\* Mutant: the cache survives (pager_unlock without pager_reset).
GivesUpKeepingCache ==
    /\ pager' = [ClosedPager EXCEPT !.eState = "OPEN", !.jfd = pager.jfd]
    /\ pc' = Idle
    /\ UNCHANGED cache

\* pager_error and the pager_unlock that follows when the statement has let go
\* of its pages.
GivesUp ==
    /\ pager' = [ClosedPager EXCEPT !.eState = "OPEN", !.jfd = pager.jfd]
    /\ pc' = Idle
    /\ cache' = << >>

\* sqlite3VdbeHalt rolls the transaction back.
RollsBack(pg) ==
    /\ IF pg.eState = "LOCKED"
       THEN pager' = [pg EXCEPT !.eState = "READER"] /\ pc' = Idle
       ELSE pager' = [pg EXCEPT !.journalOff = 0] /\ pc' = Running("rollback", "hdr")
    /\ UNCHANGED cache

\* Or only the statement failed, in a transaction that BEGIN has opened.
GoesOn(pg) ==
    /\ pager' = pg
    /\ pc' = Idle
    /\ UNCHANGED cache

-----------------------------------------------------------------------------
(* Failures of a transaction *)

\* In pager_write; Extend's and Commit's own writes of page 1 fail like this
\* too.  The first header is one call.
RecordFails(p) ==
    LET pg == WithJournal
        cells == FirstHeader \o RecordOf(p, pg.cksumInit)
        started == [pager EXCEPT !.jfd = TRUE, !.nRec = 0, !.journalHdr = 0,
                                 !.cksumInit = pg.cksumInit]
    IN  /\ IsIdle
        /\ InTransaction
        /\ p \in DOMAIN cache
        /\ p <= Size \/ (p = 1 /\ Size = 0 /\ pager.eState = "LOCKED")
        /\ \E part \in PartsOf(cells) :
              LET failed == IF Len(part) < Len(FirstHeader) THEN started
                            ELSE [pg EXCEPT !.dirty = @ \cup {p},
                                            !.needSync = @ \cup {p}]
              IN  /\ WritesPart("journal", pg.journalOff - Len(FirstHeader), part)
                  /\ \/ RollsBack(failed)
                     \/ /\ Size > 0
                        /\ IsPrefix(part, cells)
                        /\ FirstHeader = << >> \/ Len(part) # 1
                        /\ GoesOn(failed)
        /\ prng' = IF pager.eState = "LOCKED" THEN NextSeed ELSE prng
        /\ Fails
        /\ UNCHANGED <<media, ghosts, harm>>

\* A call of syncJournal or pager_write_pagelist, at the step they have reached.
CallFails ==
    \/ /\ pc.at \in {"syncRecords", "syncHdr", "syncDb"}
       /\ UNCHANGED disk
    \/ /\ pc.at = "nextHdr"
       /\ OldHeaderFollows
       /\ WriteFails("journal", JournalHdrOffset(pager.journalOff), <<ZeroCell>>)
    \/ /\ pc.at = "nRec"
       /\ WriteFails("journal", pager.journalHdr, <<Magic(pager.nRec)>>)
    \/ /\ pc.at = "pages"
       /\ \E p \in pager.dirty :
             /\ IF pc.op = "spill" THEN p = pc.page ELSE \A q \in pager.dirty : p <= q
             /\ p <= pager.dbSize
             /\ WriteFails("db", p - 1, <<PageCell(cache[p])>>)

\* sqlite3PagerCommitPhaseOne does not enter the error state.
CommitFails ==
    /\ pc.op = "commit"
    /\ CallFails
    /\ RollsBack(pager)
    /\ Fails
    /\ UNCHANGED <<media, prng, ghosts, harm>>

\* pagerStress does, for an error of the medium.  After another error the
\* transaction may go on, and with a header that counts the records so far.
SpillFails ==
    /\ pc.op = "spill"
    /\ CallFails
    /\ \/ pc.at \in {"nextHdr", "nRec", "pages"} /\ GivesUp /\ UNCHANGED harm
       \/ disk' = disk /\ RollsBack(pager) /\ UNCHANGED harm
       \/ /\ disk' = disk
          /\ GoesOn(pager)
          /\ harm' = IF pc.at = "syncHdr" THEN harm \cup {"counted"} ELSE harm
    /\ Fails
    /\ UNCHANGED <<media, prng, ghosts>>

\* mpvfsRead answers alike for a read that fails and for the end of the file:
\* syncJournal takes it that no header follows.
NextHeaderUnread ==
    /\ pc.at = "nextHdr"
    /\ OldHeaderFollows
    /\ Goes("syncRecords")
    /\ Fails
    /\ harm' = harm \cup {"oldHeader"}
    /\ UNCHANGED <<disk, media, pager, cache, prng, ghosts>>

\* writeJournalHdr for the records to come.  An error of the statement leaves
\* the pager with a header that is not there.
NewHeaderFails ==
    LET started == WithNewHeader([pager EXCEPT !.journalHdr = pager.journalOff])
    IN  /\ pc.op = "spill"
        /\ pc.at = "syncHdr"
        /\ media' = [media EXCEPT !["journal"] = disk["journal"]]
        /\ prng' = NextSeed
        /\ \/ /\ WriteFails("journal", started.journalHdr, Header(NextSeed))
              /\ GivesUp
              /\ UNCHANGED harm
           \/ /\ RollsBack(started) \/ GoesOn(started)
              /\ harm' = harm \cup {"noHeader"}
              /\ UNCHANGED disk
        /\ Fails
        /\ UNCHANGED ghosts

-----------------------------------------------------------------------------
(* Failures to finish the journal *)

\* Of the medium: the error state.  The transaction is committed nevertheless
\* if its journal cannot be read any more.
ZeroHeaderFails ==
    /\ pc.at = "zero"
    /\ pager.journalOff # 0
    /\ \E part \in PartsOf(<<ZeroCell, ZeroCell>>) :
          /\ WritesPart("journal", 0, part)
          /\ IF pc.op = "commit" /\ part # << >>
             THEN committed' = View /\ previous' = committed
             ELSE UNCHANGED <<committed, previous>>
    /\ GivesUp
    /\ Fails
    /\ UNCHANGED <<media, prng, tx, crashes, harm>>

\* Of a statement: pager_end_transaction ends the transaction as if the journal
\* were finished, and the cache keeps its dirty pages.
EndTransactionFails ==
    /\ \/ pc.at = "zero" /\ pager.journalOff # 0
       \/ pc.at = "syncZero"
    /\ IF Hot THEN GivesUp /\ UNCHANGED harm
       ELSE /\ pager' = [pager EXCEPT !.eState = "READER", !.journalOff = 0,
                                      !.nRec = 0, !.inJournal = {}]
            /\ pc' = Idle
            /\ harm' = harm \cup {"notFinished"}
            /\ UNCHANGED cache
    /\ IF pc = Running("commit", "zero")
       THEN committed' = View /\ previous' = committed
       ELSE UNCHANGED <<committed, previous>>
    /\ Fails
    /\ UNCHANGED <<disk, media, prng, tx, crashes>>

-----------------------------------------------------------------------------
(* Failures of a rollback *)

\* An error of the medium: a header cannot be read, a page not be written.
PlaybackGivesUp ==
    /\ PlayingBack
    /\ \/ /\ pc.at = "hdr"
          /\ UNCHANGED disk
       \/ /\ pc.at = "rec" /\ pc.left > 0 /\ VerdictNow = "play" /\ GoesToFile
          /\ LET off == pager.journalOff
                 j == JournalContent
             IN  WriteFails("db", j[off + 1].pgno - 1, <<j[off + 2]>>)
    /\ GivesUp
    /\ Fails
    /\ UNCHANGED <<media, prng, ghosts, harm>>

\* Another error: pagerUnlockAndRollback tries again, sqlite3PagerSharedLock
\* leaves it to the next statement.
PlaybackFails ==
    /\ pc.op \in {"rollback", "recover"}
    /\ pc.at \in {"hdr", "rec", "syncDb"}
    /\ IF Hot THEN GivesUp
       ELSE /\ pager' = [pager EXCEPT !.journalOff = 0, !.changeCountDone = FALSE]
            /\ pc' = Running("again", "hdr")
            /\ UNCHANGED cache
    /\ Fails
    /\ UNCHANGED <<disk, media, prng, ghosts, harm>>

\* A record that cannot be read is taken for the end of the journal.
RecordUnread ==
    /\ pc.at = "rec"
    /\ pc.left > 0
    /\ VerdictNow # "done"
    /\ PlaybackEnds
    /\ Fails
    /\ harm' = harm \cup {"shortRead"}
    /\ UNCHANGED <<disk, media, cache, prng, ghosts>>

-----------------------------------------------------------------------------
(* Afterwards *)

\* sqlite3PagerSharedLock with a journal that is open (pagerSyncHotJournal):
\* the journal is played back as the one of a crash.
RecoverHot ==
    /\ Owed
    /\ IsIdle
    /\ Sync("journal")
    /\ pager' = [pager EXCEPT !.journalHdr = Len(JournalContent), !.journalOff = 0]
    /\ pc' = Running("recover", "hdr")
    /\ previous' = committed
    /\ UNCHANGED <<cache, prng, committed, tx, crashes, fails, harm>>

\* sqlite3PagerClose leaves the journal to the next connection, which xAccess
\* tells that there is none.
CloseOwed ==
    /\ Owed
    /\ IsIdle
    /\ Sync("journal")
    /\ pager' = ClosedPager
    /\ harm' = harm \cup {IF SeenIn(disk["db"]) = committed THEN "leftJournal" ELSE "leftOwed"}
    /\ UNCHANGED <<cache, prng, pc, ghosts, fails>>

FaultNext ==
    \/ Next /\ UNCHANGED <<fails, harm>>
    \/ PowerOff /\ fails = 0 /\ UNCHANGED <<fails, harm>>
    \/ \E p \in Page : RecordFails(p)
    \/ CommitFails \/ SpillFails \/ NextHeaderUnread \/ NewHeaderFails
    \/ ZeroHeaderFails \/ EndTransactionFails
    \/ PlaybackGivesUp \/ PlaybackFails \/ RecordUnread
    \/ RecoverHot \/ CloseOwed

FaultSpec == FaultInit /\ [][FaultNext]_faultVars

\* A call of the pager runs on, in one thread that nobody else needs.
FairFaultSpec == FaultSpec /\ WF_faultVars(~ IsIdle /\ FaultNext)

-----------------------------------------------------------------------------
(* Properties *)

\* The failures after which part of a transaction can stay: a rollback that
\* could not read a record, a transaction that went on after a failed spill
\* (without the header it needs, or with one that counts too few records), and
\* a connection closed while a rollback was owed.
Broken == harm \cap {"shortRead", "noHeader", "counted", "leftOwed"} # {}

\* No promise outlives a loss of power, after which the seeds are drawn again
\* (see RollbackRestores), nor a second failure, which may spill a page whose
\* record was the first.
AtMostOneFailure == crashes = 0 /\ fails <= 1

\* sqlite3.c: "If a transaction was active when the persistent error occurred,
\* then the rollback journal may need to be replayed to restore the contents of
\* the database file (as if it were a hot-journal)."  But for those four cases
\* a call that fails, wherever it does, leaves a database with atomic
\* transactions: the failed one is rolled back or committed as a whole, and
\* nothing but the image before or after it is ever seen.
AtomicUnlessHarmed ==
    /\ Db!Init
    /\ [][[Db!Next]_(Db!dbVars) \/ ~ AtMostOneFailure' \/ Broken']_faultVars

\* And what is committed needs no journal, once the pager owes no rollback.
DurableUnlessHarmed == AtMostOneFailure /\ ~ Broken => IdleIsDurable

\* Every call of the pager returns: a playback gets past every header it finds,
\* an empty or an old one, comes to the end of any journal, and is not tried
\* again for ever, wherever it failed; a commit runs out of pages.
CallsReturn == []<>IsIdle
=============================================================================
