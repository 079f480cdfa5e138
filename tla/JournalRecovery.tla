-------------------------- MODULE JournalRecovery --------------------------
(***************************************************************************)
(* What the journal that Journal writes is for: a pager that is told of it *)
(* after a loss of power (xAccess answering for the file that is there)    *)
(* plays it back into the database file, whatever part of the unsynced     *)
(* writes survived.  The playback is pager_playback of a hot journal.      *)
(***************************************************************************)
EXTENDS JournalFaults

\* readJournalHdr, of the header at off of a hot journal.
HeaderIn(j, off) ==
    /\ off + HdrSize <= Len(j)
    /\ IsMagic(j[off + 1])
    /\ off = 0 => IsNonce(j[off + 2])

\* A playback of the journal j that has come to s: one more record of its
\* segment or, after the last, one more header.  At the end it stays where it is.
PlayedOn(j, s) ==
    LET verdict == Verdict(j, s.off, s.cksumInit, s.dbSize)
        next == [s EXCEPT !.off = @ + RecSize, !.left = @ - 1]
        hdr == JournalHdrOffset(s.off)
        nonce == j[hdr + 2]
    IN  IF s.left > 0
        THEN CASE verdict = "done" -> s
               [] verdict = "skip" -> next
               [] verdict = "play" ->
                     [next EXCEPT !.db = Written(@, j[s.off + 1].pgno - 1, <<j[s.off + 2]>>)]
        ELSE IF HeaderIn(j, hdr)
             THEN [s EXCEPT !.off = hdr + HdrSize,
                            !.left = j[hdr + 1].magic,
                            !.cksumInit = Seed(nonce),
                            !.dbSize = IF hdr = 0 THEN nonce.origSize ELSE @]
             ELSE s

\* The playback of j into the database d, step by step.  A step that does not
\* stay takes at least one cell, so that there are no more than j has cells.
Playback(j, d) ==
    LET start == [off |-> 0, left |-> 0, cksumInit |-> 0, dbSize |-> 0, db |-> d]
        played[n \in 0 .. Len(j)] == IF n = 0 THEN start ELSE PlayedOn(j, played[n - 1])
    IN  played

Replayed(j, d) == Playback(j, d)[Len(j)].db

Recovered(j, d) == IF j = NoFile THEN d ELSE Replayed(j, d)

\* From every moment of every transaction, and from every part of the pending
\* writes a loss of power can keep, a playback gives the database before the
\* transaction, or after it once its journal is being finished: no page is in
\* the file before its record is synced and counted, no page is appended before
\* the header with the old size, no count is synced before its records, and no
\* record of an older transaction is taken for a new one.
\* (After a loss of power the program goes on without the playback: see
\* CrashIsAtomic.  A call that failed earlier may leave a journal that this is
\* not true of: one not finished, left behind, or followed by an old header.)
Recoverable ==
    AtMostOneFailure /\ harm = {} =>
        \A j \in Survivors("journal"), d \in Survivors("db") :
            SeenIn(Recovered(j, d)) \in {committed, previous}
=============================================================================
