----------------------------- MODULE FileStore -----------------------------
(***************************************************************************)
(* The files below SQLite, as SQLite counts on them: contents that change  *)
(* by whole writes, a sync that makes a content survive, and a loss of     *)
(* power that keeps any part of what was not synced.                       *)
(*                                                                         *)
(* A content is a sequence of cells.  A cell is the unit that a write      *)
(* replaces and that a loss of power keeps or loses: a page, a part of a   *)
(* journal record.  MpVfs implements this store; Journal runs the pager of *)
(* SQLite on it.                                                           *)
(***************************************************************************)
EXTENDS Integers, Sequences

CONSTANTS
    Path,      \* the files
    Cell,      \* what a file is made of
    Zero,      \* the cell of zero bytes
    NoFile,    \* the "content" of a file that does not exist
    Offset,    \* offsets of writes
    Block      \* sequences of cells written by one call

ASSUME ZeroIsACell == Zero \in Cell

VARIABLES
    disk,      \* disk[p]: the content of p that a program sees
    media      \* media[p]: the content of p that is sure to survive

storeVars == <<disk, media>>

StoreTypeOK ==
    /\ disk \in [Path -> {NoFile} \cup Seq(Cell)]
    /\ media \in [Path -> {NoFile} \cup Seq(Cell)]

-----------------------------------------------------------------------------
(* Contents *)

Exists(p) == disk[p] # NoFile

At(c, i) == IF i \in 1 .. Len(c) THEN c[i] ELSE Zero

\* The content c after the cells are written at off; a gap reads as zeros.
Written(c, off, cells) ==
    [i \in 1 .. (IF Len(c) > off + Len(cells) THEN Len(c) ELSE off + Len(cells)) |->
        IF i \in off + 1 .. off + Len(cells) THEN cells[i - off] ELSE At(c, i)]

\* Up to n cells of c from off on.
Part(c, off, n) ==
    SubSeq(c, off + 1, IF off + n < Len(c) THEN off + n ELSE Len(c))

\* Each cell that differs is old or new, and so is the length.
Mixes(old, new) ==
    UNION {{[i \in 1 .. n |-> IF i \in S THEN At(new, i) ELSE At(old, i)] :
               S \in SUBSET {i \in 1 .. n : At(old, i) # At(new, i)}} :
           n \in {Len(old), Len(new)}}

\* The contents of p that a loss of power can leave.
Survivors(p) ==
    IF disk[p] = media[p] THEN {disk[p]}
    ELSE IF media[p] = NoFile THEN {NoFile} \cup Mixes(<< >>, disk[p])
    ELSE Mixes(media[p], disk[p])

-----------------------------------------------------------------------------
(* Operations *)

StoreInit ==
    /\ disk \in [Path -> {NoFile} \cup Block]
    /\ media = disk

Create(p) ==
    /\ ~ Exists(p)
    /\ disk' = [disk EXCEPT ![p] = << >>]
    /\ UNCHANGED media

Write(p, off, cells) ==
    /\ Exists(p)
    /\ disk' = [disk EXCEPT ![p] = Written(@, off, cells)]
    /\ UNCHANGED media

Sync(p) ==
    /\ Exists(p)
    /\ media' = [media EXCEPT ![p] = disk[p]]
    /\ UNCHANGED disk

\* A file system removes the entry at once.
Delete(p) ==
    /\ Exists(p)
    /\ disk' = [disk EXCEPT ![p] = NoFile]
    /\ media' = [media EXCEPT ![p] = NoFile]

PowerLoss ==
    /\ disk' \in {d \in [Path -> UNION {Survivors(p) : p \in Path}] :
                    \A p \in Path : d[p] \in Survivors(p)}
    /\ media' = disk'

StoreNext ==
    \/ \E p \in Path :
          \/ Create(p)
          \/ Sync(p)
          \/ Delete(p)
          \/ \E off \in Offset, cells \in Block : Write(p, off, cells)
    \/ PowerLoss

StoreSpec == StoreInit /\ [][StoreNext]_storeVars
=============================================================================
