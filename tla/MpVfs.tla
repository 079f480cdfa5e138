------------------------------- MODULE MpVfs -------------------------------
(***************************************************************************)
(* usqlite_vfs.c and usqlite_file.c: the methods SQLite calls for its      *)
(* files, made of the calls of a MicroPython stream (seek, read, write,    *)
(* flush, close) and of the os module (ilistdir, remove).                  *)
(*                                                                         *)
(* A stream has one position, shared by everything done with the MPFILE.   *)
(* Each call of the stream can fail, a read or a write can stop part of    *)
(* the way, and a call into Python can raise, which leaves the method      *)
(* through the C frames of SQLite.  The position of a stream is a C int.   *)
(*                                                                         *)
(* A file is opened by a name, and whether it is there is asked of the     *)
(* listing of a directory, which need not be the directory of the file and *)
(* need not show the file under that name.                                 *)
(***************************************************************************)
EXTENDS FileStore

CONSTANTS
    Directory, \* the directories; Root and Cwd, the current one, are two of them
    Root,
    Cwd,
    Base,      \* the last parts of names, as they are spelt
    Unlisted,  \* in place of the spelling of a file that is not listed as regular
    Home,      \* Home[p]: the directory a file is in
    Name,      \* names of files, cut in two: [dir, base]
    FileNamed, \* FileNamed[n]: the file that open finds by the name n
    File,      \* the sqlite3_file structures SQLite allocates (MPFILE)
    Junk,      \* what is in a caller's buffer before the call
    IntLimit,  \* 2^31, scaled down: an int holds -IntLimit .. IntLimit - 1
    MaxSize    \* bound: no content is longer

ASSUME DirectoriesAreThere == {Root, Cwd} \subseteq Directory
ASSUME NamesAreCut == Name \subseteq [dir : {"", "."} \cup Directory, base : Base]
ASSUME NamesLeadToFiles == FileNamed \in [Name -> Path]

\* The directory a name leads to: "/x.db" is in the root.
DirectoryOf(n) == CASE n.dir = "" -> Root [] n.dir = "." -> Cwd [] OTHER -> n.dir

ASSUME FilesAreAtHome ==
    /\ Home \in [Path -> Directory]
    /\ \A n \in Name : Home[FileNamed[n]] = DirectoryOf(n)
ASSUME IntLimitIsPositive == IntLimit \in Nat \ {0}
ASSUME OffsetsAreNatural == Offset \subseteq Nat
ASSUME NoFileIsNoContent == NoFile \notin Seq(Cell)
ASSUME BlocksAreCells == Block \subseteq Seq(Cell)
ASSUME BlocksFitInts == \A cells \in Block : Len(cells) <= IntLimit
ASSUME PrefixesAreBlocks ==
    \A cells \in Block : \A k \in 1 .. Len(cells) : SubSeq(cells, 1, k) \in Block

VARIABLES
    listed,    \* listed[p]: the spelling a directory lists the file p under
    file,      \* file[f]: the MPFILE
    out        \* the last call, its arguments and what it gave back

vars == <<disk, media, listed, file, out>>

\* The flags SQLite opens a database, a journal and a temporary file with.
OpenFlags ==
    {{"READONLY"}, {"READWRITE"}, {"READWRITE", "CREATE"},
     {"READWRITE", "CREATE", "DELETEONCLOSE"}}

\* An MPFILE without a stream: zeroed by xOpen, or closed.
Closed == [stream |-> FALSE]

Streams ==
    [stream : {TRUE}, path : Path, writable : BOOLEAN, deleteOnClose : BOOLEAN, pos : Nat]

Sizes == 1 .. 2

TypeOK ==
    /\ StoreTypeOK
    /\ listed \in [Path -> Base \cup {Unlisted}]
    /\ file \in [File -> {Closed} \cup Streams]
    /\ out.rc \in {"OK", "ERROR", "SHORT_READ", "IOERR_WRITE", "raised"}

Init ==
    /\ StoreInit
    /\ listed \in [Path -> Base \cup {Unlisted}]
    /\ file = [f \in File |-> Closed]
    /\ out = [call |-> "none", rc |-> "OK"]

-----------------------------------------------------------------------------
(* The stream *)

IsOpen(f) == file[f].stream

Content(f) == disk[file[f].path]

\* A value stored in an int.
Int32(x) == ((x + IntLimit) % (2 * IntLimit)) - IntLimit

\* Mutant: a negative offset is not refused by the stream.
SeekToAnywhere(pos, target) == {[ret |-> Int32(target), pos |-> target]}

\* usqlite_file_seek of a stream at pos whose content has len cells: what it
\* returns and the position it leaves.
SeekTo(pos, target) ==
    {[ret |-> -1, pos |-> pos]}
      \cup (IF target < 0 THEN {} ELSE {[ret |-> Int32(target), pos |-> target]})

\* Mutant: mpvfsRead and mpvfsWrite compare before the offset goes into an int.
SeekSetUnchecked(f, offset) ==
    {[ret |-> offset, pos |-> s.pos] : s \in SeekTo(file[f].pos, Int32(offset))}

SeekSet(f, offset) == SeekTo(file[f].pos, Int32(offset))
SeekCur(f) == SeekTo(file[f].pos, file[f].pos)
SeekEnd(f) == SeekTo(file[f].pos, Len(Content(f)))

CanWrite(f) == file[f].writable

MovedTo(f, pos) == file' = [file EXCEPT ![f].pos = pos]

-----------------------------------------------------------------------------
(* The methods of a file *)

\* The buffer after a read that got the cells.
Filled(cells, n) == cells \o [i \in 1 .. n - Len(cells) |-> Junk]

Read(f, off, n) ==
    /\ IsOpen(f)
    /\ \E s \in SeekSet(f, off) :
          IF s.ret # off
          THEN /\ MovedTo(f, s.pos)
               /\ out' = [call |-> "read", file |-> f, off |-> off, rc |-> "ERROR",
                          buf |-> Filled(<< >>, n)]
          ELSE \E k \in 0 .. Len(Part(Content(f), s.pos, n)) :
                  /\ MovedTo(f, s.pos + k)
                  /\ out' = [call |-> "read", file |-> f, off |-> off,
                             rc |-> IF k = n THEN "OK" ELSE "SHORT_READ",
                             buf |-> Filled(Part(Content(f), s.pos, k), n)]
    /\ UNCHANGED <<disk, media, listed>>

WriteCells(f, off, cells) ==
    /\ IsOpen(f)
    /\ \E s \in SeekSet(f, off) :
          IF s.ret # off
          THEN /\ MovedTo(f, s.pos)
               /\ out' = [call |-> "write", file |-> f, off |-> off, cells |-> cells,
                          rc |-> "ERROR"]
               /\ UNCHANGED disk
          ELSE \E k \in 0 .. (IF CanWrite(f) THEN Len(cells) ELSE 0) :
                  /\ s.pos + k <= MaxSize
                  /\ disk' = IF k = 0 THEN disk
                             ELSE [disk EXCEPT ![file[f].path] =
                                      Written(@, s.pos, SubSeq(cells, 1, k))]
                  /\ MovedTo(f, s.pos + k)
                  /\ out' = [call |-> "write", file |-> f, off |-> off, cells |-> cells,
                             rc |-> IF k = Len(cells) THEN "OK" ELSE "IOERR_WRITE"]
    /\ UNCHANGED <<media, listed>>

\* xTruncate: whatever the size, it does nothing and says that it did.
Truncate(f) ==
    /\ IsOpen(f)
    /\ out' = [call |-> "truncate", rc |-> "OK"]
    /\ UNCHANGED <<disk, media, listed, file>>

\* usqlite_file_flush that succeeds.
Flushed(f) == media' = [media EXCEPT ![file[f].path] = Content(f)]

\* Mutant: the error of the flush is dropped.
SyncFileBlindly(f) ==
    /\ IsOpen(f)
    /\ Flushed(f) \/ UNCHANGED media
    /\ out' = [call |-> "sync", file |-> f, rc |-> "OK"]
    /\ UNCHANGED <<disk, listed, file>>

SyncFile(f) ==
    /\ IsOpen(f)
    /\ \/ /\ Flushed(f)
          /\ out' = [call |-> "sync", file |-> f, rc |-> "OK"]
       \/ /\ out' = [call |-> "sync", file |-> f, rc |-> "ERROR"]
          /\ UNCHANGED media
    /\ UNCHANGED <<disk, listed, file>>

\* xFileSize: tell, seek to the end, seek back.  A seek that fails ends it.
FileSize(f) ==
    /\ IsOpen(f)
    /\ \E t \in SeekCur(f), e \in SeekEnd(f) :
          IF t.ret < 0 \/ e.ret < 0
          THEN /\ MovedTo(f, IF t.ret < 0 THEN t.pos ELSE e.pos)
               /\ out' = [call |-> "size", file |-> f, rc |-> "ERROR"]
          ELSE \E b \in SeekTo(e.pos, Int32(t.ret)) :
                  /\ MovedTo(f, b.pos)
                  /\ out' = IF b.ret < 0
                            THEN [call |-> "size", file |-> f, rc |-> "ERROR"]
                            ELSE [call |-> "size", file |-> f, rc |-> "OK", size |-> e.ret]
    /\ UNCHANGED <<disk, media, listed>>

-----------------------------------------------------------------------------
(* Opening, closing and removing *)

Raised(call) == out' = [call |-> call, rc |-> "raised"]

\* The directory usqlite_file_exists lists: what is before the last separator
\* of "/x.db" is empty, and an empty path lists the current directory.
ListedDirectory(n) == IF n.dir \in {"", "."} THEN Cwd ELSE n.dir

\* usqlite_file_exists: a regular file is listed, spelt as in the name.
FileExists(n) ==
    \E p \in Path : Exists(p) /\ Home[p] = ListedDirectory(n) /\ listed[p] = n.base

\* Mutant: creating always truncates.
ModeTruncates(n, flags) ==
    IF "CREATE" \in flags THEN "w+b"
    ELSE IF "READWRITE" \in flags THEN "r+b" ELSE "rb"

\* usqlite_file_open's mode.
ModeOf(n, flags) ==
    CASE "CREATE" \in flags /\ FileExists(n) -> "+b"
      [] "CREATE" \in flags /\ ~ FileExists(n) -> "w+b"
      [] "CREATE" \notin flags /\ "READWRITE" \in flags -> "r+b"
      [] OTHER -> "rb"

\* MicroPython's open raises when the file is missing, and may raise anyway;
\* the MPFILE is zeroed by then.  A "w" empties the file, made or found.
Open(f, n, flags) ==
    /\ ~ IsOpen(f)
    /\ LET mode == ModeOf(n, flags)
           p == FileNamed[n]
       IN  \/ /\ Raised("open")
              /\ UNCHANGED <<disk, listed, file>>
           \/ /\ mode = "w+b" \/ Exists(p)
              /\ disk' = IF mode = "w+b" THEN [disk EXCEPT ![p] = << >>] ELSE disk
              /\ listed' = IF Exists(p) THEN listed ELSE [listed EXCEPT ![p] = n.base]
              /\ file' = [file EXCEPT ![f] =
                              [stream |-> TRUE, path |-> p, writable |-> mode # "rb",
                               deleteOnClose |-> "DELETEONCLOSE" \in flags, pos |-> 0]]
              /\ out' = [call |-> "open", name |-> n, rc |-> "OK"]
    /\ UNCHANGED media

\* usqlite_file_delete: os.remove raises when there is nothing to remove, and
\* may raise anyway.
Removed(p, call) ==
    \/ /\ Exists(p)
       /\ disk' = [disk EXCEPT ![p] = NoFile]
       /\ media' = [media EXCEPT ![p] = NoFile]
       /\ out' = [call |-> call, rc |-> "OK"]
    \/ /\ Raised(call)
       /\ UNCHANGED <<disk, media>>

\* The files open on p, other than f.
Others(f, p) == {g \in File \ {f} : IsOpen(g) /\ file[g].path = p}

\* usqlite_file_close; closing the stream may raise, before the MPFILE forgets
\* it.  SQLite opens a file to be deleted only once.
Close(f) ==
    /\ \/ /\ IsOpen(f)
          /\ Raised("close")
          /\ UNCHANGED <<disk, media, file>>
       \/ /\ file' = [file EXCEPT ![f] = Closed]
          /\ IF IsOpen(f) /\ file[f].deleteOnClose
             THEN /\ Others(f, file[f].path) = {}
                  /\ Removed(file[f].path, "close")
             ELSE /\ out' = [call |-> "close", rc |-> "OK"]
                  /\ UNCHANGED <<disk, media>>
    /\ UNCHANGED listed

\* xDelete: SQLite removes files it has closed.
DeleteFile(p) ==
    /\ \A f \in File : IsOpen(f) => file[f].path # p
    /\ Removed(p, "delete")
    /\ UNCHANGED <<listed, file>>

\* xAccess: whatever the name, no file exists.
Access ==
    /\ out' = [call |-> "access", rc |-> "OK", exists |-> FALSE]
    /\ UNCHANGED <<disk, media, listed, file>>

PowerOff ==
    /\ PowerLoss
    /\ UNCHANGED listed
    /\ file' = [f \in File |-> Closed]
    /\ out' = [call |-> "none", rc |-> "OK"]

Next ==
    \/ \E f \in File :
          \/ \E n \in Name, flags \in OpenFlags : Open(f, n, flags)
          \/ \E off \in Offset, n \in Sizes : Read(f, off, n)
          \/ \E off \in Offset, cells \in Block : cells # << >> /\ WriteCells(f, off, cells)
          \/ Truncate(f)
          \/ SyncFile(f)
          \/ FileSize(f)
          \/ Close(f)
    \/ \E p \in Path : DeleteFile(p)
    \/ Access
    \/ PowerOff

Spec == Init /\ [][Next]_vars

-----------------------------------------------------------------------------
(* Properties *)

\* A name whose file usqlite_file_exists looks for in another directory, or
\* whose file the directory lists under another spelling or not as regular.
Hidden(n) ==
    \/ n.dir = "" /\ Cwd # Root
    \/ listed[FileNamed[n]] # n.base

\* An open that succeeds empties the file its name leads to, a hidden one.
Overwrites ==
    /\ out'.call = "open" /\ out'.rc = "OK"
    /\ Hidden(out'.name)
    /\ disk' = [disk EXCEPT ![FileNamed[out'.name]] = << >>]
    /\ UNCHANGED media

\* Every method is a step of the store SQLite counts on, or changes no file:
\* opening an existing file to "create" it keeps its content, a write changes
\* one place of one file, and nothing but a sync, a removal or a loss of power
\* touches what survives.  The exception is the open of a file its name hides
\* from usqlite_file_exists (usqlite_file.c:94-98), which loses the content.
ImplementsFileStore == StoreInit /\ [][StoreNext \/ Overwrites]_storeVars

\* A file changes at the offset SQLite asked for, never where the offset would
\* be after it went through an int, and never by a call that is not a write,
\* an open that overwrites a hidden file apart.
WritesLandWhereAsked ==
    [][\A p \in Path :
          /\ Exists(p) /\ Exists(p)' /\ disk'[p] # disk[p]
          /\ out'.call # "none" /\ ~ Overwrites
          =>
             /\ out'.call = "write"
             /\ out'.file \in File /\ file[out'.file].path = p
             /\ \E k \in 1 .. Len(out'.cells) :
                   disk'[p] = Written(disk[p], out'.off, SubSeq(out'.cells, 1, k))]_vars

\* What a successful call answers is so: the cells of a read are those at that
\* offset of the file, whatever moved the position before; a size is the size;
\* and a sync left nothing that a loss of power could undo.
AnswersAreTrue ==
    out.call \in {"read", "size", "sync"} /\ out.rc = "OK" =>
        LET content == Content(out.file)
        IN  CASE out.call = "read" -> out.buf = Part(content, out.off, Len(out.buf))
              [] out.call = "size" -> out.size = Len(content)
              [] out.call = "sync" -> content = media[file[out.file].path]

\* sqlite3.h: "The database is opened for reading and writing, and is created
\* if it does not already exist."  A file that is there is kept, also when the
\* listing hides it: usqlite_file_open opens it "w+b".
OpeningKeepsContent ==
    [][out'.call = "open" => \A p \in Path : Exists(p) => disk'[p] = disk[p]]_vars

\* sqlite3.h: "If xRead() returns SQLITE_IOERR_SHORT_READ it must also fill in
\* the unread portions of the buffer with zeros."  mpvfsRead leaves them alone.
ShortReadsAreZeroFilled ==
    out.call = "read" /\ out.rc = "SHORT_READ" =>
        \A i \in 1 .. Len(out.buf) :
            out.buf[i] = At(Content(out.file), out.off + i) \/ out.buf[i] = Zero
=============================================================================
