------------------------------ MODULE ModuleInit ------------------------------
(***************************************************************************)
(* usqlite_module.c: SQLite is configured and started by the first call    *)
(* that needs it, the memory status can be switched before that, and       *)
(* connect makes database handles.  How the memory they take comes from    *)
(* MicroPython, block by block, is module Heap.                            *)
(***************************************************************************)
EXTENDS Integers

CONSTANTS
    MaxHandles, \* bound: no more handles are allocated at a time
    MaxHeld     \* bound: SQLite holds no more memory at a time

ASSUME BoundsAreNatural == MaxHandles \in Nat /\ MaxHeld \in Nat

VARIABLES
    initialized, \* the static of initialize
    mem_status,  \* the static of mem_status
    isInit,      \* sqlite3GlobalConfig: SQLite has started
    bMemstat,    \* sqlite3GlobalConfig: it counts its memory
    allocator,   \* sqlite3GlobalConfig.m: whose memory it uses
    handles,     \* database handles of connections
    lost,        \* database handles nobody has
    strings,     \* strings of SQLite's nobody has
    held,        \* the memory SQLite has, in bytes
    used,        \* SQLITE_STATUS_MEMORY_USED, its present and its highest value
    peak

config == <<initialized, mem_status, isInit, bMemstat, allocator>>
memory == <<held, used, peak>>
owners == <<handles, lost, strings>>
vars == <<config, owners, memory>>

TypeOK ==
    /\ initialized \in BOOLEAN /\ mem_status \in BOOLEAN
    /\ isInit \in BOOLEAN /\ bMemstat \in BOOLEAN
    /\ allocator \in {"built-in", "MicroPython"}
    /\ handles \in Nat /\ lost \in Nat /\ handles + lost <= MaxHandles
    /\ strings \in Nat
    /\ held \in 0 .. MaxHeld /\ used \in 0 .. MaxHeld /\ peak \in 0 .. MaxHeld

\* SQLITE_DEFAULT_MEMSTATUS is 0, and with SQLITE_ZERO_MALLOC the built-in
\* allocator gives no memory.
Init ==
    /\ initialized = FALSE
    /\ mem_status = FALSE
    /\ isInit = FALSE
    /\ bMemstat = FALSE
    /\ allocator = "built-in"
    /\ handles = 0
    /\ lost = 0
    /\ strings = 0
    /\ held = 0
    /\ used = 0
    /\ peak = 0

\* Mutant: the allocator is left to SQLite.
InitializeOnly ==
    /\ isInit' = TRUE
    /\ initialized' = TRUE
    /\ UNCHANGED <<mem_status, bMemstat, allocator>>

\* initialize: configures the allocator, starts SQLite; once it has, it does
\* nothing.  (What sqlite3OsInit allocates on the way is freed at once.)
Initialize ==
    IF initialized THEN UNCHANGED config
    ELSE /\ allocator' = "MicroPython"
         /\ isInit' = TRUE
         /\ initialized' = TRUE
         /\ UNCHANGED <<mem_status, bMemstat>>

\* sqlite3_initialize fails: the call raises, and the next one tries again.
InitializeFails ==
    /\ ~initialized
    /\ allocator' = "MicroPython"
    /\ UNCHANGED <<initialized, mem_status, isInit, bMemstat>>
    /\ UNCHANGED <<owners, memory>>

\* Mutant: memory is discounted whether it was counted or not.
ResizedUncounted(n) ==
    /\ held + n \in 0 .. MaxHeld
    /\ held' = held + n
    /\ used' = IF bMemstat \/ n < 0 THEN used + n ELSE used
    /\ peak' = IF bMemstat /\ used + n > peak THEN used + n ELSE peak

\* sqlite3Malloc, sqlite3Realloc and sqlite3_free: SQLite's memory grows by n
\* bytes, and the statistics with it when they are on.
Resized(n) ==
    /\ held + n \in 0 .. MaxHeld
    /\ held' = held + n
    /\ used' = IF bMemstat THEN used + n ELSE used
    /\ peak' = IF bMemstat /\ used + n > peak THEN used + n ELSE peak

\* An open database takes memory, gives it back, or changes its size.
Works(n) ==
    /\ handles > 0
    /\ n > 0 \/ held + n >= handles + lost + strings
    /\ Resized(n)
    /\ UNCHANGED <<config, owners>>

\* executemany fails, or the trace callback raises: the error message, or the
\* SQL, n bytes of it, is never given back.
LeavesString(n) ==
    /\ handles > 0
    /\ strings' = strings + 1
    /\ n > 0 /\ Resized(n)
    /\ UNCHANGED <<config, handles, lost>>

\* connect: sqlite3_open gives a handle, of n bytes.
Connect(n) ==
    /\ Initialize
    /\ handles + lost < MaxHandles
    /\ handles' = handles + 1
    /\ n > 0 /\ Resized(n)
    /\ UNCHANGED <<lost, strings>>

\* connect of an empty name, or sqlite3_open out of memory: no handle is left.
ConnectRejected ==
    /\ Initialize
    /\ UNCHANGED <<owners, memory>>

\* sqlite3_open fails in any other way, or the exception of a file that cannot
\* be opened passes through it: the handle exists all the same, and connect
\* raises without closing it.
ConnectFails(n) ==
    /\ Initialize
    /\ handles + lost < MaxHandles
    /\ lost' = lost + 1
    /\ n > 0 /\ Resized(n)
    /\ UNCHANGED <<handles, strings>>

\* sqlite3_close refuses because a statement is left (see Usqlite), and close
\* forgets the handle.
CloseRefused ==
    /\ handles > 0
    /\ handles' = handles - 1
    /\ lost' = lost + 1
    /\ UNCHANGED <<config, strings, memory>>

\* connection.close: the handle's n bytes are freed; every other handle and
\* every string keeps some, and nothing else does.
CloseConnection(n) ==
    /\ handles > 0
    /\ handles' = handles - 1
    /\ n > 0 /\ Resized(-n)
    /\ held' >= handles' + lost + strings
    /\ handles' + lost + strings = 0 => held' = 0
    /\ UNCHANGED <<config, lost, strings>>

\* Mutant: sqlite3_config is allowed at any time.
AlwaysConfigurable == TRUE

\* sqlite3_config: not while SQLite is running.
Configurable == ~isInit

\* mem_status(b): stores the argument, then hands it to SQLite, which may refuse.
MemStatus(b) ==
    /\ mem_status' = b
    /\ bMemstat' = IF Configurable THEN b ELSE bMemstat
    /\ UNCHANGED <<initialized, isInit, allocator, owners, memory>>

\* mem_peak(reset) answers peak; mem_current answers used.
MemPeak(reset) ==
    /\ Initialize
    /\ peak' = IF reset THEN used ELSE peak
    /\ UNCHANGED <<owners, held, used>>

MemCurrent ==
    /\ Initialize
    /\ UNCHANGED <<owners, memory>>

Next ==
    \/ InitializeFails
    \/ \E n \in -MaxHeld .. MaxHeld :
           \/ Works(n) \/ LeavesString(n)
           \/ Connect(n) \/ ConnectFails(n) \/ CloseConnection(n)
    \/ ConnectRejected \/ CloseRefused
    \/ \E b \in BOOLEAN : MemStatus(b) \/ MemPeak(b)
    \/ MemCurrent

Spec == Init /\ [][Next]_vars

-----------------------------------------------------------------------------

\* mem_current and mem_peak are right: SQLite counts all the memory it has, or
\* none, because the status cannot change while memory is outstanding, however
\* often starting it fails and whichever call starts it (usqlite_module.c:68).
MemoryIsAccounted ==
    /\ used = IF bMemstat THEN held ELSE 0
    /\ used <= peak

\* SQLite never allocates before it has an allocator: it has memory only when
\* MicroPython's was configured before it was started (usqlite_module.c:75).
AllocatesFromMicroPython == held > 0 => isInit /\ allocator = "MicroPython"

-----------------------------------------------------------------------------
(* What the code does not keep: see Findings in the README *)

\* mem_status() answers the current status: README.md:142.  The argument is
\* stored before SQLite has accepted it (usqlite_module.c:166).
StatusIsReported == mem_status = bMemstat

\* Every handle is somebody's to close: sqlite3.h:3501 wants handles of failed
\* calls closed as well, and connect (usqlite_module.c:114) does not.
NoHandleLost == lost = 0

\* With no database open, SQLite has no memory: sqlite3.h:388 wants the error
\* message of sqlite3_exec freed, and executemany (usqlite_cursor.c:360) does so
\* only when there is none.
NoMemoryLost == handles + lost = 0 => held = 0
=============================================================================
