--------------------------------- MODULE Heap ---------------------------------
(***************************************************************************)
(* usqlite_mem.c: the memory of ModuleInit comes from MicroPython's heap,  *)
(* block by block.  Two accounts are kept of it: SQLite's statistics       *)
(* (mem_current), which go by mpmemSize, and, in builds with               *)
(* MICROPY_MEM_STATS, MicroPython's own counters.                          *)
(***************************************************************************)
EXTENDS ModuleInit, Functions, FiniteSetsExt

CONSTANTS
    Grain,      \* MicroPython hands out memory in multiples of Grain bytes
    MaxRequest, \* bound: SQLite asks for no more bytes at a time
    Width       \* bits of a size_t

ASSUME GrainIsPositive == Grain \in Nat \ {0} /\ MaxRequest \in Nat /\ Width \in Nat

VARIABLES
    blocks, \* how many blocks of each size SQLite has
    stats,  \* MP_STATE_MEM: its total_bytes_allocated and its
            \* current_bytes_allocated, to which mpmem does the same
    uneven  \* history: a request was no multiple of Grain, or failed

heap == <<blocks, stats, uneven>>

Requests == 1 .. MaxRequest

\* gc_alloc, gc_realloc: the block given for a request of n bytes.
GcBytes(n) == ((n + Grain - 1) \div Grain) * Grain

Sizes == {GcBytes(n) : n \in Requests}

\* mpmemSize, of a block of gc_nbytes b.
mpmemSize(b) == b

\* Mutant: what was asked for.
SizeAsked(n) == n

\* What sqlite3MallocSize says of the block that a request of n bytes got.
Given(n) == mpmemSize(GcBytes(n))

Outstanding == MapThenSumSet(LAMBDA b : b * blocks[b], Sizes)
NumberOf(bag) == MapThenSumSet(LAMBDA b : bag[b], Sizes)
BytesOf(bag) == MapThenSumSet(LAMBDA b : b * bag[b], Sizes)

HeapInit ==
    /\ Init
    /\ blocks = [b \in Sizes |-> 0]
    /\ stats = 0
    /\ uneven = FALSE

MicroPythonCounts(n) == stats' = (stats + n) % 2 ^ Width

\* mpmemMalloc(n): counts the bytes asked for, also when there is no block.
mpmemMalloc(n) ==
    /\ blocks' = [blocks EXCEPT ![GcBytes(n)] = @ + 1]
    /\ MicroPythonCounts(n)
    /\ uneven' = (uneven \/ GcBytes(n) # n)

NoBlock(n) ==
    /\ MicroPythonCounts(n)
    /\ uneven' = TRUE
    /\ UNCHANGED blocks

\* mpmemFree of every block in freed: counts the bytes of the blocks.
mpmemFree(freed) ==
    /\ blocks' = [b \in Sizes |-> blocks[b] - freed[b]]
    /\ MicroPythonCounts(-BytesOf(freed))
    /\ UNCHANGED uneven

\* Mutant: the old block is forgotten.
ReallocAdding(b, n) ==
    /\ blocks' = [[blocks EXCEPT ![b] = @ - 1] EXCEPT ![GcBytes(n)] = @ + 1]
    /\ MicroPythonCounts(n)
    /\ uneven' = (uneven \/ GcBytes(n) # n)

\* mpmemRealloc of a block b to n bytes.
mpmemRealloc(b, n) ==
    /\ blocks' = [[blocks EXCEPT ![b] = @ - 1] EXCEPT ![GcBytes(n)] = @ + 1]
    /\ MicroPythonCounts(n - b)
    /\ uneven' = (uneven \/ GcBytes(n) # n)

Single(b) == [s \in Sizes |-> IF s = b THEN 1 ELSE 0]

\* sqlite3Malloc in an open database.
Malloc(n) == Works(Given(n)) /\ mpmemMalloc(n)

\* The string of a call that raises is a block like any other.
KeepString(n) == LeavesString(Given(n)) /\ mpmemMalloc(n)

MallocFails(n) ==
    /\ handles > 0
    /\ NoBlock(n)
    /\ UNCHANGED vars

\* sqlite3_free.
Free(b) ==
    /\ blocks[b] > 0 /\ NumberOf(blocks) > handles + lost + strings
    /\ Works(-mpmemSize(b))
    /\ mpmemFree(Single(b))

\* sqlite3Realloc: nothing happens when the block has the size asked for; the
\* statistics go by the sizes of the blocks before and after.
Realloc(b, n) ==
    /\ blocks[b] > 0 /\ mpmemSize(b) # n
    /\ Works(Given(n) - mpmemSize(b))
    /\ mpmemRealloc(b, n)

ReallocFails(b, n) ==
    /\ handles > 0
    /\ blocks[b] > 0 /\ mpmemSize(b) # n
    /\ NoBlock(n - b)
    /\ UNCHANGED vars

OpenDatabase(n) == Connect(Given(n)) /\ mpmemMalloc(n)

OpenFails(n) == ConnectFails(Given(n)) /\ mpmemMalloc(n)

\* A name is refused, or there is no memory for a handle.
OpenRejected ==
    /\ ConnectRejected
    /\ UNCHANGED heap \/ \E n \in Requests : NoBlock(n)

StartFails ==
    /\ InitializeFails
    /\ UNCHANGED heap \/ \E n \in Requests : NoBlock(n)

\* connection.close frees what its database has, and only that.
CloseDatabase(freed) ==
    /\ \A b \in Sizes : freed[b] <= blocks[b]
    /\ BytesOf(freed) \in 1 .. held
    /\ NumberOf(blocks) - NumberOf(freed) >= handles + lost + strings - 1
    /\ CloseConnection(BytesOf(freed))
    /\ mpmemFree(freed)

HeapNext ==
    \/ StartFails
    \/ \E n \in Requests :
          \/ Malloc(n) \/ KeepString(n) \/ MallocFails(n)
          \/ OpenDatabase(n) \/ OpenFails(n)
    \/ \E b \in Sizes : Free(b) \/ \E n \in Requests : Realloc(b, n) \/ ReallocFails(b, n)
    \/ OpenRejected
    \/ \E freed \in [Sizes -> 0 .. MaxHeld \div Grain] : CloseDatabase(freed)
    \/ /\ CloseRefused \/ (\E b \in BOOLEAN : MemStatus(b) \/ MemPeak(b)) \/ MemCurrent
       /\ UNCHANGED heap

HeapSpec == HeapInit /\ [][HeapNext]_<<vars, heap>>

-----------------------------------------------------------------------------

\* mem_current is the memory SQLite really has, to the byte, through every
\* sequence of allocations, changes of size and failures, although mpmemRoundup
\* promises sizes that MicroPython does not give (usqlite_mem.c:98).
StatisticsAreExact == used = IF bMemstat THEN Outstanding ELSE 0

\* MicroPython's counters agree with SQLite's memory as long as every request
\* is for whole blocks and none fails (usqlite_mem.c:62, 73, 83).  One that is
\* not leaves them wrong for good.
CountersAgreeUntilUneven == ~uneven => stats = held
=============================================================================
