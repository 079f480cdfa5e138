----------------------------- MODULE Heap_proof -----------------------------
(***************************************************************************)
(* SQLite's memory statistics and its allocator, for any number of         *)
(* handles and any amount of memory; then, with the memory in blocks of    *)
(* any sizes, that the two accounts, SQLite's own and MicroPython's, are   *)
(* right.                                                                  *)
(*                                                                         *)
(* Both accounts are sums over the sizes of blocks, that is MapThenSumSet, *)
(* a recursive function on the subsets of a set.  What is needed of it is  *)
(* proved by taking a least counterexample: WFMin, a theorem about sets,   *)
(* does for it what the induction theorems, which are about operators,     *)
(* would do.                                                               *)
(***************************************************************************)
EXTENDS Heap, FiniteSetTheorems, TLAPS

-----------------------------------------------------------------------------
(* The statistics and the allocator                                        *)

\* What the properties rest on: memory needs a handle or a string somebody left,
\* and these need SQLite to have started, which only initialize does, and the status does not change
\* after that.
StartedOnce ==
    /\ initialized = isInit
    /\ isInit => allocator = "MicroPython"
    /\ handles + lost + strings > 0 => isInit
    /\ handles + lost + strings = 0 => held = 0

IInv == TypeOK /\ StartedOnce /\ MemoryIsAccounted

LEMMA InitIInv == Init => IInv
<1> SUFFICES ASSUME Init PROVE IInv
  OBVIOUS
<1> USE BoundsAreNatural DEF Init
<1>1. TypeOK
  <2>1. /\ initialized \in BOOLEAN /\ mem_status \in BOOLEAN
        /\ isInit \in BOOLEAN /\ bMemstat \in BOOLEAN
    OBVIOUS
  <2>2. allocator \in {"built-in", "MicroPython"}
    OBVIOUS
  <2>3. /\ handles \in Nat /\ lost \in Nat /\ handles + lost <= MaxHandles
        /\ strings \in Nat
        /\ held \in 0 .. MaxHeld /\ used \in 0 .. MaxHeld /\ peak \in 0 .. MaxHeld
    OBVIOUS
  <2>. QED
    BY <2>1, <2>2, <2>3 DEF TypeOK
<1>2. initialized = isInit /\ ~isInit
  OBVIOUS
<1>3. handles + lost + strings = 0 /\ held = 0
  OBVIOUS
<1>4. StartedOnce
  BY <1>2, <1>3 DEF StartedOnce
<1>5. MemoryIsAccounted
  BY DEF MemoryIsAccounted
<1>. QED
  BY <1>1, <1>4, <1>5 DEF IInv

\* Initialize starts SQLite and touches no counter.
LEMMA InitializeStarts ==
  ASSUME IInv, Initialize
  PROVE  /\ initialized' = TRUE /\ isInit' = TRUE /\ allocator' = "MicroPython"
         /\ mem_status' = mem_status /\ bMemstat' = bMemstat
  BY DEF IInv, TypeOK, StartedOnce, Initialize, config

\* The statistics follow the memory, whatever it grows or shrinks by.
LEMMA ResizedAccounts ==
  ASSUME IInv, NEW n \in Int, Resized(n), bMemstat' = bMemstat
  PROVE  /\ held' \in 0 .. MaxHeld /\ used' \in 0 .. MaxHeld /\ peak' \in 0 .. MaxHeld
         /\ held' = held + n
         /\ MemoryIsAccounted'
<1> USE BoundsAreNatural DEF IInv, TypeOK, MemoryIsAccounted, Resized
<1>1. CASE bMemstat
  BY <1>1
<1>2. CASE ~bMemstat
  BY <1>2
<1>. QED
  BY <1>1, <1>2

LEMMA NextIInv == IInv /\ [Next]_vars => IInv'
<1> USE BoundsAreNatural DEF IInv
<1> SUFFICES ASSUME IInv, [Next]_vars PROVE IInv'
  OBVIOUS
<1>1. CASE InitializeFails
  BY <1>1 DEF TypeOK, StartedOnce, MemoryIsAccounted, InitializeFails, owners, memory
<1>2. ASSUME NEW n \in -MaxHeld .. MaxHeld, Works(n) PROVE IInv'
  <2>1. UNCHANGED <<config, handles, lost, strings>> /\ handles > 0 /\ Resized(n)
    BY <1>2 DEF Works, owners
  <2>2. /\ held' \in 0 .. MaxHeld /\ used' \in 0 .. MaxHeld /\ peak' \in 0 .. MaxHeld
        /\ MemoryIsAccounted'
    BY <2>1, ResizedAccounts DEF config
  <2>. QED
    BY <2>1, <2>2 DEF config, TypeOK, StartedOnce
<1>3. ASSUME NEW n \in -MaxHeld .. MaxHeld, LeavesString(n) PROVE IInv'
  <2>1. /\ UNCHANGED <<config, handles, lost>> /\ handles > 0 /\ strings' = strings + 1
        /\ Resized(n)
    BY <1>3 DEF LeavesString
  <2>2. /\ held' \in 0 .. MaxHeld /\ used' \in 0 .. MaxHeld /\ peak' \in 0 .. MaxHeld
        /\ MemoryIsAccounted'
    BY <2>1, ResizedAccounts DEF config
  <2>. QED
    BY <2>1, <2>2 DEF config, TypeOK, StartedOnce
<1>4. ASSUME NEW n \in -MaxHeld .. MaxHeld, Connect(n) \/ ConnectFails(n) PROVE IInv'
  <2>1. /\ initialized' = TRUE /\ isInit' = TRUE /\ allocator' = "MicroPython"
        /\ mem_status' = mem_status /\ bMemstat' = bMemstat
    BY <1>4, InitializeStarts DEF Connect, ConnectFails
  <2>2. /\ handles' \in Nat /\ lost' \in Nat /\ strings' \in Nat
        /\ handles' + lost' <= MaxHandles /\ handles' + lost' + strings' # 0
    <3>1. CASE /\ handles' = handles + 1 /\ lost' = lost /\ strings' = strings
               /\ handles + lost < MaxHandles
      BY <3>1 DEF TypeOK
    <3>2. CASE /\ handles' = handles /\ lost' = lost + 1 /\ strings' = strings
               /\ handles + lost < MaxHandles
      BY <3>2 DEF TypeOK
    <3>. QED
      BY <1>4, <3>1, <3>2 DEF Connect, ConnectFails
  <2>3. /\ held' \in 0 .. MaxHeld /\ used' \in 0 .. MaxHeld /\ peak' \in 0 .. MaxHeld
        /\ MemoryIsAccounted'
    BY <1>4, <2>1, ResizedAccounts DEF Connect, ConnectFails
  <2>4. TypeOK'
    <3>1. mem_status' \in BOOLEAN /\ bMemstat' \in BOOLEAN
      BY <2>1 DEF TypeOK
    <3>2. allocator' \in {"built-in", "MicroPython"}
      BY <2>1
    <3>3. initialized' \in BOOLEAN /\ isInit' \in BOOLEAN
      BY <2>1
    <3>. QED
      BY <2>2, <2>3, <3>1, <3>2, <3>3 DEF TypeOK
  <2>5. StartedOnce'
    BY <2>1, <2>2 DEF StartedOnce
  <2>. QED
    BY <2>3, <2>4, <2>5
<1>5. CASE ConnectRejected \/ MemCurrent \/ \E b \in BOOLEAN : MemPeak(b)
  <2>1. Initialize /\ UNCHANGED <<handles, lost, strings, held, used>>
    BY <1>5 DEF ConnectRejected, MemCurrent, MemPeak, owners, memory
  <2>2. /\ initialized' = TRUE /\ isInit' = TRUE /\ allocator' = "MicroPython"
        /\ mem_status' = mem_status /\ bMemstat' = bMemstat
    BY <2>1, InitializeStarts
  <2>3. peak' \in 0 .. MaxHeld /\ used <= peak'
    BY <1>5 DEF ConnectRejected, MemCurrent, MemPeak, memory, TypeOK, MemoryIsAccounted
  <2>. QED
    BY <2>1, <2>2, <2>3 DEF TypeOK, StartedOnce, MemoryIsAccounted
<1>6. ASSUME NEW n \in -MaxHeld .. MaxHeld, CloseConnection(n) PROVE IInv'
  <2>1. /\ UNCHANGED <<config, lost, strings>> /\ handles > 0 /\ handles' = handles - 1
        /\ Resized(-n) /\ -n \in Int
        /\ handles' + lost + strings = 0 => held' = 0
    BY <1>6 DEF CloseConnection
  <2>2. /\ held' \in 0 .. MaxHeld /\ used' \in 0 .. MaxHeld /\ peak' \in 0 .. MaxHeld
        /\ MemoryIsAccounted'
    BY <2>1, ResizedAccounts DEF config
  <2>. QED
    BY <2>1, <2>2 DEF config, TypeOK, StartedOnce
<1>7. ASSUME NEW b \in BOOLEAN, MemStatus(b) PROVE IInv'
  <2>1. /\ UNCHANGED <<initialized, isInit, allocator, held, used, peak>>
        /\ UNCHANGED <<handles, lost, strings>>
    BY <1>7 DEF MemStatus, owners, memory
  <2>2. mem_status' \in BOOLEAN /\ bMemstat' \in BOOLEAN
    BY <1>7 DEF MemStatus, TypeOK
  <2>3. TypeOK' /\ StartedOnce'
    BY <2>1, <2>2 DEF TypeOK, StartedOnce
  <2>4. CASE isInit
    <3>1. bMemstat' = bMemstat
      BY <1>7, <2>4 DEF MemStatus, Configurable
    <3>. QED
      BY <2>1, <2>3, <3>1 DEF MemoryIsAccounted
  <2>5. CASE ~isInit
    <3>1. held = 0
      BY <2>5 DEF TypeOK, StartedOnce
    <3>. QED
      BY <2>1, <2>3, <3>1 DEF MemoryIsAccounted
  <2>. QED
    BY <2>4, <2>5
<1>8. CASE CloseRefused
  BY <1>8 DEF CloseRefused, config, owners, memory, TypeOK, StartedOnce, MemoryIsAccounted
<1>9. CASE UNCHANGED vars
  BY <1>9 DEF vars, config, owners, memory, TypeOK, StartedOnce, MemoryIsAccounted
<1>. QED
  BY <1>1, <1>2, <1>3, <1>4, <1>5, <1>6, <1>7, <1>8, <1>9 DEF Next

-----------------------------------------------------------------------------

\* The block a request gets has a whole number of bytes.
LEMMA GivenIsInteger == ASSUME NEW n \in Requests PROVE Given(n) \in Int
<1> USE GrainIsPositive DEF Requests
<1>1. (n + Grain - 1) \div Grain \in Int
  OBVIOUS
<1>. QED
  BY <1>1 DEF Given, mpmemSize, GcBytes

LEMMA SizesAreIntegers == ASSUME NEW b \in Sizes PROVE b \in Int
  BY GivenIsInteger DEF Sizes, Given, mpmemSize

\* Memory that stays within its bounds changes by no more than them.
LEMMA ResizedIsBounded ==
  ASSUME IInv, NEW n \in Int, Resized(n)
  PROVE  n \in -MaxHeld .. MaxHeld
  BY BoundsAreNatural DEF IInv, TypeOK, Resized

\* Every step of Heap is one of ModuleInit, or leaves its variables alone.
LEMMA HeapStepImplements == IInv /\ [HeapNext]_<<vars, heap>> => [Next]_vars
<1> SUFFICES ASSUME IInv, [HeapNext]_<<vars, heap>> PROVE [Next]_vars
  OBVIOUS
<1>1. CASE StartFails
  BY <1>1 DEF StartFails, Next
<1>2. ASSUME NEW n \in Requests,
             \/ Malloc(n) \/ KeepString(n) \/ MallocFails(n)
             \/ OpenDatabase(n) \/ OpenFails(n)
      PROVE  [Next]_vars
  <2>1. CASE MallocFails(n)
    BY <2>1 DEF MallocFails
  <2>2. CASE Malloc(n) \/ KeepString(n) \/ OpenDatabase(n) \/ OpenFails(n)
    <3>1. \/ Works(Given(n)) \/ LeavesString(Given(n))
          \/ Connect(Given(n)) \/ ConnectFails(Given(n))
      BY <2>2 DEF Malloc, KeepString, OpenDatabase, OpenFails
    <3>2. Given(n) \in -MaxHeld .. MaxHeld
      BY <3>1, GivenIsInteger, ResizedIsBounded
         DEF Works, LeavesString, Connect, ConnectFails
    <3>. QED
      BY <3>1, <3>2 DEF Next
  <2>. QED
    BY <1>2, <2>1, <2>2
<1>3. ASSUME NEW b \in Sizes, Free(b) PROVE [Next]_vars
  <2>1. Works(-mpmemSize(b)) /\ -mpmemSize(b) \in Int
    BY <1>3, SizesAreIntegers DEF Free, mpmemSize
  <2>2. -mpmemSize(b) \in -MaxHeld .. MaxHeld
    BY <2>1, ResizedIsBounded DEF Works
  <2>. QED
    BY <2>1, <2>2 DEF Next
<1>4. ASSUME NEW b \in Sizes, NEW n \in Requests, Realloc(b, n) \/ ReallocFails(b, n)
      PROVE  [Next]_vars
  <2>1. CASE ReallocFails(b, n)
    BY <2>1 DEF ReallocFails
  <2>2. CASE Realloc(b, n)
    <3>1. Works(Given(n) - mpmemSize(b))
      BY <2>2 DEF Realloc
    <3>2. Given(n) - mpmemSize(b) \in Int
      BY GivenIsInteger, SizesAreIntegers DEF mpmemSize
    <3>3. Given(n) - mpmemSize(b) \in -MaxHeld .. MaxHeld
      BY <3>1, <3>2, ResizedIsBounded DEF Works
    <3>. QED
      BY <3>1, <3>3 DEF Next
  <2>. QED
    BY <1>4, <2>1, <2>2
<1>5. CASE OpenRejected
  BY <1>5 DEF OpenRejected, Next
<1>6. ASSUME NEW freed, CloseDatabase(freed) PROVE [Next]_vars
  <2>1. CloseConnection(BytesOf(freed)) /\ BytesOf(freed) \in 1 .. held
    BY <1>6 DEF CloseDatabase
  <2>2. BytesOf(freed) \in -MaxHeld .. MaxHeld
    BY <2>1, BoundsAreNatural DEF IInv, TypeOK
  <2>. QED
    BY <2>1, <2>2 DEF Next
<1>7. CASE CloseRefused \/ (\E b \in BOOLEAN : MemStatus(b) \/ MemPeak(b)) \/ MemCurrent
  BY <1>7 DEF Next
<1>8. CASE UNCHANGED <<vars, heap>>
  BY <1>8
<1>. QED
  BY <1>1, <1>2, <1>3, <1>4, <1>5, <1>6, <1>7, <1>8 DEF HeapNext

\* Whatever a step of ModuleInit keeps is so with and without the blocks.
LEMMA InvariantOfBoth == (Spec => []IInv) /\ (HeapSpec => []IInv)
<1>1. HeapInit => IInv
  BY InitIInv DEF HeapInit
<1>2. IInv /\ [HeapNext]_<<vars, heap>> => IInv'
  BY HeapStepImplements, NextIInv
<1>3. Spec => []IInv
  BY InitIInv, NextIInv, PTL DEF Spec
<1>4. HeapSpec => []IInv
  BY <1>1, <1>2, PTL DEF HeapSpec
<1>. QED
  BY <1>3, <1>4

\* Every variable keeps its type: the counters stay within the memory there is,
\* in ModuleInit and with the memory in blocks.
THEOREM TypeCorrect == (Spec => []TypeOK) /\ (HeapSpec => []TypeOK)
<1>1. IInv => TypeOK
  BY DEF IInv
<1>. QED
  BY InvariantOfBoth, <1>1, PTL

\* mem_current and mem_peak account for all of SQLite's memory or for none of
\* it, however much of it is taken and given back, by however many handles, and
\* whatever strings of it are left behind.
THEOREM MemoryAccounted ==
  (Spec => []MemoryIsAccounted) /\ (HeapSpec => []MemoryIsAccounted)
<1>1. IInv => MemoryIsAccounted
  BY DEF IInv
<1>. QED
  BY InvariantOfBoth, <1>1, PTL

\* SQLite allocates only after MicroPython's allocator was configured.
THEOREM MicroPythonAllocates ==
  (Spec => []AllocatesFromMicroPython) /\ (HeapSpec => []AllocatesFromMicroPython)
<1>1. IInv => AllocatesFromMicroPython
  BY DEF IInv, TypeOK, StartedOnce, AllocatesFromMicroPython
<1>. QED
  BY InvariantOfBoth, <1>1, PTL

-----------------------------------------------------------------------------
(* Least counterexamples *)

Below == {ss \in Nat \X Nat : ss[1] < ss[2]}

\* A set of numbers that is not empty has a smallest number.
LEMMA LeastNumber ==
  ASSUME NEW T \in SUBSET Nat, T # {}
  PROVE  \E n \in T : \A m \in T : n <= m
<1>1. IsWellFoundedOn(Below, Nat)
  BY NatLessThanWellFounded, Zenon DEF OpToRel, Below
<1>2. PICK n \in T : \A m \in T : ~ (<<m, n>> \in Below)
  BY <1>1, WFMin
<1>. SUFFICES ASSUME NEW m \in T PROVE n <= m
  BY <1>2
<1>3. <<m, n>> \notin Below /\ <<m, n>> \in Nat \X Nat
  BY <1>2
<1>. QED
  BY <1>3 DEF Below

\* A finite set of sets that is not empty has a smallest set.
LEMMA LeastSet ==
  ASSUME NEW S, IsFiniteSet(S), NEW T \in SUBSET SUBSET S, T # {}
  PROVE  \E s \in T : \A t \in T : t \subseteq s => t = s
<1>1. FiniteSubsetsOf(S) = SUBSET S
  BY FS_FiniteSubsetsOfFinite
<1>2. IsWellFoundedOn(StrictSubsetOrdering(S), SUBSET S)
  BY <1>1, FS_StrictSubsetOrderingWellFounded
<1>3. PICK s \in T : \A t \in T : ~ (<<t, s>> \in StrictSubsetOrdering(S))
  BY <1>2, WFMin
<1>. QED
  BY <1>3 DEF StrictSubsetOrdering

-----------------------------------------------------------------------------
(* Sums *)

\* The element a sum takes first.
Pick(s) == CHOOSE x \in s : TRUE

LEMMA PickIsIn == \A s : s # {} => Pick(s) \in s
  BY DEF Pick

\* h has the sum of the bytes in bag for every set in D.
Sums(h, bag, D) ==
    /\ h \in [D -> Int]
    /\ \A s \in D : h[s] = IF s = {} THEN 0
                           ELSE Pick(s) * bag[Pick(s)] + h[s \ {Pick(s)}]

Small(S, n) == {s \in SUBSET S : Cardinality(s) <= n}

LEMMA SmallerSets ==
  ASSUME NEW S, IsFiniteSet(S), NEW n \in Nat, NEW s \in Small(S, n), s # {}
  PROVE  /\ Pick(s) \in S
         /\ s \ {Pick(s)} \in Small(S, n - 1)
         /\ s \ {Pick(s)} \in Small(S, n)
<1>1. s \in SUBSET S /\ Pick(s) \in s
  BY PickIsIn DEF Small
<1>2. IsFiniteSet(s) /\ Cardinality(s) \in Nat
  BY <1>1, FS_Subset, FS_CardinalityType
<1>3. Cardinality(s \ {Pick(s)}) = Cardinality(s) - 1
  BY <1>1, <1>2, FS_RemoveElement
<1>. QED
  BY <1>1, <1>2, <1>3 DEF Small

\* The sets of up to n elements have sums.
LEMMA SumsExist ==
  ASSUME NEW S \in SUBSET Int, IsFiniteSet(S), NEW bag \in [S -> Int], NEW n \in Nat
  PROVE  \E h : Sums(h, bag, Small(S, n))
<1> DEFINE Without == {m \in Nat : ~ \E h : Sums(h, bag, Small(S, m))}
<1> SUFFICES ASSUME Without # {} PROVE FALSE
  OBVIOUS
<1>1. PICK m \in Without : \A k \in Without : m <= k
  BY LeastNumber
<1>2. CASE m = 0
  <2>1. \A s \in SUBSET S : IsFiniteSet(s) /\ Cardinality(s) \in Nat
    BY FS_Subset, FS_CardinalityType
  <2>2. Small(S, 0) = {{}}
    BY <2>1, FS_EmptySet DEF Small
  <2>3. Sums([s \in {{}} |-> 0], bag, {{}})
    BY DEF Sums
  <2>. QED
    BY <1>2, <2>2, <2>3
<1>3. CASE m # 0
  <2>1. m - 1 \in Nat /\ ~ (m <= m - 1)
    BY <1>3
  <2>2. PICK h : Sums(h, bag, Small(S, m - 1))
    BY <1>1, <2>1
  <2> DEFINE g == [s \in Small(S, m) |->
                      IF s = {} THEN 0 ELSE Pick(s) * bag[Pick(s)] + h[s \ {Pick(s)}]]
  <2>3. \A x \in S : x * bag[x] \in Int
    OBVIOUS
  <2>4. g \in [Small(S, m) -> Int]
    <3>. SUFFICES ASSUME NEW s \in Small(S, m), s # {}
                  PROVE  Pick(s) * bag[Pick(s)] + h[s \ {Pick(s)}] \in Int
      OBVIOUS
    <3>1. Pick(s) * bag[Pick(s)] \in Int /\ s \ {Pick(s)} \in Small(S, m - 1)
      BY <1>3, <2>3, SmallerSets
    <3>2. h[s \ {Pick(s)}] \in Int
      BY <2>2, <3>1 DEF Sums
    <3>. QED
      BY <3>1, <3>2
  <2>5. \A s \in Small(S, m - 1) : g[s] = h[s]
    <3>1. \A s \in SUBSET S : Cardinality(s) \in Nat
      BY FS_Subset, FS_CardinalityType
    <3>2. Small(S, m - 1) \subseteq Small(S, m)
      BY <3>1 DEF Small
    <3>. QED
      BY <2>2, <3>2 DEF Sums
  <2>6. \A s \in Small(S, m) : s # {} => g[s \ {Pick(s)}] = h[s \ {Pick(s)}]
    BY <2>5, <1>3, SmallerSets
  <2>7. Sums(g, bag, Small(S, m))
    BY <2>4, <2>6 DEF Sums
  <2>. QED
    BY <2>7
<1>. QED
  BY <1>2, <1>3

\* A sum whose parts are integers is an integer.
LEMMA SumsAreIntegers ==
  ASSUME NEW S, IsFiniteSet(S), NEW h, h[{}] \in Int,
         \A s \in SUBSET S : s # {} /\ h[s \ {Pick(s)}] \in Int => h[s] \in Int
  PROVE  \A s \in SUBSET S : h[s] \in Int
<1> DEFINE T == {s \in SUBSET S : h[s] \notin Int}
<1>. SUFFICES ASSUME T # {} PROVE FALSE
  OBVIOUS
<1>1. T \in SUBSET SUBSET S
  OBVIOUS
<1> HIDE DEF T
<1>2. PICK s \in T : \A t \in T : t \subseteq s => t = s
  BY <1>1, LeastSet
<1> USE DEF T
<1>3. s # {} /\ Pick(s) \in s
  BY <1>2, PickIsIn
<1>4. s \ {Pick(s)} \in SUBSET S /\ s \ {Pick(s)} \subseteq s /\ s \ {Pick(s)} # s
  BY <1>3
<1>. QED
  BY <1>2, <1>3, <1>4

\* The bytes of a bag of blocks are the sum they are meant to be.
LEMMA BytesOfSums ==
  ASSUME NEW S \in SUBSET Int, IsFiniteSet(S), NEW bag \in [S -> Int]
  PROVE  \E h : /\ Sums(h, bag, SUBSET S)
                /\ MapThenSumSet(LAMBDA b : b * bag[b], S) = h[S]
<1> DEFINE Unfolds(h) == h = [s \in SUBSET S |->
                   IF s = {} THEN 0 ELSE Pick(s) * bag[Pick(s)] + h[s \ {Pick(s)}]]
<1>1. MapThenSumSet(LAMBDA b : b * bag[b], S) = (CHOOSE h : Unfolds(h))[S]
  BY DEF MapThenSumSet, MapThenFoldSet, Pick
<1>2. PICK g : Sums(g, bag, SUBSET S)
  <2>1. \A s \in SUBSET S : Cardinality(s) <= Cardinality(S) /\ Cardinality(S) \in Nat
    BY FS_Subset, FS_CardinalityType
  <2>2. Small(S, Cardinality(S)) = SUBSET S /\ Cardinality(S) \in Nat
    BY <2>1 DEF Small
  <2>3. \E g : Sums(g, bag, Small(S, Cardinality(S)))
    BY <2>2, SumsExist
  <2>. QED
    BY <2>2, <2>3
<1>3. Unfolds(g)
  BY <1>2 DEF Sums
<1>4. PICK h : Unfolds(h) /\ MapThenSumSet(LAMBDA b : b * bag[b], S) = h[S]
  <2> HIDE DEF Unfolds
  <2>. QED
    BY <1>1, <1>3, Zenon
<1>5. \A s \in SUBSET S : h[s] \in Int
  <2>1. h[{}] \in Int
    <3>1. {} \in SUBSET S
      OBVIOUS
    <3>2. \A s \in SUBSET S : s = {} => h[s] = 0
      BY <1>4, Zenon
    <3>. QED
      BY <3>1, <3>2
  <2>2. \A x \in S : x * bag[x] \in Int
    OBVIOUS
  <2>3. ASSUME NEW s \in SUBSET S, s # {}, h[s \ {Pick(s)}] \in Int
        PROVE  h[s] \in Int
    <3>1. h[s] = Pick(s) * bag[Pick(s)] + h[s \ {Pick(s)}]
      BY <1>4, <2>3
    <3>2. Pick(s) * bag[Pick(s)] \in Int
      BY <2>2, <2>3, PickIsIn
    <3>. QED
      BY <2>3, <3>1, <3>2
  <2> HIDE DEF Unfolds
  <2>. QED
    BY <2>1, <2>3, SumsAreIntegers
<1>6. Sums(h, bag, SUBSET S)
  BY <1>4, <1>5 DEF Sums
<1>. QED
  BY <1>4, <1>6

\* Two sums that agree on the empty set and go on alike are the same.
LEMMA SumsAgree ==
  ASSUME NEW S, IsFiniteSet(S), NEW g, NEW h, g[{}] = h[{}],
         \A s \in SUBSET S : s # {} /\ g[s \ {Pick(s)}] = h[s \ {Pick(s)}] => g[s] = h[s]
  PROVE  g[S] = h[S]
<1> DEFINE T == {s \in SUBSET S : g[s] # h[s]}
<1>. SUFFICES ASSUME T # {} PROVE FALSE
  OBVIOUS
<1>1. T \in SUBSET SUBSET S
  OBVIOUS
<1> HIDE DEF T
<1>2. PICK s \in T : \A t \in T : t \subseteq s => t = s
  BY <1>1, LeastSet
<1> USE DEF T
<1>3. s # {} /\ Pick(s) \in s
  BY <1>2, PickIsIn
<1>4. s \ {Pick(s)} \in SUBSET S /\ s \ {Pick(s)} \subseteq s /\ s \ {Pick(s)} # s
  BY <1>3
<1>5. g[s \ {Pick(s)}] = h[s \ {Pick(s)}]
  BY <1>2, <1>4
<1>. QED
  BY <1>2, <1>3, <1>5

\* BytesOf, over any set of sizes.
Bytes(S, bag) == MapThenSumSet(LAMBDA b : b * bag[b], S)

LEMMA BytesAreInteger ==
  ASSUME NEW S \in SUBSET Int, IsFiniteSet(S), NEW bag \in [S -> Int]
  PROVE  Bytes(S, bag) \in Int
<1>1. PICK h : Sums(h, bag, SUBSET S) /\ Bytes(S, bag) = h[S]
  BY BytesOfSums DEF Bytes
<1>. QED
  BY <1>1 DEF Sums

\* The bytes of two bags together.
LEMMA BytesAdd ==
  ASSUME NEW S \in SUBSET Int, IsFiniteSet(S),
         NEW a \in [S -> Int], NEW b \in [S -> Int], NEW c \in [S -> Int],
         \A x \in S : c[x] = a[x] + b[x]
  PROVE  Bytes(S, c) = Bytes(S, a) + Bytes(S, b)
<1>1. PICK ha : Sums(ha, a, SUBSET S) /\ Bytes(S, a) = ha[S]
  BY BytesOfSums DEF Bytes
<1>2. PICK hb : Sums(hb, b, SUBSET S) /\ Bytes(S, b) = hb[S]
  BY BytesOfSums DEF Bytes
<1>3. PICK hc : Sums(hc, c, SUBSET S) /\ Bytes(S, c) = hc[S]
  BY BytesOfSums DEF Bytes
<1> DEFINE g == [s \in SUBSET S |-> ha[s] + hb[s]]
<1>4. \A x \in S : /\ x * c[x] = x * a[x] + x * b[x]
                  /\ x * a[x] \in Int /\ x * b[x] \in Int
  OBVIOUS
<1>5. g[{}] = hc[{}]
  <2>1. ha[{}] = 0 /\ hb[{}] = 0 /\ hc[{}] = 0
    BY <1>1, <1>2, <1>3 DEF Sums
  <2>. QED
    BY <2>1
<1>6. ASSUME NEW s \in SUBSET S, s # {}, g[s \ {Pick(s)}] = hc[s \ {Pick(s)}]
      PROVE  g[s] = hc[s]
  <2> DEFINE p == Pick(s)
  <2> DEFINE r == s \ {p}
  <2>1. p \in S /\ r \in SUBSET S
    BY <1>6, PickIsIn
  <2>2. p * c[p] = p * a[p] + p * b[p] /\ p * a[p] \in Int /\ p * b[p] \in Int
    <3> HIDE DEF p
    <3>. QED
      BY <1>4, <2>1
  <2>3. ha[s] = p * a[p] + ha[r] /\ ha[r] \in Int
    BY <1>1, <1>6, <2>1 DEF Sums
  <2>4. hb[s] = p * b[p] + hb[r] /\ hb[r] \in Int
    BY <1>2, <1>6, <2>1 DEF Sums
  <2>5. hc[s] = p * c[p] + hc[r]
    BY <1>3, <1>6, <2>1 DEF Sums
  <2>6. hc[r] = ha[r] + hb[r]
    BY <1>6, <2>1
  <2>7. g[s] = ha[s] + hb[s]
    OBVIOUS
  <2> HIDE DEF p, r, g
  <2>. QED
    BY <2>2, <2>3, <2>4, <2>5, <2>6, <2>7
<1> HIDE DEF g
<1>7. g[S] = hc[S]
  BY <1>5, <1>6, SumsAgree
<1>8. g[S] = ha[S] + hb[S]
  BY DEF g
<1>. QED
  BY <1>1, <1>2, <1>3, <1>7, <1>8

\* The bytes of n blocks of one size; none for n = 0.
LEMMA BytesOfSome ==
  ASSUME NEW S \in SUBSET Int, IsFiniteSet(S), NEW k \in S, NEW n \in Int,
         NEW bag \in [S -> Int],
         \A x \in S : bag[x] = IF x = k THEN n ELSE 0
  PROVE  Bytes(S, bag) = k * n
<1>1. PICK h : Sums(h, bag, SUBSET S) /\ Bytes(S, bag) = h[S]
  BY BytesOfSums DEF Bytes
<1> DEFINE g == [s \in SUBSET S |-> IF k \in s THEN k * n ELSE 0]
<1>2. k * n \in Int /\ \A x \in S : x * 0 = 0
  OBVIOUS
<1>3. g[{}] = h[{}]
  BY <1>1 DEF Sums
<1>4. ASSUME NEW s \in SUBSET S, s # {}, g[s \ {Pick(s)}] = h[s \ {Pick(s)}]
      PROVE  g[s] = h[s]
  <2> DEFINE p == Pick(s)
  <2> DEFINE r == s \ {p}
  <2>1. p \in S /\ p \in s /\ r \in SUBSET S
    BY <1>4, PickIsIn
  <2>2. h[s] = p * bag[p] + h[r]
    BY <1>1, <1>4, <2>1 DEF Sums
  <2>3. h[r] = IF k \in r THEN k * n ELSE 0
    BY <1>4, <2>1
  <2>4. CASE p = k
    <3>1. k \in s /\ k \notin r /\ p * bag[p] = k * n
      BY <2>1, <2>4
    <3>. QED
      BY <1>2, <2>2, <2>3, <3>1
  <2>5. CASE p # k
    <3>1. (k \in s <=> k \in r) /\ p * bag[p] = 0
      BY <1>2, <2>1, <2>5
    <3>. QED
      BY <1>2, <2>2, <2>3, <3>1
  <2>. QED
    BY <2>4, <2>5
<1> HIDE DEF g
<1>5. g[S] = h[S]
  BY <1>3, <1>4, SumsAgree
<1>. QED
  BY <1>1, <1>5 DEF g

\* The bytes of one block of size k more than there were, as in mpmemMalloc.
LEMMA BytesOfOneMore ==
  ASSUME NEW S \in SUBSET Int, IsFiniteSet(S), NEW k \in S, NEW d \in Int,
         NEW a \in [S -> Int], NEW c \in [S -> Int],
         \A x \in S : c[x] = IF x = k THEN a[x] + d ELSE a[x]
  PROVE  Bytes(S, c) = Bytes(S, a) + k * d
<1> DEFINE b == [x \in S |-> IF x = k THEN d ELSE 0]
<1>1. b \in [S -> Int] /\ \A x \in S : b[x] = IF x = k THEN d ELSE 0
  OBVIOUS
<1>2. \A x \in S : c[x] = a[x] + b[x]
  OBVIOUS
<1> HIDE DEF b
<1>3. Bytes(S, b) = k * d
  BY <1>1, BytesOfSome
<1>. QED
  BY <1>1, <1>2, <1>3, BytesAdd

-----------------------------------------------------------------------------
(* The blocks SQLite has *)

LEMMA SizesAreFinite == Sizes \in SUBSET Int /\ IsFiniteSet(Sizes)
<1>1. Sizes \in SUBSET Int
  BY SizesAreIntegers
<1> DEFINE block == [n \in Requests |-> GcBytes(n)]
<1>2. block \in Surjection(Requests, Sizes)
  BY DEF Surjection, Sizes
<1>3. IsFiniteSet(Requests)
  BY GrainIsPositive, FS_Interval DEF Requests
<1>. QED
  BY <1>1, <1>2, <1>3, FS_Surjection

\* MicroPython's counter is never beyond a size_t, and SQLite's memory is not
\* either: every byte has an address.
AddressesSuffice == MaxHeld < 2 ^ Width

\* What the statistics and the counters rest on: the blocks are the memory.
HeldInBlocks ==
    /\ blocks \in [Sizes -> Nat]
    /\ held = BytesOf(blocks)

CountersHold ==
    /\ uneven \in BOOLEAN
    /\ ~uneven => stats = held

LEMMA BytesOfIsBytes == \A bag : BytesOf(bag) = Bytes(Sizes, bag)
  BY DEF BytesOf, Bytes

LEMMA RequestsHaveSizes ==
  ASSUME NEW n \in Requests
  PROVE  GcBytes(n) \in Sizes /\ GcBytes(n) \in Int /\ Given(n) = GcBytes(n)
  BY SizesAreIntegers DEF Sizes, Given, mpmemSize

\* One block more.
LEMMA MallocAddsBytes ==
  ASSUME HeldInBlocks, NEW n \in Requests, mpmemMalloc(n)
  PROVE  /\ blocks' \in [Sizes -> Nat]
         /\ BytesOf(blocks') = BytesOf(blocks) + Given(n)
<1> DEFINE k == GcBytes(n)
<1>1. k \in Sizes /\ k \in Int /\ Given(n) = k
  BY RequestsHaveSizes
<1>2. blocks' = [blocks EXCEPT ![k] = @ + 1]
  BY DEF mpmemMalloc
<1> HIDE DEF k
<1>3. /\ blocks' \in [Sizes -> Nat] /\ blocks \in [Sizes -> Int] /\ blocks' \in [Sizes -> Int]
      /\ \A x \in Sizes : blocks'[x] = IF x = k THEN blocks[x] + 1 ELSE blocks[x]
  BY <1>1, <1>2 DEF HeldInBlocks
<1>4. Bytes(Sizes, blocks') = Bytes(Sizes, blocks) + k * 1
  BY <1>1, <1>3, SizesAreFinite, BytesOfOneMore
<1>. QED
  BY <1>1, <1>3, <1>4, BytesOfIsBytes

\* A block of another size in place of one.
LEMMA ReallocChangesBytes ==
  ASSUME HeldInBlocks, NEW b \in Sizes, blocks[b] > 0, NEW n \in Requests,
         mpmemRealloc(b, n)
  PROVE  /\ blocks' \in [Sizes -> Nat]
         /\ BytesOf(blocks') = BytesOf(blocks) + (Given(n) - mpmemSize(b))
<1> DEFINE k == GcBytes(n)
<1> DEFINE freed == [blocks EXCEPT ![b] = @ - 1]
<1>1. k \in Sizes /\ k \in Int /\ Given(n) = k /\ b \in Int
  BY RequestsHaveSizes, SizesAreIntegers
<1>2. blocks' = [freed EXCEPT ![k] = @ + 1]
  BY DEF mpmemRealloc
<1> HIDE DEF k
<1>3. /\ freed \in [Sizes -> Nat] /\ freed \in [Sizes -> Int] /\ blocks \in [Sizes -> Int]
      /\ \A x \in Sizes : freed[x] = IF x = b THEN blocks[x] + (-1) ELSE blocks[x]
  BY <1>1 DEF HeldInBlocks
<1> HIDE DEF freed
<1>4. /\ blocks' \in [Sizes -> Nat] /\ blocks' \in [Sizes -> Int]
      /\ \A x \in Sizes : blocks'[x] = IF x = k THEN freed[x] + 1 ELSE freed[x]
  BY <1>1, <1>2, <1>3
<1>5. Bytes(Sizes, freed) = Bytes(Sizes, blocks) + b * (-1)
  BY <1>3, SizesAreFinite, BytesOfOneMore
<1>6. Bytes(Sizes, blocks') = Bytes(Sizes, freed) + k * 1
  BY <1>1, <1>3, <1>4, SizesAreFinite, BytesOfOneMore
<1>7. Bytes(Sizes, blocks) \in Int
  BY <1>3, SizesAreFinite, BytesAreInteger
<1>. QED
  BY <1>1, <1>4, <1>5, <1>6, <1>7, BytesOfIsBytes DEF mpmemSize

\* The blocks in freed less.
LEMMA FreeSubtractsBytes ==
  ASSUME HeldInBlocks, NEW freed \in [Sizes -> Nat],
         \A b \in Sizes : freed[b] <= blocks[b], mpmemFree(freed)
  PROVE  /\ blocks' \in [Sizes -> Nat]
         /\ BytesOf(blocks') = BytesOf(blocks) - BytesOf(freed)
<1>1. blocks' = [b \in Sizes |-> blocks[b] - freed[b]]
  BY DEF mpmemFree
<1>2. /\ blocks' \in [Sizes -> Nat] /\ blocks' \in [Sizes -> Int]
      /\ blocks \in [Sizes -> Int] /\ freed \in [Sizes -> Int]
      /\ \A x \in Sizes : blocks[x] = blocks'[x] + freed[x]
  BY <1>1 DEF HeldInBlocks
<1>3. Bytes(Sizes, blocks) = Bytes(Sizes, blocks') + Bytes(Sizes, freed)
  BY <1>2, SizesAreFinite, BytesAdd
<1>4. Bytes(Sizes, blocks') \in Int /\ Bytes(Sizes, freed) \in Int
  BY <1>2, SizesAreFinite, BytesAreInteger
<1>. QED
  BY <1>2, <1>3, <1>4, BytesOfIsBytes

LEMMA SingleHasItsBytes ==
  ASSUME NEW b \in Sizes
  PROVE  Single(b) \in [Sizes -> Nat] /\ BytesOf(Single(b)) = b
<1>1. Single(b) \in [Sizes -> Nat] /\ \A x \in Sizes : Single(b)[x] = IF x = b THEN 1 ELSE 0
  BY DEF Single
<1>2. Single(b) \in [Sizes -> Int] /\ b \in Int
  BY <1>1, SizesAreIntegers
<1>3. Bytes(Sizes, Single(b)) = b * 1
  BY <1>1, <1>2, SizesAreFinite, BytesOfSome
<1>. QED
  BY <1>1, <1>2, <1>3, BytesOfIsBytes

-----------------------------------------------------------------------------
(* The accounts *)

\* A count that is right and stays in memory does not wrap around.
LEMMA CountsDoNotWrap ==
  ASSUME AddressesSuffice, NEW n \in 0 .. MaxHeld
  PROVE  n % 2 ^ Width = n
<1>1. 2 ^ Width \in Int
  BY GrainIsPositive
<1> DEFINE w == 2 ^ Width
<1>2. MaxHeld < w
  BY DEF AddressesSuffice
<1> HIDE DEF w
<1>3. n % w = n
  BY <1>1, <1>2, BoundsAreNatural DEF w
<1>. QED
  BY <1>3 DEF w

HeapInv == IInv /\ HeldInBlocks

LEMMA InitHeapInv == HeapInit => HeapInv
<1> SUFFICES ASSUME HeapInit PROVE HeapInv
  OBVIOUS
<1>1. IInv /\ held = 0
  BY InitIInv DEF HeapInit, Init
<1>2. blocks \in [Sizes -> Nat] /\ \A b \in Sizes : blocks[b] = 0
  BY DEF HeapInit
<1>3. BytesOf(blocks) = 0
  <2>1. CASE Sizes = {}
    <3>1. blocks \in [Sizes -> Int]
      BY <1>2
    <3>2. PICK h : Sums(h, blocks, SUBSET Sizes) /\ Bytes(Sizes, blocks) = h[Sizes]
      BY <3>1, SizesAreFinite, BytesOfSums DEF Bytes
    <3>. QED
      BY <2>1, <3>2, BytesOfIsBytes DEF Sums
  <2>2. CASE Sizes # {}
    <3>1. PICK k \in Sizes : TRUE
      BY <2>2
    <3>2. k * 0 = 0 /\ blocks \in [Sizes -> Int]
      BY <1>2, SizesAreIntegers
    <3>3. Bytes(Sizes, blocks) = k * 0
      BY <1>2, <3>2, SizesAreFinite, BytesOfSome
    <3>. QED
      BY <3>2, <3>3, BytesOfIsBytes
  <2>. QED
    BY <2>1, <2>2
<1>. QED
  BY <1>1, <1>2, <1>3 DEF HeapInv, HeldInBlocks

\* Blocks and memory do not change.
LEMMA NothingAllocated ==
  ASSUME HeldInBlocks, blocks' = blocks, held' = held
  PROVE  HeldInBlocks'
  BY DEF HeldInBlocks

\* SQLite's memory and MicroPython's blocks change by the same bytes.
LEMMA NextHeldInBlocks ==
  ASSUME HeapInv, [HeapNext]_<<vars, heap>>
  PROVE  HeldInBlocks'
<1> USE DEF HeapInv
<1>1. CASE StartFails
  <2>1. held' = held
    BY <1>1 DEF StartFails, InitializeFails, memory
  <2>2. blocks' = blocks
    BY <1>1 DEF StartFails, heap, NoBlock
  <2>. QED
    BY <2>1, <2>2, NothingAllocated
<1>2. ASSUME NEW n \in Requests,
             Malloc(n) \/ KeepString(n) \/ OpenDatabase(n) \/ OpenFails(n)
      PROVE  HeldInBlocks'
  <2>1. mpmemMalloc(n) /\ held' = held + Given(n)
    BY <1>2 DEF Malloc, KeepString, OpenDatabase, OpenFails,
                Works, LeavesString, Connect, ConnectFails, Resized
  <2>. QED
    BY <2>1, MallocAddsBytes DEF HeldInBlocks
<1>3. ASSUME NEW n \in Requests, MallocFails(n) PROVE HeldInBlocks'
  BY <1>3, NothingAllocated DEF MallocFails, NoBlock, vars, memory
<1>4. ASSUME NEW b \in Sizes, Free(b) PROVE HeldInBlocks'
  <2>1. mpmemFree(Single(b)) /\ held' = held + (-b) /\ blocks[b] > 0
    BY <1>4 DEF Free, Works, Resized, mpmemSize
  <2>2. \A s \in Sizes : Single(b)[s] <= blocks[s]
    BY <2>1 DEF Single, HeldInBlocks
  <2>3. BytesOf(blocks') = BytesOf(blocks) - b /\ blocks' \in [Sizes -> Nat]
    BY <2>1, <2>2, SingleHasItsBytes, FreeSubtractsBytes
  <2>4. held \in Int /\ b \in Int
    BY SizesAreIntegers DEF IInv, TypeOK
  <2>. QED
    BY <2>1, <2>3, <2>4 DEF HeldInBlocks
<1>5. ASSUME NEW b \in Sizes, NEW n \in Requests, Realloc(b, n) PROVE HeldInBlocks'
  <2>1. /\ mpmemRealloc(b, n) /\ blocks[b] > 0
        /\ held' = held + (Given(n) - mpmemSize(b))
    BY <1>5 DEF Realloc, Works, Resized
  <2>. QED
    BY <2>1, ReallocChangesBytes DEF HeldInBlocks
<1>6. ASSUME NEW b \in Sizes, NEW n \in Requests, ReallocFails(b, n) PROVE HeldInBlocks'
  BY <1>6, NothingAllocated DEF ReallocFails, NoBlock, vars, memory
<1>7. CASE OpenRejected
  <2>1. held' = held
    BY <1>7 DEF OpenRejected, ConnectRejected, memory
  <2>2. blocks' = blocks
    BY <1>7 DEF OpenRejected, heap, NoBlock
  <2>. QED
    BY <2>1, <2>2, NothingAllocated
<1>8. ASSUME NEW freed \in [Sizes -> 0 .. MaxHeld \div Grain], CloseDatabase(freed)
      PROVE  HeldInBlocks'
  <2>1. /\ mpmemFree(freed) /\ held' = held + (-BytesOf(freed))
        /\ \A b \in Sizes : freed[b] <= blocks[b]
        /\ BytesOf(freed) \in Int /\ held \in Int
    BY <1>8 DEF CloseDatabase, CloseConnection, Resized, IInv, TypeOK
  <2>2. freed \in [Sizes -> Nat]
    OBVIOUS
  <2>3. BytesOf(blocks') = BytesOf(blocks) - BytesOf(freed) /\ blocks' \in [Sizes -> Nat]
    BY <2>1, <2>2, FreeSubtractsBytes
  <2>. QED
    BY <2>1, <2>3 DEF HeldInBlocks
<1>9. CASE /\ CloseRefused \/ (\E b \in BOOLEAN : MemStatus(b) \/ MemPeak(b)) \/ MemCurrent
           /\ UNCHANGED heap
  <2>1. held' = held
    BY <1>9 DEF CloseRefused, MemStatus, MemPeak, MemCurrent, memory
  <2>. QED
    BY <1>9, <2>1, NothingAllocated DEF heap
<1>10. CASE UNCHANGED <<vars, heap>>
  BY <1>10, NothingAllocated DEF vars, heap, memory
<1>. QED
  BY <1>1, <1>2, <1>3, <1>4, <1>5, <1>6, <1>7, <1>8, <1>9, <1>10 DEF HeapNext

LEMMA NextHeapInv == HeapInv /\ [HeapNext]_<<vars, heap>> => HeapInv'
  BY HeapStepImplements, NextIInv, NextHeldInBlocks DEF HeapInv

\* mem_current is the memory SQLite really has, to the byte, for every grain of
\* the heap, every size of request and any number of blocks and handles,
\* through every sequence of allocations, changes of size and failures.
THEOREM StatisticsExact == HeapSpec => []StatisticsAreExact
<1>1. HeapInv => StatisticsAreExact
  <2>1. BytesOf(blocks) = Outstanding
    BY DEF BytesOf, Outstanding
  <2>. QED
    BY <2>1 DEF HeapInv, HeldInBlocks, IInv, MemoryIsAccounted, StatisticsAreExact
<1>. QED
  BY InitHeapInv, NextHeapInv, <1>1, PTL DEF HeapSpec

\* A request for whole blocks is given what it asks for.
LEMMA EvenRequests ==
  ASSUME NEW n \in Requests, GcBytes(n) = n
  PROVE  Given(n) = n
  BY DEF Given, mpmemSize

LEMMA InitCountersHold == HeapInit => CountersHold
  BY DEF HeapInit, Init, CountersHold

\* As long as requests are for whole blocks and get them, MicroPython counts
\* what SQLite gets and gives back.
LEMMA NextCountersHold ==
  ASSUME AddressesSuffice, HeapInv, HeapInv', CountersHold, [HeapNext]_<<vars, heap>>
  PROVE  CountersHold'
<1>0. held \in 0 .. MaxHeld /\ held' \in 0 .. MaxHeld
  BY DEF HeapInv, IInv, TypeOK
<1>1. ASSUME NEW n \in Int, MicroPythonCounts(n), held' = held + n, ~uneven
      PROVE  stats' = held'
  BY <1>0, <1>1, CountsDoNotWrap DEF MicroPythonCounts, CountersHold
<1>2. CASE StartFails
  <2>1. held' = held
    BY <1>2 DEF StartFails, InitializeFails, memory
  <2>2. uneven' = TRUE \/ UNCHANGED <<stats, uneven>>
    BY <1>2, Zenon DEF StartFails, heap, NoBlock
  <2>. QED
    BY <2>1, <2>2 DEF CountersHold
<1>3. ASSUME NEW n \in Requests,
             Malloc(n) \/ KeepString(n) \/ OpenDatabase(n) \/ OpenFails(n)
      PROVE  CountersHold'
  <2>1. mpmemMalloc(n) /\ held' = held + Given(n)
    BY <1>3 DEF Malloc, KeepString, OpenDatabase, OpenFails,
                Works, LeavesString, Connect, ConnectFails, Resized
  <2>2. uneven' \in BOOLEAN
    BY <2>1 DEF mpmemMalloc, CountersHold
  <2>3. CASE uneven'
    BY <2>2, <2>3 DEF CountersHold
  <2>4. CASE ~uneven'
    <3>1. ~uneven /\ GcBytes(n) = n
      BY <2>1, <2>4, Zenon DEF mpmemMalloc
    <3>2. MicroPythonCounts(n) /\ n \in Int
      BY <2>1 DEF mpmemMalloc, Requests
    <3>3. stats' = held'
      BY <1>1, <2>1, <3>1, <3>2, EvenRequests
    <3>. QED
      BY <2>2, <3>3 DEF CountersHold
  <2>. QED
    BY <2>2, <2>3, <2>4
<1>4. ASSUME NEW n \in Requests, MallocFails(n) PROVE CountersHold'
  BY <1>4 DEF MallocFails, NoBlock, CountersHold
<1>5. ASSUME NEW b \in Sizes, Free(b) PROVE CountersHold'
  <2>1. mpmemFree(Single(b)) /\ held' = held + (-b) /\ b \in Int /\ -b \in Int
    BY <1>5, SizesAreIntegers DEF Free, Works, Resized, mpmemSize
  <2>2. MicroPythonCounts(-b) /\ uneven' = uneven
    BY <2>1, SingleHasItsBytes DEF mpmemFree
  <2>. QED
    BY <1>1, <2>1, <2>2 DEF CountersHold
<1>6. ASSUME NEW b \in Sizes, NEW n \in Requests, Realloc(b, n) PROVE CountersHold'
  <2>1. mpmemRealloc(b, n) /\ held' = held + (Given(n) - b) /\ b \in Int
    BY <1>6, SizesAreIntegers DEF Realloc, Works, Resized, mpmemSize
  <2>2. uneven' \in BOOLEAN
    BY <2>1 DEF mpmemRealloc, CountersHold
  <2>3. CASE uneven'
    BY <2>2, <2>3 DEF CountersHold
  <2>4. CASE ~uneven'
    <3>1. ~uneven /\ GcBytes(n) = n
      BY <2>1, <2>4, Zenon DEF mpmemRealloc
    <3>2. MicroPythonCounts(n - b) /\ n - b \in Int
      BY <2>1 DEF mpmemRealloc, Requests
    <3>3. stats' = held'
      BY <1>1, <2>1, <3>1, <3>2, EvenRequests
    <3>. QED
      BY <2>2, <3>3 DEF CountersHold
  <2>. QED
    BY <2>2, <2>3, <2>4
<1>7. ASSUME NEW b \in Sizes, NEW n \in Requests, ReallocFails(b, n) PROVE CountersHold'
  BY <1>7 DEF ReallocFails, NoBlock, CountersHold
<1>8. CASE OpenRejected
  <2>1. held' = held
    BY <1>8 DEF OpenRejected, ConnectRejected, memory
  <2>2. uneven' = TRUE \/ UNCHANGED <<stats, uneven>>
    BY <1>8, Zenon DEF OpenRejected, heap, NoBlock
  <2>. QED
    BY <2>1, <2>2 DEF CountersHold
<1>9. ASSUME NEW freed, CloseDatabase(freed) PROVE CountersHold'
  <2>1. /\ mpmemFree(freed) /\ held' = held + (-BytesOf(freed))
        /\ BytesOf(freed) \in Int /\ -BytesOf(freed) \in Int
    BY <1>0, <1>9 DEF CloseDatabase, CloseConnection, Resized
  <2>2. MicroPythonCounts(-BytesOf(freed)) /\ uneven' = uneven
    BY <2>1 DEF mpmemFree
  <2>. QED
    BY <1>1, <2>1, <2>2 DEF CountersHold
<1>10. CASE /\ CloseRefused \/ (\E b \in BOOLEAN : MemStatus(b) \/ MemPeak(b)) \/ MemCurrent
            /\ UNCHANGED heap
  <2>1. held' = held
    BY <1>10 DEF CloseRefused, MemStatus, MemPeak, MemCurrent, memory
  <2>. QED
    BY <1>10, <2>1 DEF heap, CountersHold
<1>11. CASE UNCHANGED <<vars, heap>>
  BY <1>11 DEF vars, heap, memory, CountersHold
<1>. QED
  BY <1>2, <1>3, <1>4, <1>5, <1>6, <1>7, <1>8, <1>9, <1>10, <1>11 DEF HeapNext

\* MicroPython's counters agree with SQLite's memory for as long as every
\* request is for whole blocks and gets them, and no count wraps around, on
\* every machine whose memory has addresses of Width bits.
THEOREM CountersAgree ==
  ASSUME AddressesSuffice
  PROVE  HeapSpec => []CountersAgreeUntilUneven
<1>1. HeapInv /\ CountersHold /\ [HeapNext]_<<vars, heap>> => HeapInv' /\ CountersHold'
  BY NextHeapInv, NextCountersHold
<1>2. CountersHold => CountersAgreeUntilUneven
  BY DEF CountersHold, CountersAgreeUntilUneven
<1>. QED
  BY InitHeapInv, InitCountersHold, <1>1, <1>2, PTL DEF HeapSpec
=============================================================================
