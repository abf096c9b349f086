-------------------------------- MODULE Heap --------------------------------
(* The kernel's block allocator, src/src/arch/i386/memory.c.                *)
(*                                                                          *)
(* The heap is memory_sz blocks of block_size bytes.  memmap has one entry  *)
(* per block: NULL, or the start pointer of the allocation the block        *)
(* belongs to, so an allocation is a run of entries that hold the pointer   *)
(* to the first of them.  A pointer memory_min + i * block_size is written  *)
(* here as the block number i.                                              *)
(*                                                                          *)
(* The clients (in practice the Lua state, through l_alloc of lauxlib.c)    *)
(* are single-threaded: no interrupt handler calls the allocator, so one    *)
(* call is one step.  Each Owner holds at most one allocation at a time and *)
(* only passes pointers it was given; it fills the blocks it is given.      *)
EXTENDS Integers, FiniteSets

CONSTANTS
  Owner,        \* the places that can hold a pointer to an allocation
  MemorySz,     \* memory_sz: blocks in the heap
  BlockSize,    \* block_size
  MaxRequest,   \* bound: largest request, in bytes
  NULL

ASSUME HeapAssumption ==
  /\ MemorySz \in Nat
  /\ BlockSize \in Nat \ {0}
  /\ MaxRequest \in Nat
  /\ NULL \notin Nat

Block == 0 .. MemorySz - 1
Request == 0 .. MaxRequest
Count == 0 .. 2             \* bound: calloc's number

(* How a call ends: a refusal remembers how many blocks could not be had.   *)
Outcome == [end : {"done", "granted", "refused"}, blocks : Nat]
Done == [end |-> "done", blocks |-> 0]
Granted == [end |-> "granted", blocks |-> 0]
Refused(n) == [end |-> "refused", blocks |-> n]

VARIABLES
  memmap,    \* [Block -> Block \cup {NULL}], the table of owning pointers
  data,      \* what each block contains: the owner and index it was filled for
  ptr,       \* the pointer each owner holds, NULL for none
  len,       \* how many blocks each owner believes it holds
  outcome,   \* how the last call ended for its caller
  clobbered  \* a word outside the table and the heap has been written

vars == <<memmap, data, ptr, len, outcome, clobbered>>

-----------------------------------------------------------------------------
(* The pieces of the C functions.                                           *)

BlocksFor(sz) == sz \div BlockSize + (IF sz % BlockSize # 0 THEN 1 ELSE 0)

Extent(p, n) == p .. p + n - 1

Free(p, n) == Extent(p, n) \subseteq Block /\ \A i \in Extent(p, n) : memmap[i] = NULL

(* Two slips in the bound of the scan: one entry too many, one too few.      *)
FitsPastEnd(n) == {p \in 0 .. MemorySz : \A i \in Extent(p, n) \cap Block : memmap[i] = NULL}
FitsShort(n) == {p \in Block : p + n < MemorySz /\ Free(p, n)}

(* malloc's scan stops at the lowest start that has n free blocks; that the *)
(* loop of lines 61-83 computes this is what MallocScan shows.              *)
Fits(n) == {p \in Block : Free(p, n)}

(* The slip sp = p for sp = p + 1 after an entry in use.                    *)
FirstFitStale(n) ==
  {IF p = 0 THEN 0 ELSE p - 1 : p \in {r \in Fits(n) : \A q \in Fits(n) : r <= q}}
FirstFit(n) == {p \in Fits(n) : \A q \in Fits(n) : p <= q}

(* The run realloc and free walk: the entries from p on that hold p.        *)
IsRun(p, os) ==
  /\ Extent(p, os) \subseteq Block
  /\ \A i \in Extent(p, os) : memmap[i] = p
  /\ p + os \in Block => memmap[p + os] # p

SetEntries(p, n, v) == [i \in Block |-> IF i \in Extent(p, n) THEN v ELSE memmap[i]]

(* The client fills blocks k = from .. n-1 of the n blocks it holds at p.   *)
Filled(d, o, p, from, n) ==
  [i \in Block |-> IF i \in Extent(p + from, n - from) THEN <<o, i - p>> ELSE d[i]]

(* The slip memcpy(p, np, ...).                                             *)
CopiedBackwards(np, p, n) ==
  [i \in Block |-> IF i \notin Extent(p, n) THEN data[i]
                   ELSE IF np + (i - p) \in Block THEN data[np + (i - p)] ELSE NULL]

(* memcpy(np, p, n * block_size); past the heap's end it reads anything.    *)
Copied(np, p, n) ==
  [i \in Block |-> IF i \notin Extent(np, n) THEN data[i]
                   ELSE IF p + (i - np) \in Block THEN data[p + (i - np)] ELSE NULL]

-----------------------------------------------------------------------------
Init ==
  /\ memmap = [i \in Block |-> NULL]
  /\ data = [i \in Block |-> NULL]
  /\ ptr = [o \in Owner |-> NULL]
  /\ len = [o \in Owner |-> 0]
  /\ outcome = Done
  /\ clobbered = FALSE

(* malloc, for a caller that holds nothing.                                 *)
Grant(o, n) ==
  \E p \in FirstFit(n) :
    /\ memmap' = SetEntries(p, n, p)
    /\ data' = Filled(data, o, p, 0, n)
    /\ ptr' = [ptr EXCEPT ![o] = p]
    /\ len' = [len EXCEPT ![o] = n]
    /\ outcome' = Granted
    /\ UNCHANGED clobbered

Refuse(n) ==
  /\ outcome' = Refused(n)
  /\ UNCHANGED <<memmap, data, ptr, len, clobbered>>

Malloc(o, sz) ==
  /\ ptr[o] = NULL
  /\ \/ sz > 0 /\ Grant(o, BlocksFor(sz))
     \/ sz > 0 /\ Fits(BlocksFor(sz)) = {} /\ Refuse(BlocksFor(sz))

(* malloc(0) and realloc(NULL, 0) return NULL and free(NULL) does nothing.  *)
Nothing(o) ==
  /\ ptr[o] = NULL
  /\ outcome' = Done
  /\ UNCHANGED <<memmap, data, ptr, len, clobbered>>

(* calloc does not clear the block; callers whose product wraps are left    *)
(* out (nothing in the kernel calls it).                                    *)
Calloc(o, number, size) ==
  /\ number * size <= MaxRequest
  /\ Malloc(o, number * size)

Forget(o) ==
  /\ ptr' = [ptr EXCEPT ![o] = NULL]
  /\ len' = [len EXCEPT ![o] = 0]

(* The slip of a loop that stops one entry early.                           *)
ReleaseOneShort(o) ==
  /\ ptr[o] # NULL
  /\ \E os \in 0 .. MemorySz : IsRun(ptr[o], os) /\ memmap' = SetEntries(ptr[o], os - 1, NULL)
  /\ Forget(o)
  /\ outcome' = Done
  /\ UNCHANGED <<data, clobbered>>

(* free(p), and realloc(p, 0).                                              *)
Release(o) ==
  /\ ptr[o] # NULL
  /\ \E os \in 0 .. MemorySz : IsRun(ptr[o], os) /\ memmap' = SetEntries(ptr[o], os, NULL)
  /\ Forget(o)
  /\ outcome' = Done
  /\ UNCHANGED <<data, clobbered>>

(* realloc, for a caller that holds ptr[o]: the five ways it can go, told   *)
(* apart by the length os of the run and the length ns asked for.           *)
Same(o, os, ns) ==
  /\ os = ns
  /\ len' = [len EXCEPT ![o] = ns]
  /\ data' = Filled(data, o, ptr[o], len[o], ns)
  /\ outcome' = Granted
  /\ UNCHANGED <<memmap, ptr, clobbered>>

(* Lines 129-138.  The loop increments o before it clears memmap[o], and    *)
(* then finds that entry no longer equal to ptr: exactly one entry is       *)
(* cleared, number off + os - ns + 1, wherever that lies.                   *)
Shrink(o, os, ns) ==
  LET cleared == ptr[o] + os - ns + 1 IN
  /\ os > ns
  /\ memmap' = IF cleared \in Block THEN [memmap EXCEPT ![cleared] = NULL] ELSE memmap
  /\ clobbered' = (clobbered \/ cleared \notin Block)
  /\ len' = [len EXCEPT ![o] = ns]
  /\ outcome' = Granted
  /\ UNCHANGED <<data, ptr>>

CanExtend(p, os, ns) == Free(p + os, ns - os)

Extend(o, os, ns) ==
  /\ os < ns /\ CanExtend(ptr[o], os, ns)
  /\ memmap' = SetEntries(ptr[o] + os, ns - os, ptr[o])
  /\ data' = Filled(data, o, ptr[o], len[o], ns)
  /\ len' = [len EXCEPT ![o] = ns]
  /\ outcome' = Granted
  /\ UNCHANGED <<ptr, clobbered>>

(* malloc for the new place, memcpy, then free of the old one.              *)
Move(o, os, ns) ==
  /\ os < ns /\ ~CanExtend(ptr[o], os, ns)
  /\ \E np \in FirstFit(ns) :
       /\ memmap' = [i \in Block |-> IF i \in Extent(np, ns) THEN np
                                     ELSE IF i \in Extent(ptr[o], os) THEN NULL
                                     ELSE memmap[i]]
       /\ data' = Filled(Copied(np, ptr[o], ns), o, np, len[o], ns)
       /\ ptr' = [ptr EXCEPT ![o] = np]
  /\ len' = [len EXCEPT ![o] = ns]
  /\ outcome' = Granted
  /\ UNCHANGED clobbered

(* malloc returned NULL: memcpy writes through it, the old block is freed   *)
(* all the same and NULL is returned.  The caller keeps its pointer, as     *)
(* luaM_realloc_ does when it collects garbage and tries again.             *)
Fail(o, os, ns) ==
  /\ os < ns /\ ~CanExtend(ptr[o], os, ns) /\ Fits(ns) = {}
  /\ memmap' = SetEntries(ptr[o], os, NULL)
  /\ clobbered' = TRUE
  /\ outcome' = Refused(ns)
  /\ UNCHANGED <<data, ptr, len>>

ReallocTame(o, sz) ==
  /\ ptr[o] # NULL /\ sz > 0
  /\ \E os \in 0 .. MemorySz :
       /\ IsRun(ptr[o], os)
       /\ \/ Same(o, os, BlocksFor(sz))
          \/ Extend(o, os, BlocksFor(sz))
          \/ Move(o, os, BlocksFor(sz))

ReallocShrink(o, sz) ==
  /\ ptr[o] # NULL /\ sz > 0
  /\ \E os \in 0 .. MemorySz : IsRun(ptr[o], os) /\ Shrink(o, os, BlocksFor(sz))

ReallocFail(o, sz) ==
  /\ ptr[o] # NULL /\ sz > 0
  /\ \E os \in 0 .. MemorySz : IsRun(ptr[o], os) /\ Fail(o, os, BlocksFor(sz))

-----------------------------------------------------------------------------
(* Every call but a realloc that shrinks a block or finds no room for it.   *)
TameNext ==
  \E o \in Owner :
    \/ \E sz \in Request : Malloc(o, sz)
    \/ \E number \in Count, size \in Request : Calloc(o, number, size)
    \/ Nothing(o)
    \/ Release(o)
    \/ \E sz \in Request : ReallocTame(o, sz)

Next ==
  \/ TameNext
  \/ \E o \in Owner, sz \in Request : ReallocShrink(o, sz) \/ ReallocFail(o, sz)

TameSpec == Init /\ [][TameNext]_vars
Spec == Init /\ [][Next]_vars

(* memory_used, in bytes.                                                   *)
MemoryUsed == BlockSize * Cardinality({i \in Block : memmap[i] # NULL})

-----------------------------------------------------------------------------
(* What must hold.                                                          *)

Held(o) == IF ptr[o] = NULL THEN {} ELSE Extent(ptr[o], len[o])

(* The shapes of the allocator's table and of its clients' pointers.        *)
TypeOK ==
  /\ memmap \in [Block -> Block \cup {NULL}]
  /\ data \in [Block -> (Owner \X Nat) \cup {NULL}]
  /\ ptr \in [Owner -> Block \cup {NULL}]
  /\ len \in [Owner -> Nat]
  /\ outcome \in Outcome
  /\ clobbered \in BOOLEAN

(* The table is exact: entry i holds p just when some owner was given p and *)
(* block i is among the blocks it was given.  Nothing leaks and nothing in  *)
(* use is marked free, whatever mix of malloc, calloc, realloc and free     *)
(* led here.                                                                *)
Exact ==
  \A i, p \in Block :
    memmap[i] = p <=> \E o \in Owner : ptr[o] = p /\ i \in Held(o)

(* Two owners never hold the same block, and what they hold is in the heap. *)
NoOverlap ==
  /\ \A o \in Owner : Held(o) \subseteq Block
  /\ \A o, q \in Owner : o # q => Held(o) \cap Held(q) = {}

(* Every owner finds in its blocks what it put there: no call of another    *)
(* owner writes them, and a realloc that moves a block carries it along.    *)
Contents ==
  \A o \in Owner : \A i \in Held(o) : data[i] = <<o, i - ptr[o]>>

(* Whatever calls were made, an entry never holds a pointer above itself:   *)
(* free and realloc walk upwards from the pointer, so an entry below it     *)
(* would stay marked for ever.                                              *)
TagsPointBack == \A i \in Block : memmap[i] # NULL => memmap[i] \in 0 .. i

(* A realloc that makes an allocation smaller touches no table entry but    *)
(* those of the blocks it gives back (lmem.c and the manual expect the      *)
(* allocator to behave like realloc, lines 129-138 do not).                 *)
Shrinks(o) == ptr[o] # NULL /\ ptr'[o] = ptr[o] /\ len'[o] < len[o]

ShrinkIsLocal ==
  [][\A o \in Owner : Shrinks(o) =>
       \A i \in Block \ Extent(ptr[o] + len'[o], len[o] - len'[o]) : memmap'[i] = memmap[i]]_vars

(* A call that returns NULL for want of room has changed nothing: the       *)
(* caller still has what it had, and luaM_realloc_ relies on it to retry.   *)
RefusalIsHarmless ==
  [][outcome'.end = "refused" => UNCHANGED <<memmap, data, clobbered>>]_vars

(* The table implements the promise of HeapAbstract, which knows only what  *)
(* the owners hold: in particular a tame call is refused only when the free *)
(* blocks have no hole of the length asked for.                             *)
Abstract == INSTANCE HeapAbstract
              WITH ptr <- ptr, len <- len, outcome <- outcome,
                   Owner <- Owner, MemorySz <- MemorySz, NULL <- NULL
Implements == Abstract!Spec
=============================================================================
