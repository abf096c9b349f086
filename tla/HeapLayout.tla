----------------------------- MODULE HeapLayout -----------------------------
(* memory_init, src/src/arch/i386/memory.c lines 20-50: where the allocator *)
(* puts its table and its heap, given how much memory the boot loader       *)
(* reports.  The numbers are the real ones, in KiB; sizes in bytes are      *)
(* size_t, so they wrap at 2^32 bytes, which is 2^22 KiB.                   *)
EXTENDS Integers, TLAPS

CONSTANTS
  MemUpper   \* the values of mboot->mem_upper considered, KiB above 1 MiB

Word == 4194304                \* 2^22 KiB
TableStart == 16384            \* 0x01000000
MemoryMin == 16384 + 4 * 1024  \* memory_min
LowMemory == 1024              \* mem_upper counts from 1 MiB on
BlocksPerKiB == 8              \* 1024 / block_size
EntriesPerKiB == 256           \* 1024 / sizeof(memory_block_entry_t)

ASSUME LayoutAssumption == \A u \in MemUpper : u \in Nat /\ u < Word

VARIABLES
  mem_upper,   \* what the boot loader reports
  memory_sz,   \* blocks in the heap, 0 before memory_init
  cleared,     \* KiB of the table cleared so far
  ready        \* memory_init has returned

layoutVars == <<mem_upper, memory_sz, cleared, ready>>

LayoutInit ==
  /\ mem_upper \in MemUpper
  /\ memory_sz = 0 /\ cleared = 0 /\ ready = FALSE

(* The slip corrected: from the heap's own start.                           *)
WantedAboveTable == BlocksPerKiB * ((mem_upper - 1024 * 19) % Word)

(* Lines 23-26: the blocks that fit above 16 MiB, by mem_upper alone.       *)
Wanted == BlocksPerKiB * ((mem_upper - 1024 * 15) % Word)

(* The slip sz / 2 for sz / sizeof(memory_block_entry_t).                   *)
RoomOfHalfEntries == 2 * EntriesPerKiB * (MemoryMin - TableStart)

(* Lines 28-39: the table has room for 4 MiB of entries.                    *)
Room == EntriesPerKiB * (MemoryMin - TableStart)

Size ==
  /\ memory_sz = 0 /\ ~ready
  /\ memory_sz' = IF Wanted > Room THEN Room ELSE Wanted
  /\ UNCHANGED <<mem_upper, cleared, ready>>

TableKiB == (memory_sz + EntriesPerKiB - 1) \div EntriesPerKiB

(* Lines 41-47, up to a MiB of the table at a time.                         *)
Clear ==
  /\ memory_sz > 0 /\ cleared < TableKiB
  /\ cleared' = IF cleared + 1024 < TableKiB THEN cleared + 1024 ELSE TableKiB
  /\ UNCHANGED <<mem_upper, memory_sz, ready>>

LayoutReady ==
  /\ ~ready /\ (memory_sz > 0 \/ Wanted = 0) /\ cleared = TableKiB
  /\ ready' = TRUE
  /\ UNCHANGED <<mem_upper, memory_sz, cleared>>

LayoutNext == Size \/ Clear \/ LayoutReady

LayoutSpec == LayoutInit /\ [][LayoutNext]_layoutVars

-----------------------------------------------------------------------------
HeapEnd == MemoryMin + memory_sz \div BlocksPerKiB
RamEnd == LowMemory + mem_upper

(* The table never reaches into the heap it describes: clearing it cannot   *)
(* destroy a block, and every block has its entry ("Reduce memory size for  *)
(* where we can have enough meminfo", line 35), whatever the boot loader    *)
(* reports, the reports below 15 MiB that make the size wrap included.      *)
TableBelowHeap == TableStart + cleared <= MemoryMin /\ TableStart + TableKiB <= MemoryMin

(* The 4 MiB of the table are not taken off the heap's size (memory.c:22),  *)
(* so the end of the heap lies above the end of memory, by those 4 MiB, on  *)
(* every machine with less memory than the table can describe; on the 128   *)
(* MiB machine of line 7 too.  It is inside memory from 147 MiB above the   *)
(* first on, and on no smaller machine.                                     *)
HeapPastRam ==
  ready /\ memory_sz > 0 =>
    /\ HeapEnd <= RamEnd <=> RamEnd >= MemoryMin + Room \div BlocksPerKiB
    /\ HeapEnd > RamEnd /\ mem_upper >= 1024 * 15 => HeapEnd - RamEnd <= MemoryMin - TableStart

-----------------------------------------------------------------------------
(* The ranges the proof needs.                                                    *)
Bounds ==
  /\ mem_upper \in Nat /\ mem_upper < Word
  /\ memory_sz \in Nat /\ memory_sz <= Room
  /\ cleared \in Nat /\ cleared <= MemoryMin - TableStart

(* A table of at most Room entries takes at most the 4 MiB below the heap.  *)
LEMMA TableFits ==
  ASSUME NEW n \in Nat, n <= Room
  PROVE  /\ (n + EntriesPerKiB - 1) \div EntriesPerKiB \in Nat
         /\ (n + EntriesPerKiB - 1) \div EntriesPerKiB <= MemoryMin - TableStart
<1>1. n + 255 \in Nat /\ n + 255 <= 1048831
  BY SMT DEF Room, MemoryMin, TableStart, EntriesPerKiB
<1>2. (n + 255) \div 256 \in Nat /\ (n + 255) \div 256 <= 4096
  BY <1>1, SMT
<1>3. n + 256 - 1 = n + 255
  BY SMT
<1> QED
  BY <1>2, <1>3, SMT DEF MemoryMin, TableStart, EntriesPerKiB

LEMMA Shift ==
  ASSUME NEW m \in Int, NEW t \in Int, NEW c \in Nat, c <= m - t
  PROVE  t + c <= m
BY SMT

LEMMA LayoutStarts == LayoutInit => Bounds /\ TableBelowHeap
<1> SUFFICES ASSUME LayoutInit PROVE Bounds /\ TableBelowHeap
  OBVIOUS
<1>1. Bounds
  BY LayoutAssumption, SMT DEF LayoutInit, Bounds, Room, MemoryMin, TableStart, EntriesPerKiB
<1>2. TableKiB \in Nat /\ TableKiB <= MemoryMin - TableStart
  BY <1>1, TableFits, SMT DEF Bounds, TableKiB
<1> QED
  BY <1>1, <1>2, SMT DEF LayoutInit, TableBelowHeap, MemoryMin, TableStart

LEMMA LayoutSteps == Bounds /\ [LayoutNext]_layoutVars => (Bounds /\ TableBelowHeap)'
<1> SUFFICES ASSUME Bounds, [LayoutNext]_layoutVars PROVE (Bounds /\ TableBelowHeap)'
  OBVIOUS
<1>1. TableKiB \in Nat /\ TableKiB <= MemoryMin - TableStart
  BY TableFits, SMT DEF Bounds, TableKiB
<1>2. Bounds'
  <2>1. CASE Size
    <3>1. Wanted \in Nat /\ Room \in Nat
      BY SMT DEF Wanted, BlocksPerKiB, Bounds, Room, MemoryMin, TableStart, EntriesPerKiB, Word
    <3> QED
      BY <2>1, <3>1, SMT DEF Size, Bounds
  <2>2. CASE Clear
    BY <1>1, <2>2, SMT DEF Clear, Bounds, MemoryMin, TableStart
  <2>3. CASE LayoutReady
    BY <2>3, SMT DEF LayoutReady, Bounds
  <2>4. CASE UNCHANGED layoutVars
    BY <2>4, SMT DEF layoutVars, Bounds
  <2> QED
    BY <2>1, <2>2, <2>3, <2>4 DEF LayoutNext
<1>3. PICK k \in Nat : /\ k = (memory_sz' + EntriesPerKiB - 1) \div EntriesPerKiB
                       /\ k <= MemoryMin - TableStart
  BY <1>2, TableFits, SMT DEF Bounds
<1>4. TableStart + cleared' <= MemoryMin
  <2>1. cleared' \in Nat /\ cleared' <= MemoryMin - TableStart
    BY <1>2 DEF Bounds
  <2>2. MemoryMin \in Int /\ TableStart \in Int
    BY SMT DEF MemoryMin, TableStart
  <2> QED
    BY <2>1, <2>2, Shift, Zenon
<1>5. TableStart + k <= MemoryMin
  BY <1>3, SMT DEF MemoryMin, TableStart
<1>6. TableKiB' = k
  BY <1>3 DEF TableKiB
<1> QED
  BY <1>2, <1>4, <1>5, <1>6 DEF TableBelowHeap

(* Whatever memory size the boot loader reports, the table of owning        *)
(* pointers and the writes that clear it stay below the heap.               *)
THEOREM TableStaysBelowHeap == LayoutSpec => []TableBelowHeap
BY LayoutStarts, LayoutSteps, PTL DEF LayoutSpec

-----------------------------------------------------------------------------
(* The size, once it is chosen, is the wrapped difference cut off at Room.   *)
Sized == memory_sz # 0 => memory_sz = IF Wanted > Room THEN Room ELSE Wanted

(* The wrapped difference: below 15 MiB it is far more than the table can    *)
(* describe, above it is the plain one.                                      *)
LEMMA WrappedSize ==
  ASSUME NEW u \in Nat, u < Word
  PROVE  /\ u < 15360 => ((u - 15360) % Word) > 131072
         /\ u >= 15360 => ((u - 15360) % Word) = u - 15360
<1>1. PICK a \in Int : a = u - 15360
  BY SMT
<1>2. a < 4178944 /\ a >= -15360
  BY <1>1, SMT DEF Word
<1>3. CASE a < 0
  <2>1. (a % 4194304) = a + 4194304
    BY <1>2, <1>3, SMT
  <2> QED
    BY <1>1, <1>2, <1>3, <2>1, SMT DEF Word
<1>4. CASE a >= 0
  <2>1. (a % 4194304) = a
    BY <1>2, <1>4, SMT
  <2> QED
    BY <1>1, <1>4, <2>1, SMT DEF Word
<1> QED
  BY <1>3, <1>4, SMT

LEMMA SizedPastRam == Bounds /\ Sized => HeapPastRam
<1> SUFFICES ASSUME Bounds, Sized, ready, memory_sz > 0 PROVE HeapPastRam
  BY DEF HeapPastRam
<1> DEFINE d == (mem_upper - 15360) % Word
<1>1. /\ mem_upper \in Nat /\ mem_upper < Word /\ memory_sz \in Nat
      /\ mem_upper < 15360 => d > 131072
      /\ mem_upper >= 15360 => d = mem_upper - 15360
  BY WrappedSize DEF Bounds
<1>2. d \in Nat
  BY <1>1, SMT DEF Word
<1>3. Wanted = 8 * d /\ Room = 1048576
  BY SMT DEF Wanted, BlocksPerKiB, Room, EntriesPerKiB, MemoryMin, TableStart
<1>4. memory_sz = IF 8 * d > 1048576 THEN 1048576 ELSE 8 * d
  BY <1>1, <1>3, SMT DEF Sized
<1> HIDE DEF d
<1>5. HeapEnd = 20480 + (IF d > 131072 THEN 131072 ELSE d)
  <2>1. CASE d > 131072
    BY <1>2, <1>4, <2>1, SMT DEF HeapEnd, MemoryMin, BlocksPerKiB
  <2>2. CASE ~(d > 131072)
    <3>1. memory_sz = 8 * d
      BY <1>2, <1>4, <2>2, SMT
    <3>2. (8 * d) \div 8 = d
      BY <1>2, SMT
    <3> QED
      BY <1>2, <2>2, <3>1, <3>2, SMT DEF HeapEnd, MemoryMin, BlocksPerKiB
  <2> QED
    BY <2>1, <2>2
<1>6. RamEnd = 1024 + mem_upper /\ Room \div BlocksPerKiB = 131072
  BY <1>3, SMT DEF RamEnd, LowMemory, BlocksPerKiB
<1> QED
  BY <1>1, <1>2, <1>5, <1>6, SMT DEF HeapPastRam, MemoryMin, TableStart

LEMMA SizedKept == Bounds /\ Sized /\ [LayoutNext]_layoutVars => Sized'
<1> SUFFICES ASSUME Bounds, Sized, [LayoutNext]_layoutVars PROVE Sized'
  OBVIOUS
<1>1. CASE Size
  BY <1>1, SMT DEF Size, Sized, Wanted
<1>2. CASE Clear \/ LayoutReady \/ UNCHANGED layoutVars
  BY <1>2 DEF Clear, LayoutReady, layoutVars, Sized, Wanted
<1> QED
  BY <1>1, <1>2 DEF LayoutNext

(* On every machine, whatever it reports, the heap lies past the end of      *)
(* memory just when memory ends below 148 MiB, and by at most the 4 MiB of   *)
(* the table where the size does not wrap.                                   *)
THEOREM HeapEndsPastRam == LayoutSpec => []HeapPastRam
<1>1. LayoutInit => Bounds /\ Sized
  BY LayoutStarts DEF LayoutInit, Sized
<1>2. Bounds /\ Sized /\ [LayoutNext]_layoutVars => (Bounds /\ Sized)'
  BY LayoutSteps, SizedKept
<1> QED
  BY <1>1, <1>2, SizedPastRam, PTL DEF LayoutSpec
=============================================================================
