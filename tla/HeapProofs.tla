----------------------------- MODULE HeapProofs -----------------------------
(* Proofs about the block allocator for every heap size, block size, set of *)
(* owners and bound on the requests.                                        *)
EXTENDS Heap, TLAPS

(* A request of sz bytes gets at least one block when sz is positive: the   *)
(* rounding of lines 57-59 and 113-115.                                     *)
LEMMA BlocksForType ==
  ASSUME NEW sz \in Nat
  PROVE  /\ BlocksFor(sz) \in Nat
         /\ sz > 0 => BlocksFor(sz) > 0
<1>1. /\ sz = BlockSize * (sz \div BlockSize) + (sz % BlockSize)
      /\ sz % BlockSize \in 0 .. BlockSize - 1
      /\ sz \div BlockSize \in Int
  BY HeapAssumption
<1>2. sz \div BlockSize >= 0
  BY <1>1, HeapAssumption
<1>3. sz \div BlockSize = 0 => sz = sz % BlockSize
  BY <1>1, HeapAssumption
<1> QED
  BY <1>1, <1>2, <1>3 DEF BlocksFor

-----------------------------------------------------------------------------
(* How calls end.                                                            *)
LEMMA Outcomes == Done \in Outcome /\ Granted \in Outcome /\ \A n \in Nat : Refused(n) \in Outcome
BY DEF Done, Granted, Refused, Outcome

-----------------------------------------------------------------------------
(* The inductive invariant of the tame calls.  Exact and NoOverlap need each *)
(* other (a run of equal entries is one owner's only because extents are     *)
(* disjoint and not empty), and Contents needs both.                         *)
Sizes == \A o \in Owner : IF ptr[o] = NULL THEN len[o] = 0 ELSE len[o] \in 1 .. MemorySz

IInv == TypeOK /\ Sizes /\ NoOverlap /\ Exact /\ Contents

(* What the invariant says of one owner that holds something: no other owner *)
(* has its pointer, and its entries in the table are its extent.             *)
LEMMA Owning ==
  ASSUME IInv, NEW o \in Owner, ptr[o] # NULL
  PROVE  /\ ptr[o] \in Block /\ len[o] \in 1 .. MemorySz
         /\ Held(o) = Extent(ptr[o], len[o]) /\ Held(o) \subseteq Block
         /\ \A q \in Owner \ {o} : ptr[q] # ptr[o]
         /\ \A i \in Block : memmap[i] = ptr[o] <=> i \in Held(o)
<1>1. /\ ptr[o] \in Block /\ len[o] \in 1 .. MemorySz
      /\ Held(o) = Extent(ptr[o], len[o]) /\ Held(o) \subseteq Block
  BY DEF IInv, TypeOK, Sizes, NoOverlap, Held
<1>2. ptr[o] \in Held(o)
  BY <1>1, HeapAssumption DEF Extent, Block
<1>3. ASSUME NEW q \in Owner \ {o}, ptr[q] = ptr[o] PROVE FALSE
  <2>1. len[q] \in 1 .. MemorySz /\ Held(q) = Extent(ptr[q], len[q])
    BY <1>3 DEF IInv, Sizes, Held
  <2>2. ptr[q] \in Held(q)
    BY <2>1, <1>1, <1>3, HeapAssumption DEF Extent, Block
  <2> QED
    BY <2>2, <1>2, <1>3 DEF IInv, NoOverlap
<1>4. ASSUME NEW i \in Block PROVE memmap[i] = ptr[o] <=> i \in Held(o)
  BY <1>1, <1>3 DEF IInv, Exact
<1> QED
  BY <1>1, <1>3, <1>4

(* The run that free and realloc measure is exactly what the owner holds.    *)
LEMMA RunIsExtent ==
  ASSUME IInv, NEW o \in Owner, ptr[o] # NULL,
         NEW os \in 0 .. MemorySz, IsRun(ptr[o], os)
  PROVE  os = len[o]
<1> DEFINE p == ptr[o]
<1>1. /\ p \in Block /\ len[o] \in 1 .. MemorySz
      /\ Held(o) = Extent(p, len[o]) /\ Held(o) \subseteq Block
      /\ \A i \in Block : memmap[i] = p <=> i \in Held(o)
  BY Owning
<1>2. /\ Extent(p, os) \subseteq Block
      /\ \A i \in Extent(p, os) : memmap[i] = p
      /\ p + os \in Block => memmap[p + os] # p
  BY DEF IsRun
<1>3. ASSUME os < len[o] PROVE FALSE
  <2>1. p + os \in Held(o)
    BY <1>1, <1>3, HeapAssumption DEF Extent, Block
  <2> QED
    BY <2>1, <1>1, <1>2
<1>4. ASSUME os > len[o] PROVE FALSE
  <2>1. p + len[o] \in Extent(p, os)
    BY <1>1, <1>4, HeapAssumption DEF Extent, Block
  <2>2. p + len[o] \in Held(o)
    BY <2>1, <1>1, <1>2
  <2> QED
    BY <2>2, <1>1, HeapAssumption DEF Extent, Block
<1> QED
  BY <1>1, <1>3, <1>4, HeapAssumption

(* An extent of free entries is disjoint from what everyone holds.           *)
LEMMA FreeIsUnheld ==
  ASSUME IInv, NEW p \in Int, NEW n \in Nat, Free(p, n), NEW q \in Owner
  PROVE  Extent(p, n) \cap Held(q) = {}
<1>1. CASE ptr[q] = NULL
  BY <1>1 DEF Held
<1>2. CASE ptr[q] # NULL
  <2>1. \A i \in Block : memmap[i] = ptr[q] <=> i \in Held(q)
    BY <1>2, Owning
  <2> QED
    BY <2>1, <1>2 DEF Free
<1> QED
  BY <1>1, <1>2

(* malloc, and realloc when it keeps, extends or moves, all come to this:    *)
(* owner o ends with an extent nobody else holds, the table says so, and     *)
(* nothing else has changed.                                                 *)
LEMMA Resized ==
  ASSUME IInv, NEW o \in Owner, NEW p \in Block, NEW n \in 1 .. MemorySz,
         Extent(p, n) \subseteq Block,
         \A q \in Owner \ {o} : Extent(p, n) \cap Held(q) = {},
         memmap' = [i \in Block |-> IF i \in Extent(p, n) THEN p
                                    ELSE IF i \in Held(o) THEN NULL ELSE memmap[i]],
         ptr' = [ptr EXCEPT ![o] = p],
         len' = [len EXCEPT ![o] = n],
         data' \in [Block -> (Owner \X Nat) \cup {NULL}],
         \A i \in Extent(p, n) : data'[i] = <<o, i - p>>,
         \A i \in Block \ Extent(p, n) : data'[i] = data[i],
         outcome' = Granted, clobbered' = clobbered
  PROVE  IInv'
<1> USE HeapAssumption
<1>1. TypeOK'
  BY Outcomes DEF IInv, TypeOK, Block
<1>2. ptr'[o] = p /\ len'[o] = n /\ \A q \in Owner \ {o} : ptr'[q] = ptr[q] /\ len'[q] = len[q]
  BY DEF IInv, TypeOK
<1>3. p # NULL
  BY DEF Block
<1>4. Held(o)' = Extent(p, n) /\ \A q \in Owner \ {o} : Held(q)' = Held(q)
  BY <1>2, <1>3 DEF Held
<1>5. Sizes'
  BY <1>2, <1>3 DEF IInv, Sizes
<1>6. NoOverlap'
  BY <1>4 DEF IInv, NoOverlap
<1>7. Exact'
  <2> SUFFICES ASSUME NEW i \in Block, NEW r \in Block
               PROVE  memmap'[i] = r <=> \E q \in Owner : ptr'[q] = r /\ i \in Held(q)'
    BY DEF Exact
  <2>1. CASE i \in Extent(p, n)
    BY <2>1, <1>2, <1>4
  <2>2. CASE i \notin Extent(p, n) /\ i \in Held(o)
    <3>1. memmap'[i] = NULL /\ r # NULL
      BY <2>2 DEF Block
    <3>2. \A q \in Owner : i \notin Held(q)'
      BY <2>2, <1>4 DEF IInv, NoOverlap
    <3> QED
      BY <3>1, <3>2
  <2>3. CASE i \notin Extent(p, n) /\ i \notin Held(o)
    <3>1. memmap'[i] = memmap[i]
      BY <2>3
    <3>2. memmap[i] = r <=> \E q \in Owner : ptr[q] = r /\ i \in Held(q)
      BY DEF IInv, Exact
    <3> QED
      BY <3>1, <3>2, <2>3, <1>2, <1>4
  <2> QED
    BY <2>1, <2>2, <2>3
<1>8. Contents'
  <2> SUFFICES ASSUME NEW q \in Owner, NEW i \in Held(q)'
               PROVE  data'[i] = <<q, i - ptr'[q]>>
    BY DEF Contents
  <2>1. CASE q = o
    BY <2>1, <1>2, <1>4
  <2>2. CASE q # o
    <3>1. i \in Held(q) /\ i \in Block \ Extent(p, n)
      BY <2>2, <1>4 DEF IInv, NoOverlap
    <3> QED
      BY <3>1, <2>2, <1>2 DEF IInv, Contents
  <2> QED
    BY <2>1, <2>2
<1> QED
  BY <1>1, <1>5, <1>6, <1>7, <1>8 DEF IInv

-----------------------------------------------------------------------------
(* One lemma per kind of call.                                              *)

(* What the first-fit scan returns is a free extent inside the heap.        *)
LEMMA FirstFitExtent ==
  ASSUME NEW n \in Nat, n > 0, NEW p \in FirstFit(n)
  PROVE  p \in Block /\ n \in 1 .. MemorySz /\ Free(p, n) /\ Extent(p, n) \subseteq Block
<1>1. p \in Block /\ Free(p, n) /\ Extent(p, n) \subseteq Block
  BY DEF FirstFit, Fits, Free
<1>2. p + n - 1 \in Extent(p, n)
  BY <1>1, HeapAssumption DEF Extent, Block
<1> QED
  BY <1>1, <1>2, HeapAssumption DEF Block

LEMMA GrantStep ==
  ASSUME IInv, NEW o \in Owner, ptr[o] = NULL, NEW n \in Nat, n > 0, Grant(o, n)
  PROVE  IInv'
<1>1. PICK p \in FirstFit(n) :
        /\ memmap' = SetEntries(p, n, p)
        /\ data' = Filled(data, o, p, 0, n)
        /\ ptr' = [ptr EXCEPT ![o] = p]
        /\ len' = [len EXCEPT ![o] = n]
        /\ outcome' = Granted /\ clobbered' = clobbered
  BY DEF Grant
<1>2. p \in Block /\ n \in 1 .. MemorySz /\ Free(p, n) /\ Extent(p, n) \subseteq Block
  BY FirstFitExtent
<1>3. \A q \in Owner \ {o} : Extent(p, n) \cap Held(q) = {}
  BY <1>2, FreeIsUnheld, HeapAssumption DEF Block
<1>4. Held(o) = {}
  BY DEF Held
<1>5. memmap' = [i \in Block |-> IF i \in Extent(p, n) THEN p
                                 ELSE IF i \in Held(o) THEN NULL ELSE memmap[i]]
  BY <1>1, <1>4 DEF SetEntries
<1>6. Extent(p + 0, n - 0) = Extent(p, n)
  BY <1>2, HeapAssumption DEF Extent, Block
<1>7. /\ \A i \in Extent(p, n) : data'[i] = <<o, i - p>>
      /\ \A i \in Block \ Extent(p, n) : data'[i] = data[i]
  BY <1>1, <1>2, <1>6 DEF Filled
<1>8. \A i \in Extent(p, n) : i - p \in Nat
  BY <1>2, HeapAssumption DEF Extent, Block
<1>9. data' \in [Block -> (Owner \X Nat) \cup {NULL}]
  BY <1>1, <1>6, <1>8 DEF Filled, IInv, TypeOK
<1> QED
  BY <1>1, <1>2, <1>3, <1>5, <1>7, <1>9, Resized

LEMMA RefuseStep ==
  ASSUME IInv, NEW n \in Nat,
         Refuse(n) \/ (outcome' = Done /\ UNCHANGED <<memmap, data, ptr, len, clobbered>>)
  PROVE  IInv'
BY Outcomes DEF Refuse, IInv, TypeOK, Sizes, NoOverlap, Exact, Contents, Held

LEMMA MallocStep ==
  ASSUME IInv, NEW o \in Owner, NEW sz \in Nat, Malloc(o, sz)
  PROVE  IInv'
<1>1. CASE sz > 0 /\ Grant(o, BlocksFor(sz))
  BY <1>1, BlocksForType, GrantStep DEF Malloc
<1>2. CASE Refuse(BlocksFor(sz))
  BY <1>2, BlocksForType, RefuseStep
<1> QED
  BY <1>1, <1>2 DEF Malloc

LEMMA ReleaseStep ==
  ASSUME IInv, NEW o \in Owner, Release(o)
  PROVE  IInv'
<1> USE HeapAssumption
<1>1. ptr[o] # NULL
  BY DEF Release
<1>2. Held(o) = Extent(ptr[o], len[o])
  BY <1>1, Owning
<1>3. memmap' = [i \in Block |-> IF i \in Held(o) THEN NULL ELSE memmap[i]]
  BY <1>1, <1>2, RunIsExtent DEF Release, SetEntries
<1>4. /\ ptr' = [ptr EXCEPT ![o] = NULL] /\ len' = [len EXCEPT ![o] = 0]
      /\ outcome' = Done /\ data' = data /\ clobbered' = clobbered
  BY DEF Release, Forget
<1>5. TypeOK'
  BY <1>3, <1>4, Outcomes DEF IInv, TypeOK
<1>6. Held(o)' = {} /\ \A q \in Owner \ {o} : ptr'[q] = ptr[q] /\ len'[q] = len[q] /\ Held(q)' = Held(q)
  BY <1>4 DEF Held, IInv, TypeOK
<1>7. Sizes'
  BY <1>4, <1>6 DEF IInv, Sizes, TypeOK
<1>8. NoOverlap'
  BY <1>6 DEF IInv, NoOverlap
<1>9. Exact'
  <2> SUFFICES ASSUME NEW i \in Block, NEW r \in Block
               PROVE  memmap'[i] = r <=> \E q \in Owner : ptr'[q] = r /\ i \in Held(q)'
    BY DEF Exact
  <2>1. CASE i \in Held(o)
    <3>1. memmap'[i] # r
      BY <2>1, <1>3 DEF Block
    <3>2. \A q \in Owner : i \notin Held(q)'
      BY <2>1, <1>6 DEF IInv, NoOverlap
    <3> QED
      BY <3>1, <3>2
  <2>2. CASE i \notin Held(o)
    <3>1. memmap'[i] = memmap[i]
      BY <2>2, <1>3
    <3>2. memmap[i] = r <=> \E q \in Owner : ptr[q] = r /\ i \in Held(q)
      BY DEF IInv, Exact
    <3> QED
      BY <3>1, <3>2, <2>2, <1>6
  <2> QED
    BY <2>1, <2>2
<1>10. Contents'
  BY <1>4, <1>6 DEF IInv, Contents
<1> QED
  BY <1>5, <1>7, <1>8, <1>9, <1>10 DEF IInv

(* realloc of a block that keeps its place: from os = len[o] blocks to n.    *)
LEMMA InPlaceStep ==
  ASSUME IInv, NEW o \in Owner, ptr[o] # NULL, NEW n \in 1 .. MemorySz, n >= len[o],
         Free(ptr[o] + len[o], n - len[o]),
         memmap' = SetEntries(ptr[o] + len[o], n - len[o], ptr[o]),
         data' = Filled(data, o, ptr[o], len[o], n),
         ptr' = ptr, len' = [len EXCEPT ![o] = n],
         outcome' = Granted, clobbered' = clobbered
  PROVE  IInv'
<1> USE HeapAssumption
<1>0. PICK p \in Block, m \in 1 .. MemorySz : p = ptr[o] /\ m = len[o]
  BY Owning
<1>1. /\ n >= m /\ Free(p + m, n - m)
      /\ memmap' = SetEntries(p + m, n - m, p) /\ data' = Filled(data, o, p, m, n)
      /\ Held(o) = Extent(p, m) /\ Held(o) \subseteq Block
      /\ \A i \in Block : memmap[i] = p <=> i \in Held(o)
  BY <1>0, Owning
<1>2. Extent(p, n) = Extent(p, m) \cup Extent(p + m, n - m)
  BY <1>1 DEF Extent, Block
<1>3. Extent(p, m) \cap Extent(p + m, n - m) = {}
  BY <1>1 DEF Extent, Block
<1>4. Extent(p, n) \subseteq Block
  BY <1>1, <1>2 DEF Free
<1>5. ASSUME NEW q \in Owner \ {o} PROVE Extent(p, n) \cap Held(q) = {}
  <2>1. Extent(p + m, n - m) \cap Held(q) = {}
    BY <1>1, FreeIsUnheld DEF Block
  <2>2. Extent(p, m) \cap Held(q) = {}
    BY <1>1 DEF IInv, NoOverlap
  <2> QED
    BY <2>1, <2>2, <1>2
<1>6. memmap' = [i \in Block |-> IF i \in Extent(p, n) THEN p
                                 ELSE IF i \in Held(o) THEN NULL ELSE memmap[i]]
  BY <1>1, <1>2 DEF SetEntries
<1>7. ptr' = [ptr EXCEPT ![o] = p]
  BY <1>0 DEF IInv, TypeOK
<1>8. \A i \in Extent(p, n) : data'[i] = <<o, i - p>>
  <2>1. \A i \in Extent(p, m) : data[i] = <<o, i - p>>
    BY <1>0, <1>1 DEF IInv, Contents
  <2> QED
    BY <2>1, <1>1, <1>2, <1>3, <1>4 DEF Filled
<1>9. \A i \in Block \ Extent(p, n) : data'[i] = data[i]
  BY <1>1, <1>2 DEF Filled
<1>10. \A i \in Extent(p, n) : i - p \in Nat
  BY <1>1 DEF Extent, Block
<1>11. data' \in [Block -> (Owner \X Nat) \cup {NULL}]
  BY <1>1, <1>2, <1>10 DEF Filled, IInv, TypeOK
<1> QED
  BY <1>1, <1>4, <1>5, <1>6, <1>7, <1>8, <1>9, <1>11, Resized

LEMMA SameStep ==
  ASSUME IInv, NEW o \in Owner, ptr[o] # NULL, NEW n, n = len[o], Same(o, len[o], n)
  PROVE  IInv'
<1> USE HeapAssumption
<1>1. ptr[o] \in Block /\ n \in 1 .. MemorySz /\ n >= len[o]
  BY Owning
<1>2. Extent(ptr[o] + len[o], n - len[o]) = {}
  BY <1>1 DEF Extent, Block
<1>3. Free(ptr[o] + len[o], n - len[o])
  BY <1>2 DEF Free
<1>4. memmap' = SetEntries(ptr[o] + len[o], n - len[o], ptr[o])
  BY <1>2 DEF Same, SetEntries, IInv, TypeOK
<1> QED
  BY <1>1, <1>3, <1>4, InPlaceStep DEF Same

LEMMA ExtendStep ==
  ASSUME IInv, NEW o \in Owner, ptr[o] # NULL, NEW n \in Nat, Extend(o, len[o], n)
  PROVE  IInv'
<1> USE HeapAssumption
<1>1. ptr[o] \in Block /\ len[o] \in 1 .. MemorySz
  BY Owning
<1>2. len[o] < n /\ Free(ptr[o] + len[o], n - len[o])
  BY DEF Extend, CanExtend
<1>3. ptr[o] + n - 1 \in Block
  BY <1>1, <1>2 DEF Free, Extent, Block
<1>4. n \in 1 .. MemorySz /\ n >= len[o]
  BY <1>1, <1>2, <1>3 DEF Block
<1> QED
  BY <1>1, <1>2, <1>4, InPlaceStep DEF Extend

LEMMA MoveStep ==
  ASSUME IInv, NEW o \in Owner, ptr[o] # NULL, NEW n \in Nat, Move(o, len[o], n)
  PROVE  IInv'
<1> USE HeapAssumption
<1> DEFINE p == ptr[o]  m == len[o]
<1>1. /\ p \in Block /\ m \in 1 .. MemorySz /\ m < n
      /\ Held(o) = Extent(p, m) /\ Held(o) \subseteq Block
  BY Owning DEF Move
<1>2. PICK np \in FirstFit(n) :
        /\ memmap' = [i \in Block |-> IF i \in Extent(np, n) THEN np
                                      ELSE IF i \in Held(o) THEN NULL ELSE memmap[i]]
        /\ data' = Filled(Copied(np, p, n), o, np, m, n)
        /\ ptr' = [ptr EXCEPT ![o] = np]
  BY <1>1 DEF Move
<1>3. np \in Block /\ n \in 1 .. MemorySz /\ Free(np, n) /\ Extent(np, n) \subseteq Block
  BY <1>1, FirstFitExtent
<1>4. \A q \in Owner \ {o} : Extent(np, n) \cap Held(q) = {}
  BY <1>3, FreeIsUnheld DEF Block
<1>5. ASSUME NEW i \in Extent(np, n) PROVE data'[i] = <<o, i - np>> /\ i - np \in Nat
  <2>1. i \in Block /\ i - np \in 0 .. n - 1
    BY <1>3 DEF Extent, Block
  <2>2. CASE i - np >= m
    <3>1. i \in Extent(np + m, n - m)
      BY <2>1, <2>2, <1>1, <1>3 DEF Extent, Block
    <3> QED
      BY <3>1, <2>1, <1>2 DEF Filled
  <2>3. CASE i - np < m
    <3>1. i \notin Extent(np + m, n - m)
      BY <2>1, <2>3, <1>1, <1>3 DEF Extent, Block
    <3>2. p + (i - np) \in Held(o) /\ p + (i - np) \in Block
      BY <2>1, <2>3, <1>1, <1>3 DEF Extent, Block
    <3>3. data'[i] = data[p + (i - np)]
      BY <3>1, <3>2, <2>1, <1>2 DEF Filled, Copied
    <3>4. \A j \in Held(o) : data[j] = <<o, j - p>>
      BY DEF IInv, Contents
    <3>5. (p + (i - np)) - p = i - np
      BY <2>1, <1>1, <1>3 DEF Block
    <3>6. data[p + (i - np)] = <<o, i - np>>
      BY <3>2, <3>4, <3>5
    <3> QED
      BY <3>3, <3>6, <2>1
  <2> QED
    BY <2>1, <2>2, <2>3, <1>1
<1>6. ASSUME NEW i \in Block \ Extent(np, n) PROVE data'[i] = data[i]
  <2>1. i \notin Extent(np + m, n - m)
    BY <1>1, <1>3, <1>6 DEF Extent, Block
  <2> QED
    BY <2>1, <1>2 DEF Filled, Copied
<1>7. data' \in [Block -> (Owner \X Nat) \cup {NULL}]
  <2>1. \A i \in Block : data'[i] \in (Owner \X Nat) \cup {NULL}
    BY <1>5, <1>6, SMTT(30) DEF IInv, TypeOK
  <2>2. data' = [i \in Block |-> data'[i]]
    BY <1>2 DEF Filled
  <2> QED
    BY <2>1, <2>2
<1>8. len' = [len EXCEPT ![o] = n] /\ outcome' = Granted /\ clobbered' = clobbered
  BY DEF Move
<1>9. /\ \A i \in Extent(np, n) : data'[i] = <<o, i - np>>
      /\ \A i \in Block \ Extent(np, n) : data'[i] = data[i]
  BY <1>5, <1>6
<1>10. np \in Block /\ n \in 1 .. MemorySz /\ Extent(np, n) \subseteq Block
  BY <1>3
<1>11. /\ memmap' = [i \in Block |-> IF i \in Extent(np, n) THEN np
                                   ELSE IF i \in Held(o) THEN NULL ELSE memmap[i]]
       /\ ptr' = [ptr EXCEPT ![o] = np]
  BY <1>2
<1> QED
  BY <1>4, <1>7, <1>8, <1>9, <1>10, <1>11, Resized

LEMMA ReallocTameStep ==
  ASSUME IInv, NEW o \in Owner, NEW sz \in Nat, ReallocTame(o, sz)
  PROVE  IInv'
<1>1. ptr[o] # NULL /\ BlocksFor(sz) \in Nat
  BY BlocksForType DEF ReallocTame
<1>2. \/ Same(o, len[o], BlocksFor(sz))
      \/ Extend(o, len[o], BlocksFor(sz))
      \/ Move(o, len[o], BlocksFor(sz))
  BY <1>1, RunIsExtent DEF ReallocTame
<1>3. CASE Same(o, len[o], BlocksFor(sz))
  <2>1. len[o] = BlocksFor(sz)
    BY <1>3 DEF Same
  <2> QED
    BY <1>1, <1>3, <2>1, SameStep
<1>4. CASE Extend(o, len[o], BlocksFor(sz))
  BY <1>1, <1>4, ExtendStep
<1>5. CASE Move(o, len[o], BlocksFor(sz))
  BY <1>1, <1>5, MoveStep
<1> QED
  BY <1>2, <1>3, <1>4, <1>5

-----------------------------------------------------------------------------
(* The theorems.                                                            *)

LEMMA IInvInit == Init => IInv
<1> SUFFICES ASSUME Init PROVE IInv
  OBVIOUS
<1>1. \A o \in Owner : ptr[o] = NULL /\ len[o] = 0 /\ Held(o) = {}
  BY DEF Init, Held
<1>2. TypeOK
  BY Outcomes DEF Init, TypeOK
<1>3. Exact
  BY <1>1, HeapAssumption DEF Init, Exact, Block
<1> QED
  BY <1>1, <1>2, <1>3 DEF IInv, Sizes, NoOverlap, Contents

LEMMA IInvNext == IInv /\ [TameNext]_vars => IInv'
<1> SUFFICES ASSUME IInv, [TameNext]_vars PROVE IInv'
  OBVIOUS
<1>1. Request \subseteq Nat
  BY HeapAssumption DEF Request
<1>2. ASSUME NEW o \in Owner, NEW sz \in Request, Malloc(o, sz) PROVE IInv'
  BY <1>1, <1>2, MallocStep
<1>3. ASSUME NEW o \in Owner, NEW number \in Count, NEW size \in Request,
             Calloc(o, number, size)
      PROVE  IInv'
  <2>1. number * size \in Nat
    BY <1>1 DEF Count
  <2> QED
    BY <1>3, <2>1, MallocStep DEF Calloc
<1>4. ASSUME NEW o \in Owner, Nothing(o) PROVE IInv'
  BY <1>4, RefuseStep DEF Nothing
<1>5. ASSUME NEW o \in Owner, Release(o) PROVE IInv'
  BY <1>5, ReleaseStep
<1>6. ASSUME NEW o \in Owner, NEW sz \in Request, ReallocTame(o, sz) PROVE IInv'
  BY <1>1, <1>6, ReallocTameStep
<1>7. CASE UNCHANGED vars
  BY <1>7 DEF vars, IInv, TypeOK, Sizes, NoOverlap, Exact, Contents, Held
<1> QED
  BY <1>2, <1>3, <1>4, <1>5, <1>6, <1>7 DEF TameNext

(* Type correctness of the allocator under its tame calls.                  *)
THEOREM TypeCorrect == TameSpec => []TypeOK
<1>1. IInv => TypeOK
  BY DEF IInv
<1> QED
  BY IInvInit, IInvNext, <1>1, PTL DEF TameSpec

(* The table is exact after any sequence of tame calls, for every heap:     *)
(* entries hold p just when an owner of p holds the block.                  *)
THEOREM TableExact == TameSpec => []Exact
<1>1. IInv => Exact
  BY DEF IInv
<1> QED
  BY IInvInit, IInvNext, <1>1, PTL DEF TameSpec

(* No two owners ever hold a common block.                                  *)
THEOREM ExtentsDisjoint == TameSpec => []NoOverlap
<1>1. IInv => NoOverlap
  BY DEF IInv
<1> QED
  BY IInvInit, IInvNext, <1>1, PTL DEF TameSpec

(* Every owner always finds its own data in its blocks, a realloc that      *)
(* moves them included.                                                     *)
THEOREM ContentsKept == TameSpec => []Contents
<1>1. IInv => Contents
  BY DEF IInv
<1> QED
  BY IInvInit, IInvNext, <1>1, PTL DEF TameSpec

-----------------------------------------------------------------------------
(* What survives every call, the shrinking and the failing ones included.   *)

(* TypeOK without the clients' data, which the next proof does not need.    *)
Tags == /\ memmap \in [Block -> Block \cup {NULL}]
        /\ ptr \in [Owner -> Block \cup {NULL}]
        /\ TagsPointBack

(* Writing p into an extent that starts at or above p keeps Tags.           *)
LEMMA SetEntriesTags ==
  ASSUME Tags, NEW p \in Block, NEW s \in Int, s >= p, NEW n \in Int, NEW v \in {p, NULL},
         memmap' = SetEntries(s, n, v), ptr' \in [Owner -> Block \cup {NULL}]
  PROVE  Tags'
<1> USE HeapAssumption
<1>1. ASSUME NEW i \in Block, memmap'[i] # NULL
      PROVE  memmap'[i] \in 0 .. i
  <2>1. CASE i \in Extent(s, n)
    <3>1. memmap'[i] = p
      BY <1>1, <2>1 DEF SetEntries
    <3> QED
      BY <2>1, <3>1 DEF Extent, Block
  <2>2. CASE i \notin Extent(s, n)
    BY <1>1, <2>2 DEF SetEntries, Tags, TagsPointBack
  <2> QED
    BY <2>1, <2>2
<1>2. memmap' \in [Block -> Block \cup {NULL}]
  BY DEF SetEntries, Tags
<1> QED
  BY <1>1, <1>2 DEF Tags, TagsPointBack

LEMMA TagsNext == Tags /\ [Next]_vars => Tags'
<1> SUFFICES ASSUME Tags, [Next]_vars PROVE Tags'
  OBVIOUS
<1> USE HeapAssumption
<1>1. ASSUME NEW o \in Owner, NEW n, Grant(o, n) PROVE Tags'
  <2>1. PICK p \in FirstFit(n) : memmap' = SetEntries(p, n, p) /\ ptr' = [ptr EXCEPT ![o] = p]
    BY <1>1 DEF Grant
  <2>2. p \in Block /\ ptr' \in [Owner -> Block \cup {NULL}]
    BY <2>1 DEF FirstFit, Fits, Tags
  <2>3. memmap' = [i \in Block |-> IF i \in Extent(p, n) THEN p ELSE memmap[i]]
    BY <2>1 DEF SetEntries
  <2>4. ASSUME NEW i \in Block, memmap'[i] # NULL PROVE memmap'[i] \in 0 .. i
    <3>1. CASE i \in Extent(p, n)
      BY <3>1, <2>2, <2>3 DEF Extent, Block
    <3>2. CASE i \notin Extent(p, n)
      BY <2>3, <2>4, <3>2 DEF Tags, TagsPointBack
    <3> QED
      BY <3>1, <3>2
  <2> QED
    BY <2>2, <2>3, <2>4 DEF Tags, TagsPointBack
<1>2. CASE UNCHANGED <<memmap, ptr>>
  BY <1>2 DEF Tags, TagsPointBack
<1>3. ASSUME NEW o \in Owner, NEW sz, Malloc(o, sz) PROVE Tags'
  BY <1>1, <1>2, <1>3 DEF Malloc, Refuse
<1>4. ASSUME NEW o \in Owner, NEW p \in Block, p = ptr[o], NEW os \in 0 .. MemorySz,
             memmap' = SetEntries(p, os, NULL), ptr' \in [Owner -> Block \cup {NULL}]
      PROVE  Tags'
  BY <1>4, SetEntriesTags DEF Block
<1>5. ASSUME NEW o \in Owner, Release(o) PROVE Tags'
  BY <1>4, <1>5 DEF Release, Forget, Tags
<1>6. ASSUME NEW o \in Owner, ptr[o] # NULL, NEW os \in 0 .. MemorySz, NEW n \in Nat,
             \/ Same(o, os, n) \/ Extend(o, os, n) \/ Move(o, os, n)
             \/ Shrink(o, os, n) \/ Fail(o, os, n)
      PROVE  Tags'
  <2>0. PICK p \in Block : p = ptr[o]
    BY <1>6 DEF Tags
  <2>1. CASE Same(o, os, n)
    BY <2>1, <1>2 DEF Same
  <2>2. CASE Extend(o, os, n)
    <3>1. memmap' = SetEntries(p + os, n - os, p) /\ ptr' = ptr
      BY <2>2, <2>0 DEF Extend
    <3>2. p + os \in Int /\ p + os >= p /\ n - os \in Int
      BY <1>6, <2>0 DEF Block
    <3> QED
      BY <3>1, <3>2, SetEntriesTags DEF Tags
  <2>3. CASE Move(o, os, n)
    <3>1. PICK np \in FirstFit(n) :
            /\ memmap' = [i \in Block |-> IF i \in Extent(np, n) THEN np
                                          ELSE IF i \in Extent(p, os) THEN NULL ELSE memmap[i]]
            /\ ptr' = [ptr EXCEPT ![o] = np]
      BY <2>3, <2>0 DEF Move
    <3>2. np \in Block /\ ptr' \in [Owner -> Block \cup {NULL}]
      BY <3>1 DEF FirstFit, Fits, Tags
    <3>3. ASSUME NEW i \in Block, memmap'[i] # NULL PROVE memmap'[i] \in 0 .. i
      <4>1. CASE i \in Extent(np, n)
        BY <4>1, <3>1, <3>2 DEF Extent, Block
      <4>2. CASE i \notin Extent(np, n)
        BY <3>1, <3>3, <4>2 DEF Tags, TagsPointBack
      <4> QED
        BY <4>1, <4>2
    <3>4. memmap' \in [Block -> Block \cup {NULL}]
      BY <3>1, <3>2 DEF Tags
    <3> QED
      BY <3>2, <3>3, <3>4 DEF Tags, TagsPointBack
  <2>4. CASE Shrink(o, os, n)
    <3>1. /\ ptr' = ptr
          /\ \A i \in Block : memmap'[i] = memmap[i] \/ memmap'[i] = NULL
          /\ memmap' \in [Block -> Block \cup {NULL}]
      BY <2>4 DEF Shrink, Tags
    <3> QED
      BY <3>1 DEF Tags, TagsPointBack
  <2>5. CASE Fail(o, os, n)
    BY <2>5, <2>0, <1>4 DEF Fail, Tags
  <2> QED
    BY <1>6, <2>1, <2>2, <2>3, <2>4, <2>5
<1>7. Request \subseteq Nat
  BY DEF Request
<1>8. ASSUME NEW o \in Owner, NEW sz \in Request,
             ReallocTame(o, sz) \/ ReallocShrink(o, sz) \/ ReallocFail(o, sz)
      PROVE  Tags'
  <2>1. BlocksFor(sz) \in Nat
    BY <1>7, BlocksForType
  <2> QED
    BY <1>6, <1>8, <2>1 DEF ReallocTame, ReallocShrink, ReallocFail
<1> QED
  BY <1>2, <1>3, <1>5, <1>8 DEF Next, TameNext, Calloc, Nothing, vars

(* No sequence of calls whatever leaves an entry that points above itself,  *)
(* so the upward walks of free and realloc start below every entry they own. *)
THEOREM TagsAlwaysPointBack == Spec => []TagsPointBack
<1>1. Init => Tags
  BY DEF Init, Tags, TagsPointBack
<1>2. Tags => TagsPointBack
  BY DEF Tags
<1> QED
  BY <1>1, <1>2, TagsNext, PTL DEF Spec

-----------------------------------------------------------------------------
(* Refinement of HeapAbstract.                                              *)

LEMMA SameHeld == \A o \in Owner : Abstract!Held(o) = Held(o)
BY DEF Abstract!Held, Held, Extent

(* The blocks nobody holds are free in the table.                           *)
LEMMA HoleIsFree ==
  ASSUME IInv, NEW p \in Block, NEW n \in Nat, Abstract!Hole(p .. p + n - 1)
  PROVE  p \in Fits(n)
<1>1. Extent(p, n) \subseteq Block /\ \A o \in Owner : Extent(p, n) \cap Held(o) = {}
  BY SameHeld DEF Abstract!Hole, Abstract!Block, Block, Extent
<1>2. ASSUME NEW i \in Extent(p, n), memmap[i] # NULL PROVE FALSE
  <2>1. i \in Block /\ memmap[i] \in Block
    BY <1>1, <1>2 DEF IInv, TypeOK
  <2>2. PICK o \in Owner : ptr[o] = memmap[i] /\ i \in Held(o)
    BY <2>1 DEF IInv, Exact
  <2> QED
    BY <2>2, <1>1
<1> QED
  BY <1>1, <1>2 DEF Fits, Free

LEMMA RefuseRefines ==
  ASSUME IInv, NEW n \in Nat, Fits(n) = {}, n > 0, Refuse(n)
  PROVE  Abstract!Refuse
<1>1. \A p \in Abstract!Block : ~Abstract!Hole(p .. p + n - 1)
  BY HoleIsFree DEF Abstract!Block, Block
<1>2. outcome' = [end |-> "refused", blocks |-> n]
  BY DEF Refuse, Refused
<1> QED
  BY <1>1, <1>2 DEF Refuse, Abstract!Refuse

LEMMA GrantRefines ==
  ASSUME IInv, NEW o \in Owner, ptr[o] = NULL, NEW n \in Nat, n > 0, Grant(o, n)
  PROVE  Abstract!Get(o)
<1>1. PICK p \in FirstFit(n) : ptr' = [ptr EXCEPT ![o] = p]
  BY DEF Grant
<1>2. p \in Block /\ n \in 1 .. MemorySz /\ Free(p, n) /\ Extent(p, n) \subseteq Block
  BY FirstFitExtent
<1>3. \A q \in Owner : Extent(p, n) \cap Held(q) = {}
  BY <1>2, FreeIsUnheld, HeapAssumption DEF Block
<1>4. Abstract!Hole(p .. p + n - 1)
  BY <1>2, <1>3, SameHeld DEF Abstract!Hole, Abstract!Block, Block, Extent
<1>5. len' = [len EXCEPT ![o] = n] /\ outcome' = Granted
  BY DEF Grant
<1> QED
  BY <1>1, <1>2, <1>4, <1>5 DEF Abstract!Get, Abstract!Block, Block, Abstract!Granted, Granted

(* After a resize the invariant of the next state says that o's new extent  *)
(* meets no other; a move also found it free beforehand.                    *)
LEMMA ResizeRefines ==
  ASSUME IInv, IInv', NEW o \in Owner, ptr[o] # NULL, NEW n \in Nat,
         Same(o, len[o], n) \/ Extend(o, len[o], n) \/ Move(o, len[o], n)
  PROVE  Abstract!Resize(o)
<1> USE HeapAssumption
<1>1. /\ ptr[o] \in Block /\ len[o] \in 1 .. MemorySz
  BY Owning
<1>2. len' = [len EXCEPT ![o] = n] /\ outcome' = Granted /\ n >= len[o]
  BY <1>1 DEF Same, Extend, Move
<1>3. PICK p \in Block :
        /\ ptr' = [ptr EXCEPT ![o] = p]
        /\ p # ptr[o] => Free(p, n)
  <2>1. CASE ptr' = ptr
    BY <2>1, <1>1 DEF IInv, TypeOK
  <2>2. CASE Move(o, len[o], n)
    <3>1. PICK np \in FirstFit(n) : ptr' = [ptr EXCEPT ![o] = np]
      BY <2>2 DEF Move
    <3>2. np \in Block /\ Free(np, n)
      BY <3>1 DEF FirstFit, Fits
    <3> QED
      BY <3>1, <3>2
  <2> QED
    BY <2>1, <2>2 DEF Same, Extend
<1>4. ptr'[o] = p /\ len'[o] = n /\ \A q \in Owner \ {o} : ptr'[q] = ptr[q] /\ len'[q] = len[q]
  BY <1>2, <1>3 DEF IInv, TypeOK
<1>5. Held(o)' = Extent(p, n) /\ \A q \in Owner \ {o} : Held(q)' = Held(q)
  BY <1>4 DEF Held, Block
<1>6. Extent(p, n) \subseteq Block /\ \A q \in Owner \ {o} : Extent(p, n) \cap Held(q) = {}
  BY <1>5 DEF IInv, NoOverlap
<1>7. n \in 1 .. MemorySz
  BY <1>3, <1>4 DEF IInv, Sizes, Block
<1>8. Abstract!HoleBut(p .. p + n - 1, o)
  BY <1>6, SameHeld DEF Abstract!HoleBut, Abstract!Block, Block, Extent
<1>9. p # ptr[o] => Abstract!Hole(p .. p + n - 1)
  <2> SUFFICES ASSUME p # ptr[o] PROVE Abstract!Hole(p .. p + n - 1)
    OBVIOUS
  <2>1. \A q \in Owner : Extent(p, n) \cap Held(q) = {}
    BY <1>3, FreeIsUnheld DEF Block
  <2> QED
    BY <2>1, <1>6, SameHeld DEF Abstract!Hole, Abstract!Block, Block, Extent
<1>10. p \in Abstract!Block /\ n \in len[o] .. MemorySz
  BY <1>1, <1>2, <1>7 DEF Abstract!Block, Block
<1> QED
  BY <1>2, <1>3, <1>8, <1>9, <1>10 DEF Abstract!Resize, Abstract!Granted, Granted

LEMMA StepRefines == IInv /\ IInv' /\ [TameNext]_vars => [Abstract!Next]_(Abstract!vars)
<1> SUFFICES ASSUME IInv, IInv', [TameNext]_vars PROVE [Abstract!Next]_(Abstract!vars)
  OBVIOUS
<1> USE DEF Abstract!vars
<1>1. Request \subseteq Nat
  BY DEF Request
<1>2. ASSUME NEW o \in Owner, NEW sz \in Nat, Malloc(o, sz) PROVE Abstract!Next
  <2>1. BlocksFor(sz) \in Nat /\ BlocksFor(sz) > 0 /\ ptr[o] = NULL
    BY <1>2, BlocksForType DEF Malloc
  <2>2. CASE Grant(o, BlocksFor(sz))
    BY <2>1, <2>2, GrantRefines DEF Abstract!Next
  <2>3. CASE Fits(BlocksFor(sz)) = {} /\ Refuse(BlocksFor(sz))
    BY <2>1, <2>3, RefuseRefines DEF Abstract!Next
  <2> QED
    BY <1>2, <2>2, <2>3 DEF Malloc
<1>3. ASSUME NEW o \in Owner, NEW number \in Count, NEW size \in Request,
             Calloc(o, number, size)
      PROVE  Abstract!Next
  <2>1. number * size \in Nat
    BY <1>1 DEF Count
  <2> QED
    BY <1>2, <1>3, <2>1 DEF Calloc
<1>4. ASSUME NEW o \in Owner, NEW sz \in Request, ReallocTame(o, sz) PROVE Abstract!Next
  <2>1. ptr[o] # NULL /\ BlocksFor(sz) \in Nat
    BY <1>1, <1>4, BlocksForType DEF ReallocTame
  <2>2. \/ Same(o, len[o], BlocksFor(sz))
        \/ Extend(o, len[o], BlocksFor(sz))
        \/ Move(o, len[o], BlocksFor(sz))
    BY <1>4, <2>1, RunIsExtent DEF ReallocTame
  <2> QED
    BY <2>1, <2>2, ResizeRefines DEF Abstract!Next
<1>5. ASSUME NEW o \in Owner, Release(o) \/ Nothing(o) PROVE Abstract!Next
  <2>1. CASE Release(o)
    BY <2>1 DEF Release, Forget, Abstract!Put, Abstract!Next, Abstract!Done, Done
  <2>2. CASE Nothing(o)
    <3>1. ptr[o] = NULL /\ len[o] = 0
      BY <2>2 DEF Nothing, IInv, Sizes
    <3> QED
      BY <2>2, <3>1 DEF Nothing, Abstract!Put, Abstract!Next, Abstract!Done, Done, IInv, TypeOK
  <2> QED
    BY <1>5, <2>1, <2>2
<1>6. CASE UNCHANGED vars
  BY <1>6 DEF vars
<1> QED
  BY <1>1, <1>2, <1>3, <1>4, <1>5, <1>6 DEF TameNext

(* The allocator implements HeapAbstract under every tame sequence of calls. *)
THEOREM TableImplements == TameSpec => Implements
<1>1. Init => Abstract!Init
  BY DEF Init, Abstract!Init, Abstract!Done, Done
<1> QED
  BY <1>1, IInvInit, IInvNext, StepRefines, PTL DEF TameSpec, Implements, Abstract!Spec
=============================================================================
