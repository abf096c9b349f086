----------------------------- MODULE MallocScan -----------------------------
(* The search loop of malloc, src/src/arch/i386/memory.c lines 61-84, one   *)
(* iteration per step.  Heap takes the loop as one step that finds the      *)
(* lowest hole of blk_sz entries; this module is why it may.                *)
(*                                                                          *)
(* The loop looks at each entry once and never goes back.                   *)
EXTENDS Integers, TLAPS

CONSTANTS
  MemorySz,   \* memory_sz
  NULL

ASSUME ScanAssumption == MemorySz \in Nat /\ NULL \notin Int

Block == 0 .. MemorySz - 1

VARIABLES
  used,      \* [Block -> BOOLEAN]: memmap[i].ptr # NULL, as malloc found it
  blk_sz,    \* blocks asked for
  p,         \* entry looked at
  sp,        \* start of the run of free entries that ends before p
  ssz,       \* its length
  running,   \* the loop has not returned
  result     \* sp of the pointer returned, or NULL

scanVars == <<used, blk_sz, p, sp, ssz, running, result>>

ScanInit ==
  /\ used \in [Block -> BOOLEAN]
  /\ blk_sz \in 1 .. MemorySz + 1
  /\ p = 0 /\ sp = 0 /\ ssz = 0
  /\ running = TRUE
  /\ result = NULL

Hole(q, n) == q + n <= MemorySz /\ \A i \in q .. q + n - 1 : ~used[i]

(* if (memmap[p].ptr == NULL) ssz++; if (ssz == blk_sz) return; p++         *)
LongEnoughEarly == ssz = blk_sz
LongEnough == ssz + 1 = blk_sz

FreeEntry ==
  /\ running /\ p < MemorySz /\ ~used[p]
  /\ ssz' = ssz + 1
  /\ IF LongEnough
       THEN running' = FALSE /\ result' = sp /\ UNCHANGED p
       ELSE p' = p + 1 /\ UNCHANGED <<running, result>>
  /\ UNCHANGED <<used, blk_sz, sp>>

(* else { sp = p + 1; ssz = 0; } p++; the slip of p not advanced.           *)
Stuck == p
Start == p + 1
Count == 0
Advance == p + 1

UsedEntry ==
  /\ running /\ p < MemorySz /\ used[p]
  /\ sp' = Start /\ ssz' = Count /\ p' = Advance
  /\ UNCHANGED <<used, blk_sz, running, result>>

(* The loop ends and malloc returns NULL.                                   *)
GiveUp ==
  /\ running /\ p = MemorySz
  /\ running' = FALSE
  /\ UNCHANGED <<used, blk_sz, p, sp, ssz, result>>

ScanNext == FreeEntry \/ UsedEntry \/ GiveUp

(* Nothing else runs in the caller's place: a step that can be taken is.    *)
ScanSpec == ScanInit /\ [][ScanNext]_scanVars /\ WF_scanVars(ScanNext)

-----------------------------------------------------------------------------
ScanTypeOK ==
  /\ used \in [Block -> BOOLEAN]
  /\ blk_sz \in 1 .. MemorySz + 1
  /\ p \in 0 .. MemorySz /\ sp \in 0 .. MemorySz /\ ssz \in 0 .. MemorySz
  /\ running \in BOOLEAN
  /\ result \in Block \cup {NULL}

(* The loop invariant: entries sp .. p-1 are the run being counted, and no  *)
(* long enough hole starts below it.                                        *)
LoopInv ==
  /\ running => /\ ssz = p - sp /\ ssz < blk_sz
                /\ \A i \in sp .. p - 1 : ~used[i]
                /\ result = NULL
  /\ \A q \in Block : q < sp => ~Hole(q, blk_sz)

(* What malloc returns is the lowest hole of blk_sz free entries, and NULL  *)
(* only when the table has none.                                            *)
FirstFit ==
  ~running =>
    IF result = NULL THEN \A q \in Block : ~Hole(q, blk_sz)
    ELSE Hole(result, blk_sz) /\ \A q \in Block : q < result => ~Hole(q, blk_sz)

-----------------------------------------------------------------------------
(* The proof, for a table of any size.                                     *)
ScanInv == ScanTypeOK /\ LoopInv /\ FirstFit

LEMMA ScanStarts == ScanInit => ScanInv
BY ScanAssumption DEF ScanInit, ScanInv, ScanTypeOK, LoopInv, FirstFit, Block

LEMMA ScanSteps == ScanInv /\ [ScanNext]_scanVars => ScanInv'
<1> SUFFICES ASSUME ScanInv, [ScanNext]_scanVars PROVE ScanInv'
  OBVIOUS
<1> USE ScanAssumption DEF Block, Hole, LongEnough, Start, Count, Advance
<1>1. CASE FreeEntry
  <2>1. CASE ssz + 1 = blk_sz
    <3>1. /\ running' = FALSE /\ result' = sp /\ p' = p /\ ssz' = ssz + 1
          /\ UNCHANGED <<used, blk_sz, sp>> /\ p < MemorySz /\ ~used[p] /\ running
      BY <1>1, <2>1 DEF FreeEntry
    <3>2. ssz = p - sp /\ \A i \in sp .. p - 1 : ~used[i]
      BY <3>1 DEF ScanInv, LoopInv
    <3>3. sp + blk_sz = p + 1 /\ sp \in Block
      <4>1. sp \in Int /\ p \in Int /\ ssz \in Nat /\ sp >= 0
        BY DEF ScanInv, ScanTypeOK
      <4> QED
        BY <4>1, <3>1, <3>2, <2>1
    <3>4. Hole(sp, blk_sz)
      BY <3>1, <3>2, <3>3 DEF ScanInv, ScanTypeOK
    <3>5. ScanTypeOK'
      <4>1. ssz + 1 \in 0 .. MemorySz
        BY <2>1, <3>1, <3>3 DEF ScanInv, ScanTypeOK
      <4> QED
        BY <3>1, <3>3, <4>1 DEF ScanInv, ScanTypeOK
    <3>6. LoopInv'
      BY <3>1 DEF ScanInv, LoopInv
    <3>7. FirstFit'
      BY <3>1, <3>3, <3>4 DEF ScanInv, LoopInv, FirstFit
    <3> QED
      BY <3>5, <3>6, <3>7 DEF ScanInv
  <2>2. CASE ssz + 1 # blk_sz
    <3>1. /\ p' = p + 1 /\ ssz' = ssz + 1
          /\ UNCHANGED <<used, blk_sz, sp, running, result>>
          /\ p < MemorySz /\ ~used[p] /\ running
      BY <1>1, <2>2 DEF FreeEntry
    <3>2. ScanTypeOK'
      BY <3>1 DEF ScanInv, ScanTypeOK, LoopInv
    <3>3. LoopInv'
      BY <3>1, <2>2 DEF ScanInv, LoopInv, ScanTypeOK
    <3> QED
      BY <3>1, <3>2, <3>3 DEF ScanInv, FirstFit
  <2> QED
    BY <2>1, <2>2
<1>2. CASE UsedEntry
  <2>1. /\ sp' = p + 1 /\ ssz' = 0 /\ p' = p + 1
        /\ UNCHANGED <<used, blk_sz, running, result>>
        /\ p < MemorySz /\ used[p] /\ running
    BY <1>2 DEF UsedEntry
  <2>2. ScanTypeOK'
    BY <2>1 DEF ScanInv, ScanTypeOK
  <2>3. ASSUME NEW q \in Block, q < p + 1, Hole(q, blk_sz) PROVE FALSE
    <3>1. CASE q < sp
      BY <2>3, <3>1 DEF ScanInv, LoopInv
    <3>2. CASE q >= sp
      <4>1. q + blk_sz > p
        <5>1. ssz = p - sp /\ ssz < blk_sz
          BY <2>1 DEF ScanInv, LoopInv
        <5>2. p \in Int /\ sp \in Int /\ blk_sz \in Int
          BY DEF ScanInv, ScanTypeOK
        <5> QED
          BY <5>1, <5>2, <3>2
      <4>2. p \in q .. q + blk_sz - 1
        BY <4>1, <2>3 DEF ScanInv, ScanTypeOK
      <4> QED
        BY <4>2, <2>1, <2>3
    <3> QED
      BY <3>1, <3>2 DEF ScanInv, ScanTypeOK
  <2>4. LoopInv'
    BY <2>1, <2>3 DEF ScanInv, LoopInv, ScanTypeOK
  <2> QED
    BY <2>1, <2>2, <2>4 DEF ScanInv, FirstFit
<1>3. CASE GiveUp
  <2>1. running /\ p = MemorySz /\ running' = FALSE /\ UNCHANGED <<used, blk_sz, p, sp, ssz, result>>
    BY <1>3 DEF GiveUp
  <2>2. ASSUME NEW q \in Block, Hole(q, blk_sz) PROVE FALSE
    <3>1. q >= sp
      <4>1. ~(q < sp)
        BY <2>2 DEF ScanInv, LoopInv
      <4>2. sp \in Int /\ q \in Int
        BY DEF ScanInv, ScanTypeOK
      <4> QED
        BY <4>1, <4>2
    <3>2. ssz = p - sp /\ ssz < blk_sz
      BY <2>1 DEF ScanInv, LoopInv
    <3>3. p \in Int /\ sp \in Int /\ blk_sz \in Int
      BY DEF ScanInv, ScanTypeOK
    <3>4. q + blk_sz <= MemorySz
      BY <2>2
    <3> QED
      BY <2>1, <3>1, <3>2, <3>3, <3>4
  <2> QED
    BY <2>1, <2>2 DEF ScanInv, ScanTypeOK, LoopInv, FirstFit
<1>4. CASE UNCHANGED scanVars
  BY <1>4 DEF scanVars, ScanInv, ScanTypeOK, LoopInv, FirstFit
<1> QED
  BY <1>1, <1>2, <1>3, <1>4 DEF ScanNext

(* malloc's loop returns the lowest hole that is long enough, and NULL only *)
(* when there is none, for every table and every length.                    *)
THEOREM ScanFindsFirstFit == ScanSpec => []FirstFit
<1>1. ScanInv => FirstFit
  BY DEF ScanInv
<1> QED
  BY ScanStarts, ScanSteps, <1>1, PTL DEF ScanSpec
=============================================================================
