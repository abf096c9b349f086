---------------------------- MODULE HeapAbstract ----------------------------
(* What the allocator of src/src/arch/i386/memory.c promises its clients,   *)
(* with no table: owners hold disjoint extents of blocks, a request is      *)
(* refused only when the free blocks have no hole that is long enough, and  *)
(* a refused caller keeps what it had.                                      *)
EXTENDS Integers

CONSTANTS Owner, MemorySz, NULL

Block == 0 .. MemorySz - 1

Done == [end |-> "done", blocks |-> 0]
Granted == [end |-> "granted", blocks |-> 0]

VARIABLES ptr, len, outcome

vars == <<ptr, len, outcome>>

Held(o) == IF ptr[o] = NULL THEN {} ELSE ptr[o] .. ptr[o] + len[o] - 1

Hole(S) == S \subseteq Block /\ \A o \in Owner : S \cap Held(o) = {}
HoleBut(S, o) == S \subseteq Block /\ \A q \in Owner \ {o} : S \cap Held(q) = {}

Init ==
  /\ ptr = [o \in Owner |-> NULL]
  /\ len = [o \in Owner |-> 0]
  /\ outcome = Done

(* A new extent for an owner that holds nothing.                            *)
Get(o) ==
  /\ ptr[o] = NULL
  /\ \E p \in Block, n \in 1 .. MemorySz :
       /\ Hole(p .. p + n - 1)
       /\ ptr' = [ptr EXCEPT ![o] = p]
       /\ len' = [len EXCEPT ![o] = n]
  /\ outcome' = Granted

(* A longer extent, in place or elsewhere; elsewhere only into a hole that  *)
(* is free before the old extent is given up.                               *)
Resize(o) ==
  /\ ptr[o] # NULL
  /\ \E p \in Block, n \in len[o] .. MemorySz :
       /\ HoleBut(p .. p + n - 1, o)
       /\ p # ptr[o] => Hole(p .. p + n - 1)
       /\ ptr' = [ptr EXCEPT ![o] = p]
       /\ len' = [len EXCEPT ![o] = n]
  /\ outcome' = Granted

Put(o) ==
  /\ ptr' = [ptr EXCEPT ![o] = NULL]
  /\ len' = [len EXCEPT ![o] = 0]
  /\ outcome' = Done

(* A refusal of n blocks: the free blocks have no hole of that length.      *)
Refuse ==
  /\ outcome' \in [end : {"refused"}, blocks : Nat \ {0}]
  /\ \A p \in Block : ~Hole(p .. p + outcome'.blocks - 1)
  /\ UNCHANGED <<ptr, len>>

Next ==
  \/ \E o \in Owner : Get(o) \/ Resize(o) \/ Put(o)
  \/ Refuse

Spec == Init /\ [][Next]_vars
=============================================================================
