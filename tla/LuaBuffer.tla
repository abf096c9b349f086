------------------------------ MODULE LuaBuffer ------------------------------
(* lauxlib.c: the buffer in which a C function puts a string together.  It  *)
(* is in the function's frame, block 0, until it gets too long; then it is  *)
(* a block that the program has from its allocator itself, in a box that is *)
(* kept on the Lua stack for the collector to find if an error is raised.   *)
(* The characters put in are numbered, so the string is 1, 2, 3 ...         *)
EXTENDS LuaStack, FiniteSets, FiniteSetsExt, Functions, TLC

CONSTANTS LUAL_BUFFERSIZE,
          SIZEBITS,        \* of a size_t
          MaxLength,       \* how long the strings get
          Blocks,          \* the blocks the allocator has, numbers from 1
          Requests,        \* what luaL_prepbuffsize is asked for
          MaxBoxes         \* how many boxes may wait for the collector

VARIABLE buf

size_t(x) == x % (2 ^ SIZEBITS)
Numbered(from, n) == [k \in 1 .. n |-> from + k]

(* Values of the stack; a box is known by a number of its own.              *)
Argument == [k |-> "argument", v |-> <<>>]
Text(s) == [k |-> "string", v |-> s]
Box(id) == [k |-> "box", v |-> <<id>>]
BoxAt(idx) == buf.stack[index2addr(buf.stack, idx)].v[1]

BufferInit ==
  buf = [phase |-> "idle", stack |-> <<>>, b |-> 0, n |-> 0, size |-> 0, added |-> 0,
         mem |-> <<>>, boxes |-> <<>>, metatable |-> "none"]

luaL_buffinit ==
  /\ buf.phase = "idle" /\ Cardinality(DOMAIN buf.boxes) < MaxBoxes
  /\ buf' = [buf EXCEPT !.phase = "filling", !.stack = <<Argument>>, !.b = 0, !.n = 0, !.size = LUAL_BUFFERSIZE, !.added = 0,
                        !.mem = (0 :> [size |-> LUAL_BUFFERSIZE, data |-> <<>>]) @@ @]

(* An error takes the function off the stack, its own buffer with it.       *)
Raised(s) == [s EXCEPT !.phase = "idle", !.stack = <<>>, !.mem = Restrict(@, DOMAIN @ \ {0})]

(* l_alloc of a block, 0 for none, and where it may put what it grants:     *)
(* where it is, or elsewhere.  A realloc that is refused has freed it.      *)
Freed(s, block) == [s EXCEPT !.mem = Restrict(@, DOMAIN @ \ ({block} \ {0}))]
Granted(s, block, new, size) ==
  LET data == IF block = 0 THEN <<>> ELSE s.mem[block].data
  IN [s EXCEPT !.mem = (new :> [size |-> size, data |-> data]) @@ Restrict(@, DOMAIN @ \ ({block} \ {0, new}))]
Places(s, block) == (Blocks \ DOMAIN s.mem) \cup ({block} \ {0})

(* resizebox to a size that is not 0, of a box that has been made: the      *)
(* states after it, and those after its error.                              *)
resizebox(s, id, size) ==
  LET old == s.boxes[id].block
  IN {[Granted(s, old, new, size) EXCEPT !.boxes[id].block = new, !.b = new] : new \in Places(s, old)}
Unresized(s, id) == Raised([Freed(Freed(s, s.boxes[id].block), s.boxes[id].block) EXCEPT !.boxes[id].block = 0])

(* newbox up to its resizebox.  The metatable is in the registry before it  *)
(* has its finalizer, and has room for that from the start.                 *)
NodesOfMetatable == 2
WithBox(s) ==
  LET id == Min((1 .. Cardinality(DOMAIN s.boxes) + 1) \ DOMAIN s.boxes)
  IN [s EXCEPT !.stack = Append(@, Box(id)), !.boxes = (id :> [block |-> 0, final |-> FALSE]) @@ @]
WithMetatable(s) ==
  IF s.metatable # "none" THEN {s}
  ELSE {[s EXCEPT !.metatable = "final"]} \cup IF NodesOfMetatable < 2 THEN {Raised([s EXCEPT !.metatable = "bare"])} ELSE {}
newbox(s) ==
  {IF m.phase = "idle" THEN m ELSE [m EXCEPT !.boxes[m.stack[Len(m.stack)].v[1]].final = m.metatable = "final"]
     : m \in WithMetatable(WithBox(s))}

(* luaL_prepbuffsize: the states with room for sz characters, and those of  *)
(* its errors: too large a buffer, and each of the allocations refused.     *)
NewSize(s, sz) == IF size_t(size_t(s.size * 2) - s.n) < sz THEN size_t(s.n + sz) ELSE size_t(s.size * 2)
Prepared(s, sz) ==
  LET newsize == NewSize(s, sz)
      resized(m) ==
        IF m.phase = "idle" THEN {m}
        ELSE LET id == m.stack[Len(m.stack)].v[1]
             IN {[r EXCEPT !.size = newsize] : r \in resizebox(m, id, newsize)} \cup {Unresized(m, id)}
      copied(m) == IF m.phase = "idle" THEN m ELSE [m EXCEPT !.mem[m.b].data = SubSeq(s.mem[s.b].data, 1, s.n)]
  IN IF s.size - s.n >= sz THEN {s}
     ELSE IF newsize < s.n \/ size_t(newsize - s.n) < sz THEN {Raised(s)}
     ELSE IF s.b # 0 THEN resized(s)
     ELSE {copied(r) : r \in UNION {resized(m) : m \in newbox(s)}}
            \cup {Raised(s)} \cup IF s.metatable = "none" THEN {Raised(WithBox(s))} ELSE {}

(* sz characters prepared for, and k of them put in.                        *)
Added(s, sz, k) ==
  {IF m.phase = "idle" THEN m
   ELSE [m EXCEPT !.mem[m.b].data = SubSeq(@, 1, m.n) \o Numbered(m.added, k), !.n = @ + k, !.added = @ + k]
     : m \in Prepared(s, sz)}

Filling(k) == buf.phase = "filling" /\ buf.added + k <= MaxLength
luaL_addchar == Filling(1) /\ buf' \in Added(buf, 1, 1)
luaL_addlstring(k) == Filling(k) /\ k > 0 /\ buf' \in Added(buf, k, k)
luaL_prepbuffsize(sz, k) == Filling(k) /\ k <= sz /\ buf' \in Added(buf, sz, k)

(* The value that the function has pushed goes below the box, so that the   *)
(* box is the top if the buffer grows, and away again.                      *)
Below(s) == IF s.b # 0 THEN lua_insert(s.stack, -2) ELSE s.stack
Without(s) == lua_remove(s.stack, IF s.b # 0 THEN -2 ELSE -1)
luaL_addvalue(k) ==
  /\ Filling(k) /\ k > 0
  /\ LET pushed == [buf EXCEPT !.stack = Append(@, Text(Numbered(buf.added, k)))]
         added == Added([pushed EXCEPT !.stack = Below(pushed)], k, k)
     IN buf' \in {IF s.phase = "idle" THEN s ELSE [s EXCEPT !.stack = Without(s)] : s \in added}

luaL_pushresult ==
  /\ buf.phase = "filling"
  /\ LET pushed == [buf EXCEPT !.stack = Append(@, Text(SubSeq(buf.mem[buf.b].data, 1, buf.n))), !.phase = "done"]
         id == BoxAt(-1)
     IN \/ buf' = Raised(buf)
        \/ buf' = IF buf.b = 0 THEN pushed
                  ELSE [Freed(pushed, buf.b) EXCEPT !.boxes[id].block = 0, !.stack = lua_remove(@, -2)]

FunctionReturns == buf.phase = "done" /\ buf' = Raised(buf)

(* The collector takes a box that is not on the stack; boxgc frees what it  *)
(* holds.                                                                   *)
OnStack(id) == \E i \in DOMAIN buf.stack : buf.stack[i] = Box(id)
Collect(id) ==
  /\ id \in DOMAIN buf.boxes /\ ~OnStack(id)
  /\ LET kept == [buf EXCEPT !.boxes = Restrict(@, DOMAIN @ \ {id})]
     IN buf' = IF buf.boxes[id].final THEN Freed(kept, buf.boxes[id].block) ELSE kept

BufferNext ==
  \/ luaL_buffinit \/ luaL_addchar \/ luaL_pushresult \/ FunctionReturns
  \/ \E k \in 0 .. MaxLength : luaL_addlstring(k) \/ luaL_addvalue(k) \/ \E sz \in Requests : luaL_prepbuffsize(sz, k)
  \/ \E id \in DOMAIN buf.boxes : Collect(id)

-----------------------------------------------------------------------------
(* Every block the program has is in one box, which is on the stack or will *)
(* be finalized: whichever step of growing a buffer failed, nothing leaks.  *)
NothingLeaks ==
  /\ \A block \in DOMAIN buf.mem \ {0} : Cardinality({id \in DOMAIN buf.boxes : buf.boxes[id].block = block}) = 1
  /\ \A id \in DOMAIN buf.boxes :
       buf.boxes[id].block # 0 => buf.boxes[id].block \in DOMAIN buf.mem /\ buf.boxes[id].final

(* What was put in is in the buffer, which has room for it, wherever it is. *)
InRoom ==
  buf.phase = "filling" =>
    /\ buf.b \in DOMAIN buf.mem /\ buf.mem[buf.b].size = buf.size /\ buf.n <= buf.size
    /\ SubSeq(buf.mem[buf.b].data, 1, buf.n) = Numbered(0, buf.added)

(* The function's stack is as the buffer found it, but for the box at its   *)
(* top and, in the end, the string.                                         *)
Balanced ==
  /\ buf.phase = "filling" => IF buf.b = 0 THEN buf.stack = <<Argument>>
                              ELSE Len(buf.stack) = 2 /\ buf.boxes[BoxAt(-1)].block = buf.b
  /\ buf.phase = "done" => buf.stack = <<Argument, Text(Numbered(0, buf.added))>> /\ DOMAIN buf.mem \ {0} \subseteq {r.block : r \in Range(buf.boxes)}

BufferRight == NothingLeaks /\ InRoom /\ Balanced
=============================================================================
