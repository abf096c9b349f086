------------------------------ MODULE LuaTable -------------------------------
(* ltable.c: a table, t, with an array part and a hash part of nodes that   *)
(* are chained from the main position of their keys.  A key is <<type, its  *)
(* hash>>, an integer its own; the value stored at a key is the key, so     *)
(* that a value read at another's place shows.  content is what the program *)
(* has stored, walk its traversal with next.                                *)
EXTENDS Integers, Sequences, FiniteSets, FiniteSetsExt, SequencesExt

CONSTANTS
  Ints, Objects,  \* the keys: integers; <<"str", hash>> and <<"ptr", hash>>
  MaxInt,         \* MAX_INT, half of which ends unbound_search's doubling
  MaxArray        \* bound: the array part is never asked to be larger

VARIABLES t, content, walk

tableVars == <<t, content, walk>>

Nil == <<"nil", 0>>
Keys == {<<"int", n>> : n \in Ints} \cup Objects
Collectable(k) == k[1] \notin {"int", "nil"}

Size(T) == Cardinality(DOMAIN T.node)
SizeArray(T) == Len(T.array)
AllocSize(T) == IF T.dummy THEN 0 ELSE Size(T)
Ceillog2(n) == Min({i \in 0 .. n : 2 ^ i >= n})
FreeNode == [key |-> Nil, dead |-> FALSE, val |-> Nil, next |-> 0]

setnodevector(T, size) ==
  [T EXCEPT !.node = [n \in 0 .. (IF size = 0 THEN 0 ELSE (2 ^ Ceillog2(size)) - 1) |-> FreeNode],
            !.dummy = size = 0,
            !.lastfree = IF size = 0 THEN 0 ELSE 2 ^ Ceillog2(size)]
luaH_new == setnodevector([array |-> <<>>, node |-> <<>>, dummy |-> TRUE, lastfree |-> 0], 0)

-----------------------------------------------------------------------------
(* Searching.  A cell is a place in either part, or luaO_nilobject.         *)

mainposition(T, k) == k[2] % (IF k[1] = "ptr" THEN Max({1, Size(T) - 1}) ELSE Size(T))

RECURSIVE Chain(_, _)
Chain(T, n) == <<n>> \o (IF T.node[n].next = 0 THEN <<>> ELSE Chain(T, n + T.node[n].next))
InChain(T, k, Is(_)) ==
  LET c == Chain(T, mainposition(T, k)) IN [chain |-> c, at |-> SelectInSeq(c, LAMBDA n : Is(T.node[n]))]

NilObject == <<"none", 0>>
rawequal(node, k) == node.key = k /\ ~node.dead
InArray(T, k) == k[1] = "int" /\ k[2] \in 1 .. SizeArray(T)
luaH_get(T, k) ==
  IF InArray(T, k) THEN <<"array", k[2]>>
  ELSE LET s == InChain(T, k, LAMBDA node : rawequal(node, k))
       IN IF s.at = 0 THEN NilObject ELSE <<"node", s.chain[s.at]>>
luaH_getint(T, n) == luaH_get(T, <<"int", n>>)

Read(T, cell) ==
  CASE cell[1] = "array" -> T.array[cell[2]]
    [] cell[1] = "node" -> T.node[cell[2]].val
    [] OTHER -> Nil
Write(T, cell, v) ==
  IF cell[1] = "array" THEN [T EXCEPT !.array[cell[2]] = v] ELSE [T EXCEPT !.node[cell[2]].val = v]
Present(T, n) == Read(T, luaH_getint(T, n)) # Nil

-----------------------------------------------------------------------------
(* Rehash.  Keys that may go to the array part are counted by the power of  *)
(* two they are within.                                                     *)

LiveNodes(T) == {n \in DOMAIN T.node : T.node[n].val # Nil}
IntKeys(T) ==
  {i \in 1 .. SizeArray(T) : T.array[i] # Nil}
    \cup {k[2] : k \in {T.node[n].key : n \in {m \in LiveNodes(T) : T.node[m].key[1] = "int" /\ T.node[m].key[2] > 0}}}
Slice(S, i) == Cardinality({k \in S : Ceillog2(k) = i})
UpToSlice(S, i) == Cardinality({k \in S : Ceillog2(k) <= i})

(* The size and how many keys go there; the slip of half being enough.      *)
MoreThanHalfOrHalf(count, twotoi) == count >= (twotoi + 1) \div 2
MoreThanHalf(count, twotoi) == count > twotoi \div 2
computesizes(S) ==
  LET tried == {i \in 0 .. Cardinality(S) : Cardinality(S) > (2 ^ i) \div 2}
      full == {i \in tried : Slice(S, i) > 0 /\ MoreThanHalf(UpToSlice(S, i), 2 ^ i)}
  IN IF full = {} THEN [size |-> 0, na |-> 0] ELSE [size |-> 2 ^ Max(full), na |-> UpToSlice(S, Max(full))]

(* The keys that are put again after a resize: those of the slice that      *)
(* vanishes from the array, then those of the old nodes, from the last.     *)
Vanishing(T, nasize) ==
  SelectSeq([i \in 1 .. Max({0, SizeArray(T) - nasize}) |-> <<<<"int", nasize + i>>, T.array[nasize + i]>>],
            LAMBDA e : e[2] # Nil)
OldNodes(T) ==
  SelectSeq(Reverse([n \in 1 .. AllocSize(T) |-> <<T.node[n - 1].key, T.node[n - 1].val>>]), LAMBDA e : e[2] # Nil)
Vector(T, nasize) ==
  [T EXCEPT !.array = [i \in 1 .. nasize |-> IF i <= Len(@) THEN @[i] ELSE Nil]]

(* getfreepos: from lastfree down, the first node that never had a key.     *)
FreePositions(T) == IF T.dummy THEN {} ELSE {n \in 0 .. T.lastfree - 1 : T.node[n].key = Nil}

(* luaH_newkey's three ways with a main position: it is free; it holds a    *)
(* node whose place is elsewhere, which moves to f; or it keeps its node    *)
(* and the new key goes to f.  The slip of a moved node not linked again.   *)
Keyed(T, n, k) == [T |-> [T EXCEPT !.node[n].key = k, !.node[n].dead = FALSE], cell |-> <<"node", n>>]
MovedUnlinked(T, mp, f, prev) ==
  [T EXCEPT !.node[f] = [T.node[mp] EXCEPT !.next = IF @ = 0 THEN 0 ELSE @ + (mp - f)],
            !.node[mp].next = 0, !.node[mp].val = Nil]
Moved(T, mp, f, prev) ==
  [T EXCEPT !.node[prev].next = f - prev,
            !.node[f] = [T.node[mp] EXCEPT !.next = IF @ = 0 THEN 0 ELSE @ + (mp - f)],
            !.node[mp].next = 0, !.node[mp].val = Nil]
Chained(T, mp, f) ==
  [T EXCEPT !.node[f].next = IF T.node[mp].next = 0 THEN @ ELSE (mp + T.node[mp].next) - f,
            !.node[mp].next = f - mp]
(* The slip of a node that stays wherever it is.                            *)
CollideStays(T, mp, f, k) == Keyed(Chained(T, mp, f), f, k)
Collide(T, mp, f, k) ==
  LET c == Chain(T, mainposition(T, T.node[mp].key))
  IN IF c[1] # mp THEN Keyed(Moved(T, mp, f, c[SelectInSeq(c, LAMBDA n : n = mp) - 1]), mp, k)
     ELSE Keyed(Chained(T, mp, f), f, k)

RECURSIVE luaH_set(_, _), luaH_newkey(_, _, _), luaH_resize(_, _, _), rehash(_, _, _)
luaH_set(T, k) ==
  LET cell == luaH_get(T, k)
  IN IF cell = NilObject THEN luaH_newkey(T, k, mainposition(T, k)) ELSE [T |-> T, cell |-> cell]
luaH_newkey(T, k, mp) ==
  CASE T.node[mp].val = Nil /\ ~T.dummy -> Keyed(T, mp, k)
    [] (T.node[mp].val # Nil \/ T.dummy) /\ FreePositions(T) = {} -> luaH_set(rehash(T, k, IntKeys(T)), k)
    [] OTHER -> LET f == Max(FreePositions(T)) IN Collide([T EXCEPT !.lastfree = f], mp, f, k)
Stored(T, k, v) == LET s == luaH_set(T, k) IN Write(s.T, s.cell, v)
luaH_resize(T, nasize, nhsize) ==
  FoldLeft(LAMBDA H, e : Stored(H, e[1], e[2]), setnodevector(Vector(T, nasize), nhsize),
           Vanishing(T, nasize) \o OldNodes(T))
Extra(k) == IF k[1] = "int" /\ k[2] > 0 THEN {k[2]} ELSE {}
InArrayPart(T) == {i \in 1 .. SizeArray(T) : T.array[i] # Nil}
rehash(T, ek, ints) ==
  LET sizes == computesizes(ints \cup Extra(ek))
  IN luaH_resize(T, sizes.size, (Cardinality(LiveNodes(T)) + Cardinality(InArrayPart(T)) + 1) - sizes.na)

-----------------------------------------------------------------------------
(* Borders and traversal.                                                   *)

Middle(i, j) == (i + j) \div 2
(* The slip of the upper end returned.                                      *)
RECURSIVE Bisect(_, _, _)
BisectUpper(T, i, j) ==
  IF j - i <= 1 THEN j
  ELSE IF Present(T, Middle(i, j)) THEN Bisect(T, Middle(i, j), j) ELSE Bisect(T, i, Middle(i, j))
Bisect(T, i, j) ==
  IF j - i <= 1 THEN i
  ELSE IF Present(T, Middle(i, j)) THEN Bisect(T, Middle(i, j), j) ELSE Bisect(T, i, Middle(i, j))
Linear(T) == Min({i \in 1 .. Cardinality(Ints) + 1 : ~Present(T, i)}) - 1
RECURSIVE unbound_search(_, _, _)
unbound_search(T, i, j) ==
  IF ~Present(T, j) THEN Bisect(T, i, j)
  ELSE IF j > MaxInt \div 2 THEN Linear(T) ELSE unbound_search(T, j, 2 * j)
luaH_getn(T) ==
  LET j == SizeArray(T)
  IN CASE j > 0 /\ T.array[Max({j, 1})] = Nil -> Bisect(T, 0, j)
       [] (j = 0 \/ T.array[Max({j, 1})] # Nil) /\ T.dummy -> j
       [] OTHER -> unbound_search(T, j, j + 1)

(* findindex: the key a traversal stands at may have been cleared and its   *)
(* node have died meanwhile.  Elements are numbered, the array's first; the *)
(* slip looks for a living key only.                                        *)
SameLiving(node, k) == node.key = k /\ ~node.dead
SameOrDead(node, k) == node.key = k
Invalid == -1
findindex(T, k) ==
  CASE k = Nil -> 0
    [] k # Nil /\ InArray(T, k) -> k[2]
    [] OTHER -> LET s == InChain(T, k, LAMBDA node : SameOrDead(node, k))
                IN IF s.at = 0 THEN Invalid ELSE s.chain[s.at] + 1 + SizeArray(T)
ElementKey(T, i) == IF i <= SizeArray(T) THEN <<"int", i>> ELSE T.node[i - SizeArray(T) - 1].key
ElementValue(T, i) == IF i <= SizeArray(T) THEN T.array[i] ELSE T.node[i - SizeArray(T) - 1].val
Following(T, i) == {j \in i + 1 .. SizeArray(T) + Size(T) : ElementValue(T, j) # Nil}

-----------------------------------------------------------------------------
Idle == [on |-> FALSE, key |-> Nil, seen |-> {}, due |-> {}]

TableInit ==
  /\ \E na \in 0 .. 1, nh \in 0 .. 2 : t = luaH_resize(luaH_new, na, nh)
  /\ content = {} /\ walk = Idle

(* An assignment of a value or of nil.  A traversal allows it to existing   *)
(* fields only.                                                             *)
Set(k) ==
  /\ walk.on => k \in content
  /\ t' = Stored(t, k, k) /\ content' = content \cup {k} /\ UNCHANGED walk
Clear(k) ==
  /\ walk.on => k \in content
  /\ t' = Stored(t, k, Nil) /\ content' = content \ {k}
  /\ walk' = [walk EXCEPT !.due = @ \ {k}]

(* removeentry (lgc.c): the key of an empty entry dies.                     *)
Collect(n) ==
  /\ n \in DOMAIN t.node /\ t.node[n].val = Nil /\ Collectable(t.node[n].key) /\ ~t.node[n].dead
  /\ t' = [t EXCEPT !.node[n].dead = TRUE]
  /\ UNCHANGED <<content, walk>>

(* luaH_resizearray, before a constructor stores its items.                 *)
ResizeArray(n) ==
  /\ ~walk.on /\ n > SizeArray(t)
  /\ t' = luaH_resize(t, n, AllocSize(t))
  /\ UNCHANGED <<content, walk>>

Begin == ~walk.on /\ walk' = [Idle EXCEPT !.on = TRUE, !.due = content] /\ UNCHANGED <<t, content>>
(* luaH_next; a traversal that is over or that has failed stops.            *)
NextElement ==
  /\ walk.on /\ findindex(t, walk.key) # Invalid /\ Following(t, findindex(t, walk.key)) # {}
  /\ \E i \in {Min(Following(t, findindex(t, walk.key)))} :
       walk' = [walk EXCEPT !.key = ElementKey(t, i), !.seen = @ \cup {ElementKey(t, i)},
                            !.due = IF ElementKey(t, i) \in walk.seen THEN {Nil} ELSE @ \ {ElementKey(t, i)}]
  /\ UNCHANGED <<t, content>>
EndOfTable ==
  /\ walk.on /\ findindex(t, walk.key) # Invalid /\ Following(t, findindex(t, walk.key)) = {} /\ walk.due = {}
  /\ walk' = Idle /\ UNCHANGED <<t, content>>

TableNext ==
  \/ \E k \in Keys : Set(k) \/ Clear(k)
  \/ \E n \in DOMAIN t.node : Collect(n)
  \/ \E n \in 1 .. MaxArray : ResizeArray(n)
  \/ Begin \/ NextElement \/ EndOfTable

-----------------------------------------------------------------------------
(* Whatever was stored, cleared, rehashed and collected, a key is found     *)
(* with its value and a cleared or absent one is not (luaH_get, luaH_set).  *)
FindsContent == \A k \in Keys : Read(t, luaH_get(t, k)) = IF k \in content THEN k ELSE Nil

(* "if an element is not in its main position, then the colliding element   *)
(* is in its own main position" (ltable.c:16-21).                           *)
MainInvariant ==
  \A n \in LiveNodes(t) :
    LET mp == mainposition(t, t.node[n].key) IN mp # n => mainposition(t, t.node[mp].key) = mp

(* #t is a border of t: t[n] is not nil, or n is 0, and t[n + 1] is.        *)
BorderFound ==
  LET n == luaH_getn(t) IN (n = 0 \/ <<"int", n>> \in content) /\ <<"int", n + 1>> \notin content

(* A rehash chooses for the array part the largest n, a power of two, of    *)
(* which more than half of the slots would be in use.                       *)
OptimalSize ==
  \A k \in Keys \ content :
    LET S == {c[2] : c \in {d \in content \cup {k} : d[1] = "int" /\ d[2] > 0}}
        good == {n \in {2 ^ i : i \in 0 .. 5} : 2 * Cardinality({s \in S : s <= n}) > n}
    IN computesizes(IntKeys(t) \cup Extra(k)) =
         [size |-> Max(good \cup {0}), na |-> Cardinality({s \in S : s <= Max(good \cup {0})})]

(* A traversal during which fields are changed or cleared, and their keys   *)
(* collected, never fails, visits nothing twice, and does not end before it *)
(* has visited every field that was there all along (luaH_next).            *)
Traverses ==
  walk.on => /\ findindex(t, walk.key) # Invalid
             /\ Nil \notin walk.due
             /\ Following(t, findindex(t, walk.key)) = {} => walk.due = {}

(* What a program can see of a table is right, whatever its parts hold.     *)
TableRight == FindsContent /\ MainInvariant /\ BorderFound /\ OptimalSize /\ Traverses
=============================================================================
