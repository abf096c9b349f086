------------------------------ MODULE LuaString ------------------------------
(* lstring.c: short strings are kept once each, in a hash table, st.hash,   *)
(* that the collector takes dead ones from between any two calls and in the *)
(* middle of one whose allocation fails.  An address of Pool is where a     *)
(* string is; one that was freed is used again.  st.held is what the        *)
(* program has, by address; a string that is "old" has the white of the     *)
(* cycle before, and "black" also stands for the fixed one's gray.          *)
EXTENDS Integers, Sequences, FiniteSets, FiniteSetsExt, SequencesExt, Functions

CONSTANTS
  Hash,      \* the hash of each content
  MEMERRMSG, \* the content of memerrmsg
  CacheSets, \* the addresses of C strings, modulo STRCACHE_N
  Pool,      \* where strings may be, numbers
  MinSizes,  \* MINSTRTABSIZE may be any of these
  MaxInt     \* MAX_INT

VARIABLE st

Content == DOMAIN Hash

(* What LibraryProofs needs of them; MCLibrary asserts it of its instance.    *)
StringConstants ==
  /\ Pool \in SUBSET Nat /\ Pool # {} /\ MinSizes \in SUBSET (Nat \ {0}) /\ MaxInt \in Nat
  /\ MEMERRMSG \in Content /\ \A c \in Content : Hash[c] \in Nat

Size(s) == Cardinality(DOMAIN s.hash)
lmod(s, c) == Hash[c] % Size(s)

(* luaS_resize: chains are taken apart in place, each string going to the   *)
(* front of its new one.                                                    *)
luaS_resize(s, newsize) ==
  LET moved(h, p) == [h EXCEPT ![Hash[s.str[p]] % newsize] = <<p>> \o @]
      apart(h, i) == FoldLeft(moved, [h EXCEPT ![i] = <<>>], h[i])
      grown == [i \in 0 .. Max({Size(s), newsize}) - 1 |-> IF i < Size(s) THEN s.hash[i] ELSE <<>>]
      rehashed == FoldLeft(apart, grown, [i \in 1 .. Size(s) |-> i - 1])
  IN [s EXCEPT !.hash = [i \in 0 .. newsize - 1 |-> rehashed[i]]]

luaS_remove(s, p) ==
  [s EXCEPT !.hash[lmod(s, s.str[p])] = RemoveFirst(@, p), !.nuse = @ - 1]

-----------------------------------------------------------------------------
(* The collector, as far as it is about strings.                            *)

(* The entry of the cache that a white string had gets memerrmsg.           *)
luaS_clearcache(s) ==
  [s EXCEPT !.cache = [i \in CacheSets |-> [j \in 1 .. 2 |-> IF s.color[@[i][j]] = "white" THEN s.memerrmsg ELSE @[i][j]]]]

(* atomic and entersweep.                                                   *)
Atomic(s) ==
  LET marked == [s EXCEPT !.color = [p \in DOMAIN @ |-> IF p \in DOMAIN s.held THEN "black" ELSE @[p]]]
      cleared == luaS_clearcache(marked)
  IN [cleared EXCEPT !.color = [p \in DOMAIN @ |-> IF @[p] = "white" THEN "old" ELSE @[p]],
                     !.state = "sweep", !.unswept = DOMAIN s.str \ {s.memerrmsg}]

(* One object of sweeplist.                                                 *)
Swept(s, p) ==
  IF s.color[p] = "old"
  THEN [luaS_remove(s, p) EXCEPT !.str = Restrict(@, DOMAIN @ \ {p}), !.color = Restrict(@, DOMAIN @ \ {p}),
                                 !.unswept = @ \ {p}]
  ELSE [s EXCEPT !.color[p] = "white", !.unswept = @ \ {p}]

checkSizes(s, isemergency) ==
  IF ~isemergency /\ s.nuse < Size(s) \div 4 THEN luaS_resize(s, Size(s) \div 2) ELSE s

EndSweep(s, isemergency) ==
  [checkSizes(FoldLeft(Swept, s, SetToSeq(s.unswept)), isemergency) EXCEPT !.state = "pause"]

luaC_fullgc(s, isemergency) ==
  LET whitened == IF s.state = "propagate" THEN [s EXCEPT !.unswept = DOMAIN s.str \ {s.memerrmsg}] ELSE s
      paused == IF s.state = "pause" THEN s ELSE EndSweep(whitened, isemergency)
  IN EndSweep(Atomic(paused), isemergency)

-----------------------------------------------------------------------------
(* An allocation succeeds, or does after an emergency collection (luaM_     *)
(* realloc_), or does not, which is an error.                               *)
Outcome == {"done", "collected", "failed"}
Allocated(s, outcome) == IF outcome = "done" THEN s ELSE luaC_fullgc(s, TRUE)

(* What a function gives: the state and, unless it failed, <<an address>>.  *)
Grown(s, outcome) ==
  LET room == Allocated(s, outcome)
  IN IF s.nuse < Size(s) \/ Size(s) > MaxInt \div 2 THEN s
     ELSE IF outcome = "failed" THEN room ELSE luaS_resize(room, 2 * Size(s))
MustGrow(s) == s.nuse >= Size(s) /\ Size(s) <= MaxInt \div 2

With(f, p, c) == [q \in DOMAIN f \cup {p} |-> IF q = p THEN c ELSE f[q]]

(* createstrobj, and the new string put at the head of its list.            *)
Created(s, c, outcome) ==
  LET room == Allocated(s, outcome)
      free == Pool \ DOMAIN room.str
      p == Min(free)
  IN IF outcome = "failed" \/ free = {} THEN [s |-> room, p |-> <<>>]
     ELSE [s |-> [room EXCEPT !.str = With(@, p, c), !.color = With(@, p, "white"),
                              !.hash[lmod(s, c)] = <<p>> \o @, !.nuse = @ + 1],
           p |-> <<p>>]

changewhite(s, p) == IF s.color[p] = "old" THEN [s EXCEPT !.color[p] = "white"] ELSE s

internshrstr(s, c, grow, create) ==
  LET list == s.hash[lmod(s, c)]
      at == SelectInSeq(list, LAMBDA p : s.str[p] = c)
  IN IF at # 0 THEN [s |-> changewhite(s, list[at]), p |-> <<list[at]>>]
     ELSE IF MustGrow(s) /\ grow = "failed" THEN [s |-> Grown(s, grow), p |-> <<>>]
     ELSE Created(Grown(s, grow), c, create)

(* luaS_new, which looks in the cache first.                                *)
luaS_new(s, i, c, grow, create) ==
  LET hits == {j \in 1 .. 2 : s.str[s.cache[i][j]] = c}
      made == internshrstr([s EXCEPT !.cache[i][2] = s.cache[i][1]], c, grow, create)
  IN IF hits # {} THEN [s |-> s, p |-> <<s.cache[i][Min(hits)]>>]
     ELSE IF made.p = <<>> THEN made
     ELSE [made EXCEPT !.s.cache[i][1] = made.p[1]]

-----------------------------------------------------------------------------
luaS_init(minsize) ==
  LET empty == [hash |-> [i \in 0 .. minsize - 1 |-> <<>>], nuse |-> 0, str |-> <<>>, color |-> <<>>, held |-> <<>>,
                state |-> "pause", unswept |-> {}, cache |-> <<>>, memerrmsg |-> 0]
      made == Created(empty, MEMERRMSG, "done")
  IN [made.s EXCEPT !.memerrmsg = made.p[1], !.color[made.p[1]] = "black",
                    !.cache = [i \in CacheSets |-> <<made.p[1], made.p[1]>>]]

StringInit == \E n \in MinSizes : st = luaS_init(n)

(* The caller puts what it gets on its stack, or gets an error.             *)
Got(r, c) == st' = IF r.p = <<>> THEN r.s ELSE [r.s EXCEPT !.held = With(@, r.p[1], c)]

NewString(c) == \E grow, create \in Outcome : Got(internshrstr(st, c, grow, create), c)
NewCached(i, c) == \E grow, create \in Outcome : Got(luaS_new(st, i, c, grow, create), c)
Drop(p) == p \in DOMAIN st.held /\ st' = [st EXCEPT !.held = Restrict(@, DOMAIN @ \ {p})]

Restart == st.state = "pause" /\ st' = [st EXCEPT !.state = "propagate"]
MarkString(p) ==
  /\ st.state = "propagate" /\ p \in DOMAIN st.held /\ st.color[p] = "white"
  /\ st' = [st EXCEPT !.color[p] = "black"]
FinishMark == st.state = "propagate" /\ st' = Atomic(st)
SweepString(p) == st.state = "sweep" /\ p \in st.unswept /\ st' = Swept(st, p)
FinishSweep == st.state = "sweep" /\ st.unswept = {} /\ st' = EndSweep(st, FALSE)
FullCollect == st' = luaC_fullgc(st, FALSE)

StringNext ==
  \/ \E c \in Content : NewString(c) \/ \E i \in CacheSets : NewCached(i, c)
  \/ \E p \in Pool : Drop(p) \/ MarkString(p) \/ SweepString(p)
  \/ Restart \/ FinishMark \/ FinishSweep \/ FullCollect

StringSpec == StringInit /\ [][StringNext]_st

-----------------------------------------------------------------------------
(* A string the program has is still there, whatever was collected and its  *)
(* place used for since it was found dead in the table or in the cache.     *)
HeldStays == \A p \in DOMAIN st.held : p \in DOMAIN st.str /\ st.str[p] = st.held[p]

(* Equal short strings are the same, as luaV_equalobj takes them to be.     *)
Unique == \A p, q \in DOMAIN st.held : st.held[p] = st.held[q] => p = q

(* The table has each string there is once, in the list of its hash, and    *)
(* nuse counts them.                                                        *)
TableExact ==
  LET all == UNION {ToSet(st.hash[i]) : i \in DOMAIN st.hash}
  IN /\ all = DOMAIN st.str /\ st.nuse = Cardinality(all)
     /\ \A i \in DOMAIN st.hash : IsInjective(st.hash[i]) /\ \A p \in ToSet(st.hash[i]) : lmod(st, st.str[p]) = i
     /\ st.nuse <= Size(st) \/ Size(st) > MaxInt \div 2

(* What the cache gives out is no string that will be collected.            *)
CacheLive == \A i \in CacheSets, j \in 1 .. 2 : st.cache[i][j] \in DOMAIN st.str /\ st.color[st.cache[i][j]] # "old"

InternedRight == HeldStays /\ Unique /\ TableExact /\ CacheLive
=============================================================================
