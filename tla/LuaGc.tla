------------------------------- MODULE LuaGc -------------------------------
(* The incremental collector of Lua 5.3.4, lgc.c, and the program that      *)
(* changes the heap between its steps.                                      *)
(*                                                                          *)
(* The collector's state is one record, g, as global_State is one struct,   *)
(* and its functions are operators from g to g.  An object is white (0 or   *)
(* 1), Gray or Black; a list is the sequence of its objects; sweepgc is the *)
(* object whose next field it points to, or the name of a list for its      *)
(* head.  Objects of these kinds stand for all: a table, tables with weak   *)
(* values, weak keys or both, a userdata, a string, a thread, and a closure *)
(* whose one upvalue may be open in a thread.                               *)
EXTENDS Integers, Sequences, FiniteSets, SequencesExt, FiniteSetsExt

CONSTANTS
  Main,       \* the main thread, never collected
  Obj,        \* the other objects
  NULL,
  Shapes,     \* [kind, holds, entries, fin]: what may hold what and which may get __gc
  SweepMax,   \* GCSWEEPMAX
  MaxWork,    \* bound: single steps in one luaC_step
  StepOf(_, _), FullOf(_, _)  \* LuaCStep and FullGc, of the collector below

All == Obj \cup {Main}
Gray == 2
Black == 3

VARIABLE g

gcVars == <<g>>

Kind(G, o) == IF o = Main THEN "thread" ELSE G.shape.kind[o]
IsWeak(G, o) == Kind(G, o) \in {"weakv", "ephemeron", "allweak"}
Lists == {"allgc", "finobj", "tobefnz"}

IsWhite(G, o) == G.color[o] < Gray
Alive(G) == ToSet(G.allgc) \cup ToSet(G.finobj) \cup ToSet(G.tobefnz)
KeepInvariant(G) == G.state \in {"propagate", "atomic"}
SweepPhase(G) == G.state \in {"swpallgc", "swpfinobj", "swptobefnz", "swpend"}
IsDead(G, o) == G.color[o] = 1 - G.white
Painted(G, o, c) == [G EXCEPT !.color[o] = c]
Linked(G, list, o) == [G EXCEPT ![list] = <<o>> \o @]

OpenIn(G, th) == G.uv.th = th
UpVal(G) == IF G.uv.val = NULL THEN {} ELSE {G.uv.val}

(* The values of a stack; an open upvalue's value is one of them.           *)
Stack(G, th) == G.vals[th] \cup (IF OpenIn(G, th) THEN UpVal(G) ELSE {})

GcInit ==
  \E shape \in Shapes :
    g = [shape |-> shape, state |-> "pause", white |-> 0, color |-> [o \in All |-> 0], fin |-> {}, finnum |-> 0,
          emergency |-> FALSE, allgc |-> <<>>, finobj |-> <<>>, tobefnz |-> <<>>, sweepgc |-> NULL,
          gray |-> <<>>, grayagain |-> <<>>, weak |-> <<>>, allweak |-> <<>>, ephemeron |-> <<>>,
          vals |-> [o \in All |-> {}], ents |-> [o \in All |-> {}],
          uv |-> [th |-> NULL, val |-> NULL], touched |-> FALSE, twups |-> {}]

-----------------------------------------------------------------------------
(* Marking.                                                                 *)

RECURSIVE Mark(_, _), MarkAll(_, _)

(* reallymarkobject of a white object; markobject and markvalue of any.     *)
Mark(G, o) ==
  IF ~IsWhite(G, o) THEN G
  ELSE CASE Kind(G, o) = "string" -> Painted(G, o, Black)
         [] Kind(G, o) = "udata" -> Painted(MarkAll(Painted(G, o, Gray), G.vals[o]), o, Black)
         [] OTHER -> Linked(Painted(G, o, Gray), "gray", o)

MarkAll(G, S) ==
  IF S = {} THEN G ELSE LET o == CHOOSE x \in S : TRUE IN MarkAll(Mark(G, o), S \ {o})

(* iscleared: strings are values, and marked when asked for.                *)
Cleared(G, o) == Kind(G, o) # "string" /\ IsWhite(G, o)
MarkStrings(G, S) == MarkAll(G, {o \in S : Kind(G, o) = "string"})

Keys(E) == {e[1] : e \in E}
Values(E) == {e[2] : e \in E}

TraverseWeakValue(G, h) ==
  LET M == MarkAll(G, Keys(G.ents[h]))
      hasclears == \E v \in Values(G.ents[h]) : Cleared(M, v)
      N == IF hasclears THEN M ELSE MarkStrings(M, Values(G.ents[h]))
  IN IF G.state = "propagate" THEN Linked(N, "grayagain", h)
     ELSE IF hasclears THEN Linked(N, "weak", h) ELSE N

(* One entry of an ephemeron table: its value is marked if its key is.      *)
EphemeronEntry(e, s) ==
  LET K == MarkStrings(s.G, {e[1]})
      clear == Cleared(K, e[1])
      white == IsWhite(K, e[2])
  IN [G |-> IF clear THEN K ELSE Mark(K, e[2]), clears |-> s.clears \/ clear,
      ww |-> s.ww \/ (clear /\ white), marked |-> s.marked \/ (~clear /\ white)]

(* [G, marked]: the list says what is still to be done for the table.       *)
TraverseEphemeron(G, h) ==
  LET r == FoldSet(EphemeronEntry, [G |-> G, clears |-> FALSE, ww |-> FALSE, marked |-> FALSE], G.ents[h])
  IN [G |-> IF G.state = "propagate" THEN Linked(r.G, "grayagain", h)
            ELSE IF r.ww THEN Linked(r.G, "ephemeron", h)
            ELSE IF r.clears THEN Linked(r.G, "allweak", h) ELSE r.G,
      marked |-> r.marked]

TraverseClosure(G, c) ==
  IF G.uv.th # NULL /\ G.state # "insideatomic" THEN [G EXCEPT !.touched = TRUE]
  ELSE MarkAll(G, UpVal(G))

(* remarkupvals may have taken the thread off the list.                     *)
BackInTwups(G, th) ==
  IF G.state = "insideatomic" /\ OpenIn(G, th) THEN [G EXCEPT !.twups = @ \cup {th}] ELSE G

TraverseThread(G, th) ==
  BackInTwups(MarkAll(Linked(Painted(G, th, Gray), "grayagain", th), Stack(G, th)), th)

TraverseStrong(G, h) == MarkAll(G, G.vals[h])

TraverseTable(G, h) ==
  LET W == Painted(G, h, Gray)
  IN CASE Kind(G, h) = "weakv" -> TraverseWeakValue(W, h)
       [] Kind(G, h) = "ephemeron" -> TraverseEphemeron(W, h).G
       [] Kind(G, h) = "allweak" -> Linked(W, "allweak", h)
       [] OTHER -> TraverseStrong(G, h)

(* propagatemark: the first gray object is traversed and turns black, but   *)
(* weak tables and threads stay gray.                                       *)
Propagate(G) ==
  LET o == Head(G.gray)
      B == Painted([G EXCEPT !.gray = Tail(@)], o, Black)
  IN CASE Kind(G, o) = "closure" -> TraverseClosure(B, o)
       [] Kind(G, o) = "thread" -> TraverseThread(B, o)
       [] OTHER -> TraverseTable(B, o)

RECURSIVE PropagateAll(_), Converge(_)
PropagateAll(G) == IF G.gray = <<>> THEN G ELSE PropagateAll(Propagate(G))

(* convergeephemerons: until no table of the list marks anything.  The slip *)
(* of what one pass over each table has left.                               *)
NoConverge(G) == G
Converge(G) ==
  LET Pass(s, w) ==
        LET T == TraverseEphemeron(s.G, w)
        IN IF T.marked THEN [G |-> PropagateAll(T.G), changed |-> TRUE] ELSE [s EXCEPT !.G = T.G]
      r == FoldLeft(Pass, [G |-> [G EXCEPT !.ephemeron = <<>>], changed |-> FALSE], G.ephemeron)
  IN IF r.changed THEN Converge(r.G) ELSE r.G

(* The first Len(list) - keep tables of a list, linked since keep were.     *)
Since(list, keep) == SubSeq(list, 1, Len(list) - keep)

Drop(G, h, Gone(_, _)) ==
  LET M == MarkStrings(G, Keys(G.ents[h]) \cup Values(G.ents[h]))
  IN [M EXCEPT !.ents[h] = {e \in @ : ~Gone(M, e)}]

ClearKeys(G, list) ==
  FoldLeft(LAMBDA M, h : Drop(M, h, LAMBDA H, e : Cleared(H, e[1])), G, list)
ClearValues(G, list) ==
  FoldLeft(LAMBDA M, h : Drop(M, h, LAMBDA H, e : Cleared(H, e[2])), G, list)

(* remarkupvals: values of touched upvalues open in unmarked threads.       *)
RemarkUpvals(G) ==
  LET out == {th \in G.twups : IsWhite(G, th) \/ ~OpenIn(G, th)}
      R == [G EXCEPT !.twups = @ \ out]
  IN IF G.uv.th \in out /\ G.touched THEN [MarkAll(R, UpVal(G)) EXCEPT !.touched = FALSE] ELSE R

(* separatetobefnz: in the order of finobj, to the end of tobefnz.  The     *)
(* slip of a collector that separates all it could finalize.                *)
SeparateEvery(G, all) == [G EXCEPT !.tobefnz = @ \o G.finobj, !.finobj = <<>>]
Separate(G, all) ==
  [G EXCEPT !.tobefnz = @ \o SelectSeq(G.finobj, LAMBDA o : all \/ IsWhite(G, o)),
            !.finobj = SelectSeq(@, LAMBDA o : ~(all \/ IsWhite(G, o)))]

ClearResurrected(G, weak, all) ==
  ClearValues(ClearValues(G, Since(G.weak, weak)), Since(G.allweak, all))

MarkBeingFnz(G) == MarkAll(G, ToSet(G.tobefnz))

(* atomic: marking is completed with the program stopped, then weak tables  *)
(* are cleared, finalizers chosen and what they need marked again.          *)
Atomic(G) ==
  LET marked == PropagateAll(RemarkUpvals(Mark([G EXCEPT !.state = "insideatomic"], Main)))
      again == Converge(PropagateAll([marked EXCEPT !.gray = G.grayagain]))
      cleared == ClearValues(ClearValues(again, again.weak), again.allweak)
      sep == [Separate(cleared, FALSE) EXCEPT !.finnum = 1]
      fnz == Converge(PropagateAll(MarkBeingFnz(sep)))
      keyed == ClearKeys(ClearKeys(fnz, fnz.ephemeron), fnz.allweak)
      done == ClearResurrected(keyed, Len(cleared.weak), Len(cleared.allweak))
  IN [done EXCEPT !.white = 1 - @]

-----------------------------------------------------------------------------
(* Sweeping.                                                                *)

ListOf(G, p) == IF p \in Lists THEN p ELSE CHOOSE l \in Lists : p \in ToSet(G[l])
Place(G, p) == IF p \in Lists THEN 0 ELSE CHOOSE k \in DOMAIN G[ListOf(G, p)] : G[ListOf(G, p)][k] = p
AtEnd(G, p) == Place(G, p) = Len(G[ListOf(G, p)])

(* freeobj: a thread closes its upvalues as it goes.                        *)
Freed(G, o) ==
  [G EXCEPT !.vals[o] = {}, !.ents[o] = {}, !.color[o] = 0, !.twups = @ \ {o},
            !.uv.th = IF @ = o THEN NULL ELSE @]

(* sweeplist: [G, p] after at most count objects from p on.                 *)
RECURSIVE SweepList(_, _, _)
SweepList(G, p, count) ==
  IF AtEnd(G, p) THEN [G |-> G, p |-> NULL]
  ELSE IF count = 0 THEN [G |-> G, p |-> p]
  ELSE LET l == ListOf(G, p)
           k == Place(G, p) + 1
           curr == G[l][k]
       IN IF IsDead(G, curr) THEN SweepList(Freed([G EXCEPT ![l] = RemoveAt(@, k)], curr), p, count - 1)
          ELSE SweepList(Painted(G, curr, G.white), curr, count - 1)

RECURSIVE SweepToLive(_, _)
SweepToLive(G, p) ==
  LET r == SweepList(G, p, 1) IN IF r.p = p THEN SweepToLive(r.G, p) ELSE r

Swept(r) == [r.G EXCEPT !.sweepgc = r.p]
EnterSweep(G) == Swept(SweepList([G EXCEPT !.state = "swpallgc"], "allgc", 1))

SweepStep(G, nextstate, nextlist) ==
  LET S == IF G.sweepgc = NULL THEN G ELSE Swept(SweepList(G, G.sweepgc, SweepMax))
  IN IF S.sweepgc # NULL THEN S ELSE [S EXCEPT !.state = nextstate, !.sweepgc = nextlist]

-----------------------------------------------------------------------------
(* Finalizers.                                                              *)

ReturnedColor(G, o) == IF SweepPhase(G) THEN G.white ELSE G.color[o]

BitReset(G, o) == G.fin \ {o}

(* udata2finalize and GCTM: the first object of tobefnz goes back to allgc  *)
(* and is the argument of its finalizer, on the stack.                      *)
Finalize(G) ==
  LET o == Head(G.tobefnz)
  IN [G EXCEPT !.tobefnz = Tail(@), !.allgc = <<o>> \o @, !.fin = BitReset(G, o),
               !.color[o] = ReturnedColor(G, o), !.vals[Main] = @ \cup {o}]

RECURSIVE FinalizeSome(_, _)
FinalizeSome(G, n) == IF G.tobefnz = <<>> \/ n = 0 THEN G ELSE FinalizeSome(Finalize(G), n - 1)

(* runafewfinalizers; gcfinnum is bounded by what there can be to finalize. *)
RunAFew(G) ==
  LET F == FinalizeSome(G, G.finnum)
  IN [F EXCEPT !.finnum = IF F.tobefnz = <<>> THEN 0 ELSE Min({2 * @, Cardinality(Obj)})]

(* The slip of an object that stays where sweepgc points.                   *)
UnlinkedCareless(G, o) == G
Unlinked(G, o) == IF G.sweepgc = o THEN Swept(SweepToLive(G, o)) ELSE G

(* luaC_checkfinalizer.                                                     *)
CheckFinalizer(G, o) ==
  IF o \in G.fin THEN G
  ELSE LET S == IF SweepPhase(G) THEN Unlinked(Painted(G, o, G.white), o) ELSE G
       IN [S EXCEPT !.allgc = SelectSeq(@, LAMBDA x : x # o), !.finobj = <<o>> \o @,
                    !.fin = @ \cup {o}]

-----------------------------------------------------------------------------
(* singlestep, luaC_step and luaC_fullgc.                                   *)

Restart(G) ==
  LET E == [G EXCEPT !.gray = <<>>, !.grayagain = <<>>, !.weak = <<>>, !.allweak = <<>>, !.ephemeron = <<>>]
  IN [MarkBeingFnz(Mark(E, Main)) EXCEPT !.state = "propagate"]

SingleStep(G) ==
  CASE G.state = "pause" -> Restart(G)
    [] G.state = "propagate" -> LET P == Propagate(G)
                                IN IF P.gray = <<>> THEN [P EXCEPT !.state = "atomic"] ELSE P
    [] G.state = "atomic" -> EnterSweep(Atomic(PropagateAll(G)))
    [] G.state = "swpallgc" -> SweepStep(G, "swpfinobj", "finobj")
    [] G.state = "swpfinobj" -> SweepStep(G, "swptobefnz", "tobefnz")
    [] G.state = "swptobefnz" -> SweepStep(G, "swpend", NULL)
    [] G.state = "swpend" -> [Painted(G, Main, G.white) EXCEPT !.state = "callfin"]
    [] OTHER -> IF G.tobefnz # <<>> /\ ~G.emergency THEN RunAFew(G) ELSE [G EXCEPT !.state = "pause"]

RECURSIVE Steps(_, _), RunUntil(_, _)
Steps(G, n) == IF n = 0 \/ G.state = "pause" THEN G ELSE Steps(SingleStep(G), n - 1)
RunUntil(G, states) == IF G.state \in states THEN G ELSE RunUntil(SingleStep(G), states)

(* luaC_step: how many single steps the debt pays for is left open; then a  *)
(* few finalizers, unless the cycle is over.                                *)
LuaCStep(G, n) ==
  LET S == Steps(SingleStep(G), n - 1) IN IF S.state = "pause" THEN S ELSE RunAFew(S)

(* The slip of a full cycle that only finishes the one under way.           *)
FullGcLazy(G, isemergency) == RunUntil(SingleStep(G), {"pause"})

FullGc(G, isemergency) ==
  LET E == [G EXCEPT !.emergency = isemergency]
      S == IF KeepInvariant(E) THEN EnterSweep(E) ELSE E
      C == RunUntil(SingleStep(RunUntil(S, {"pause"})), {"pause"})
  IN [C EXCEPT !.emergency = FALSE]

-----------------------------------------------------------------------------
(* What the program does between two steps of the collector.  It reaches    *)
(* what its stack reaches, weak tables' entries included.                   *)

Children(G, o) ==
  G.vals[o] \cup Keys(G.ents[o]) \cup Values(G.ents[o])
    \cup (IF Kind(G, o) = "closure" THEN UpVal(G) ELSE {}) \cup (IF OpenIn(G, o) THEN UpVal(G) ELSE {})

RECURSIVE ReachedFrom(_, _)
ReachedFrom(G, S) ==
  LET T == S \cup UNION {Children(G, o) : o \in S} IN IF T = S THEN S ELSE ReachedFrom(G, T)

Accessible(G) == ReachedFrom(G, {Main})

(* luaC_newobj, luaC_white.  A closure's upvalue is open in the thread      *)
(* that creates it (luaF_findupval).                                        *)
New(o) ==
  /\ o \notin Alive(g) /\ Kind(g, o) # "none"
  /\ \E th \in IF Kind(g, o) = "closure" THEN {t \in Accessible(g) : Kind(g, t) = "thread"} ELSE {Main} :
       LET N == [Painted(g, o, g.white) EXCEPT !.allgc = <<o>> \o @, !.vals[Main] = @ \cup {o}]
       IN g' = IF Kind(g, o) # "closure" THEN N
               ELSE [N EXCEPT !.uv = [th |-> th, val |-> NULL], !.touched = TRUE, !.twups = @ \cup {th}]

(* luaC_barrier_ and luaC_barrierback_, behind their macros' test.  The     *)
(* slip of none.                                                            *)
NoBarrier(G, p, v) == G
BarrierForward(G, p, v) ==
  IF G.color[p] = Black /\ IsWhite(G, v)
  THEN IF KeepInvariant(G) THEN Mark(G, v) ELSE Painted(G, p, G.white)
  ELSE G
BarrierBack(G, t, v) ==
  IF G.color[t] = Black /\ IsWhite(G, v) THEN Linked(Painted(G, t, Gray), "grayagain", t) ELSE G

(* A store into a table, a userdata or a stack, which needs no barrier.     *)
Store(p, v) ==
  /\ <<p, v>> \in g.shape.holds /\ Kind(g, p) # "closure"
  /\ v \notin g.vals[p] /\ {p, v} \subseteq Accessible(g)
  /\ LET G == CASE Kind(g, p) = "table" -> BarrierBack(g, p, v)
                [] Kind(g, p) = "udata" -> BarrierForward(g, p, v)
                [] OTHER -> g
     IN g' = [G EXCEPT !.vals[p] = @ \cup {v}]

StoreEntry(t, k, v) ==
  /\ <<k, v>> \notin g.ents[t] /\ {t, k, v} \subseteq Accessible(g)
  /\ g' = [BarrierBack(BarrierBack(g, t, k), t, v) EXCEPT !.ents[t] = {e \in @ : e[1] # k} \cup {<<k, v>>}]

Erase(p, v) ==
  /\ v \in g.vals[p] \cup Keys(g.ents[p]) /\ p \in Accessible(g)
  /\ g' = [g EXCEPT !.vals[p] = @ \ {v}, !.ents[p] = {e \in @ : e[1] # v}]

(* luaC_upvalbarrier_.                                                      *)
UpvalBarrier(G) == IF G.uv.th = NULL /\ KeepInvariant(G) THEN MarkAll(G, UpVal(G)) ELSE G

SetUpval(c, v) ==
  /\ Kind(g, c) = "closure" /\ <<c, v>> \in g.shape.holds /\ v # g.uv.val /\ {c, v} \subseteq Accessible(g)
  /\ g' = UpvalBarrier([g EXCEPT !.uv.val = v])

(* luaF_close of a thread that leaves the block of the variable.            *)
CloseUpval ==
  /\ g.uv.th \in Accessible(g)
  /\ g' = UpvalBarrier([g EXCEPT !.uv.th = NULL])

(* lua_setmetatable with a metatable that has __gc.                         *)
SetFinalizer(o) ==
  /\ o \in g.shape.fin \cap Accessible(g) \cap Alive(g) /\ o \notin g.fin
  /\ g' = CheckFinalizer(g, o)

Program ==
  \/ \E o \in Obj : New(o) \/ SetFinalizer(o)
  \/ \E p \in All, v \in Obj : Store(p, v) \/ Erase(p, v) \/ SetUpval(p, v)
  \/ \E t \in {o \in Obj : IsWeak(g, o)}, e \in g.shape.entries : StoreEntry(t, e[1], e[2])
  \/ CloseUpval

Step == \E n \in 1 .. MaxWork : g' = StepOf(g, n)
Full(isemergency) == g' = FullOf(g, isemergency)

GcNext == Program \/ Step \/ \E e \in BOOLEAN : Full(e)

GcSpec == GcInit /\ [][GcNext]_gcVars

-----------------------------------------------------------------------------
(* What a strong reference is: any but a weak value, a weak key, and the    *)
(* value of an entry whose key is not itself reached; strings are values,   *)
(* which weak tables keep.                                                  *)
RECURSIVE StrongFrom(_, _)
StrongFrom(G, S) ==
  LET Refs(o) == Keys(G.ents[o]) \cup Values(G.ents[o])
      Strings(o) == {x \in Refs(o) : Kind(G, x) = "string"}
      Via(o) == CASE Kind(G, o) = "weakv" -> Keys(G.ents[o]) \cup Strings(o)
                  [] Kind(G, o) = "ephemeron" ->
                       {e[2] : e \in {d \in G.ents[o] : d[1] \in S \cup Strings(o)}} \cup Strings(o)
                  [] Kind(G, o) = "allweak" -> Strings(o)
                  [] OTHER -> Children(G, o)
      T == S \cup UNION {Via(o) : o \in S}
  IN IF T = S THEN S ELSE StrongFrom(G, T)

Strong(G) == StrongFrom(G, {Main})

(* No object is in two lists, or twice in one.                              *)
GcTypeOK ==
  /\ g.shape \in Shapes
  /\ g.color \in [All -> 0 .. Black] /\ g.white \in 0 .. 1
  /\ \A l, m \in Lists : l # m => ToSet(g[l]) \cap ToSet(g[m]) = {}
  /\ \A l \in Lists : IsInjective(g[l])
  /\ g.sweepgc \in Lists \cup Alive(g) \cup {NULL}
  /\ g.fin = ToSet(g.finobj) \cup ToSet(g.tobefnz)

(* No object the program can still reach, through a weak table or an        *)
(* upvalue of a dead thread as well, is freed or condemned to be.           *)
NothingLost ==
  \A o \in Accessible(g) \ {Main} :
    o \in Alive(g) /\ (g.state \notin {"propagate", "atomic"} => ~IsDead(g, o))

(* "a black object can never point to a white one" (lgc.h:22) while the     *)
(* invariant is kept, whatever the program stores between two steps.        *)
BlackToWhiteNever ==
  KeepInvariant(g) =>
    \A o \in Alive(g) : g.color[o] = Black =>
      \A c \in (IF Kind(g, o) = "closure" /\ g.uv.th # NULL THEN {} ELSE Children(g, o)) : ~IsWhite(g, c)

(* "any gray object must be in a gray list" (lgc.h:23), and in one only,    *)
(* for its gclist field is one.                                             *)
GrayLists == <<"gray", "grayagain", "weak", "allweak", "ephemeron">>
GrayListed ==
  KeepInvariant(g) =>
    \A o \in Alive(g) \cup {Main} : g.color[o] = Gray =>
      Cardinality({<<i, k>> \in (1 .. 5) \X (1 .. 2 * Cardinality(All)) :
                     k <= Len(g[GrayLists[i]]) /\ g[GrayLists[i]][k] = o}) = 1

(* A thread that has an open upvalue and will be traversed is in twups, the *)
(* assertion of lgc.c:534, so that no value of an open upvalue is missed.   *)
ThreadsListed ==
  \A th \in ToSet(g.gray) : Kind(g, th) = "thread" /\ OpenIn(g, th) => th \in g.twups

(* The collector's book-keeping between any two steps.                      *)
TriColour == GcTypeOK /\ BlackToWhiteNever /\ GrayListed /\ ThreadsListed

(* "sweep ends and all objects are white again" (lgc.h:61).                 *)
WhiteAgain == g.state \in {"callfin", "pause"} => \A o \in Alive(g) : g.color[o] = g.white

(* A finalizer is chosen for an object only if the program cannot reach it. *)
FinalizesGarbage ==
  [][\A o \in ToSet(g'.tobefnz) \ ToSet(g.tobefnz) : o \notin Strong(g)]_gcVars

(* The collector removes an entry from a weak table only if its weak value  *)
(* was garbage, or its weak key was and no finalizer chosen needs it; never *)
(* for a string.                                                            *)
WeakKept ==
  [][g'.ents # g.ents /\ Step => \A t \in Obj : \A e \in g.ents[t] \ g'.ents[t] :
       LET needed == StrongFrom(g, {Main} \cup (g.fin \ ToSet(g'.finobj)))
       IN \/ t \notin needed
          \/ Kind(g, t) # "weakv" /\ e[1] \notin needed /\ Kind(g, e[1]) # "string"
          \/ Kind(g, t) # "ephemeron" /\ e[2] \notin Strong(g) /\ Kind(g, e[2]) # "string"]_gcVars

(* What the collector takes away is garbage.                                *)
GarbageOnly == FinalizesGarbage /\ WeakKept

(* A full collection frees everything the program cannot reach, but for     *)
(* what waits for a finalizer, is needed by one or was once in an upvalue   *)
(* of a coroutine that died with it open.                                   *)
FullCollects ==
  LET kept == StrongFrom(g, {Main} \cup g.fin \cup (IF g.touched THEN UpVal(g) ELSE {}))
  IN \A e \in BOOLEAN : Alive(FullOf(g, e)) \subseteq kept
=============================================================================
