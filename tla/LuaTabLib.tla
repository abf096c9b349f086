------------------------------ MODULE LuaTabLib ------------------------------
(* The table library, ltablib.c.  A table is a function from the integers   *)
(* of a Lua integer's range to values, NilValue where it has none.               *)
EXTENDS Integers, Sequences, FiniteSetsExt, SequencesExt, LibraryCall

CONSTANTS NilValue,
          LUA_MAXINTEGER,  \* integers go from -LUA_MAXINTEGER - 1 to it
          INT_MAX,         \* the largest int
          StackRoom,       \* how many values the stack has room for
          RANLIMIT,        \* intervals from here on may use a random pivot; 4 at least
          Imbalance        \* a part this many times the other is imbalanced

Integer == -LUA_MAXINTEGER - 1 .. LUA_MAXINTEGER
Table(s) == [k \in Integer |-> IF k \in DOMAIN s THEN s[k] ELSE NilValue]

(* What a function gives: <<its value>>, or nothing if it raised an error.  *)
Fault == <<>>

-----------------------------------------------------------------------------
(* insert, of a table of size entries, at pos or without one at its end.    *)
tinsert(t, size, pos, v) ==
  LET e == size + 1
      up(u, i) == [u EXCEPT ![i] = u[i - 1]]
  IN IF pos \notin 1 .. e THEN Fault
     ELSE <<[FoldLeft(up, t, [k \in 1 .. e - pos |-> e + 1 - k]) EXCEPT ![pos] = v]>>

tremove(t, size, pos) ==
  LET down(u, i) == [u EXCEPT ![i] = u[i + 1]]
  IN IF pos # size /\ pos \notin 1 .. size + 1 THEN Fault
     ELSE <<[v |-> t[pos],
             t |-> [FoldLeft(down, t, [k \in 1 .. size - pos |-> pos + k - 1]) EXCEPT ![Max({pos, size})] = NilValue]]>>

(* Copies [f, e] of a to t onwards in b, which is a itself if same.         *)
Upwards(f, e, t, same) == t > e \/ t <= f \/ ~same

tmove(a, b, f, e, t, same) ==
  LET n == e - f + 1
      copied(u, i) == [u EXCEPT ![t + i] = IF same THEN u[f + i] ELSE a[f + i]]
      order == [k \in 1 .. n |-> IF Upwards(f, e, t, same) THEN k - 1 ELSE n - k]
  IN IF e < f THEN <<b>>
     ELSE IF ~(f > 0 \/ e < LUA_MAXINTEGER + f) \/ t > LUA_MAXINTEGER - n + 1 THEN Fault
     ELSE <<FoldLeft(copied, b, order)>>

RECURSIVE tconcat_from(_, _, _, _)
tconcat_from(t, sep, i, last) ==
  IF i > last THEN <<<<>>>>
  ELSE IF t[i] = NilValue THEN Fault
  ELSE LET rest == tconcat_from(t, sep, i + 1, last)
       IN IF i = last THEN <<<<t[i]>>>> ELSE IF rest = Fault THEN Fault ELSE <<<<t[i]>> \o sep \o rest[1]>>

pack(s) == [t |-> Table(s), n |-> Len(s)]

unpack(t, i, e) ==
  IF i > e THEN <<<<>>>>
  ELSE IF e - i >= INT_MAX \/ e - i + 1 > StackRoom THEN Fault
  ELSE <<[k \in 1 .. e - i + 1 |-> t[i + k - 1]]>>

-----------------------------------------------------------------------------
(* sort, with the order lt of whoever calls it, true to an order or not.    *)
Swapped(a, i, j) == [a EXCEPT ![i] = a[j], ![j] = a[i]]
Less(lt, x, y) == <<x, y>> \in lt

(* The places of lo, p and up put in order; then the pivot before up.       *)
EndsOrdered(a, lt, lo, up) == IF Less(lt, a[up], a[lo]) THEN Swapped(a, lo, up) ELSE a
MiddleOrdered(a, lt, lo, p, up) ==
  IF Less(lt, a[p], a[lo]) THEN Swapped(a, p, lo)
  ELSE IF Less(lt, a[up], a[p]) THEN Swapped(a, p, up) ELSE a

RECURSIVE partition(_, _, _, _, _)
partition(a, lt, i, j, up) ==
  LET P == a[up - 1]
      notLess == {k \in i + 1 .. up - 1 : ~Less(lt, a[k], P)}
      i2 == Min(notLess)
      notMore == {k \in Min({i2, j}) - 1 .. j - 1 : ~Less(lt, P, a[k])}
      j2 == Max(notMore)
  IN IF notLess = {} \/ notMore = {} THEN Fault  \* invalid order function
     ELSE IF j2 < i2 THEN <<[a |-> Swapped(a, up - 1, i2), p |-> i2]>>
     ELSE partition(Swapped(a, i2, j2), lt, i2, j2, up)

choosePivot(lo, up, rnd) == LET r4 == (up - lo) \div 4 IN (rnd % (r4 * 2)) + lo + r4

(* The slip: the recursive call is for the larger part.                     *)
LargerFirst(lo, p, up) == p - lo >= up - p
SmallerFirst(lo, p, up) == p - lo < up - p

(* st.depth is how deep calls for two elements or more have been; random    *)
(* what l_randomizePivot, a mixture of the two clocks, gives.               *)
RECURSIVE auxsort(_, _, _, _, _, _, _)
auxsort(st, lt, lo, up, rnd, random, depth) ==
  LET here == [st EXCEPT !.depth = Max({depth, @})]
      a1 == EndsOrdered(st.a, lt, lo, up)
      p == IF up - lo < RANLIMIT \/ rnd = 0 THEN (lo + up) \div 2 ELSE choosePivot(lo, up, rnd)
      a2 == MiddleOrdered(a1, lt, lo, p, up)
      cut == partition(Swapped(a2, p, up - 1), lt, lo, up - 1, up)
      q == cut[1].p
      lower == SmallerFirst(lo, q, up)
      inner == auxsort([here EXCEPT !.a = cut[1].a], lt,
                       IF lower THEN lo ELSE q + 1, IF lower THEN q - 1 ELSE up, rnd, random, depth + 1)
      lo2 == IF lower THEN q + 1 ELSE lo
      up2 == IF lower THEN up ELSE q - 1
      n == IF lower THEN q - lo ELSE up - q
  IN IF lo >= up THEN st
     ELSE IF up - lo = 1 THEN [here EXCEPT !.a = a1]
     ELSE IF up - lo = 2 THEN [here EXCEPT !.a = a2]
     ELSE IF cut = Fault THEN [here EXCEPT !.ok = FALSE]
     ELSE IF ~inner.ok THEN inner
     ELSE auxsort(inner, lt, lo2, up2, IF (up2 - lo2) \div Imbalance > n THEN random ELSE rnd, random, depth)

sort(a, lt, random) ==
  LET st == [a |-> a, ok |-> TRUE, depth |-> 1]
  IN IF Len(a) > 1 THEN auxsort(st, lt, 1, Len(a), 0, random, 1) ELSE st

-----------------------------------------------------------------------------
CallInsert == Return("table.insert", tinsert(Table(arg.s), Len(arg.s), arg.pos, "new"))
CallRemove == Return("table.remove", tremove(Table(arg.s), Len(arg.s), arg.pos))
CallMove == Return("table.move", tmove(arg.a, arg.b, arg.f, arg.e, arg.t, arg.same))
CallUnpack == Return("table.unpack", unpack(arg.t, arg.i, arg.e))
CallConcat == Return("table.concat", [all |-> tconcat_from(Table(arg.s), <<",">>, arg.i, arg.e), packed |-> pack(arg.s)])
CallSort == Return("table.sort", sort(arg.a, arg.lt, arg.random))
TabLibNext == CallInsert \/ CallRemove \/ CallMove \/ CallUnpack \/ CallConcat \/ CallSort

(* insert and remove shift the sequence by one and refuse the places that   *)
(* are not of it; remove also clears what is at the place after its end,    *)
(* and at 0 if it is empty.                                                 *)
ShiftsRight ==
  /\ Returned("table.insert") =>
       Result = IF arg.pos \in 1 .. Len(arg.s) + 1 THEN <<Table(InsertAt(arg.s, arg.pos, "new"))>> ELSE Fault
  /\ Returned("table.remove") =>
       IF arg.pos \in DOMAIN arg.s
       THEN Result = <<[v |-> arg.s[arg.pos], t |-> Table(RemoveAt(arg.s, arg.pos))]>>
       ELSE Result = IF arg.pos = Len(arg.s) + 1 \/ (arg.s = <<>> /\ arg.pos = 0)
                     THEN <<[v |-> NilValue, t |-> Table(arg.s)]>> ELSE Fault

(* move puts the values that were in the range at their new places and      *)
(* changes nothing else, however the ranges overlap, and refuses exactly    *)
(* what would leave the integers or have more than LUA_MAXINTEGER elements. *)
MoveRight ==
  Returned("table.move") =>
    LET shift == arg.t - arg.f
        moved(k) == k - shift \in arg.f .. arg.e
        fits == arg.e - arg.f + 1 <= LUA_MAXINTEGER /\ arg.e + shift <= LUA_MAXINTEGER
    IN IF arg.e < arg.f THEN Result = <<arg.b>>
       ELSE IF ~fits THEN Result = Fault
       ELSE Result = <<[k \in Integer |-> IF moved(k) THEN arg.a[k - shift] ELSE arg.b[k]]>>

(* unpack gives the range, up to the last integer, or refuses it; concat    *)
(* gives it with separators, or finds a value that is missing.              *)
RangesRight ==
  /\ Returned("table.unpack") =>
       LET range == IF arg.i > arg.e THEN <<>> ELSE [k \in 1 .. arg.e - arg.i + 1 |-> arg.t[arg.i + k - 1]]
       IN Result = IF Len(range) > StackRoom THEN Fault ELSE <<range>>
  /\ Returned("table.concat") =>
       LET range == {k \in Integer : arg.i <= k /\ k <= arg.e}
       IN /\ Result.all # Fault <=> range \subseteq DOMAIN arg.s
          /\ Result.all # Fault /\ range # {} =>
               SelectSeq(Result.all[1], LAMBDA x : x # ",") = SubSeq(arg.s, arg.i, arg.e)

(* Without ties that contradict each other: a strict weak order.            *)
StrictWeak(lt, V) ==
  LET tied(x, y) == <<x, y>> \notin lt /\ <<y, x>> \notin lt
  IN /\ \A x \in V : <<x, x>> \notin lt
     /\ \A x, y, z \in V : <<x, y>> \in lt /\ <<y, z>> \in lt => <<x, z>> \in lt
     /\ \A x, y, z \in V : tied(x, y) /\ tied(y, z) => tied(x, z)

(* sort sorts by any strict weak order.  With a function that is none it    *)
(* ends too, and what it leaves is the same values, or it raises an error;  *)
(* and it calls itself no deeper than halving the size again and again      *)
(* allows.                                                                  *)
SortRight ==
  Returned("table.sort") =>
    LET a == arg.a
        copies(b, v) == Cardinality({k \in DOMAIN b : b[k] = v})
    IN /\ \A v \in ToSet(a) : copies(Result.a, v) = copies(a, v)
       /\ 3 * 2 ^ (Result.depth - 1) - 1 <= Max({2, Len(a)})
       /\ StrictWeak(arg.lt, ToSet(a)) =>
            Result.ok /\ \A i, j \in DOMAIN a : i < j => <<Result.a[j], Result.a[i]>> \notin arg.lt

TabLibRight == ShiftsRight /\ MoveRight /\ RangesRight /\ SortRight
=============================================================================
