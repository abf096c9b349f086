------------------------------ MODULE LuaStack ------------------------------
(* lapi.c: what a C function does with its part of the stack, a sequence    *)
(* from the first argument to the top.                                      *)
EXTENDS Integers, Sequences

(* The place of an index, which counts from the top if it is negative.      *)
index2addr(s, idx) == IF idx > 0 THEN idx ELSE Len(s) + 1 + idx

lua_settop(s, idx, nil) ==
  IF idx >= 0 THEN [i \in 1 .. idx |-> IF i <= Len(s) THEN s[i] ELSE nil] ELSE SubSeq(s, 1, Len(s) + 1 + idx)

reverse(s, from, to) == [i \in DOMAIN s |-> IF i \in from .. to THEN s[from + to - i] ELSE s[i]]

lua_rotate(s, idx, n) ==
  LET t == Len(s)
      p == index2addr(s, idx)
      m == IF n >= 0 THEN t - n ELSE p - n - 1
  IN reverse(reverse(reverse(s, p, m), m + 1, t), p, t)

lua_copy(s, from, to) == [s EXCEPT ![index2addr(s, to)] = s[index2addr(s, from)]]
lua_pop(s, n) == SubSeq(s, 1, Len(s) - n)
lua_insert(s, idx) == lua_rotate(s, idx, 1)
lua_remove(s, idx) == lua_pop(lua_rotate(s, idx, -1), 1)
lua_replace(s, idx) == lua_pop(lua_copy(s, -1, idx), 1)
=============================================================================
