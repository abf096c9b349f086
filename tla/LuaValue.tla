------------------------------ MODULE LuaValue ------------------------------
(* Lua's values, as far as compiled programs tell them apart: <<type, x>>.  *)
(* A table or a closure is its address.  Numbers are integers.              *)
EXTENDS Integers, Sequences, SequencesExt, FiniteSetsExt, TLC

Nil == <<"nil", 0>>
Bool(b) == <<"bool", IF b THEN 1 ELSE 0>>
Num(n) == <<"int", n>>
Str(x) == <<"str", x>>

Falsy(v) == v \in {Nil, Bool(FALSE)}
IsInt(v) == v[1] = "int"

Floored(a, b) == IF b < 0 THEN (-a) \div (-b) ELSE a \div b
Arith(op, a, b) ==
  CASE op = "ADD" -> a + b
    [] op = "SUB" -> a - b
    [] op = "MUL" -> a * b
    [] op = "IDIV" -> Floored(a, b)
    [] op = "MOD" -> a - b * Floored(a, b)
    [] op = "UNM" -> -a
Defined(op, a, b) == op \in {"IDIV", "MOD"} => b # 0

Text(v) == IF IsInt(v) THEN ToString(v[2]) ELSE v[2]
Joinable(v) == v[1] \in {"int", "str"}

Multret == -1
(* A number of values, the missing ones nil.                                *)
Adjusted(vs, n) == [i \in 1 .. n |-> IF i <= Len(vs) THEN vs[i] ELSE Nil]

(* The length of a table that has no border but one: that of a sequence.    *)
Border(t) == CHOOSE n \in 0 .. Cardinality(DOMAIN t) :
  /\ Num(n + 1) \notin DOMAIN t
  /\ \A i \in 1 .. n : Num(i) \in DOMAIN t
Entry(t, k) == IF k \in DOMAIN t THEN t[k] ELSE Nil
WithEntry(t, k, v) ==
  [x \in (DOMAIN t \cup {k}) \ (IF v = Nil THEN {k} ELSE {}) |-> IF x = k THEN v ELSE t[x]]
=============================================================================
