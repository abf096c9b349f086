------------------------------ MODULE LuaNumber ------------------------------
(* Numbers: lobject.c and lvm.c on the two kinds of them.  An integer has   *)
(* Bits bits.  A float is <<h>>, the number of halves that it is, with the  *)
(* NBM bits of its mantissa; a float too large for every integer stands for *)
(* the infinities, and <<>> is NaN.                                         *)
EXTENDS Integers, Sequences, FiniteSetsExt, SequencesExt, LibraryCall

CONSTANTS Bits, NBM   \* a mantissa has fewer bits than an integer

MININTEGER == -(2 ^ (Bits - 1))
MAXINTEGER == 2 ^ (Bits - 1) - 1
Integer == MININTEGER .. MAXINTEGER
Wrapped(x) == ((x - MININTEGER) % (2 ^ Bits)) + MININTEGER
Unsigned(x) == x % (2 ^ Bits)

(* Conversions that fail, and errors, give nothing; others <<the result>>.  *)
Fault == <<>>
NaN == <<>>
Halves(f) == f[1]

-----------------------------------------------------------------------------
(* The sizes of a constructor, in the bits of a byte (lobject.c).           *)
Shrunk(x, k) == (x + 2 ^ k - 1) \div (2 ^ k)   \* rounded up
RECURSIVE fb(_, _)
fb(x, e) ==
  IF x >= 128 THEN fb(Shrunk(x, 4), e + 4)
  ELSE IF x >= 16 THEN fb(Shrunk(x, 1), e + 1)
  ELSE (e + 1) * 8 + (x - 8)
luaO_int2fb(x) == IF x < 8 THEN x ELSE fb(x, 0)
luaO_fb2int(x) == IF x < 8 THEN x ELSE ((x % 8) + 8) * (2 ^ ((x \div 8) - 1))

RECURSIVE ceillog2(_, _)
ceillog2(x, l) == IF x = 0 THEN l ELSE ceillog2(x \div 2, l + 1)
luaO_ceillog2(x) == ceillog2(x - 1, 0)

-----------------------------------------------------------------------------
(* A numeral of digits, in decimal or not: one too large is no integer, or  *)
(* in hexadecimal loses its first digits (l_str2int).                       *)
LastDigitOf(neg) == (MAXINTEGER % 10) + (IF neg THEN 1 ELSE 0)

l_str2int(neg, hex, digits) ==
  LET by10 == MAXINTEGER \div 10
      base == IF hex THEN 16 ELSE 10
      more(a, d) == IF a < 0 \/ (~hex /\ a >= by10 /\ (a > by10 \/ d > LastDigitOf(neg))) THEN -1
                    ELSE Unsigned(a * base + d)
      a == FoldLeft(more, 0, digits)
  IN IF digits = <<>> \/ a < 0 THEN Fault ELSE <<Wrapped(IF neg THEN -a ELSE a)>>

-----------------------------------------------------------------------------
(* Arithmetic of the machine: division cuts off towards zero.               *)
Abs(x) == IF x < 0 THEN -x ELSE x
Trunc(m, n) == IF (m < 0) = (n < 0) THEN Abs(m) \div Abs(n) ELSE -(Abs(m) \div Abs(n))
Rest(m, n) == m - n * Trunc(m, n)
OtherSigns(m, n) == (m < 0) # (n < 0)

luaV_div(m, n) ==
  CASE n = 0 -> Fault
    [] n = -1 -> <<Wrapped(-m)>>
    [] OTHER -> <<Trunc(m, n) - (IF OtherSigns(m, n) /\ Rest(m, n) # 0 THEN 1 ELSE 0)>>
luaV_mod(m, n) ==
  CASE n = 0 -> Fault
    [] n = -1 -> <<0>>
    [] OTHER -> <<Rest(m, n) + (IF OtherSigns(m, n) /\ Rest(m, n) # 0 THEN n ELSE 0)>>

luaV_shiftl(x, y) ==
  CASE y <= -Bits \/ y >= Bits -> 0
    [] y > -Bits /\ y < 0 -> Wrapped(Unsigned(x) \div (2 ^ (-y)))
    [] y >= 0 /\ y < Bits -> Wrapped(Unsigned(x) * (2 ^ y))

-----------------------------------------------------------------------------
(* Integers and floats.                                                     *)
l_intfitsf(i) == -(2 ^ NBM) <= i /\ i <= 2 ^ NBM
numlt(h, k) == h < k
numle(h, k) == h <= k

LTintfloat(i, f) ==
  IF f = NaN THEN FALSE
  ELSE LET h == Halves(f)
       IN IF l_intfitsf(i) THEN numlt(2 * i, h)
          ELSE IF h >= -2 * MININTEGER THEN TRUE
          ELSE h > 2 * MININTEGER /\ i < Trunc(h, 2)
LEintfloat(i, f) ==
  IF f = NaN THEN FALSE
  ELSE LET h == Halves(f)
       IN IF l_intfitsf(i) THEN numle(2 * i, h)
          ELSE IF h >= -2 * MININTEGER THEN TRUE
          ELSE h >= 2 * MININTEGER /\ i <= Trunc(h, 2)

(* A float with an integer: less is "not less or equal" the other way.      *)
LTfloatint(f, i) == f # NaN /\ ~LEintfloat(i, f)
LEfloatint(f, i) == f # NaN /\ ~LTintfloat(i, f)

(* The integer of a float: exact, its floor or its ceiling.                 *)
luaV_tointeger(f, mode) ==
  IF f = NaN THEN Fault
  ELSE LET n == Halves(f)
           floor == n \div 2
           r == IF n % 2 # 0 /\ mode = "ceil" THEN floor + 1 ELSE floor
       IN IF (n % 2 # 0 /\ mode = "exact") \/ r < MININTEGER \/ r >= -MININTEGER THEN Fault ELSE <<r>>
equalobj(i, f) == luaV_tointeger(f, "exact") = <<i>>

(* The limit of a loop as an integer, and whether the loop is not to run.   *)
forlimit(f, step) ==
  LET p == luaV_tointeger(f, IF step < 0 THEN "ceil" ELSE "floor")
  IN IF p # Fault THEN [p |-> p[1], stopnow |-> FALSE]
     ELSE IF f # NaN /\ Halves(f) > 0 THEN [p |-> MAXINTEGER, stopnow |-> step < 0]
     ELSE [p |-> MININTEGER, stopnow |-> step >= 0]

(* The values that a loop gives its variable, at most max of them.          *)
RECURSIVE forloop(_, _, _, _)
forloop(idx, limit, step, max) ==
  LET next == Wrapped(idx + step)
  IN IF max = 0 \/ ~(IF 0 < step THEN next <= limit ELSE limit <= next) THEN <<>>
     ELSE <<next>> \o forloop(next, limit, step, max - 1)
forprep(init, f, step, max) ==
  LET l == forlimit(f, step)
      start == IF l.stopnow THEN 0 ELSE init
  IN forloop(Wrapped(start - step), l.p, step, max)

-----------------------------------------------------------------------------
CallSizes == Return("sizes", [fb |-> luaO_fb2int(luaO_int2fb(arg)), log |-> luaO_ceillog2(Max({1, arg}))])
CallStr2int == Return("str2int", l_str2int(arg.neg, arg.hex, arg.digits))
CallArith ==
  Return("arith", [div |-> luaV_div(arg[1], arg[2]), mod |-> luaV_mod(arg[1], arg[2]), shift |-> luaV_shiftl(arg[1], arg[2])])
CallCompare ==
  Return("compare", [lt |-> LTintfloat(arg.i, arg.f), le |-> LEintfloat(arg.i, arg.f), gt |-> LTfloatint(arg.f, arg.i),
                     ge |-> LEfloatint(arg.f, arg.i), eq |-> equalobj(arg.i, arg.f)])
CallLoop == Return("for", forprep(arg.init, arg.f, arg.step, 2 ^ Bits))
NumberNext == CallSizes \/ CallStr2int \/ CallArith \/ CallCompare \/ CallLoop

(* A size in a byte is the least that the byte can tell of those not below. *)
SizesRight ==
  Returned("sizes") =>
    /\ Result.fb = Min({luaO_fb2int(b) : b \in 0 .. 135} \cap (arg .. 2 * arg + 1))
    /\ arg > 0 => 2 ^ Result.log >= arg /\ (Result.log > 0 => 2 ^ (Result.log - 1) < arg)

(* A decimal numeral is an integer exactly if there is one of its value.    *)
Value(base, digits) == FoldLeft(LAMBDA a, d : a * base + d, 0, digits)
NumeralRight ==
  Returned("str2int") =>
    LET v == IF arg.neg THEN -Value(IF arg.hex THEN 16 ELSE 10, arg.digits) ELSE Value(IF arg.hex THEN 16 ELSE 10, arg.digits)
    IN Result = IF arg.digits = <<>> \/ (~arg.hex /\ v \notin Integer) THEN Fault ELSE <<Wrapped(v)>>

(* Division and remainder go with the floor, and wrap at the one quotient   *)
(* there is no integer for; a shift moves bits out and zeros in.            *)
Bit(x, k) == k \in 0 .. Bits - 1 /\ (Unsigned(x) \div (2 ^ k)) % 2 = 1
ArithRight ==
  Returned("arith") =>
    LET m == arg[1]
        n == arg[2]
    IN /\ n = 0 => Result.div = Fault /\ Result.mod = Fault
       /\ n # 0 => LET q == Result.div[1]
                       r == Result.mod[1]
                   IN Wrapped(q * n + r) = m /\ (q * n + r = m \/ (m = MININTEGER /\ n = -1))
                      /\ Abs(r) < Abs(n) /\ (r # 0 => (r < 0) = (n < 0))
       /\ \A k \in 0 .. Bits - 1 : Bit(Result.shift, k) = Bit(m, k - n)

(* The comparisons are those of the numbers themselves, though not every    *)
(* integer is a float and no float of that size has a fraction.             *)
CompareRight ==
  Returned("compare") =>
    IF arg.f = NaN THEN Result = [lt |-> FALSE, le |-> FALSE, gt |-> FALSE, ge |-> FALSE, eq |-> FALSE]
    ELSE LET i == 2 * arg.i
             h == Halves(arg.f)
         IN Result = [lt |-> i < h, le |-> i <= h, gt |-> h < i, ge |-> h <= i, eq |-> h = i]

(* A loop over integers gives its variable what the loop over the numbers   *)
(* would, up to a limit of any kind.  Where the step after the last value   *)
(* leaves the integers it wraps and goes on; and with a negative step a     *)
(* limit that is NaN is no limit (lvm.c:137).                               *)
Within(i, f, step) == f # NaN /\ (IF 0 < step THEN 2 * i <= Halves(f) ELSE Halves(f) <= 2 * i)
Ideal(init, f, step) ==
  LET k == Cardinality({n \in 0 .. 2 ^ Bits : init + n * step \in Integer /\ Within(init + n * step, f, step)})
  IN [n \in 1 .. k |-> init + (n - 1) * step]
LoopRight ==
  Returned("for") =>
    LET ideal == Ideal(arg.init, arg.f, arg.step)
    IN IF arg.f = NaN THEN arg.step > 0 => Result = <<>>
       ELSE IF ideal # <<>> /\ Last(ideal) + arg.step \notin Integer THEN IsPrefix(ideal, Result)
       ELSE Result = ideal

NumberRight == SizesRight /\ NumeralRight /\ ArithRight /\ CompareRight /\ LoopRight
=============================================================================
