------------------------------ MODULE LuaText ------------------------------
(* The functions of strings that need no pattern, lstrlib.c, and UTF-8,     *)
(* lutf8lib.c and lobject.c.  A string is a sequence of bytes, which are    *)
(* numbers.  A Lua integer is wider than a size_t of SIZEBITS bits.         *)
EXTENDS Integers, Sequences, FiniteSetsExt, SequencesExt, LibraryCall

CONSTANTS SIZEBITS,
          MAXSIZE     \* the size of the longest string

(* What a function gives: <<its value>>, or nothing if it raised an error.  *)
Fault == <<>>

size_t(x) == x % (2 ^ SIZEBITS)
posrelat(pos, len) == IF pos >= 0 THEN pos ELSE IF size_t(-size_t(pos)) > len THEN 0 ELSE len + pos + 1

str_sub(s, i, j) == SubSeq(s, Max({1, posrelat(i, Len(s))}), Min({Len(s), posrelat(j, Len(s))}))
str_byte(s, i, j) == str_sub(s, i, j)
str_reverse(s) == [i \in DOMAIN s |-> s[Len(s) - i + 1]]
str_char(codes) == IF \A i \in DOMAIN codes : codes[i] = codes[i] % 256 THEN <<codes>> ELSE Fault

str_rep(s, n, sep) ==
  CASE n <= 0 -> <<<<>>>>
    [] n > 0 /\ Len(s) + Len(sep) > MAXSIZE \div n -> Fault
    [] OTHER -> <<FlattenSeq([k \in 1 .. n - 1 |-> s \o sep]) \o s>>

(* The place where unpack begins, from 0, if it finds it in the string.     *)
unpack_start(pos, len) ==
  LET p == size_t(posrelat(pos, len) - 1)
  IN IF p > len THEN Fault ELSE <<p>>

-----------------------------------------------------------------------------
(* A code point in the fewest bytes: 6 bits in each but the first, which    *)
(* begins with as many ones as there are bytes.                             *)
MAXUNICODE == 1114111
UTF8BUFFSZ == 8

RECURSIVE continued(_, _, _)
continued(x, mfb, bytes) ==
  LET more == <<128 + (x % 64)>> \o bytes
      rest == x \div 64
      first == mfb \div 2
  IN IF rest > first THEN continued(rest, first, more) ELSE <<(((255 - first) * 2) % 256) + rest>> \o more
luaO_utf8esc(x) == IF x < 128 THEN <<x>> ELSE continued(x, 63, <<>>)

utfchar(codes) ==
  IF \A i \in DOMAIN codes : codes[i] \in 0 .. MAXUNICODE
  THEN <<FlattenSeq([i \in DOMAIN codes |-> luaO_utf8esc(codes[i])])>> ELSE Fault

(* The byte at an offset; a 0 stands after the last.                        *)
Byte(s, o) == IF o < Len(s) THEN s[o + 1] ELSE 0
iscont(s, o) == Byte(s, o) \div 64 = 2

(* One sequence at o: <<its code point, the offset after it>>, or nothing.  *)
limits == <<255, 127, 2047, 65535>>
Ones(c) == Min({k \in 0 .. 6 : (c \div (2 ^ (6 - k))) % 2 = 0} \cup {7})   \* that follow the first bit
utf8_decode(s, o) ==
  LET c == Byte(s, o)
      count == Ones(c)
      add(res, k) == res * 64 + (Byte(s, o + k) % 64)
      res == FoldLeft(add, c % (2 ^ (6 - count)), [k \in 1 .. count |-> k])
  IN IF c < 128 THEN <<c, o + 1>>
     ELSE IF count > 3 \/ \E k \in 1 .. count : ~iscont(s, o + k) THEN Fault
     ELSE IF res > MAXUNICODE \/ res <= limits[count + 1] THEN Fault
     ELSE <<res, o + count + 1>>

(* How many characters begin in the range, or where the first bad one is.   *)
RECURSIVE count_from(_, _, _, _)
count_from(s, posi, posj, n) ==
  LET c == utf8_decode(s, posi)
  IN IF posi > posj THEN [n |-> n, bad |-> 0]
     ELSE IF c = Fault THEN [n |-> 0, bad |-> posi + 1]
     ELSE count_from(s, c[2], posj, n + 1)

utflen(s, i, j) ==
  LET posi == posrelat(i, Len(s))
      posj == posrelat(j, Len(s))
  IN IF posi < 1 \/ posi > Len(s) + 1 \/ posj > Len(s) THEN Fault ELSE <<count_from(s, posi - 1, posj - 1, 0)>>

RECURSIVE codes_from(_, _, _)
codes_from(s, o, e) ==
  LET c == utf8_decode(s, o)
  IN IF o >= e THEN <<<<>>>>
     ELSE IF c = Fault THEN Fault
     ELSE LET rest == codes_from(s, c[2], e) IN IF rest = Fault THEN Fault ELSE <<<<c[1]>> \o rest[1]>>

codepoint(s, i, j) ==
  LET posi == posrelat(i, Len(s))
      pose == posrelat(j, Len(s))
  IN IF posi < 1 \/ pose > Len(s) THEN Fault
     ELSE IF posi > pose THEN <<<<>>>> ELSE codes_from(s, posi - 1, pose)

(* The beginning of the character at or before o, and that of the next.     *)
Before(s, o) == Max({0} \cup {p \in 0 .. o : ~iscont(s, p)})
After(s, o) == Min({p \in o + 1 .. Len(s) : ~iscont(s, p)})

RECURSIVE moved(_, _, _)
moved(s, n, o) ==
  IF n < 0 /\ o > 0 THEN moved(s, n + 1, Before(s, o - 1))
  ELSE IF n > 0 /\ o < Len(s) THEN moved(s, n - 1, After(s, o))
  ELSE [n |-> n, o |-> o]

(* In <<>> where an error is raised; 0 stands for nil.                      *)
byteoffset(s, n, i) ==
  LET posi == posrelat(i, Len(s))
      o == posi - 1
      m == moved(s, IF n > 0 THEN n - 1 ELSE n, o)
  IN IF posi < 1 \/ o > Len(s) \/ (n # 0 /\ iscont(s, o)) THEN Fault
     ELSE IF n = 0 THEN <<Before(s, o) + 1>>
     ELSE <<IF m.n = 0 THEN m.o + 1 ELSE 0>>

(* The loop "for p, c in utf8.codes(s)": all <<p, c>>, and whether it came  *)
(* to the end.                                                              *)
RECURSIVE iter_from(_, _, _)
iter_from(s, n, out) ==
  LET o == IF n < 0 THEN 0 ELSE IF n < Len(s) THEN After(s, n) ELSE n
      c == utf8_decode(s, o)
  IN IF o >= Len(s) THEN [all |-> out, ok |-> TRUE]
     ELSE IF c = Fault THEN [all |-> out, ok |-> FALSE]
     ELSE IF iscont(s, c[2]) THEN [all |-> out, ok |-> FALSE]
     ELSE iter_from(s, o, Append(out, <<o + 1, c[1]>>))
iter_codes(s) == iter_from(s, -1, <<>>)

-----------------------------------------------------------------------------
CallString ==
  Return("string", [sub |-> str_sub(arg.s, arg.i, arg.j), rep |-> str_rep(arg.s, arg.i, <<>>), rev |-> str_reverse(arg.s),
                    sep |-> str_rep(arg.s, arg.j, <<0>>), char |-> str_char(<<arg.i>>), start |-> unpack_start(arg.i, Len(arg.s))])

(* A text of code points, and what may be damaged after them.               *)
Encoded == utfchar(arg.codes)[1] \o arg.bad
At(k) == Len(utfchar(SubSeq(arg.codes, 1, k - 1))[1]) + 1   \* where the k-th begins

CallUtf8 ==
  Return("utf8", [s |-> Encoded, codes |-> iter_codes(Encoded), len |-> utflen(Encoded, At(arg.i), -1),
                  points |-> codepoint(Encoded, At(arg.i), At(arg.j)), offset |-> byteoffset(Encoded, arg.n, At(arg.i)),
                  inside |-> byteoffset(Encoded, 0, At(arg.i + 1) - 1)])
TextNext == CallString \/ CallUtf8

(* sub gives the characters whose place, counted from either end, is in the *)
(* range; rep's length never leaves a size; reverse reverses.  unpack finds *)
(* the place that a number means, or refuses it, if it fits a size_t: one   *)
(* that does not may come round to a place inside the string.               *)
StringRight ==
  Returned("string") =>
    LET s == arg.s
        from(p) == IF p >= 0 THEN p ELSE Len(s) + 1 + p
        inside == {k \in DOMAIN s : from(arg.i) <= k /\ k <= from(arg.j)}
        of(n, k) == n * Len(s) + k * (n - 1)
        repeated(r, n, sep) ==
          IF n <= 0 THEN r = <<<<>>>>
          ELSE IF n * (Len(s) + Len(sep)) > MAXSIZE THEN r = Fault
          ELSE /\ Len(r[1]) = of(n, Len(sep))
               /\ \A k \in DOMAIN r[1] : LET m == (k - 1) % (Len(s) + Len(sep)) IN r[1][k] = (s \o sep)[m + 1]
    IN /\ Result.sub = [k \in 1 .. Cardinality(inside) |-> s[Min(inside) + k - 1]]
       /\ repeated(Result.rep, arg.i, <<>>) /\ repeated(Result.sep, arg.j, <<0>>)
       /\ Result.rev = Reverse(s)
       /\ Result.char = IF arg.i \in 0 .. 255 THEN <<<<arg.i>>>> ELSE Fault
       /\ arg.i > -(2 ^ SIZEBITS) /\ arg.i < 2 ^ SIZEBITS =>
            Result.start = IF from(arg.i) \in 1 .. Len(s) + 1 THEN <<from(arg.i) - 1>> ELSE Fault

(* The standard's table of the encodings.                                   *)
Standard(c) ==
  CASE c < 128 -> <<c>>
    [] c \in 128 .. 2047 -> <<192 + (c \div 64), 128 + (c % 64)>>
    [] c \in 2048 .. 65535 -> <<224 + (c \div 4096), 128 + ((c \div 64) % 64), 128 + (c % 64)>>
    [] OTHER -> <<240 + (c \div 262144), 128 + ((c \div 4096) % 64), 128 + ((c \div 64) % 64), 128 + (c % 64)>>

(* What was encoded is decoded, from any character to any other, and moving *)
(* by characters finds where they begin; a damaged end is found where it is *)
(* and spoils nothing before it.                                            *)
Utf8Right ==
  Returned("utf8") =>
    LET k == Len(arg.codes)
        whole == arg.bad = <<>>
        cont == arg.bad # <<>> /\ arg.bad[1] \in 128 .. 191
        target == IF arg.n > 0 THEN arg.i + arg.n - 1 ELSE arg.i + arg.n
    IN /\ Result.s = FlattenSeq([n \in 1 .. k |-> Standard(arg.codes[n])]) \o arg.bad
       /\ Result.codes.ok = whole
       /\ Result.codes.all = [n \in 1 .. (IF cont THEN k - 1 ELSE k) |-> <<At(n), arg.codes[n]>>]
       /\ Result.len = <<IF whole THEN [n |-> k - arg.i + 1, bad |-> 0] ELSE [n |-> 0, bad |-> At(k + 1)]>>
       /\ Result.points = <<SubSeq(arg.codes, arg.i, arg.j)>>
       /\ arg.n # 0 /\ whole => Result.offset = <<IF target \in 1 .. k + 1 THEN At(target) ELSE 0>>
       /\ Result.inside = <<At(arg.i)>>

LuaTextRight == StringRight /\ Utf8Right
=============================================================================
