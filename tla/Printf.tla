------------------------------- MODULE Printf -------------------------------
(* src/src/printf.c: what vsnprintf makes of one conversion of an integer   *)
(* and how vprintf sends the text out.  A character is a string.  The       *)
(* widths of int and intmax_t are scaled down to IntBits and MaxBits.       *)
EXTENDS Integers, Sequences, SequencesExt, LibraryCall

CONSTANTS IntBits, MaxBits

Decimal == <<"0", "1", "2", "3", "4", "5", "6", "7", "8", "9">>
Value(c) == CHOOSE n \in 0 .. 9 : Decimal[n + 1] = c
Terminator == "nul"

(* The scan of lines 135-289 of a directive's characters after '%' up to    *)
(* its conversion letter.                                                   *)
Scanned == [minus |-> FALSE, plus |-> FALSE, space |-> FALSE, zero |-> FALSE,
            width |-> 0, prec |-> 0, size |-> 0, state |-> 0, conv |-> "?"]

Number(s, d) == IF s.state = 1 THEN [s EXCEPT !.width = 10 * @ + d]
                ELSE IF s.state = 2 THEN [s EXCEPT !.prec = 10 * @ + d] ELSE s

(* The slip of a first zero taken for a digit of the width.                 *)
ZeroIsDigit(s) == Number([s EXCEPT !.state = IF @ = 0 THEN 1 ELSE @], 0)
Zero(s) == IF s.state = 0 THEN [s EXCEPT !.zero = TRUE] ELSE Number(s, 0)

Flag(s, c) ==
  IF s.state # 0 THEN s
  ELSE [s EXCEPT !.minus = @ \/ c = "-", !.plus = @ \/ c = "+", !.space = @ \/ c = " "]

Scan(s, c) ==
  CASE c \in {"#", "-", " ", "+"} -> Flag(s, c)
    [] c = "0" -> Zero(s)
    [] c \in ToSet(Tail(Decimal)) -> Number([s EXCEPT !.state = IF @ = 0 THEN 1 ELSE @], Value(c))
    [] c = "." -> [s EXCEPT !.state = IF @ < 2 THEN 2 ELSE @]
    [] c = "l" -> [s EXCEPT !.state = 3, !.size = IF @ # 1 THEN 1 ELSE 2]
    [] c = "h" -> [s EXCEPT !.state = 3, !.size = IF @ # 3 THEN 3 ELSE 4]
    [] c \in {"d", "u"} -> [s EXCEPT !.conv = c]
    [] OTHER -> s

Directive(chars) == FoldLeft(Scan, Scanned, chars)

(* itoa's digits of a natural number.                                       *)
Numeral(n) ==
  LET d[v \in Nat] == IF v < 10 THEN <<Decimal[v + 1]>>
                      ELSE Append(d[v \div 10], Decimal[(v % 10) + 1])
  IN d[n]

AsSigned(v, bits) == IF v % (2 ^ bits) < 2 ^ (bits - 1) THEN v % (2 ^ bits)
                   ELSE (v % (2 ^ bits)) - 2 ^ bits
Pad(c, n) == [i \in 1 .. n |-> c]

(* Lines 319-368: the argument is fetched as a signed int whatever the      *)
(* conversion; buf1 is the sign, if any, and the digits.                    *)
SignOf(s, v) ==
  LET n == AsSigned(v, IntBits)
  IN IF s.conv = "d" /\ n < 0 THEN <<"-">>
     ELSE IF s.plus THEN <<"+">> ELSE IF s.space THEN <<" ">> ELSE <<>>

Fetch(s, v) ==
  LET n == AsSigned(v, IntBits)
  IN IF s.conv = "d" /\ n < 0 THEN -n ELSE n % (2 ^ MaxBits)

(* Lines 369-401, what ps prints.  To the right of a width, buf2 is filled  *)
(* with strcpy, which leaves out the terminator: what is left in the buffer *)
(* up to a zero byte is printed too.                                        *)
Unterminated(buf, rest) == buf \o rest

Field(s, v, left) ==
  LET sg == SignOf(s, v)
      digits == Numeral(Fetch(s, v))
      text == sg \o digits
      gap == s.width - Len(text)
  IN IF gap <= 0 THEN text
     ELSE IF s.minus THEN text \o Pad(" ", gap)
     ELSE Unterminated(IF s.zero THEN sg \o Pad("0", gap) \o digits ELSE Pad(" ", gap) \o text, left)

(* vprintf, lines 52-69: what serial_write is given.  vsnprintf's count has *)
(* the terminator in it; the second time it is told the buffer has PtrSize  *)
(* bytes, and the rest of them are what malloc returned.                    *)
Send(r, buf) == SubSeq(buf, 1, r)
Vprintf(text, size, ptrSize) ==
  LET r == Len(text) + 1
      full == Append(text, Terminator)
  IN IF r < size THEN Send(r, full)
     ELSE Send(r, SubSeq(full, 1, ptrSize) \o Pad("junk", r))

CallField == Return("field", Field(Directive(arg.chars), arg.v, arg.left))
CallVprintf == Return("vprintf", Vprintf(arg.text, arg.size, arg.ptr))
PrintfNext == CallField \/ CallVprintf

-----------------------------------------------------------------------------
(* The standard's field for flags, width and conversion as the caller meant *)
(* them, given apart in arg.                                                *)
Meant ==
  LET n == IF arg.conv = "d" THEN AsSigned(arg.v, IntBits) ELSE arg.v % (2 ^ IntBits)
      sg == IF arg.conv = "u" THEN <<>>
            ELSE IF n < 0 THEN <<"-">>
            ELSE IF "+" \in arg.flags THEN <<"+">> ELSE IF " " \in arg.flags THEN <<" ">> ELSE <<>>
      digits == Numeral(IF n < 0 THEN -n ELSE n)
      gap == arg.width - Len(sg \o digits)
  IN IF gap <= 0 THEN sg \o digits
     ELSE IF "-" \in arg.flags THEN sg \o digits \o Pad(" ", gap)
     ELSE IF "0" \in arg.flags THEN sg \o Pad("0", gap) \o digits
     ELSE Pad(" ", gap) \o sg \o digits

(* A conversion prints what the standard says, up to what the buffer held,  *)
(* except: an unsigned argument with the high bit set is sign-extended, and *)
(* an unsigned one gets a sign when asked.  Flags and width are told apart  *)
(* in whatever order the flags come, a zero flag and a zero in the width    *)
(* too.                                                                     *)
FieldIsMeant ==
  Returned("field") =>
    LET padded == Len(Meant) > 0 /\ "-" \notin arg.flags
    IN (arg.conv = "u" => arg.v < 2 ^ (IntBits - 1) /\ arg.flags \cap {"+", " "} = {})
         => \/ Result = Meant
            \/ padded /\ Result = Meant \o arg.left

(* What the buffer held is printed exactly when the field is padded on the  *)
(* left (printf.c:397).                                                     *)
LeftoverPrinted ==
  Returned("field") /\ arg.conv = "d" /\ arg.left # <<>> =>
    (Result # Meant <=> "-" \notin arg.flags /\ Meant # Field([Directive(arg.chars) EXCEPT !.width = 0], arg.v, <<>>))

(* A print of fewer than 200 characters sends its text and one zero byte    *)
(* more; a longer one sends its first four characters and as many bytes of  *)
(* uninitialised memory as are missing (printf.c:60).                       *)
VprintfSends ==
  Returned("vprintf") =>
    /\ Len(Result) = Len(arg.text) + 1
    /\ Len(arg.text) + 1 < arg.size => Result = arg.text \o <<Terminator>>
    /\ Len(arg.text) + 1 >= arg.size =>
         \A i \in 1 .. Len(Result) :
           IF i <= arg.ptr THEN Result[i] = arg.text[i] ELSE Result[i] = "junk"

PrintfRight == FieldIsMeant /\ LeftoverPrinted /\ VprintfSends
=============================================================================
