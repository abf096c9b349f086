------------------------------- MODULE LuaAux -------------------------------
(* What Lua's C functions share, lapi.c and lauxlib.c, and the functions of *)
(* its base and os libraries, lbaselib.c and loslib.c, that compute.        *)
EXTENDS LuaStack, FiniteSetsExt, SequencesExt, LibraryCall

CONSTANTS Bits,             \* of a Lua integer
          LEVELS1, LEVELS2, \* how many levels a traceback shows at each end
          Options           \* LUA_STRFTIMEOPTIONS, a text

Fault == <<>>
Signed(x) == LET y == x % (2 ^ Bits) IN IF y < 2 ^ (Bits - 1) THEN y ELSE y - 2 ^ Bits

CallStack ==
  LET s == arg.s  i == arg.i
  IN Return("stack", [rotated |-> lua_rotate(s, i, arg.n), inserted |-> lua_insert(s, i), removed |-> lua_remove(s, i),
                      replaced |-> lua_replace(s, i), cut |-> lua_settop(s, i, "nil")])

-----------------------------------------------------------------------------
(* lastlevel of a stack of depth levels, and the levels luaL_traceback      *)
(* shows from one on, -1 for the dots.                                      *)
lastlevel(depth) ==
  LET bound[le \in Nat] == IF le < depth THEN bound[2 * le] ELSE le
      le == bound[1]
      search[li, e \in Nat] ==
        LET m == (li + e) \div 2
        IN IF li >= e THEN e ELSE IF m < depth THEN search[m + 1, e] ELSE search[li, m]
  IN search[IF le = 1 THEN 1 ELSE le \div 2, le] - 1

luaL_traceback(depth, level) ==
  LET last == lastlevel(depth)
      n1 == IF last - level > LEVELS1 + LEVELS2 THEN LEVELS1 ELSE -1
      shown[l \in Nat, n \in Int] ==
        IF l >= depth THEN <<>>
        ELSE IF n = 0 THEN <<-1>> \o shown[last - LEVELS2 + 1, -1]
        ELSE <<l>> \o shown[l + 1, n - 1]
  IN shown[level, n1]
CallTraceback == Return("traceback", luaL_traceback(arg.depth, arg.level))

-----------------------------------------------------------------------------
(* tonumber with a base.  A text is its codes, and a zero ends it for C.    *)
At(s, i) == IF i <= Len(s) THEN s[i] ELSE 0
Space == {32, 9, 10, 11, 12, 13}
isalnum(c) == c \in (48 .. 57) \cup (65 .. 90) \cup (97 .. 122)
Digit(c) == CASE c \in 48 .. 57 -> c - 48 [] c \in 65 .. 90 -> c - 55 [] OTHER -> c - 87
Skip(s, i, S) == Min({j \in i .. Len(s) + 1 : At(s, j) \notin S})
b_str2int(s, base) ==
  LET start == Skip(s, 1, Space)
      first == IF At(s, start) \in {43, 45} THEN start + 1 ELSE start
      last == Min({j \in first .. Len(s) + 1 : ~isalnum(At(s, j))}) - 1
      n == FoldLeft(LAMBDA v, c : (v * base + Digit(c)) % (2 ^ Bits), 0, SubSeq(s, first, last))
  IN IF last < first \/ \E j \in first .. last : Digit(s[j]) >= base THEN Fault
     ELSE IF Skip(s, last + 1, Space) # Len(s) + 1 THEN Fault
     ELSE <<Signed(IF At(s, start) = 45 THEN -n ELSE n)>>
CallToNumber == Return("tonumber", b_str2int(arg.s, arg.base))

(* select of the values after the first argument.                           *)
luaB_select(values, i) ==
  LET n == Len(values) + 1
      from == IF i < 0 THEN n + i ELSE Min({i, n})
  IN IF from < 1 THEN Fault ELSE <<SubSeq(values, Len(values) - (n - from) + 1, Len(values))>>
CallSelect == Return("select", luaB_select(arg.values, arg.i))

-----------------------------------------------------------------------------
(* os.date.  checkoption gives the length of the conversion that begins a   *)
(* text, 0 for an error.                                                    *)
checkoption(conv) ==
  LET found[o \in Nat, oplen \in Nat] ==
        IF o > Len(Options) \/ oplen > Len(conv) THEN 0
        ELSE IF Options[o] = "|" THEN found[o + oplen + 1, oplen + 1]
        ELSE IF SubSeq(Options, o, o + oplen - 1) = SubSeq(conv, 1, oplen) THEN oplen ELSE found[o + oplen, oplen]
  IN found[1, 1]

(* What strftime makes of one conversion: the letter it obeys, or a panic.  *)
NotImplemented == {"W", "U", "G", "g", "V"}
Obeyed == {"a", "A", "h", "b", "B", "c", "C", "d", "D", "e", "F", "H", "I", "j", "k", "l", "m", "M", "n", "p", "P", "r", "R",
           "s", "S", "t", "T", "u", "w", "x", "X", "y", "Y", "z", "Z", "%"}
strftime(conv) ==
  LET c == IF conv[1] = "E" THEN conv[2] ELSE conv[1]
  IN IF c \in Obeyed THEN c ELSE "panic"

(* The items of a format: text and conversions, up to an error or a panic.  *)
os_date(format) ==
  LET n(i) == checkoption(SubSeq(format, i + 1, Len(format)))
      c(i) == strftime(SubSeq(format, i + 1, i + n(i)))
      from[i \in Nat] ==
        CASE i > Len(format) -> <<>>
          [] i <= Len(format) /\ format[i] # "%" -> <<<<"text", format[i]>>>> \o from[i + 1]
          [] OTHER -> IF n(i) = 0 THEN <<<<"error", "">>>>
                      ELSE IF c(i) = "panic" THEN <<<<"panic", "">>>> ELSE <<<<"field", c(i)>>>> \o from[i + 1 + n(i)]
  IN from[1]
CallDate == Return("os.date", os_date(FlattenSeq([k \in DOMAIN arg |-> arg[k].text])))

AuxNext == CallStack \/ CallTraceback \/ CallToNumber \/ CallSelect \/ CallDate

-----------------------------------------------------------------------------
(* The stack operations leave what is below the index alone; above it they  *)
(* turn the values round by n places, and so put in and take out one.       *)
StackTurned ==
  Returned("stack") =>
    LET p == index2addr(arg.s, arg.i)
        long == Len(arg.s) - p + 1
        top == arg.s[Len(arg.s)]
        rest == SubSeq(arg.s, 1, Len(arg.s) - 1)
    IN /\ \A k \in 1 .. Len(arg.s) :
            Result.rotated[IF k < p THEN k ELSE p + ((k - p + arg.n) % long)] = arg.s[k]
       /\ Result.inserted = InsertAt(rest, p, top)
       /\ Result.removed = RemoveAt(arg.s, p)
       /\ Result.replaced = IF p = Len(arg.s) THEN rest ELSE ReplaceAt(rest, p, top)
       /\ Result.cut = SubSeq(arg.s, 1, p) \o [k \in 1 .. p - Len(arg.s) |-> "nil"]

(* A traceback shows every level from the first to the last one, in order,  *)
(* or the first few and the last few and dots for the others.               *)
TracebackComplete ==
  Returned("traceback") =>
    LET all == [k \in 1 .. arg.depth - arg.level |-> arg.level + k - 1]
    IN IF Len(all) <= LEVELS1 + LEVELS2 + 1 THEN Result = all
       ELSE Result = SubSeq(all, 1, LEVELS1) \o <<-1>> \o SubSeq(all, Len(all) - LEVELS2 + 1, Len(all))

(* tonumber takes a text that is one numeral of its base, a sign before it  *)
(* and spaces around both, and nothing else; it comes round like any        *)
(* integer of Lua.                                                          *)
ToNumberMeant ==
  Returned("tonumber") =>
    LET s == arg.s
        IsNumeral(d) == d # <<>> /\ \A k \in DOMAIN d : isalnum(d[k]) /\ Digit(d[k]) < arg.base
        Blank(d) == \A k \in DOMAIN d : d[k] \in Space
        Worth(d) == FoldLeft(LAMBDA v, k : v + Digit(d[k]) * arg.base ^ (Len(d) - k), 0, [k \in DOMAIN d |-> k])
        readings == {<<i, j, k>> \in (0 .. Len(s)) \X (0 .. 1) \X (0 .. Len(s)) :
                       /\ i + j <= k
                       /\ Blank(SubSeq(s, 1, i)) /\ (j = 1 => At(s, i + 1) \in {43, 45})
                       /\ IsNumeral(SubSeq(s, i + j + 1, k)) /\ Blank(SubSeq(s, k + 1, Len(s)))}
    IN IF readings = {} THEN Result = Fault
       ELSE LET r == CHOOSE r \in readings : TRUE
                w == Worth(SubSeq(s, r[1] + r[2] + 1, r[3]))
            IN Result = <<Signed(IF r[2] = 1 /\ s[r[1] + 1] = 45 THEN -w ELSE w)>>

(* select(n, ...) gives the values from the n-th on, or the last -n.        *)
SelectMeant ==
  Returned("select") =>
    LET n == Len(arg.values)
    IN Result = CASE arg.i > 0 -> <<SubSeq(arg.values, arg.i, n)>>
                  [] arg.i < 0 /\ -arg.i <= n -> <<SubSeq(arg.values, n + 1 + arg.i, n)>>
                  [] OTHER -> Fault

(* os.date gives each part of a format what it stands for, an E before a    *)
(* letter or not, up to the first that it does not know, an error, or that  *)
(* stops the kernel: the weeks' and all with an O, which the manual allows. *)
DateMeant ==
  Returned("os.date") =>
    LET last == Min({k \in DOMAIN arg : arg[k].gives[1] \in {"error", "panic"}} \cup {Len(arg)})
    IN Result = [k \in 1 .. last |-> arg[k].gives]

AuxRight == StackTurned /\ TracebackComplete /\ ToNumberMeant /\ SelectMeant /\ DateMeant
=============================================================================
