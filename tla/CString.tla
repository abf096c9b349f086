------------------------------ MODULE CString ------------------------------
(* src/src/string.c.  A string is the sequence of its characters before the *)
(* terminator, a character a number from 1 to 255 and char is signed; NUL   *)
(* is the terminator, NotFound the null pointer and a pointer into a string an  *)
(* offset from 0.  Memory is a sequence of bytes.                           *)
EXTENDS Integers, Sequences, FiniteSetsExt, SequencesExt, LibraryCall

CONSTANT NotFound  \* what a pointer function returns that finds nothing

NUL == 0
Signed(c) == IF c > 127 THEN c - 256 ELSE c
Sign(a, b) == IF Signed(a) > Signed(b) THEN 1 ELSE IF Signed(a) < Signed(b) THEN -1 ELSE 0

(* What is left of s at offset i, and the character there.                  *)
From(s, i) == SubSeq(s, i + 1, Len(s))
At(s, i) == IF i < Len(s) THEN s[i + 1] ELSE NUL

(* The least offset below n that P holds of, and n if there is none.        *)
First(n, P(_)) == Min({i \in 0 .. n - 1 : P(i)} \cup {n})
FoundAt(n, P(_)) == IF First(n, P) = n THEN NotFound ELSE First(n, P)
Agreement(a, b) == First(Min({Len(a), Len(b)}), LAMBDA i : a[i + 1] # b[i + 1])

(* strcpy, lines 51-59: how many bytes it copies.  The first character is   *)
(* not tested, and each other before it is copied.                          *)
CopyLength(mem) == First(Len(mem), LAMBDA i : i > 0 /\ mem[i + 1] = NUL)

Strcpy(dst, mem) == SubSeq(mem, 1, CopyLength(mem)) \o From(dst, CopyLength(mem))

(* The end of strcmp and strncmp, lines 71-75 and 359-363: one has ended.   *)
(* The slip corrected: no look beyond the n-th character.                   *)
EndedWithin(s, p, n) == p = Len(s) /\ p < n
Ended(s, p, n) == p = Len(s)
EndSign(aEnds, bEnds) == IF aEnds /\ ~bEnds THEN 1 ELSE IF ~aEnds /\ bEnds THEN -1 ELSE 0

Strncmp(a, b, n) ==
  LET p == Min({Agreement(a, b), n})
  IN IF p < n /\ p < Len(a) /\ p < Len(b) THEN Sign(a[p + 1], b[p + 1])
     ELSE EndSign(Ended(a, p, n), Ended(b, p, n))

Strcmp(a, b) == Strncmp(a, b, Len(a) + Len(b) + 1)

(* memcmp of two blocks of one length.                                      *)
Memcmp(a, b) ==
  LET p == Agreement(a, b) IN IF p = Len(a) THEN 0 ELSE Sign(a[p + 1], b[p + 1])

Strchr(s, c) == FoundAt(Len(s), LAMBDA i : s[i + 1] = c)
Memchr(s, c) == FoundAt(Len(s), LAMBDA i : s[i + 1] = c)
Strpbrk(s, set) == FoundAt(Len(s), LAMBDA i : s[i + 1] \in ToSet(set))
Strspn(s, set) == First(Len(s), LAMBDA i : s[i + 1] \notin ToSet(set))

Strstr(h, n) == FoundAt(Len(h), LAMBDA i : Strncmp(From(h, i), n, Len(n)) = 0)

(* itoa, lines 506-527, before strrev: digits, the lowest first, until none *)
(* is left or the buffer is full.                                           *)
LastPlace(len) == len - 1
DigitsUpTo(num, base, len) ==
  LET d[k \in Nat] == IF k + 1 < LastPlace(len) /\ num \div (base ^ (k + 1)) > 0 THEN d[k + 1] ELSE k + 1
  IN d[0]

Itoa(num, len, base) ==
  LET i == DigitsUpTo(num, base, len)
      sum == num \div (base ^ i)
  IN IF len = 0 THEN [code |-> -1, str |-> <<>>, wrote |-> 0]
     ELSE IF i = len - 1 /\ sum > 0 THEN [code |-> -1, str |-> <<>>, wrote |-> i]
     ELSE [code |-> 0, wrote |-> i + 1,
           str |-> Reverse([k \in 1 .. i |-> (num \div (base ^ (k - 1))) % base])]

CallStrcpy == Return("strcpy", Strcpy(arg.dst, arg.src \o <<NUL>> \o arg.beyond))
CallStrcmp == Return("strcmp", Strcmp(arg.a, arg.b))
CallStrncmp == Return("strncmp", Strncmp(arg.a, arg.b, arg.n))
CallMemcmp == Return("memcmp", Memcmp(arg.a, arg.b))
CallStrstr == Return("strstr", Strstr(arg.a, arg.b))
CallSpans == Return("spans", [chr |-> Strchr(arg.a, arg.c), mem |-> Memchr(arg.a \o <<NUL>>, arg.c),
                              brk |-> Strpbrk(arg.a, arg.b), spn |-> Strspn(arg.a, arg.b)])
CallItoa == Return("itoa", Itoa(arg.num, arg.len, arg.base))
CStringNext == CallStrcpy \/ CallStrcmp \/ CallStrncmp \/ CallMemcmp \/ CallStrstr \/ CallSpans \/ CallItoa

-----------------------------------------------------------------------------
StringIn(mem) == SubSeq(mem, 1, First(Len(mem), LAMBDA i : mem[i + 1] = NUL))

(* strcpy leaves out the terminator (string.c:57): what is in the           *)
(* destination is the source only if the byte after it was zero already.    *)
(* Of an empty string it copies what comes after it as well.                *)
CopyIsString ==
  Returned("strcpy") =>
    IF arg.src # <<>> THEN /\ IsPrefix(arg.src, StringIn(Result))
                           /\ StringIn(Result) = arg.src <=> At(arg.dst, Len(arg.src)) = NUL
    ELSE SubSeq(Result, 2, Len(arg.beyond)) = SubSeq(arg.beyond, 1, Len(arg.beyond) - 1)

(* The order the C standard gives two strings: that of their first          *)
(* difference as unsigned characters, a prefix before what it begins.       *)
Order(a, b) ==
  LET p == Agreement(a, b)
      u(s) == IF p < Len(s) THEN s[p + 1] ELSE NUL
  IN IF u(a) < u(b) THEN -1 ELSE IF u(a) > u(b) THEN 1 ELSE 0

SignsDiffer(a, b) ==
  LET p == Agreement(a, b)
  IN p < Len(a) /\ p < Len(b) /\ (a[p + 1] > 127) # (b[p + 1] > 127)

(* strcmp puts a string before its proper prefixes (string.c:72), and a     *)
(* character above 127 before those below; otherwise it is the standard's.  *)
(* Lua's < on strings is this comparison (lvm.c, l_strcmp).                 *)
StrcmpOrders ==
  Returned("strcmp") =>
    Result = IF IsPrefix(arg.a, arg.b) \/ IsPrefix(arg.b, arg.a) \/ SignsDiffer(arg.a, arg.b)
             THEN -Order(arg.a, arg.b) ELSE Order(arg.a, arg.b)

(* strncmp compares no character beyond the n-th but asks whether the       *)
(* strings end there: two that agree in n characters are equal only if both *)
(* or neither end (string.c:359).                                           *)
StrncmpLooksBeyond ==
  Returned("strncmp") =>
    LET n == arg.n
        cut(s) == SubSeq(s, 1, Min({n, Len(s)}))
    IN cut(arg.a) = cut(arg.b) =>
         (Result = 0 <=> arg.a = arg.b \/ (Len(arg.a) > n /\ Len(arg.b) > n)
                                       \/ (Len(arg.a) = n /\ Len(arg.b) = n))

(* memcmp orders characters as signed (string.c:22).                        *)
MemcmpOrders ==
  Returned("memcmp") =>
    Result = IF SignsDiffer(arg.a, arg.b) THEN -Order(arg.a, arg.b) ELSE Order(arg.a, arg.b)

(* Because of strncmp, strstr finds the needle only at the very end of the  *)
(* haystack, and never the empty one (string.c:485).                        *)
StrstrFindsSuffix ==
  Returned("strstr") =>
    Result = IF arg.b # <<>> /\ IsSuffix(arg.b, arg.a) THEN Len(arg.a) - Len(arg.b) ELSE NotFound

(* strchr never finds the terminator, which memchr would; strpbrk and       *)
(* strspn are each other's complement.                                      *)
SpansAgree ==
  Returned("spans") =>
    /\ arg.c # NUL => Result.chr = Result.mem
    /\ arg.c = NUL => Result.chr = NotFound /\ Result.mem = Len(arg.a)
    /\ Result.spn \in 0 .. Len(arg.a)
    /\ Result.brk = 0 <=> Result.spn > 0
    /\ \A i \in 1 .. Result.spn : arg.a[i] \in ToSet(arg.b)

(* itoa writes the numeral whenever it and its terminator fit in len bytes, *)
(* and says so when they do not, but for a buffer of one byte, which it     *)
(* overruns (string.c:521).                                                 *)
ItoaFits ==
  Returned("itoa") =>
    LET value == FoldLeft(LAMBDA v, d : v * arg.base + d, 0, Result.str) IN
    IF arg.len = 0 THEN Result.code = -1 /\ Result.wrote = 0
    ELSE IF arg.len = 1 THEN Result.wrote > arg.len
    ELSE /\ Result.wrote <= arg.len
         /\ Result.code = 0 <=> arg.num < arg.base ^ (arg.len - 1)
         /\ Result.code = 0 => value = arg.num /\ (Len(Result.str) = 1 \/ Head(Result.str) # 0)

(* Each function does what its specification says but for what is named     *)
(* above.                                                                   *)
StringsRight ==
  CopyIsString /\ StrcmpOrders /\ StrncmpLooksBeyond /\ MemcmpOrders /\ StrstrFindsSuffix /\ SpansAgree /\ ItoaFits
=============================================================================
