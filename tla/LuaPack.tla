------------------------------- MODULE LuaPack -------------------------------
(* string.pack, packsize and unpack, lstrlib.c.  A byte is a number below   *)
(* MC + 1, a string a sequence of bytes, a float the bytes that hold it, and *)
(* a format a sequence of options <<letter, number>>, the number 0 for a     *)
(* letter without one.                                                      *)
EXTENDS Integers, Sequences, FiniteSetsExt, SequencesExt, LibraryCall

CONSTANTS NB,          \* bits in a byte
          SZINT,       \* bytes in a Lua integer
          SZFLOAT,     \* bytes in a float
          MAXINTSIZE,  \* bytes in the widest integer of a format
          SZT,         \* bytes in a size_t, fewer than in a Lua integer
          MAXSIZE,     \* the largest result packsize reports
          HeapBytes    \* bytes the heap has for one string

MC == 2 ^ NB - 1
Bytes(n) == 2 ^ (n * NB)   \* how many values n bytes have
MinInteger == -(Bytes(SZINT) \div 2)
Integer == MinInteger .. -MinInteger - 1
Unsigned(n) == n % Bytes(SZINT)
size_t(n) == n % Bytes(SZT)
Signed(u) == IF u > -MinInteger - 1 THEN u - Bytes(SZINT) ELSE u

Kind(letter) ==
  CASE letter \in {"i", "j"} -> "Kint"
    [] letter \in {"I", "J"} -> "Kuint"
    [] letter = "n" -> "Kfloat"
    [] letter = "c" -> "Kchar"
    [] letter = "s" -> "Kstring"
    [] letter = "z" -> "Kzstr"
    [] letter = "x" -> "Kpadding"
    [] letter = "X" -> "Kpaddalign"
    [] letter \in {"<", ">", "=", "!"} -> "Knop"

Size(opt) ==
  CASE opt[1] \in {"i", "I", "s", "c"} -> opt[2]
    [] opt[1] \in {"j", "J"} -> SZINT
    [] opt[1] = "n" -> SZFLOAT
    [] opt[1] = "x" -> 1
    [] OTHER -> 0

OutOfLimits(opt) == opt[1] \in {"i", "I", "s", "!"} /\ opt[2] \notin 1 .. MAXINTSIZE

initheader == [islittle |-> TRUE, maxalign |-> 1]
Configured(h, opt) ==
  CASE opt[1] \in {"<", "="} -> [h EXCEPT !.islittle = TRUE]
    [] opt[1] = ">" -> [h EXCEPT !.islittle = FALSE]
    [] opt[1] = "!" -> [h EXCEPT !.maxalign = opt[2]]
    [] OTHER -> h

(* The next option of fmt, where totalsize bytes stand before it; X takes   *)
(* its alignment from the option after it and uses that one up.             *)
getdetails(h, totalsize, fmt) ==
  LET opt == fmt[1]
      isX == Kind(opt[1]) = "Kpaddalign"
      of == IF isX /\ Len(fmt) > 1 THEN fmt[2] ELSE opt
      align == Min({Size(of), h.maxalign})
      none == Size(of) <= 1 \/ Kind(of[1]) = "Kchar"
  IN [h |-> Configured(Configured(h, opt), of), k |-> Kind(opt[1]), size |-> Size(opt),
      rest |-> IF isX THEN Tail(Tail(fmt)) ELSE Tail(fmt),
      bad |-> \/ OutOfLimits(opt) \/ OutOfLimits(of)
              \/ isX /\ (Len(fmt) = 1 \/ Kind(of[1]) = "Kchar" \/ Size(of) = 0)
              \/ ~none /\ align \notin {2 ^ k : k \in 0 .. MAXINTSIZE},
      ntoalign |-> IF none THEN 0 ELSE (align - (totalsize % align)) % align]

Turned(b, islittle) == IF islittle THEN b ELSE Reverse(b)

packint(n, islittle, size, neg) ==
  Turned([i \in 1 .. size |-> IF i > SZINT THEN (IF neg THEN MC ELSE 0) ELSE (n \div Bytes(i - 1)) % Bytes(1)], islittle)

Zeros(n) == [i \in 1 .. n |-> 0]

(* What an operation gives: <<its value>>, or nothing if it raised an error.*)
Fault == <<>>

(* Whether v fits an option of kind k and of this size.                     *)
Fits(k, size, v) ==
  CASE k = "Kint" /\ size < SZINT -> -(Bytes(size) \div 2) <= v /\ v < Bytes(size) \div 2
    [] k = "Kuint" /\ size < SZINT -> Unsigned(v) < Bytes(size)
    [] k = "Kchar" -> Len(v) <= size
    [] k = "Kstring" /\ size < SZT -> Len(v) < Bytes(size)
    [] k = "Kzstr" -> 0 \notin ToSet(v)
    [] OTHER -> TRUE

Packed(d, v) ==
  CASE d.k = "Kint" -> packint(Unsigned(v), d.h.islittle, d.size, v < 0)
    [] d.k = "Kuint" -> packint(Unsigned(v), d.h.islittle, d.size, FALSE)
    [] d.k = "Kfloat" -> Turned(v, d.h.islittle)
    [] d.k = "Kchar" -> v \o Zeros(d.size - Len(v))
    [] d.k = "Kstring" -> packint(Len(v), d.h.islittle, d.size, FALSE) \o v
    [] d.k = "Kzstr" -> v \o <<0>>

Takes(k) == k \notin {"Kpadding", "Kpaddalign", "Knop"}

RECURSIVE pack_from(_, _, _, _)
pack_from(h, fmt, args, b) ==
  IF fmt = <<>> THEN <<b>>
  ELSE LET d == getdetails(h, Len(b), fmt)
           filled == b \o Zeros(d.ntoalign)
       IN IF d.bad THEN Fault
          ELSE IF ~Takes(d.k) THEN pack_from(d.h, d.rest, args, filled \o Zeros(d.size))
          ELSE IF ~Fits(d.k, d.size, args[1]) THEN Fault
          ELSE pack_from(d.h, d.rest, Tail(args), filled \o Packed(d, args[1]))

str_pack(fmt, args) == pack_from(initheader, fmt, args, <<>>)

RECURSIVE packsize_from(_, _, _)
packsize_from(h, fmt, totalsize) ==
  IF fmt = <<>> THEN totalsize
  ELSE LET d == getdetails(h, totalsize, fmt)
       IN IF d.bad \/ totalsize > MAXSIZE - d.size - d.ntoalign \/ d.k \in {"Kstring", "Kzstr"} THEN -1
          ELSE packsize_from(d.h, d.rest, totalsize + d.ntoalign + d.size)

str_packsize(fmt) == packsize_from(initheader, fmt, 0)

Value(b) == FoldFunctionOnSet(+, 0, [i \in DOMAIN b |-> b[i] * Bytes(i - 1)], DOMAIN b)

(* A number of size bytes; the bytes that a Lua integer has no room for     *)
(* must repeat its sign.                                                    *)
Unread(b, u, issigned) ==
  LET mask == IF ~issigned \/ Signed(u) >= 0 THEN 0 ELSE MC
  IN \E i \in SZINT + 1 .. Len(b) : b[i] # mask

unpackint(bytes, islittle, issigned) ==
  LET b == Turned(bytes, islittle)
      size == Len(b)
      u == Value(SubSeq(b, 1, Min({size, SZINT})))
      extended == IF size < SZINT /\ issigned /\ u >= Bytes(size) \div 2 THEN Unsigned(u - Bytes(size)) ELSE u
  IN IF Unread(b, u, issigned) THEN Fault ELSE <<Signed(extended)>>

At(s, i, n) == SubSeq(s, i + 1, i + n)
strlen(data, pos) == Min({i \in pos .. Len(data) : i = Len(data) \/ data[i + 1] = 0}) - pos

(* The n bytes at pos as a string, if the heap can hold it.                 *)
lua_pushlstring(data, pos, n) == IF n > HeapBytes THEN Fault ELSE <<At(data, pos, n)>>

(* The value at pos in <<value>>, or Fault, and how many bytes beyond size   *)
(* it takes.  The length before a string becomes a size_t, and the test     *)
(* whether the string is there adds up sizes that may come round.           *)
Unpacked(d, data, pos) ==
  LET b == At(data, pos, d.size)
      n == unpackint(b, d.h.islittle, d.k = "Kint")
      z == strlen(data, pos)
      len == size_t(Unsigned(n[1]))
      there == size_t(pos + len + d.size) <= Len(data)
  IN CASE d.k \in {"Kint", "Kuint"} -> [v |-> n, more |-> 0]
       [] d.k = "Kfloat" -> [v |-> <<Turned(b, d.h.islittle)>>, more |-> 0]
       [] d.k = "Kchar" -> [v |-> <<b>>, more |-> 0]
       [] d.k = "Kstring" ->
            IF n = Fault \/ ~there THEN [v |-> Fault, more |-> 0]
            ELSE [v |-> lua_pushlstring(data, pos + d.size, len), more |-> len]
       [] d.k = "Kzstr" -> [v |-> <<At(data, pos, z)>>, more |-> z + 1]

RECURSIVE unpack_from(_, _, _, _, _)
unpack_from(h, fmt, data, pos, out) ==
  IF fmt = <<>> THEN <<Append(out, pos + 1)>>
  ELSE LET d == getdetails(h, pos, fmt)
           at == pos + d.ntoalign
           r == Unpacked(d, data, at)
       IN IF d.bad \/ at + d.size > Len(data) THEN Fault
          ELSE IF ~Takes(d.k) THEN unpack_from(d.h, d.rest, data, at + d.size, out)
          ELSE IF r.v = Fault THEN Fault
          ELSE unpack_from(d.h, d.rest, data, at + d.size + r.more, Append(out, r.v[1]))

str_unpack(fmt, data) == unpack_from(initheader, fmt, data, 0, <<>>)

Fmt == [i \in DOMAIN arg |-> arg[i][1]]
Args == LET taking == SelectSeq(arg, LAMBDA x : Len(x) = 2) IN [i \in DOMAIN taking |-> taking[i][2]]

CallPack ==
  LET b == str_pack(Fmt, Args)
  IN Return("str_pack", [b |-> b, size |-> str_packsize(Fmt), back |-> IF b = Fault THEN Fault ELSE str_unpack(Fmt, b[1]),
                         short |-> IF b \in {Fault, <<<<>>>>} THEN Fault ELSE str_unpack(Fmt, Front(b[1]))])

CallPacksize == Return("str_packsize", str_packsize(arg))

(* A string after lead bytes, its length told in n bytes, with rest of it   *)
(* there; junk is what the bytes hold that an integer has no room for.      *)
Length(a) == packint(a.told, TRUE, a.n, FALSE)
Told(a) == Turned([i \in 1 .. a.n |-> IF i > SZINT THEN a.junk ELSE Length(a)[i]], a.order = "<")
Data(a) == Zeros(a.lead) \o Told(a) \o a.rest
CallUnpack == Return("str_unpack", str_unpack(<<<<arg.order, 0>>, <<"c", arg.lead>>, <<"s", arg.n>>>>, Data(arg)))

PackNext == CallPack \/ CallPacksize \/ CallUnpack

-----------------------------------------------------------------------------
(* What fits an option: a signed or unsigned number of its bytes, a string  *)
(* it has room for.                                                         *)
HasRoom(opt, v) ==
  CASE opt[1] = "i" -> opt[2] >= SZINT \/ v \in -(Bytes(opt[2]) \div 2) .. (Bytes(opt[2]) \div 2) - 1
    [] opt[1] = "I" -> opt[2] >= SZINT \/ v \in 0 .. Bytes(opt[2]) - 1
    [] opt[1] = "s" -> Len(v) < Bytes(opt[2])
    [] opt[1] = "c" -> Len(v) <= opt[2]
    [] opt[1] = "z" -> \A i \in DOMAIN v : v[i] # 0
    [] OTHER -> TRUE

(* A fixed string comes back filled up with zeros, and a negative number    *)
(* that was packed as unsigned in more bytes than an integer has as itself. *)
Meant(opt, v) == IF opt[1] = "c" THEN v \o Zeros(opt[2] - Len(v)) ELSE v

(* A string and its copy do not fit the sizes there are: a length that      *)
(* comes round is longer than the heap.                                     *)
PackConstants == SZT < SZINT /\ 2 * HeapBytes < Bytes(SZT)

(* pack refuses exactly the values an option has no room for; unpack gives  *)
(* back all it packed and the place after it; packsize is the length; one   *)
(* byte less is too short, unless it was the end of a string that needs     *)
(* none.                                                                    *)
PackedRight ==
  Returned("str_pack") =>
    LET bad == \E i \in DOMAIN arg : Len(arg[i]) = 2 /\ ~HasRoom(arg[i][1], arg[i][2])
        fixed == \A i \in DOMAIN Fmt : Fmt[i][1] \notin {"s", "z"}
        taking == SelectSeq(arg, LAMBDA x : Len(x) = 2)
    IN (str_packsize(Fmt) >= 0 \/ ~fixed) =>
         IF bad THEN Result.b = Fault
         ELSE /\ Result.b # Fault =>
                   Result.back = <<Append([i \in DOMAIN taking |-> Meant(taking[i][1], taking[i][2])], Len(Result.b[1]) + 1)>>
              /\ fixed => Result.b # Fault /\ Result.size = Len(Result.b[1])
              /\ Result.b \notin {Fault, <<<<>>>>} /\ Last(Fmt)[1] # "z" => Result.short = Fault

(* packsize adds up the options, and refuses a sum above MAXSIZE (here      *)
(* nothing is aligned).                                                     *)
SumRight ==
  Returned("str_packsize") =>
    LET sum == FoldLeft(LAMBDA n, opt : n + Size(opt), 0, arg)
    IN Result = IF sum > MAXSIZE THEN -1 ELSE sum

(* unpack returns a string of the length told if that much is there, and    *)
(* raises an error if not; but of the length it sees only what a size_t     *)
(* holds, so that a length no string has may give one of its low bytes'     *)
(* length (lstrlib.c:1517).  It never returns bytes from outside the data.  *)
LengthRight ==
  Returned("str_unpack") =>
    LET told == IF arg.junk = 0 \/ arg.n <= SZINT THEN arg.told ELSE Bytes(SZINT)
        len == told % Bytes(SZT)
    IN Result = IF told >= Bytes(SZINT) \/ len > Len(arg.rest) THEN Fault
                ELSE <<<<Zeros(arg.lead), SubSeq(arg.rest, 1, len), arg.lead + arg.n + len + 1>>>>

PackRight == PackedRight /\ SumRight /\ LengthRight
=============================================================================
