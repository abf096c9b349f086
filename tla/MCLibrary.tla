----------------------------- MODULE MCLibrary -----------------------------
(* The C library and the start-up code: calls of functions without state,   *)
(* each with small inputs chosen to meet its special cases, and machines    *)
(* beside them that share nothing: malloc's search, memory_init, the CMOS   *)
(* clock, a Lua table, Lua's strings and a buffer.  fn says which runs.     *)
EXTENDS Calendar, CString, Printf, Setjmp, Screen, MallocScan, HeapLayout, CmosClock, MCLuaLibrary

(* A Lua table, with integer keys of both its parts and two that collide.   *)
VARIABLES tab, content, walk
Tab == INSTANCE LuaTable
         WITH t <- tab, Ints <- {1, 2, 4}, Objects <- {<<"str", 0>>, <<"ptr", 3>>}, MaxInt <- 5, MaxArray <- 2

(* Lua's strings, two of them in the same list of a table of any size.      *)
VARIABLE strings
Str == INSTANCE LuaString
         WITH st <- strings, Hash <- ("m" :> 0 @@ "a" :> 1 @@ "b" :> 9 @@ "c" :> 3), MEMERRMSG <- "m",
              CacheSets <- {0}, Pool <- 1 .. 3, MinSizes <- {2, 16}, MaxInt <- 5
ASSUME StringsAssumption == Str!StringConstants
ASSUME PackAssumption == Packing!PackConstants

(* A buffer of two characters, of which there are up to 16 in a size_t.     *)
VARIABLE buffer
Buf == INSTANCE LuaBuffer
         WITH buf <- buffer, LUAL_BUFFERSIZE <- 2, SIZEBITS <- 4, MaxLength <- 5, Blocks <- {1, 2}, MaxBoxes <- 2,
              Requests <- {3, 12, 15}

tabVars == <<tab, content, walk>>
machines == <<scanVars, layoutVars, clockVars, tabVars, strings, buffer>>
all == <<callVars, machines>>

(* Every machine memory with sizes in steps of 16 MiB, exact and with the   *)
(* 128 KiB that QEMU keeps back, and some below 16 MiB.                     *)
Machines == {16384 * k - 1024 - d : k \in 1 .. 256, d \in {0, 128}} \cup {15360, 149504, 150528}

(* A clock of registers that count to Minute each.                          *)
Digits(r, t) == (t \div (Minute ^ r)) % Minute

Texts == UpTo({"a", "\n", "\r"}, 5)
Names == UpTo({1, 2, 200}, 3)
Years2 == {1970, 1996, 1997, 1999, 2000, 2001, 2003, 2004, 2023, 2024}
Moments == {Moment(y, m, d, t) : y \in Years2, m \in 1 .. 12, d \in {1, 2, 28, 29, 30, 31}, t \in {0, 47100, 86399}}
RealMoments == {x \in Moments : x.d <= MonthLength(x.y, x.m)}
Registers == [{"eip", "ebp", "ebx", "esp"} -> {<<1, 2>>}]
Flags == <<"-", "+", " ", "0">>
Chosen(F) == SelectSeq(Flags, LAMBDA f : f \in F)
Halfs == {1, 2} \X {1, 2}

Directives(flags, width, conv, size) ==
  [chars |-> Chosen(flags) \o (IF width = 0 THEN <<>> ELSE Numeral(width)) \o size \o <<conv>>,
   flags |-> flags, width |-> width, conv |-> conv]

Calls ==
  \/ fn \in {"gmtime", "mktime", "mktime(gmtime)", "strftime"} /\ arg \in RealMoments
  \/ fn = "hours" /\ \E h \in 0 .. 23, h24 \in BOOLEAN :
       arg = [hour |-> h, h24 |-> h24, pm |-> ~h24 /\ h >= 12,
              h |-> IF h24 THEN h ELSE ((h + 11) % 12) + 1]
  \/ fn = "mktime(month)" /\ \E y \in 2001 .. 2024, mon \in -3 .. 15, b \in [1 .. 2 -> {0, 28, 29, 31}] :
       arg = [tm |-> [sec |-> 0, min |-> 0, hour |-> 0, mday |-> 1, mon |-> mon, year |-> y], beyond |-> b]
  \/ fn = "strftime(composite)" /\ \E l \in UpTo({"x", "y"}, 3) : arg = [text |-> <<"0", "1", ".">>, left |-> l]
  \/ fn = "strcpy" /\ \E s \in UpTo({1, 2}, 2), d \in [1 .. 5 -> {0, 1}], b \in {<<1, 0>>, <<2, 0>>} :
       arg = [src |-> s, dst |-> d, beyond |-> b]
  \/ fn \in {"strcmp", "strstr"} /\ \E a, b \in Names : arg = [a |-> a, b |-> b]
  \/ fn = "memcmp" /\ \E k \in 0 .. 2 : \E a, b \in [1 .. k -> {0, 1, 127, 128, 255}] : arg = [a |-> a, b |-> b]
  \/ fn = "strncmp" /\ \E a, b \in Names, n \in 0 .. 4 : arg = [a |-> a, b |-> b, n |-> n]
  \/ fn = "spans" /\ \E a, b \in UpTo({1, 2, 3}, 2), c \in 0 .. 3 : arg = [a |-> a, b |-> b, c |-> c]
  \/ fn = "itoa" /\ \E n \in 0 .. 40, l \in 0 .. 5, b \in {2, 10} : arg = [num |-> n, len |-> l, base |-> b]
  \/ fn = "field" /\ \E F \in SUBSET {"-", "+", " ", "0"}, w \in {0, 2, 10}, c \in {"d", "u"},
                       v \in 0 .. 31, left \in {<<>>, <<"7">>}, z \in {<<>>, <<"l">>} :
       arg = Directives(F, w, c, z) @@ [v |-> v, left |-> left]
  \/ fn = "vprintf" /\ \E n \in 0 .. 9 : arg = [text |-> [k \in 1 .. n |-> Decimal[k]], size |-> 7, ptr |-> 4]
  \/ fn = "longjmp" /\ \E r \in Registers, d, s \in Halfs, v \in 0 .. 1 :
       arg = [regs |-> r @@ [edi |-> d] @@ [esi |-> s], value |-> v]
  \/ fn = "print" /\ arg \in Texts
  \/ fn \in {"malloc", "memory_init", "cmos_get_time", "table", "strings", "buffer"} /\ arg = <<>>
  \/ LuaCalls

MCInit ==
  /\ ret = <<>> /\ Calls
  /\ fn = "malloc" \/ (used = [b \in Block |-> FALSE] /\ blk_sz = 1)
  /\ fn = "memory_init" \/ mem_upper = 15360
  /\ ScanInit /\ LayoutInit /\ ClockInit
  /\ IF fn = "table" THEN Tab!TableInit ELSE tab = <<>> /\ content = {} /\ walk = <<>>
  /\ IF fn = "strings" THEN Str!StringInit ELSE strings = <<>>
  /\ IF fn = "buffer" THEN Buf!BufferInit ELSE buffer = <<>>

Machine(f, Step) == fn = f /\ Step /\ UNCHANGED callVars
Search == Machine("malloc", ScanNext) /\ UNCHANGED <<layoutVars, clockVars, tabVars, strings, buffer>>
Boot == Machine("memory_init", LayoutNext) /\ UNCHANGED <<scanVars, clockVars, tabVars, strings, buffer>>
ReadClock(Step) == Machine("cmos_get_time", Step) /\ UNCHANGED <<scanVars, layoutVars, tabVars, strings, buffer>>
UseTable == Machine("table", Tab!TableNext) /\ UNCHANGED <<scanVars, layoutVars, clockVars, strings, buffer>>
UseStrings == Machine("strings", Str!StringNext) /\ UNCHANGED <<scanVars, layoutVars, clockVars, tabVars, buffer>>
UseBuffer == Machine("buffer", Buf!BufferNext) /\ UNCHANGED <<scanVars, layoutVars, clockVars, tabVars, strings>>

MCNext ==
  \/ (CalendarNext \/ CStringNext \/ PrintfNext \/ CallJump \/ CallPrint \/ LuaNext) /\ UNCHANGED machines
  \/ Search \/ Boot \/ ReadClock(ClockNext) \/ UseTable \/ UseStrings \/ UseBuffer

(* Nothing else runs in the caller's place: a step that can be taken is,    *)
(* and an update of the clock that has begun is completed.                  *)
MCSpec ==
  /\ MCInit /\ [][MCNext]_all
  /\ WF_all(Search) /\ WF_all(ReadClock(Driver)) /\ WF_all(ReadClock(EndUpdate))
  /\ \A r \in Register : WF_all(ReadClock(UpdateRegister(r)))

(* malloc's search ends, whatever it finds.                                 *)
SearchReturns == fn = "malloc" ~> ~running
CallsReturn == SearchReturns /\ TimeReturns

(* Characters: string.c, printf.c and the buffers of Lua's C functions.     *)
TextRight == StringsRight /\ PrintfRight /\ (fn = "buffer" => Buf!BufferRight)

(* Lua's tables: those of a program, and that of the strings.               *)
TableRight == (fn = "table" => Tab!TableRight) /\ (fn = "strings" => Str!InternedRight)
=============================================================================
