---------------------------- MODULE MCLuaLibrary ----------------------------
(* Calls of Lua's own library and of the parts of its core that keep no     *)
(* state, each with small inputs chosen to meet its special cases.          *)
EXTENDS Integers, Sequences, FiniteSetsExt, SequencesExt, LibraryCall

CONSTANT NilValue

UpTo(S, n) == UNION {[1 .. k -> S] : k \in 0 .. n}

-----------------------------------------------------------------------------
(* Patterns over an alphabet of letters, a digit and what is special.       *)
Characters == {"a", "b", "1", "]", "-"}
Pat == INSTANCE LuaPattern WITH Letters <- <<"a", "b">>, MAXCCALLS <- 200, LUA_MAXCAPTURES <- 2, Alphabet <- Characters

AllBut(S) == (Characters \cup {""}) \ S
Classes == {Pat!Single("a"), Pat!Class(<<".">>, Characters), Pat!Class(<<"[", "]", "b", "]">>, {"]", "b"}),
            Pat!Class(<<"[", "^", "a", "]">>, AllBut({"a"})), Pat!Class(<<"[", "a", "-", "b", "]">>, {"a", "b"}),
            Pat!Class(<<"[", "%", "a", "-", "]">>, {"a", "b", "-"}), Pat!Class(<<"%", "D">>, AllBut({"1"}))}
Repeats == {<<>>, <<"*">>, <<"+">>, <<"-">>, <<"?">>}
Items == {Pat!One(c, r) : c \in Classes, r \in Repeats}
Few == {Pat!One(c, r) : c \in {Pat!Single("a"), Pat!Class(<<".">>, Characters)}, r \in Repeats} \cup {Pat!OpenItem, Pat!CloseItem}
Special == {Pat!Position, Pat!EndItem, Pat!Balance("a", "b"), Pat!Balance("a", "a"), Pat!Back(1)}
             \cup {Pat!Frontier(c) : c \in {Pat!Class(<<"[", "a", "]">>, {"a"}), Pat!Class(<<"[", "^", "a", "]">>, AllBut({"a"}))}}
Inner == {Pat!One(Pat!Single("a"), r) : r \in {<<>>, <<"*">>, <<"-">>}} \cup {Pat!OpenItem, Pat!CloseItem}
Group(x) == <<Pat!OpenItem>> \o x \o <<Pat!CloseItem>>

(* The text of "(" and ")" together is a position, and a "$" is special     *)
(* only at the end.                                                         *)
Readable(p) == \A i \in 1 .. Len(p) - 1 : p[i].k # "end" /\ ~(p[i].k = "open" /\ p[i + 1].k = "close")
Pairs == {p \in {<<x, y>> : x, y \in Few \cup Special} : Readable(p)}
Patterns ==
  {p \in {<<x, y>> : x, y \in Items} \cup [1 .. 3 -> {Pat!Position, Pat!One(Pat!Single("a"), <<>>)}] \cup UpTo(Few, 3) \cup {Group(<<x>>) \o <<y, z>> : x, y \in Few, z \in Special}
           \cup {Group(<<x>> \o Group(<<y>>)) \o <<z>> : x, y, z \in Inner} : Readable(p)} \cup Pairs
Subjects == UpTo({"a", "b"}, 2) \cup {<<"a", "a", "b">>, <<"1", "a", "]", "-">>}

(* Replacements: strings in parts, tables and functions.                    *)
Bracketed == Pat!NewText(<<Pat!Itself("<"), Pat!Taken(0), Pat!Itself(">")>>)
Replacements ==
  {Bracketed, Pat!NewText(<<Pat!Taken(1)>>), Pat!NewText(<<Pat!Taken(2), Pat!Itself("%"), Pat!Taken(1)>>),
   Pat!NewText(<<Pat!Itself("a"), Pat!Escape(<<"a">>)>>), Pat!NewText(<<Pat!Escape(<<>>)>>)}
    \cup {[k |-> k, of |-> (<<<<"a">>>> :> <<<<"b", "b">>>> @@ <<<<"a">>, <<"1">>>> :> <<<<>>>> @@ <<<<"b">>>> :> Pat!Raised)]
            : k \in {"table", "function"}}
PatternCalls ==
  \/ fn = "str_match" /\ \E p \in Patterns, s \in Subjects : arg = [items |-> p, s |-> s, init |-> 1, anchored |-> FALSE, plain |-> FALSE]
  \/ fn \in {"str_find", "str_match"} /\ \E p \in Pairs, s \in Subjects : arg = [items |-> p, s |-> s, init |-> 1, anchored |-> TRUE, plain |-> FALSE]
  \/ fn = "str_find" /\ \E p \in Pairs, n \in 0 .. 2, i \in -3 .. 4 :
       arg = [items |-> p, s |-> [k \in 1 .. n |-> "a"], init |-> i, anchored |-> FALSE, plain |-> FALSE]
  \/ fn = "str_find" /\ \E p \in {<<x>> : x \in Few} \cup {<<x, y>> : x, y \in Few}, s \in UpTo({"a", "-", "("}, 3), i \in 1 .. 2 :
       arg = [items |-> p, s |-> s, init |-> i, anchored |-> FALSE, plain |-> TRUE]
  \/ fn = "str_gsub" /\ \E p \in {<<x>> : x \in Few} \cup Pairs, s \in Subjects, m \in {1, 9}, n \in Replacements :
       /\ Pat!WellFormed(p) /\ (m = 1 => n = Bracketed)
       /\ arg = [items |-> p, s |-> s, anchored |-> FALSE, max |-> m, new |-> n]

-----------------------------------------------------------------------------
(* Packing into bytes of two bits, with integers of six bytes and sizes of  *)
(* three.                                                                   *)
Packing == INSTANCE LuaPack WITH NB <- 2, SZINT <- 6, SZFLOAT <- 2, MAXINTSIZE <- 8, SZT <- 3, MAXSIZE <- 31, HeapBytes <- 31
IntOptions == {<<l, n>> : l \in {"i", "I"}, n \in {1, 2, 3, 7}} \cup {<<"j", 0>>, <<"J", 0>>}
Packable == {<<o, v>> : o \in IntOptions, v \in {-2048, -9, -8, -1, 0, 3, 4, 7, 8, 2047}}
              \cup {<<o, v>> : o \in {<<"s", 1>>, <<"s", 3>>, <<"s", 7>>, <<"c", 2>>, <<"z", 0>>}, v \in {<<>>, <<1>>, <<0, 3>>, <<3, 2, 1>>}}
              \cup {<<<<"n", 0>>, <<1, 2>>>>}
Modes == {<<<<o, 0>>>> : o \in {"<", ">", "=", "x"}} \cup {<<<<"!", n>>>> : n \in 1 .. 4}
PackCalls ==
  fn = "str_pack" /\
    \/ \E c \in {<<<<">", 0>>>>, <<<<"!", 2>>>>}, x, y \in Packable : arg = <<c, x, y>>
    \/ \E c \in Modes, x \in Packable : arg = <<c, x, <<<<"i", 2>>, 1>>>>
    \/ \E c \in Modes, x \in {<<<<"i", 1>>, 1>>, <<<<"c", 2>>, <<1>>>>}, o \in IntOptions :
         arg = <<c, x, <<<<"X", 0>>>>, <<o>>, <<<<"i", 2>>, 1>>>>
PackedSizes ==
  fn = "str_packsize" /\ arg \in UpTo({<<"c", n>> : n \in {0, 1, 15, 16, 30, 31}} \cup {<<"i", 2>>, <<"x", 0>>, <<"j", 0>>}, 3)
ToldLengths ==
  fn = "str_unpack" /\ \E o \in {"<", ">"}, l \in 0 .. 2, n \in {1, 3, 4, 6, 7}, low \in 0 .. 3 \cup 30 .. 34 \cup 56 .. 63,
                         high \in {0, 1, 31, 63}, k \in 0 .. 3, j \in {0, 1} :
    /\ n <= 3 => high = 0
    /\ n = 1 => low < 4
    /\ n = 4 => high < 4
    /\ arg = [order |-> o, lead |-> l, n |-> n, told |-> low + 64 * high, junk |-> j, rest |-> [i \in 1 .. k |-> i]]

-----------------------------------------------------------------------------
(* Tables with integers of four bits, and orders that are none.             *)
TabLib == INSTANCE LuaTabLib
            WITH LUA_MAXINTEGER <- 7, INT_MAX <- 7, StackRoom <- 6, RANLIMIT <- 4, Imbalance <- 1
Numbers4 == TabLib!Integer
Three == <<"a", "b", "c">>
TabLibCalls ==
  \/ fn \in {"table.insert", "table.remove"} /\ \E n \in 0 .. 3, p \in Numbers4 : arg = [s |-> SubSeq(Three, 1, n), pos |-> p]
  \/ fn = "table.move" /\ \E f, e \in Numbers4, t \in {-8, -7, -1, 0, 1, 2, 6, 7}, same \in BOOLEAN :
       arg = [a |-> [k \in Numbers4 |-> k], b |-> [k \in Numbers4 |-> IF same THEN k ELSE k + 100],
              f |-> f, e |-> e, t |-> t, same |-> same]
  \/ fn = "table.unpack" /\ \E i, e \in Numbers4 : arg = [t |-> [k \in Numbers4 |-> k], i |-> i, e |-> e]
  \/ fn = "table.concat" /\ \E n \in 0 .. 3, i, e \in -1 .. 4 : arg = [s |-> SubSeq(Three, 1, n), i |-> i, e |-> e]
  \/ fn = "table.sort" /\ \E lt \in SUBSET ((1 .. 2) \X (1 .. 2)), a \in UpTo(1 .. 2, 5) : arg = [a |-> a, lt |-> lt, random |-> 0]
  \/ fn = "table.sort" /\ \E lt \in SUBSET ((1 .. 3) \X (1 .. 3)), a \in [1 .. 4 -> 1 .. 3] : arg = [a |-> a, lt |-> lt, random |-> 0]
  \/ fn = "table.sort" /\ \E a \in UpTo(1 .. 3, 7), r \in 0 .. 3 : arg = [a |-> a, lt |-> {<<1, 2>>, <<1, 3>>, <<2, 3>>}, random |-> r]

-----------------------------------------------------------------------------
(* Chunks of a function with two in it, one with another; a writer that     *)
(* fails and a header that is damaged.                                      *)
Chunk == INSTANCE LuaDump WITH Base <- 8, WordSize <- 2
Strings3 == {<<>>, <<1, 0, 2>>, <<1, 1, 1, 1, 1>>, <<1, 1, 1, 1, 1, 1>>}
Leaf(src, up) ==
  [source |-> src, linedefined |-> 1, lastlinedefined |-> 9, numparams |-> 1, is_vararg |-> 0, maxstacksize |-> 2,
   code |-> <<5, 9>>, k |-> <<>>, upvalues |-> <<[instack |-> up, idx |-> 3, name |-> <<<<2>>>>]>>,
   p |-> <<>>, lineinfo |-> <<1, 2>>, locvars |-> <<>>]
Constants == {<<"nil", 0>>, <<"boolean", 1>>, <<"float", 3>>, <<"integer", 63>>} \cup {<<"string", s>> : s \in Strings3}
Chunks ==
  {[Leaf(src, TRUE) EXCEPT !.k = <<k>>, !.locvars = <<[varname |-> <<s>>, startpc |-> 1, endpc |-> 8]>>,
                           !.p = <<Leaf(src, TRUE), [Leaf(<<<<3>>>>, FALSE) EXCEPT !.p = <<Leaf(src, TRUE)>>]>>]
     : src \in {<<<<1>>>>, <<<<2, 2, 2, 2, 2>>>>}, k \in Constants, s \in Strings3}
Big == 1000
Dumps(f, strip, fails, bad, size) == arg = [f |-> f, strip |-> strip, fails |-> fails, bad |-> bad, size |-> size]
DumpCalls ==
  fn = "dump" /\ \E f \in Chunks :
    \/ \E strip \in BOOLEAN, size \in {1, 3, Big} : Dumps(f, strip, Big, 0, size)
    \/ f.k = <<<<"nil", 0>>>> /\ \E strip \in BOOLEAN : \E n \in 1 .. Len(Chunk!Blocks(f, strip)) : Dumps(f, strip, n, 0, Big)
    \/ f.k = <<<<"nil", 0>>>> /\ \E b \in 1 .. Chunk!HeaderSize : Dumps(f, FALSE, Big, b, Big)

-----------------------------------------------------------------------------
(* Integers of six bits, floats with mantissas of three.                    *)
Num == INSTANCE LuaNumber WITH Bits <- 6, NBM <- 3
Floats == {<<>>} \cup {<<m * (2 ^ e)>> : m \in -8 .. 8, e \in 0 .. 7}
NumberCalls ==
  \/ fn = "sizes" /\ arg \in 0 .. 300 \cup {1000, 4095, 4096, 4097}
  \/ fn = "str2int" /\ \E n, h \in BOOLEAN, d \in UpTo({0, 1, 2, 3, 8, 9}, 3) : arg = [neg |-> n, hex |-> h, digits |-> d]
  \/ fn = "arith" /\ arg \in Num!Integer \X Num!Integer
  \/ fn = "compare" /\ \E i \in Num!Integer, f \in Floats : arg = [i |-> i, f |-> f]
  \/ fn = "for" /\ \E i \in {-32, -31, -1, 0, 3, 31}, f \in Floats, s \in {-32, -3, -1, 1, 2, 31} : arg = [init |-> i, f |-> f, step |-> s]

-----------------------------------------------------------------------------
(* Sources in a small part of ASCII.                                        *)
Lower == <<"a", "b", "c", "d", "e", "f", "g", "h", "i", "j", "k", "l", "m", "n", "o", "p", "q", "r", "s", "t", "u", "v", "w", "x", "y", "z">>
DigitChars == <<"0", "1", "2", "3", "4", "5", "6", "7", "8", "9">>
Ascii ==
  [c \in ToSet(Lower) |-> 96 + SelectInSeq(Lower, LAMBDA d : d = c)]
  @@ [c \in ToSet(DigitChars) |-> 47 + SelectInSeq(DigitChars, LAMBDA d : d = c)]
  @@ ("F" :> 70 @@ "\n" :> 10 @@ "\r" :> 13 @@ "\t" :> 9 @@ " " :> 32 @@ "\"" :> 34 @@ "'" :> 39 @@ "+" :> 43 @@ "-" :> 45
      @@ "." :> 46 @@ "/" :> 47 @@ ":" :> 58 @@ "<" :> 60 @@ "=" :> 61 @@ ">" :> 62 @@ "[" :> 91 @@ "\\" :> 92 @@ "]" :> 93
      @@ "{" :> 123 @@ "}" :> 125 @@ "~" :> 126)
Lex == INSTANCE LuaLex WITH SIZEBITS <- 4, MAXSIZE <- 15, Ord <- Ascii, Reserved <- {<<105, 102>>}

Piece(text, k, v, n) == [text |-> text, k |-> k, v |-> v, breaks |-> n]
Between(text, n) == Piece(text, "", <<>>, n)
Plain(k, text) == Piece(text, k, Lex!Codes(text, 0, Len(text)), 0)
Wrong(text) == Piece(text, "error", <<>>, 0)
Separators ==
  {Between(<<" ">>, 0), Between(<<"\n">>, 1), Between(<<"\r", "\n">>, 1), Between(<<"\n", "\n">>, 2),
   Between(<<" ", "\n", "\r", "\r", " ">>, 2), Between(<<" ", "-", "-", "a", "\"", "\n">>, 1),
   Between(<<" ", "-", "-", "[", "[", "\n", "]", "]">>, 1), Between(<<" ", "-", "-", "[", "=", "a", "]", "=", "]", "\n">>, 1),
   Between(<<"\t", "-", "-", "[", "=", "[", "]", "]", "\r", "]", "=", "]">>, 1)}
Lexemes ==
  {Plain("<name>", <<"a", "b">>), Plain("<name>", <<"i", "f", "1">>), Plain("reserved", <<"i", "f">>),
   Plain("symbol", <<"=", "=">>), Plain("symbol", <<".", ".", ".">>), Plain("symbol", <<"-">>), Plain("symbol", <<"[">>),
   Plain("<integer>", <<"0", "x", "1", "e">>), Plain("<integer>", <<"1", "2">>), Plain("<number>", <<"1", ".">>),
   Plain("<number>", <<".", "1", "e", "-", "2">>), Plain("<number>", <<"1", "e", "2">>),
   Wrong(<<"1", "e">>), Wrong(<<"0", "x">>), Wrong(<<"1", ".", ".", "2">>), Wrong(<<"0", "x", ".", "1">>),
   Wrong(<<"[", "=", "a">>), Wrong(<<"1", "e", "+">>), Wrong(<<"[", "=", "=", "[", "a">>),
   Piece(<<"[", "[", "\n", "a", "\r", "\n", "]", "=", "]", "]">>, "<string>", <<97, 10, 93, 61>>, 2),
   Piece(<<"[", "=", "[", "]", "]", "]", "=", "]">>, "<string>", <<93, 93>>, 0)}

(* Parts of a quoted string: what they stand for and their line breaks, or  *)
(* -1 if they are wrong.                                                    *)
Part(text, v, n) == [text |-> text, v |-> v, n |-> n]
Parts ==
  {Part(<<"a">>, <<97>>, 0), Part(<<"1">>, <<49>>, 0), Part(<<"]", "]">>, <<93, 93>>, 0), Part(<<"'">>, <<39>>, 0),
   Part(<<"\\", "n">>, <<10>>, 0), Part(<<"\\", "\\">>, <<92>>, 0), Part(<<"\\", "\"">>, <<34>>, 0),
   Part(<<"\\", "6", "5", "5">>, <<>>, -1), Part(<<"\\", "0", "6", "5">>, <<65>>, 0),
   Part(<<"\\", "x", "f", "F">>, <<255>>, 0), Part(<<"\\", "x", "f", "\\">>, <<>>, -1),
   Part(<<"\\", "u", "{", "7", "f", "f", "}">>, <<223, 191>>, 0), Part(<<"\\", "u", "{", "}">>, <<>>, -1),
   Part(<<"\\", "u", "{", "1", "1", "0", "0", "0", "0", "}">>, <<>>, -1), Part(<<"\\", "\r", "\n">>, <<10>>, 1),
   Part(<<"\\", "z", " ", "\n", " ", "\n">>, <<>>, 2), Part(<<"\\", "q">>, <<>>, -1), Part(<<"\n">>, <<>>, -1)}
Quoted(ps) ==
  LET text == <<"\"">> \o FlattenSeq([i \in DOMAIN ps |-> ps[i].text]) \o <<"\"">>
  IN IF \E i \in DOMAIN ps : ps[i].n < 0 THEN Wrong(text)
     ELSE Piece(text, "<string>", FlattenSeq([i \in DOMAIN ps |-> ps[i].v]), FoldLeft(LAMBDA a, p : a + p.n, 0, ps))

LexCalls ==
  \/ fn = "luaX_next" /\ \E a, b \in Lexemes, x \in Separators, l \in {{}, {1}, {2}} :
       arg = [pieces |-> <<a, x, b, Between(<<"\n">>, 1)>>, looks |-> l]
  \/ fn = "luaX_next" /\ \E a, b \in Parts, c \in Lexemes :
       /\ ~(a.n = 2 /\ b.text = <<"\n">>)
       /\ arg = [pieces |-> <<Quoted(<<a, b>>), Between(<<" ">>, 0), c>>, looks |-> {}]
  \/ fn = "llex" /\ \E n \in 0 .. 4 :
       /\ arg \in [1 .. n -> {"=", "<", ">", "/", "~", ":", ".", "-"}]
       /\ \A i \in 1 .. n - 1 : arg[i] # "-" \/ arg[i + 1] # "-"

(* Code points at the ends of their ranges, and bytes that are no encoding. *)
Points == {0, 97, 127, 128, 2047, 2048, 55296, 65535, 65536, 1114111}
Damage == {<<>>, <<128>>, <<192, 128>>, <<193, 191>>, <<226, 130>>, <<224, 159, 191>>, <<244, 144, 128, 128>>,
           <<248, 136, 128, 128, 128>>, <<255>>, <<195, 40>>, <<240, 143, 191, 191>>}
TextCalls ==
  \/ fn = "string" /\ \E n \in 0 .. 4, i, j \in -17 .. 16 : arg = [s |-> [k \in 1 .. n |-> k], i |-> i, j |-> j]
  \/ fn = "utf8" /\ \E c \in UpTo(Points, 2) \cup [1 .. 3 -> {97, 2048, 65536}], b \in Damage, n \in -3 .. 4 :
       c # <<>> /\ \E i, j \in DOMAIN c :
         (j = Len(c) \/ n = 0) /\ arg = [codes |-> c, bad |-> b, i |-> i, j |-> j, n |-> n]

-----------------------------------------------------------------------------
(* The C interface, with integers of five bits; the conversions the manual  *)
(* allows os.date.                                                          *)
Sequenced == <<"a", "A", "b", "B", "c", "C", "d", "D", "e", "F", "g", "G", "h", "H", "I", "j", "m", "M", "n", "p", "r", "R", "S",
               "t", "T", "u", "U", "V", "w", "W", "x", "X", "y", "Y", "z", "Z", "%">>
WithE == <<"c", "C", "x", "X", "y", "Y">>
WithO == <<"d", "e", "H", "I", "m", "M", "S", "u", "U", "V", "w", "W", "y">>
After(letter, s) == FlattenSeq([k \in DOMAIN s |-> <<letter, s[k]>>])
Aux == INSTANCE LuaAux
         WITH Bits <- 5, LEVELS1 <- 10, LEVELS2 <- 11,
              Options <- Sequenced \o <<"|", "|">> \o After("E", WithE) \o After("O", WithO)
Date(text, kind, c) == [text |-> text, gives |-> <<kind, c>>]
Weeks == {"g", "G", "U", "V", "W"}
DateParts ==
  {Date(<<"%", c>>, "field", c) : c \in ToSet(Sequenced) \ Weeks} \cup {Date(<<"%", "E", c>>, "field", c) : c \in ToSet(WithE)}
    \cup {Date(<<"%", c>>, "panic", "") : c \in Weeks} \cup {Date(<<"%", "O", c>>, "panic", "") : c \in ToSet(WithO)}
    \cup {Date(<<c>>, "text", c) : c \in {"E", "d", "|"}}
    \cup {Date(<<"%", c>>, "error", "") : c \in {"k", "l", "P", "s", "f", "|"}}
    \cup {Date(<<"%", "E", "d">>, "error", ""), Date(<<"%", "O", "c">>, "error", "")}
Unfinished == {Date(<<"%">>, "error", ""), Date(<<"%", "E">>, "error", ""), Date(<<"%", "O">>, "error", "")}
AuxCalls ==
  \/ fn = "stack" /\ \E k \in 1 .. 5, i \in -5 .. 5, n \in -5 .. 5 :
       /\ i # 0 /\ (IF i < 0 THEN -i <= k /\ n \in i .. -i ELSE i <= k /\ n \in i - k - 1 .. k - i + 1)
       /\ arg = [s |-> [j \in 1 .. k |-> <<"a", "b", "c", "d", "e">>[j]], i |-> i, n |-> n]
  \/ fn = "traceback" /\ \E d \in 1 .. 60, l \in 0 .. 25 : l <= d /\ arg = [depth |-> d, level |-> l]
  \/ fn = "tonumber" /\ \E b \in {2, 10, 16, 36}, s \in UpTo({0, 32, 45, 43, 48, 49, 57, 97, 90, 46}, 4) : arg = [s |-> s, base |-> b]
  \/ fn = "select" /\ \E k \in 0 .. 3, i \in -5 .. 5 : arg = [values |-> SubSeq(Three, 1, k), i |-> i]
  \/ fn = "os.date" /\ \E x \in DateParts, y \in DateParts \cup Unfinished : arg \in {<<x>>, <<y>>, <<x, y>>}

-----------------------------------------------------------------------------
LuaCalls == PatternCalls \/ PackCalls \/ PackedSizes \/ ToldLengths \/ TabLibCalls \/ DumpCalls \/ NumberCalls \/ LexCalls \/ TextCalls \/ AuxCalls

(* The tokens of a source, as a constant operator: TLC counts the cost of   *)
(* what is under it once.                                                   *)
CONSTANT Tokens(_)
TokensOf(f) == LET t == Lex!Lexed IN t
ReadTokens == \E f \in {"luaX_next", "llex"} : Return(f, Tokens(f))

LuaNext ==
  \/ Pat!PatternNext \/ Packing!PackNext \/ TabLib!TabLibNext \/ Chunk!CallDump \/ Num!NumberNext
  \/ ReadTokens \/ Lex!TextNext \/ Aux!AuxNext

(* What Lua does with text: patterns, the bytes of pack, tokens, UTF-8.     *)
LuaTextRight == Pat!PatternRight /\ Packing!PackRight /\ Lex!LuaLexRight /\ Lex!LuaTextRight

(* What Lua does with tables, precompiled chunks, numbers and C's stack.    *)
LuaDataRight == TabLib!TabLibRight /\ Chunk!DumpRight /\ Num!NumberRight /\ Aux!AuxRight
=============================================================================
