------------------------------- MODULE LuaLex -------------------------------
(* The lexical analyser, llex.c, and the numerals that lobject.c and the    *)
(* kernel's strtod accept.  A source is a sequence of characters, strings   *)
(* of length one; what a token says is a sequence of bytes.                 *)
EXTENDS LuaText

CONSTANTS Ord,       \* the byte of each character
          Reserved   \* the reserved words, as bytes

EOZ == ""
Char(s, i) == IF i < Len(s) THEN s[i + 1] ELSE EOZ
Codes(s, i, j) == [k \in 1 .. j - i |-> Ord[s[i + k]]]
Span(s, i, C) == Min({j \in i .. Len(s) : Char(s, j) \notin C}) - i

Newline == {"\n", "\r"}
Blank == {" ", "\t", "\f"}
Digits == {"0", "1", "2", "3", "4", "5", "6", "7", "8", "9"}
HexDigits == Digits \cup {"a", "b", "c", "d", "e", "f", "A", "B", "C", "D", "E", "F"}
Alpha == {c \in DOMAIN Ord : Ord[c] \in 65 .. 90 \cup 97 .. 122 \cup {95}}

(* A token: what it is, what it says, where and in which line it ends.      *)
Token(k, v, i, line) == [k |-> k, v |-> v, i |-> i, line |-> line]
Bad(line) == Token("error", <<>>, 0, line)

(* A line break may have two characters, if they are not the same.          *)
inclinenumber(s, i) == IF Char(s, i + 1) \in Newline \ {Char(s, i)} THEN i + 2 ELSE i + 1

-----------------------------------------------------------------------------
(* Numerals: what is read, and what is understood of it.                    *)
RECURSIVE numeral_end(_, _, _)
numeral_end(s, i, expo) ==
  LET j == IF Char(s, i) \notin expo THEN i ELSE IF Char(s, i + 1) \in {"-", "+"} THEN i + 2 ELSE i + 1
  IN IF Char(s, j) \in HexDigits \cup {"."} THEN numeral_end(s, j + 1, expo) ELSE j

IsHex(t) == Char(t, 0) = "0" /\ Char(t, 1) \in {"x", "X"}

(* How much of t strtod takes for a number.                                 *)
strtod(t) ==
  LET whole == Span(t, 0, Digits)
      fraction == IF Char(t, whole) = "." THEN 1 + Span(t, whole + 1, Digits) ELSE 0
      e == whole + fraction
      sign == IF Char(t, e + 1) \in {"-", "+"} THEN 1 ELSE 0
      exp == Span(t, e + 1 + sign, Digits)
  IN IF whole = 0 /\ fraction <= 1 THEN 0
     ELSE IF Char(t, e) \in {"e", "E"} /\ e + 1 + sign < Len(t) /\ exp > 0 THEN e + 1 + sign + exp ELSE e

luaO_str2num(t) ==
  LET n == IF IsHex(t) THEN 2 ELSE 0
      digits == Span(t, n, IF IsHex(t) THEN HexDigits ELSE Digits)
  IN CASE digits > 0 /\ n + digits = Len(t) -> "<integer>"
       [] strtod(t) = Len(t) -> "<number>"
       [] OTHER -> "error"

read_numeral(s, start, i, line) ==
  LET hex == IsHex(SubSeq(s, i + 1, i + 2))
      e == IF hex THEN numeral_end(s, i + 2, {"p", "P"}) ELSE numeral_end(s, i + 1, {"e", "E"})
      k == luaO_str2num(SubSeq(s, start + 1, e))
  IN IF k = "error" THEN Bad(line) ELSE Token(k, Codes(s, start, e), e, line)

-----------------------------------------------------------------------------
(* A long bracket of n equal signs; n is negative if it is none, and -1 if  *)
(* it is a bracket alone.                                                   *)
skip_sep(s, i) ==
  LET n == Span(s, i + 1, {"="})
  IN [i |-> i + 1 + n, n |-> IF Char(s, i + 1 + n) = Char(s, i) THEN n ELSE -n - 1]

RECURSIVE long_body(_, _, _, _, _)
long_body(s, i, line, sep, b) ==
  LET c == Char(s, i)
      close == skip_sep(s, i)
  IN CASE c = EOZ -> Bad(line)
       [] c = "]" /\ close.n = sep -> Token("<string>", b, close.i + 1, line)
       [] c = "]" /\ close.n # sep -> long_body(s, close.i, line, sep, b \o Codes(s, i, close.i))
       [] c \in Newline -> long_body(s, inclinenumber(s, i), line + 1, sep, Append(b, Ord["\n"]))
       [] OTHER -> long_body(s, i + 1, line, sep, Append(b, Ord[c]))

(* i is at the second bracket.                                              *)
read_long_string(s, i, line, sep) ==
  IF Char(s, i + 1) \in Newline THEN long_body(s, inclinenumber(s, i + 1), line + 1, sep, <<>>)
  ELSE long_body(s, i + 1, line, sep, <<>>)

(* An escape sequence after its backslash: its bytes, where it ends and the *)
(* lines it adds; none ends at -1 that is wrong.                            *)
Escape(b, i, lines) == [b |-> b, i |-> i, lines |-> lines]
BadEscape == Escape(<<>>, -1, 0)
Control == [a |-> 7, b |-> 8, t |-> 9, n |-> 10, v |-> 11, f |-> 12, r |-> 13]
Numeric(base, v) == FoldLeft(LAMBDA r, c : r * base + (IF c < 58 THEN c - 48 ELSE IF c < 71 THEN c - 55 ELSE c - 87), 0, v)

readhexaesc(s, i) ==
  IF Span(s, i, HexDigits) < 2 THEN BadEscape ELSE Escape(<<Numeric(16, Codes(s, i, i + 2))>>, i + 2, 0)
readutf8esc(s, i) ==
  LET n == Span(s, i + 1, HexDigits)
      r == Numeric(16, Codes(s, i + 1, i + 1 + n))
  IN IF Char(s, i) # "{" \/ n = 0 THEN BadEscape
     ELSE IF r > MAXUNICODE \/ Char(s, i + 1 + n) # "}" THEN BadEscape
     ELSE Escape(luaO_utf8esc(r), i + 2 + n, 0)
readdecesc(s, i) ==
  LET n == Min({3, Span(s, i, Digits)})
      r == Numeric(10, Codes(s, i, i + n))
  IN IF r > 255 THEN BadEscape ELSE Escape(<<r>>, i + n, 0)

RECURSIVE zap(_, _, _)
zap(s, i, lines) ==
  CASE Char(s, i) \in Newline -> zap(s, inclinenumber(s, i), lines + 1)
    [] Char(s, i) \in Blank -> zap(s, i + 1, lines)
    [] OTHER -> Escape(<<>>, i, lines)

escape(s, i) ==
  LET c == Char(s, i)
  IN CASE c \in DOMAIN Control -> Escape(<<Control[c]>>, i + 1, 0)
       [] c = "x" -> readhexaesc(s, i + 1)
       [] c = "u" -> readutf8esc(s, i + 1)
       [] c \in Newline -> Escape(<<Ord["\n"]>>, inclinenumber(s, i), 1)
       [] c \in {"\\", "\"", "'"} -> Escape(<<Ord[c]>>, i + 1, 0)
       [] c = "z" -> zap(s, i + 1, 0)
       [] c \in Digits -> readdecesc(s, i)
       [] c = EOZ -> Escape(<<>>, i, 0)
       [] OTHER -> BadEscape

RECURSIVE read_string(_, _, _, _, _)
read_string(s, i, line, del, b) ==
  LET c == Char(s, i)
      e == escape(s, i + 1)
  IN CASE c = del -> Token("<string>", b, i + 1, line)
       [] c \in Newline \cup {EOZ} -> Bad(line)
       [] c = "\\" -> IF e.i < 0 THEN Bad(line) ELSE read_string(s, e.i, line + e.lines, del, b \o e.b)
       [] OTHER -> read_string(s, i + 1, line, del, Append(b, Ord[c]))

-----------------------------------------------------------------------------
(* What may follow a character in a token of two; and how long the token of *)
(* a symbol is.                                                             *)
Second == [c \in {"=", ">", "<", "/", "~", ":"} |->
             CASE c \in {"=", "~"} -> {"="} [] c \in {"<", ">"} -> {"=", c} [] OTHER -> {c}]
symbol(s, i) ==
  LET c == Char(s, i)
  IN IF c = "." THEN Min({3, Span(s, i, {"."})})
     ELSE IF c \in DOMAIN Second /\ Char(s, i + 1) \in Second[c] THEN 2 ELSE 1

RECURSIVE llex(_, _, _)
comment(s, i, line) ==
  LET sep == skip_sep(s, i)
      r == read_long_string(s, sep.i, line, sep.n)
  IN IF Char(s, i) = "[" /\ sep.n >= 0
     THEN IF r.k = "error" THEN r ELSE llex(s, r.i, r.line)
     ELSE llex(s, Min({j \in i .. Len(s) : Char(s, j) \in Newline \cup {EOZ}}), line)

llex(s, i, line) ==
  LET c == Char(s, i)
      sep == skip_sep(s, i)
      letters == Span(s, i, Alpha \cup Digits)
      v == Codes(s, i, i + letters)
  IN CASE c \in Newline -> llex(s, inclinenumber(s, i), line + 1)
       [] c \in Blank -> llex(s, i + 1, line)
       [] c = "-" /\ Char(s, i + 1) = "-" -> comment(s, i + 2, line)
       [] c = "[" /\ sep.n >= 0 -> read_long_string(s, sep.i, line, sep.n)
       [] c = "[" /\ sep.n < -1 -> Bad(line)
       [] c \in {"\"", "'"} -> read_string(s, i + 1, line, c, <<>>)
       [] c \in Digits -> read_numeral(s, i, i, line)
       [] c = "." /\ Char(s, i + 1) \in Digits -> read_numeral(s, i, i + 1, line)
       [] c = EOZ -> Token("<eof>", <<>>, i, line)
       [] c \in Alpha -> Token(IF v \in Reserved THEN "reserved" ELSE "<name>", v, i + letters, line)
       [] OTHER -> Token("symbol", Codes(s, i, i + symbol(s, i)), i + symbol(s, i), line)

(* The parser's view: a token, and perhaps the one after it.                *)
luaX_setinput == [t |-> Token("", <<>>, 0, 1), lookahead |-> <<>>, i |-> 0, linenumber |-> 1, lastline |-> 1]
Read(s, ls) == llex(s, ls.i, ls.linenumber)
luaX_next(s, ls) ==
  LET t == IF ls.lookahead = <<>> THEN Read(s, ls) ELSE ls.lookahead[1]
  IN [t |-> t, lookahead |-> <<>>, lastline |-> ls.linenumber,
      i |-> t.i, linenumber |-> t.line]
luaX_lookahead(s, ls) ==
  LET t == Read(s, ls) IN [ls EXCEPT !.lookahead = <<t>>, !.i = t.i, !.linenumber = t.line]

(* All tokens, for a parser that looks ahead after those in looks.          *)
RECURSIVE tokens(_, _, _, _)
tokens(s, ls, looks, n) ==
  LET now == luaX_next(s, ls)
      seen == <<[k |-> now.t.k, v |-> now.t.v, line |-> now.linenumber, last |-> now.lastline]>>
  IN IF now.t.k \in {"<eof>", "error"} THEN seen
     ELSE seen \o tokens(s, IF n \in looks THEN luaX_lookahead(s, now) ELSE now, looks, n + 1)

-----------------------------------------------------------------------------
(* A source made of pieces, each with the token it is, or "", and how many  *)
(* line breaks it has; and one of characters that are symbols.              *)
Source == IF fn = "llex" THEN arg ELSE FlattenSeq([i \in DOMAIN arg.pieces |-> arg.pieces[i].text])
Lexed == tokens(Source, luaX_setinput, IF fn = "llex" THEN {} ELSE arg.looks, 1)

(* The tokens are those of the pieces, whatever stands between them, and a  *)
(* piece that is wrong is where it ends.  A token's line is its own, and    *)
(* lastline that of the token before, but its own if it was looked ahead.   *)
LinesTo(p, n) == 1 + FoldFunctionOnSet(+, 0, [i \in DOMAIN p |-> p[i].breaks], 1 .. n)
LexRight ==
  Returned("luaX_next") =>
    LET p == arg.pieces
        places == SetToSortSeq({i \in DOMAIN p : p[i].k # ""}, <)
        wrong == {n \in DOMAIN places : p[places[n]].k = "error"}
        count == IF wrong = {} THEN Len(places) ELSE Min(wrong)
        lineOf(n) == IF n = 0 THEN 1 ELSE LinesTo(p, IF n <= Len(places) THEN places[n] ELSE Len(p))
        finished == wrong = {}
    IN /\ Len(Result) = IF finished THEN count + 1 ELSE count
       /\ finished => Last(Result).k = "<eof>"
       /\ \A n \in 1 .. count :
            LET r == Result[n]
            IN /\ r.k = p[places[n]].k
               /\ r.k # "error" => /\ r.v = p[places[n]].v
                                   /\ r.line = lineOf(n)
                                   /\ r.last = lineOf(IF n - 1 \in arg.looks THEN n ELSE n - 1)

(* Each token of symbols is the longest that there is at its place.         *)
Symbols == {<<"=">>, <<"=", "=">>, <<"<">>, <<"<", "=">>, <<"<", "<">>, <<">">>, <<">", "=">>, <<">", ">">>, <<"/">>, <<"/", "/">>,
            <<"~">>, <<"~", "=">>, <<":">>, <<":", ":">>, <<".">>, <<".", ".">>, <<".", ".", ".">>, <<"-">>, <<"#">>, <<"[">>}
MunchRight ==
  Returned("llex") /\ Last(Result).k = "<eof>" =>
    LET texts == [n \in 1 .. Len(Result) - 1 |-> Result[n].v]
        begins(n) == FoldFunctionOnSet(+, 0, [m \in DOMAIN texts |-> Len(texts[m])], 1 .. n - 1)
        coded(x) == Codes(x, 0, Len(x))
    IN /\ FlattenSeq(texts) = coded(arg)
       /\ \A n \in DOMAIN texts :
            LET longest == CHOOSE x \in Symbols : IsPrefix(x, SubSeq(arg, begins(n) + 1, Len(arg)))
                             /\ \A y \in Symbols : IsPrefix(y, SubSeq(arg, begins(n) + 1, Len(arg))) => Len(y) <= Len(x)
            IN texts[n] = coded(longest)

LuaLexRight == LexRight /\ MunchRight
=============================================================================
