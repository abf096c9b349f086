----------------------------- MODULE LuaPattern -----------------------------
(* Pattern matching, lstrlib.c: a backtracking matcher that works on the    *)
(* text of the pattern and keeps its captures in one array, undone by hand  *)
(* where a branch fails.  A character is a string of length one, a text a   *)
(* sequence of them and a pointer an offset from 0.                         *)
EXTENDS Integers, Sequences, FiniteSetsExt, SequencesExt, LibraryCall

CONSTANTS Letters,          \* the characters of %a, in order
          MAXCCALLS,        \* how deep match calls itself
          LUA_MAXCAPTURES,  \* how many captures a match has room for
          Alphabet          \* the characters a subject or a pattern has

NoMatch == -1     \* a match that fails
ERROR == -2    \* luaL_error was called
CAP_UNFINISHED == -1
CAP_POSITION == -2

Char(s, i) == IF i < Len(s) THEN s[i + 1] ELSE ""
Text(s, i, j) == SubSeq(s, i + 1, j)
Digits == <<"0", "1", "2", "3", "4", "5", "6", "7", "8", "9">>
Order(c) == SelectInSeq(Digits \o Letters, LAMBDA d : d = c)

match_class(c, cl) ==
  CASE cl = "a" -> c \in ToSet(Letters)
    [] cl = "A" -> c \notin ToSet(Letters)
    [] cl = "d" -> c \in ToSet(Digits)
    [] cl = "D" -> c \notin ToSet(Digits)
    [] OTHER -> c = cl

(* Where the single item at p ends; a set begins with what may be a ].      *)
RECURSIVE setend(_, _)
setend(pat, p) ==
  IF p >= Len(pat) THEN ERROR
  ELSE LET q == IF Char(pat, p) = "%" /\ p + 1 < Len(pat) THEN p + 2 ELSE p + 1
       IN IF Char(pat, q) = "]" THEN q + 1 ELSE setend(pat, q)

classend(pat, p) ==
  CASE Char(pat, p) = "%" -> IF p + 1 = Len(pat) THEN ERROR ELSE p + 2
    [] Char(pat, p) = "[" -> setend(pat, IF Char(pat, p + 1) = "^" THEN p + 2 ELSE p + 1)
    [] OTHER -> p + 1

(* Whether c is among the members of a set, from p to the ] at ec.          *)
RECURSIVE among(_, _, _, _)
among(c, pat, p, ec) ==
  /\ p < ec
  /\ CASE Char(pat, p) = "%" -> match_class(c, Char(pat, p + 1)) \/ among(c, pat, p + 2, ec)
       [] Char(pat, p) # "%" /\ Char(pat, p + 1) = "-" /\ p + 2 < ec ->
            \/ Order(Char(pat, p)) <= Order(c) /\ Order(c) <= Order(Char(pat, p + 2))
            \/ among(c, pat, p + 3, ec)
       [] OTHER -> Char(pat, p) = c \/ among(c, pat, p + 1, ec)

matchbracketclass(c, pat, p, ec) ==
  IF Char(pat, p + 1) = "^" THEN ~among(c, pat, p + 2, ec) ELSE among(c, pat, p + 1, ec)

singlematch(ms, s, p, ep) ==
  /\ s < Len(ms.src)
  /\ LET c == Char(ms.src, s)
     IN CASE Char(ms.pat, p) = "." -> TRUE
          [] Char(ms.pat, p) = "%" -> match_class(c, Char(ms.pat, p + 1))
          [] Char(ms.pat, p) = "[" -> matchbracketclass(c, ms.pat, p, ep - 1)
          [] OTHER -> Char(ms.pat, p) = c

(* The end of the text balanced in b and e, cont of them open before s.     *)
RECURSIVE balanced(_, _, _, _, _)
balanced(src, s, b, e, cont) ==
  IF s >= Len(src) THEN NoMatch
  ELSE IF Char(src, s) = e THEN IF cont = 1 THEN s + 1 ELSE balanced(src, s + 1, b, e, cont - 1)
  ELSE balanced(src, s + 1, b, e, IF Char(src, s) = b THEN cont + 1 ELSE cont)

matchbalance(ms, s, p) ==
  IF p >= Len(ms.pat) - 1 THEN ERROR
  ELSE IF Char(ms.src, s) # Char(ms.pat, p) THEN NoMatch
  ELSE balanced(ms.src, s + 1, Char(ms.pat, p), Char(ms.pat, p + 1), 1)

(* A match as far as it is known: the state, and where it ends.             *)
At(ms, e) == [ms |-> ms, e |-> e]
Failed(r) == r.e = NoMatch

Open(ms) == {l \in 1 .. ms.level : ms.capture[l].len = CAP_UNFINISHED}
Undo(ms, l) == [ms EXCEPT !.capture[l].len = CAP_UNFINISHED]

match_capture(ms, s, l) ==
  IF l \notin 1 .. ms.level \/ l \in Open(ms) THEN ERROR
  ELSE LET c == ms.capture[l]
       IN IF c.len # CAP_POSITION /\ s + c.len <= Len(ms.src)
             /\ Text(ms.src, s, s + c.len) = Text(ms.src, c.init, c.init + c.len)
          THEN s + c.len ELSE NoMatch  \* as a size, CAP_POSITION is too large

RECURSIVE match(_, _, _), do_match(_, _, _), max_expand(_, _, _, _, _), min_expand(_, _, _, _)

(* The longest repetition first.                                            *)
RECURSIVE expansion(_, _, _, _)
expansion(ms, s, p, ep) == IF singlematch(ms, s, p, ep) THEN 1 + expansion(ms, s + 1, p, ep) ELSE 0

max_expand(ms, s, p, ep, i) ==
  IF i < 0 THEN At(ms, NoMatch)
  ELSE LET r == match(ms, s + i, ep + 1)
       IN IF Failed(r) THEN max_expand(r.ms, s, p, ep, i - 1) ELSE r

min_expand(ms, s, p, ep) ==
  LET r == match(ms, s, ep + 1)
  IN IF ~Failed(r) THEN r
     ELSE IF singlematch(r.ms, s, p, ep) THEN min_expand(r.ms, s + 1, p, ep)
     ELSE At(r.ms, NoMatch)

start_capture(ms, s, p, what) ==
  LET l == ms.level + 1
      r == match([ms EXCEPT !.level = l, !.capture = [i \in 1 .. l |-> IF i = l THEN [init |-> s, len |-> what] ELSE @[i]]],
                 s, p)
  IN IF ms.level >= LUA_MAXCAPTURES THEN At(ms, ERROR)
     ELSE IF Failed(r) THEN At([r.ms EXCEPT !.level = @ - 1], NoMatch) ELSE r

(* The slip: a capture that was closed stays closed.                        *)
end_captureKept(ms, s, p) ==
  IF Open(ms) = {} THEN At(ms, ERROR)
  ELSE LET l == Max(Open(ms))
       IN match([ms EXCEPT !.capture[l].len = s - ms.capture[l].init], s, p)

end_capture(ms, s, p) ==
  IF Open(ms) = {} THEN At(ms, ERROR)
  ELSE LET l == Max(Open(ms))
           r == match([ms EXCEPT !.capture[l].len = s - ms.capture[l].init], s, p)
       IN IF Failed(r) THEN At(Undo(r.ms, l), NoMatch) ELSE r

(* An item with its suffix, or none.                                        *)
repeated(ms, s, p) ==
  LET ep == classend(ms.pat, p)
      suffix == Char(ms.pat, ep)
  IN IF ep = ERROR THEN At(ms, ERROR)
     ELSE IF ~singlematch(ms, s, p, ep)
     THEN IF suffix \in {"*", "?", "-"} THEN do_match(ms, s, ep + 1) ELSE At(ms, NoMatch)
     ELSE CASE suffix = "?" -> LET r == match(ms, s + 1, ep + 1)
                               IN IF Failed(r) THEN do_match(r.ms, s, ep + 1) ELSE r
            [] suffix = "+" -> max_expand(ms, s + 1, p, ep, expansion(ms, s + 1, p, ep))
            [] suffix = "*" -> max_expand(ms, s, p, ep, expansion(ms, s, p, ep))
            [] suffix = "-" -> min_expand(ms, s, p, ep)
            [] OTHER -> do_match(ms, s + 1, ep)

Go(ms, e, p) == IF e < 0 THEN At(ms, e) ELSE do_match(ms, e, p)

frontier(ms, s, p) ==
  LET ep == classend(ms.pat, p)
      previous == IF s = 0 THEN "" ELSE Char(ms.src, s - 1)
      in(c) == matchbracketclass(c, ms.pat, p, ep - 1)
  IN IF Char(ms.pat, p) # "[" \/ ep = ERROR THEN At(ms, ERROR)
     ELSE IF ~in(previous) /\ in(Char(ms.src, s)) THEN do_match(ms, s, ep) ELSE At(ms, NoMatch)

do_match(ms, s, p) ==
  LET c == Char(ms.pat, p)
      d == Char(ms.pat, p + 1)
  IN CASE p = Len(ms.pat) -> At(ms, s)
       [] c = "(" /\ d = ")" -> start_capture(ms, s, p + 2, CAP_POSITION)
       [] c = "(" /\ d # ")" -> start_capture(ms, s, p + 1, CAP_UNFINISHED)
       [] c = ")" -> end_capture(ms, s, p + 1)
       [] c = "$" /\ p + 1 = Len(ms.pat) -> At(ms, IF s = Len(ms.src) THEN s ELSE NoMatch)
       [] c = "%" /\ d = "b" -> Go(ms, matchbalance(ms, s, p + 2), p + 4)
       [] c = "%" /\ d = "f" -> frontier(ms, s, p + 2)
       [] c = "%" /\ d \in ToSet(Digits) -> Go(ms, match_capture(ms, s, Order(d) - 1), p + 2)
       [] OTHER -> repeated(ms, s, p)

match(ms, s, p) ==
  IF ms.matchdepth = 0 THEN At(ms, ERROR)
  ELSE LET r == do_match([ms EXCEPT !.matchdepth = @ - 1], s, p)
       IN [r EXCEPT !.ms.matchdepth = @ + 1]

-----------------------------------------------------------------------------
prepstate(s, p) == [src |-> s, pat |-> p, matchdepth |-> MAXCCALLS, level |-> 0, capture |-> <<>>]
reprepstate(ms) == [ms EXCEPT !.level = 0]

(* The values of a match from s to e: its captures, or all of it.           *)
onecapture(ms, i, s, e) ==
  IF ms.level = 0 THEN Text(ms.src, s, e)
  ELSE LET c == ms.capture[i]
       IN IF c.len = CAP_POSITION THEN <<c.init + 1>> ELSE Text(ms.src, c.init, c.init + c.len)
Unfinished(ms) == Open(ms) # {}
push_captures(ms, s, e, whole) ==
  [i \in 1 .. (IF ms.level = 0 /\ whole THEN 1 ELSE ms.level) |-> onecapture(ms, i, s, e)]

(* The first place at or after s where m2 is, in a search by its first      *)
(* character.                                                               *)
RECURSIVE lmemfind(_, _, _)
lmemfind(m1, s, m2) ==
  IF m2 = <<>> THEN s
  ELSE LET here == {i \in s .. Len(m1) - Len(m2) : Char(m1, i) = m2[1]}
       IN IF here = {} THEN NoMatch
          ELSE IF Text(m1, Min(here), Min(here) + Len(m2)) = m2 THEN Min(here)
          ELSE lmemfind(m1, Min(here) + 1, m2)

nospecials(p) == ToSet(p) \cap {"^", "$", "*", "+", "?", ".", "(", "[", "%", "-"} = {}
posrelat(pos, len) == IF pos >= 0 THEN pos ELSE IF -pos > len THEN 0 ELSE len + pos + 1

None == [start |-> NoMatch, end |-> NoMatch, caps |-> <<>>]
Fault == [None EXCEPT !.end = ERROR]

RECURSIVE find_from(_, _, _, _)
find_from(ms, s, anchor, find) ==
  LET r == match(reprepstate(ms), s, 0)
  IN IF r.e = ERROR THEN Fault
     ELSE IF ~Failed(r)
     THEN IF Unfinished(r.ms) THEN Fault
          ELSE [start |-> s, end |-> r.e, caps |-> push_captures(r.ms, s, r.e, ~find)]
     ELSE IF s < Len(ms.src) /\ ~anchor THEN find_from(r.ms, s + 1, anchor, find)
     ELSE None

Anchored(p) == Char(p, 0) = "^"
Body(p) == IF Anchored(p) THEN Tail(p) ELSE p

str_find_aux(s, p, i, find, plain) ==
  LET init == Max({1, posrelat(i, Len(s))})
      at == lmemfind(s, init - 1, p)
  IN IF init > Len(s) + 1 THEN None
     ELSE IF find /\ (plain \/ nospecials(p))
     THEN IF at = NoMatch THEN None ELSE [start |-> at, end |-> at + Len(p), caps |-> <<>>]
     ELSE find_from(prepstate(s, Body(p)), init - 1, Anchored(p), find)

(* gmatch: all matches from src on, each <<start, end>>, of a pattern that  *)
(* raises no error.  A match may not end where the last one did.            *)
stale(e, lastmatch) == e = lastmatch

RECURSIVE gmatch_aux(_, _, _)
gmatch_aux(ms, src, lastmatch) ==
  LET r == match(reprepstate(ms), src, 0)
  IN IF src > Len(ms.src) THEN <<>>
     ELSE IF r.e >= 0 /\ ~stale(r.e, lastmatch) THEN <<<<src, r.e>>>> \o gmatch_aux(r.ms, r.e, r.e)
     ELSE gmatch_aux(r.ms, src + 1, lastmatch)

gmatch(s, p) == gmatch_aux(prepstate(s, p), 0, NoMatch)

(* What an operation that raised an error gives, instead of <<its value>>.   *)
Raised == <<>>

(* A capture as text; a position in a subject of fewer than nine characters *)
(* is a digit.                                                              *)
Numeral(n) == <<Digits[n + 1]>>
push_onecapture(ms, l, s, e) ==
  CASE l > Max({1, ms.level}) \/ (ms.level > 0 /\ l \in Open(ms)) -> Raised
    [] l <= ms.level /\ ms.capture[l].len = CAP_POSITION -> <<Numeral(ms.capture[l].init + 1)>>
    [] OTHER -> <<onecapture(ms, l, s, e)>>

(* A replacement string with its escapes carried out.                       *)
RECURSIVE add_s(_, _, _, _)
add_s(ms, s, e, news) ==
  LET esc == news[1] = "%"
      c == Char(news, 1)
      first ==
        CASE ~esc -> <<<<news[1]>>>>
          [] esc /\ c = "%" -> <<<<c>>>>
          [] esc /\ c = "0" -> <<Text(ms.src, s, e)>>
          [] esc /\ c \in ToSet(Tail(Digits)) -> push_onecapture(ms, Order(c) - 1, s, e)
          [] OTHER -> Raised
      rest == add_s(ms, s, e, SubSeq(news, IF esc THEN 3 ELSE 2, Len(news)))
  IN IF news = <<>> THEN <<<<>>>> ELSE IF first = Raised \/ rest = Raised THEN Raised ELSE <<first[1] \o rest[1]>>

(* A replacement is a string, a table that is asked for the first capture   *)
(* or a function that is called with them all.  The last two give <<text>>, *)
(* what is no text (Raised), or nil where new.of has nothing.               *)
add_value(ms, s, e, new) ==
  LET asked == 1 .. (IF new.k = "function" THEN Max({1, ms.level}) ELSE 1)
      key == [i \in asked |-> push_onecapture(ms, i, s, e)[1]]
  IN CASE new.k = "string" -> add_s(ms, s, e, new.text)
       [] new.k # "string" /\ \E i \in asked : push_onecapture(ms, i, s, e) = Raised -> Raised
       [] OTHER -> IF key \in DOMAIN new.of THEN new.of[key] ELSE <<Text(ms.src, s, e)>>

(* gsub: how.max replacements at most; <<the text, how many>>.              *)
RECURSIVE gsub_from(_, _, _, _, _, _)
gsub_from(ms, src, lastmatch, out, n, how) ==
  LET r == match(reprepstate(ms), src, 0)
      v == add_value(r.ms, src, r.e, how.new)
      end(o, q, k) == <<o \o Text(ms.src, q, Len(ms.src)), k>>
      on(q, m, o, k) == IF how.anchor THEN end(o, q, k) ELSE gsub_from(r.ms, q, m, o, k, how)
  IN IF n >= how.max THEN end(out, src, n)
     ELSE IF r.e = ERROR THEN Raised
     ELSE IF r.e >= 0 /\ ~stale(r.e, lastmatch) THEN IF v = Raised THEN Raised ELSE on(r.e, r.e, out \o v[1], n + 1)
     ELSE IF src < Len(ms.src) THEN on(src + 1, lastmatch, Append(out, Char(ms.src, src)), n)
     ELSE end(out, src, n)

str_gsub(s, p, new, max_s) ==
  gsub_from(prepstate(s, Body(p)), 0, NoMatch, <<>>, 0, [new |-> new, max |-> max_s, anchor |-> Anchored(p)])

-----------------------------------------------------------------------------
(* What a pattern means, without a matcher: a sequence of items, each of    *)
(* them a relation between two places of the subject.  A walk gives the     *)
(* places between the items; of all walks the pattern takes the one that    *)
(* prefers longer repetitions, or shorter ones after "-", the first item    *)
(* deciding before the others.                                              *)
(* A class with its text, and the item it makes with a suffix.              *)
Class(text, set) == [text |-> text, set |-> set]
Single(c) == Class(<<c>>, {c})
One(class, rep) == [k |-> "one", text |-> class.text \o rep, set |-> class.set, rep |-> rep]
Mark(k, text) == [k |-> k, text |-> text]
Frontier(class) == [k |-> "frontier", text |-> <<"%", "f">> \o class.text, set |-> class.set]
Balance(b, e) == [k |-> "balance", text |-> <<"%", "b", b, e>>, b |-> b, e |-> e]
Back(n) == [k |-> "back", text |-> <<"%", Digits[n + 1]>>, n |-> n]
OpenItem == Mark("open", <<"(">>)
CloseItem == Mark("close", <<")">>)
Position == Mark("position", <<"(", ")">>)
EndItem == Mark("end", <<"$">>)

PatternText(items) == FlattenSeq([i \in DOMAIN items |-> items[i].text])

Captures(items) == SetToSortSeq({i \in DOMAIN items : items[i].k \in {"open", "position"}}, <)
Depth(items, i, j) ==
  Cardinality({x \in i .. j : items[x].k = "open"}) - Cardinality({x \in i .. j : items[x].k = "close"})
Closing(items, i) ==
  IF items[i].k = "position" THEN i ELSE Min({j \in i .. Len(items) : Depth(items, i, j) = 0})

WellFormed(items) ==
  /\ \A j \in DOMAIN items : Depth(items, 1, j) >= 0
  /\ Depth(items, 1, Len(items)) = 0
  /\ \A j \in DOMAIN items : items[j].k = "back" =>
       LET c == Captures(items)
       IN items[j].n \in DOMAIN c /\ Closing(items, c[items[j].n]) < j

(* The least end of a text that begins with b and has as many e as b.       *)
Count(s, i, j, c) == Cardinality({x \in i + 1 .. j : s[x] = c})
Balances(s, i, j, b, e) ==
  /\ Char(s, i) = b
  /\ j = Min({x \in i + 2 .. Len(s) :
                IF b = e THEN s[x] = e ELSE Count(s, i, x, b) = Count(s, i, x, e)} \cup {Len(s) + 1})

Holds(items, n, w, s, j) ==
  LET it == items[n]
      i == w[n]
      within == \A x \in i + 1 .. j : s[x] \in it.set
  IN CASE it.k = "one" ->
            /\ within
            /\ CASE it.rep = <<>> -> j = i + 1
                 [] it.rep = <<"?">> -> j <= i + 1
                 [] it.rep = <<"+">> -> j > i
                 [] OTHER -> TRUE
       [] it.k = "end" -> i = j /\ j = Len(s)
       [] it.k = "frontier" -> i = j /\ (IF i = 0 THEN "" ELSE s[i]) \notin it.set /\ Char(s, i) \in it.set
       [] it.k = "balance" -> Balances(s, i, j, it.b, it.e)
       [] it.k = "back" -> LET o == Captures(items)[it.n]
                           IN items[o].k = "open" /\ Text(s, i, j) = Text(s, w[o], w[Closing(items, o)])
       [] OTHER -> i = j

Walks(items, s, start) ==
  LET on(W, n) == UNION {{Append(w, j) : j \in {e \in w[n] .. Len(s) : Holds(items, n, w, s, e)}} : w \in W}
  IN FoldLeft(on, {<<start>>}, [n \in DOMAIN items |-> n])

Lazy(it) == it.k = "one" /\ it.rep = <<"-">>
Preferred(items, w, v) ==
  w = v \/ LET d == Min({n \in DOMAIN w : w[n] # v[n]})
           IN IF Lazy(items[d - 1]) THEN w[d] < v[d] ELSE w[d] > v[d]
Best(items, W) == CHOOSE w \in W : \A v \in W : Preferred(items, w, v)

Meant(items, s, w) ==
  LET c == Captures(items)
      value(i) == IF items[i].k = "position" THEN <<w[i] + 1>> ELSE Text(s, w[i], w[Closing(items, i)])
  IN [start |-> w[1], end |-> Last(w), caps |-> [n \in DOMAIN c |-> value(c[n])]]

(* The leftmost match, at start alone if the pattern is anchored there.     *)
Means(items, s, start, anchored) ==
  LET at == {i \in start .. (IF anchored THEN start ELSE Len(s)) : Walks(items, s, i) # {}}
  IN IF at = {} THEN None ELSE Meant(items, s, Best(items, Walks(items, s, Min(at))))

-----------------------------------------------------------------------------
Asked == (IF arg.anchored THEN <<"^">> ELSE <<>>) \o PatternText(arg.items)

CallFind == Return("str_find", str_find_aux(arg.s, Asked, arg.init, TRUE, arg.plain))
CallMatch == Return("str_match", str_find_aux(arg.s, Asked, arg.init, FALSE, FALSE))
CallGsub == Return("str_gsub", [all |-> gmatch(arg.s, Asked), new |-> str_gsub(arg.s, Asked, arg.new, arg.max)])
PatternNext == CallFind \/ CallMatch \/ CallGsub

Whole(m, s) == IF m.start # NoMatch /\ m.caps = <<>> THEN [m EXCEPT !.caps = <<Text(s, m.start, m.end)>>] ELSE m

(* Where a text is in a subject.                                            *)
Occurs(s, text, from) ==
  LET at == {i \in from .. Len(s) - Len(text) : Text(s, i, i + Len(text)) = text}
  IN IF at = {} THEN None ELSE [start |-> Min(at), end |-> Min(at) + Len(text), caps |-> <<>>]

(* string.find and string.match find what the pattern means, whichever of   *)
(* the two searches find uses; a plain find finds the pattern's own text.   *)
(* A pattern whose captures are not closed, or are too many, never matches: *)
(* it fails or raises an error.                                             *)
FindRight ==
  Returned("str_find") \/ Returned("str_match") =>
    LET from == IF arg.init < 0 THEN Max({0, Len(arg.s) + arg.init}) ELSE Max({0, arg.init - 1})
        meant == IF from > Len(arg.s) THEN None ELSE Means(arg.items, arg.s, from, arg.anchored)
    IN IF arg.plain THEN Result = Occurs(arg.s, Asked, from)
       ELSE IF ~WellFormed(arg.items) \/ Len(Captures(arg.items)) > LUA_MAXCAPTURES THEN Result \in {None, Fault}
       ELSE Result = IF fn = "str_find" THEN meant ELSE Whole(meant, arg.s)

(* The matches of gmatch: each is the next that does not end where the one  *)
(* before it did, and none is left over.                                    *)
Next(items, s, from, last) ==
  {i \in from .. Len(s) : LET W == Walks(items, s, i) IN W # {} /\ Last(Best(items, W)) # last}
Successive(items, s, all) ==
  /\ \A n \in DOMAIN all :
       LET end == IF n = 1 THEN 0 ELSE all[n - 1][2]
       IN /\ all[n][1] = Min(Next(items, s, end, IF n = 1 THEN NoMatch ELSE end))
          /\ all[n][2] = Last(Best(items, Walks(items, s, all[n][1])))
  /\ LET end == IF all = <<>> THEN 0 ELSE Last(all)[2]
     IN Next(items, s, end, IF all = <<>> THEN NoMatch ELSE end) = {}

(* A replacement string is made of parts, each a text that gives a          *)
(* character, or the match (0), or a capture; there is none with number 10. *)
Itself(c) == [text |-> IF c = "%" THEN <<c, c>> ELSE <<c>>, of |-> -1, gives |-> <<c>>]
Taken(n) == [text |-> <<"%", Digits[n + 1]>>, of |-> n]
Escape(text) == [text |-> <<"%">> \o text, of |-> 10]
NewText(parts) == [k |-> "string", text |-> FlattenSeq([i \in DOMAIN parts |-> parts[i].text]), parts |-> parts]

Given(items, s, w, new) ==
  LET c == Captures(items)
      caps == IF c = <<>> THEN <<Text(s, w[1], Last(w))>>
              ELSE [n \in DOMAIN c |-> IF items[c[n]].k = "position" THEN Numeral(w[c[n]] + 1) ELSE Meant(items, s, w).caps[n]]
      Of(x) == CASE x.of = -1 -> x.gives [] x.of = 0 -> Text(s, w[1], Last(w)) [] OTHER -> caps[x.of]
      key == IF new.k = "function" THEN caps ELSE <<caps[1]>>
  IN CASE new.k = "string" -> IF \E n \in DOMAIN new.parts : new.parts[n].of > Len(caps) THEN Raised
                              ELSE <<FlattenSeq([n \in DOMAIN new.parts |-> Of(new.parts[n])])>>
       [] new.k # "string" /\ key \in DOMAIN new.of -> new.of[key]
       [] OTHER -> <<Text(s, w[1], Last(w))>>

(* gsub gives the first of them what the replacement makes of each, leaves  *)
(* the rest of the text alone, and raises an error where there is nothing   *)
(* to put.                                                                  *)
Replaced(items, s, all, new) ==
  LET value(n) == Given(items, s, Best(items, Walks(items, s, all[n][1])), new)
      kept(n) == Text(s, IF n = 1 THEN 0 ELSE all[n - 1][2], all[n][1])
      rest == Text(s, IF all = <<>> THEN 0 ELSE Last(all)[2], Len(s))
  IN IF \E n \in DOMAIN all : value(n) = Raised THEN Raised
     ELSE <<FlattenSeq([n \in DOMAIN all |-> kept(n) \o value(n)[1]]) \o rest, Len(all)>>

GsubRight ==
  Returned("str_gsub") =>
    /\ Successive(arg.items, arg.s, Result.all)
    /\ Result.new = Replaced(arg.items, arg.s, SubSeq(Result.all, 1, Min({arg.max, Len(Result.all)})), arg.new)

PatternRight == FindRight /\ GsubRight
=============================================================================
