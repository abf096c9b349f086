----------------------------- MODULE LuaMeaning ------------------------------
(* What the language says a program does, by the structure of the program   *)
(* and not by any code for it: the definition the compiler and the virtual  *)
(* machine are checked against.  s holds the variables (store), the         *)
(* functions, the tables, the calls of ext and the answers it has left; ctl *)
(* says how a statement was left, v what values an expression has.  env     *)
(* gives each visible name its place in the store.                          *)
EXTENDS LuaValue

RECURSIVE Eval(_, _, _), EvalAll(_, _, _), Operate(_, _, _), Callf(_, _, _), Exec(_, _, _), RunFrom(_, _, _, _, _),
          WhileLoop(_, _, _, _), RepeatLoop(_, _, _, _), ForLoopOver(_, _, _, _, _, _, _), ForInLoop(_, _, _, _, _),
          Choose(_, _, _, _), Items(_, _, _, _, _), Places(_, _, _)

Then(s, F(_)) == IF s.ctl = "" THEN F(s) ELSE s
Gives(s, vs) == [s EXCEPT !.v = vs]
Raise(s, why) == [s EXCEPT !.ctl = "error", !.v = <<Str(why)>>]
FirstOf(vs) == IF vs = <<>> THEN Nil ELSE vs[1]
One(s, env, x) == Then(Eval(s, env, x), LAMBDA t : Gives(t, <<FirstOf(t.v)>>))
Stored(s, env, v) == [s EXCEPT !.store = Append(@, v)]
Bind(env, names, from) ==
  FoldLeft(LAMBDA e, n : (names[n] :> from + n) @@ e, env, [n \in DOMAIN names |-> n])
(* New variables for these names.                                           *)
Declare(s, env, names, vs) ==
  [s EXCEPT !.store = @ \o Adjusted(vs, Len(names)), !.env = Bind(env, names, Len(s.store))]

Read(s, t, k) == IF t[1] = "tab" THEN Gives(s, <<Entry(s.tabs[t[2]], k)>>) ELSE Raise(s, "index")
Write(s, t, k, v) ==
  IF t[1] = "tab" /\ k # Nil THEN [s EXCEPT !.tabs[t[2]] = WithEntry(@, k, v)] ELSE Raise(s, "index")
Global == <<"tab", 1>>
Lookup(s, env, n) == IF n \in DOMAIN env THEN Gives(s, <<s.store[env[n]]>>) ELSE Read(s, Global, Str(n))
NewFunction(s, env, fn) ==
  [s EXCEPT !.fns = Append(@, [fn |-> fn, env |-> env]), !.v = <<<<"fn", Len(s.fns) + 1>>>>]

(***************************************************************************)
(* Operators: an expression is what its loosest operator makes of its two  *)
(* sides, the last one of these but for '..'.                              *)
(***************************************************************************)
Looseness == <<{"or"}, {"and"}, {"<", ">", "<=", ">=", "~=", "=="}, {".."}, {"+", "-"}, {"*", "//", "%"}>>
BinopsOf(ts, ops) == {n \in DOMAIN ts : ts[n][1] = "binop" /\ ts[n][2] \in ops}
Splitting(ts) ==
  LET level == Min({l \in DOMAIN Looseness : BinopsOf(ts, Looseness[l]) # {}})
      at == BinopsOf(ts, Looseness[level])
  IN IF level = 4 THEN Min(at) ELSE Max(at)
OpName == ("+" :> "ADD" @@ "-" :> "SUB" @@ "*" :> "MUL" @@ "%" :> "MOD" @@ "//" :> "IDIV")
Binop(s, op, a, b) ==
  CASE op \in DOMAIN OpName ->
         IF IsInt(a) /\ IsInt(b) /\ Defined(OpName[op], a[2], b[2])
         THEN Gives(s, <<Num(Arith(OpName[op], a[2], b[2]))>>) ELSE Raise(s, "arithmetic")
    [] op = ".." -> IF Joinable(a) /\ Joinable(b) THEN Gives(s, <<Str(Text(a) \o Text(b))>>) ELSE Raise(s, "concatenate")
    [] op = "==" -> Gives(s, <<Bool(a = b)>>)
    [] op = "~=" -> Gives(s, <<Bool(a # b)>>)
    [] OTHER ->
         IF ~(IsInt(a) /\ IsInt(b)) THEN Raise(s, "compare")
         ELSE Gives(s, <<Bool(CASE op = "<" -> a[2] < b[2] [] op = "<=" -> a[2] <= b[2]
                                [] op = ">" -> a[2] > b[2] [] op = ">=" -> a[2] >= b[2])>>)
Unop(s, op, a) ==
  CASE op = "not" -> Gives(s, <<Bool(Falsy(a))>>)
    [] op = "-" -> IF IsInt(a) THEN Gives(s, <<Num(-a[2])>>) ELSE Raise(s, "arithmetic")
    [] op = "#" /\ a[1] = "tab" -> Gives(s, <<Num(Border(s.tabs[a[2]]))>>)
    [] op = "#" /\ a[1] = "str" -> Gives(s, <<Num(Len(a[2]))>>)
    [] OTHER -> Raise(s, "length")
Operate(s, env, ts) ==
  LET n == Splitting(ts)
      op == ts[n][2]
      left == Operate(s, env, SubSeq(ts, 1, n - 1))
      Right(t) == Operate(t, env, SubSeq(ts, n + 1, Len(ts)))
      Kept(v) == (op = "and") = Falsy(v)
  IN CASE BinopsOf(ts, UNION {Looseness[l] : l \in DOMAIN Looseness}) = {} ->
            IF Len(ts) = 1 THEN One(s, env, ts[1])
            ELSE Then(Operate(s, env, Tail(ts)), LAMBDA t : Unop(t, ts[1][2], t.v[1]))
       [] OTHER -> Then(left, LAMBDA t : IF op \in {"and", "or"}
                                         THEN IF Kept(t.v[1]) THEN t ELSE Right(t)
                                         ELSE Then(Right(t), LAMBDA u : Binop(u, op, t.v[1], u.v[1])))

(***************************************************************************)
(* Expressions and calls.                                                  *)
(***************************************************************************)
EvalAll(s, env, xs) ==
  CASE xs = <<>> -> Gives(s, <<>>)
    [] Len(xs) = 1 -> Eval(s, env, xs[1])
    [] OTHER -> Then(One(s, env, xs[1]), LAMBDA t : Then(EvalAll(t, env, Tail(xs)), LAMBDA u : Gives(u, t.v \o u.v)))
Items(s, env, t, fs, n) ==
  LET f == fs[1]
      one == IF Len(fs) = 1 THEN Eval(s, env, f[2]) ELSE One(s, env, f[2])
      Put(u, k, v) == Then(Write(u, t, k, v), LAMBDA w : Items(w, env, t, Tail(fs), n))
      PutAll(u) == FoldLeft(LAMBDA x, j : Write(x, t, Num(n + j - 1), u.v[j]), u, [j \in 1 .. Len(u.v) |-> j])
  IN CASE fs = <<>> -> Gives(s, <<t>>)
       [] fs # <<>> /\ f[1] = "item" -> Then(one, LAMBDA u : Items(PutAll(u), env, t, Tail(fs), n + 1))
       [] fs # <<>> /\ f[1] = "named" -> Then(One(s, env, f[3]), LAMBDA u : Put(u, Str(f[2]), u.v[1]))
       [] OTHER -> Then(One(s, env, f[2]), LAMBDA k : Then(One(k, env, f[3]), LAMBDA u : Put(u, k.v[1], u.v[1])))
Eval(s, env, x) ==
  CASE x[1] = "int" -> Gives(s, <<Num(x[2])>>)
    [] x[1] = "str" -> Gives(s, <<Str(x[2])>>)
    [] x[1] = "nil" -> Gives(s, <<Nil>>)
    [] x[1] = "true" -> Gives(s, <<Bool(TRUE)>>)
    [] x[1] = "false" -> Gives(s, <<Bool(FALSE)>>)
    [] x[1] = "..." -> Gives(s, s.store[env["..."]])
    [] x[1] = "name" -> Lookup(s, env, x[2])
    [] x[1] = "paren" -> One(s, env, x[2])
    [] x[1] = "ops" -> Operate(s, env, x[2])
    [] x[1] = "function" -> NewFunction(s, env, x[2])
    [] x[1] = "table" -> Items([s EXCEPT !.tabs = Append(@, <<>>)], env, <<"tab", Len(s.tabs) + 1>>, x[2], 1)
    [] x[1] = "dot" -> Then(One(s, env, x[2]), LAMBDA t : Read(t, t.v[1], Str(x[3])))
    [] x[1] = "index" -> Then(One(s, env, x[2]), LAMBDA t : Then(One(t, env, x[3]), LAMBDA k : Read(k, t.v[1], k.v[1])))
    [] x[1] = "call" -> Then(One(s, env, x[2]), LAMBDA f : Then(EvalAll(f, env, x[3]), LAMBDA a : Callf(a, f.v[1], a.v)))
    [] x[1] = "method" ->
         Then(One(s, env, x[2]), LAMBDA o : Then(Read(o, o.v[1], Str(x[3])), LAMBDA f :
           Then(EvalAll(f, env, x[4]), LAMBDA a : Callf(a, f.v[1], o.v \o a.v))))
Callf(s, f, args) ==
  LET c == s.fns[f[2]]
      n == Len(c.fn.params)
      d == Declare(s, c.env, c.fn.params, args)
      rest == [d EXCEPT !.store = Append(@, SubSeq(args, n + 1, Len(args))), !.env = ("..." :> Len(d.store) + 1) @@ @]
      ran == RunFrom(rest, rest.env, c.fn.body, 1, <<>>)
      called == [s EXCEPT !.log = Append(@, args)]
      protected == Callf(s, FirstOf(args), Tail(args))
  IN CASE f[1] = "fn" -> IF ran.ctl = "return" THEN [ran EXCEPT !.ctl = ""]
                         ELSE IF ran.ctl = "error" THEN ran ELSE Gives(ran, <<>>)
       [] f = <<"cfn", "ext">> ->
            IF s.ans = <<>> THEN Raise(called, "no answer") ELSE Gives([called EXCEPT !.ans = Tail(@)], s.ans[1])
       [] f = <<"cfn", "error">> -> [s EXCEPT !.ctl = "error", !.v = Adjusted(args, 1)]
       [] f = <<"cfn", "pcall">> /\ args = <<>> -> Raise(s, "argument")
       [] f = <<"cfn", "pcall">> /\ args # <<>> ->
            IF protected.ctl = "error" THEN [protected EXCEPT !.ctl = "", !.v = <<Bool(FALSE), FirstOf(protected.v)>>]
            ELSE Gives(protected, <<Bool(TRUE)>> \o protected.v)
       [] OTHER -> Raise(s, "call")

(***************************************************************************)
(* Statements.                                                             *)
(***************************************************************************)
(* A block, from a statement on; seen has the labels that were passed.      *)
LabelAt(b, l) == {n \in DOMAIN b : b[n] = <<"label", l>>}
RunFrom(s, env, b, n, seen) ==
  LET r == Exec(s, env, b[n])
      known == IF b[n][1] = "label" THEN (b[n][2] :> env) @@ seen ELSE seen
      to == Min(LabelAt(b, r.label))
      jumped == [l \in {b[i][2] : i \in {j \in n + 1 .. to - 1 : b[j][1] = "label"}} |-> env] @@ known
  IN CASE n > Len(b) -> [s EXCEPT !.env = env]
       [] n <= Len(b) /\ r.ctl = "" -> RunFrom(r, r.env, b, n + 1, known)
       [] n <= Len(b) /\ r.ctl = "goto" /\ LabelAt(b, r.label) # {} ->
            RunFrom([r EXCEPT !.ctl = ""], IF to < n THEN known[r.label] ELSE env, b, to, jumped)
       [] OTHER -> r
Block(s, env, b) == [RunFrom(s, env, b, 1, <<>>) EXCEPT !.env = env]
Broken(s) == IF s.ctl = "break" THEN [s EXCEPT !.ctl = ""] ELSE s

WhileLoop(s, env, x, b) ==
  Then(One(s, env, x), LAMBDA t : IF Falsy(t.v[1]) THEN t
                                  ELSE LET r == Block(t, env, b) IN IF r.ctl = "" THEN WhileLoop(r, env, x, b) ELSE Broken(r))
RepeatLoop(s, env, b, x) ==
  LET r == RunFrom(s, env, b, 1, <<>>)
  IN IF r.ctl # "" THEN Broken(r) ELSE Then(One(r, r.env, x), LAMBDA t : IF Falsy(t.v[1]) THEN RepeatLoop(t, env, b, x) ELSE t)
ForLoopOver(s, env, x, n, limit, step, b) ==
  IF IF 0 < step THEN n > limit ELSE n < limit THEN s ELSE
  LET d == Declare(s, env, <<x>>, <<Num(n)>>)
      r == Block(d, d.env, b)
  IN IF r.ctl = "" THEN ForLoopOver(r, env, x, n + step, limit, step, b) ELSE Broken(r)
ForInLoop(s, env, names, fsc, b) ==
  Then(Callf(s, fsc[1], <<fsc[2], fsc[3]>>), LAMBDA t :
    LET d == Declare(t, env, names, t.v)
        r == Block(d, d.env, b)
    IN IF FirstOf(t.v) = Nil THEN t
       ELSE IF r.ctl = "" THEN ForInLoop(r, env, names, [fsc EXCEPT ![3] = t.v[1]], b) ELSE Broken(r))
Choose(s, env, clauses, els) ==
  IF clauses = <<>> THEN IF els = <<>> THEN s ELSE Block(s, env, els[1])
  ELSE Then(One(s, env, clauses[1][1]), LAMBDA t :
         IF Falsy(t.v[1]) THEN Choose(t, env, Tail(clauses), els) ELSE Block(t, env, clauses[1][2]))

(* Where the targets of an assignment are.                                  *)
Places(s, env, vars) ==
  IF vars = <<>> THEN Gives(s, <<>>) ELSE
  LET x == vars[1]
      More(t, place) == Then(Places(t, env, Tail(vars)), LAMBDA u : Gives(u, <<place>> \o u.v))
  IN CASE x[1] = "name" /\ x[2] \in DOMAIN env -> More(s, <<"var", env[x[2]]>>)
       [] x[1] = "name" /\ x[2] \notin DOMAIN env -> More(s, <<"entry", Global, Str(x[2])>>)
       [] x[1] = "dot" -> Then(One(s, env, x[2]), LAMBDA t : More(t, <<"entry", t.v[1], Str(x[3])>>))
       [] x[1] = "index" -> Then(One(s, env, x[2]), LAMBDA t : Then(One(t, env, x[3]), LAMBDA k : More(k, <<"entry", t.v[1], k.v[1]>>)))
Assigned(s, place, v) ==
  Then(s, LAMBDA t : IF place[1] = "var" THEN [t EXCEPT !.store[place[2]] = v] ELSE Write(t, place[2], place[3], v))
AssignAll(s, places, vs) ==
  FoldRight(LAMBDA n, t : Assigned(t, places[n], vs[n]), [n \in DOMAIN places |-> n], s)

Exec(s, env, x) ==
  LET In(t) == [t EXCEPT !.env = IF t.ctl \in {"", "goto"} THEN env ELSE @]
  IN CASE x[1] \in {";", "label"} -> In(s)
       [] x[1] = "if" -> In(Choose(s, env, x[2], x[3]))
       [] x[1] = "while" -> In(WhileLoop(s, env, x[2], x[3]))
       [] x[1] = "do" -> In(Block(s, env, x[2]))
       [] x[1] = "for" ->
            In(Then(EvalAll(s, env, x[3]), LAMBDA t :
              LET l == Adjusted(t.v \o (IF Len(x[3]) = 2 THEN <<Num(1)>> ELSE <<>>), 3)
              IN IF \E n \in 1 .. 3 : ~IsInt(l[n]) THEN Raise(t, "for")
                 ELSE ForLoopOver(t, env, x[2], l[1][2], l[2][2], l[3][2], x[4])))
       [] x[1] = "forin" -> In(Then(EvalAll(s, env, x[3]), LAMBDA t : ForInLoop(t, env, x[2], Adjusted(t.v, 3), x[4])))
       [] x[1] = "repeat" -> In(RepeatLoop(s, env, x[2], x[3]))
       [] x[1] = "function" ->
            LET f == [x[5] EXCEPT !.params = (IF x[4] THEN <<"self">> ELSE <<>>) \o @]
                var == FoldLeft(LAMBDA e, n : <<"dot", e, n>>, <<"name", x[2]>>, x[3])
            IN In(Then(Places(s, env, <<var>>), LAMBDA p : LET n == NewFunction(p, env, f) IN AssignAll(n, p.v, n.v)))
       [] x[1] = "localfunction" ->
            LET d == Declare(s, env, <<x[2]>>, <<Nil>>)
                n == NewFunction(d, d.env, x[3])
            IN [n EXCEPT !.store[n.env[x[2]]] = n.v[1]]
       [] x[1] = "local" -> Then(EvalAll(s, env, x[3]), LAMBDA t : Declare(t, env, x[2], t.v))
       [] x[1] = "goto" -> [In(s) EXCEPT !.ctl = "goto", !.label = x[2]]
       [] x[1] = "break" -> [s EXCEPT !.ctl = "break"]
       [] x[1] = "return" -> Then(EvalAll(s, env, x[2]), LAMBDA t : [t EXCEPT !.ctl = "return"])
       [] x[1] = "assign" ->
            In(Then(Places(s, env, x[2]), LAMBDA p :
              Then(EvalAll(p, env, x[3]), LAMBDA t : AssignAll(t, p.v, Adjusted(t.v, Len(x[2]))))))
       [] x[1] = "exp" -> In(Eval(s, env, x[2]))

Meaning(program, answers, globals) ==
  LET s == [store |-> <<>>, fns |-> <<[fn |-> [params |-> <<>>, vararg |-> TRUE, body |-> program], env |-> <<>>]>>,
            tabs |-> <<globals>>, log |-> <<>>, ans |-> answers, ctl |-> "", v |-> <<>>, label |-> "", env |-> <<>>]
      r == Callf(s, <<"fn", 1>>, <<>>)
  IN [log |-> r.log, out |-> IF r.ctl = "error" THEN <<"error", FirstOf(r.v)>> ELSE <<"done", r.v>>]

(***************************************************************************)
(* Which programs are programs: where a label may be jumped to.  outer has, *)
(* for each block around, what it holds, where the jump is in it and        *)
(* whether it is a loop's with a condition at its end.                      *)
(***************************************************************************)
RECURSIVE LegalBlock(_, _, _, _), LegalExp(_), LegalIn(_, _, _)
Void(x) == x[1] \in {";", "label"}
LegalGoto(outer, l) ==
  LET has == {n \in DOMAIN outer : LabelAt(outer[n].b, l) # {}}
      o == outer[Max(has)]
      to == Max(LabelAt(o.b, l))
  IN /\ has # {}
     /\ \/ to < o.at
        \/ \A n \in o.at .. to : o.b[n][1] \notin {"local", "localfunction"}
        \/ ~o.until /\ \A n \in to .. Len(o.b) : Void(o.b[n])
(* The functions in an expression.                                          *)
LegalExp(x) ==
  CASE x[1] = "function" -> LegalBlock(x[2].body, <<>>, FALSE, FALSE)
    [] x[1] \in {"call", "method"} -> LegalExp(x[2]) /\ \A n \in DOMAIN Last(x) : LegalExp(Last(x)[n])
    [] OTHER -> TRUE
LegalExps(xs) == \A n \in DOMAIN xs : LegalExp(xs[n])
LegalIn(x, outer, loop) ==
  CASE x[1] = "if" -> /\ \A n \in DOMAIN x[2] : LegalExp(x[2][n][1]) /\ LegalBlock(x[2][n][2], outer, loop, FALSE)
                      /\ \A n \in DOMAIN x[3] : LegalBlock(x[3][n], outer, loop, FALSE)
    [] x[1] = "while" -> LegalBlock(x[3], outer, TRUE, FALSE)
    [] x[1] = "do" -> LegalBlock(x[2], outer, loop, FALSE)
    [] x[1] \in {"for", "forin"} -> LegalBlock(x[4], outer, TRUE, FALSE)
    [] x[1] = "repeat" -> LegalBlock(x[2], outer, TRUE, TRUE)
    [] x[1] \in {"function", "localfunction"} -> LegalExp(<<"function", Last(x)>>)
    [] x[1] \in {"local", "assign"} -> LegalExps(x[3])
    [] x[1] = "return" -> LegalExps(x[2])
    [] x[1] = "exp" -> LegalExp(x[2])
    [] x[1] = "goto" -> LegalGoto(outer, x[2])
    [] x[1] = "break" -> loop
    [] OTHER -> TRUE
LegalBlock(b, outer, loop, until) ==
  \A n \in DOMAIN b :
    /\ LegalIn(b[n], Append(outer, [b |-> b, at |-> n, until |-> until]), loop)
    /\ b[n][1] = "label" => LabelAt(b, b[n][2]) = {n}
Legal(program) == LegalBlock(program, <<>>, FALSE, FALSE)
=============================================================================
