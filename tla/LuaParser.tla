----------------------------- MODULE LuaParser ------------------------------
(* lparser.c: a program, a tree of statements and expressions, is compiled  *)
(* as the parser meets it.  Operators and operands of an expression without *)
(* parentheses come flat, as the tokens do: their grouping is the parser's. *)
EXTENDS LuaCode

RECURSIVE singlevaraux(_, _, _), movegotosout(_, _, _), expr(_, _), subexpr(_, _, _, _), Operators(_, _, _, _),
          explist(_, _), suffixedexp(_, _), Fields(_, _, _, _), body(_, _, _), statlist(_, _, _, _),
          statement(_, _, _, _), skipnoopstat(_, _, _, _), Targets(_, _, _), test_then_block(_, _, _)

Chain(f(_, _), s, list) == FoldLeft(f, s, list)
semerror(s, why) == IF s.err = "" THEN [s EXCEPT !.err = why] ELSE s

(***************************************************************************)
(* Variables.                                                              *)
(***************************************************************************)
codestring(s, x) == LET k == addk(s, Str(x)) IN Holding(k, Exp("VK", k.r))
new_localvar(s, name) == [s EXCEPT !.vars = Append(@, name)]
adjustlocalvars(s, n) == [s EXCEPT !.nactvar = @ + n]
removevars(s, tolevel) ==
  [s EXCEPT !.vars = SubSeq(@, 1, Len(@) - (s.nactvar - tolevel)), !.nactvar = tolevel]
newupvalue(s, name, v) ==
  [s EXCEPT !.ups = Append(@, [name |-> name, instack |-> v.k = "VLOCAL", idx |-> v.info]), !.r = Len(s.ups)]
markupval(s, level) ==
  LET b == Max({i \in DOMAIN s.bl : s.bl[i].nactvar <= level}) IN [s EXCEPT !.bl[b].upval = TRUE]

singlevaraux(s, n, base) ==
  LET local == {i \in 1 .. s.nactvar : s.vars[i] = n}
      up == {i \in DOMAIN s.ups : s.ups[i].name = n}
      outer == singlevaraux(s.prev[1], n, FALSE)
      s1 == [s EXCEPT !.prev = <<outer>>]
      new == newupvalue(s1, n, outer.e)
  IN CASE local # {} ->
            LET v == Max(local) - 1 IN Holding(IF base THEN s ELSE markupval(s, v), Exp("VLOCAL", v))
       [] local = {} /\ up # {} -> Holding(s, Exp("VUPVAL", Min(up) - 1))
       [] local = {} /\ up = {} /\ s.prev = <<>> -> Holding(s, Exp("VVOID", 0))
       [] OTHER -> IF outer.e.k = "VVOID" THEN Holding(s1, outer.e) ELSE Holding(new, Exp("VUPVAL", new.r))
singlevar(s, n) ==
  LET v == singlevaraux(s, n, TRUE)
      env == singlevaraux(v, "_ENV", TRUE)
  IN IF v.e.k # "VVOID" THEN v ELSE luaK_indexed(codestring(env, n), env.e)

adjust_assign(s, nvars, nexps) ==
  LET more == Max({0, nvars - nexps + 1})
      multi == luaK_setreturns(s, more)
      single == IF s.e.k = "VVOID" THEN s ELSE luaK_exp2nextreg(s)
      extra == nvars - nexps
      adjusted ==
        CASE hasmultret(s.e.k) -> IF more > 1 THEN luaK_reserveregs(multi, more - 1) ELSE multi
          [] OTHER -> IF extra > 0 THEN luaK_nil(luaK_reserveregs(single, extra), single.freereg, extra) ELSE single
  IN IF nexps > nvars THEN [adjusted EXCEPT !.freereg = @ - (nexps - nvars)] ELSE adjusted

(***************************************************************************)
(* Gotos, labels and blocks.  A pending goto is the list of its jumps.     *)
(***************************************************************************)
(* The slip of a goto let into any scope.                                   *)
closegotoUnchecked(s, g, label) ==
  [luaK_patchlist(s, s.gotos[g].pc, label.pc) EXCEPT !.gotos = RemoveAt(@, g)]
closegoto(s, g, label) ==
  LET gt == s.gotos[g]
      c == IF gt.nactvar < label.nactvar THEN semerror(s, "jumps into the scope of a local") ELSE s
  IN [luaK_patchlist(c, gt.pc, label.pc) EXCEPT !.gotos = RemoveAt(@, g)]
(* r says whether a label was found.                                        *)
findlabel(s, g) ==
  LET gt == s.gotos[g]
      found == {i \in Last(s.bl).firstlabel + 1 .. Len(s.labels) : s.labels[i].name = gt.name}
      lb == s.labels[Min(found)]
      c == IF gt.nactvar > lb.nactvar THEN luaK_patchclose(s, gt.pc, lb.nactvar) ELSE s
  IN IF found = {} THEN [s EXCEPT !.r = FALSE] ELSE [closegoto(c, g, lb) EXCEPT !.r = TRUE]
Entered(s, name, pc) == [name |-> name, pc |-> pc, nactvar |-> s.nactvar]
RECURSIVE findgotos(_, _, _)
findgotos(s, i, lb) ==
  CASE i > Len(s.gotos) -> s
    [] i <= Len(s.gotos) /\ s.gotos[i].name = lb.name -> findgotos(closegoto(s, i, lb), i, lb)
    [] OTHER -> findgotos(s, i + 1, lb)
(* bl is the block that has been left.                                      *)
movegotosout(s, bl, i) ==
  IF i > Len(s.gotos) THEN s ELSE
  LET gt == s.gotos[i]
      out == gt.nactvar > bl.nactvar
      c == IF out /\ bl.upval THEN luaK_patchclose(s, gt.pc, bl.nactvar) ELSE s
      f == findlabel(IF out THEN [c EXCEPT !.gotos[i].nactvar = bl.nactvar] ELSE c, i)
  IN movegotosout(f, bl, IF f.r THEN i ELSE i + 1)

enterblock(s, isloop) ==
  [lua_assert(s, s.freereg = s.nactvar) EXCEPT
     !.bl = Append(@, [isloop |-> isloop, nactvar |-> s.nactvar, upval |-> FALSE,
                       firstlabel |-> Len(s.labels), firstgoto |-> Len(s.gotos)])]
breaklabel(s) ==
  LET lb == Entered(s, "break", Pc(s))
  IN findgotos([s EXCEPT !.labels = Append(@, lb)], Last(s.bl).firstgoto + 1, lb)
leaveblock(s) ==
  LET bl == Last(s.bl)
      inner == Len(s.bl) > 1
      j == luaK_jump(s)
      closed == IF inner /\ bl.upval THEN luaK_patchtohere(luaK_patchclose(j, j.r, bl.nactvar), j.r) ELSE s
      broken == IF bl.isloop THEN breaklabel(closed) ELSE closed
      left == removevars([broken EXCEPT !.bl = Front(@)], bl.nactvar)
      freed == [left EXCEPT !.freereg = bl.nactvar, !.labels = SubSeq(@, 1, bl.firstlabel)]
  IN CASE inner -> movegotosout(freed, bl, bl.firstgoto + 1)
       [] ~inner /\ bl.firstgoto < Len(freed.gotos) -> semerror(freed, "no visible label")
       [] OTHER -> freed
block(s, b) == leaveblock(statlist(enterblock(s, FALSE), b, FALSE, 1))

(***************************************************************************)
(* Functions.  A label and a goto belong to one function: their lists are  *)
(* the function's.                                                         *)
(***************************************************************************)
open_func(prev, h) ==
  enterblock([code |-> <<>>, k |-> <<>>, p |-> <<>>, ups |-> <<>>, vararg |-> FALSE, numparams |-> 0,
              maxstacksize |-> 2, lasttarget |-> 0, jpc |-> {}, freereg |-> 0, nactvar |-> 0, vars |-> <<>>,
              bl |-> <<>>, labels |-> <<>>, gotos |-> <<>>, prev |-> prev, h |-> h,
              e |-> Exp("VVOID", 0), r |-> 0, err |-> "", asserts |-> TRUE], FALSE)
Proto(s) == [code |-> s.code, k |-> s.k, p |-> s.p, ups |-> s.ups, vararg |-> s.vararg,
             numparams |-> s.numparams, maxstacksize |-> s.maxstacksize]
close_func(s) ==
  LET c == leaveblock(luaK_ret(s, 0, 0))
  IN lua_assert(c, c.err = "" => c.bl = <<>> /\ c.gotos = <<>>)
parlist(s, fn) ==
  LET p == adjustlocalvars(Chain(new_localvar, [s EXCEPT !.vararg = fn.vararg], fn.params), Len(fn.params))
  IN luaK_reserveregs([p EXCEPT !.numparams = p.nactvar], p.nactvar)
codeclosure(s) ==
  LET c == luaK_codeABC(s, "CLOSURE", 0, Len(s.p) - 1, 0)
  IN luaK_exp2nextreg(Holding(c, Exp("VRELOCABLE", c.r)))
body(s, fn, ismethod) ==
  LET o == open_func(<<s>>, s.h)
      self == IF ismethod THEN adjustlocalvars(new_localvar(o, "self"), 1) ELSE o
      c == close_func(statlist(parlist(self, fn), fn.body, FALSE, 1))
      outer == [c.prev[1] EXCEPT !.h = c.h, !.p = Append(@, Proto(c)), !.asserts = @ /\ c.asserts]
  IN codeclosure(IF c.err = "" THEN outer ELSE semerror(outer, c.err))

(***************************************************************************)
(* Expressions.                                                            *)
(***************************************************************************)
fieldsel(s, x) == LET t == luaK_exp2anyregup(s) IN luaK_indexed(codestring(t, x), t.e)
explist(s, es) ==
  Chain(LAMBDA x, e : expr(luaK_exp2nextreg(x), e), expr(s, es[1]), Tail(es))

(* A constructor's pending item is cc.v; its table is in register cc.t.     *)
recfield(s, cc, f) ==
  LET key == IF f[1] = "named" THEN codestring(s, f[2]) ELSE luaK_exp2val(expr(s, f[2]))
      k == luaK_exp2RK(key)
      v == luaK_exp2RK(expr(k, f[3]))
  IN [luaK_codeABC(v, "SETTABLE", cc.t, k.r, v.r) EXCEPT !.freereg = s.freereg]
closelistfield(s, cc) ==
  LET x == luaK_exp2nextreg(Holding(s, cc.v))
  IN CASE cc.v.k = "VVOID" -> s
       [] cc.v.k # "VVOID" /\ cc.tostore = FieldsPerFlush -> luaK_setlist(x, cc.t, cc.na, cc.tostore)
       [] OTHER -> x
Closed(cc) ==
  [cc EXCEPT !.v = Exp("VVOID", 0),
             !.tostore = IF cc.v.k # "VVOID" /\ @ = FieldsPerFlush THEN 0 ELSE @]
lastlistfield(s, cc) ==
  LET v == Holding(s, cc.v)
  IN CASE cc.tostore = 0 -> s
       [] cc.tostore # 0 /\ hasmultret(cc.v.k) -> luaK_setlist(luaK_setreturns(v, Multret), cc.t, cc.na, Multret)
       [] OTHER -> luaK_setlist(IF cc.v.k = "VVOID" THEN s ELSE luaK_exp2nextreg(v), cc.t, cc.na, cc.tostore)
Fields(s, cc, fs, i) ==
  IF i > Len(fs) THEN lastlistfield(s, cc) ELSE
  LET a == lua_assert(s, cc.v.k = "VVOID" \/ cc.tostore > 0)
      c == closelistfield(a, cc)
      d == Closed(cc)
      item == expr(c, fs[i][2])
  IN IF fs[i][1] = "item"
     THEN Fields(item, [d EXCEPT !.v = item.e, !.na = @ + 1, !.tostore = @ + 1], fs, i + 1)
     ELSE Fields(recfield(c, d, fs[i]), d, fs, i + 1)
constructor(s, fs) ==
  LET n == luaK_codeABC(s, "NEWTABLE", 0, 0, 0)
      t == luaK_exp2nextreg(Holding(n, Exp("VRELOCABLE", n.r)))
      cc == [v |-> Exp("VVOID", 0), t |-> t.e.info, na |-> 0, tostore |-> 0]
  IN Holding(Fields(t, cc, fs, 1), t.e)

funcargs(s, f, args) ==
  LET a == IF args = <<>> THEN Holding(s, Exp("VVOID", 0)) ELSE explist(s, args)
      open == luaK_setreturns(a, Multret)
      closed == IF a.e.k = "VVOID" THEN a ELSE luaK_exp2nextreg(a)
      base == f.info
      nparams == IF hasmultret(a.e.k) THEN Multret ELSE closed.freereg - (base + 1)
      c == luaK_codeABC(lua_assert(IF hasmultret(a.e.k) THEN open ELSE closed, f.k = "VNONRELOC"),
                        "CALL", base, nparams + 1, 2)
  IN Holding([c EXCEPT !.freereg = base + 1], Exp("VCALL", c.r))
suffixedexp(s, x) ==
  IF s.err # "" THEN s ELSE
  CASE x[1] = "name" -> singlevar(s, x[2])
    [] x[1] = "paren" -> luaK_dischargevars(expr(s, x[2]))
    [] x[1] = "dot" -> fieldsel(suffixedexp(s, x[2]), x[3])
    [] x[1] = "index" ->
         LET t == luaK_exp2anyregup(suffixedexp(s, x[2])) IN luaK_indexed(luaK_exp2val(expr(t, x[3])), t.e)
    [] x[1] = "call" ->
         LET f == luaK_exp2nextreg(suffixedexp(s, x[2])) IN funcargs(f, f.e, x[3])
    [] x[1] = "method" ->
         LET o == suffixedexp(s, x[2])
             k == codestring(o, x[3])
             f == luaK_self(Holding(k, o.e), k.e)
         IN funcargs(f, f.e, x[4])
simpleexp(s, x) ==
  CASE x[1] = "int" -> Holding(s, Exp("VKINT", x[2]))
    [] x[1] = "str" -> codestring(s, x[2])
    [] x[1] = "nil" -> Holding(s, Exp("VNIL", 0))
    [] x[1] = "true" -> Holding(s, Exp("VTRUE", 0))
    [] x[1] = "false" -> Holding(s, Exp("VFALSE", 0))
    [] x[1] = "..." -> LET v == luaK_codeABC(s, "VARARG", 0, 1, 0) IN Holding(v, Exp("VVARARG", v.r))
    [] x[1] = "table" -> constructor(s, x[2])
    [] x[1] = "function" -> body(s, x[2], FALSE)
    [] OTHER -> suffixedexp(s, x)

priority(op) ==
  CASE op \in {"+", "-"} -> [left |-> 10, right |-> 10]
    [] op \in {"*", "%", "//"} -> [left |-> 11, right |-> 11]
    [] op = ".." -> [left |-> 9, right |-> 8]
    [] op \in {"==", "<", "<=", "~=", ">", ">="} -> [left |-> 3, right |-> 3]
    [] op = "and" -> [left |-> 2, right |-> 2]
    [] op = "or" -> [left |-> 1, right |-> 1]
UNARY_PRIORITY == 12
(* r is the place of the first token that was not read.                     *)
subexpr(s, ts, i, limit) ==
  IF s.err # "" THEN s ELSE
  IF ts[i][1] = "unop"
  THEN LET v == subexpr(s, ts, i + 1, UNARY_PRIORITY) IN Operators(luaK_prefix(v, ts[i][2]), ts, v.r, limit)
  ELSE Operators(simpleexp(s, ts[i]), ts, i + 1, limit)
Operators(s, ts, i, limit) ==
  IF s.err # "" \/ i > Len(ts) \/ priority(ts[i][2]).left <= limit THEN [s EXCEPT !.r = i] ELSE
  LET op == ts[i][2]
      v == luaK_infix(s, op)
      v2 == subexpr(v, ts, i + 1, priority(op).right)
  IN Operators(luaK_posfix(v2, op, v.e), ts, v2.r, limit)
expr(s, x) == IF x[1] = "ops" THEN subexpr(s, x[2], 1, 0) ELSE subexpr(s, <<x>>, 1, 0)

(***************************************************************************)
(* Statements.  A block is closed by 'until' or by another word, which     *)
(* tells a label at its end from others.                                   *)
(***************************************************************************)
(* r is what the earlier targets have become.                               *)
check_conflict(s, lhs, v) ==
  LET extra == s.freereg
      Tab(l) == l.k = "VINDEXED" /\ l.vt = v.k /\ l.tab = v.info
      Idx(l) == l.k = "VINDEXED" /\ v.k = "VLOCAL" /\ l.info = v.info
      Safe(l) == [l EXCEPT !.tab = IF Tab(l) THEN extra ELSE @, !.vt = IF Tab(l) THEN "VLOCAL" ELSE @,
                           !.info = IF Idx(l) THEN extra ELSE @]
      copy == luaK_codeABC(s, IF v.k = "VLOCAL" THEN "MOVE" ELSE "GETUPVAL", extra, v.info, 0)
  IN IF \E i \in DOMAIN lhs : Tab(lhs[i]) \/ Idx(lhs[i])
     THEN [luaK_reserveregs(copy, 1) EXCEPT !.r = [i \in DOMAIN lhs |-> Safe(lhs[i])]]
     ELSE [s EXCEPT !.r = lhs]
Targets(s, lhs, vars) ==
  IF vars = <<>> THEN [s EXCEPT !.r = lhs] ELSE
  LET v == suffixedexp(s, vars[1])
      c == IF v.e.k = "VINDEXED" THEN [v EXCEPT !.r = lhs] ELSE check_conflict(v, lhs, v.e)
  IN Targets(c, Append(c.r, v.e), Tail(vars))
assignment(s, vars, exps) ==
  LET t == Targets(s, <<>>, vars)
      nvars == Len(vars)
      e == explist(t, exps)
      Default(x, var) == luaK_storevar(Holding(x, Exp("VNONRELOC", x.freereg - 1)), var)
      RightToLeft(x, lhs) == FoldRight(LAMBDA var, y : Default(y, var), lhs, x)
  IN IF nvars = Len(exps) THEN RightToLeft(luaK_storevar(luaK_setoneret(e), t.r[nvars]), Front(t.r))
     ELSE RightToLeft(adjust_assign(e, nvars, Len(exps)), t.r)

(* r is the list of the jumps taken when the condition is false.            *)
cond(s, x) ==
  LET v == expr(s, x)
      g == luaK_goiftrue(IF v.e.k = "VNIL" THEN [v EXCEPT !.e.k = "VFALSE"] ELSE v)
  IN [g EXCEPT !.r = g.e.f]
gotostat(s, label, pc) ==
  LET g == [s EXCEPT !.gotos = Append(@, Entered(s, label, pc))] IN findlabel(g, Len(g.gotos))
Goto(x) == x[1] \in {"goto", "break"}
Target(x) == IF x[1] = "goto" THEN x[2] ELSE "break"
block_follow(b, i, until) == i > Len(b) /\ ~until
skipnoopstat(s, b, until, i) ==
  IF i <= Len(b) /\ b[i][1] \in {";", "label"}
  THEN LET n == statement(s, b, until, i) IN skipnoopstat(n, b, until, n.r) ELSE [s EXCEPT !.r = i]
labelstat(s, label, b, until, i) ==
  LET again == \E l \in Last(s.bl).firstlabel + 1 .. Len(s.labels) : s.labels[l].name = label
      g == luaK_getlabel(IF again THEN semerror(s, "label already defined") ELSE s)
      l == Len(s.labels) + 1
      n == skipnoopstat([g EXCEPT !.labels = Append(@, Entered(s, label, g.r))], b, until, i + 1)
      out == IF block_follow(b, n.r, until) THEN [n EXCEPT !.labels[l].nactvar = Last(n.bl).nactvar] ELSE n
  IN [findgotos(out, Last(n.bl).firstgoto + 1, out.labels[l]) EXCEPT !.r = n.r]

luaK_jumpto(s, target) == LET j == luaK_jump(s) IN luaK_patchlist(j, j.r, target)
whilestat(s, x, b) ==
  LET init == luaK_getlabel(s)
      exit == cond(init, x)
  IN luaK_patchtohere(leaveblock(luaK_jumpto(block(enterblock(exit, TRUE), b), init.r)), exit.r)
repeatstat(s, b, x) ==
  LET init == luaK_getlabel(s)
      scope == enterblock(enterblock(init, TRUE), FALSE)
      exit == cond(statlist(scope, b, TRUE, 1), x)
      bl2 == Last(exit.bl)
      c == IF bl2.upval THEN luaK_patchclose(exit, exit.r, bl2.nactvar) ELSE exit
  IN leaveblock(luaK_patchlist(leaveblock(c), exit.r, init.r))

exp1(s, x) == luaK_exp2nextreg(expr(s, x))
forbody(s, base, b, nvars, isnum) ==
  LET a == adjustlocalvars(s, 3)
      prep == IF isnum THEN LET f == luaK_codeABC(a, "FORPREP", base, NoJump, 0) IN [f EXCEPT !.r = {f.r}]
              ELSE luaK_jump(a)
      scope == luaK_reserveregs(adjustlocalvars(enterblock(prep, FALSE), nvars), nvars)
      after == luaK_patchtohere(leaveblock(block(scope, b)), prep.r)
      endfor == IF isnum THEN luaK_codeABC(after, "FORLOOP", base, NoJump, 0)
                ELSE luaK_codeABC(luaK_codeABC(after, "TFORCALL", base, 0, nvars), "TFORLOOP", base + 2, NoJump, 0)
  IN luaK_patchlist(endfor, {endfor.r}, Pc(prep))
fornum(s, x, exps, b) ==
  LET v == Chain(new_localvar, s, <<"(for index)", "(for limit)", "(for step)", x>>)
      e == Chain(exp1, v, exps)
      one == addk(e, Num(1))
      step == IF Len(exps) = 3 THEN e ELSE luaK_reserveregs(luaK_codek(one, one.freereg, one.r), 1)
  IN forbody(step, s.freereg, b, 1, TRUE)
forlist(s, names, exps, b) ==
  LET v == Chain(new_localvar, s, <<"(for generator)", "(for state)", "(for control)">> \o names)
      e == adjust_assign(explist(v, exps), 3, Len(exps))
  IN forbody(luaK_checkstack(e, 3), s.freereg, b, Len(names), FALSE)

(* r is the list of jumps over the clauses that follow.                     *)
test_then_block(s, clause, more) ==
  LET b == clause[2]
      v == expr(s, clause[1])
      jumps == b # <<>> /\ Goto(b[1])
      out == luaK_goiffalse(v)
      g == skipnoopstat(gotostat(enterblock(out, FALSE), Target(b[1]), out.e.t), b, FALSE, 2)
      in == luaK_goiftrue(v)
      j == luaK_jump(g)
      then == IF jumps THEN leaveblock(statlist(j, b, FALSE, g.r))
              ELSE leaveblock(statlist(enterblock(in, FALSE), b, FALSE, 1))
      esc == IF more THEN luaK_jump(then) ELSE [then EXCEPT !.r = {}]
  IN IF jumps /\ block_follow(b, g.r, FALSE) THEN [leaveblock(g) EXCEPT !.r = {}]
     ELSE [luaK_patchtohere(esc, IF jumps THEN j.r ELSE in.e.f) EXCEPT !.r = esc.r]
RECURSIVE ifstat(_, _, _, _)
ifstat(s, clauses, els, escapelist) ==
  IF clauses = <<>> THEN luaK_patchtohere(IF els = <<>> THEN s ELSE block(s, els[1]), escapelist)
  ELSE LET t == test_then_block(s, clauses[1], Len(clauses) > 1 \/ els # <<>>)
       IN ifstat(t, Tail(clauses), els, escapelist \cup t.r)

localstat(s, names, exps) ==
  LET v == Chain(new_localvar, s, names)
      e == IF exps = <<>> THEN Holding(v, Exp("VVOID", 0)) ELSE explist(v, exps)
  IN adjustlocalvars(adjust_assign(e, Len(names), Len(exps)), Len(names))
localfunc(s, name, fn) == body(adjustlocalvars(new_localvar(s, name), 1), fn, FALSE)
funcstat(s, name, fields, ismethod, fn) ==
  LET v == Chain(fieldsel, singlevar(s, name), fields) IN luaK_storevar(body(v, fn, ismethod), v.e)
exprstat(s, x) == LET v == suffixedexp(s, x) IN [v EXCEPT !.code[v.e.info + 1].c = 1]

retstat(s, exps) ==
  LET e == explist(s, exps)
      nret == Len(exps)
      m == luaK_setreturns(e, Multret)
      tail == e.e.k = "VCALL" /\ nret = 1
      t == IF tail THEN [lua_assert(m, Instr(m).a = m.nactvar) EXCEPT !.code[m.e.info + 1].op = "TAILCALL"] ELSE m
      one == luaK_exp2anyreg(e)
      all == luaK_exp2nextreg(e)
  IN CASE exps = <<>> -> luaK_ret(s, 0, 0)
       [] exps # <<>> /\ hasmultret(e.e.k) -> luaK_ret(t, s.nactvar, Multret)
       [] exps # <<>> /\ ~hasmultret(e.e.k) /\ nret = 1 -> luaK_ret(one, one.r, 1)
       [] OTHER -> luaK_ret(lua_assert(all, nret = all.freereg - s.nactvar), s.nactvar, nret)

Statement(s, x) ==
  CASE x[1] = ";" -> s
    [] x[1] = "if" -> ifstat(s, x[2], x[3], {})
    [] x[1] = "while" -> whilestat(s, x[2], x[3])
    [] x[1] = "do" -> block(s, x[2])
    [] x[1] = "for" -> leaveblock(fornum(enterblock(s, TRUE), x[2], x[3], x[4]))
    [] x[1] = "forin" -> leaveblock(forlist(enterblock(s, TRUE), x[2], x[3], x[4]))
    [] x[1] = "repeat" -> repeatstat(s, x[2], x[3])
    [] x[1] = "function" -> funcstat(s, x[2], x[3], x[4], x[5])
    [] x[1] = "localfunction" -> localfunc(s, x[2], x[3])
    [] x[1] = "local" -> localstat(s, x[2], x[3])
    [] x[1] = "return" -> retstat(s, x[2])
    [] Goto(x) -> LET j == luaK_jump(s) IN gotostat(j, Target(x), j.r)
    [] x[1] = "assign" -> assignment(s, x[2], x[3])
    [] x[1] = "exp" -> exprstat(s, x[2])
(* r is the place of the statement that follows.                            *)
statement(s, b, until, i) ==
  LET x == IF b[i][1] = "label" THEN labelstat(s, b[i][2], b, until, i)
           ELSE [Statement(s, b[i]) EXCEPT !.r = i + 1]
  IN [lua_assert(x, x.maxstacksize >= x.freereg /\ x.freereg >= x.nactvar) EXCEPT !.freereg = x.nactvar]
statlist(s, b, until, i) ==
  IF s.err # "" \/ i > Len(b) THEN s ELSE LET n == statement(s, b, until, i) IN statlist(n, b, until, n.r)

mainfunc(b) ==
  LET o == newupvalue([open_func(<<>>, <<>>) EXCEPT !.vararg = TRUE], "_ENV", Exp("VLOCAL", 0))
      c == close_func(statlist(o, b, FALSE, 1))
  IN lua_assert(c, Len(c.ups) = 1 /\ c.vars = <<>> /\ c.labels = <<>>)
=============================================================================
