------------------------------ MODULE LuaCode -------------------------------
(* lcode.c: the code generator.  s is the FuncState of the function being   *)
(* compiled, with the expression in hand in s.e and what a C function       *)
(* returns in s.r.  A jump list is the set of its jumps, and a jump holds   *)
(* its destination.  s.asserts says whether every lua_assert has held.      *)
EXTENDS LuaValue

CONSTANTS MaxIndexRK,     \* MAXINDEXRK, the last constant that fits an operand
          FieldsPerFlush  \* LFIELDS_PER_FLUSH

NoReg == 255
NoJump == -1
RKASK(k) == 256 + k
ISK(r) == r >= 256

I(op, a, b, c) == [op |-> op, a |-> a, b |-> b, c |-> c]
Exp(k, info) == [k |-> k, info |-> info, tab |-> 0, vt |-> "VLOCAL", t |-> {}, f |-> {}]
hasjumps(e) == e.t # e.f
hasmultret(k) == k \in {"VCALL", "VVARARG"}
Holding(s, e) == [s EXCEPT !.e = e]
lua_assert(s, holds) == [s EXCEPT !.asserts = @ /\ (s.err = "" => holds)]

Pc(s) == Len(s.code)
At(s, pc) == s.code[pc + 1]
Instr(s) == At(s, s.e.info)
Becomes(s, k, info) == [s EXCEPT !.e.k = k, !.e.info = info]

TestMode(op) == op \in {"EQ", "LT", "LE", "TEST", "TESTSET"}
getjumpcontrol(s, j) == IF j >= 1 /\ TestMode(At(s, j - 1).op) THEN j - 1 ELSE j
Produces(s, j) == At(s, getjumpcontrol(s, j)).op = "TESTSET"
patchtestreg(i, reg) == IF reg \notin {NoReg, i.b} THEN [i EXCEPT !.a = reg] ELSE I("TEST", i.b, 0, i.c)

Tests(s, list) == {getjumpcontrol(s, j) : j \in {x \in list : Produces(s, x)}}
Rewritten(s, places, F(_, _)) ==
  [s EXCEPT !.code = FoldSet(LAMBDA j, code : [code EXCEPT ![j + 1] = F(j, @)], @, places)]
removevalues(s, list) == Rewritten(s, Tests(s, list), LAMBDA j, i : patchtestreg(i, NoReg))
patchlistaux(s, list, vtarget, reg, dtarget) ==
  LET jumping == Rewritten(s, list, LAMBDA j, i : [i EXCEPT !.b = IF Produces(s, j) THEN vtarget ELSE dtarget])
  IN IF list = {} THEN s ELSE Rewritten(jumping, Tests(s, list), LAMBDA j, i : patchtestreg(i, reg))

dischargejpc(s) == [patchlistaux(s, s.jpc, Pc(s), NoReg, Pc(s)) EXCEPT !.jpc = {}]
luaK_code(s, i) == LET d == dischargejpc(s) IN [d EXCEPT !.code = Append(@, i), !.r = Pc(d)]
luaK_codeABC(s, op, a, b, c) == luaK_code(s, I(op, a, b, c))

luaK_jump(s) ==
  LET j == luaK_codeABC([s EXCEPT !.jpc = {}], "JMP", 0, NoJump, 0) IN [j EXCEPT !.r = {j.r} \cup s.jpc]
luaK_ret(s, first, nret) == luaK_codeABC(s, "RETURN", first, nret + 1, 0)
condjump(s, op, a, b, c) == luaK_jump(luaK_codeABC(s, op, a, b, c))
luaK_getlabel(s) == [s EXCEPT !.lasttarget = Pc(s), !.r = Pc(s)]
luaK_patchtohere(s, list) == [luaK_getlabel(s) EXCEPT !.jpc = @ \cup list]
luaK_patchlist(s, list, target) ==
  IF target = Pc(s) THEN luaK_patchtohere(s, list)
  ELSE patchlistaux(lua_assert(s, target < Pc(s)), list, target, NoReg, target)
luaK_patchclose(s, list, level) ==
  Rewritten(lua_assert(s, \A j \in list : At(s, j).op = "JMP" /\ (At(s, j).a = 0 \/ At(s, j).a >= level + 1)),
            list, LAMBDA j, i : [i EXCEPT !.a = level + 1])

luaK_nil(s, from, n) ==
  LET l == from + n - 1
      pfrom == At(s, Pc(s) - 1).a
      pl == pfrom + At(s, Pc(s) - 1).b
  IN IF /\ Pc(s) > s.lasttarget
        /\ At(s, Pc(s) - 1).op = "LOADNIL"
        /\ \/ pfrom <= from /\ from <= pl + 1
           \/ from <= pfrom /\ pfrom <= l + 1
     THEN LET first == Min({from, pfrom})
          IN [s EXCEPT !.code[Pc(s)] = I("LOADNIL", first, Max({l, pl}) - first, 0)]
     ELSE luaK_codeABC(s, "LOADNIL", from, n - 1, 0)

(* The slip of one register too few.                                        *)
luaK_checkstackShort(s, n) == [s EXCEPT !.maxstacksize = Max({@, (s.freereg + n) - 1})]
luaK_checkstack(s, n) == [s EXCEPT !.maxstacksize = Max({@, s.freereg + n})]
luaK_reserveregs(s, n) == [luaK_checkstack(s, n) EXCEPT !.freereg = @ + n]
freereg(s, reg) ==
  IF ISK(reg) \/ reg < s.nactvar THEN s
  ELSE [lua_assert(s, reg = s.freereg - 1) EXCEPT !.freereg = @ - 1]
freeexp(s, e) == IF e.k = "VNONRELOC" THEN freereg(s, e.info) ELSE s
freeexps(s, e1, e2) ==
  IF e1.k = "VNONRELOC" /\ (e2.k # "VNONRELOC" \/ e1.info > e2.info)
  THEN freeexp(freeexp(s, e1), e2) ELSE freeexp(freeexp(s, e2), e1)

(* The scanner's table remembers where a constant was put, in whichever     *)
(* function met it last.                                                    *)
addk(s, v) ==
  IF v \in DOMAIN s.h /\ s.h[v] < Len(s.k) /\ s.k[s.h[v] + 1] = v THEN [s EXCEPT !.r = s.h[v]]
  ELSE [s EXCEPT !.h = (v :> Len(s.k)) @@ @, !.k = Append(@, v), !.r = Len(s.k)]
luaK_codek(s, reg, k) == luaK_codeABC(s, "LOADK", reg, k, 0)

luaK_setreturns(s, nresults) ==
  CASE s.e.k = "VCALL" -> [s EXCEPT !.code[s.e.info + 1].c = nresults + 1]
    [] s.e.k = "VVARARG" ->
         luaK_reserveregs([s EXCEPT !.code[s.e.info + 1].b = nresults + 1,
                                    !.code[s.e.info + 1].a = s.freereg], 1)
    [] OTHER -> lua_assert(s, nresults = Multret)
luaK_setoneret(s) ==
  CASE s.e.k = "VCALL" -> Becomes(lua_assert(s, Instr(s).c = 2), "VNONRELOC", Instr(s).a)
    [] s.e.k = "VVARARG" -> Becomes([s EXCEPT !.code[s.e.info + 1].b = 2], "VRELOCABLE", s.e.info)
    [] OTHER -> s

luaK_dischargevars(s) ==
  LET e == s.e IN
  CASE e.k = "VLOCAL" -> Becomes(s, "VNONRELOC", e.info)
    [] e.k = "VUPVAL" ->
         LET d == luaK_codeABC(s, "GETUPVAL", 0, e.info, 0) IN Becomes(d, "VRELOCABLE", d.r)
    [] e.k = "VINDEXED" /\ e.vt = "VLOCAL" ->
         LET d == luaK_codeABC(freereg(freereg(s, e.info), e.tab), "GETTABLE", 0, e.tab, e.info)
         IN Becomes(d, "VRELOCABLE", d.r)
    [] e.k = "VINDEXED" /\ e.vt = "VUPVAL" ->
         LET d == luaK_codeABC(freereg(s, e.info), "GETTABUP", 0, e.tab, e.info)
         IN Becomes(d, "VRELOCABLE", d.r)
    [] OTHER -> luaK_setoneret(s)

discharge2reg(s, reg) ==
  LET d == luaK_dischargevars(s)
      e == d.e
      Loaded ==
        CASE e.k = "VNIL" -> luaK_nil(d, reg, 1)
          [] e.k \in {"VFALSE", "VTRUE"} -> luaK_codeABC(d, "LOADBOOL", reg, IF e.k = "VTRUE" THEN 1 ELSE 0, 0)
          [] e.k = "VK" -> luaK_codek(d, reg, e.info)
          [] e.k = "VKINT" -> LET k == addk(d, Num(e.info)) IN luaK_codek(k, reg, k.r)
          [] e.k = "VRELOCABLE" -> [d EXCEPT !.code[e.info + 1].a = reg]
          [] e.k = "VNONRELOC" -> IF reg = e.info THEN d ELSE luaK_codeABC(d, "MOVE", reg, e.info, 0)
  IN IF e.k \in {"VVOID", "VJMP"} THEN d ELSE Becomes(Loaded, "VNONRELOC", reg)
discharge2anyreg(s) ==
  IF s.e.k = "VNONRELOC" THEN s ELSE LET r == luaK_reserveregs(s, 1) IN discharge2reg(r, r.freereg - 1)

code_loadbool(s, a, b, jump) == luaK_codeABC(luaK_getlabel(s), "LOADBOOL", a, b, jump)
(* The slip of values taken to be produced by their tests.                  *)
need_valueNever(s, list) == FALSE
need_value(s, list) == \E j \in list : ~Produces(s, j)

exp2reg(s, reg) ==
  LET d == discharge2reg(s, reg)
      t == d.e.t \cup (IF d.e.k = "VJMP" THEN d.e.info ELSE {})
      f == d.e.f
      fj == IF d.e.k = "VJMP" THEN [d EXCEPT !.r = {}] ELSE luaK_jump(d)
      pf == code_loadbool(fj, reg, 0, 1)
      pt == code_loadbool(pf, reg, 1, 0)
      Values == IF need_value(d, t) \/ need_value(d, f) THEN luaK_patchtohere(pt, fj.r) ELSE d
      final == luaK_getlabel(Values)
      Jumped == patchlistaux(patchlistaux(final, f, final.r, reg, pf.r), t, final.r, reg, pt.r)
  IN Holding(IF t # f THEN Jumped ELSE d, Exp("VNONRELOC", reg))

luaK_exp2nextreg(s) ==
  LET d == luaK_dischargevars(s)
      r == luaK_reserveregs(freeexp(d, d.e), 1)
  IN exp2reg(r, r.freereg - 1)
luaK_exp2anyreg(s) ==
  LET d == luaK_dischargevars(s)
      e == d.e
      x == CASE e.k = "VNONRELOC" /\ ~hasjumps(e) -> d
             [] e.k = "VNONRELOC" /\ hasjumps(e) /\ e.info >= d.nactvar -> exp2reg(d, e.info)
             [] OTHER -> luaK_exp2nextreg(d)
  IN [x EXCEPT !.r = x.e.info]
luaK_exp2anyregup(s) == IF s.e.k # "VUPVAL" \/ hasjumps(s.e) THEN luaK_exp2anyreg(s) ELSE s
luaK_exp2val(s) == IF hasjumps(s.e) THEN luaK_exp2anyreg(s) ELSE luaK_dischargevars(s)

luaK_exp2RK(s) ==
  LET d == luaK_exp2val(s)
      InK(k) == [k EXCEPT !.e.k = "VK", !.e.info = k.r]
      e == CASE d.e.k = "VTRUE" -> InK(addk(d, Bool(TRUE)))
             [] d.e.k = "VFALSE" -> InK(addk(d, Bool(FALSE)))
             [] d.e.k = "VNIL" -> InK(addk(d, Nil))
             [] d.e.k = "VKINT" -> InK(addk(d, Num(d.e.info)))
             [] OTHER -> d
  IN IF e.e.k = "VK" /\ e.e.info <= MaxIndexRK THEN [e EXCEPT !.r = RKASK(e.e.info)] ELSE luaK_exp2anyreg(e)

luaK_storevar(s, var) ==
  CASE var.k = "VLOCAL" -> exp2reg(freeexp(s, s.e), var.info)
    [] var.k = "VUPVAL" ->
         LET x == luaK_exp2anyreg(s) IN freeexp(luaK_codeABC(x, "SETUPVAL", x.r, var.info, 0), x.e)
    [] var.k = "VINDEXED" ->
         LET x == luaK_exp2RK(s)
             op == IF var.vt = "VLOCAL" THEN "SETTABLE" ELSE "SETTABUP"
         IN freeexp(luaK_codeABC(x, op, var.tab, var.info, x.r), x.e)
luaK_self(s, key) ==
  LET x == luaK_exp2anyreg(s)
      b == freeexp(x, x.e)
      k == luaK_exp2RK(Holding(luaK_reserveregs(b, 2), key))
  IN Holding(freeexp(luaK_codeABC(k, "SELF", b.freereg, x.r, k.r), k.e), [x.e EXCEPT !.info = b.freereg])

(* A comparison in hand is the set of its one jump.                         *)
negatecondition(s) ==
  LET n == getjumpcontrol(s, CHOOSE j \in s.e.info : TRUE)
  IN [lua_assert(s, At(s, n).op \in {"EQ", "LT", "LE"}) EXCEPT !.code[n + 1].a = 1 - @]
jumponcond(s, cond) ==
  IF s.e.k = "VRELOCABLE" /\ Instr(s).op = "NOT"
  THEN condjump([s EXCEPT !.code = Front(@)], "TEST", Instr(s).b, 0, 1 - cond)
  ELSE LET d == discharge2anyreg(s) IN condjump(freeexp(d, d.e), "TESTSET", NoReg, d.e.info, cond)

luaK_goiftrue(s) ==
  LET d == luaK_dischargevars(s)
      g == CASE d.e.k = "VJMP" -> [negatecondition(d) EXCEPT !.r = d.e.info]
             [] d.e.k \in {"VK", "VKINT", "VTRUE"} -> [d EXCEPT !.r = {}]
             [] OTHER -> jumponcond(d, 0)
  IN [luaK_patchtohere(g, d.e.t) EXCEPT !.e.f = @ \cup g.r, !.e.t = {}]
luaK_goiffalse(s) ==
  LET d == luaK_dischargevars(s)
      g == CASE d.e.k = "VJMP" -> [d EXCEPT !.r = d.e.info]
             [] d.e.k \in {"VNIL", "VFALSE"} -> [d EXCEPT !.r = {}]
             [] OTHER -> jumponcond(d, 1)
  IN [luaK_patchtohere(g, d.e.f) EXCEPT !.e.t = @ \cup g.r, !.e.f = {}]

codenot(s) ==
  LET d == luaK_dischargevars(s)
      InReg == LET r == discharge2anyreg(d) IN luaK_codeABC(freeexp(r, r.e), "NOT", 0, r.e.info, 0)
      n == CASE d.e.k \in {"VNIL", "VFALSE"} -> [d EXCEPT !.e.k = "VTRUE"]
             [] d.e.k \in {"VK", "VKINT", "VTRUE"} -> [d EXCEPT !.e.k = "VFALSE"]
             [] d.e.k = "VJMP" -> negatecondition(d)
             [] d.e.k \in {"VRELOCABLE", "VNONRELOC"} -> Becomes(InReg, "VRELOCABLE", InReg.r)
  IN removevalues([n EXCEPT !.e.t = n.e.f, !.e.f = n.e.t], n.e.t \cup n.e.f)

(* The table is t, the key is in hand.                                      *)
luaK_indexed(s, t) ==
  LET k == luaK_exp2RK(lua_assert(s, ~hasjumps(t) /\ t.k \in {"VNONRELOC", "VLOCAL", "VUPVAL"}))
  IN Holding(k, [t EXCEPT !.k = "VINDEXED", !.tab = t.info, !.info = k.r,
                          !.vt = IF t.k = "VUPVAL" THEN "VUPVAL" ELSE "VLOCAL"])

Numeral(e) == e.k = "VKINT" /\ ~hasjumps(e)
Folds(op, e1, e2) == Numeral(e1) /\ Numeral(e2) /\ Defined(op, e1.info, e2.info)
Folded(s, op, e1, e2) == Holding(s, [e1 EXCEPT !.info = Arith(op, e1.info, e2.info)])
codeunexpval(s, op) ==
  LET x == luaK_exp2anyreg(s)
      d == luaK_codeABC(freeexp(x, x.e), op, 0, x.r, 0)
  IN Becomes(d, "VRELOCABLE", d.r)
codebinexpval(s, op, e1) ==
  LET x2 == luaK_exp2RK(s)
      x1 == luaK_exp2RK(Holding(x2, e1))
      d == luaK_codeABC(freeexps(x1, x1.e, x2.e), op, 0, x1.r, x2.r)
  IN Becomes(d, "VRELOCABLE", d.r)

OpOf == ("+" :> "ADD" @@ "-" :> "SUB" @@ "*" :> "MUL" @@ "%" :> "MOD" @@ "//" :> "IDIV"
         @@ "==" :> "EQ" @@ "~=" :> "EQ" @@ "<" :> "LT" @@ "<=" :> "LE" @@ ">" :> "LT" @@ ">=" :> "LE")
Arithmetic == {"+", "-", "*", "%", "//"}

codecomp(s, opr, e1) ==
  LET a == lua_assert(s, e1.k \in {"VK", "VNONRELOC"})
      rk1 == IF e1.k = "VK" THEN RKASK(e1.info) ELSE e1.info
      x2 == luaK_exp2RK(a)
      d == freeexps(x2, e1, x2.e)
      j == IF opr \in {">", ">="} THEN condjump(d, OpOf[opr], 1, x2.r, rk1)
           ELSE condjump(d, OpOf[opr], IF opr = "~=" THEN 0 ELSE 1, rk1, x2.r)
  IN Holding(j, [e1 EXCEPT !.k = "VJMP", !.info = j.r])

luaK_prefix(s, op) ==
  CASE op = "not" -> codenot(s)
    [] op = "-" -> IF Folds("UNM", s.e, Exp("VKINT", 0)) THEN Folded(s, "UNM", s.e, Exp("VKINT", 0))
                   ELSE codeunexpval(s, "UNM")
    [] op = "#" -> codeunexpval(s, "LEN")
luaK_infix(s, op) ==
  CASE op = "and" -> luaK_goiftrue(s)
    [] op = "or" -> luaK_goiffalse(s)
    [] op = ".." -> luaK_exp2nextreg(s)
    [] op \in Arithmetic -> IF Numeral(s.e) THEN s ELSE luaK_exp2RK(s)
    [] OTHER -> luaK_exp2RK(s)

(* 'a .. (b .. c)' is one CONCAT of three registers.                        *)
Concatenated(s, e1) ==
  LET x == luaK_exp2val(s)
      i == Instr(x)
  IN IF x.e.k = "VRELOCABLE" /\ i.op = "CONCAT"
     THEN Holding([freeexp(lua_assert(x, e1.info = i.b - 1), e1) EXCEPT !.code[x.e.info + 1].b = e1.info],
                  [e1 EXCEPT !.k = "VRELOCABLE", !.info = x.e.info])
     ELSE codebinexpval(luaK_exp2nextreg(x), "CONCAT", e1)
luaK_posfix(s, op, e1) ==
  CASE op = "and" -> [luaK_dischargevars(lua_assert(s, e1.t = {})) EXCEPT !.e.f = @ \cup e1.f]
    [] op = "or" -> [luaK_dischargevars(lua_assert(s, e1.f = {})) EXCEPT !.e.t = @ \cup e1.t]
    [] op = ".." -> Concatenated(s, e1)
    [] op \in Arithmetic -> IF Folds(OpOf[op], e1, s.e) THEN Folded(s, OpOf[op], e1, s.e)
                            ELSE codebinexpval(s, OpOf[op], e1)
    [] OTHER -> codecomp(s, op, e1)

luaK_setlist(s, base, nelems, tostore) ==
  LET c == ((nelems - 1) \div FieldsPerFlush) + 1
      a == lua_assert(s, tostore # 0 /\ tostore <= FieldsPerFlush)
  IN [luaK_codeABC(a, "SETLIST", base, IF tostore = Multret THEN 0 ELSE tostore, c) EXCEPT !.freereg = base + 1]
=============================================================================
