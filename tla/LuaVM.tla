------------------------------- MODULE LuaVM --------------------------------
(* lvm.c: luaV_execute, one step per instruction, over what LuaParser has   *)
(* made of the program.  Values have no metatables.                         *)
EXTENDS LuaParser, LuaDo

VARIABLES fs,   \* the main function, as the parser left it
          g     \* the global state of LuaDo

vmVars == <<fs, g>>

Running == g.out = <<>> /\ fs.err = ""
Code == ProtoOf(g, Stk(g, Ci(g).func))
i == Code.code[Ci(g).pc + 1]
Fetched == WithCi(g, [Ci(g) EXCEPT !.pc = @ + 1])
vmcase(op) == Running /\ i.op = op

base == Ci(g).base
ra == base + i.a
R(r) == Stk(g, base + r)
K(k) == Code.k[k + 1]
RK(x) == IF ISK(x) THEN K(x - 256) ELSE R(x)
Upval(u) == g.fns[Stk(g, Ci(g).func)[2]].upvals[u + 1]
SetR(h, v) == Fill(h, ra, <<v>>)
Jump(h, pc) == WithCi(h, [Ci(h) EXCEPT !.pc = pc])

(***************************************************************************)
(* Loads, upvalues and tables.                                             *)
(***************************************************************************)
Move == vmcase("MOVE") /\ g' = SetR(Fetched, R(i.b))
LoadK == vmcase("LOADK") /\ g' = SetR(Fetched, K(i.b))
LoadBool ==
  /\ vmcase("LOADBOOL")
  /\ g' = SetR(Jump(g, Ci(g).pc + 1 + i.c), Bool(i.b = 1))
LoadNil == vmcase("LOADNIL") /\ g' = Fill(Fetched, ra, [j \in 1 .. i.b + 1 |-> Nil])
GetUpval == vmcase("GETUPVAL") /\ g' = SetR(Fetched, UpvalGet(g, Upval(i.b)))
SetUpval == vmcase("SETUPVAL") /\ g' = UpvalSet(Fetched, Upval(i.b), R(i.a))

gettable(h, t, k) ==
  IF t[1] = "tab" THEN SetR(h, Entry(g.tabs[t[2]], k)) ELSE luaD_throw(h, Str("index"))
settable(h, t, k, v) ==
  IF t[1] = "tab" /\ k # Nil THEN [h EXCEPT !.tabs[t[2]] = WithEntry(@, k, v)] ELSE luaD_throw(h, Str("index"))
GetTabUp == vmcase("GETTABUP") /\ g' = gettable(Fetched, UpvalGet(g, Upval(i.b)), RK(i.c))
GetTable == vmcase("GETTABLE") /\ g' = gettable(Fetched, R(i.b), RK(i.c))
SetTabUp == vmcase("SETTABUP") /\ g' = settable(Fetched, UpvalGet(g, Upval(i.a)), RK(i.b), RK(i.c))
SetTable == vmcase("SETTABLE") /\ g' = settable(Fetched, R(i.a), RK(i.b), RK(i.c))
Self == vmcase("SELF") /\ g' = gettable(Fill(Fetched, ra + 1, <<R(i.b)>>), R(i.b), RK(i.c))
NewTable ==
  /\ vmcase("NEWTABLE")
  /\ g' = [SetR(Fetched, <<"tab", Len(g.tabs) + 1>>) EXCEPT !.tabs = Append(@, <<>>)]
SetList ==
  /\ vmcase("SETLIST")
  /\ LET n == IF i.b = 0 THEN (T(g).top - ra) - 1 ELSE i.b
         first == (i.c - 1) * FieldsPerFlush
     IN g' = [WithTop(Fetched, Ci(g).top) EXCEPT !.tabs[R(i.a)[2]] =
                FoldLeft(LAMBDA t, j : WithEntry(t, Num(first + j), Stk(g, ra + j)), @, [j \in 1 .. n |-> j])]

(***************************************************************************)
(* Operators and tests.                                                    *)
(***************************************************************************)
Binary == {"ADD", "SUB", "MUL", "MOD", "IDIV"}
Arithmetical ==
  /\ Running /\ i.op \in Binary \cup {"UNM"}
  /\ LET b == IF i.op = "UNM" THEN R(i.b) ELSE RK(i.b)
         c == IF i.op = "UNM" THEN b ELSE RK(i.c)
     IN g' = IF IsInt(b) /\ IsInt(c) /\ Defined(i.op, b[2], c[2])
             THEN SetR(Fetched, Num(Arith(i.op, b[2], c[2]))) ELSE luaD_throw(Fetched, Str("arithmetic"))
Not == vmcase("NOT") /\ g' = SetR(Fetched, Bool(Falsy(R(i.b))))
Length ==
  /\ vmcase("LEN")
  /\ LET v == R(i.b)
     IN g' = CASE v[1] = "tab" -> SetR(Fetched, Num(Border(g.tabs[v[2]])))
               [] v[1] = "str" -> SetR(Fetched, Num(Len(v[2])))
               [] OTHER -> luaD_throw(Fetched, Str("length"))
Concat ==
  /\ vmcase("CONCAT")
  /\ LET vs == [j \in 1 .. (i.c - i.b) + 1 |-> R(i.b + j - 1)]
     IN g' = IF \A j \in DOMAIN vs : Joinable(vs[j])
             THEN SetR(WithTop(Fetched, Ci(g).top), Str(FoldLeft(LAMBDA x, v : x \o Text(v), "", vs)))
             ELSE luaD_throw(Fetched, Str("concatenate"))

dojump(h, j) == LET c == IF j.a = 0 THEN h ELSE luaF_close(h, base + (j.a - 1)) IN Jump(c, j.b)
(* The jump that follows is taken, or it is skipped.                        *)
donextjump(h, taken) ==
  IF taken THEN dojump(h, Code.code[Ci(g).pc + 2]) ELSE Jump(h, Ci(g).pc + 2)
Jmp == vmcase("JMP") /\ g' = dojump(g, i)
Equal == vmcase("EQ") /\ g' = donextjump(g, (RK(i.b) = RK(i.c)) = (i.a = 1))
Less ==
  /\ Running /\ i.op \in {"LT", "LE"}
  /\ LET b == RK(i.b)
         c == RK(i.c)
         less == IF i.op = "LT" THEN b[2] < c[2] ELSE b[2] <= c[2]
     IN g' = IF IsInt(b) /\ IsInt(c) THEN donextjump(g, less = (i.a = 1)) ELSE luaD_throw(Fetched, Str("compare"))
Test == vmcase("TEST") /\ g' = donextjump(g, Falsy(R(i.a)) = (i.c = 0))
TestSet ==
  /\ vmcase("TESTSET")
  /\ LET taken == Falsy(R(i.b)) = (i.c = 0)
     IN g' = donextjump(IF taken THEN SetR(g, R(i.b)) ELSE g, taken)

(***************************************************************************)
(* Calls, loops and closures.                                              *)
(***************************************************************************)
WithArgs == IF i.b = 0 THEN Fetched ELSE WithTop(Fetched, ra + i.b)
Call == vmcase("CALL") /\ g' = luaD_precall(WithArgs, ra, i.c - 1)
(* The called frame takes the place of the caller's.                        *)
Replaced(h) ==
  LET nci == Ci(h)
      oci == Ci(g)
      lim == nci.base + ProtoOf(h, Stk(h, nci.func)).numparams
      closed == IF Code.p # <<>> THEN luaF_close(h, oci.base) ELSE h
      d == nci.func - oci.func
      moved == Fill(closed, oci.func, Slots(closed, nci.func, lim))
  IN WithTop([moved EXCEPT !.th[g.cur].ci =
                Append(SubSeq(@, 1, Len(@) - 2), [oci EXCEPT !.base = nci.base - d, !.top = T(h).top - d, !.pc = nci.pc])],
             T(h).top - d)
TailCall ==
  /\ vmcase("TAILCALL")
  /\ LET h == luaD_precall(WithArgs, ra, Multret)
     IN g' = IF R(i.a)[1] = "fn" THEN Replaced(h) ELSE h
Return ==
  /\ vmcase("RETURN")
  /\ LET c == IF Code.p # <<>> THEN luaF_close(g, base) ELSE g
     IN g' = luaD_poscall(c, ra, IF i.b # 0 THEN i.b - 1 ELSE T(g).top - ra)

ForPrep ==
  /\ vmcase("FORPREP")
  /\ g' = IF \A j \in 0 .. 2 : IsInt(R(i.a + j))
          THEN Jump(SetR(g, Num(R(i.a)[2] - R(i.a + 2)[2])), i.b)
          ELSE luaD_throw(Fetched, Str("for"))
ForLoop ==
  /\ vmcase("FORLOOP")
  /\ LET step == R(i.a + 2)[2]
         idx == R(i.a)[2] + step
         limit == R(i.a + 1)[2]
     IN g' = IF IF 0 < step THEN idx <= limit ELSE limit <= idx
             THEN Jump(Fill(SetR(g, Num(idx)), ra + 3, <<Num(idx)>>), i.b) ELSE Fetched
TForCall ==
  /\ vmcase("TFORCALL")
  /\ LET cb == ra + 3
     IN g' = luaD_precall(WithTop(Fill(Fetched, cb, Slots(g, ra, cb)), cb + 3), cb, i.c)
TForLoop ==
  /\ vmcase("TFORLOOP")
  /\ g' = IF R(i.a + 1) = Nil THEN Fetched ELSE Jump(SetR(g, R(i.a + 1)), i.b)

(* Where the value of an upvalue is: a cached closure is the one wanted if  *)
(* its upvalues are where the new one's would be.                           *)
Place(u) == IF g.uvs[u].open THEN <<g.uvs[u].th, g.uvs[u].at>> ELSE <<0, u>>
Wanted(d) == IF d.instack THEN <<g.cur, base + d.idx>> ELSE Place(Upval(d.idx))
getcached(path, p) ==
  path \in DOMAIN g.cache /\ \A n \in DOMAIN p.ups : Place(g.fns[g.cache[path]].upvals[n]) = Wanted(p.ups[n])
pushclosure(path, p, isblack) ==
  LET AddUpval(h, d) ==
        IF d.instack THEN LET x == luaF_findupval(h, base + d.idx) IN [x EXCEPT !.new = Append(@, x.r)]
        ELSE [h EXCEPT !.new = Append(@, Upval(d.idx))]
      h == FoldLeft(AddUpval, [Fetched EXCEPT !.new = <<>>], p.ups)
      n == Len(g.fns) + 1
  IN [SetR(h, <<"fn", n>>) EXCEPT !.fns = Append(@, [p |-> path, upvals |-> h.new]),
                                  !.cache = IF isblack THEN @ ELSE (path :> n) @@ @]
Closure ==
  /\ vmcase("CLOSURE")
  /\ LET path == Append(g.fns[Stk(g, Ci(g).func)[2]].p, i.b + 1)
         p == Code.p[i.b + 1]
     IN \/ getcached(path, p) /\ g' = SetR(Fetched, <<"fn", g.cache[path]>>)
        \/ ~getcached(path, p) /\ \E isblack \in BOOLEAN : g' = pushclosure(path, p, isblack)

VarArg ==
  /\ vmcase("VARARG")
  /\ LET n == Max({0, (base - Ci(g).func) - Code.numparams - 1})
         vs == Slots(g, base - n, base)
         b == i.b - 1
     IN g' = IF b < 0 THEN WithTop(Fill(Fetched, ra, vs), ra + n) ELSE Fill(Fetched, ra, Adjusted(vs, b))

luaV_execute ==
  \/ Move \/ LoadK \/ LoadBool \/ LoadNil \/ GetUpval \/ SetUpval \/ GetTabUp \/ GetTable \/ SetTabUp
  \/ SetTable \/ Self \/ NewTable \/ SetList \/ Arithmetical \/ Not \/ Length \/ Concat \/ Jmp \/ Equal
  \/ Less \/ Test \/ TestSet \/ Call \/ TailCall \/ Return \/ ForPrep \/ ForLoop \/ TForCall \/ TForLoop
  \/ Closure \/ VarArg

(***************************************************************************)
(* The main function is compiled and called with the globals as its        *)
(* upvalue.                                                                *)
(***************************************************************************)
Globals == [x \in {Str(c) : c \in {"ext", "error", "pcall", "create", "wrapped", "resume", "yield", "status"}} |-> <<"cfn", x[2]>>]
Loaded(f, answers) ==
  LET h == [main |-> Proto(f), cur |-> 1, from |-> <<>>, th |-> <<>>, tabs |-> <<Globals>>, cache |-> <<>>,
            fns |-> <<[p |-> <<>>, upvals |-> <<1>>]>>, log |-> <<>>, ans |-> answers, out |-> <<>>, r |-> 0, new |-> <<>>,
            uvs |-> <<[open |-> FALSE, th |-> 1, at |-> 1, v |-> <<"tab", 1>>]>>]
      t == lua_newthread(h, <<"fn", 1>>)
  IN luaD_precall([t EXCEPT !.th[1].nny = 1], 2, Multret)
=============================================================================
