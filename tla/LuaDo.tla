------------------------------- MODULE LuaDo --------------------------------
(* ldo.c and lfunc.c: calls, returns, errors and coroutines.  g is the      *)
(* global state: its threads, each with its stack and its list of frames,   *)
(* the objects, what the C function ext has been called with and what it    *)
(* still has to return.  The stacks do not move.                            *)
EXTENDS LuaValue

CONSTANT StackSize   \* slots of a stack, enough for every program of a run

Junk == <<"junk", 0>>
T(g) == g.th[g.cur]
Ci(g) == Last(T(g).ci)
Stk(g, at) == T(g).stack[at]
Slots(g, from, upto) == [j \in 1 .. upto - from |-> Stk(g, from + j - 1)]
Fill(g, at, vs) ==
  [g EXCEPT !.th[g.cur].stack = [j \in DOMAIN @ |-> IF j \in at .. at + Len(vs) - 1 THEN vs[j - at + 1] ELSE @[j]]]
WithTop(g, top) == [g EXCEPT !.th[g.cur].top = top]
Push(g, vs) == WithTop(Fill(g, T(g).top, vs), T(g).top + Len(vs))
WithCi(g, ci) == [g EXCEPT !.th[g.cur].ci[Len(T(g).ci)] = ci]
ProtoOf(g, v) == FoldLeft(LAMBDA p, i : p.p[i], g.main, g.fns[v[2]].p)
Args(g) == Slots(g, Ci(g).func + 1, T(g).top)

(***************************************************************************)
(* Upvalues.                                                               *)
(***************************************************************************)
UpvalAt(g, u, th, at) == g.uvs[u].open /\ g.uvs[u].th = th /\ g.uvs[u].at = at
(* r is the upvalue.                                                        *)
luaF_findupval(g, level) ==
  LET found == {u \in DOMAIN g.uvs : UpvalAt(g, u, g.cur, level)}
  IN IF found # {} THEN [g EXCEPT !.r = Min(found)]
     ELSE [g EXCEPT !.uvs = Append(@, [open |-> TRUE, th |-> g.cur, at |-> level, v |-> Nil]),
                    !.r = Len(g.uvs) + 1]
luaF_close(g, level) ==
  [g EXCEPT !.uvs = [u \in DOMAIN @ |->
     IF @[u].open /\ @[u].th = g.cur /\ @[u].at >= level
     THEN [@[u] EXCEPT !.open = FALSE, !.v = Stk(g, g.uvs[u].at)] ELSE @[u]]]
UpvalGet(g, u) == LET uv == g.uvs[u] IN IF uv.open THEN g.th[uv.th].stack[uv.at] ELSE uv.v
UpvalSet(g, u, v) ==
  LET uv == g.uvs[u]
  IN IF uv.open THEN [g EXCEPT !.th[uv.th].stack[uv.at] = v] ELSE [g EXCEPT !.uvs[u].v = v]

(***************************************************************************)
(* Calls.  What follows a return is one step with it: the C functions that *)
(* called do not stop.                                                     *)
(***************************************************************************)
RECURSIVE luaD_throw(_, _), luaD_precall(_, _, _), Returned(_, _), CFunction(_, _), Finished(_, _, _)

Frame(func, base, top, nresults, c) ==
  [func |-> func, base |-> base, top |-> top, nresults |-> nresults, pc |-> 0, c |-> c,
   extra |-> 0, ypcall |-> FALSE]

adjust_varargs(g, p, actual) ==
  LET fixed == T(g).top - actual
      moved == Adjusted(Slots(g, fixed, T(g).top), p.numparams)
      erased == [j \in 1 .. Min({actual, p.numparams}) |-> Nil]
  IN Push(Fill(g, fixed, erased), moved)

moveresults(g, first, res, nres, wanted) ==
  LET vs == Slots(g, first, first + nres)
      moved == IF wanted = Multret THEN vs ELSE Adjusted(vs, wanted)
  IN WithTop(Fill(g, res, moved), res + Len(moved))
luaD_poscall(g, first, nres) ==
  LET ci == Ci(g)
      back == [g EXCEPT !.th[g.cur].ci = Front(@)]
  IN Returned(moveresults(back, first, ci.func, nres, ci.nresults), ci.nresults)

luaD_precall(g, func, nresults) ==
  LET v == Stk(g, func)
      p == ProtoOf(g, v)
      n == T(g).top - func - 1
      args == IF p.vararg THEN adjust_varargs(g, p, n)
              ELSE Push(g, [j \in 1 .. Max({0, p.numparams - n}) |-> Nil])
      base == IF p.vararg THEN T(g).top ELSE func + 1
      Entering(h, ci) == [h EXCEPT !.th[h.cur].ci = Append(@, ci)]
  IN CASE v[1] = "fn" ->
            WithTop(Entering(args, Frame(func, base, base + p.maxstacksize, nresults, "")), base + p.maxstacksize)
       [] v[1] \in {"cfn", "wrap"} ->
            CFunction(Entering(g, Frame(func, 0, 0, nresults, IF v[1] = "cfn" THEN v[2] ELSE "wrap")), v)
       [] OTHER -> luaD_throw(g, Str("call"))

(* After a call: the Lua function goes on, finishpcall returns what its     *)
(* function did, and at the bottom the thread is done.                      *)
Returned(g, wanted) ==
  LET ci == Ci(g)
      n == T(g).top - (ci.func + 1)
      unprotected == IF ci.ypcall THEN g ELSE [g EXCEPT !.th[g.cur].handlers = Front(@)]
  IN CASE Len(T(g).ci) = 1 /\ g.cur = 1 -> [g EXCEPT !.out = <<"done", Slots(g, ci.func + 1, T(g).top)>>]
       [] Len(T(g).ci) = 1 /\ g.cur # 1 -> Finished(g, TRUE, n)
       [] Len(T(g).ci) > 1 /\ ci.c = "" -> IF wanted = Multret THEN g ELSE WithTop(g, ci.top)
       [] OTHER -> luaD_poscall(unprotected, ci.func + 1, n)
CReturn(g, vs) == LET h == Push(g, vs) IN luaD_poscall(h, T(g).top, Len(vs))

(***************************************************************************)
(* Errors.  In the main thread pcall leaves a long jump to come back to;   *)
(* in a coroutine, which may yield, it marks its frame and the recovery is *)
(* lua_resume's.                                                           *)
(***************************************************************************)
Recovered(g, depth, oldtop, v) ==
  LET c == luaF_close(g, oldtop)
      h == [c EXCEPT !.th[g.cur].ci = SubSeq(@, 1, depth)]
  IN CReturn(WithTop(Fill(h, oldtop, <<v>>), oldtop + 1), <<Bool(FALSE), v>>)
findpcall(g) == {d \in DOMAIN T(g).ci : T(g).ci[d].ypcall}
luaD_throw(g, v) ==
  LET lj == Last(T(g).handlers)
      depth == Max(findpcall(g))
      popped == [g EXCEPT !.th[g.cur].handlers = Front(@)]
      dead == Push([g EXCEPT !.th[g.cur].status = "error"], <<v>>)
  IN CASE T(g).handlers # <<>> -> Recovered(popped, lj.depth, lj.oldtop, v)
       [] T(g).handlers = <<>> /\ findpcall(g) # {} -> Recovered(g, depth, T(g).ci[depth].extra, v)
       [] T(g).handlers = <<>> /\ findpcall(g) = {} /\ g.cur # 1 -> Finished(dead, FALSE, 1)
       [] OTHER -> [g EXCEPT !.out = <<"error", v>>]

(***************************************************************************)
(* Coroutines.                                                             *)
(***************************************************************************)
gettop(t) == t.top - (Last(t.ci).func + 1)
Resumable(t) == t.status = "yield" \/ (t.status = "ok" /\ Len(t.ci) = 1 /\ gettop(t) > 0)
lua_newthread(g, f) ==
  [g EXCEPT !.th = Append(@, [stack |-> [j \in 1 .. StackSize |-> IF j = 2 THEN f ELSE Junk], top |-> 3,
                              ci |-> <<Frame(1, 0, 0, 0, "base")>>, status |-> "ok", nny |-> 0, handlers |-> <<>>])]
(* The resumer gets <<true, ...>> or <<false, message>>, that of a wrapped  *)
(* coroutine the values or the error.                                       *)
ToResumer(g, ok, vs) ==
  CASE Ci(g).c = "resume" -> CReturn(g, <<Bool(ok)>> \o vs)
    [] Ci(g).c = "wrap" /\ ok -> CReturn(g, vs)
    [] OTHER -> luaD_throw(g, vs[1])
auxresume(g, co, args) ==
  LET moved == Push([WithTop(g, T(g).top - Len(args)) EXCEPT !.cur = co, !.from = Append(@, g.cur)], args)
      first == T(moved).top - Len(args)
      ci == Ci(moved)
      running == WithCi([moved EXCEPT !.th[co].status = "ok"], [ci EXCEPT !.func = ci.extra])
  IN CASE ~Resumable(g.th[co]) -> ToResumer(g, FALSE, <<Str("cannot resume")>>)
       [] Resumable(g.th[co]) /\ g.th[co].status = "ok" -> luaD_precall(moved, first - 1, Multret)
       [] OTHER -> luaD_poscall(running, first, Len(args))
(* The coroutine's last n values are its resumer's.                         *)
Finished(g, ok, n) ==
  LET vs == Slots(g, T(g).top - n, T(g).top)
  IN ToResumer([WithTop(g, T(g).top - n) EXCEPT !.cur = Last(g.from), !.from = Front(@)], ok, vs)
(* The slip of a coroutine that yields without a mark.                      *)
lua_yieldUnmarked(g, n) ==
  LET ci == Ci(g)
  IN Finished(WithCi(g, [ci EXCEPT !.extra = ci.func, !.func = T(g).top - n - 1]), TRUE, n)
lua_yield(g, n) ==
  LET ci == Ci(g)
  IN IF T(g).nny > 0 THEN luaD_throw(g, Str("yield"))
     ELSE Finished([WithCi(g, [ci EXCEPT !.extra = ci.func, !.func = T(g).top - n - 1]) EXCEPT !.th[g.cur].status = "yield"],
                   TRUE, n)
luaB_costatus(g, co) ==
  LET t == g.th[co]
  IN CASE co = g.cur -> "running"
       [] co # g.cur /\ t.status = "yield" -> "suspended"
       [] co # g.cur /\ t.status = "ok" /\ Len(t.ci) > 1 -> "normal"
       [] co # g.cur /\ t.status = "ok" /\ Len(t.ci) = 1 /\ gettop(t) > 0 -> "suspended"
       [] OTHER -> "dead"

(* An argument that luaL_checkany, luaL_checktype or getco wants is missing *)
(* or is of another type: the C function itself raises the error.           *)
Refused(g) == luaD_throw(g, Str("argument"))
IsFunction(args) == args # <<>> /\ args[1][1] \in {"fn", "cfn", "wrap"}
IsThread(args) == args # <<>> /\ args[1][1] = "thread"

luaB_pcall(g, args) ==
  LET func == Ci(g).func + 2
      h == Fill(WithTop(g, T(g).top + 1), func - 1, <<Bool(TRUE)>> \o args)
      protected == IF T(g).nny > 0
                   THEN [h EXCEPT !.th[g.cur].handlers = Append(@, [depth |-> Len(T(g).ci), oldtop |-> func])]
                   ELSE WithCi(h, [Ci(h) EXCEPT !.ypcall = TRUE, !.extra = func])
  IN IF args = <<>> THEN Refused(g) ELSE luaD_precall(protected, func, Multret)

luaB_cocreate(g, args, kind) ==
  IF IsFunction(args) THEN CReturn(lua_newthread(g, args[1]), <<<<kind, Len(g.th) + 1>>>>) ELSE Refused(g)

CFunction(g, f) ==
  LET args == Args(g)
      called == [g EXCEPT !.log = Append(@, args)]
  IN CASE Ci(g).c = "ext" ->
            IF g.ans = <<>> THEN luaD_throw(called, Str("no answer"))
            ELSE CReturn([called EXCEPT !.ans = Tail(@)], g.ans[1])
       [] Ci(g).c = "error" -> luaD_throw(g, Adjusted(args, 1)[1])
       [] Ci(g).c = "pcall" -> luaB_pcall(g, args)
       [] Ci(g).c = "create" -> luaB_cocreate(g, args, "thread")
       [] Ci(g).c = "wrapped" -> luaB_cocreate(g, args, "wrap")
       [] Ci(g).c \in {"resume", "status"} /\ ~IsThread(args) -> Refused(g)
       [] Ci(g).c = "resume" /\ IsThread(args) -> auxresume(g, args[1][2], Tail(args))
       [] Ci(g).c = "wrap" -> auxresume(g, f[2], args)
       [] Ci(g).c = "yield" -> lua_yield(g, Len(args))
       [] Ci(g).c = "status" /\ IsThread(args) -> CReturn(g, <<Str(luaB_costatus(g, args[1][2]))>>)
=============================================================================
