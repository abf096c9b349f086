----------------------------- MODULE MCLuaCode -----------------------------
(* Lua programs compiled by LuaParser, run by LuaVM and compared with what  *)
(* LuaMeaning says of them.                                                 *)
EXTENDS LuaVM, LuaPrograms
Ref == INSTANCE LuaMeaning

(* The compiler, and what a program means, come from the cfg as constants   *)
(* and with LET: TLC's coverage stops there, where it would expand the call *)
(* graph of a recursive descent once for each path through it.              *)
CONSTANTS Compiled(_), Meant(_, _), Allowed(_)
CompiledBy(p) == LET main == mainfunc(p) IN main
MeantBy(p, ans) == LET done == Ref!Meaning(p, ans, Globals) IN done
AllowedBy(p) == LET legal == Ref!Legal(p) IN legal

mcVars == <<job, fs, g>>

Prepared ==
  /\ fs = Compiled(job.run)
  /\ g = IF fs.err = "" THEN Loaded(fs, job.ans) ELSE [out |-> <<"refused">>]
MCInit ==
  /\ \/ LogicPrograms \/ LoopPrograms \/ GotoPrograms \/ AssignPrograms \/ CallPrograms \/ TablePrograms
     \/ OperatorPrograms \/ CoroutinePrograms
  /\ Prepared
SkippedInit == SkippedPrograms /\ Prepared
Stopped == ~Running /\ UNCHANGED vmVars
MCNext == (luaV_execute /\ UNCHANGED <<fs, job>>) \/ (Stopped /\ UNCHANGED job)
MCSpec == MCInit /\ [][MCNext]_mcVars
SkippedSpec == SkippedInit /\ [][MCNext]_mcVars

(* The compiler takes the programs whose gotos and breaks are legal, and no *)
(* others (findlabel, closegoto, movegotosout, undefgoto).                  *)
Accepts == (fs.err = "") = Allowed(job.run)
(* A program that has stopped has called ext as the language says, with the *)
(* same arguments, and has returned or failed as it says.  A coroutine does *)
(* what its body does when yield is a call of its resumer.                  *)
Meaning == (fs.err = "" /\ ~Running) => [log |-> g.log, out |-> g.out] = Meant(job.ref, job.ans)
(* What lcode.c and lparser.c assert of themselves: the order in which      *)
(* registers are freed, where jumps go, what blocks leave behind.           *)
AssertsHold == fs.asserts

RECURSIVE Protos(_)
Protos(p) == <<p>> \o FlattenSeq([n \in DOMAIN p.p |-> Protos(p.p[n])])
TakesTop(x) == x.b = 0 /\ x.op \in {"CALL", "TAILCALL", "RETURN", "SETLIST"}
(* The registers that an instruction uses besides its operands.             *)
Highest(x) ==
  CASE x.op \in {"CALL", "TAILCALL"} -> x.a + Max({0, x.b - 1, x.c - 2})
    [] x.op = "SELF" -> x.a + 1
    [] x.op \in {"FORPREP", "FORLOOP"} -> x.a + 3
    [] x.op = "TFORCALL" -> x.a + 2 + Max({3, x.c})
    [] x.op \in {"LOADNIL", "SETLIST"} -> x.a + x.b
    [] x.op = "VARARG" -> x.a + Max({0, x.b - 2})
    [] x.op = "RETURN" -> x.a + Max({0, x.b - 2})
    [] x.op \in {"EQ", "LT", "LE", "SETTABUP", "JMP"} -> 0
    [] OTHER -> x.a
Operands(x) ==
  CASE x.op \in {"EQ", "LT", "LE", "SETTABLE"} \cup Binary -> {x.b, x.c}
    [] x.op \in {"GETTABLE", "CONCAT", "SELF"} -> {x.b, x.c}
    [] x.op \in {"MOVE", "NOT", "LEN", "UNM", "TESTSET"} -> {x.b}
    [] OTHER -> {}
FitsIn(p) ==
  /\ Last(p.code).op = "RETURN" /\ p.maxstacksize <= 255
  /\ \A n \in DOMAIN p.code :
       LET x == p.code[n]
       IN /\ Highest(x) < p.maxstacksize
          /\ \A r \in Operands(x) : IF ISK(r) THEN r - 256 < Len(p.k) ELSE r < p.maxstacksize
          /\ x.op \in {"JMP", "FORPREP", "FORLOOP", "TFORLOOP"} => x.b \in 0 .. Len(p.code) - 1
          /\ TestMode(x.op) => p.code[n + 1].op = "JMP"
          /\ (x.op = "CALL" /\ x.c = 0) \/ (x.op = "VARARG" /\ x.b = 0) => TakesTop(p.code[n + 1])
          /\ TakesTop(x) => LET y == p.code[n - 1] IN (y.op \in {"CALL", "TAILCALL"} /\ y.c = 0) \/ (y.op = "VARARG" /\ y.b = 0)
(* The code of a function keeps to the registers it asks for, its jumps to  *)
(* its code; a test is followed by its jump, and values without a number by *)
(* the instruction that takes them.  The compiler's own assertions hold.    *)
CodeFits ==
  /\ AssertsHold
  /\ fs.err = "" /\ Running /\ g.log = <<>> => \A n \in DOMAIN Protos(g.main) : FitsIn(Protos(g.main)[n])

(* A variable that a closure shares with a function has one upvalue, in the *)
(* stack of a live frame; no upvalue is left open in a slot that has been   *)
(* given up (luaF_findupval, luaF_close).                                   *)
OpenUpvals == {u \in DOMAIN g.uvs : g.uvs[u].open}
UpvalsLive ==
  fs.err = "" /\ Running =>
    /\ \A u, v \in OpenUpvals : g.uvs[u].th = g.uvs[v].th /\ g.uvs[u].at = g.uvs[v].at => u = v
    /\ \A u \in OpenUpvals : LET t == g.th[g.uvs[u].th]
                             IN t.status = "error" \/ \E n \in DOMAIN t.ci : t.ci[n].c = "" /\ g.uvs[u].at \in t.ci[n].base .. t.ci[n].top - 1
(* A thread runs once: those that wait for the running one are in the call  *)
(* that resumed the next, and no other thread is in the middle of anything  *)
(* but a yield (lua_resume, luaB_costatus).  Upvalues are live meanwhile.   *)
ThreadsWait ==
  /\ UpvalsLive
  /\ fs.err = "" /\ Running =>
       LET waiting == {g.from[n] : n \in DOMAIN g.from}
       IN /\ Cardinality(waiting) = Len(g.from) /\ g.cur \notin waiting /\ 1 \in waiting \cup {g.cur}
          /\ \A w \in waiting : Last(g.th[w].ci).c \in {"resume", "wrap"} /\ g.th[w].status = "ok"
          /\ \A w \in DOMAIN g.th \ (waiting \cup {g.cur}) :
               g.th[w].status # "ok" \/ Len(g.th[w].ci) = 1
=============================================================================
