----------------------------- MODULE LuaPrograms -----------------------------
(* The programs of a run: families of small ones, each with what the        *)
(* function ext answers when it is called.                                  *)
EXTENDS LuaValue

VARIABLE job   \* the program, the one that says what it means, the answers

(* Programs are written with these.                                         *)
nm(x) == <<"name", x>>
num(n) == <<"int", n>>
call(f, args) == <<"call", nm(f), args>>
ext(args) == call("ext", args)
do(x) == <<"exp", x>>
let(names, exps) == <<"local", names, exps>>
set(x, e) == <<"assign", <<nm(x)>>, <<e>>>>
ops(ts) == <<"ops", ts>>
bin(x, op, y) == ops(<<x, <<"binop", op>>, y>>)
fun(params, b) == <<"function", [params |-> params, vararg |-> FALSE, body |-> b]>>
varfun(params, b) == <<"function", [params |-> params, vararg |-> TRUE, body |-> b]>>
local(f, params, b) == <<"localfunction", f, [params |-> params, vararg |-> FALSE, body |-> b]>>
if(x, b) == <<"if", <<<<x, b>>>>, <<>>>>
ret(es) == <<"return", es>>
goto(l) == <<"goto", l>>
label(l) == <<"label", l>>
a == nm("a")

Answers(n, vs) == [1 .. n -> {<<v>> : v \in vs}]

(* Conditions and values, in every place that wants one.                    *)
Operand(n) == CASE n = 1 -> ext(<<>>) [] n = 2 -> a [] n = 3 -> <<"nil">> [] n = 4 -> num(1) [] n = 5 -> <<"paren", bin(ext(<<>>), "==", a)>>
Negated(x, n) == IF n THEN <<<<"unop", "not">>, x>> ELSE <<x>>
Logic(xs, nots, o1, o2) ==
  ops(Negated(Operand(xs[1]), nots[1]) \o <<<<"binop", o1>>>> \o Negated(Operand(xs[2]), nots[2])
      \o <<<<"binop", o2>>>> \o Negated(Operand(xs[3]), nots[3]))
InContext(x, n) ==
  <<let(<<"a">>, <<ext(<<>>)>>)>> \o
  CASE n = 1 -> <<<<"if", <<<<x, <<do(ext(<<num(1)>>))>>>>>>, <<<<do(ext(<<num(2)>>))>>>>>>>>
    [] n = 2 -> <<<<"while", x, <<do(ext(<<num(1)>>))>>>>, ret(<<a>>)>>
    [] n = 3 -> <<let(<<"x">>, <<x>>), ret(<<nm("x"), a>>)>>
    [] n = 4 -> <<ret(<<x>>)>>
    [] n = 5 -> <<do(ext(<<x, num(5)>>))>>
    [] n = 6 -> <<set("a", x), ret(<<a>>)>>
    [] n = 7 -> <<let(<<"t">>, <<<<"table", <<<<"item", x>>, <<"named", "k", ops(<<<<"unop", "not">>, <<"paren", x>>>>)>>>>>>>>),
                  ret(<<<<"index", nm("t"), num(1)>>, <<"dot", nm("t"), "k">>>>)>>
    [] n = 8 -> <<<<"repeat", <<do(ext(<<num(3)>>))>>, x>>, ret(<<a>>)>>
    [] n = 9 -> <<set("y", x), ret(<<nm("y")>>)>>

Program(p, ans) == job = [run |-> p, ref |-> p, ans |-> ans]
LogicPrograms ==
  \E n \in 1 .. 9, xs \in {<<1, 2, 1>>, <<2, 1, 4>>, <<5, 3, 1>>, <<1, 1, 5>>, <<4, 1, 2>>, <<3, 5, 1>>},
     o1 \in {"and", "or", "=="}, o2 \in {"and", "or", "~="}, no \in 0 .. 3,
     ans \in {vs \in Answers(3, {Nil, Num(1)}) : vs[1] # vs[3]} :
     Program(InContext(Logic(xs, [k \in 1 .. 3 |-> k = no], o1, o2), n), ans)

(* Loops, their ways out, and closures over what is local to them.          *)
Loop(n, body) ==
  CASE n = 1 -> <<"while", ext(<<>>), body>>
    [] n = 2 -> <<"for", "a", <<num(1), num(2)>>, body>>
    [] n = 3 -> <<"forin", <<"a", "b">>, <<nm("ext"), num(0)>>, body>>
    [] n = 4 -> <<"repeat", body, bin(nm("x"), "==", num(1))>>
    [] n = 5 -> <<"for", "a", <<num(3), num(1), num(-2)>>, body>>
Exit(n) ==
  CASE n = 1 -> <<"break">> [] n = 2 -> goto("continue") [] n = 3 -> goto("out") [] n = 4 -> ret(<<nm("x")>>)
LoopPrograms ==
  \E n \in 1 .. 5, e \in 1 .. 4, captures \in {"x", "a", ""}, nested \in BOOLEAN, ans \in Answers(4, {Nil, Num(1)}) :
     LET cl == fun(<<>>, <<set(captures, bin(nm(captures), "+", num(1))), ret(<<nm(captures)>>)>>)
         exit == if(ext(<<>>), <<Exit(e)>>)
         body == <<let(<<"x">>, <<ext(<<num(7)>>)>>)>>
                 \o (IF captures = "" THEN <<>> ELSE <<<<"assign", <<nm("f"), nm("h")>>, <<cl, fun(<<>>, <<ret(<<nm(captures)>>)>>)>>>>>>)
                 \o (IF nested THEN <<<<"do", <<let(<<"z">>, <<num(9)>>), exit>>>>>> ELSE <<exit>>)
                 \o <<<<"do", <<do(ext(<<nm("x")>>))>>>>, label("continue")>>
     IN /\ n = 4 => e # 2
        /\ Program(<<set("f", nm("ext")), <<"do", <<Loop(n, body)>>>>, label("out"), ret(<<call("f", <<>>), call("f", <<>>), bin(nm("h"), "and", call("h", <<>>))>>)>>, ans)

(* Labels and gotos in any order.                                           *)
Item(n) ==
  CASE n = 1 -> <<let(<<"x">>, <<ext(<<num(1)>>)>>)>>
    [] n = 2 -> <<label("L")>>
    [] n = 3 -> <<label("L"), do(ext(<<num(3)>>))>>
    [] n = 4 -> <<if(ext(<<>>), <<goto("L")>>)>>
    [] n = 5 -> <<<<"do", <<goto("L")>>>>>>
    [] n = 6 -> <<if(ext(<<>>), <<<<"break">>>>), <<";">>>>
    [] n = 7 -> <<<<"do", <<let(<<"y">>, <<ext(<<>>)>>), local("f", <<>>, <<set("y", nm("y"))>>),
                            if(nm("y"), <<goto("L")>>), label("M")>>>>>>
Around(n, body) ==
  CASE n = 1 -> body
    [] n = 2 -> <<<<"while", ext(<<num(5)>>), body>>, label("L")>>
    [] n = 3 -> <<<<"repeat", body, ext(<<nm("x")>>)>>>>
    [] n = 4 -> <<<<"do", body>>, <<";">>, label("L")>>
GotoPrograms ==
  \E xs \in [1 .. 3 -> 1 .. 7], n \in 1 .. 4, ans \in {<<<<Nil>>, <<Num(1)>>, <<Nil>>, <<Num(1)>>>>, <<<<Num(1)>>, <<Num(2)>>, <<Num(3)>>>>} :
     Program(Around(n, Item(xs[1]) \o Item(xs[2]) \o Item(xs[3])), ans)

(* Several targets that depend on one another.                              *)
Var(n) ==
  CASE n = 1 -> nm("i") [] n = 2 -> nm("t") [] n = 3 -> <<"index", nm("t"), nm("i")>> [] n = 4 -> nm("y")
    [] n = 5 -> <<"dot", <<"index", nm("t"), num(2)>>, "k">>
Val(n) == CASE n = 1 -> num(2) [] n = 2 -> ext(<<>>) [] n = 3 -> <<"index", nm("t"), nm("i")>> [] n = 4 -> <<"nil">>
Table(items) == <<"table", [n \in DOMAIN items |-> <<"item", items[n]>>]>>
AssignPrograms ==
  \E vs \in [1 .. 2 -> 1 .. 5] \cup [1 .. 3 -> {1, 2, 3}], es \in [1 .. 2 -> 1 .. 4] \cup [1 .. 1 -> 1 .. 4] \cup [1 .. 3 -> {1, 2}],
     up \in BOOLEAN, ans \in {<<<<Num(4), Num(5)>>>>} :
     LET assign == <<"assign", [n \in DOMAIN vs |-> Var(vs[n])], [n \in DOMAIN es |-> Val(es[n])]>>
         s == nm("s")
     IN Program(<<let(<<"i", "t">>, <<num(1), Table(<<num(7), <<"table", <<>>>>>>)>>), let(<<"s">>, <<nm("t")>>),
                  IF up THEN <<"exp", <<"call", <<"paren", fun(<<>>, <<assign>>)>>, <<>>>>>> ELSE assign,
                  ret(<<nm("i"), <<"index", s, num(1)>>, <<"dot", <<"index", s, num(2)>>, "k">>, nm("y"), bin(nm("t"), "==", s)>>)>>, ans)

(* Calls: how many values go in and come out.                               *)
Function(n) ==
  CASE n = 1 -> fun(<<"x", "y">>, <<ret(<<nm("x"), nm("y")>>)>>)
    [] n = 2 -> varfun(<<>>, <<ret(<<<<"...">>>>)>>)
    [] n = 3 -> varfun(<<"x">>, <<let(<<"y", "z">>, <<<<"...">>>>), ret(<<nm("z"), nm("x"), <<"...">>>>)>>)
    [] n = 4 -> varfun(<<>>, <<ret(<<ext(<<<<"...">>>>)>>)>>)
    [] n = 5 -> fun(<<"x">>, <<if(bin(nm("x"), "==", num(2)), <<ret(<<nm("x")>>)>>), ret(<<call("f", <<num(2), num(3)>>)>>)>>)
    [] n = 6 -> fun(<<"x">>, <<ret(<<<<"paren", ext(<<nm("x")>>)>>>>)>>)
    [] n = 7 -> fun(<<"x">>, <<let(<<"y">>, <<fun(<<>>, <<ret(<<nm("x")>>)>>)>>), ret(<<call("y", <<>>)>>)>>)
Use(n) ==
  LET f(x) == call("f", x)
      t == nm("t")
  IN CASE n = 1 -> <<ret(<<f(<<ext(<<>>), num(2)>>)>>)>>
       [] n = 2 -> <<ret(<<num(1), f(<<num(1), ext(<<>>)>>)>>)>>
       [] n = 3 -> <<ret(<<<<"paren", f(<<num(1), num(2), num(3)>>)>>>>)>>
       [] n = 4 -> <<let(<<"p", "q", "r">>, <<f(<<num(1)>>), f(<<num(2), num(3)>>)>>), ret(<<nm("p"), nm("q"), nm("r")>>)>>
       [] n = 5 -> <<let(<<"t">>, <<Table(<<f(<<num(1), num(2)>>), num(3), f(<<ext(<<>>)>>)>>)>>),
                     ret(<<<<"index", t, num(1)>>, <<"index", t, num(2)>>, <<"index", t, num(3)>>, <<"index", t, num(4)>>>>)>>
       [] n = 6 -> <<do(f(<<f(<<num(4)>>), f(<<>>)>>)), ret(<<f(<<f(<<>>)>>)>>)>>
       [] n = 7 -> <<let(<<"t">>, <<<<"table", <<<<"named", "f", nm("f")>>>>>>>>),
                     <<"function", "t", <<"g">>, TRUE, [params |-> <<"x">>, vararg |-> TRUE, body |-> <<ret(<<<<"dot", nm("self"), "v">>, <<"...">>>>)>>]>>,
                     <<"assign", <<<<"dot", t, "v">>>>, <<num(8)>>>>,
                     ret(<<<<"method", t, "g", <<call("f", <<num(1), num(2)>>)>>>>>>)>>
       [] n = 8 -> <<<<"forin", <<"p">>, <<nm("f"), num(2), num(1)>>, <<do(ext(<<nm("p")>>)), <<"break">>>>>>>>
CallPrograms ==
  \E n \in 1 .. 7, u \in 1 .. 8, ans \in {<<vs, ws>> : vs, ws \in {<<>>, <<Num(1)>>, <<Num(1), Nil, Num(3)>>}} :
     Program(<<<<"localfunction", "f", Function(n)[2]>>>> \o Use(u), ans)

(* Constructors longer than a flush.                                        *)
Field(n) == CASE n = 1 -> <<"item", num(5)>> [] n = 2 -> <<"item", ext(<<>>)>> [] n = 3 -> <<"item", <<"...">>>>
              [] n = 4 -> <<"named", "k", num(6)>> [] n = 5 -> <<"keyed", num(4), ext(<<>>)>>
TablePrograms ==
  \E len \in 0 .. 5 : \E fields \in [1 .. len -> IF len < 4 THEN 1 .. 5 ELSE 1 .. 3] :
     Program(<<<<"localfunction", "f", [params |-> <<>>, vararg |-> TRUE, body |-> <<ret(<<<<"table", [n \in 1 .. len |-> Field(fields[n])]>>>>)>>]>>,
               let(<<"t">>, <<call("f", <<num(7), num(8)>>)>>),
               ret([n \in 1 .. 6 |-> <<"index", nm("t"), IF n < 6 THEN num(n) ELSE <<"str", "k">>>>])>>,
             [n \in 1 .. 5 |-> <<Num(10 + n), Num(9)>>])

(* Operators: their grouping, and what is computed by the compiler.         *)
OperatorPrograms ==
  \E os \in [1 .. 3 -> {"+", "-", "*", "//", "%", "..", "<", "=="}], x \in {a, num(7)}, u \in {"", "-", "not", "#"}, v \in {Num(5), Nil} :
     /\ "<" \in {os[n] : n \in 1 .. 3} => ".." \notin {os[n] : n \in 1 .. 3}
     /\ Program(<<let(<<"a">>, <<ext(<<>>)>>),
                   ret(<<ops((IF u = "" THEN <<>> ELSE <<<<"unop", u>>>>) \o
                             <<x, <<"binop", os[1]>>, num(3), <<"binop", os[2]>>, <<"unop", "-">>, num(2), <<"binop", os[3]>>, a>>)>>)>>, <<<<v>>>>)

(* A coroutine is its body with the place of yield taken by what its        *)
(* resumer does.                                                            *)
Y(args) == call("y", args)
Body(n) ==
  CASE n = 1 -> <<let(<<"r", "s">>, <<Y(<<a>>)>>), ret(<<Y(<<nm("s"), nm("r")>>), num(2)>>)>>
    [] n = 2 -> <<<<"for", "i", <<num(1), num(2)>>, <<set("h", fun(<<>>, <<set("i", bin(nm("i"), "+", num(1))), ret(<<nm("i")>>)>>)), do(Y(<<nm("i")>>))>>>>>>
    [] n = 3 -> <<local("f", <<>>, <<do(call("error", <<Y(<<num(1)>>)>>))>>), do(ext(<<call("pcall", <<nm("f")>>)>>)), ret(<<Y(<<>>)>>)>>
    [] n = 4 -> <<if(Y(<<a>>), <<do(call("error", <<num(4)>>))>>), ret(<<>>)>>
    [] n = 5 -> <<local("gen", <<"x">>, <<let(<<"z">>, <<Y(<<nm("x")>>)>>), ret(<<Y(<<nm("z")>>)>>)>>),
                  do(call("gen", <<num(1)>>)), ret(<<call("gen", <<num(2)>>)>>)>>
    [] n = 6 -> <<<<"forin", <<"p">>, <<nm("y"), num(1)>>, <<do(ext(<<nm("p")>>))>>>>, ret(<<nm("nope")>>)>>
    [] n = 7 -> <<ret(<<call("pcall", <<nm("y"), num(3)>>)>>)>>
    [] n = 8 -> <<do(ext(<<call("pcall", <<nm("error"), a>>), call("pcall", <<nm("pcall")>>)>>)), ret(<<call("pcall", <<nm("pcall"), nm("y")>>)>>)>>
    [] n = 9 -> <<local("f", <<>>, <<let(<<"v">>, <<num(1)>>), set("h", fun(<<>>, <<ret(<<nm("v")>>)>>)),
                                     do(Y(<<num(0)>>)), set("v", num(6)), do(call("error", <<nm("v")>>))>>),
                  do(ext(<<call("pcall", <<nm("f")>>)>>)), do(Y(<<>>))>>
    [] n = 10 -> <<do(ext(<<call("again", <<>>)>>)), do(Y(<<num(1)>>)), ret(<<call("again", <<>>)>>)>>
    [] n = 11 -> <<let(<<"r">>, <<Y(<<a>>)>>), if(nm("r"), <<do(call("pcall", <<>>))>>), ret(<<Y(<<call("pcall", <<nm("pcall"), nm("pcall")>>)>>)>>)>>
Between == if(nm("h"), <<do(ext(<<call("h", <<>>)>>))>>)
Resumed ==
  <<do(ext(<<call("pcall", <<nm("create"), num(1)>>), call("pcall", <<nm("status")>>), call("pcall", <<nm("resume"), nm("body")>>)>>)),
    set("co", call("create", <<nm("body")>>)),
    <<"function", "again", <<>>, FALSE, fun(<<>>, <<ret(<<call("resume", <<nm("co")>>)>>)>>)[2]>>,
    do(ext(<<call("resume", <<nm("co"), nm("yield"), num(1)>>)>>)),
    <<"while", bin(call("status", <<nm("co")>>), "==", <<"str", "suspended">>),
      <<Between, do(ext(<<call("resume", <<nm("co"), ext(<<>>)>>)>>))>>>>,
    do(ext(<<call("resume", <<nm("co")>>)>>))>>
Direct ==
  <<<<"localfunction", "y", [params |-> <<>>, vararg |-> TRUE, body |->
       <<do(ext(<<<<"true">>, <<"...">>>>)), Between, ret(<<ext(<<>>)>>)>>]>>,
    <<"function", "again", <<>>, FALSE, fun(<<>>, <<ret(<<<<"false">>, <<"str", "cannot resume">>>>)>>)[2]>>,
    do(ext(<<<<"false">>, <<"false">>, <<"false">>, <<"str", "argument">>>>)),
    do(ext(<<call("pcall", <<nm("body"), nm("y"), num(1)>>)>>)),
    do(ext(<<<<"false">>, <<"str", "cannot resume">>>>))>>
WithBody(n, rest) == <<local("body", <<"y", "a">>, Body(n))>> \o rest
CoroutinePrograms ==
  \E n \in 1 .. 11, inside \in BOOLEAN, ans \in [1 .. 4 -> {<<>>, <<Num(1), Num(2)>>}] :
     job = [run |-> WithBody(n, IF inside THEN <<local("main", <<>>, Resumed), do(<<"call", call("wrapped", <<nm("main")>>), <<>>>>)>> ELSE Resumed),
            ref |-> WithBody(n, Direct), ans |-> ans \o [k \in 1 .. 12 |-> <<>>]]

(* A label among the statements that follow a goto at the start of a        *)
(* conditional's block.                                                     *)
SkippedPrograms ==
  \E first \in {<<";">>, label("again")}, ans \in Answers(4, {Nil, Num(1)}) :
     Program(<<if(ext(<<>>), <<goto("in"), first>> \o (IF first[1] = ";" THEN <<do(ext(<<>>)), label("again")>> ELSE <<>>)
                             \o <<do(ext(<<num(1)>>)), label("in"), if(ext(<<>>), <<goto("again")>>)>>)>>, ans)
=============================================================================
