------------------------------- MODULE LuaDump -------------------------------
(* Precompiled chunks: ldump.c writes a function, lundump.c reads it from a *)
(* stream (lzio.c) that comes in pieces.  A byte is a number below Base, and *)
(* the byte 0xFF the largest of them; an int, a size_t or a Lua integer is  *)
(* a word of WordSize bytes.  A string that may be null is a sequence of    *)
(* none or one string, a string a sequence of bytes.                        *)
EXTENDS Integers, Sequences, FiniteSetsExt, SequencesExt, LibraryCall

CONSTANTS Base, WordSize   \* Base is more than the number of tags

xFF == Base - 1
Word(x) == [i \in 1 .. WordSize |-> (x \div (Base ^ (i - 1))) % Base]
WordIn(b) == FoldFunctionOnSet(+, 0, [i \in DOMAIN b |-> b[i] * (Base ^ (i - 1))], DOMAIN b)

Null == <<>>
Flag(b) == IF b THEN 1 ELSE 0

-----------------------------------------------------------------------------
(* What is written, as the blocks given to the writer.                      *)
DumpVector(b) == IF b = <<>> THEN <<>> ELSE <<b>>
DumpByte(x) == <<<<x>>>>
DumpInt(x) == <<Word(x)>>

SizeWithEnd(s) == Len(s) + 1

DumpString(s) ==
  IF s = Null THEN DumpByte(0)
  ELSE LET size == SizeWithEnd(s[1])
       IN (IF size < xFF THEN DumpByte(size) ELSE DumpByte(xFF) \o DumpInt(size)) \o DumpVector(s[1])

(* The number of elements, and each of them.                                *)
DumpList(xs, Dump(_)) == DumpInt(Len(xs)) \o FlattenSeq([i \in DOMAIN xs |-> Dump(xs[i])])
DumpCode(f) == DumpInt(Len(f.code)) \o DumpVector(FlattenSeq([i \in DOMAIN f.code |-> Word(f.code[i])]))

Tags == <<"nil", "boolean", "float", "integer", "string">>
Tag(k) == IndexFirstSubSeq(<<k[1]>>, Tags) - 1
DumpConstant(k) ==
  DumpByte(Tag(k)) \o
  CASE k[1] = "nil" -> <<>>
    [] k[1] = "boolean" -> DumpByte(k[2])
    [] k[1] \in {"float", "integer"} -> DumpInt(k[2])
    [] k[1] = "string" -> DumpString(<<k[2]>>)

DumpUpvalue(u) == DumpByte(Flag(u.instack)) \o DumpByte(u.idx)
DumpLocal(v) == DumpString(v.varname) \o DumpInt(v.startpc) \o DumpInt(v.endpc)
Kept(xs, strip) == IF strip THEN <<>> ELSE xs
DumpDebug(f, strip) ==
  DumpInt(Len(Kept(f.lineinfo, strip))) \o DumpVector(FlattenSeq([i \in DOMAIN Kept(f.lineinfo, strip) |-> Word(f.lineinfo[i])]))
  \o DumpList(Kept(f.locvars, strip), DumpLocal)
  \o DumpList(Kept([i \in DOMAIN f.upvalues |-> f.upvalues[i].name], strip), DumpString)

RECURSIVE DumpFunction(_, _, _)
DumpFunction(f, psource, strip) ==
  DumpString(IF strip \/ f.source = psource THEN Null ELSE f.source)
  \o DumpInt(f.linedefined) \o DumpInt(f.lastlinedefined)
  \o DumpByte(f.numparams) \o DumpByte(f.is_vararg) \o DumpByte(f.maxstacksize)
  \o DumpCode(f) \o DumpList(f.k, DumpConstant) \o DumpList(f.upvalues, DumpUpvalue)
  \o DumpList(f.p, LAMBDA q : DumpFunction(q, f.source, strip)) \o DumpDebug(f, strip)

(* The header's fields, each with what is said of one that is not the same. *)
Fields == <<[b |-> <<2>>, why |-> "not a"], [b |-> <<1>>, why |-> "version mismatch in"],
            [b |-> <<0>>, why |-> "format mismatch in"], [b |-> <<1, 2>>, why |-> "corrupted"],
            [b |-> <<WordSize>>, why |-> "size mismatch in"], [b |-> Word(2), why |-> "endianness mismatch in"],
            [b |-> Word(3), why |-> "float format mismatch in"]>>
DumpHeader == [i \in DOMAIN Fields |-> Fields[i].b]

(* The writer is called for each block until it fails, here at its fails-th *)
(* call.                                                                    *)
Blocks(f, strip) == DumpHeader \o DumpByte(Len(f.upvalues)) \o DumpFunction(f, Null, strip)
luaU_dump(f, strip, fails) ==
  LET blocks == Blocks(f, strip)
  IN [b |-> FlattenSeq(SubSeq(blocks, 1, Min({fails - 1, Len(blocks)}))), status |-> Flag(fails <= Len(blocks))]

-----------------------------------------------------------------------------
(* The stream: what is left of the piece at hand, and the pieces after it.  *)
(* An empty piece is the end.                                               *)
Stream(pieces) == [p |-> <<>>, rest |-> pieces]

RECURSIVE luaZ_read(_, _, _)
luaZ_read(z, n, b) ==
  LET m == Min({n, Len(z.p)})
  IN IF n = 0 THEN [z |-> z, v |-> b, err |-> ""]
     ELSE IF z.p # <<>> THEN luaZ_read([z EXCEPT !.p = SubSeq(@, m + 1, Len(@))], n - m, b \o SubSeq(z.p, 1, m))
     ELSE IF z.rest = <<>> \/ z.rest[1] = <<>> THEN [z |-> z, v |-> b, err |-> "truncated"]
     ELSE luaZ_read([p |-> z.rest[1], rest |-> Tail(z.rest)], n, b)

(* What is loaded, and then what is loaded after it.                        *)
Gives(z, v) == [z |-> z, v |-> v, err |-> ""]
Then(r, Next(_, _)) == IF r.err # "" THEN r ELSE Next(r.z, r.v)

LoadBlock(z, n) == luaZ_read(z, n, <<>>)
LoadByte(z) == Then(LoadBlock(z, 1), LAMBDA y, b : Gives(y, b[1]))
LoadInt(z) == Then(LoadBlock(z, WordSize), LAMBDA y, b : Gives(y, WordIn(b)))

LoadString(z) ==
  LET text(y, size) == IF size = 0 THEN Gives(y, Null) ELSE Then(LoadBlock(y, size - 1), LAMBDA x, b : Gives(x, <<b>>))
  IN Then(LoadByte(z), LAMBDA y, size : IF size = xFF THEN Then(LoadInt(y), text) ELSE text(y, size))

LoadList(z, Load(_)) ==
  LET more(r, i) == Then(r, LAMBDA y, xs : Then(Load(y), LAMBDA x, v : Gives(x, Append(xs, v))))
  IN Then(LoadInt(z), LAMBDA y, n : FoldLeft(more, Gives(y, <<>>), [i \in 1 .. n |-> i]))

LoadConstant(z) ==
  Then(LoadByte(z), LAMBDA y, t :
    CASE t = 0 -> Gives(y, <<"nil", 0>>)
      [] t = 1 -> Then(LoadByte(y), LAMBDA x, v : Gives(x, <<"boolean", v>>))
      [] t \in {2, 3} -> Then(LoadInt(y), LAMBDA x, v : Gives(x, <<Tags[t + 1], v>>))
      [] t = 4 -> Then(LoadString(y), LAMBDA x, s : Gives(x, <<"string", s[1]>>)))

LoadUpvalue(z) ==
  Then(LoadByte(z), LAMBDA y, i : Then(LoadByte(y), LAMBDA x, n : Gives(x, [instack |-> i = 1, idx |-> n, name |-> Null])))
LoadLocal(z) ==
  Then(LoadString(z), LAMBDA y, s : Then(LoadInt(y), LAMBDA x, a : Then(LoadInt(x), LAMBDA w, e :
    Gives(w, [varname |-> s, startpc |-> a, endpc |-> e]))))

LoadDebug(z, f) ==
  Then(LoadList(z, LoadInt), LAMBDA y, lines : Then(LoadList(y, LoadLocal), LAMBDA x, vars :
    Then(LoadList(x, LoadString), LAMBDA w, names :
      Gives(w, [f EXCEPT !.lineinfo = lines, !.locvars = vars,
                         !.upvalues = [i \in DOMAIN @ |-> IF i \in DOMAIN names THEN [@[i] EXCEPT !.name = names[i]] ELSE @[i]]]))))

(* The fields before the code, in order.                                    *)
LoadPrefix(z, psource) ==
  Then(LoadString(z), LAMBDA y, s : Then(LoadInt(y), LAMBDA x, a : Then(LoadInt(x), LAMBDA w, b :
    Then(LoadByte(w), LAMBDA v, c : Then(LoadByte(v), LAMBDA u, d : Then(LoadByte(u), LAMBDA t, e :
      Gives(t, [source |-> IF s = Null THEN psource ELSE s, linedefined |-> a, lastlinedefined |-> b,
                numparams |-> c, is_vararg |-> d, maxstacksize |-> e, code |-> <<>>, k |-> <<>>, upvalues |-> <<>>,
                p |-> <<>>, lineinfo |-> <<>>, locvars |-> <<>>])))))))

RECURSIVE LoadFunction(_, _)
LoadFunction(z, psource) ==
  Then(LoadPrefix(z, psource), LAMBDA y, f : Then(LoadList(y, LoadInt), LAMBDA x, code :
    Then(LoadList(x, LoadConstant), LAMBDA w, k : Then(LoadList(w, LoadUpvalue), LAMBDA v, ups :
      Then(LoadList(v, LAMBDA u : LoadFunction(u, f.source)), LAMBDA t, p :
        LoadDebug(t, [f EXCEPT !.code = code, !.k = k, !.upvalues = ups, !.p = p]))))))

checkHeader(z) ==
  FoldLeft(LAMBDA r, i : Then(r, LAMBDA y, v : Then(LoadBlock(y, Len(Fields[i].b)), LAMBDA x, b :
             IF b = Fields[i].b THEN Gives(x, 0) ELSE [z |-> x, v |-> 0, err |-> Fields[i].why])),
           Gives(z, 0), [i \in DOMAIN Fields |-> i])

luaU_undump(pieces) ==
  Then(checkHeader(Stream(pieces)), LAMBDA y, v : Then(LoadByte(y), LAMBDA x, nups :
    Then(LoadFunction(x, Null), LAMBDA w, f : Gives(w, [f |-> f, nups |-> nups]))))

Pieces(b, size) ==
  [i \in 1 .. (Len(b) + size - 1) \div size |-> SubSeq(b, (i - 1) * size + 1, Min({i * size, Len(b)}))]

CallDump ==
  LET d == luaU_dump(arg.f, arg.strip, arg.fails)
  IN Return("dump", [d |-> d, back |-> luaU_undump(Pieces(IF arg.bad = 0 THEN d.b ELSE [d.b EXCEPT ![arg.bad] = (@ + 1) % Base], arg.size))])

-----------------------------------------------------------------------------
(* What is left of a function without its debug information; all its        *)
(* functions have its source.                                               *)
RECURSIVE Stripped(_)
Stripped(f) ==
  [f EXCEPT !.source = Null, !.lineinfo = <<>>, !.locvars = <<>>, !.p = [i \in DOMAIN @ |-> Stripped(@[i])],
            !.upvalues = [i \in DOMAIN @ |-> [@[i] EXCEPT !.name = Null]]]

HeaderSize == Len(FlattenSeq(DumpHeader))

(* A function that is dumped and loaded is the same function, or the same   *)
(* without its debug information, whatever pieces the stream comes in, and  *)
(* nothing of the stream is left.  A dump that is cut short anywhere is     *)
(* refused, and so is one whose header has one byte changed.                *)
DumpRight ==
  Returned("dump") =>
    LET back == Result.back
        f == IF arg.strip THEN Stripped(arg.f) ELSE arg.f
    IN IF arg.bad # 0 THEN back.err \in {Fields[i].why : i \in DOMAIN Fields}
       ELSE IF Result.d.status # 0 THEN back.err = "truncated"
       ELSE back.err = "" /\ back.v = [f |-> f, nups |-> Len(f.upvalues)] /\ back.z = Stream(<<>>)
=============================================================================
