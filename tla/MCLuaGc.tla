------------------------------ MODULE MCLuaGc ------------------------------
(* Instances of LuaGc: programs of three or four objects, each for one part *)
(* of the collector.                                                        *)
EXTENDS LuaGc, TLC

CONSTANTS a, b, c, d

MCObj == {a, b, c, d}

OfKind(ka, kb, kc, kd) == a :> ka @@ b :> kb @@ c :> kc @@ d :> kd
OnStack(S) == {Main} \X S

(* A cycle of strong references.                                            *)
Strongly == [kind |-> OfKind("table", "udata", "table", "none"), fin |-> {}, entries |-> {},
             holds |-> OnStack({a, b, c}) \cup {<<a, b>>, <<b, c>>, <<c, a>>}]

(* A table with weak keys, of which one has a finalizer and the other's     *)
(* value refers to it.                                                      *)
Weakly == [kind |-> OfKind("ephemeron", "table", "table", "none"), fin |-> {b},
           entries |-> {<<b, c>>, <<c, b>>}, holds |-> {<<c, b>>}]

(* Entries whose values are keys of others.                                 *)
Chained == [kind |-> OfKind("none", "udata", "udata", "ephemeron"), fin |-> {},
            entries |-> {<<b, c>>, <<d, b>>}, holds |-> {}]
Named == [kind |-> OfKind("allweak", "string", "table", "none"), fin |-> {},
          entries |-> {<<b, c>>, <<c, b>>, <<b, b>>}, holds |-> OnStack({a, b, c})]

(* Two objects with finalizers, one of which needs the other.               *)
Finally == [kind |-> OfKind("udata", "table", "table", "none"), fin |-> {a, b}, entries |-> {},
            holds |-> OnStack({a, b, c}) \cup {<<a, b>>, <<b, c>>}]

(* A weak table that only a finalizer needs, and may hold another object.   *)
Resurrected == [kind |-> OfKind("weakv", "udata", "table", "none"), fin |-> {b}, entries |-> {<<c, c>>, <<b, c>>},
                holds |-> OnStack({a, b, c}) \cup {<<b, a>>}]

(* A coroutine, a closure made in it, and what its upvalue holds.           *)
Coroutine == [kind |-> OfKind("thread", "closure", "table", "none"), fin |-> {}, entries |-> {},
              holds |-> OnStack({a, b, c}) \cup {<<b, c>>}]

(* More garbage with finalizers than two steps of the sweep visit.          *)
Many == {[kind |-> [o \in MCObj |-> "udata"], fin |-> MCObj, entries |-> {}, holds |-> {}]}
ManySymmetry == Permutations(MCObj)

(* The collector: LET, so that TLC's coverage stops at these.               *)
CollectorStep(G, n) == LET stepped == LuaCStep(G, n) IN stepped
CollectorFull(G, e) == LET collected == FullGc(G, e) IN collected

MCShapes == {Strongly, Weakly, Chained, Named, Finally, Resurrected, Coroutine}
=============================================================================
