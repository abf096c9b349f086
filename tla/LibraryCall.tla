---------------------------- MODULE LibraryCall ----------------------------
(* One call of a function that keeps no state: the function, its arguments  *)
(* and, once it has returned, <<its result>>.                               *)

VARIABLES fn, arg, ret

callVars == <<fn, arg, ret>>

Return(f, v) == fn = f /\ ret = <<>> /\ ret' = <<v>> /\ UNCHANGED <<fn, arg>>

(* Every call of f returns what Right says of its argument and its result.  *)
Returned(f) == fn = f /\ ret # <<>>
Result == ret[1]
=============================================================================
