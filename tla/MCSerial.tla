------------------------------ MODULE MCSerial ------------------------------
(* The workloads of the serial runs.                                        *)
EXTENDS Serial

Work(writes, reads, calls, pressed, prints, arrivals, window) ==
  [writes |-> writes, reads |-> reads, calls |-> calls, keys |-> pressed,
   prints |-> prints, arrivals |-> arrivals, window |-> window]

(* Writes of at most half of obuf, with characters arriving but not read.   *)
Quiet == Work(1 .. 4, {}, 5, 0, 1, 2, 2)

(* The same with keys pressed, whose handlers nest.                         *)
Typing == Work({1, 2, 4}, {}, 3, 2, 2, 1, 1)

(* Reads from a sender that is never a whole ring ahead.                    *)
Reading == Work({1}, 1 .. 3, 4, 0, 1, 8, 4)

Usual == {Quiet, Typing, Reading}

(* A write of more than half of obuf.                                       *)
LongWrite == {Work({6}, {}, 1, 0, 1, 0, 0)}

(* Reads until the ring has wrapped.                                        *)
ReadOn == {Work({}, {1, 2}, 3, 0, 1, 7, 4)}
=============================================================================
