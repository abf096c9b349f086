---------------------------- MODULE SerialProofs ----------------------------
(* The serial console's invariants, for rings of every size.                *)
EXTENDS Serial, SequenceTheorems, TLAPS

(* A workload whose writes fit one half of obuf, and whose keys, all nested, *)
(* cannot fill the other: each one's handler leaves all that it prints but   *)
(* one character in the ring.                                                *)
Honest(w) ==
  w.writes \subseteq 1 .. Bsz /\ w.prints <= Bsz /\ w.keys * (w.prints - 1) <= Bsz

Frame == [who : Nat, pc : {"poll", "fill", "drain", "rpoll", "take"}, left : Nat]

(* A key's handler that has not printed yet: it runs with interrupts off.   *)
Deaf == stack # <<>> /\ Top.who # Main /\ Top.pc \in {"poll", "fill"}
Printed == keys.pressed - (IF Deaf THEN 1 ELSE 0)

Workload ==
  [writes : SUBSET (Nat \ {0}), reads : SUBSET (Nat \ {0}), calls : Nat, keys : Nat,
   prints : Nat \ {0}, arrivals : Nat, window : Nat]

Types ==
  /\ TypeOK
  /\ stack \in Seq(Frame) /\ work \in Workload
  /\ wire \in Seq(Nat) /\ stored \in Seq(Nat) /\ got \in Seq(Nat)
  /\ submitted \in Nat /\ arrived \in Nat
  /\ keys.pressed \in 0 .. work.keys
  /\ keys \in [pressed : Nat, buffer : Seq(Nat)]

(* serial_write and serial_read are not asked for nothing.                  *)
Frames == \A i \in 1 .. Len(stack) : stack[i].pc # "drain" => stack[i].left > 0

(* The program's call is at the bottom, and no call writes more than it may. *)
(* A handler that another key's has interrupted waits for its characters to *)
(* go out.                                                                  *)
Nested ==
  /\ \A i \in 1 .. Len(stack) :
       /\ stack[i].who = Main => i = 1
       /\ stack[i].who # Main => stack[i].pc \in {"poll", "fill", "drain"}
       /\ stack[i].who # Main /\ i < Len(stack) => stack[i].pc = "drain"
       /\ stack[i].pc \in {"poll", "fill"} =>
            stack[i].left <= Bsz /\ (stack[i].who # Main => stack[i].left = work.prints)
  /\ Deaf => ser = "off" /\ ~irqOn /\ keys.pressed > 0

(* How many characters obuf holds, and where the k-th of them is.           *)
Count == (obufp2 - obufp1) % OBUF_SZ
At(k) == (obufp1 + k - 1) % OBUF_SZ

(* The transmitter's flag, interrupt and registers.                         *)
Sending ==
  /\ thri \/ ser = "tx" => thr = None
  /\ NoLostWakeup
  /\ ~transmit => thr = None /\ obufp1 = obufp2
  /\ \A k \in 1 .. Count : obuf[At(k)] # None

(* The program starts to write, and a handler returns, with nothing left.   *)
Quieted ==
  /\ stack = <<>> => ~transmit
  /\ stack # <<>> /\ Top.who = Main /\ Top.pc # "drain" => ~transmit

Bit(r) == IF r = None THEN 0 ELSE 1
(* The last character that has left obuf, and how many never got further.   *)
Sent == submitted - Count
Overwritten == Sent - Bit(thr) - Bit(shift) - Len(wire)

(* The program fills an empty obuf, and every key's handler adds all that it *)
(* prints but one.                                                          *)
Room == Count <= Bsz - 1 + Printed * (work.prints - 1)

(* What obuf holds is contiguous and ends with the last one submitted.      *)
Contiguous == \A k \in 1 .. Count : obuf[At(k)] = Sent + k

(* What has left obuf is in order.                                          *)
Ordered ==
  /\ thr <= Sent /\ shift <= Sent
  /\ thr # None => shift < thr
  /\ \A i \in 1 .. Len(wire) :
       /\ wire[i] <= Sent
       /\ shift # None => wire[i] < shift
       /\ thr # None => wire[i] < thr
       /\ \A j \in 1 .. i - 1 : wire[j] < wire[i]

Queue == Room /\ Contiguous /\ Ordered /\ Overwritten \in 0 .. Printed

(* Without keys every character has its place.                              *)
Placed ==
  keys.pressed = 0 =>
    /\ \A i \in 1 .. Len(wire) : wire[i] = i
    /\ shift # None => shift = Len(wire) + 1
    /\ thr # None => thr = Len(wire) + Bit(shift) + 1

Receiving ==
  Len(stored) < IBUF_SZ =>
    /\ ibufp2 = Len(stored) /\ ibufp1 = Len(got) /\ Len(got) <= Len(stored)
    /\ \A i \in 1 .. Len(stored) : ibuf[i - 1] = stored[i]
    /\ \A i \in 1 .. Len(got) : got[i] = stored[i]

AnyInv == Types /\ Frames /\ Sending /\ Receiving
HonestInv == Honest(work) => Nested /\ Quieted /\ Queue /\ Placed
-----------------------------------------------------------------------------
(* Indices that come round.                                                 *)
LEMMA Wraps ==
  ASSUME NEW n \in Nat \ {0}, NEW p \in 0 .. n - 1, NEW d \in 0 .. n
  PROVE  /\ (p + d) % n = IF p + d < n THEN p + d ELSE p + d - n
         /\ (p + d) % n \in 0 .. n - 1
  <1>1. CASE p + d < n
    BY <1>1
  <1>2. CASE p + d >= n
    BY <1>2
  <1> QED
    BY <1>1, <1>2

LEMMA Small ==
  ASSUME NEW n \in Nat \ {0}, NEW i \in 0 .. n - 1
  PROVE  i % n = i
  OBVIOUS

LEMMA Between ==
  ASSUME NEW n \in Nat \ {0}, NEW p \in 0 .. n - 1, NEW q \in 0 .. n - 1
  PROVE  (q - p) % n = IF p <= q THEN q - p ELSE q - p + n
  <1>1. CASE p <= q
    BY <1>1
  <1>2. CASE p > q
    BY <1>2
  <1> QED
    BY <1>1, <1>2

(* The ring seen from one place further on.                                 *)
LEMMA Advanced ==
  ASSUME NEW n \in Nat \ {0}, NEW p \in 0 .. n - 1, NEW q \in 0 .. n - 1, NEW k \in 1 .. n
  PROVE  /\ (((p + 1) % n) + k - 1) % n = (p + k) % n
         /\ p # q => (q - ((p + 1) % n)) % n = ((q - p) % n) - 1
  <1>0. 1 \in 0 .. n
    OBVIOUS
  <1>1. (p + 1) % n = (IF p + 1 < n THEN p + 1 ELSE p + 1 - n) /\ (p + 1) % n \in 0 .. n - 1
    BY <1>0, Wraps, Zenon
  <1>2. (p + k) % n = IF p + k < n THEN p + k ELSE p + k - n
    <2>1. k \in 0 .. n
      OBVIOUS
    <2> QED
      BY <2>1, Wraps, Zenon
  <1>3. k - 1 \in 0 .. n
    OBVIOUS
  <1>4. (((p + 1) % n) + (k - 1)) % n =
          IF ((p + 1) % n) + (k - 1) < n THEN ((p + 1) % n) + (k - 1) ELSE ((p + 1) % n) + (k - 1) - n
    BY <1>1, <1>3, Wraps
  <1>5. (((p + 1) % n) + k - 1) % n = (p + k) % n
    BY <1>1, <1>2, <1>4
  <1>6. (q - p) % n = IF p <= q THEN q - p ELSE q - p + n
    BY Between
  <1>7. (q - ((p + 1) % n)) % n = IF (p + 1) % n <= q THEN q - ((p + 1) % n) ELSE q - ((p + 1) % n) + n
    BY <1>1, Between, Zenon
  <1> QED
    BY <1>1, <1>5, <1>6, <1>7

(* The ring when d more have been put in and one taken out.                 *)
LEMMA Grown ==
  ASSUME NEW n \in Nat \ {0}, NEW p \in 0 .. n - 1, NEW q \in 0 .. n - 1, NEW d \in 1 .. n
  PROVE  LET c == (((q + d) % n) - ((p + 1) % n)) % n
         IN /\ c \in 0 .. n - 1
            /\ c <= ((q - p) % n) + d - 1
            /\ ((q - p) % n) + d <= n => c = ((q - p) % n) + d - 1
  <1>0. 1 \in 0 .. n
    OBVIOUS
  <1>1. (p + 1) % n = (IF p + 1 < n THEN p + 1 ELSE p + 1 - n) /\ (p + 1) % n \in 0 .. n - 1
    BY <1>0, Wraps, Zenon
  <1>2. (q + d) % n = (IF q + d < n THEN q + d ELSE q + d - n) /\ (q + d) % n \in 0 .. n - 1
    <2>1. d \in 0 .. n
      OBVIOUS
    <2> QED
      BY <2>1, Wraps, Zenon
  <1>3. (q - p) % n = IF p <= q THEN q - p ELSE q - p + n
    BY Between
  <1> DEFINE a == (q + d) % n  b == (p + 1) % n
  <1>4. (a - b) % n = IF b <= a THEN a - b ELSE a - b + n
    BY <1>1, <1>2, Between
  <1> QED
    BY <1>1, <1>2, <1>3, <1>4

(* Where the k-th character from p on is.                                   *)
LEMMA Apart ==
  ASSUME NEW n \in Nat \ {0}, NEW p \in 0 .. n - 1, NEW j \in 1 .. n, NEW k \in 1 .. n
  PROVE  /\ (p + k - 1) % n \in 0 .. n - 1
         /\ (p + j - 1) % n = (p + k - 1) % n => j = k
  <1>1. k - 1 \in 0 .. n /\ j - 1 \in 0 .. n
    OBVIOUS
  <1>2. /\ (p + (k - 1)) % n = (IF p + (k - 1) < n THEN p + (k - 1) ELSE p + (k - 1) - n)
        /\ (p + (k - 1)) % n \in 0 .. n - 1
    BY <1>1, Wraps
  <1>3. (p + (j - 1)) % n = IF p + (j - 1) < n THEN p + (j - 1) ELSE p + (j - 1) - n
    BY <1>1, Wraps
  <1> QED
    BY <1>2, <1>3

(* A place seen from p and from q, (q - p) % n further on.                  *)
LEMMA FromBoth ==
  ASSUME NEW n \in Nat \ {0}, NEW p \in 0 .. n - 1, NEW q \in 0 .. n - 1, NEW k \in 1 .. n,
         ((q - p) % n) + k <= n
  PROVE  (p + (((q - p) % n) + k) - 1) % n = (q + k - 1) % n
  <1>1. (q - p) % n = IF p <= q THEN q - p ELSE q - p + n
    BY Between
  <1>2. k - 1 \in 0 .. n /\ ((q - p) % n) + k - 1 \in 0 .. n
    BY <1>1
  <1>3. (q + (k - 1)) % n = IF q + (k - 1) < n THEN q + (k - 1) ELSE q + (k - 1) - n
    BY <1>2, Wraps
  <1> DEFINE e == ((q - p) % n) + k - 1
  <1>4. (p + e) % n = IF p + e < n THEN p + e ELSE p + e - n
    BY <1>2, Wraps
  <1>5. p + (((q - p) % n) + k) - 1 = p + e /\ q + k - 1 = q + (k - 1)
    BY <1>1
  <1> QED
    BY <1>1, <1>2, <1>3, <1>4, <1>5

-----------------------------------------------------------------------------
(* The stack of calls.                                                      *)
Pcs == {"poll", "fill", "drain", "rpoll", "take"}

LEMMA Moved ==
  ASSUME stack \in Seq(Frame), stack # <<>>, NEW p \in Pcs, NEW n \in Nat, Goto(p, n)
  PROVE  /\ stack' \in Seq(Frame) /\ Len(stack') = Len(stack) /\ stack' # <<>>
         /\ Len(stack) \in Nat \ {0} /\ Top \in Frame
         /\ \A i \in 1 .. Len(stack) - 1 : stack'[i] = stack[i]
         /\ Top' = [who |-> Top.who, pc |-> p, left |-> n]
  <1>1. Len(stack) \in Nat \ {0} /\ Top \in Frame
    BY EmptySeq DEF Top
  <1>2. [Top EXCEPT !.pc = p, !.left = n] = [who |-> Top.who, pc |-> p, left |-> n]
    <2> DEFINE one == [Top EXCEPT !.pc = p]
               two == [one EXCEPT !.left = n]
    <2>1. one = [who |-> Top.who, pc |-> p, left |-> Top.left]
      BY <1>1, SMTT(30) DEF Frame
    <2>2. one \in Frame /\ one.who = Top.who /\ one.pc = p
      BY <1>1, <2>1 DEF Frame, Pcs
    <2> HIDE DEF one
    <2>3. two \in Frame /\ two.who = one.who /\ two.pc = one.pc /\ two.left = n
      BY <2>2 DEF Frame
    <2>4. \A f \in Frame : f = [who |-> f.who, pc |-> f.pc, left |-> f.left]
      BY DEF Frame
    <2>5. two = [who |-> two.who, pc |-> two.pc, left |-> two.left]
      BY <2>3, <2>4, Zenon
    <2>6. two = [who |-> Top.who, pc |-> p, left |-> n]
      BY <2>2, <2>3, <2>5
    <2> USE DEF one
    <2> QED
      BY <2>6, Zenon
  <1>3. stack' = [stack EXCEPT ![Len(stack)] = [who |-> Top.who, pc |-> p, left |-> n]]
    BY <1>2 DEF Goto, Top
  <1>4. [who |-> Top.who, pc |-> p, left |-> n] \in Frame
    BY <1>1 DEF Frame, Pcs
  <1>5. stack' \in Seq(Frame) /\ Len(stack') = Len(stack)
    BY <1>1, <1>3, <1>4
  <1> QED
    BY <1>1, <1>3, <1>4, <1>5 DEF Top

LEMMA Returned ==
  ASSUME stack \in Seq(Frame), stack # <<>>, Return
  PROVE  /\ stack' \in Seq(Frame) /\ Len(stack) \in Nat \ {0} /\ Len(stack') = Len(stack) - 1
         /\ \A i \in 1 .. Len(stack) - 1 : stack'[i] = stack[i]
         /\ stack' = <<>> <=> Len(stack) = 1
         /\ stack' # <<>> => Len(stack) > 1 /\ Top' = stack[Len(stack) - 1]
  <1>1. Len(stack) \in Nat \ {0}
    BY EmptySeq
  <1>2. stack' \in Seq(Frame) /\ Len(stack') = Len(stack) - 1
    <2> DEFINE n == Len(stack) - 1
    <2>1. \A i \in 1 .. n : stack[i] \in Frame
      BY <1>1
    <2>2. 1 \in Int /\ n \in Int /\ n >= 0
      BY <1>1
    <2>3. stack' = SubSeq(stack, 1, n)
      BY DEF Return
    <2> HIDE DEF n
    <2>4. /\ SubSeq(stack, 1, n) \in Seq(Frame)
          /\ Len(SubSeq(stack, 1, n)) = IF 1 <= n THEN n - 1 + 1 ELSE 0
      BY <2>1, <2>2, SubSeqProperties
    <2>5. stack' \in Seq(Frame) /\ Len(stack') = n
      BY <2>2, <2>3, <2>4
    <2> QED
      BY <2>5 DEF n
  <1>3. \A i \in 1 .. Len(stack) - 1 : stack'[i] = stack[i]
    BY <1>1 DEF Return
  <1>4. stack' = <<>> <=> Len(stack) = 1
    <2>1. stack' # <<>> => Len(stack') \in Nat \ {0}
      BY <1>2, EmptySeq, Zenon
    <2>2. Len(<<>>) = 0
      BY EmptySeq
    <2>3. CASE Len(stack) = 1
      BY <1>2, <2>1, <2>3
    <2>4. CASE stack' = <<>>
      BY <1>1, <1>2, <2>2, <2>4
    <2> QED
      BY <2>3, <2>4
  <1>5. stack' # <<>> => Len(stack) > 1
    BY <1>1, <1>2, <1>4
  <1> QED
    BY <1>1, <1>2, <1>3, <1>4, <1>5 DEF Top

LEMMA Called ==
  ASSUME stack \in Seq(Frame), NEW w \in Nat, NEW p \in Pcs, NEW n \in Nat, Call(w, p, n)
  PROVE  /\ stack' \in Seq(Frame) /\ Len(stack) \in Nat /\ Len(stack') = Len(stack) + 1 /\ stack' # <<>>
         /\ \A i \in 1 .. Len(stack) : stack'[i] = stack[i]
         /\ Top' = [who |-> w, pc |-> p, left |-> n]
  <1>1. [who |-> w, pc |-> p, left |-> n] \in Frame
    BY DEF Frame, Pcs
  <1>2. stack' = Append(stack, [who |-> w, pc |-> p, left |-> n])
    BY DEF Call
  <1>3. stack' \in Seq(Frame) /\ Len(stack) \in Nat /\ Len(stack') = Len(stack) + 1
    BY <1>1, <1>2
  <1> QED
    BY <1>1, <1>2, <1>3, EmptySeq DEF Top

(* obuf after serial_write's loop.                                          *)
LEMMA PutIn ==
  ASSUME TypeOK, submitted \in Nat, NEW ad \in 1 .. Bsz
  PROVE  /\ Filled(ad) \in [0 .. OBUF_SZ - 1 -> 0 .. submitted + ad]
         /\ \A k \in 1 .. ad : Filled(ad)[(obufp2 + k - 1) % OBUF_SZ] = submitted + k
         /\ \A i \in 0 .. OBUF_SZ - 1 :
              (\A k \in 1 .. ad : (obufp2 + k - 1) % OBUF_SZ # i) => Filled(ad)[i] = obuf[i]
         /\ \A i \in 0 .. OBUF_SZ - 1 : obuf[i] # None => Filled(ad)[i] # None
  <1> DEFINE put(i) == CHOOSE k \in 1 .. ad : (obufp2 + k - 1) % OBUF_SZ = i
             touched == {(obufp2 + k - 1) % OBUF_SZ : k \in 1 .. ad}
  <1>0. OBUF_SZ \in Nat \ {0} /\ obufp2 \in 0 .. OBUF_SZ - 1 /\ Bsz <= OBUF_SZ /\ Bsz \in Nat
    BY SerialAssumption DEF TypeOK, Bsz
  <1>1. Filled(ad) = [i \in 0 .. OBUF_SZ - 1 |-> IF i \in touched THEN submitted + put(i) ELSE obuf[i]]
    BY DEF Filled, TypeOK
  <1>2. ASSUME NEW i \in touched PROVE put(i) \in 1 .. ad /\ (obufp2 + put(i) - 1) % OBUF_SZ = i
    <2>1. \E k \in 1 .. ad : (obufp2 + k - 1) % OBUF_SZ = i
      BY <1>2
    <2> QED
      BY <2>1
  <1>3. ASSUME NEW k \in 1 .. ad
        PROVE  /\ (obufp2 + k - 1) % OBUF_SZ \in touched \cap (0 .. OBUF_SZ - 1)
               /\ put((obufp2 + k - 1) % OBUF_SZ) = k
    <2> DEFINE i == (obufp2 + k - 1) % OBUF_SZ
    <2>1. i \in touched
      OBVIOUS
    <2>2. put(i) \in 1 .. ad /\ (obufp2 + put(i) - 1) % OBUF_SZ = i
      BY <1>2, <2>1
    <2> HIDE DEF put
    <2>3. k \in 1 .. OBUF_SZ /\ put(i) \in 1 .. OBUF_SZ
      BY <1>0, <2>2
    <2>4. i \in 0 .. OBUF_SZ - 1 /\ put(i) = k
      BY <1>0, <2>2, <2>3, Apart
    <2> QED
      BY <2>1, <2>4
  <1> HIDE DEF put
  <1>4. \A i \in 0 .. OBUF_SZ - 1 : obuf[i] \in 0 .. submitted
    BY DEF TypeOK
  <1>5. \A i \in 0 .. OBUF_SZ - 1 :
          /\ i \in touched => Filled(ad)[i] \in submitted + 1 .. submitted + ad
          /\ i \notin touched => Filled(ad)[i] = obuf[i]
    BY <1>1, <1>2
  <1>6. Filled(ad) \in [0 .. OBUF_SZ - 1 -> 0 .. submitted + ad]
    <2>1. \A i \in 0 .. OBUF_SZ - 1 : Filled(ad)[i] \in 0 .. submitted + ad
      BY <1>4, <1>5
    <2> QED
      BY <1>1, <2>1
  <1>7. \A k \in 1 .. ad : Filled(ad)[(obufp2 + k - 1) % OBUF_SZ] = submitted + k
    BY <1>1, <1>3
  <1>8. \A i \in 0 .. OBUF_SZ - 1 :
          (\A k \in 1 .. ad : (obufp2 + k - 1) % OBUF_SZ # i) => Filled(ad)[i] = obuf[i]
    BY <1>5
  <1>9. \A i \in 0 .. OBUF_SZ - 1 : obuf[i] # None => Filled(ad)[i] # None
    BY <1>4, <1>5 DEF None
  <1> QED
    BY <1>6, <1>7, <1>8, <1>9

-----------------------------------------------------------------------------
(* The kinds of the variables.                                              *)
LEMMA Sizes ==
  /\ OBUF_SZ \in Nat \ {0} /\ IBUF_SZ \in Nat \ {0}
  /\ Bsz \in Nat \ {0} /\ OBUF_SZ = 2 * Bsz
  BY SerialAssumption DEF Bsz

LEMMA CallMade ==
  ASSUME work \in Workload, work.calls > 0, work' = [work EXCEPT !.calls = @ - 1]
  PROVE  /\ work' \in Workload /\ work'.calls \in Nat
         /\ work'.keys = work.keys /\ work'.prints = work.prints /\ work'.writes = work.writes
  BY DEF Workload

LEMMA KeyStored ==
  ASSUME NEW k \in [pressed : Nat, buffer : Seq(Nat)], NEW w \in Nat
  PROVE  /\ [k EXCEPT !.buffer = Append(@, w)] \in [pressed : Nat, buffer : Seq(Nat)]
         /\ [k EXCEPT !.buffer = Append(@, w)].pressed = k.pressed
  BY SMTT(30)

LEMMA KeyDown ==
  ASSUME NEW k \in [pressed : Nat, buffer : Seq(Nat)]
  PROVE  /\ [k EXCEPT !.pressed = @ + 1] \in [pressed : Nat, buffer : Seq(Nat)]
         /\ [k EXCEPT !.pressed = @ + 1].pressed = k.pressed + 1
  OBVIOUS

(* What a step of the program has on top of the stack.                      *)
LEMMA OnTop ==
  ASSUME Types, Frames, NEW p \in Pcs, Running(p)
  PROVE  /\ stack \in Seq(Frame) /\ stack # <<>> /\ ser = "off" /\ Top.pc = p
         /\ Top \in Frame /\ Len(stack) \in Nat \ {0} /\ Top = stack[Len(stack)]
         /\ Top.left \in Nat /\ Top.who \in Nat
         /\ p # "drain" => Top.left > 0
  <1>1. stack \in Seq(Frame) /\ stack # <<>> /\ ser = "off" /\ Top.pc = p /\ Len(stack) \in Nat \ {0}
    BY EmptySeq DEF Types, Running
  <1>2. Top \in Frame /\ Top = stack[Len(stack)] /\ Len(stack) \in 1 .. Len(stack)
    BY <1>1 DEF Top
  <1>3. Top.left \in Nat /\ Top.who \in Nat
    BY <1>2 DEF Frame
  <1> QED
    BY <1>1, <1>2, <1>3 DEF Frames

(* How many characters a round of serial_write puts in.                     *)
LEMMA Round ==
  ASSUME Types, Frames, Running("fill")
  PROVE  /\ Least(Bsz, Top.left) \in 1 .. Bsz /\ Top.left - Least(Bsz, Top.left) \in Nat
         /\ Top.left = Least(Bsz, Top.left) <=> Top.left <= Bsz
  <1>1. Top.left \in Nat /\ Top.left > 0
    BY OnTop DEF Pcs
  <1> QED
    BY <1>1, Sizes DEF Least

LEMMA FillTypes ==
  ASSUME Types, Frames, Fill
  PROVE  Types'
  <1> DEFINE ad == Least(Bsz, Top.left)
  <1>1. ad \in 1 .. Bsz /\ Top.left - ad \in Nat
    BY Round DEF Fill
  <1>2. stack \in Seq(Frame) /\ stack # <<>>
    BY OnTop DEF Fill, Pcs
  <1>3. stack' \in Seq(Frame)
    BY <1>1, <1>2, Moved DEF Fill, Pcs
  <1> HIDE DEF ad
  <1>4. TypeOK /\ submitted \in Nat
    BY DEF Types
  <1>5. Filled(ad) \in [0 .. OBUF_SZ - 1 -> 0 .. submitted + ad]
    BY <1>1, <1>4, PutIn
  <1>6. /\ obuf' = Filled(ad) /\ submitted' = submitted + ad
        /\ thr' = Filled(ad)[obufp1] /\ thri' = FALSE /\ transmit' = TRUE /\ irqOn' = TRUE
        /\ obufp2' = (obufp2 + ad) % OBUF_SZ /\ obufp1' = (obufp1 + 1) % OBUF_SZ
        /\ UNCHANGED <<rx, ser, shift, rbr, wire, arrived, stored, got, work, keys>>
    BY DEF Fill, ad
  <1>7. obufp2' \in 0 .. OBUF_SZ - 1 /\ obufp1' \in 0 .. OBUF_SZ - 1
    BY <1>1, <1>4, <1>6, Sizes DEF TypeOK
  <1>8. thr' \in 0 .. submitted' /\ shift' \in 0 .. submitted' /\ obuf' \in [0 .. OBUF_SZ - 1 -> 0 .. submitted']
    BY <1>1, <1>4, <1>5, <1>6, Sizes DEF TypeOK
  <1>9. TypeOK'
    BY <1>4, <1>6, <1>7, <1>8 DEF TypeOK, rx
  <1> QED
    BY <1>1, <1>3, <1>6, <1>9 DEF Types

LEMMA TakeTypes ==
  ASSUME Types, Frames, Take
  PROVE  Types'
  <1> DEFINE bs == Least(Top.left, Abs(ibufp1 - ibufp2))
             new == [k \in 1 .. bs |-> ibuf[(ibufp1 + k - 1) % IBUF_SZ]]
  <1>1. /\ stack \in Seq(Frame) /\ stack # <<>> /\ Top.left \in Nat
        /\ ibufp1 \in 0 .. IBUF_SZ - 1 /\ ibufp2 \in 0 .. IBUF_SZ - 1
        /\ ibuf \in [0 .. IBUF_SZ - 1 -> 0 .. arrived] /\ arrived \in Nat
    BY OnTop DEF Take, Pcs, Types, TypeOK
  <1>2. bs \in Nat /\ Top.left - bs \in Nat
    BY <1>1 DEF Least, Abs
  <1>3. stack' \in Seq(Frame)
    <2>1. CASE Return
      BY <1>1, <2>1, Returned
    <2>2. CASE Goto("rpoll", Top.left - bs)
      BY <1>1, <1>2, <2>2, Moved DEF Pcs
    <2> QED
      BY <2>1, <2>2 DEF Take
  <1>4. new \in Seq(Nat)
    <2>1. \A k \in 1 .. bs : (ibufp1 + k - 1) % IBUF_SZ \in 0 .. IBUF_SZ - 1
      BY <1>1, <1>2, Sizes
    <2>2. \A k \in 1 .. bs : ibuf[(ibufp1 + k - 1) % IBUF_SZ] \in Nat
      BY <1>1, <2>1
    <2> QED
      BY <1>2, <2>2
  <1>5. /\ got' = got \o new /\ ibufp1' = (ibufp1 + bs) % IBUF_SZ /\ irqOn' = TRUE
        /\ UNCHANGED <<tx, ibuf, ibufp2, ser, thr, shift, thri, rbr, submitted, wire,
                       arrived, stored, work, keys>>
    BY DEF Take
  <1>6. got' \in Seq(Nat)
    BY <1>4, <1>5 DEF Types
  <1>7. ibufp1' \in 0 .. IBUF_SZ - 1
    BY <1>1, <1>2, <1>5, Sizes, SMTT(30)
  <1> QED
    BY <1>3, <1>5, <1>6, <1>7 DEF Types, TypeOK, tx

LEMMA TypesStep ==
  ASSUME Types, Frames, [Next]_vars
  PROVE  Types'
  <1> USE DEF Types, TypeOK, tx, rx, line
  <1>1. ASSUME NEW n \in work.writes, Write(n) PROVE Types'
    <2>1. n \in Nat /\ Main \in Nat
      BY DEF Workload, Main
    <2>2. stack' \in Seq(Frame)
      BY <1>1, <2>1, Called DEF Write, Pcs
    <2> QED
      BY <1>1, <2>2, CallMade DEF Write
  <1>2. ASSUME NEW n \in work.reads, Read(n) PROVE Types'
    <2>1. n \in Nat /\ Main \in Nat
      BY DEF Workload, Main
    <2>2. stack' \in Seq(Frame)
      BY <1>2, <2>1, Called DEF Read, Pcs
    <2> QED
      BY <1>2, <2>2, CallMade DEF Read
  <1>3. CASE Poll \/ ReadPoll
    <2>1. stack \in Seq(Frame) /\ stack # <<>> /\ Top.left \in Nat
      BY <1>3, OnTop DEF Poll, ReadPoll, Pcs
    <2>2. stack' \in Seq(Frame)
      BY <1>3, <2>1, Moved DEF Poll, ReadPoll, Pcs
    <2> QED
      BY <1>3, <2>2 DEF Poll, ReadPoll
  <1>4. CASE DrainMain \/ DrainKey
    <2>1. stack \in Seq(Frame) /\ stack # <<>> /\ Top.who \in Nat
      BY <1>4, OnTop DEF DrainMain, DrainKey, Drained, Pcs
    <2>2. stack' \in Seq(Frame)
      BY <1>4, <2>1, Returned DEF DrainMain, DrainKey, Drained
    <2>3. keys' \in [pressed : Nat, buffer : Seq(Nat)] /\ keys'.pressed = keys.pressed
      BY <1>4, <2>1, KeyStored DEF DrainMain, DrainKey
    <2> QED
      BY <1>4, <2>2, <2>3 DEF DrainMain, DrainKey
  <1>5. CASE KbIrq
    <2>0. work.prints \in Nat /\ work.keys \in Nat
      BY DEF Workload
    <2>a. keys.pressed < work.keys
      BY <1>5 DEF KbIrq
    <2>b. keys.pressed \in 0 .. work.keys
      OBVIOUS
    <2>1. keys.pressed + 1 \in 0 .. work.keys /\ keys.pressed + 1 \in Nat
      BY <2>0, <2>a, <2>b
    <2>2. stack' \in Seq(Frame)
      BY <1>5, <2>0, <2>1, Called DEF KbIrq, Pcs
    <2>3. keys' \in [pressed : Nat, buffer : Seq(Nat)] /\ keys'.pressed = keys.pressed + 1
      BY <1>5, KeyDown DEF KbIrq
    <2> QED
      BY <1>5, <2>1, <2>2, <2>3 DEF KbIrq
  <1>6. CASE SerialIrq \/ ReadIir
    <2>1. irqOn' \in BOOLEAN /\ thri' \in BOOLEAN /\ ser' \in {"off", "iir", "rx", "tx"}
      BY <1>6 DEF SerialIrq, ReadIir
    <2> QED
      BY <1>6, <2>1 DEF SerialIrq, ReadIir
  <1>7. CASE IsrReceive
    <2>1. ibuf' \in [0 .. IBUF_SZ - 1 -> 0 .. arrived] /\ ibufp2' \in 0 .. IBUF_SZ - 1
      BY <1>7, Sizes, SMTT(30) DEF IsrReceive
    <2>2. stored' \in Seq(Nat) /\ rbr' \in 0 .. arrived
      BY <1>7 DEF IsrReceive, None
    <2>3. ser' \in {"off", "iir", "rx", "tx"}
      BY <1>7 DEF IsrReceive
    <2> QED
      BY <1>7, <2>1, <2>2, <2>3 DEF IsrReceive
  <1>8. CASE IsrTransmit
    <2>1. ser' \in {"off", "iir", "rx", "tx"}
      BY <1>8 DEF IsrTransmit
    <2>2. obufp1' \in 0 .. OBUF_SZ - 1
      <3>1. obufp1' = obufp1 \/ obufp1' = (obufp1 + 1) % OBUF_SZ
        BY <1>8 DEF IsrTransmit, SendNext, SendDone, SendNothing
      <3> QED
        BY <3>1, Sizes, SMTT(30)
    <2>3. thr' \in 0 .. submitted /\ thri' \in BOOLEAN /\ transmit' \in BOOLEAN
      BY <1>8 DEF IsrTransmit, SendNext, SendDone, SendNothing
    <2> QED
      BY <1>8, <2>1, <2>2, <2>3 DEF IsrTransmit
  <1>9. CASE Load \/ ShiftOut
    <2>1. None \in 0 .. submitted
      BY DEF None
    <2>2. CASE Load
      BY <2>1, <2>2 DEF Load
    <2>3. CASE ShiftOut
      <3>1. shift \in Nat
        OBVIOUS
      <3>2. wire' \in Seq(Nat)
        BY <2>3, <3>1 DEF ShiftOut
      <3>3. shift' \in 0 .. submitted
        BY <2>1, <2>3 DEF ShiftOut
      <3> QED
        BY <2>3, <3>2, <3>3 DEF ShiftOut
    <2> QED
      BY <1>9, <2>2, <2>3
  <1>10. CASE Arrive
    BY <1>10 DEF Arrive
  <1>11. CASE UNCHANGED vars
    BY <1>11 DEF vars
  <1> QED
    BY <1>1, <1>2, <1>3, <1>4, <1>5, <1>6, <1>7, <1>8, <1>9, <1>10, <1>11, FillTypes, TakeTypes DEF Next

LEMMA FramesStep ==
  ASSUME Types, Frames, [Next]_vars
  PROVE  Frames'
  <1>0. stack \in Seq(Frame)
    BY DEF Types
  <1>1. ASSUME NEW n \in work.writes \cup work.reads, Write(n) \/ Read(n) PROVE Frames'
    <2>1. n \in Nat \ {0} /\ Main \in Nat
      BY DEF Types, Workload, Main
    <2>2. PICK p \in {"poll", "rpoll"} : Call(Main, p, n)
      BY <1>1 DEF Write, Read
    <2>3. /\ Len(stack) \in Nat /\ Len(stack') = Len(stack) + 1
          /\ \A i \in 1 .. Len(stack) : stack'[i] = stack[i]
          /\ Top' = [who |-> Main, pc |-> p, left |-> n]
      BY <1>0, <2>1, <2>2, Called DEF Pcs
    <2>4. Top'.left > 0
      BY <2>1, <2>3
    <2> QED
      BY <2>3, <2>4 DEF Frames, Top
  <1>2. ASSUME NEW p \in Pcs, NEW n \in Nat, stack # <<>>, Goto(p, n), p = "drain" \/ n > 0 PROVE Frames'
    <2>1. /\ Len(stack) \in Nat \ {0} /\ Len(stack') = Len(stack)
          /\ \A i \in 1 .. Len(stack) - 1 : stack'[i] = stack[i]
          /\ Top' = [who |-> Top.who, pc |-> p, left |-> n]
      BY <1>0, <1>2, Moved
    <2>2. Top'.pc # "drain" => Top'.left > 0
      BY <1>2, <2>1
    <2> QED
      BY <2>1, <2>2 DEF Frames, Top
  <1>3. ASSUME stack # <<>>, Return PROVE Frames'
    BY <1>0, <1>3, Returned DEF Frames
  <1>4. CASE Poll \/ ReadPoll
    <2>1. stack # <<>> /\ Top.left \in Nat /\ Top.left > 0
      BY <1>4, OnTop DEF Poll, ReadPoll, Pcs
    <2>2. PICK p \in Pcs : Goto(p, Top.left)
      BY <1>4 DEF Poll, ReadPoll, Pcs
    <2> QED
      BY <1>2, <2>1, <2>2
  <1>5. CASE Fill
    <2> DEFINE ad == Least(Bsz, Top.left)
               p == IF Top.left = ad THEN "drain" ELSE "poll"
    <2>1. stack # <<>> /\ ad \in Nat /\ Top.left \in Nat /\ Top.left - ad \in Nat
      BY <1>5, OnTop, Round, Sizes DEF Fill, Pcs
    <2>2. p \in Pcs /\ (p = "drain" \/ Top.left - ad > 0)
      BY <2>1 DEF Pcs
    <2>3. Goto(p, Top.left - ad)
      BY <1>5 DEF Fill
    <2> HIDE DEF ad, p
    <2> QED
      BY <1>2, <2>1, <2>2, <2>3
  <1>6. CASE DrainMain \/ DrainKey
    BY <1>3, <1>6, OnTop DEF DrainMain, DrainKey, Drained, Pcs
  <1>7. CASE Take
    <2> DEFINE bs == Least(Top.left, Abs(ibufp1 - ibufp2))
    <2>1. stack # <<>> /\ Top.left \in Nat
      BY <1>7, OnTop DEF Take, Pcs
    <2>2. bs \in Nat /\ Top.left - bs \in Nat
      BY <2>1 DEF Least, Abs, Types, TypeOK
    <2>3. Return \/ (Top.left # bs /\ Goto("rpoll", Top.left - bs))
      BY <1>7 DEF Take
    <2> HIDE DEF bs
    <2> QED
      BY <1>2, <1>3, <2>1, <2>2, <2>3 DEF Pcs
  <1>8. CASE KbIrq
    <2>1. work.prints \in Nat \ {0} /\ keys.pressed + 1 \in Nat
      BY DEF Types, Workload
    <2>2. Call(keys.pressed + 1, "poll", work.prints)
      BY <1>8 DEF KbIrq
    <2>3. /\ Len(stack) \in Nat /\ Len(stack') = Len(stack) + 1
          /\ \A i \in 1 .. Len(stack) : stack'[i] = stack[i]
          /\ Top' = [who |-> keys.pressed + 1, pc |-> "poll", left |-> work.prints]
      BY <1>0, <2>1, <2>2, Called DEF Pcs
    <2>4. Top'.left > 0
      BY <2>1, <2>3
    <2> QED
      BY <2>3, <2>4 DEF Frames, Top
  <1>9. CASE UNCHANGED stack
    BY <1>9 DEF Frames
  <1> QED
    BY <1>1, <1>4, <1>5, <1>6, <1>7, <1>8, <1>9
    DEF Next, SerialIrq, ReadIir, IsrReceive, IsrTransmit, Load, ShiftOut, Arrive, vars

(* What an honest workload's calls are about.                               *)
LEMMA OnTopNested ==
  ASSUME Types, Frames, Nested, NEW p \in Pcs, Running(p)
  PROVE  /\ Top.who # Main => Top.pc \in {"poll", "fill", "drain"}
         /\ p \in {"poll", "fill"} => Top.left <= Bsz /\ (Top.who # Main => Top.left = work.prints)
         /\ Top.who = Main => Len(stack) = 1
         /\ \A i \in 1 .. Len(stack) - 1 : stack[i].who # Main => stack[i].pc = "drain"
  <1>1. /\ Top.pc = p /\ Len(stack) \in Nat \ {0} /\ Top = stack[Len(stack)]
    BY OnTop
  <1>2. Len(stack) \in 1 .. Len(stack) /\ 1 .. Len(stack) - 1 \subseteq 1 .. Len(stack)
    BY <1>1
  <1>3. /\ Top.who = Main => Len(stack) = 1
        /\ Top.who # Main => Top.pc \in {"poll", "fill", "drain"}
        /\ Top.pc \in {"poll", "fill"} =>
             Top.left <= Bsz /\ (Top.who # Main => Top.left = work.prints)
    BY <1>1, <1>2 DEF Nested
  <1>4. \A i \in 1 .. Len(stack) - 1 : stack[i].who # Main => stack[i].pc = "drain"
    BY <1>1, <1>2 DEF Nested
  <1> QED
    BY <1>1, <1>3, <1>4

LEMMA Same ==
  ASSUME Types, [Next]_vars
  PROVE  work'.prints = work.prints /\ work'.keys = work.keys /\ work'.writes = work.writes
  <1>1. work \in Workload
    BY DEF Types
  <1>2. work' = work \/ (work.calls > 0 /\ work' = [work EXCEPT !.calls = @ - 1])
    BY DEF Next, Write, Read, Poll, Fill, DrainMain, DrainKey, ReadPoll, Take, KbIrq, SerialIrq, ReadIir,
           IsrReceive, IsrTransmit, Load, ShiftOut, Arrive, vars
  <1> QED
    BY <1>1, <1>2, CallMade

LEMMA NestedStep ==
  ASSUME Types, Frames, Honest(work), Nested, [Next]_vars
  PROVE  Nested'
  <1>0. stack \in Seq(Frame) /\ work'.prints = work.prints
    BY Same DEF Types
  <1>1. ASSUME NEW n \in Nat, NEW p \in {"poll", "rpoll"}, stack = <<>>, Call(Main, p, n),
               p = "poll" => n \in work.writes
        PROVE  Nested'
    <2>0. Main \in Nat /\ p \in Pcs
      BY DEF Main, Pcs
    <2>1. /\ Len(stack) \in Nat /\ Len(stack') = Len(stack) + 1
          /\ Top' = [who |-> Main, pc |-> p, left |-> n]
      BY <1>0, <1>1, <2>0, Called
    <2>2. Len(stack') = 1 /\ Top' = stack'[1]
      BY <1>1, <2>1 DEF Top
    <2>3. p = "poll" => n <= Bsz
      BY <1>1 DEF Honest
    <2>4. stack'[1].who = Main /\ stack'[1].pc = p /\ stack'[1].left = n
      BY <2>1, <2>2
    <2>5. ~Deaf'
      BY <2>2, <2>4 DEF Deaf
    <2> QED
      BY <2>2, <2>3, <2>4, <2>5 DEF Nested
  <1>2. ASSUME NEW p \in Pcs, NEW n \in Nat, stack # <<>>, Goto(p, n),
               Top.who # Main => p \in {"poll", "fill", "drain"},
               p \in {"poll", "fill"} => n <= Bsz /\ (Top.who # Main => n = work.prints),
               Deaf' => ser' = "off" /\ ~irqOn' /\ keys'.pressed > 0
        PROVE  Nested'
    <2>1. /\ Len(stack) \in Nat \ {0} /\ Len(stack') = Len(stack)
          /\ \A i \in 1 .. Len(stack) - 1 : stack'[i] = stack[i]
          /\ Top' = [who |-> Top.who, pc |-> p, left |-> n]
      BY <1>0, <1>2, Moved
    <2>2. \A i \in 1 .. Len(stack') :
       /\ stack'[i].who = Main => i = 1
       /\ stack'[i].who # Main => stack'[i].pc \in {"poll", "fill", "drain"}
       /\ stack'[i].who # Main /\ i < Len(stack') => stack'[i].pc = "drain"
       /\ stack'[i].pc \in {"poll", "fill"} =>
            stack'[i].left <= Bsz /\ (stack'[i].who # Main => stack'[i].left = work.prints)
      <3> SUFFICES ASSUME NEW i \in 1 .. Len(stack')
                   PROVE /\ stack'[i].who = Main => i = 1
                         /\ stack'[i].who # Main => stack'[i].pc \in {"poll", "fill", "drain"}
                         /\ stack'[i].who # Main /\ i < Len(stack') => stack'[i].pc = "drain"
                         /\ stack'[i].pc \in {"poll", "fill"} =>
                              stack'[i].left <= Bsz /\ (stack'[i].who # Main => stack'[i].left = work.prints)
        OBVIOUS
      <3>1. CASE i < Len(stack)
        BY <2>1, <3>1 DEF Nested
      <3>2. CASE i = Len(stack)
        <4>1. stack'[i].who = Top.who /\ stack'[i].pc = p /\ stack'[i].left = n
          BY <2>1, <3>2 DEF Top
        <4>2. Top.who = Main => i = 1
          BY <2>1, <3>2 DEF Nested, Top
        <4> QED
          BY <1>2, <2>1, <3>2, <4>1, <4>2
      <3> QED
        BY <2>1, <3>1, <3>2
    <2> QED
      BY <1>0, <1>2, <2>2 DEF Nested
  <1>3. ASSUME stack # <<>>, Return PROVE Nested'
    <2>1. /\ Len(stack) \in Nat \ {0} /\ Len(stack') = Len(stack) - 1
          /\ \A i \in 1 .. Len(stack) - 1 : stack'[i] = stack[i]
          /\ stack' # <<>> => Len(stack) > 1 /\ Top' = stack[Len(stack) - 1]
      BY <1>0, <1>3, Returned
    <2>2. ~Deaf'
      BY <2>1 DEF Deaf, Nested
    <2> QED
      BY <1>0, <2>1, <2>2 DEF Nested
  <1>4. CASE \E n \in work.writes : Write(n)
    BY <1>1, <1>4 DEF Write, Types, Workload
  <1>5. CASE \E n \in work.reads : Read(n)
    BY <1>1, <1>5 DEF Read, Types, Workload
  <1>6. CASE Poll
    <2>1. stack # <<>> /\ Top.left \in Nat /\ Top.pc = "poll" /\ Goto("fill", Top.left)
      BY <1>6, OnTop DEF Poll, Pcs
    <2>2. Top.left <= Bsz /\ (Top.who # Main => Top.left = work.prints)
      BY <1>6, OnTopNested DEF Poll, Pcs
    <2>3. Deaf' => Deaf
      BY <1>0, <2>1, Moved DEF Deaf, Pcs
    <2> QED
      BY <1>2, <1>6, <2>1, <2>2, <2>3 DEF Poll, Nested, Pcs
  <1>7. CASE Fill
    <2>1. stack # <<>> /\ Top.left \in Nat /\ Least(Bsz, Top.left) = Top.left
      BY <1>7, OnTop, OnTopNested, Round DEF Fill, Pcs
    <2>2. Goto("drain", 0)
      BY <1>7, <2>1 DEF Fill
    <2>3. ~Deaf'
      BY <1>0, <2>1, <2>2, Moved DEF Deaf, Pcs
    <2> QED
      BY <1>2, <2>1, <2>2, <2>3 DEF Pcs
  <1>8. CASE DrainMain \/ DrainKey
    BY <1>3, <1>8, OnTop DEF DrainMain, DrainKey, Drained, Pcs
  <1>9. CASE ReadPoll
    <2>1. stack # <<>> /\ Top.left \in Nat /\ Top.pc = "rpoll" /\ Goto("take", Top.left)
      BY <1>9, OnTop DEF ReadPoll, Pcs
    <2>2. Top.who = Main
      BY <1>9, <2>1, OnTopNested DEF ReadPoll, Pcs
    <2>3. ~Deaf'
      BY <1>0, <2>1, <2>2, Moved DEF Deaf, Pcs
    <2> QED
      BY <1>2, <2>1, <2>2, <2>3 DEF Pcs
  <1>10. CASE Take
    <2> DEFINE bs == Least(Top.left, Abs(ibufp1 - ibufp2))
    <2>1. stack # <<>> /\ Top.left \in Nat /\ Top.pc = "take"
      BY <1>10, OnTop DEF Take, Pcs
    <2>2. Top.who = Main
      BY <1>10, <2>1, OnTopNested DEF Take, Pcs
    <2>3. bs \in Nat /\ Top.left - bs \in Nat
      BY <2>1 DEF Least, Abs, Types, TypeOK
    <2>4. Return \/ Goto("rpoll", Top.left - bs)
      BY <1>10 DEF Take
    <2> HIDE DEF bs
    <2>5. ASSUME Goto("rpoll", Top.left - bs) PROVE ~Deaf'
      BY <1>0, <2>1, <2>2, <2>3, <2>5, Moved DEF Deaf, Pcs
    <2> QED
      BY <1>2, <1>3, <2>1, <2>2, <2>3, <2>4, <2>5 DEF Pcs
  <1>11. CASE KbIrq
    <2>1. work.prints \in Nat \ {0} /\ work.prints <= Bsz /\ keys.pressed + 1 \in Nat \ {Main}
      BY DEF Types, Workload, Honest, Main
    <2>2. Call(keys.pressed + 1, "poll", work.prints) /\ ~Deaf /\ ser' = "off" /\ ~irqOn'
      BY <1>11 DEF KbIrq, Nested
    <2>3. keys'.pressed > 0
      BY <1>11, <2>1, KeyDown DEF KbIrq, Types, Main
    <2>4. /\ Len(stack) \in Nat /\ Len(stack') = Len(stack) + 1
          /\ \A i \in 1 .. Len(stack) : stack'[i] = stack[i]
          /\ Top' = [who |-> keys.pressed + 1, pc |-> "poll", left |-> work.prints]
      BY <1>0, <2>1, <2>2, Called DEF Pcs
    <2>5. \A i \in 1 .. Len(stack) : stack[i].who # Main => stack[i].pc = "drain"
      BY <1>0, <2>2, EmptySeq DEF Deaf, Top, Nested
    <2>6. /\ stack'[Len(stack')].who # Main /\ stack'[Len(stack')].pc = "poll"
          /\ stack'[Len(stack')].left = work.prints
      BY <2>1, <2>4 DEF Top
    <2> QED
      BY <1>0, <2>1, <2>2, <2>3, <2>4, <2>5, <2>6 DEF Nested
  <1>12. CASE SerialIrq \/ ReadIir \/ IsrReceive \/ IsrTransmit \/ Load \/ ShiftOut \/ Arrive \/ UNCHANGED vars
    <2>1. UNCHANGED <<stack, keys>>
      BY <1>12 DEF SerialIrq, ReadIir, IsrReceive, IsrTransmit, Load, ShiftOut, Arrive, vars
    <2>2. Deaf' <=> Deaf
      BY <2>1 DEF Deaf, Top
    <2>3. Deaf => ser' = "off" /\ ~irqOn'
      BY <1>12 DEF SerialIrq, ReadIir, IsrReceive, IsrTransmit, Load, ShiftOut, Arrive, vars, Nested
    <2> QED
      BY <1>0, <2>1, <2>2, <2>3 DEF Nested
  <1> QED
    BY <1>4, <1>5, <1>6, <1>7, <1>8, <1>9, <1>10, <1>11, <1>12 DEF Next

-----------------------------------------------------------------------------
(* The transmitter.                                                         *)
LEMMA InRing ==
  ASSUME TypeOK
  PROVE  /\ Count \in 0 .. OBUF_SZ - 1
         /\ Count = 0 <=> obufp1 = obufp2
         /\ At(1) = obufp1
         /\ \A k \in 1 .. OBUF_SZ : At(k) \in 0 .. OBUF_SZ - 1
         /\ \A j, k \in 1 .. OBUF_SZ : At(j) = At(k) => j = k
  <1>0. OBUF_SZ \in Nat \ {0} /\ obufp1 \in 0 .. OBUF_SZ - 1 /\ obufp2 \in 0 .. OBUF_SZ - 1
    BY Sizes DEF TypeOK
  <1>1. Count = IF obufp1 <= obufp2 THEN obufp2 - obufp1 ELSE obufp2 - obufp1 + OBUF_SZ
    BY <1>0, Between DEF Count
  <1>2. At(1) = obufp1
    BY <1>0 DEF At
  <1>3. /\ \A k \in 1 .. OBUF_SZ : At(k) \in 0 .. OBUF_SZ - 1
        /\ \A j, k \in 1 .. OBUF_SZ : At(j) = At(k) => j = k
    BY <1>0, Apart DEF At
  <1> QED
    BY <1>0, <1>1, <1>2, <1>3

(* obuf when serial_write has put ad more in and taken the first out.       *)
LEMMA FillRing ==
  ASSUME Types, Frames, Fill, NEW ad, ad = Least(Bsz, Top.left)
  PROVE  /\ ad \in 1 .. Bsz /\ Count \in 0 .. OBUF_SZ - 1 /\ Count' \in 0 .. OBUF_SZ - 1
         /\ submitted' = submitted + ad /\ thr' = obuf'[At(1)]
         /\ Count' <= Count + ad - 1
         /\ Count + ad <= OBUF_SZ => Count' = Count + ad - 1
         /\ \A k \in 1 .. OBUF_SZ - 1 : At(k)' = At(k + 1)
         /\ \A m \in Count + 1 .. Count + ad : m <= OBUF_SZ => obuf'[At(m)] = submitted + (m - Count)
         /\ \A m \in 1 .. Count : obuf[At(m)] # None => obuf'[At(m)] # None
         /\ Count + ad <= OBUF_SZ => \A m \in 1 .. Count : obuf'[At(m)] = obuf[At(m)]
  <1>0. /\ ad \in 1 .. Bsz /\ ad \in 1 .. OBUF_SZ /\ OBUF_SZ \in Nat \ {0} /\ submitted \in Nat /\ TypeOK
        /\ obufp1 \in 0 .. OBUF_SZ - 1 /\ obufp2 \in 0 .. OBUF_SZ - 1
    <2>1. ad \in 1 .. Bsz
      BY Round DEF Fill
    <2> QED
      BY <2>1, Sizes, SMTT(30) DEF Types, TypeOK
  <1>1. /\ obuf' = Filled(ad) /\ submitted' = submitted + ad /\ thr' = Filled(ad)[obufp1]
        /\ obufp1' = (obufp1 + 1) % OBUF_SZ /\ obufp2' = (obufp2 + ad) % OBUF_SZ
    BY DEF Fill
  <1>2. /\ Count' \in 0 .. OBUF_SZ - 1
        /\ Count' <= Count + ad - 1
        /\ Count + ad <= OBUF_SZ => Count' = Count + ad - 1
    <2>1. Count' = (((obufp2 + ad) % OBUF_SZ) - ((obufp1 + 1) % OBUF_SZ)) % OBUF_SZ
      BY <1>1 DEF Count
    <2> QED
      BY <1>0, <2>1, Grown DEF Count
  <1>3. \A k \in 1 .. OBUF_SZ - 1 : At(k)' = At(k + 1)
    <2> SUFFICES ASSUME NEW k \in 1 .. OBUF_SZ - 1 PROVE At(k)' = At(k + 1)
      OBVIOUS
    <2>1. (((obufp1 + 1) % OBUF_SZ) + k - 1) % OBUF_SZ = (obufp1 + k) % OBUF_SZ
      <3>1. k \in 1 .. OBUF_SZ
        BY <1>0
      <3> QED
        BY <1>0, <3>1, Advanced, Zenon
    <2>2. obufp1 + (k + 1) - 1 = obufp1 + k
      BY <1>0
    <2> QED
      BY <1>1, <2>1, <2>2 DEF At
  <1>4. \A j \in 1 .. OBUF_SZ - Count : At(Count + j) = (obufp2 + j - 1) % OBUF_SZ
    <2> SUFFICES ASSUME NEW j \in 1 .. OBUF_SZ - Count PROVE At(Count + j) = (obufp2 + j - 1) % OBUF_SZ
      OBVIOUS
    <2>1. j \in 1 .. OBUF_SZ /\ Count + j <= OBUF_SZ
      BY <1>0, InRing
    <2> QED
      BY <1>0, <2>1, FromBoth DEF At, Count
  <1>5. /\ \A k \in 1 .. ad : obuf'[(obufp2 + k - 1) % OBUF_SZ] = submitted + k
        /\ \A i \in 0 .. OBUF_SZ - 1 :
              (\A k \in 1 .. ad : (obufp2 + k - 1) % OBUF_SZ # i) => obuf'[i] = obuf[i]
        /\ \A i \in 0 .. OBUF_SZ - 1 : obuf[i] # None => obuf'[i] # None
    BY <1>0, <1>1, PutIn
  <1>6. \A m \in Count + 1 .. Count + ad : m <= OBUF_SZ => obuf'[At(m)] = submitted + (m - Count)
    <2> SUFFICES ASSUME NEW m \in Count + 1 .. Count + ad, m <= OBUF_SZ
                 PROVE  obuf'[At(m)] = submitted + (m - Count)
      OBVIOUS
    <2> DEFINE j == m - Count
    <2>1. j \in 1 .. OBUF_SZ - Count /\ j \in 1 .. ad /\ m = Count + j
      BY <1>0, InRing
    <2> HIDE DEF j
    <2>2. At(m) = (obufp2 + j - 1) % OBUF_SZ
      BY <1>4, <2>1
    <2> QED
      BY <1>5, <2>1, <2>2 DEF j
  <1>7. \A m \in 1 .. Count : obuf[At(m)] # None => obuf'[At(m)] # None
    BY <1>0, <1>5, InRing
  <1>8. ASSUME Count + ad <= OBUF_SZ, NEW m \in 1 .. Count PROVE obuf'[At(m)] = obuf[At(m)]
    <2>1. At(m) \in 0 .. OBUF_SZ - 1 /\ m \in 1 .. OBUF_SZ
      BY <1>0, InRing
    <2>2. ASSUME NEW k \in 1 .. ad PROVE (obufp2 + k - 1) % OBUF_SZ # At(m)
      <3>1. Count + k \in 1 .. OBUF_SZ /\ Count + k # m /\ k \in 1 .. OBUF_SZ - Count
        BY <1>0, <1>8, InRing
      <3>2. At(Count + k) # At(m)
        BY <1>0, <2>1, <3>1, InRing
      <3> QED
        BY <1>4, <3>1, <3>2
    <2> QED
      BY <1>5, <2>1, <2>2
  <1> QED
    BY <1>0, <1>1, <1>2, <1>3, <1>6, <1>7, <1>8, InRing

(* obuf when serial_ob has taken the first out.                             *)
LEMMA SendRing ==
  ASSUME Types, SendNext, UNCHANGED obufp2
  PROVE  /\ Count \in 1 .. OBUF_SZ - 1 /\ Count' = Count - 1 /\ thr' = obuf[At(1)]
         /\ \A k \in 1 .. OBUF_SZ - 1 : At(k)' = At(k + 1)
  <1>0. /\ OBUF_SZ \in Nat \ {0} /\ TypeOK /\ obufp1 # obufp2 /\ thr' = obuf[obufp1]
        /\ obufp1 \in 0 .. OBUF_SZ - 1 /\ obufp2 \in 0 .. OBUF_SZ - 1
        /\ obufp1' = (obufp1 + 1) % OBUF_SZ /\ obufp2' = obufp2
    BY Sizes DEF Types, TypeOK, SendNext
  <1>1. Count' = Count - 1
    <2>1. 1 \in 1 .. OBUF_SZ
      BY <1>0
    <2>2. (obufp2 - ((obufp1 + 1) % OBUF_SZ)) % OBUF_SZ = ((obufp2 - obufp1) % OBUF_SZ) - 1
      BY <1>0, <2>1, Advanced
    <2> QED
      BY <1>0, <2>2 DEF Count
  <1>2. \A k \in 1 .. OBUF_SZ - 1 : At(k)' = At(k + 1)
    <2> SUFFICES ASSUME NEW k \in 1 .. OBUF_SZ - 1 PROVE At(k)' = At(k + 1)
      OBVIOUS
    <2>1. (((obufp1 + 1) % OBUF_SZ) + k - 1) % OBUF_SZ = (obufp1 + k) % OBUF_SZ
      <3>1. k \in 1 .. OBUF_SZ
        BY <1>0
      <3> QED
        BY <1>0, <3>1, Advanced, Zenon
    <2>2. obufp1 + (k + 1) - 1 = obufp1 + k
      BY <1>0
    <2> QED
      BY <1>0, <2>1, <2>2 DEF At
  <1> QED
    BY <1>0, <1>1, <1>2, InRing

LEMMA SendingStep ==
  ASSUME Types, Frames, Sending, [Next]_vars
  PROVE  Sending'
  <1>0. TypeOK /\ Count \in 0 .. OBUF_SZ - 1 /\ OBUF_SZ \in Nat \ {0}
    BY InRing, Sizes DEF Types
  <1>1. ASSUME UNCHANGED <<obuf, obufp1, obufp2, transmit, thr>>,
               (thri \/ ser = "tx") <=> (thri' \/ ser' = "tx")
        PROVE  Sending'
    BY <1>1 DEF Sending, NoLostWakeup, Count, At
  <1>2. CASE Fill
    <2> DEFINE ad == Least(Bsz, Top.left)
    <2>1. /\ ad \in 1 .. Bsz /\ Count' \in 0 .. OBUF_SZ - 1 /\ thr' = obuf'[At(1)] /\ Count' <= Count + ad - 1
          /\ \A k \in 1 .. OBUF_SZ - 1 : At(k)' = At(k + 1)
          /\ \A m \in Count + 1 .. Count + ad : m <= OBUF_SZ => obuf'[At(m)] = submitted + (m - Count)
          /\ \A m \in 1 .. Count : obuf[At(m)] # None => obuf'[At(m)] # None
      BY <1>2, FillRing
    <2>2. submitted \in Nat /\ ser' # "tx" /\ ~thri' /\ transmit'
      BY <1>2, OnTop DEF Fill, Types, Pcs
    <2> HIDE DEF ad
    <2>3. \A m \in 1 .. Count + ad : m <= OBUF_SZ => obuf'[At(m)] # None
      <3> SUFFICES ASSUME NEW m \in 1 .. Count + ad, m <= OBUF_SZ PROVE obuf'[At(m)] # None
        OBVIOUS
      <3>1. CASE m \in 1 .. Count
        BY <2>1, <3>1 DEF Sending
      <3>2. CASE m \in Count + 1 .. Count + ad
        <4>1. obuf'[At(m)] = submitted + (m - Count)
          BY <2>1, <3>2
        <4> QED
          BY <1>0, <2>2, <3>2, <4>1 DEF None
      <3> QED
        BY <1>0, <2>1, <3>1, <3>2
    <2>4. thr' # None
      BY <1>0, <2>1, <2>3, Sizes
    <2>5. \A k \in 1 .. Count' : obuf'[At(k)'] # None
      <3> SUFFICES ASSUME NEW k \in 1 .. Count' PROVE obuf'[At(k)'] # None
        OBVIOUS
      <3>1. k \in 1 .. OBUF_SZ - 1 /\ k + 1 \in 1 .. Count + ad /\ k + 1 <= OBUF_SZ
        BY <1>0, <2>1, Sizes
      <3> QED
        BY <2>1, <2>3, <3>1
    <2> QED
      BY <2>2, <2>4, <2>5 DEF Sending, NoLostWakeup
  <1>3. CASE IsrTransmit
    <2>1. ser' # "tx" /\ thr = None /\ UNCHANGED <<obuf, obufp2>>
      BY <1>3 DEF IsrTransmit, Sending
    <2>2. CASE SendNext
      <3>1. /\ Count \in 1 .. OBUF_SZ - 1 /\ Count' = Count - 1 /\ thr' = obuf[At(1)]
            /\ \A k \in 1 .. OBUF_SZ - 1 : At(k)' = At(k + 1)
        BY <2>1, <2>2, SendRing
      <3>2. thr' # None
        BY <3>1 DEF Sending
      <3>3. \A k \in 1 .. Count' : obuf'[At(k)'] # None
        <4> SUFFICES ASSUME NEW k \in 1 .. Count' PROVE obuf'[At(k)'] # None
          OBVIOUS
        <4>1. k \in 1 .. OBUF_SZ - 1 /\ k + 1 \in 1 .. Count
          BY <1>0, <3>1
        <4> QED
          BY <2>1, <3>1, <4>1 DEF Sending
      <3> QED
        BY <2>1, <2>2, <3>2, <3>3 DEF Sending, NoLostWakeup, SendNext
    <2>3. CASE SendDone \/ SendNothing
      BY <2>1, <2>3 DEF SendDone, SendNothing, Sending, NoLostWakeup, Count, At
    <2> QED
      BY <1>3, <2>2, <2>3 DEF IsrTransmit
  <1>4. CASE Load
    BY <1>4 DEF Load, tx, Sending, NoLostWakeup, Count, At
  <1>5. CASE ReadIir \/ SerialIrq \/ IsrReceive
    BY <1>1, <1>5 DEF ReadIir, SerialIrq, IsrReceive, tx
  <1>6. CASE \/ \E n \in work.writes : Write(n)
             \/ \E n \in work.reads : Read(n)
             \/ Poll \/ DrainMain \/ DrainKey \/ ReadPoll \/ Take \/ KbIrq \/ ShiftOut \/ Arrive \/ UNCHANGED vars
    BY <1>1, <1>6
    DEF Write, Read, Poll, DrainMain, DrainKey, ReadPoll, Take, KbIrq, ShiftOut, Arrive, vars, tx
  <1> QED
    BY <1>2, <1>3, <1>4, <1>5, <1>6 DEF Next

-----------------------------------------------------------------------------
(* The receiver.                                                            *)
LEMMA ReceivingStep ==
  ASSUME Types, Frames, Receiving, [Next]_vars
  PROVE  Receiving'
  <1>0. /\ IBUF_SZ \in Nat \ {0} /\ stored \in Seq(Nat) /\ got \in Seq(Nat) /\ Len(stored) \in Nat /\ Len(got) \in Nat
        /\ ibuf \in [0 .. IBUF_SZ - 1 -> 0 .. arrived] /\ arrived \in Nat /\ rbr \in Nat
    BY Sizes DEF Types, TypeOK
  <1>1. CASE IsrReceive
    <2>1. /\ stored' = Append(stored, rbr) /\ got' = got /\ ibufp1' = ibufp1
          /\ ibuf' = [ibuf EXCEPT ![ibufp2] = rbr] /\ ibufp2' = (ibufp2 + 1) % IBUF_SZ
      BY <1>1 DEF IsrReceive
    <2>2. SUFFICES ASSUME Len(stored') < IBUF_SZ
                   PROVE  /\ ibufp2' = Len(stored') /\ ibufp1' = Len(got') /\ Len(got') <= Len(stored')
                          /\ \A i \in 1 .. Len(stored') : ibuf'[i - 1] = stored'[i]
                          /\ \A i \in 1 .. Len(got') : got'[i] = stored'[i]
      BY DEF Receiving
    <2>3. /\ Len(stored') = Len(stored) + 1 /\ stored'[Len(stored) + 1] = rbr
          /\ \A i \in 1 .. Len(stored) : stored'[i] = stored[i]
      BY <1>0, <2>1
    <2>4. /\ ibufp2 = Len(stored) /\ ibufp1 = Len(got) /\ Len(got) <= Len(stored)
          /\ \A i \in 1 .. Len(stored) : ibuf[i - 1] = stored[i]
          /\ \A i \in 1 .. Len(got) : got[i] = stored[i]
      BY <1>0, <2>2, <2>3 DEF Receiving
    <2>5. ibufp2' = Len(stored')
      <3>1. ibufp2 + 1 \in 0 .. IBUF_SZ - 1 /\ ibufp2 + 1 = Len(stored')
        BY <1>0, <2>2, <2>3, <2>4
      <3>2. (ibufp2 + 1) % IBUF_SZ = ibufp2 + 1
        BY <1>0, <3>1, Small
      <3> QED
        BY <2>1, <3>1, <3>2
    <2>6. \A i \in 1 .. Len(stored') : ibuf'[i - 1] = stored'[i]
      BY <1>0, <2>1, <2>2, <2>3, <2>4
    <2> QED
      BY <1>0, <2>1, <2>3, <2>4, <2>5, <2>6
  <1>2. CASE Take
    <2> DEFINE bs == Least(Top.left, Abs(ibufp1 - ibufp2))
               new == [k \in 1 .. bs |-> ibuf[(ibufp1 + k - 1) % IBUF_SZ]]
    <2>1. /\ got' = got \o new /\ ibufp1' = (ibufp1 + bs) % IBUF_SZ /\ UNCHANGED <<ibuf, ibufp2, stored>>
      BY <1>2 DEF Take
    <2>2. SUFFICES ASSUME Len(stored) < IBUF_SZ
                   PROVE  /\ ibufp2' = Len(stored) /\ ibufp1' = Len(got') /\ Len(got') <= Len(stored)
                          /\ \A i \in 1 .. Len(stored) : ibuf'[i - 1] = stored[i]
                          /\ \A i \in 1 .. Len(got') : got'[i] = stored[i]
      BY <2>1 DEF Receiving
    <2>3. /\ ibufp2 = Len(stored) /\ ibufp1 = Len(got) /\ Len(got) <= Len(stored)
          /\ \A i \in 1 .. Len(stored) : ibuf[i - 1] = stored[i]
          /\ \A i \in 1 .. Len(got) : got[i] = stored[i]
      BY <2>2 DEF Receiving
    <2>4. Top.left \in Nat
      BY <1>2, OnTop DEF Take, Pcs
    <2>5. bs \in 0 .. Len(stored) - Len(got)
      BY <1>0, <2>3, <2>4 DEF Least, Abs
    <2> HIDE DEF bs
    <2>6. \A k \in 1 .. bs : ibuf[(ibufp1 + k - 1) % IBUF_SZ] = stored[Len(got) + k]
      <3> SUFFICES ASSUME NEW k \in 1 .. bs PROVE ibuf[(ibufp1 + k - 1) % IBUF_SZ] = stored[Len(got) + k]
        OBVIOUS
      <3>0. Len(got) + k \in 1 .. Len(stored) /\ ibufp1 + k - 1 \in 0 .. IBUF_SZ - 1
        BY <1>0, <2>2, <2>3, <2>5
      <3>1. Len(got) + k \in 1 .. Len(stored) /\ (ibufp1 + k - 1) % IBUF_SZ = (Len(got) + k) - 1
        <4>1. (ibufp1 + k - 1) % IBUF_SZ = ibufp1 + k - 1
          BY <1>0, <3>0, Small
        <4> QED
          BY <1>0, <2>3, <3>0, <4>1
      <3> QED
        BY <2>3, <3>1
    <2>7. new \in Seq(Nat) /\ Len(new) = bs /\ \A k \in 1 .. bs : new[k] = stored[Len(got) + k]
      <3>1. \A k \in 1 .. bs : stored[Len(got) + k] \in Nat
        BY <1>0, <2>5
      <3>2. bs \in Nat
        BY <1>0, <2>5
      <3>3. \A k \in 1 .. bs : ibuf[(ibufp1 + k - 1) % IBUF_SZ] \in Nat
        BY <2>6, <3>1
      <3>4. \A k \in 1 .. bs : new[k] = stored[Len(got) + k]
        BY <2>6
      <3> QED
        BY <3>2, <3>3, <3>4
    <2> HIDE DEF new
    <2>8. /\ Len(got') = Len(got) + bs
          /\ \A i \in 1 .. Len(got) : got'[i] = got[i]
          /\ \A i \in Len(got) + 1 .. Len(got) + bs : got'[i] = new[i - Len(got)]
      <3>1. /\ Len(got \o new) = Len(got) + Len(new)
            /\ \A i \in 1 .. Len(got) + Len(new) : (got \o new)[i] =
                   IF i <= Len(got) THEN got[i] ELSE new[i - Len(got)]
        BY <1>0, <2>7, ConcatProperties, Zenon
      <3> QED
        BY <1>0, <2>1, <2>5, <2>7, <3>1, SMTT(30)
    <2>9. \A i \in 1 .. Len(got') : got'[i] = stored[i]
      <3> SUFFICES ASSUME NEW i \in 1 .. Len(got') PROVE got'[i] = stored[i]
        OBVIOUS
      <3>1. CASE i \in 1 .. Len(got)
        BY <2>3, <2>8, <3>1
      <3>2. CASE i \in Len(got) + 1 .. Len(got) + bs
        <4>1. i - Len(got) \in 1 .. bs /\ Len(got) + (i - Len(got)) = i
          BY <1>0, <2>5, <3>2
        <4> QED
          BY <2>7, <2>8, <3>2, <4>1
      <3> QED
        BY <1>0, <2>5, <2>8, <3>1, <3>2
    <2>10. ibufp1' = Len(got') /\ Len(got') <= Len(stored)
      <3>1. ibufp1 + bs \in 0 .. IBUF_SZ - 1 /\ Len(got') = ibufp1 + bs /\ Len(got') <= Len(stored)
        BY <1>0, <2>2, <2>3, <2>5, <2>8
      <3>2. (ibufp1 + bs) % IBUF_SZ = ibufp1 + bs
        BY <1>0, <3>1, Small
      <3> QED
        BY <2>1, <3>1, <3>2
    <2> QED
      BY <2>1, <2>3, <2>9, <2>10
  <1>3. CASE UNCHANGED <<ibuf, ibufp1, ibufp2, stored, got>>
    BY <1>3 DEF Receiving
  <1> QED
    BY <1>1, <1>2, <1>3
    DEF Next, Write, Read, Poll, Fill, DrainMain, DrainKey, ReadPoll, KbIrq, SerialIrq, ReadIir,
        IsrTransmit, Load, ShiftOut, Arrive, vars, rx, line

-----------------------------------------------------------------------------
(* The order of the characters.                                             *)
LEMMA QuietedStep ==
  ASSUME Types, Frames, Honest(work), Nested, Quieted, [Next]_vars
  PROVE  Quieted'
  <1>0. stack \in Seq(Frame)
    BY DEF Types
  <1>1. CASE \/ \E n \in work.writes : Write(n)
             \/ \E n \in work.reads : Read(n)
             \/ DrainMain \/ DrainKey
    BY <1>1 DEF Write, Read, DrainMain, DrainKey, Drained, Quieted, tx
  <1>2. ASSUME stack # <<>>, Top.pc # "drain", NEW p \in Pcs, NEW n \in Nat, Goto(p, n), UNCHANGED transmit
        PROVE  Quieted'
    <2>1. stack' # <<>> /\ Top' = [who |-> Top.who, pc |-> p, left |-> n]
      BY <1>0, <1>2, Moved
    <2>2. Top'.who = Top.who
      BY <2>1
    <2> QED
      BY <1>2, <2>1, <2>2 DEF Quieted
  <1>3. CASE Poll \/ ReadPoll
    BY <1>2, <1>3, OnTop DEF Poll, ReadPoll, Pcs, tx
  <1>4. CASE Fill
    <2>1. stack # <<>> /\ Top.left \in Nat /\ Least(Bsz, Top.left) = Top.left
      BY <1>4, OnTop, OnTopNested, Round DEF Fill, Pcs
    <2>2. Goto("drain", 0)
      BY <1>4, <2>1 DEF Fill
    <2>3. stack' # <<>> /\ Top' = [who |-> Top.who, pc |-> "drain", left |-> 0]
      BY <1>0, <2>1, <2>2, Moved DEF Pcs
    <2>4. Top'.pc = "drain"
      BY <2>3
    <2> QED
      BY <2>3, <2>4 DEF Quieted
  <1>5. CASE Take
    <2>1. stack # <<>> /\ Top.pc = "take" /\ Top.who = Main
      BY <1>5, OnTop, OnTopNested DEF Take, Pcs
    <2>2. ~transmit /\ transmit' = transmit
      BY <1>5, <2>1 DEF Quieted, Take, tx
    <2> QED
      BY <2>2 DEF Quieted
  <1>6. CASE KbIrq
    <2>1. work.prints \in Nat /\ keys.pressed + 1 \in Nat \ {Main}
      BY DEF Types, Workload, Main
    <2>2. Call(keys.pressed + 1, "poll", work.prints)
      BY <1>6 DEF KbIrq
    <2>3. stack' # <<>> /\ Top' = [who |-> keys.pressed + 1, pc |-> "poll", left |-> work.prints]
      BY <1>0, <2>1, <2>2, Called DEF Pcs
    <2>4. Top'.who # Main
      BY <2>1, <2>3
    <2> QED
      BY <2>3, <2>4 DEF Quieted
  <1>7. CASE SerialIrq \/ ReadIir \/ IsrReceive \/ IsrTransmit \/ Load \/ ShiftOut \/ Arrive \/ UNCHANGED vars
    <2>1. stack' = stack /\ (transmit' => transmit)
      BY <1>7
      DEF SerialIrq, ReadIir, IsrReceive, IsrTransmit, SendNext, SendDone, SendNothing, Load, ShiftOut,
          Arrive, vars, tx
    <2> QED
      BY <2>1 DEF Quieted, Top
  <1> QED
    BY <1>1, <1>3, <1>4, <1>5, <1>6, <1>7 DEF Next

(* Who has printed is known when serial_write gives the first character to   *)
(* the UART.                                                                *)
LEMMA PrintedStep ==
  ASSUME Types, Frames, Honest(work), Nested, [Next]_vars
  PROVE  /\ Printed \in 0 .. keys.pressed
         /\ ~Fill => Printed' = Printed
         /\ Fill => Printed' = Printed + (IF Top.who = Main THEN 0 ELSE 1)
  <1>0. stack \in Seq(Frame) /\ keys.pressed \in Nat /\ (Deaf => keys.pressed > 0)
    BY DEF Types, Nested
  <1>1. Printed \in 0 .. keys.pressed
    BY <1>0 DEF Printed
  <1>2. ASSUME UNCHANGED keys, Deaf' <=> Deaf PROVE Printed' = Printed
    BY <1>2 DEF Printed
  <1>3. ASSUME NEW p \in Pcs, NEW n \in Nat, stack # <<>>, Goto(p, n)
        PROVE  Deaf' <=> (Top.who # Main /\ p \in {"poll", "fill"})
    <2>1. stack' # <<>> /\ Top' = [who |-> Top.who, pc |-> p, left |-> n]
      BY <1>0, <1>3, Moved
    <2>2. Top'.who = Top.who /\ Top'.pc = p
      BY <2>1
    <2> QED
      BY <2>1, <2>2 DEF Deaf
  <1>4. ASSUME NEW w \in Nat, NEW p \in Pcs, NEW n \in Nat, Call(w, p, n)
        PROVE  Deaf' <=> (w # Main /\ p \in {"poll", "fill"})
    <2>1. stack' # <<>> /\ Top' = [who |-> w, pc |-> p, left |-> n]
      BY <1>0, <1>4, Called
    <2>2. Top'.who = w /\ Top'.pc = p
      BY <2>1
    <2> QED
      BY <2>1, <2>2 DEF Deaf
  <1>5. ASSUME stack # <<>>, Return PROVE ~Deaf'
    <2>1. /\ Len(stack) \in Nat \ {0}
          /\ stack' # <<>> => Len(stack) > 1 /\ Top' = stack[Len(stack) - 1]
      BY <1>0, <1>5, Returned
    <2> QED
      BY <2>1 DEF Deaf, Nested
  <1>6. ASSUME \E n \in work.writes \cup work.reads : Write(n) \/ Read(n)
        PROVE  Printed' = Printed
    <2>1. PICK n \in Nat, p \in {"poll", "rpoll"} : stack = <<>> /\ Call(Main, p, n) /\ UNCHANGED keys
      BY <1>6 DEF Write, Read, Types, Workload
    <2> QED
      BY <1>2, <1>4, <2>1 DEF Deaf, Pcs, Main
  <1>7. ASSUME Poll
        PROVE  Printed' = Printed
    <2>1. stack # <<>> /\ Top.left \in Nat /\ Top.pc = "poll" /\ Goto("fill", Top.left) /\ UNCHANGED keys
      BY <1>7, OnTop DEF Poll, Pcs
    <2> QED
      BY <1>2, <1>3, <2>1 DEF Deaf, Pcs
  <1>8. ASSUME Fill PROVE Printed' = Printed + (IF Top.who = Main THEN 0 ELSE 1)
    <2>1. stack # <<>> /\ Top.left \in Nat /\ Least(Bsz, Top.left) = Top.left /\ Top.pc = "fill"
      BY <1>8, OnTop, OnTopNested, Round DEF Fill, Pcs
    <2>2. Goto("drain", 0) /\ UNCHANGED keys
      BY <1>8, <2>1 DEF Fill
    <2>3. ~Deaf'
      BY <1>3, <2>1, <2>2 DEF Pcs
    <2>4. Deaf <=> Top.who # Main
      BY <2>1 DEF Deaf
    <2> QED
      BY <1>0, <2>2, <2>3, <2>4 DEF Printed
  <1>9. ASSUME DrainMain \/ DrainKey
        PROVE  Printed' = Printed
    <2>1. stack # <<>> /\ Top.pc = "drain" /\ Return
      BY <1>9, OnTop DEF DrainMain, DrainKey, Drained, Pcs
    <2>2. ~Deaf /\ ~Deaf'
      BY <1>5, <2>1 DEF Deaf
    <2>3. keys'.pressed = keys.pressed
      BY <1>9, KeyStored, OnTop DEF DrainMain, DrainKey, Drained, Types, Pcs
    <2> QED
      BY <2>2, <2>3 DEF Printed
  <1>10. ASSUME ReadPoll \/ Take
        PROVE  Printed' = Printed
    <2>1. stack # <<>> /\ Top.left \in Nat /\ Top.pc \in {"rpoll", "take"} /\ UNCHANGED keys
      BY <1>10, OnTop DEF ReadPoll, Take, Pcs
    <2>2. Return \/ \E p \in {"rpoll", "take"}, n \in Nat : Goto(p, n)
      <3> DEFINE bs == Least(Top.left, Abs(ibufp1 - ibufp2))
      <3>1. Top.left - bs \in Nat
        BY <2>1 DEF Least, Abs, Types, TypeOK
      <3>2. Return \/ Goto("rpoll", Top.left - bs) \/ Goto("take", Top.left)
        BY <1>10 DEF ReadPoll, Take
      <3> HIDE DEF bs
      <3> QED
        BY <2>1, <3>1, <3>2
    <2> QED
      BY <1>2, <1>3, <1>5, <2>1, <2>2 DEF Deaf, Pcs
  <1>11. ASSUME KbIrq
        PROVE  Printed' = Printed
    <2>1. work.prints \in Nat /\ keys.pressed + 1 \in Nat \ {Main}
      BY DEF Types, Workload, Main
    <2>2. Call(keys.pressed + 1, "poll", work.prints) /\ ~Deaf
      BY <1>11 DEF KbIrq, Nested
    <2>3. Deaf'
      BY <1>4, <2>1, <2>2 DEF Pcs
    <2>4. keys'.pressed = keys.pressed + 1
      BY <1>11, KeyDown DEF KbIrq, Types
    <2> QED
      BY <1>0, <2>2, <2>3, <2>4 DEF Printed
  <1>12. ASSUME SerialIrq \/ ReadIir \/ IsrReceive \/ IsrTransmit \/ Load \/ ShiftOut \/ Arrive \/ UNCHANGED vars
        PROVE  Printed' = Printed
    <2>1. UNCHANGED <<stack, keys>>
      BY <1>12 DEF SerialIrq, ReadIir, IsrReceive, IsrTransmit, Load, ShiftOut, Arrive, vars
    <2> QED
      BY <1>2, <2>1 DEF Deaf, Top
  <1> QED
    BY <1>1, <1>6, <1>7, <1>8, <1>9, <1>10, <1>11, <1>12 DEF Next

LEMMA Times ==
  ASSUME NEW a \in Nat, NEW b \in Nat, NEW q \in Nat, a + 1 <= b
  PROVE  /\ a * q \in Nat /\ b * q \in Nat
         /\ (a + 1) * q = a * q + q
         /\ a * q + q <= b * q
  OBVIOUS

LEMMA Kinds ==
  ASSUME Types
  PROVE  /\ Count \in 0 .. OBUF_SZ - 1 /\ OBUF_SZ \in Nat \ {0} /\ submitted \in Nat /\ Sent \in Int
         /\ thr \in Nat /\ shift \in Nat /\ wire \in Seq(Nat) /\ Len(wire) \in Nat
         /\ Bit(thr) \in {0, 1} /\ Bit(shift) \in {0, 1}
         /\ keys.pressed \in Nat /\ work.prints - 1 \in Nat /\ work.keys \in Nat /\ keys.pressed <= work.keys
  <1>1. Count \in 0 .. OBUF_SZ - 1 /\ OBUF_SZ \in Nat \ {0} /\ submitted \in Nat
    BY InRing, Sizes DEF Types
  <1>2. work.prints - 1 \in Nat /\ work.keys \in Nat
    BY DEF Types, Workload
  <1> QED
    BY <1>1, <1>2 DEF Sent, Bit, Types, TypeOK

(* serial_write has room for a round, puts it behind the rest and gives the  *)
(* UART the oldest character.                                               *)
LEMMA FillQueue ==
  ASSUME Types, Frames, Sending, Honest(work), Nested, Quieted, Queue, Fill
  PROVE  /\ Room' /\ Contiguous'
         /\ Sent' = Sent + 1 /\ thr' = Sent + 1
         /\ Top.who = Main => thr = None /\ Count = 0
  <1> DEFINE ad == Least(Bsz, Top.left)
             q == work.prints - 1
  <1>0. /\ Count \in 0 .. OBUF_SZ - 1 /\ OBUF_SZ \in Nat \ {0} /\ submitted \in Nat /\ Sent \in Int
        /\ keys.pressed \in Nat /\ work.prints - 1 \in Nat /\ work.keys \in Nat /\ keys.pressed <= work.keys
        /\ Bsz \in Nat \ {0} /\ OBUF_SZ = 2 * Bsz
    BY Kinds, Sizes
  <1>1. /\ Printed \in 0 .. keys.pressed
        /\ Printed' = Printed + (IF Top.who = Main THEN 0 ELSE 1)
        /\ work'.prints = work.prints
    BY PrintedStep, Same DEF Next
  <1>2. /\ stack # <<>> /\ Top.pc = "fill" /\ Top.left \in Nat /\ Top.left <= Bsz
        /\ Top.who # Main => Top.left = work.prints
    BY OnTop, OnTopNested DEF Fill, Pcs
  <1>3. ad = Top.left
    BY <1>0, <1>2 DEF Least
  <1>4. /\ ad \in 1 .. Bsz /\ submitted' = submitted + ad /\ thr' = obuf'[At(1)]
        /\ Count' \in 0 .. OBUF_SZ - 1
        /\ Count + ad <= OBUF_SZ => Count' = Count + ad - 1
        /\ \A k \in 1 .. OBUF_SZ - 1 : At(k)' = At(k + 1)
        /\ \A m \in Count + 1 .. Count + ad : m <= OBUF_SZ => obuf'[At(m)] = submitted + (m - Count)
        /\ Count + ad <= OBUF_SZ => \A m \in 1 .. Count : obuf'[At(m)] = obuf[At(m)]
    BY FillRing
  <1> HIDE DEF ad
  <1>5. Top.who = Main => thr = None /\ Count = 0
    <2>1. Top.who = Main => ~transmit
      BY <1>2 DEF Quieted
    <2> QED
      BY <2>1, InRing DEF Sending, Types
  <1>6. Top.who # Main => Count + ad <= Bsz + (Printed * q + q) /\ Printed * q + q <= Bsz /\ ad = q + 1
    <2> SUFFICES ASSUME Top.who # Main
                 PROVE Count + ad <= Bsz + (Printed * q + q) /\ Printed * q + q <= Bsz /\ ad = q + 1
      OBVIOUS
    <2>1. ad = q + 1
      BY <1>0, <1>2, <1>3
    <2>2. Count <= Bsz - 1 + Printed * q
      BY DEF Queue, Room
    <2>3. Printed + 1 <= work.keys
      BY <1>0, <1>1, <1>2 DEF Printed, Deaf
    <2>4. work.keys * q <= Bsz
      BY DEF Honest
    <2> HIDE DEF q
    <2>5. q \in Nat
      BY <1>0 DEF q
    <2>6. Printed * q \in Nat /\ work.keys * q \in Nat /\ Printed * q + q <= work.keys * q
      BY <1>0, <1>1, <2>3, <2>5, Times
    <2> QED
      BY <1>0, <2>1, <2>2, <2>4, <2>5, <2>6
  <1>7. Count + ad <= OBUF_SZ
    <2>1. CASE Top.who = Main
      BY <1>0, <1>4, <1>5, <2>1
    <2>2. CASE Top.who # Main
      <3> HIDE DEF q
      <3>1. q \in Nat
        BY <1>0 DEF q
      <3>2. Printed * q \in Nat
        BY <1>0, <1>1, <3>1
      <3> QED
        BY <1>0, <1>4, <1>6, <2>2, <3>1, <3>2
    <2> QED
      BY <2>1, <2>2
  <1>8. Count' = Count + ad - 1 /\ Sent' = Sent + 1
    BY <1>0, <1>4, <1>7 DEF Sent
  <1>9. Room'
    <2>1. CASE Top.who = Main
      <3>1. Count' <= Bsz - 1
        BY <1>0, <1>4, <1>5, <1>8, <2>1
      <3>2. Printed' * (work'.prints - 1) \in Nat
        BY <1>0, <1>1, <2>1
      <3> QED
        BY <1>0, <1>4, <3>1, <3>2 DEF Room
    <2>2. CASE Top.who # Main
      <3> HIDE DEF q
      <3>1. q \in Nat /\ Printed \in Nat
        BY <1>0, <1>1 DEF q
      <3>2. Printed' * q = Printed * q + q /\ Printed * q \in Nat
        BY <1>1, <2>2, <3>1, Times, Printed + 1 \in Nat
      <3>3. Count' <= Bsz - 1 + Printed' * q
        BY <1>0, <1>4, <1>6, <1>8, <2>2, <3>1, <3>2
      <3>4. work'.prints - 1 = q
        BY <1>1 DEF q
      <3> QED
        BY <3>3, <3>4 DEF Room
    <2> QED
      BY <2>1, <2>2
  <1>10. \A m \in 1 .. Count + ad : obuf'[At(m)] = Sent + m
    <2> SUFFICES ASSUME NEW m \in 1 .. Count + ad PROVE obuf'[At(m)] = Sent + m
      OBVIOUS
    <2>1. CASE m \in 1 .. Count
      BY <1>4, <1>7, <2>1 DEF Queue, Contiguous
    <2>2. CASE m \in Count + 1 .. Count + ad
      <3>1. m <= OBUF_SZ
        BY <1>0, <1>4, <1>7, <2>2
      <3>2. obuf'[At(m)] = submitted + (m - Count)
        BY <1>4, <2>2, <3>1
      <3> QED
        BY <1>0, <2>2, <3>2 DEF Sent
    <2> QED
      BY <1>0, <1>4, <2>1, <2>2
  <1>11. Contiguous'
    <2> SUFFICES ASSUME NEW k \in 1 .. Count' PROVE obuf'[At(k)'] = Sent' + k
      BY DEF Contiguous
    <2>1. k \in 1 .. OBUF_SZ - 1 /\ k + 1 \in 1 .. Count + ad
      BY <1>0, <1>4, <1>8
    <2>2. obuf'[At(k)'] = Sent + (k + 1)
      BY <1>4, <1>10, <2>1
    <2> QED
      BY <1>0, <1>8, <2>1, <2>2
  <1>12. thr' = Sent + 1
    <2>1. 1 \in 1 .. Count + ad
      BY <1>0, <1>4
    <2> QED
      BY <1>4, <1>10, <2>1
  <1> QED
    BY <1>5, <1>8, <1>9, <1>11, <1>12

(* serial_ob gives the UART the oldest character.                           *)
LEMMA SendQueue ==
  ASSUME Types, Sending, Queue, IsrTransmit, SendNext, Printed' = Printed
  PROVE  /\ Room' /\ Contiguous'
         /\ Sent' = Sent + 1 /\ thr' = Sent + 1 /\ thr = None
  <1>0. /\ Count \in 0 .. OBUF_SZ - 1 /\ OBUF_SZ \in Nat \ {0} /\ submitted \in Nat /\ Sent \in Int
    BY Kinds
  <1>1. thr = None /\ UNCHANGED <<obuf, obufp2, submitted, work>>
    BY DEF IsrTransmit, Sending, line
  <1>2. /\ Count \in 1 .. OBUF_SZ - 1 /\ Count' = Count - 1 /\ thr' = obuf[At(1)]
        /\ \A k \in 1 .. OBUF_SZ - 1 : At(k)' = At(k + 1)
    BY <1>1, SendRing
  <1>3. Sent' = Sent + 1
    BY <1>0, <1>1, <1>2 DEF Sent
  <1>4. thr' = Sent + 1
    BY <1>0, <1>2 DEF Queue, Contiguous
  <1>5. Contiguous'
    <2> SUFFICES ASSUME NEW k \in 1 .. Count' PROVE obuf'[At(k)'] = Sent' + k
      BY DEF Contiguous
    <2>1. k \in 1 .. OBUF_SZ - 1 /\ k + 1 \in 1 .. Count
      BY <1>0, <1>2
    <2>2. obuf'[At(k)'] = Sent + (k + 1)
      BY <1>1, <1>2, <2>1 DEF Queue, Contiguous
    <2> QED
      BY <1>0, <1>3, <2>1, <2>2
  <1>6. Room'
    <2> DEFINE most == Bsz - 1 + Printed * (work.prints - 1)
    <2>1. most \in Int
      <3>1. Printed \in Int
        BY Kinds DEF Printed
      <3> QED
        BY <3>1, Kinds, Sizes
    <2>2. Count <= most
      BY DEF Queue, Room
    <2> HIDE DEF most
    <2>3. Count' <= most
      BY <1>0, <1>2, <2>1, <2>2
    <2> QED
      BY <1>1, <2>3 DEF Room, most
  <1> QED
    BY <1>1, <1>3, <1>4, <1>5, <1>6

LEMMA QueueStep ==
  ASSUME Types, Frames, Sending, Honest(work), Nested, Quieted, Queue, [Next]_vars
  PROVE  Queue'
  <1>0. /\ Count \in 0 .. OBUF_SZ - 1 /\ OBUF_SZ \in Nat \ {0} /\ submitted \in Nat /\ Sent \in Int
        /\ thr \in Nat /\ shift \in Nat /\ wire \in Seq(Nat) /\ Len(wire) \in Nat
        /\ Bit(thr) \in {0, 1} /\ Bit(shift) \in {0, 1} /\ keys.pressed \in Nat
    BY Kinds
  <1>1. /\ Printed \in 0 .. keys.pressed
        /\ ~Fill => Printed' = Printed
        /\ Fill => Printed' = Printed + (IF Top.who = Main THEN 0 ELSE 1)
        /\ work'.prints = work.prints
    BY PrintedStep, Same
  <1>2. Ordered /\ Overwritten \in 0 .. Printed
    BY DEF Queue
  <1>3. ASSUME thr' = Sent + 1, Sent' = Sent + 1, UNCHANGED <<shift, wire>>
        PROVE  Ordered' /\ Overwritten' = Overwritten + Bit(thr)
    <2>1. Ordered'
      BY <1>0, <1>2, <1>3 DEF Ordered
    <2>2. thr' # None
      <3>1. Len(wire) >= 0 /\ Sent >= 0
        BY <1>0, <1>1, <1>2 DEF Overwritten
      <3> QED
        BY <1>0, <1>3, <3>1 DEF None
    <2>3. Bit(thr') = 1 /\ Bit(shift') = Bit(shift)
      BY <1>3, <2>2 DEF Bit
    <2> QED
      BY <1>0, <1>3, <2>1, <2>3 DEF Overwritten, Bit
  <1>4. CASE Fill
    <2>1. /\ Room' /\ Contiguous' /\ Sent' = Sent + 1 /\ thr' = Sent + 1
          /\ Top.who = Main => thr = None
      BY <1>4, FillQueue
    <2>2. Ordered' /\ Overwritten' = Overwritten + Bit(thr)
      BY <1>3, <1>4, <2>1 DEF Fill
    <2>3. Overwritten' \in 0 .. Printed'
      BY <1>0, <1>1, <1>2, <1>4, <2>1, <2>2 DEF Bit
    <2> QED
      BY <2>1, <2>2, <2>3 DEF Queue
  <1>5. CASE ~Fill /\ IsrTransmit /\ SendNext
    <2>1. /\ Room' /\ Contiguous' /\ Sent' = Sent + 1 /\ thr' = Sent + 1 /\ thr = None /\ Printed' = Printed
      BY <1>1, <1>5, SendQueue
    <2>2. Ordered' /\ Overwritten' = Overwritten + Bit(thr)
      BY <1>3, <1>5, <2>1 DEF IsrTransmit, line
    <2>3. Overwritten' \in 0 .. Printed'
      BY <1>0, <1>2, <2>1, <2>2 DEF Bit
    <2> QED
      BY <2>1, <2>2, <2>3 DEF Queue
  <1>6. ASSUME ~Fill, UNCHANGED <<obuf, obufp1, obufp2, submitted>>, Ordered', Overwritten' = Overwritten
        PROVE  Queue'
    BY <1>1, <1>6 DEF Queue, Room, Contiguous, Sent, Count, At
  <1>7. CASE ~Fill /\ Load
    <2>1. /\ thr # None /\ shift = None /\ shift' = thr /\ thr' = None
          /\ UNCHANGED <<obuf, obufp1, obufp2, submitted, wire>>
      BY <1>7 DEF Load, tx, line
    <2>2. Sent' = Sent
      BY <2>1 DEF Sent, Count
    <2>3. Ordered'
      BY <1>0, <1>2, <2>1, <2>2 DEF Ordered, None
    <2>4. Overwritten' = Overwritten
      BY <1>0, <2>1, <2>2 DEF Overwritten, Bit
    <2> QED
      BY <1>6, <1>7, <2>1, <2>3, <2>4
  <1>8. CASE ~Fill /\ ShiftOut
    <2>1. /\ shift # None /\ shift' = None /\ wire' = Append(wire, shift)
          /\ UNCHANGED <<obuf, obufp1, obufp2, submitted, thr>>
      BY <1>8 DEF ShiftOut, tx
    <2>2. Sent' = Sent
      BY <2>1 DEF Sent, Count
    <2>3. /\ Len(wire') = Len(wire) + 1 /\ wire'[Len(wire) + 1] = shift
          /\ \A i \in 1 .. Len(wire) : wire'[i] = wire[i]
      BY <1>0, <2>1
    <2>4. \A i \in 1 .. Len(wire') :
            /\ wire'[i] <= Sent'
            /\ thr' # None => wire'[i] < thr'
            /\ \A j \in 1 .. i - 1 : wire'[j] < wire'[i]
      <3> SUFFICES ASSUME NEW i \in 1 .. Len(wire')
                   PROVE  /\ wire'[i] <= Sent'
                          /\ thr' # None => wire'[i] < thr'
                          /\ \A j \in 1 .. i - 1 : wire'[j] < wire'[i]
        OBVIOUS
      <3>1. CASE i \in 1 .. Len(wire)
        BY <1>0, <1>2, <2>1, <2>2, <2>3, <3>1 DEF Ordered
      <3>2. CASE i = Len(wire) + 1
        BY <1>0, <1>2, <2>1, <2>2, <2>3, <3>2 DEF Ordered
      <3> QED
        BY <1>0, <2>3, <3>1, <3>2
    <2>5. Ordered'
      <3>1. 0 <= Sent
        BY <1>0, <1>2 DEF Ordered
      <3> QED
        BY <1>0, <1>2, <2>1, <2>2, <2>4, <3>1 DEF Ordered, None
    <2>6. Overwritten' = Overwritten
      BY <1>0, <2>1, <2>2, <2>3 DEF Overwritten, Bit
    <2> QED
      BY <1>6, <1>8, <2>1, <2>5, <2>6
  <1>9. ASSUME ~Fill, UNCHANGED <<obuf, obufp1, obufp2, submitted, thr, shift, wire>> PROVE Queue'
    <2>1. Sent' = Sent
      BY <1>9 DEF Sent, Count
    <2>2. Ordered' /\ Overwritten' = Overwritten
      BY <1>2, <1>9, <2>1 DEF Ordered, Overwritten, Bit
    <2> QED
      BY <1>6, <1>9, <2>2
  <1>10. CASE ~Fill /\ IsrTransmit /\ (SendDone \/ SendNothing)
    BY <1>9, <1>10 DEF IsrTransmit, SendDone, SendNothing, line
  <1>11. CASE /\ ~Fill
              /\ \/ \E n \in work.writes : Write(n)
                 \/ \E n \in work.reads : Read(n)
                 \/ Poll \/ DrainMain \/ DrainKey \/ ReadPoll \/ Take \/ KbIrq
                 \/ SerialIrq \/ ReadIir \/ IsrReceive \/ Arrive \/ UNCHANGED vars
    BY <1>9, <1>11
    DEF Write, Read, Poll, DrainMain, DrainKey, ReadPoll, Take, KbIrq, SerialIrq, ReadIir, IsrReceive,
        Arrive, vars, tx, line
  <1> QED
    BY <1>4, <1>5, <1>7, <1>8, <1>10, <1>11 DEF Next, IsrTransmit

LEMMA PlacedStep ==
  ASSUME Types, Frames, Sending, Honest(work), Nested, Quieted, Queue, Placed, [Next]_vars
  PROVE  Placed'
  <1>0. /\ Sent \in Int /\ thr \in Nat /\ shift \in Nat /\ wire \in Seq(Nat) /\ Len(wire) \in Nat
        /\ Bit(thr) \in {0, 1} /\ Bit(shift) \in {0, 1} /\ keys.pressed \in Nat
    BY Kinds
  <1>1. /\ Printed \in 0 .. keys.pressed /\ Overwritten \in 0 .. Printed
        /\ Fill => Printed' = Printed + (IF Top.who = Main THEN 0 ELSE 1)
    BY PrintedStep DEF Queue
  <1>2. keys'.pressed = keys.pressed \/ keys'.pressed = keys.pressed + 1
    <2>1. CASE DrainKey
      BY <2>1, KeyStored, OnTop DEF DrainKey, Drained, Types, Pcs
    <2>2. CASE KbIrq
      BY <2>2, KeyDown DEF KbIrq, Types
    <2>3. CASE UNCHANGED keys
      BY <2>3
    <2> QED
      BY <2>1, <2>2, <2>3
      DEF Next, Write, Read, Poll, Fill, DrainMain, ReadPoll, Take, SerialIrq, ReadIir, IsrReceive,
          IsrTransmit, Load, ShiftOut, Arrive, vars
  <1>3. SUFFICES ASSUME keys'.pressed = 0
                 PROVE  /\ \A i \in 1 .. Len(wire') : wire'[i] = i
                        /\ shift' # None => shift' = Len(wire') + 1
                        /\ thr' # None => thr' = Len(wire') + Bit(shift') + 1
    BY DEF Placed
  <1>4. /\ keys.pressed = 0
        /\ \A i \in 1 .. Len(wire) : wire[i] = i
        /\ shift # None => shift = Len(wire) + 1
        /\ thr # None => thr = Len(wire) + Bit(shift) + 1
    BY <1>0, <1>2, <1>3 DEF Placed
  <1>5. Sent = Len(wire) + Bit(shift) + Bit(thr)
    BY <1>0, <1>1, <1>4 DEF Overwritten
  <1>6. ASSUME thr' = Sent + 1, thr = None, UNCHANGED <<shift, wire>>
        PROVE  /\ \A i \in 1 .. Len(wire') : wire'[i] = i
               /\ shift' # None => shift' = Len(wire') + 1
               /\ thr' # None => thr' = Len(wire') + Bit(shift') + 1
    BY <1>0, <1>4, <1>5, <1>6 DEF Bit
  <1>7. CASE Fill
    <2>1. thr' = Sent + 1 /\ (Top.who = Main => thr = None)
      BY <1>7, FillQueue
    <2>2. Top.who = Main
      <3>1. Top.pc = "fill" /\ stack # <<>>
        BY <1>7, OnTop DEF Fill, Pcs
      <3> QED
        BY <1>0, <1>4, <3>1 DEF Nested, Deaf
    <2> QED
      BY <1>6, <1>7, <2>1, <2>2 DEF Fill
  <1>8. CASE IsrTransmit
    <2>1. CASE SendNext
      <3>1. thr = None /\ UNCHANGED <<obufp2, shift, wire>>
        BY <1>8 DEF IsrTransmit, Sending, line
      <3>2. Count \in 1 .. OBUF_SZ - 1 /\ thr' = obuf[At(1)]
        BY <2>1, <3>1, SendRing
      <3>3. thr' = Sent + 1
        BY <3>2, Kinds DEF Queue, Contiguous
      <3> QED
        BY <1>6, <3>1, <3>3
    <2>2. CASE SendDone \/ SendNothing
      BY <1>4, <1>8, <2>2 DEF IsrTransmit, SendDone, SendNothing, line
    <2> QED
      BY <1>8, <2>1, <2>2 DEF IsrTransmit
  <1>9. CASE Load
    BY <1>0, <1>4, <1>9 DEF Load, line, Bit
  <1>10. CASE ShiftOut
    <2>1. shift # None /\ shift' = None /\ wire' = Append(wire, shift) /\ thr' = thr
      BY <1>10 DEF ShiftOut
    <2>2. /\ Len(wire') = Len(wire) + 1 /\ wire'[Len(wire) + 1] = shift
          /\ \A i \in 1 .. Len(wire) : wire'[i] = wire[i]
      BY <1>0, <2>1
    <2> QED
      BY <1>0, <1>4, <2>1, <2>2 DEF Bit
  <1>11. CASE UNCHANGED <<thr, shift, wire>>
    BY <1>4, <1>11
  <1> QED
    BY <1>7, <1>8, <1>9, <1>10, <1>11
    DEF Next, Write, Read, Poll, DrainMain, DrainKey, ReadPoll, Take, KbIrq, SerialIrq, ReadIir,
        IsrReceive, Arrive, vars, line

-----------------------------------------------------------------------------
(* The theorems.                                                            *)
LEMMA Start ==
  ASSUME Init
  PROVE  AnyInv /\ HonestInv
  <1>0. SerialAssumption /\ OBUF_SZ \in Nat \ {0} /\ IBUF_SZ \in Nat \ {0} /\ Bsz \in Nat \ {0}
    BY SerialAssumption, Sizes
  <1>1. work \in Workload
    BY SerialAssumption DEF Init, Workload
  <1>2. stack \in Seq(Frame) /\ Len(stack) = 0
    BY EmptySeq DEF Init
  <1>3. wire \in Seq(Nat) /\ Len(wire) = 0 /\ stored \in Seq(Nat) /\ Len(stored) = 0 /\ got \in Seq(Nat) /\ Len(got) = 0
    BY EmptySeq DEF Init
  <1>4. keys \in [pressed : Nat, buffer : Seq(Nat)] /\ keys.pressed = 0 /\ work.keys \in Nat
    BY <1>1, EmptySeq DEF Init, Workload
  <1>5. TypeOK
    <2>1. work.calls \in Nat
      BY <1>1 DEF Workload
    <2> QED
      BY <1>0, <2>1 DEF Init, TypeOK, None
  <1>6. Types
    BY <1>1, <1>2, <1>3, <1>4, <1>5 DEF Types, Init
  <1>7. Frames
    BY <1>2 DEF Frames
  <1>8. Count = 0
    BY <1>5, InRing DEF Init
  <1>9. Sending
    BY <1>8 DEF Sending, NoLostWakeup, Init
  <1>10. Receiving
    BY <1>3 DEF Receiving, Init
  <1>11. ASSUME Honest(work) PROVE Nested /\ Quieted /\ Queue /\ Placed
    <2>1. ~Deaf /\ Printed = 0
      BY <1>4 DEF Deaf, Printed, Init
    <2>2. Sent = 0 /\ thr = None /\ shift = None /\ Overwritten = 0
      <3>1. Sent = 0 /\ thr = None /\ shift = None
        BY <1>8 DEF Init, Sent
      <3> QED
        BY <1>3, <3>1 DEF Overwritten, Bit
    <2>3. work.prints - 1 \in Nat
      BY <1>1 DEF Workload
    <2>4. Room
      BY <1>0, <1>8, <2>1, <2>3 DEF Room
    <2>5. Queue
      BY <1>3, <1>8, <2>1, <2>2, <2>4 DEF Queue, Contiguous, Ordered, None
    <2>6. Nested /\ Quieted
      BY <1>2, <2>1 DEF Nested, Quieted, Init
    <2> QED
      BY <1>3, <2>2, <2>5, <2>6 DEF Placed
  <1> QED
    BY <1>6, <1>7, <1>9, <1>10, <1>11 DEF AnyInv, HonestInv

LEMMA Steps ==
  ASSUME AnyInv, HonestInv, [Next]_vars
  PROVE  AnyInv' /\ HonestInv'
  <1>1. AnyInv'
    BY TypesStep, FramesStep, SendingStep, ReceivingStep DEF AnyInv
  <1>2. Honest(work)' => Honest(work)
    BY Same DEF Honest, AnyInv
  <1>3. HonestInv'
    BY <1>2, NestedStep, QuietedStep, QueueStep, PlacedStep DEF AnyInv, HonestInv
  <1> QED
    BY <1>1, <1>3

LEMMA Inductive == Spec => [](AnyInv /\ HonestInv)
  <1>1. Init => AnyInv /\ HonestInv
    BY Start
  <1>2. (AnyInv /\ HonestInv) /\ [Next]_vars => (AnyInv /\ HonestInv)'
    BY Steps
  <1> QED
    BY <1>1, <1>2, PTL DEF Spec

(* The driver's indices stay inside its rings, its registers hold only      *)
(* characters that were written or have arrived.                            *)
THEOREM TypeCorrect == Spec => []TypeOK
  <1>1. AnyInv /\ HonestInv => TypeOK
    BY DEF AnyInv, Types
  <1> QED
    BY <1>1, Inductive, PTL

(* A transmission that is under way always has an interrupt to continue it, *)
(* whatever the program writes and however much a key's handler prints.     *)
THEOREM WakeupKept == Spec => []NoLostWakeup
  <1>1. AnyInv /\ HonestInv => NoLostWakeup
    BY DEF AnyInv, Sending
  <1> QED
    BY <1>1, Inductive, PTL

(* serial_read returns what serial_ib stored, in order and each once, until *)
(* ibuf first wraps.                                                        *)
THEOREM ReadsOrdered == Spec => []ReadsInOrder
  <1>1. AnyInv => ReadsInOrder
    <2> SUFFICES ASSUME AnyInv, Len(stored) < IBUF_SZ
                 PROVE  Len(got) <= Len(stored) /\ got = SubSeq(stored, 1, Len(got))
      BY DEF ReadsInOrder, ReadsReceived
    <2>1. stored \in Seq(Nat) /\ got \in Seq(Nat) /\ Len(got) \in Nat /\ Len(stored) \in Nat
      BY DEF AnyInv, Types
    <2>2. Len(got) <= Len(stored) /\ \A i \in 1 .. Len(got) : got[i] = stored[i]
      BY DEF AnyInv, Receiving
    <2>3. got = SubSeq(stored, 1, Len(got))
      BY <2>1, <2>2
    <2> QED
      BY <2>2, <2>3
  <1> QED
    BY <1>1, Inductive, PTL

-----------------------------------------------------------------------------
(* What is on its way to the line, one character after the other.           *)
LEMMA Piped ==
  ASSUME Types
  PROVE  LET p == wire \o Reg(shift)
         IN /\ p \in Seq(Nat) /\ Len(p) = Len(wire) + Bit(shift)
            /\ \A i \in 1 .. Len(p) : p[i] = IF i <= Len(wire) THEN wire[i] ELSE shift
            /\ Len(Pipeline) = Len(p) + Bit(thr) + Count
            /\ Pipeline \in Seq(Nat)
            /\ \A i \in 1 .. Len(Pipeline) :
                 Pipeline[i] = IF i <= Len(p) THEN p[i]
                               ELSE IF i <= Len(p) + Bit(thr) THEN thr
                               ELSE obuf[At(i - Len(p) - Bit(thr))]
  <1> DEFINE p == wire \o Reg(shift)
             s == p \o Reg(thr)
  <1>0. /\ Count \in 0 .. OBUF_SZ - 1 /\ OBUF_SZ \in Nat \ {0}
        /\ thr \in Nat /\ shift \in Nat /\ wire \in Seq(Nat) /\ Len(wire) \in Nat
        /\ Bit(thr) \in {0, 1} /\ Bit(shift) \in {0, 1}
    BY Kinds
  <1>1. ASSUME NEW r \in Nat
        PROVE  /\ Reg(r) \in Seq(Nat) /\ Len(Reg(r)) = Bit(r)
               /\ \A i \in 1 .. Bit(r) : Reg(r)[i] = r
    <2>1. CASE r = None
      BY <2>1, EmptySeq DEF Reg, Bit
    <2>2. CASE r # None
      <3>1. Reg(r) = <<r>> /\ Bit(r) = 1
        BY <2>2 DEF Reg, Bit
      <3> QED
        BY <3>1
    <2> QED
      BY <2>1, <2>2
  <1>2. /\ p \in Seq(Nat) /\ Len(p) = Len(wire) + Bit(shift) /\ Len(p) \in Nat
        /\ \A i \in 1 .. Len(p) : p[i] = IF i <= Len(wire) THEN wire[i] ELSE shift
    <2> DEFINE r == Reg(shift)
    <2>1. r \in Seq(Nat) /\ Len(r) = Bit(shift) /\ \A i \in 1 .. Bit(shift) : r[i] = shift
      BY <1>0, <1>1
    <2> HIDE DEF r
    <2>2. /\ wire \o r \in Seq(Nat) /\ Len(wire \o r) = Len(wire) + Len(r)
          /\ \A i \in 1 .. Len(wire) + Len(r) : (wire \o r)[i] =
                 IF i <= Len(wire) THEN wire[i] ELSE r[i - Len(wire)]
      BY <1>0, <2>1, ConcatProperties, Zenon
    <2>3. \A i \in 1 .. Len(wire) + Len(r) : i > Len(wire) => i - Len(wire) \in 1 .. Bit(shift)
      BY <1>0, <2>1
    <2>4. p = wire \o r
      BY DEF r
    <2> HIDE DEF p
    <2> QED
      BY <1>0, <2>1, <2>2, <2>3, <2>4
  <1> HIDE DEF p
  <1>3. /\ s \in Seq(Nat) /\ Len(s) = Len(p) + Bit(thr) /\ Len(s) \in Nat
        /\ \A i \in 1 .. Len(s) : s[i] = IF i <= Len(p) THEN p[i] ELSE thr
    <2> DEFINE r == Reg(thr)
    <2>1. r \in Seq(Nat) /\ Len(r) = Bit(thr) /\ \A i \in 1 .. Bit(thr) : r[i] = thr
      BY <1>0, <1>1
    <2> HIDE DEF r
    <2>2. /\ p \o r \in Seq(Nat) /\ Len(p \o r) = Len(p) + Len(r)
          /\ \A i \in 1 .. Len(p) + Len(r) : (p \o r)[i] =
                 IF i <= Len(p) THEN p[i] ELSE r[i - Len(p)]
      BY <1>2, <2>1, ConcatProperties, Zenon
    <2>3. \A i \in 1 .. Len(p) + Len(r) : i > Len(p) => i - Len(p) \in 1 .. Bit(thr)
      BY <1>0, <1>2, <2>1
    <2>4. s = p \o r
      BY DEF r
    <2> HIDE DEF s
    <2> QED
      BY <1>0, <1>2, <2>1, <2>2, <2>3, <2>4
  <1>4. Pipeline = s \o Ring
    BY DEF Pipeline, p
  <1> HIDE DEF s
  <1>5. Ring \in Seq(Nat) /\ Len(Ring) = Count /\ \A k \in 1 .. Count : Ring[k] = obuf[At(k)]
    <2>1. Ring = [k \in 1 .. Count |-> obuf[At(k)]]
      BY DEF Ring, Count, At
    <2>2. \A k \in 1 .. Count : obuf[At(k)] \in Nat
      <3>1. \A k \in 1 .. Count : At(k) \in 0 .. OBUF_SZ - 1
        BY <1>0, InRing DEF Types
      <3> QED
        BY <3>1 DEF Types, TypeOK
    <2>3. Count \in Nat
      BY <1>0
    <2> HIDE DEF Count
    <2> QED
      BY <2>1, <2>2, <2>3
  <1>6. /\ s \o Ring \in Seq(Nat) /\ Len(s \o Ring) = Len(s) + Len(Ring)
        /\ \A i \in 1 .. Len(s) + Len(Ring) : (s \o Ring)[i] =
               IF i <= Len(s) THEN s[i] ELSE Ring[i - Len(s)]
    BY <1>3, <1>5, ConcatProperties, Zenon
  <1>7. ASSUME NEW i \in 1 .. Len(Pipeline)
        PROVE  Pipeline[i] = IF i <= Len(p) THEN p[i]
                             ELSE IF i <= Len(p) + Bit(thr) THEN thr
                             ELSE obuf[At(i - Len(p) - Bit(thr))]
    <2>1. i \in 1 .. Len(s) + Count
      BY <1>4, <1>5, <1>6
    <2>2. CASE i <= Len(s)
      <3>1. Pipeline[i] = s[i] /\ i \in 1 .. Len(s)
        BY <1>3, <1>4, <1>5, <1>6, <2>1, <2>2
      <3>2. i <= Len(p) + Bit(thr)
        BY <1>3, <2>2
      <3>3. s[i] = IF i <= Len(p) THEN p[i] ELSE thr
        BY <1>3, <3>1
      <3> QED
        BY <3>1, <3>2, <3>3, Zenon
    <2>3. CASE i > Len(s)
      <3>0. Len(s) = Len(p) + Bit(thr) /\ Len(p) \in Nat /\ Bit(thr) \in Nat /\ Count \in Nat
        BY <1>0, <1>2, <1>3
      <3>1. /\ i - Len(s) \in 1 .. Count /\ i - Len(s) = i - Len(p) - Bit(thr)
            /\ ~(i <= Len(p)) /\ ~(i <= Len(p) + Bit(thr))
        BY <2>1, <2>3, <3>0
      <3>2. Pipeline[i] = Ring[i - Len(s)]
        BY <1>3, <1>4, <1>5, <1>6, <2>1, <2>3
      <3>3. Ring[i - Len(s)] = obuf[At(i - Len(s))]
        BY <1>5, <3>1
      <3> QED
        BY <3>1, <3>2, <3>3, Zenon
    <2> QED
      BY <1>3, <2>1, <2>2, <2>3
  <1>8. Len(Pipeline) = Len(p) + Bit(thr) + Count /\ Pipeline \in Seq(Nat)
    BY <1>3, <1>4, <1>5, <1>6
  <1> USE DEF p
  <1> QED
    BY <1>2, <1>7, <1>8

LEMMA Ordering ==
  ASSUME Types, Queue, Placed
  PROVE  InOrder
  <1> DEFINE p == wire \o Reg(shift)
             all == [i \in 1 .. submitted |-> i]
  <1>0. /\ Count \in 0 .. OBUF_SZ - 1 /\ OBUF_SZ \in Nat \ {0} /\ submitted \in Nat /\ Sent \in Int
        /\ thr \in Nat /\ shift \in Nat /\ wire \in Seq(Nat) /\ Len(wire) \in Nat
        /\ Bit(thr) \in {0, 1} /\ Bit(shift) \in {0, 1} /\ keys.pressed \in Nat
    BY Kinds
  <1>1. /\ p \in Seq(Nat) /\ Len(p) = Len(wire) + Bit(shift)
        /\ \A i \in 1 .. Len(p) : p[i] = IF i <= Len(wire) THEN wire[i] ELSE shift
        /\ Len(Pipeline) = Len(p) + Bit(thr) + Count
        /\ Pipeline \in Seq(Nat)
        /\ \A i \in 1 .. Len(Pipeline) :
             Pipeline[i] = IF i <= Len(p) THEN p[i]
                           ELSE IF i <= Len(p) + Bit(thr) THEN thr
                           ELSE obuf[At(i - Len(p) - Bit(thr))]
    BY Piped
  <1> HIDE DEF p
  <1>2. \A i \in 1 .. Len(wire) - 1 : wire[i] < wire[i + 1]
    <2> SUFFICES ASSUME NEW i \in 1 .. Len(wire) - 1 PROVE wire[i] < wire[i + 1]
      OBVIOUS
    <2>1. i + 1 \in 1 .. Len(wire) /\ i \in 1 .. (i + 1) - 1
      BY <1>0
    <2> QED
      BY <2>1 DEF Queue, Ordered
  <1>3. submitted - Len(Pipeline) = Overwritten
    <2>1. Sent = submitted - Count /\ Overwritten = Sent - Bit(thr) - Bit(shift) - Len(wire)
      BY DEF Sent, Overwritten
    <2>2. Len(Pipeline) = Len(wire) + Bit(shift) + Bit(thr) + Count
      BY <1>1
    <2> QED
      BY <1>0, <2>1, <2>2, SMTT(30)
  <1>4. Overwritten <= keys.pressed
    BY <1>0 DEF Queue, Printed
  <1>5. ASSUME keys.pressed = 0 PROVE Pipeline = all
    <2>1. Overwritten = 0
      BY <1>0, <1>5 DEF Queue, Printed
    <2>2. Len(Pipeline) = submitted
      BY <1>0, <1>1, <1>3, <2>1
    <2>3. /\ \A i \in 1 .. Len(wire) : wire[i] = i
          /\ shift # None => shift = Len(wire) + 1
          /\ thr # None => thr = Len(wire) + Bit(shift) + 1
      BY <1>5 DEF Placed
    <2>4. Sent = Len(p) + Bit(thr) /\ submitted = Sent + Count
      <3>1. Sent = submitted - Count /\ Overwritten = Sent - Bit(thr) - Bit(shift) - Len(wire)
        BY DEF Sent, Overwritten
      <3>2. Len(p) = Len(wire) + Bit(shift)
        BY <1>1
      <3> QED
        BY <1>0, <2>1, <3>1, <3>2
    <2>5. ASSUME NEW i \in 1 .. submitted PROVE Pipeline[i] = i
      <3>1. CASE i <= Len(p)
        <4>1. Pipeline[i] = IF i <= Len(wire) THEN wire[i] ELSE shift
          BY <1>0, <1>1, <2>2, <3>1
        <4>2. CASE i <= Len(wire)
          BY <1>0, <2>3, <4>1, <4>2
        <4>3. CASE i > Len(wire)
          <5>1. Bit(shift) = 1 /\ i = Len(wire) + 1
            BY <1>0, <1>1, <3>1, <4>3
          <5> QED
            BY <1>0, <2>3, <4>1, <4>3, <5>1 DEF Bit
        <4> QED
          BY <1>0, <4>2, <4>3
      <3>2. CASE i > Len(p) /\ i <= Len(p) + Bit(thr)
        <4>1. Pipeline[i] = thr /\ Bit(thr) = 1 /\ i = Len(p) + 1
          BY <1>0, <1>1, <2>2, <3>2
        <4> QED
          BY <1>1, <2>3, <4>1 DEF Bit
      <3>3. CASE i > Len(p) + Bit(thr)
        <4> DEFINE k == i - Len(p) - Bit(thr)
        <4>0. Len(p) \in Nat
          BY <1>0, <1>1
        <4>1. k \in 1 .. Count /\ Sent + k = i
          BY <1>0, <2>4, <3>3, <4>0, SMTT(30)
        <4>2. Pipeline[i] = obuf[At(k)]
          BY <1>0, <1>1, <2>2, <3>3
        <4> HIDE DEF k
        <4> QED
          BY <4>1, <4>2 DEF Queue, Contiguous
      <3> QED
        BY <1>0, <1>1, <3>1, <3>2, <3>3
    <2>6. all \in Seq(Nat) /\ Len(all) = submitted /\ \A i \in 1 .. submitted : all[i] = i
      BY <1>0
    <2> HIDE DEF all
    <2> QED
      BY <1>1, <2>2, <2>5, <2>6, SeqEqual, Zenon
  <1> QED
    BY <1>2, <1>3, <1>4, <1>5 DEF InOrder, NothingLost

LEMMA Flushed ==
  ASSUME Types, Sending, Quieted, Queue, Placed
  PROVE  FlushedOnReturn
  <1> SUFFICES ASSUME stack = <<>>, ser = "off", keys.pressed = 0
               PROVE  wire \o Reg(shift) = [i \in 1 .. submitted |-> i]
    BY DEF FlushedOnReturn
  <1> DEFINE p == wire \o Reg(shift)
             all == [i \in 1 .. submitted |-> i]
  <1>0. /\ submitted \in Nat /\ Sent \in Int
        /\ thr \in Nat /\ shift \in Nat /\ wire \in Seq(Nat) /\ Len(wire) \in Nat
        /\ Bit(thr) \in {0, 1} /\ Bit(shift) \in {0, 1} /\ keys.pressed \in Nat
    BY Kinds
  <1>1. /\ p \in Seq(Nat) /\ Len(p) = Len(wire) + Bit(shift)
        /\ \A i \in 1 .. Len(p) : p[i] = IF i <= Len(wire) THEN wire[i] ELSE shift
    BY Piped
  <1>2. Count = 0 /\ Bit(thr) = 0
    BY InRing DEF Quieted, Sending, Types, Bit
  <1>3. Overwritten = 0
    BY <1>0 DEF Queue, Printed
  <1>4. /\ \A i \in 1 .. Len(wire) : wire[i] = i
        /\ shift # None => shift = Len(wire) + 1
    BY DEF Placed
  <1> HIDE DEF p
  <1>5. Len(p) = submitted
    BY <1>0, <1>1, <1>2, <1>3 DEF Sent, Overwritten
  <1>6. ASSUME NEW i \in 1 .. submitted PROVE p[i] = i
    <2>1. CASE i <= Len(wire)
      BY <1>0, <1>1, <1>4, <1>5, <2>1
    <2>2. CASE i > Len(wire)
      <3>1. Bit(shift) = 1 /\ i = Len(wire) + 1
        BY <1>0, <1>1, <1>5, <2>2
      <3> QED
        BY <1>0, <1>1, <1>4, <1>5, <2>2, <3>1 DEF Bit
    <2> QED
      BY <1>0, <2>1, <2>2
  <1>7. all \in Seq(Nat) /\ Len(all) = submitted /\ \A i \in 1 .. submitted : all[i] = i
    BY <1>0
  <1> HIDE DEF all
  <1>8. p = all
    BY <1>1, <1>5, <1>6, <1>7, SeqEqual, Zenon
  <1> QED
    BY <1>8 DEF p, all

LEMMA InductiveHonest ==
  ASSUME \A w \in Workloads : Honest(w)
  PROVE  Spec => [](AnyInv /\ Nested /\ Quieted /\ Queue /\ Placed)
  <1>1. Init => Honest(work)
    BY DEF Init
  <1>2. AnyInv /\ HonestInv /\ Honest(work) /\ [Next]_vars => Honest(work)'
    BY Same DEF AnyInv, Honest
  <1>3. HonestInv /\ Honest(work) => Nested /\ Quieted /\ Queue /\ Placed
    BY DEF HonestInv
  <1> QED
    BY <1>1, <1>2, <1>3, Inductive, PTL DEF Spec

(* Characters reach the line in the order they were written, none twice; a  *)
(* key costs at most one, and without keys none is lost.  For every size of *)
(* obuf and every number of keys whose handlers' prints fit one half of it. *)
THEOREM CharactersInOrder ==
  ASSUME \A w \in Workloads : Honest(w)
  PROVE  Spec => []InOrder
  <1>1. AnyInv /\ Nested /\ Quieted /\ Queue /\ Placed => InOrder
    BY Ordering DEF AnyInv
  <1> QED
    BY <1>1, InductiveHonest, PTL

(* When serial_write has returned everything it was given has been sent or  *)
(* is being shifted out, on which fflush relies.                            *)
THEOREM Flushes ==
  ASSUME \A w \in Workloads : Honest(w)
  PROVE  Spec => []FlushedOnReturn
  <1>1. AnyInv /\ Nested /\ Quieted /\ Queue /\ Placed => FlushedOnReturn
    BY Flushed DEF AnyInv
  <1> QED
    BY <1>1, InductiveHonest, PTL

=============================================================================
