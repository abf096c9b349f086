------------------------------- MODULE Serial -------------------------------
(* The serial console: src/src/arch/i386/serial.c, the interrupt dispatch   *)
(* of irq.c and the keyboard handler of keyboard.c that prints from inside  *)
(* its interrupt, on one processor.                                         *)
(*                                                                          *)
(* One program (the Lua main chunk) calls serial_write and serial_read; the *)
(* UART and the keyboard interrupt it.  A call in progress is a frame of    *)
(* stack, the interrupted program at the bottom; the serial handler, which  *)
(* keeps interrupts off from start to end, is at most once on top.  What    *)
(* the code does between cli and sti is one step, except that the UART      *)
(* shifts bits all the time, before or after such a step.  The kernel is    *)
(* built with -O0 (Makefile line 13): every loop rereads what it tests.     *)
(*                                                                          *)
(* The UART is a 16450: serial_init never writes the FIFO control register. *)
(* Characters are numbered 1, 2, 3... in the order in which serial_write    *)
(* put them into obuf, and received ones in the order they arrive; 0 is     *)
(* none.                                                                    *)
EXTENDS Integers, Sequences

CONSTANTS
  OBUF_SZ,    \* size of obuf
  IBUF_SZ,    \* size of ibuf
  Workloads   \* bound: what the program, the keyboard and the far end do

(* A workload: the n of the program's calls to serial_write and serial_read, *)
(* and how many calls it makes; how many keys are pressed and how many      *)
(* characters each one's handler prints; how many characters arrive, and    *)
(* how far the far end may run ahead of those read.                         *)
ASSUME SerialAssumption ==
  /\ OBUF_SZ \in Nat /\ OBUF_SZ % 2 = 0 /\ OBUF_SZ > 0
  /\ IBUF_SZ \in Nat \ {0}
  /\ Workloads \subseteq [writes : SUBSET (Nat \ {0}), reads : SUBSET (Nat \ {0}), calls : Nat, keys : Nat,
                          prints : Nat \ {0}, arrivals : Nat, window : Nat]

None == 0
Main == 0     \* who makes a call: the program, or the handler of key 1, 2, ...
Bsz == OBUF_SZ \div 2

VARIABLES
  obuf, obufp1, obufp2, transmit,   \* serial.c's transmitter
  ibuf, ibufp1, ibufp2,             \* serial.c's receiver
  stack,      \* the calls in progress, the innermost last
  ser,        \* where serial_isr is: "off", or the part of its loop it is in
  irqOn,         \* the processor takes interrupts
  thr, shift, \* the UART's holding and shift registers
  thri,       \* its THR-empty interrupt
  rbr,        \* its received character
  submitted,  \* characters put into obuf so far
  wire,       \* characters sent over the line
  arrived,    \* characters that have arrived over the line
  stored,     \* the ones serial_ib has been given
  got,        \* the ones serial_read has returned
  work,       \* the workload, with the calls still to make
  keys        \* keys pressed, and those stored

tx == <<obuf, obufp1, obufp2, transmit>>
rx == <<ibuf, ibufp1, ibufp2>>
line == <<submitted, wire, arrived, stored, got>>
vars == <<obuf, obufp1, obufp2, transmit, ibuf, ibufp1, ibufp2, stack, ser, irqOn,
          thr, shift, thri, rbr, submitted, wire, arrived, stored, got, work, keys>>

Init ==
  /\ obuf = [i \in 0 .. OBUF_SZ - 1 |-> None] /\ obufp1 = 0 /\ obufp2 = 0
  /\ ibuf = [i \in 0 .. IBUF_SZ - 1 |-> None] /\ ibufp1 = 0 /\ ibufp2 = 0
  /\ transmit = FALSE
  /\ stack = <<>> /\ ser = "off" /\ irqOn = TRUE
  /\ thr = None /\ shift = None /\ rbr = None
  /\ thri = TRUE                 \* enabled with an empty register, line 40
  /\ submitted = 0 /\ wire = <<>>
  /\ arrived = 0 /\ stored = <<>> /\ got = <<>>
  /\ work \in Workloads
  /\ keys = [pressed |-> 0, buffer |-> <<>>]

-----------------------------------------------------------------------------
(* The calls of the program.                                                *)

Abs(n) == IF n < 0 THEN -n ELSE n
Least(m, n) == IF m < n THEN m ELSE n

Top == stack[Len(stack)]
Running(pc) == ser = "off" /\ stack # <<>> /\ Top.pc = pc
Goto(pc, left) == stack' = [stack EXCEPT ![Len(stack)] = [@ EXCEPT !.pc = pc, !.left = left]]
Return == stack' = SubSeq(stack, 1, Len(stack) - 1)

Call(who, pc, n) == stack' = Append(stack, [who |-> who, pc |-> pc, left |-> n])

Write(n) ==
  /\ stack = <<>> /\ ser = "off" /\ work.calls > 0
  /\ Call(Main, "poll", n) /\ work' = [work EXCEPT !.calls = @ - 1]
  /\ UNCHANGED <<tx, rx, ser, irqOn, thr, shift, thri, rbr, line, keys>>

(* Line 78.  abs of the difference of the indices is not the number of      *)
(* characters in the ring once obufp2 has wrapped below obufp1.             *)
Poll ==
  /\ Running("poll")
  /\ ~transmit \/ Abs(obufp1 - obufp2) < Bsz
  /\ Goto("fill", Top.left)
  /\ UNCHANGED <<tx, rx, ser, irqOn, thr, shift, thri, rbr, line, work, keys>>

(* obuf with the next ad characters put in, lines 84-90.                    *)
Filled(ad) ==
  LET put(i) == CHOOSE k \in 1 .. ad : (obufp2 + k - 1) % OBUF_SZ = i
      touched == {(obufp2 + k - 1) % OBUF_SZ : k \in 1 .. ad}
  IN [i \in DOMAIN obuf |-> IF i \in touched THEN submitted + put(i) ELSE obuf[i]]

(* Two slips in serial_write: an index that is not wrapped, and a first     *)
(* character that is never given to the UART.                               *)
FillNoWrap ==
  LET ad == Least(Bsz, Top.left) IN
  /\ Running("fill")
  /\ obuf' = Filled(ad)
  /\ obufp2' = (obufp2 + ad) % OBUF_SZ
  /\ transmit' = TRUE
  /\ thr' = Filled(ad)[obufp1] /\ thri' = FALSE
  /\ obufp1' = obufp1 + 1
  /\ irqOn' = TRUE
  /\ submitted' = submitted + ad
  /\ Goto(IF Top.left = ad THEN "drain" ELSE "poll", Top.left - ad)
  /\ UNCHANGED <<rx, ser, shift, rbr, wire, arrived, stored, got, work, keys>>

FillSilent ==
  LET ad == Least(Bsz, Top.left) IN
  /\ Running("fill")
  /\ obuf' = Filled(ad)
  /\ obufp2' = (obufp2 + ad) % OBUF_SZ
  /\ transmit' = TRUE
  /\ UNCHANGED <<thr, thri, obufp1>>
  /\ irqOn' = TRUE
  /\ submitted' = submitted + ad
  /\ Goto(IF Top.left = ad THEN "drain" ELSE "poll", Top.left - ad)
  /\ UNCHANGED <<rx, ser, shift, rbr, wire, arrived, stored, got, work, keys>>

(* Lines 80-95.  The write to the port replaces whatever the holding        *)
(* register has; sti enables interrupts, also inside a handler.             *)
Fill ==
  LET ad == Least(Bsz, Top.left) IN
  /\ Running("fill")
  /\ obuf' = Filled(ad)
  /\ obufp2' = (obufp2 + ad) % OBUF_SZ
  /\ transmit' = TRUE
  /\ thr' = Filled(ad)[obufp1] /\ thri' = FALSE
  /\ obufp1' = (obufp1 + 1) % OBUF_SZ
  /\ irqOn' = TRUE
  /\ submitted' = submitted + ad
  /\ Goto(IF Top.left = ad THEN "drain" ELSE "poll", Top.left - ad)
  /\ UNCHANGED <<rx, ser, shift, rbr, wire, arrived, stored, got, work, keys>>

(* The slip of a serial_write that does not wait for the last half.         *)
DrainedEager ==
  /\ Running("drain")
  /\ Return

(* Line 99, and the return from serial_write.                               *)
Drained ==
  /\ Running("drain") /\ ~transmit
  /\ Return

DrainMain ==
  /\ Drained /\ Top.who = Main
  /\ UNCHANGED <<tx, rx, ser, irqOn, thr, shift, thri, rbr, line, work, keys>>

(* Back in kb_byte, which stores the key and returns from the interrupt.    *)
DrainKey ==
  /\ Drained /\ Top.who # Main
  /\ keys' = [keys EXCEPT !.buffer = Append(@, Top.who)]
  /\ irqOn' = TRUE
  /\ UNCHANGED <<tx, rx, ser, thr, shift, thri, rbr, line, work>>

Read(n) ==
  /\ stack = <<>> /\ ser = "off" /\ work.calls > 0
  /\ Call(Main, "rpoll", n) /\ work' = [work EXCEPT !.calls = @ - 1]
  /\ UNCHANGED <<tx, rx, ser, irqOn, thr, shift, thri, rbr, line, keys>>

(* The slip > 1 for >= 1.                                                   *)
ReadPollTwo ==
  /\ Running("rpoll")
  /\ Abs(ibufp1 - ibufp2) > 1
  /\ Goto("take", Top.left)
  /\ UNCHANGED <<tx, rx, ser, irqOn, thr, shift, thri, rbr, line, work, keys>>

(* Line 108.                                                                *)
ReadPoll ==
  /\ Running("rpoll")
  /\ Abs(ibufp1 - ibufp2) >= 1
  /\ Goto("take", Top.left)
  /\ UNCHANGED <<tx, rx, ser, irqOn, thr, shift, thri, rbr, line, work, keys>>

(* Lines 110-122 and the test of line 106.                                  *)
Take ==
  LET bs == Least(Top.left, Abs(ibufp1 - ibufp2)) IN
  /\ Running("take")
  /\ got' = got \o [k \in 1 .. bs |-> ibuf[(ibufp1 + k - 1) % IBUF_SZ]]
  /\ ibufp1' = (ibufp1 + bs) % IBUF_SZ
  /\ irqOn' = TRUE
  /\ IF Top.left = bs THEN Return ELSE Goto("rpoll", Top.left - bs)
  /\ UNCHANGED <<tx, ibuf, ibufp2, ser, thr, shift, thri, rbr, submitted, wire,
                 arrived, stored, work, keys>>

Program == Poll \/ Fill \/ DrainMain \/ DrainKey \/ ReadPoll \/ Take

-----------------------------------------------------------------------------
(* The interrupts.  process_irq acknowledges before it dispatches, so only  *)
(* the interrupt flag keeps a handler from being interrupted.               *)

KbIrq ==
  /\ irqOn /\ ser = "off" /\ keys.pressed < work.keys
  /\ irqOn' = FALSE
  /\ keys' = [keys EXCEPT !.pressed = @ + 1]
  /\ Call(keys.pressed + 1, "poll", work.prints)
  /\ UNCHANGED <<tx, rx, ser, thr, shift, thri, rbr, line, work>>

SerialIrq ==
  /\ irqOn /\ ser = "off" /\ (thri \/ rbr # None)
  /\ irqOn' = FALSE /\ ser' = "iir"
  /\ UNCHANGED <<tx, rx, stack, thr, shift, thri, rbr, line, work, keys>>

(* Lines 131-133: the identification register reports a received character  *)
(* first; reading it withdraws the THR-empty interrupt it reports.          *)
ReadIir ==
  /\ ser = "iir"
  /\ \/ rbr # None /\ ser' = "rx" /\ UNCHANGED <<irqOn, thri>>
     \/ rbr = None /\ thri /\ ser' = "tx" /\ thri' = FALSE /\ UNCHANGED irqOn
     \/ rbr = None /\ ~thri /\ ser' = "off" /\ irqOn' = TRUE /\ UNCHANGED thri
  /\ UNCHANGED <<tx, rx, stack, thr, shift, rbr, line, work, keys>>

(* The slip of advancing the index before storing.                          *)
IsrReceiveLate ==
  /\ ser = "rx"
  /\ ibuf' = [ibuf EXCEPT ![(ibufp2 + 1) % IBUF_SZ] = rbr]
  /\ ibufp2' = (ibufp2 + 1) % IBUF_SZ
  /\ stored' = Append(stored, rbr)
  /\ rbr' = None
  /\ ser' = "iir"
  /\ UNCHANGED <<tx, ibufp1, stack, irqOn, thr, shift, thri, submitted, wire, arrived,
                 got, work, keys>>

(* Lines 134-137 and serial_ib: no test for a full ring.                    *)
IsrReceive ==
  /\ ser = "rx"
  /\ ibuf' = [ibuf EXCEPT ![ibufp2] = rbr]
  /\ ibufp2' = (ibufp2 + 1) % IBUF_SZ
  /\ stored' = Append(stored, rbr)
  /\ rbr' = None
  /\ ser' = "iir"
  /\ UNCHANGED <<tx, ibufp1, stack, irqOn, thr, shift, thri, submitted, wire, arrived,
                 got, work, keys>>

(* The slip of an index that is not advanced.                               *)
SendNextRepeats ==
  /\ transmit /\ obufp1 # obufp2
  /\ thr' = obuf[obufp1] /\ thri' = FALSE
  /\ obufp1' = obufp1
  /\ UNCHANGED transmit

(* Lines 138-150 and serial_ob.                                             *)
SendNext ==
  /\ transmit /\ obufp1 # obufp2
  /\ thr' = obuf[obufp1] /\ thri' = FALSE
  /\ obufp1' = (obufp1 + 1) % OBUF_SZ
  /\ UNCHANGED transmit

SendDone ==
  /\ transmit /\ obufp1 = obufp2
  /\ transmit' = FALSE
  /\ UNCHANGED <<thr, thri, obufp1>>

SendNothing ==
  /\ ~transmit
  /\ UNCHANGED <<thr, thri, obufp1, transmit>>

IsrTransmit ==
  /\ ser = "tx"
  /\ SendNext \/ SendDone \/ SendNothing
  /\ ser' = "iir"
  /\ UNCHANGED <<obuf, obufp2, rx, stack, irqOn, shift, rbr, line, work, keys>>

Handler == ReadIir \/ IsrReceive \/ IsrTransmit

-----------------------------------------------------------------------------
(* The UART.                                                                *)

Load ==
  /\ thr # None /\ shift = None
  /\ shift' = thr /\ thr' = None /\ thri' = TRUE
  /\ UNCHANGED <<tx, rx, stack, ser, irqOn, rbr, line, work, keys>>

ShiftOut ==
  /\ shift # None
  /\ wire' = Append(wire, shift) /\ shift' = None
  /\ UNCHANGED <<tx, rx, stack, ser, irqOn, thr, thri, rbr, submitted, arrived, stored,
                 got, work, keys>>

Uart == Load \/ ShiftOut

(* A character arrives; one that was not read in time is overwritten.       *)
Arrive ==
  /\ arrived < work.arrivals /\ arrived - Len(got) < work.window
  /\ arrived' = arrived + 1 /\ rbr' = arrived + 1
  /\ UNCHANGED <<tx, rx, stack, ser, irqOn, thr, shift, thri, submitted, wire, stored,
                 got, work, keys>>

Next ==
  \/ \E n \in work.writes : Write(n)
  \/ \E n \in work.reads : Read(n)
  \/ Poll \/ Fill \/ DrainMain \/ DrainKey \/ ReadPoll \/ Take
  \/ KbIrq \/ SerialIrq \/ ReadIir \/ IsrReceive \/ IsrTransmit
  \/ Load \/ ShiftOut \/ Arrive

(* The processor executes, an interrupt that is requested and allowed is    *)
(* taken, and the UART keeps shifting.                                      *)
Fairness == WF_vars(Program) /\ WF_vars(SerialIrq) /\ WF_vars(Handler) /\ WF_vars(Uart)

Spec == Init /\ [][Next]_vars /\ Fairness

-----------------------------------------------------------------------------
(* What must hold.                                                          *)

Reg(r) == IF r = None THEN <<>> ELSE <<r>>

(* The characters in obuf, oldest first.                                    *)
Ring == [k \in 1 .. (obufp2 - obufp1) % OBUF_SZ |-> obuf[(obufp1 + k - 1) % OBUF_SZ]]

(* Everything between serial_write and the far end of the line, in the      *)
(* order in which it will arrive or has arrived there.                      *)
Pipeline == wire \o Reg(shift) \o Reg(thr) \o Ring

(* The shapes of the driver's state and of the UART's registers.            *)
TypeOK ==
  /\ obuf \in [0 .. OBUF_SZ - 1 -> 0 .. submitted]
  /\ obufp1 \in 0 .. OBUF_SZ - 1 /\ obufp2 \in 0 .. OBUF_SZ - 1
  /\ ibuf \in [0 .. IBUF_SZ - 1 -> 0 .. arrived]
  /\ ibufp1 \in 0 .. IBUF_SZ - 1 /\ ibufp2 \in 0 .. IBUF_SZ - 1
  /\ transmit \in BOOLEAN /\ irqOn \in BOOLEAN /\ thri \in BOOLEAN
  /\ ser \in {"off", "iir", "rx", "tx"}
  /\ thr \in 0 .. submitted /\ shift \in 0 .. submitted /\ rbr \in 0 .. arrived
  /\ work.calls \in Nat

(* No character is lost, repeated or overtaken between serial_write and the *)
(* line, as long as every write fits one half of obuf and nothing prints    *)
(* from an interrupt: what has been sent, what the registers hold and what  *)
(* waits in obuf are together exactly the characters written, in order.     *)
NothingLost == keys.pressed = 0 => Pipeline = [i \in 1 .. submitted |-> i]

(* When serial_write has returned nothing is left behind it: obuf and the   *)
(* holding register are empty and all that was written has been sent or is  *)
(* being shifted out (fflush, stdio.c line 16, relies on it).               *)
FlushedOnReturn ==
  stack = <<>> /\ ser = "off" /\ keys.pressed = 0 =>
    wire \o Reg(shift) = [i \in 1 .. submitted |-> i]

(* A transmission that is under way always has an interrupt to continue it: *)
(* a THR-empty interrupt pending or being handled, or a character in the    *)
(* holding register whose loading will raise one.  Otherwise serial_write   *)
(* would wait for ever in line 99.                                          *)
NoLostWakeup == transmit => thri \/ thr # None \/ ser = "tx"

(* Characters reach the line in the order they were written, none twice,    *)
(* also when the keyboard handler prints in the middle of a write.  A key   *)
(* pressed during a write costs the console at most one character, the one  *)
(* its handler overwrites in the holding register; without keys none is     *)
(* lost.                                                                    *)
InOrder ==
  /\ \A i \in 1 .. Len(wire) - 1 : wire[i] < wire[i + 1]
  /\ submitted - Len(Pipeline) <= keys.pressed
  /\ NothingLost

(* serial_read returns the characters that the serial handler stored, in    *)
(* order and each once, however much the far end sends ahead.  The code     *)
(* keeps this only until ibuf first wraps: line 112 takes the distance of   *)
(* the two indices for the number of characters.                            *)
ReadsReceived == Len(got) <= Len(stored) /\ got = SubSeq(stored, 1, Len(got))

ReadsInOrder == Len(stored) < IBUF_SZ => ReadsReceived

(* A write that no key interrupts returns, whatever arrives meanwhile.      *)
Writing == stack # <<>> /\ stack[1].pc \in {"poll", "fill", "drain"}
WriteReturns == Writing ~> (stack = <<>> \/ keys.pressed > 0)

(* The only way a write can fail to return is that interrupts stay disabled *)
(* for ever: in the keyboard handler, which waits in line 76 for room that  *)
(* only the serial interrupt could make.                                    *)
OnlyDeafHangs == ([]<>irqOn) => (Writing ~> (stack = <<>>))

(* A read for which enough characters have come in returns.                 *)
Waiting == stack # <<>> /\ stack[1].pc \in {"rpoll", "take"}
ReadReturns ==
  (Waiting /\ Len(stored) >= Len(got) + stack[1].left) ~> (stack = <<>>)

(* Every call of serial_write and serial_read returns that can.             *)
CallsReturn == WriteReturns /\ OnlyDeafHangs /\ ReadReturns
=============================================================================
