---------------------------- MODULE FloppyMotor ----------------------------
(* The floppy's motor: motor_on, motor_off, fdc_reset and floppy_select of   *)
(* src/src/arch/i386/floppy.c, called by the driver's operations, against    *)
(* floppy_timer, which the timer interrupt calls between any two of their    *)
(* instructions.                                                             *)
(*                                                                           *)
(* Only drive 0 is ever selected, so reg_dor and the port are their bit of   *)
(* that drive's motor.  What the controller answers is not modelled: every   *)
(* seek may be needed or not, and every try may succeed or fail.             *)
EXTENDS Integers, Sequences

CONSTANTS
  Delay,     \* 2000 in motor_off, in ticks
  SpinUp,    \* FL_SPIN_UP, in ticks
  MaxCalls   \* bound: calls of floppy_read and floppy_write after floppy_init

ASSUME MotorAssumption == Delay \in Nat \ {0} /\ SpinUp \in Nat /\ MaxCalls \in Nat

VARIABLES
  reg_dor,        \* the driver's copy of the output register
  port,           \* the register itself: the motor is powered
  motstate,       \* drives[0].motstate
  motoff_timer,
  todo,           \* what the operation in progress still has to do
  pc,             \* where in the function at the head of todo
  al,             \* what outb is about to write
  wait,           \* ticks usleep has still to see
  calls,
  spun,           \* ticks since the motor was powered, up to SpinUp
  late            \* the timer switched off a motor the driver relied on

device == <<reg_dor, port, motstate>>
vars == <<device, motoff_timer, todo, pc, al, wait, calls, spun, late>>

Idle == todo = <<>>

-----------------------------------------------------------------------------
(* The slip of a transfer that leaves the motor on.                          *)
BodyStaysOn(f) ==
  CASE f = "seek"      -> {<<>>, <<"on", "command", "off">>}
    [] f = "calibrate" -> {<<"on", "command", "off">>}
    [] f = "present"   -> {<<>>, <<"seek", "seek">>}
    [] f = "transfer"  -> {<<"on", "try1">>}
    [] f = "try1"      -> {<<"seek", "command">>, <<"seek", "command", "calibrate", "try2">>}
    [] f = "try2"      -> {<<"seek", "command">>,
                           <<"seek", "command", "calibrate", "reset", "select", "on", "try3">>}
    [] f = "try3"      -> {<<"seek", "command">>, <<"seek", "command", "calibrate", "try4">>}
    [] f = "try4"      -> {<<"seek", "command">>, <<"seek", "command", "calibrate">>}

(* The calls a function makes: floppy_seek, floppy_calibrate,                *)
(* floppy_present, floppy_transfer_lba for one sector, and the four rounds   *)
(* of floppy_transfer, the second of which resets the controller.            *)
Body(f) ==
  CASE f = "seek"      -> {<<>>, <<"on", "command", "off">>}
    [] f = "calibrate" -> {<<"on", "command", "off">>}
    [] f = "present"   -> {<<>>, <<"seek", "seek">>}
    [] f = "transfer"  -> {<<"on", "try1", "off">>}
    [] f = "try1"      -> {<<"seek", "command">>, <<"seek", "command", "calibrate", "try2">>}
    [] f = "try2"      -> {<<"seek", "command">>,
                           <<"seek", "command", "calibrate", "reset", "select", "on", "try3">>}
    [] f = "try3"      -> {<<"seek", "command">>, <<"seek", "command", "calibrate", "try4">>}
    [] f = "try4"      -> {<<"seek", "command">>, <<"seek", "command", "calibrate">>}

Composite == {"seek", "calibrate", "present", "transfer", "try1", "try2", "try3", "try4"}

Function == Composite \cup {"on", "off", "command", "reset", "select"}

(* floppy_init, called with interrupts on.                                   *)
Init ==
  /\ reg_dor = FALSE /\ port = FALSE /\ motstate = FALSE /\ motoff_timer = 0
  /\ todo = <<"reset", "select", "calibrate", "present", "transfer", "transfer">>
  /\ pc = "enter" /\ al = FALSE /\ wait = 0 /\ calls = 0 /\ spun = 0 /\ late = FALSE

-----------------------------------------------------------------------------
At(f, p) == ~Idle /\ Head(todo) = f /\ pc = p

Goto(p) == pc' = p /\ UNCHANGED todo
Finish == pc' = "enter" /\ todo' = Tail(todo)

Power(on) == port' = on /\ spun' = IF on THEN spun ELSE 0

(* floppy_read or floppy_write of one sector.                                *)
Call ==
  /\ Idle /\ calls < MaxCalls
  /\ todo' = <<"transfer">> /\ pc' = "enter" /\ calls' = calls + 1
  /\ UNCHANGED <<device, motoff_timer, al, wait, spun, late>>

Enter ==
  /\ ~Idle /\ pc = "enter" /\ Head(todo) \in Composite
  /\ \E b \in Body(Head(todo)) : todo' = b \o Tail(todo)
  /\ UNCHANGED <<device, motoff_timer, pc, al, wait, calls, spun, late>>

(* A command is sent, executed and waited for.  It may be cut short or last, *)
(* so any number of ticks may pass.                                          *)
Command ==
  /\ \/ At("command", "enter") /\ Goto("busy")
     \/ At("command", "busy") /\ Finish
  /\ UNCHANGED <<device, motoff_timer, al, wait, calls, spun, late>>

(* motor_on, lines 165-174.                                                  *)
OnTest ==
  /\ At("on", "enter")
  /\ IF motstate THEN Finish ELSE Goto("store")
  /\ UNCHANGED <<device, motoff_timer, al, wait, calls, spun, late>>

OnStore ==
  /\ At("on", "store") /\ Goto("fetch")
  /\ reg_dor' = TRUE
  /\ UNCHANGED <<port, motstate, motoff_timer, al, wait, calls, spun, late>>

(* The slip of a motor_on that does not remember.                            *)
MarkNothing ==
  /\ At("on", "mark") /\ Goto("spin")
  /\ wait' = SpinUp
  /\ UNCHANGED <<device, motoff_timer, al, calls, spun, late>>

OnMark ==
  /\ At("on", "mark") /\ Goto("spin")
  /\ motstate' = TRUE /\ wait' = SpinUp
  /\ UNCHANGED <<reg_dor, port, motoff_timer, al, calls, spun, late>>

(* The slip of a usleep one tick short.                                      *)
SpinShort ==
  /\ At("on", "spin") /\ wait <= 1 /\ Finish
  /\ wait' = 0
  /\ UNCHANGED <<device, motoff_timer, al, calls, spun, late>>

(* usleep(FL_SPIN_UP), time.c lines 166-172.                                 *)
OnSpin ==
  /\ At("on", "spin") /\ wait = 0 /\ Finish
  /\ UNCHANGED <<device, motoff_timer, al, wait, calls, spun, late>>

(* motor_off, lines 176-182.                                                 *)
OffTest ==
  /\ At("off", "enter")
  /\ IF motstate THEN Goto("arm") ELSE Finish
  /\ UNCHANGED <<device, motoff_timer, al, wait, calls, spun, late>>

OffArm ==
  /\ At("off", "arm") /\ Finish
  /\ motoff_timer' = Delay
  /\ UNCHANGED <<device, al, wait, calls, spun, late>>

(* fdc_reset, lines 203-229.  motstate keeps its value.                      *)
ResetOut ==
  /\ At("reset", "enter") /\ Goto("store")
  /\ Power(FALSE)
  /\ UNCHANGED <<reg_dor, motstate, motoff_timer, al, wait, calls, late>>

ResetStore ==
  /\ At("reset", "store") /\ Goto("fetch")
  /\ reg_dor' = FALSE
  /\ UNCHANGED <<port, motstate, motoff_timer, al, wait, calls, spun, late>>

(* floppy_select, lines 231-250.                                             *)
SelectClear ==
  /\ At("select", "enter") /\ Goto("store")
  /\ motstate' = FALSE
  /\ UNCHANGED <<reg_dor, port, motoff_timer, al, wait, calls, spun, late>>

SelectStore ==
  /\ At("select", "store") /\ Goto("fetch")
  /\ reg_dor' = FALSE
  /\ UNCHANGED <<port, motstate, motoff_timer, al, wait, calls, spun, late>>

(* outb(FDC_DOR, reg_dor) in the three of them: the load and the output.     *)
Fetch ==
  /\ pc = "fetch" /\ Goto("out")
  /\ al' = reg_dor
  /\ UNCHANGED <<device, motoff_timer, wait, calls, spun, late>>

Out ==
  /\ pc = "out" /\ Power(al)
  /\ IF Head(todo) = "on" THEN Goto("mark") ELSE Finish
  /\ late' = (late /\ Head(todo) # "select")
  /\ UNCHANGED <<reg_dor, motstate, motoff_timer, al, wait, calls>>

Driver ==
  \/ Enter \/ Command
  \/ OnTest \/ OnStore \/ OnMark \/ OnSpin \/ OffTest \/ OffArm
  \/ ResetOut \/ ResetStore \/ SelectClear \/ SelectStore \/ Fetch \/ Out

-----------------------------------------------------------------------------
(* timer_isr and floppy_timer, lines 437-449.                                *)
Elapse(on) ==
  /\ wait' = IF wait > 0 THEN wait - 1 ELSE 0
  /\ spun' = IF ~on THEN 0 ELSE IF spun < SpinUp THEN spun + 1 ELSE spun
  /\ UNCHANGED <<todo, pc, al, calls>>

Tick ==
  /\ motoff_timer # 1
  /\ motoff_timer' = IF motoff_timer > 0 THEN motoff_timer - 1 ELSE 0
  /\ Elapse(port)
  /\ UNCHANGED <<device, late>>

(* An expiry while nothing is in progress sets everything straight.          *)
Expire ==
  /\ motoff_timer = 1 /\ motoff_timer' = 0
  /\ reg_dor' = FALSE /\ port' = FALSE /\ motstate' = FALSE
  /\ late' = ~Idle
  /\ Elapse(FALSE)

Next == Call \/ Driver \/ Tick \/ Expire

(* The processor executes and the timer ticks.                               *)
Spec == Init /\ [][Next]_vars /\ WF_vars(Driver) /\ WF_vars(Tick \/ Expire)

-----------------------------------------------------------------------------
TypeOK ==
  /\ reg_dor \in BOOLEAN /\ port \in BOOLEAN /\ motstate \in BOOLEAN
  /\ motoff_timer \in 0 .. Delay
  /\ todo \in Seq(Function)
  /\ pc \in {"enter", "busy", "store", "fetch", "out", "mark", "spin", "arm"}
  /\ al \in BOOLEAN /\ wait \in 0 .. SpinUp /\ calls \in 0 .. MaxCalls
  /\ spun \in 0 .. SpinUp /\ late \in BOOLEAN

(* Wherever the timer falls, no motor runs that drives[] says is off, except *)
(* inside motor_on, which is about to say so, and inside floppy_select,      *)
(* which is about to stop it.                                                *)
Accounted ==
  port => \/ motstate
          \/ At("on", "mark")
          \/ ~Idle /\ Head(todo) = "select"

(* When an operation has returned, a running motor's timer is armed, though  *)
(* seeks inside it armed and spent the same timer.                           *)
OffArmed == Idle /\ port => motoff_timer > 0

(* A command is executed with the motor at speed unless the motor-off timer  *)
(* expired in the middle of an operation; after that, things are right again *)
(* with the next select or the next expiry in peace.  fdc_reset's stale      *)
(* motstate is never acted upon.                                             *)
AtSpeed == At("command", "busy") => late \/ (port /\ spun = SpinUp)

(* A motor does not run for ever.                                            *)
MotorStops == port ~> ~port
=============================================================================
