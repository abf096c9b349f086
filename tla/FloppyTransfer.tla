--------------------------- MODULE FloppyTransfer ---------------------------
(* The floppy driver's commands: sendbyte, getbyte, fdc_waitint, fdc_wait    *)
(* and the functions built on them in src/src/arch/i386/floppy.c, against a  *)
(* controller that answers at once, late, or not at all, and the DMA driver. *)
(*                                                                           *)
(* The driver is a list of operations still to make; a compound one is       *)
(* replaced by its parts.  Bytes are those of the source.  Motor and delays  *)
(* are FloppyMotor's; drive 0 is the only one ever selected.                 *)
EXTENDS IsaDma, SequencesExt

CONSTANTS
  Lba,         \* the sectors that are read and written
  MaxNum,      \* bound: sectors in one call
  MaxXfers     \* bound: calls of floppy_read and floppy_write after floppy_init

ASSUME TransferAssumption == Lba \subseteq Nat /\ MaxNum \in Nat /\ MaxXfers \in Nat

VARIABLES
  ops,           \* what the driver still has to do
  irq_signaled,
  status, reg_sr0, track,    \* status[], reg_sr0 and drives[0].track
  req,           \* the call in progress or returned: its direction, sector, length, result
  xfers,
  fdc,           \* the controller
  head,          \* where the heads are
  env,           \* what kind of controller and disk there is
  answer,        \* the result of the command of the try in progress
  inStep,        \* no parameter has been taken for a command, nor the reverse
  stray          \* the channel has moved data though nobody programmed it

driver == <<ops, irq_signaled, status, reg_sr0, track, req, xfers>>
machine == <<fdc, head, answer, stray>>
xferVars == <<driver, machine, env, inStep, dmaVars>>

Words == 65536      \* values of the uint16_t that hold tracks

Op(name, arg) == [op |-> name, arg |-> arg, bytes |-> <<>>]
Send(bytes) == [op |-> "send", arg |-> 0, bytes |-> bytes]

-----------------------------------------------------------------------------
(* The controller.  A command is as long as its first byte says.             *)
CommandLength ==
  [c \in {3, 7, 8, 15, 16, 19, 69, 70} |->
     CASE c \in {8, 16} -> 1 [] c = 7 -> 2 [] c \in {3, 15} -> 3 [] c = 19 -> 4 [] c \in {69, 70} -> 9]

Idle0 == [phase |-> "command", bytes |-> <<>>, result |-> <<>>, goal |-> -1, pending |-> <<>>]

Writable == env.answers /\ fdc.phase = "command"
RQM == env.answers => fdc.phase # "execution"

Results(f, r) == [f EXCEPT !.phase = "result", !.result = r, !.bytes = <<>>]

Executed(f, c) ==
  LET idle == [f EXCEPT !.bytes = <<>>] IN
  CASE c[1] \in {3, 19} -> idle
    [] c[1] = 16 -> Results(f, <<144>>)
    [] c[1] = 8 /\ f.pending = <<>> -> Results(f, <<128>>)
    [] c[1] = 8 /\ f.pending # <<>> -> [Results(f, <<Head(f.pending), head>>) EXCEPT !.pending = Tail(@)]
    [] c[1] = 7 -> [idle EXCEPT !.goal = 0]
    [] c[1] = 15 -> [idle EXCEPT !.goal = c[3]]
    [] c[1] \in {69, 70} -> [f EXCEPT !.phase = "execution", !.bytes = c]
    [] OTHER -> Results(f, <<128>>)

Accepted(b) ==
  LET c == Append(fdc.bytes, b) IN
  IF c[1] \in DOMAIN CommandLength /\ Len(c) < CommandLength[c[1]]
    THEN [fdc EXCEPT !.bytes = c] ELSE Executed(fdc, c)

(* Interrupt lines that pic.c unmasks and process_irq dispatches.            *)
HandledAndFloppy == {0, 1, 3, 4, 6}
Handled == {0, 1, 3, 4}
Signal == irq_signaled' = (irq_signaled \/ 6 \in Handled)

SeekDone ==
  /\ fdc.goal >= 0
  /\ head' = fdc.goal
  /\ fdc' = [fdc EXCEPT !.goal = -1, !.pending = Append(@, 32)]
  /\ Signal
  /\ UNCHANGED <<ops, status, reg_sr0, track, req, xfers, answer, stray, env, inStep, dmaVars>>

(* The wrong track and a protected disk are errors, and so may anything be.  *)
ExecDone ==
  /\ fdc.phase = "execution"
  /\ \E fails \in BOOLEAN :
       LET protected == fdc.bytes[1] = 69 /\ env.protected
           error == fails \/ protected \/ head # fdc.bytes[3]
       IN answer' = <<IF error THEN 64 ELSE 0, IF protected THEN 2 ELSE IF error THEN 4 ELSE 0, 0>>
                    \o SubSeq(fdc.bytes, 3, 6)
  /\ fdc' = Results(fdc, answer')
  /\ stray' = (stray \/ 2 \notin masked)
  /\ Signal
  /\ UNCHANGED <<ops, status, reg_sr0, track, req, xfers, head, env, inStep, dmaVars>>

Controller == SeekDone \/ ExecDone

-----------------------------------------------------------------------------
(* The driver.  A prompt controller has finished whenever the driver looks.  *)
Doing(name) ==
  /\ ops # <<>> /\ Head(ops).op = name
  /\ env.prompt => fdc.goal < 0 /\ fdc.phase # "execution"

Continue(with) == ops' = with \o Tail(ops)

Specify == Send(<<3, 133, 10>>)
Configure == Send(<<19, 0, 23, 0>>)
Sense(drive) == <<Send(<<8>>), Op("getSr0", 0), Op("getTrack", drive)>>

(* fdc_wait.                                                                 *)
Wait(sensei) ==
  <<Op("waitint", 0), Op("waitint", 0), Op("drain", 0)>>
  \o (IF sensei = 1 THEN <<Op("sense", 0)>> ELSE <<>>) \o <<Op("clear", 0)>>

(* The command bytes of floppy_transfer_try; a slip leaves out the last.     *)
Chs(lba) == <<(lba \div 36) % Words, (lba % 36) \div 18, (lba % 18) + 1>>
TransferBytesOf(write, chs) ==
  <<IF write THEN 69 ELSE 70, chs[2] * 4, chs[1] % 256, chs[2], chs[3], 2, 80, 27, 255>>
TransferBytesShort(write, chs) == Front(TransferBytesOf(write, chs))
TransferBytes(write, chs) == TransferBytesOf(write, chs)

(* floppy_seek.                                                              *)
Seek(c) == IF track = c THEN <<>> ELSE <<Send(<<15, 0, c % 256>>), Op("wait", 1)>>

Parts(o) ==
  CASE o.op = "reset" ->
         <<Op("clear", 0), Op("dor", 0), Op("sense", 0), Op("sense", 1), Op("sense", 2), Op("sense", 3),
           Op("clear", 0), Configure, Specify>>
    [] o.op = "version" -> <<Send(<<16>>), Op("getTrack", 1)>>
    [] o.op = "select" -> <<Specify>>
    [] o.op = "calibrate" -> <<Send(<<7, 0>>), Op("wait", 1)>>
    [] o.op = "seek" -> Seek(o.arg)
    [] o.op = "try" ->
         <<Op("seek", Chs(req.lba)[1]), Op("start", 0), Send(TransferBytes(req.write, Chs(req.lba))),
           Op("wait", 0), Op("judge", o.arg)>>
    [] o.op = "wait" -> Wait(o.arg)
    [] o.op = "sense" -> Sense(o.arg)

Compound == {"reset", "version", "select", "calibrate", "seek", "try", "wait", "sense"}

Expand ==
  /\ \E name \in Compound : Doing(name)
  /\ Continue(Parts(Head(ops)))
  /\ UNCHANGED <<irq_signaled, status, reg_sr0, track, req, xfers, machine, env, inStep, dmaVars>>

(* floppy_present: the disk may have been changed.                           *)
Present ==
  /\ Doing("present")
  /\ \E changed \in BOOLEAN :
       Continue(IF changed THEN <<Op("seek", 79), Op("seek", 0)>> ELSE <<>>)
  /\ UNCHANGED <<irq_signaled, status, reg_sr0, track, req, xfers, machine, env, inStep, dmaVars>>

(* sendbyte: a byte the controller does not ask for is given up in the end,  *)
(* and nobody looks at the result.                                           *)
SendByte ==
  /\ Doing("send")
  /\ LET o == Head(ops) IN
       /\ Continue(IF Len(o.bytes) = 1 THEN <<>> ELSE <<[o EXCEPT !.bytes = Tail(@), !.arg = 1]>>)
       /\ fdc' = IF Writable THEN Accepted(Head(o.bytes)) ELSE fdc
       /\ inStep' = (inStep /\ (Writable => (fdc.bytes = <<>> <=> o.arg = 0)))
  /\ UNCHANGED <<irq_signaled, status, reg_sr0, track, req, xfers, head, answer, stray, env, dmaVars>>

(* getbyte: the next byte of the result; 255 from a bus without controller;  *)
(* -1 when the controller does not come up with one.  (TakenStays leaves the *)
(* result phase to a byte that is not there.)                                *)
Byte == IF ~env.answers THEN 255 ELSE IF fdc.phase = "result" THEN Head(fdc.result) ELSE -1

TakenStays == fdc' = IF fdc.phase # "result" THEN fdc ELSE [fdc EXCEPT !.result = Tail(@)]
Taken ==
  fdc' = IF fdc.phase # "result" THEN fdc
         ELSE IF Len(fdc.result) = 1 THEN [fdc EXCEPT !.phase = "command", !.result = <<>>]
         ELSE [fdc EXCEPT !.result = Tail(@)]

GetSr0 ==
  /\ Doing("getSr0") /\ Continue(<<>>)
  /\ reg_sr0' = Byte % 256 /\ Taken
  /\ UNCHANGED <<irq_signaled, status, track, req, xfers, head, answer, stray, env, inStep, dmaVars>>

GetTrack ==
  /\ Doing("getTrack") /\ Continue(<<>>)
  /\ track' = (IF Head(ops).arg = 0 THEN Byte % Words ELSE track) /\ Taken
  /\ UNCHANGED <<irq_signaled, status, reg_sr0, req, xfers, head, answer, stray, env, inStep, dmaVars>>

(* fdc_wait's loop: while the controller is ready for anything.              *)
StatusSizeShort == 6
StatusSize == 7

Drain ==
  /\ Doing("drain")
  /\ LET n == Head(ops).arg IN
       IF n < StatusSize /\ RQM
         THEN /\ Continue(<<Op("drain", n + 1)>>)
              /\ status' = [status EXCEPT ![n + 1] = Byte % 256] /\ Taken
         ELSE Continue(<<>>) /\ UNCHANGED <<status, fdc>>
  /\ UNCHANGED <<irq_signaled, reg_sr0, track, req, xfers, head, answer, stray, env, inStep, dmaVars>>

(* fdc_waitint: the loop ends as soon as its condition holds, which is at    *)
(* once without an interrupt, with tmout set, and never with one.            *)
WaitInt ==
  /\ Doing("waitint") /\ ~irq_signaled /\ Continue(<<>>)
  /\ UNCHANGED <<irq_signaled, status, reg_sr0, track, req, xfers, machine, env, inStep, dmaVars>>

(* What fdc_waitint, and so fdc_wait, returns.                               *)
Tmout == 0

Clear ==
  /\ Doing("clear") /\ Continue(<<>>)
  /\ irq_signaled' = FALSE
  /\ UNCHANGED <<status, reg_sr0, track, req, xfers, machine, env, inStep, dmaVars>>

(* floppy_init's buffer.                                                     *)
Alloc ==
  /\ Doing("alloc") /\ Continue(<<>>)
  /\ AllocBuffer
  /\ UNCHANGED <<irq_signaled, status, reg_sr0, track, req, xfers, machine, env, inStep>>

(* fdc_reset's two writes to the output register, after which it waits.      *)
ResetPulse ==
  /\ Doing("dor") /\ Continue(<<Op("waitint", 0)>>)
  /\ fdc' = [Idle0 EXCEPT !.pending = <<192, 193, 194, 195>>]
  /\ Signal
  /\ UNCHANGED <<status, reg_sr0, track, req, xfers, head, answer, stray, env, inStep, dmaVars>>

(* floppy_transfer_try up to its command.                                    *)
Start ==
  /\ Doing("start") /\ Continue(<<>>)
  /\ irq_signaled' = FALSE /\ answer' = <<>>
  /\ InitTransfer(2)
  /\ UNCHANGED <<status, reg_sr0, track, req, xfers, fdc, head, stray, env, inStep>>

(* The test of reg_sr1.                                                      *)
NotWritable(st1) == (st1 \div 2) % 2 = 1

(* The end of floppy_transfer_try and of a round of floppy_transfer.         *)
Judge ==
  /\ Doing("judge")
  /\ LET i == Head(ops).arg
         good == Tmout = 0 /\ status[1] \div 64 = 0
     IN /\ req' = [req EXCEPT !.res = IF good \/ Tmout # 0 THEN Tmout
                                      ELSE IF req.write /\ NotWritable(status[2]) THEN -3 ELSE 0]
        /\ Continue(IF good THEN <<>>
                    ELSE <<Op("calibrate", 0)>>
                         \o (IF i = 1 THEN <<Op("reset", 0), Op("select", 0)>> ELSE <<>>)
                         \o (IF i < 3 THEN <<Op("try", i + 1)>> ELSE <<>>))
  /\ reg_sr0' = status[1] /\ track' = status[4]
  /\ UNCHANGED <<irq_signaled, status, xfers, machine, env, inStep, dmaVars>>

(* floppy_transfer_lba: one sector after the other, whatever became of them. *)
Sectors(n) == IF n = 0 THEN <<>> ELSE <<Op("try", 0), Op("next", n - 1)>>

Transfer(write, lba, n) == req' = [write |-> write, lba |-> lba, num |-> n, res |-> 0]

NextSector ==
  /\ Doing("next") /\ Continue(Sectors(Head(ops).arg))
  /\ req' = [req EXCEPT !.lba = @ + 1]
  /\ UNCHANGED <<irq_signaled, status, reg_sr0, track, xfers, machine, env, inStep, dmaVars>>

(* The two calls floppy_init makes, and later ones.                          *)
InitCalls ==
  /\ \/ Doing("read") /\ Transfer(FALSE, 0, 1)
     \/ Doing("write") /\ Transfer(TRUE, 1, 1)
  /\ Continue(Sectors(1))
  /\ UNCHANGED <<irq_signaled, status, reg_sr0, track, xfers, machine, env, inStep, dmaVars>>

XferDriver ==
  \/ Expand \/ Present \/ SendByte \/ GetSr0 \/ GetTrack \/ Drain \/ WaitInt \/ Clear
  \/ Alloc \/ ResetPulse \/ Start \/ Judge \/ NextSector \/ InitCalls

XferCall ==
  /\ ops = <<>> /\ xfers < MaxXfers
  /\ xfers' = xfers + 1
  /\ \E write \in BOOLEAN, lba \in Lba, n \in 0 .. MaxNum : Transfer(write, lba, n) /\ ops' = Sectors(n)
  /\ UNCHANGED <<irq_signaled, status, reg_sr0, track, machine, env, inStep, dmaVars>>

(* floppy_init, after isa_dma_init.                                          *)
Booting ==
  <<Op("alloc", 0), Op("reset", 0), Op("version", 0), Op("select", 0), Op("calibrate", 0),
    Op("present", 0), Op("read", 0), Op("write", 1)>>

XferInit(first) ==
  /\ ops = first
  /\ irq_signaled = FALSE /\ status = [i \in 1 .. 7 |-> 0] /\ reg_sr0 = 0 /\ track = 0
  /\ req = [write |-> FALSE, lba |-> 0, num |-> 0, res |-> 0] /\ xfers = 0
  /\ fdc = Idle0 /\ head \in {0, 1} /\ answer = <<>> /\ inStep = TRUE /\ stray = FALSE
  /\ env \in [answers : BOOLEAN, prompt : BOOLEAN, protected : BOOLEAN]
  /\ DmaInit

XferNext == XferDriver \/ Controller \/ XferCall

-----------------------------------------------------------------------------
(* The shapes of the driver's and the controller's state.                    *)
XferTypeOK ==
  /\ status \in [1 .. 7 -> 0 .. 255] /\ reg_sr0 \in 0 .. 255 /\ track \in 0 .. Words - 1
  /\ fdc.phase \in {"command", "execution", "result"}
  /\ Len(fdc.bytes) <= 9 /\ Len(fdc.result) <= 7 /\ Len(fdc.pending) <= 5
  /\ fdc.phase = "result" <=> fdc.result # <<>>

(* The driver and the controller keep in step: however many bytes time out,  *)
(* and whatever results of earlier commands are still there to be read, the  *)
(* controller never takes a parameter for a command or a command for a       *)
(* parameter.                                                                *)
InStep == inStep

(* With a controller that has answered by the time it is asked the heads are *)
(* over the sector's track when the command is sent, though a seek is        *)
(* skipped on the driver's memory alone, and the status a try is judged by   *)
(* is that of the try's own command.  (A late answer is judged by what the   *)
(* status bytes held before.)                                                *)
PromptJudged ==
  env.answers /\ env.prompt /\ ops # <<>> =>
    /\ Head(ops).op = "start" => head = Chs(req.lba)[1]
    /\ Head(ops).op = "judge" => status = answer

(* A read reports success whatever happened: a transfer's result is 0, or -3 *)
(* for a disk that refused the last try to write to it, because fdc_waitint  *)
(* never reports a timeout.  With a prompt controller the result says just   *)
(* whether the disk was protected; other errors are not reported.            *)
OnlyWritesFail ==
  /\ req.res = 0 \/ (req.write /\ req.res = -3)
  /\ env.answers /\ env.prompt /\ ops = <<>> =>
       (req.res = -3 <=> req.write /\ env.protected /\ req.num > 0)
  /\ PromptJudged

(* The DMA channel never moves data to wherever its registers happen to      *)
(* point: isa_dma_init_transfer does not reach them, but nothing unmasks the *)
(* channel either.                                                           *)
NoStrayDma == ~stray

(* Every call returns, from a controller that never answers too: no loop of  *)
(* the driver waits without end, since the interrupt that would keep         *)
(* fdc_waitint waiting is never delivered.                                   *)
XferReturns == (ops # <<>>) ~> (ops = <<>>)
=============================================================================
