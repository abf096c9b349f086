------------------------------ MODULE MCFloppy ------------------------------
(* The floppy drive's three state machines side by side: the motor, the      *)
(* commands and the DMA pool.  They share no state, so each is checked with  *)
(* the others at rest.                                                       *)
EXTENDS FloppyMotor, FloppyTransfer

VARIABLE job

all == <<vars, xferVars, job>>

MotorJob == job = "motor" /\ UNCHANGED <<xferVars, job>>
XferJob == job = "transfer" /\ UNCHANGED <<vars, job>>
DmaJob == job = "dma" /\ UNCHANGED <<vars, driver, machine, env, inStep, job>>

MCInit ==
  /\ Init /\ job \in {"motor", "transfer", "dma"}
  /\ XferInit(IF job = "transfer" THEN Booting ELSE <<>>)
  /\ job # "transfer" => head = 0 /\ env = [answers |-> TRUE, prompt |-> TRUE, protected |-> FALSE]

MCNext == (MotorJob /\ Next) \/ (XferJob /\ XferNext) \/ (DmaJob /\ DmaNext)

(* The processor executes and the timer ticks; the controller may be as late *)
(* as it likes.                                                              *)
MCSpec ==
  /\ MCInit /\ [][MCNext]_all
  /\ WF_all(MotorJob /\ Driver) /\ WF_all(MotorJob /\ (Tick \/ Expire))
  /\ WF_all(XferJob /\ XferDriver) /\ WF_all(XferJob /\ env.prompt /\ Controller)

(* The shapes of the three machines' states.                                *)
TypesOK == TypeOK /\ XferTypeOK
(* Buffers are handed out once; the DMA channel, whose registers no         *)
(* transfer reaches, never moves data to wherever they happen to point.     *)
DmaSound == PoolSound /\ MissesItsChannel /\ NoStrayDma
(* The motor stops and every call returns.                                  *)
CallsReturn == MotorStops /\ XferReturns
=============================================================================
