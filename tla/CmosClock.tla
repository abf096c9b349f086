----------------------------- MODULE CmosClock -----------------------------
(* cmos_get_time, src/src/arch/i386/peripheral.c lines 31-69: the registers *)
(* of a running clock are read one after the other, twice, until both       *)
(* readings agree.                                                          *)
(*                                                                          *)
(* Times are seconds.  Show(r, t) is what cmos_get_time_raw makes of        *)
(* register r when the clock shows second t, so a register's content is     *)
(* written as the second it was last updated for.  Interrupt handlers may   *)
(* delay the driver anywhere, so an update may begin between any two steps  *)
(* and change the registers in any order.                                   *)
EXTENDS Integers, TLAPS

CONSTANTS
  N,          \* registers, read in the order 0 .. N - 1
  Show(_, _),
  Minute,     \* how long the seconds take to come round
  MaxTime     \* bound: seconds that pass

Register == 0 .. N - 1

(* No register leaves a value and comes back to it in less than a minute;   *)
(* the seconds are the first that do come back.                             *)
ASSUME ClockAssumption ==
  /\ N \in Nat \ {0} /\ Minute \in Nat \ {0, 1} /\ MaxTime \in Nat
  /\ \A r \in Register : \A s, t, u \in 0 .. MaxTime :
       s <= t /\ t <= u /\ u < s + Minute /\ Show(r, s) = Show(r, u) => Show(r, t) = Show(r, s)

VARIABLES
  now,       \* the second the clock has completed its update for
  uip,       \* 'Update in progress'
  at,        \* [Register -> second it shows]
  pc,        \* where cmos_get_time is
  i,         \* the next register to read
  t1, t2,    \* the two readings
  begun,     \* when the current round began
  middle     \* when its second reading began

clockVars == <<now, uip, at, pc, i, t1, t2, begun, middle>>

ClockInit ==
  /\ now = 0 /\ uip = FALSE /\ at = [r \in Register |-> 0]
  /\ pc = "idle" /\ i = 0
  /\ t1 = [r \in Register |-> 0] /\ t2 = [r \in Register |-> 0]
  /\ begun = 0 /\ middle = 0

-----------------------------------------------------------------------------
(* The clock.  That a round takes less than a minute, interrupts included,  *)
(* is the one thing assumed about time.                                     *)
clock == <<now, uip, at>>
driver == <<pc, i, t1, t2, begun, middle>>

BeginUpdate ==
  /\ ~uip /\ now < MaxTime
  /\ pc \in {"idle", "done"} \/ now + 1 < begun + Minute
  /\ uip' = TRUE
  /\ UNCHANGED <<now, at, driver>>

UpdateRegister(r) ==
  /\ uip /\ at[r] = now
  /\ at' = [at EXCEPT ![r] = now + 1]
  /\ UNCHANGED <<now, uip, driver>>

EndUpdate ==
  /\ uip /\ \A r \in Register : at[r] = now + 1
  /\ uip' = FALSE /\ now' = now + 1
  /\ UNCHANGED <<at, driver>>

Clock == BeginUpdate \/ (\E r \in Register : UpdateRegister(r)) \/ EndUpdate

-----------------------------------------------------------------------------
(* The driver.                                                              *)

(* A call, or the next round of the loop of lines 63-67.                    *)
Begin ==
  /\ pc' = "wait1" /\ begun' = now
  /\ UNCHANGED <<clock, i, t1, t2, middle>>

Ask == pc \in {"idle", "done"} /\ Begin

(* The slip of a reading that does not wait.                                *)
Wait2Never ==
  /\ pc = "wait2"
  /\ pc' = "read2" /\ i' = 0 /\ middle' = now
  /\ UNCHANGED <<clock, t1, t2, begun>>

(* Line 33, while (cmos_get(0x0A) & (1 << 7)) {}                            *)
Wait1 ==
  /\ pc = "wait1" /\ ~uip
  /\ pc' = "read1" /\ i' = 0
  /\ UNCHANGED <<clock, t1, t2, begun, middle>>

Wait2 ==
  /\ pc = "wait2" /\ ~uip
  /\ pc' = "read2" /\ i' = 0 /\ middle' = now
  /\ UNCHANGED <<clock, t1, t2, begun>>

(* Lines 38-57, one register.                                               *)
Read1 ==
  /\ pc = "read1"
  /\ t1' = [t1 EXCEPT ![i] = at[i]]
  /\ i' = i + 1
  /\ pc' = IF i + 1 = N THEN "wait2" ELSE "read1"
  /\ UNCHANGED <<clock, t2, begun, middle>>

Read2 ==
  /\ pc = "read2"
  /\ t2' = [t2 EXCEPT ![i] = at[i]]
  /\ i' = i + 1
  /\ pc' = IF i + 1 = N THEN "compare" ELSE "read2"
  /\ UNCHANGED <<clock, t1, begun, middle>>

(* memcmp and *t = t1, lines 67-68.                                         *)
Agree == \A r \in Register : Show(r, t1[r]) = Show(r, t2[r])

Give ==
  /\ pc = "compare" /\ Agree
  /\ pc' = "done"
  /\ UNCHANGED <<clock, i, t1, t2, begun, middle>>

Again == pc = "compare" /\ ~Agree /\ Begin

Driver == Wait1 \/ Read1 \/ Wait2 \/ Read2 \/ Give \/ Again

ClockNext == Clock \/ Ask \/ Driver

(* The processor executes and an update that has begun is completed.        *)
ClockSpec == ClockInit /\ [][ClockNext]_clockVars /\ WF_clockVars(Driver) /\ WF_clockVars(EndUpdate)
             /\ \A r \in Register : WF_clockVars(UpdateRegister(r))

-----------------------------------------------------------------------------
ClockTypeOK ==
  /\ now \in 0 .. MaxTime /\ uip \in BOOLEAN
  /\ at \in [Register -> 0 .. MaxTime]
  /\ pc \in {"idle", "wait1", "read1", "wait2", "read2", "compare", "done"}
  /\ i \in 0 .. N
  /\ t1 \in [Register -> 0 .. MaxTime] /\ t2 \in [Register -> 0 .. MaxTime]
  /\ begun \in 0 .. MaxTime /\ middle \in 0 .. MaxTime

(* The time returned is one the clock really showed during the call, that   *)
(* at which the second reading began; it is never put together from the     *)
(* registers of two times, wherever updates and interrupts fall.            *)
OneInstant ==
  pc = "done" =>
    /\ begun <= middle /\ middle <= now
    /\ \A r \in Register : Show(r, t1[r]) = Show(r, middle)

(* A call returns once the clock leaves it time for two readings, as it     *)
(* does here after MaxTime at the latest.                                   *)
TimeReturns == (pc = "wait1") ~> (pc = "done")

-----------------------------------------------------------------------------
(* Proofs: what is returned is never torn, for every number of registers    *)
(* and every encoding without a return inside a minute.                     *)

(* What the driver has read so far in either reading.                       *)
Got1 == IF pc = "read1" THEN 0 .. i - 1
        ELSE IF pc \in {"wait2", "read2", "compare"} THEN Register ELSE {}
Got2 == IF pc = "read2" THEN 0 .. i - 1
        ELSE IF pc = "compare" THEN Register ELSE {}

(* A register shows the current second or, during an update, perhaps the    *)
(* next.                                                                    *)
ClockTicking ==
  /\ uip => now < MaxTime
  /\ \A r \in Register : at[r] = now \/ (uip /\ at[r] = now + 1)

(* A round in progress is younger than a minute.                            *)
RoundYoung ==
  pc \notin {"idle", "done"} =>
    /\ begun <= now /\ now < begun + Minute
    /\ uip => now + 1 < begun + Minute

(* The first reading lies between the round's begin and now, and all of it  *)
(* before middle once the second has begun; the second lies after middle.   *)
ReadSoFar ==
  /\ pc \in {"read1", "read2"} => i < N
  /\ \A r \in Got1 : begun <= t1[r] /\ t1[r] <= at[r]
  /\ pc \in {"read2", "compare"} =>
       begun <= middle /\ middle <= now /\ \A r \in Register : t1[r] <= middle
  /\ \A r \in Got2 : middle <= t2[r] /\ t2[r] <= at[r]

ClockInv == ClockTypeOK /\ ClockTicking /\ RoundYoung /\ ReadSoFar /\ OneInstant

LEMMA ClockInitially == ClockInit => ClockInv
  <1>1. ASSUME ClockInit PROVE ClockTypeOK
    <2>1. 0 \in 0 .. MaxTime /\ 0 \in 0 .. N
      BY ClockAssumption
    <2> QED
      BY <1>1, <2>1 DEF ClockInit, ClockTypeOK
  <1> QED
    BY <1>1, ClockAssumption DEF ClockInit, ClockInv, ClockTicking, RoundYoung, ReadSoFar, OneInstant, Got1, Got2, Register

LEMMA ClockStep == ClockInv /\ [ClockNext]_clockVars => ClockInv'
  <1> SUFFICES ASSUME ClockInv, [ClockNext]_clockVars PROVE ClockInv'
    OBVIOUS
  <1> USE ClockAssumption DEF ClockInv, ClockTypeOK, Register
  <1>1. CASE UNCHANGED clockVars
    BY <1>1 DEF clockVars, ClockTicking, RoundYoung, ReadSoFar, OneInstant, Got1, Got2
  <1>2. CASE BeginUpdate
    BY <1>2 DEF BeginUpdate, driver, ClockTicking, RoundYoung, ReadSoFar, OneInstant, Got1, Got2
  <1>3. CASE \E r \in Register : UpdateRegister(r)
    <2> PICK q \in Register : UpdateRegister(q)
      BY <1>3
    <2> USE DEF UpdateRegister, driver
    <2>1. now + 1 \in 0 .. MaxTime
      BY DEF ClockTicking
    <2>2. ClockTypeOK' /\ ClockTicking'
      BY <2>1 DEF ClockTicking
    <2>3. \A r \in Register : at[r] <= at'[r]
      BY <2>1 DEF ClockTicking
    <2>4. Got1' = Got1 /\ Got2' = Got2 /\ Got1 \subseteq Register /\ Got2 \subseteq Register
      BY DEF Got1, Got2
    <2>5. ReadSoFar'
      BY <2>2, <2>3, <2>4, SMTT(30) DEF ReadSoFar
    <2> QED
      BY <2>2, <2>5 DEF RoundYoung, OneInstant
  <1>4. CASE EndUpdate
    <2> USE <1>4 DEF EndUpdate, driver
    <2>0. now + 1 \in 0 .. MaxTime
      BY DEF ClockTicking
    <2>1. now' = now + 1 /\ ClockTypeOK' /\ ClockTicking'
      BY <2>0 DEF ClockTicking
    <2>2. Got1' = Got1 /\ Got2' = Got2
      BY DEF Got1, Got2
    <2>3. ReadSoFar'
      <3>1. pc \in {"read2", "compare"} => middle <= now'
        BY <2>0, <2>1 DEF ReadSoFar
      <3> QED
        BY <2>2, <3>1 DEF ReadSoFar
    <2> QED
      BY <2>0, <2>1, <2>3 DEF RoundYoung, OneInstant
  <1>5. CASE Begin /\ pc \in {"idle", "done", "compare"}
    BY <1>5 DEF Begin, clock, ClockTicking, RoundYoung, ReadSoFar, OneInstant, Got1, Got2
  <1>6. CASE Wait1
    BY <1>6 DEF Wait1, clock, ClockTicking, RoundYoung, ReadSoFar, OneInstant, Got1, Got2
  <1>7. CASE Read1
    BY <1>7 DEF Read1, clock, ClockTicking, RoundYoung, ReadSoFar, OneInstant, Got1, Got2
  <1>8. CASE Wait2
    BY <1>8 DEF Wait2, clock, ClockTicking, RoundYoung, ReadSoFar, OneInstant, Got1, Got2
  <1>9. CASE Read2
    BY <1>9, SMTT(30) DEF Read2, clock, ClockTicking, RoundYoung, ReadSoFar, OneInstant, Got1, Got2
  <1>10. CASE Give
    <2>1. \A r \in Register : Show(r, t1[r]) = Show(r, middle)
      BY <1>10 DEF Give, Agree, ClockTicking, RoundYoung, ReadSoFar, Got1, Got2
    <2> QED
      BY <1>10, <2>1 DEF Give, clock, ClockTicking, RoundYoung, ReadSoFar, OneInstant, Got1, Got2
  <1> QED
    BY <1>1, <1>2, <1>3, <1>4, <1>5, <1>6, <1>7, <1>8, <1>9, <1>10
    DEF ClockNext, Clock, Ask, Driver, Again

(* What cmos_get_time returns is one time the clock showed during the call, *)
(* never put together from two.                                             *)
THEOREM NeverTorn == ClockSpec => []OneInstant
  <1>1. ClockInv => OneInstant
    BY DEF ClockInv
  <1> QED
    BY ClockInitially, ClockStep, <1>1, PTL DEF ClockSpec
=============================================================================
