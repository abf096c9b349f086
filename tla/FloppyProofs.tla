---------------------------- MODULE FloppyProofs ----------------------------
(* The DMA pool hands out no buffer twice and no transfer moves data behind  *)
(* the driver's back; the driver and the controller never lose step, what is *)
(* kept of commands, results and interrupts is bounded, and a transfer reports *)
(* nothing but its own outcome.  For every size of the pool, every set of    *)
(* sectors and any number of calls.                                          *)
EXTENDS MCFloppy, SequenceTheorems, FiniteSetTheorems, WellFoundedInduction, TLAPS

-----------------------------------------------------------------------------
(* The motor is accounted for and its timer armed.                           *)

(* Where pc may be in which function, and what the two that stop the motor   *)
(* have put into reg_dor and are about to output.                            *)
Places ==
  /\ pc = "enter" \/ ~Idle
  /\ pc \in {"store", "fetch", "out"} => Head(todo) \in {"on", "reset", "select"}
  /\ pc \in {"mark", "spin"} => Head(todo) = "on"
  /\ pc = "arm" => Head(todo) = "off"
  /\ pc = "busy" => Head(todo) = "command"
  /\ Head(todo) \in {"reset", "select"} =>
       (pc = "fetch" => ~reg_dor) /\ (pc = "out" => ~al)

(* Every operation ends in motor_off, after whatever seeks and resets.       *)
EndsOff == ~Idle => todo[Len(todo)] \in {"off", "transfer"}

IInv == TypeOK /\ Places /\ Accounted /\ EndsOff /\ OffArmed

-----------------------------------------------------------------------------
(* What a function is replaced by are calls of functions, and the last of a  *)
(* transfer's is motor_off.                                                  *)
LEMMA BodyType ==
  ASSUME NEW f \in Composite, NEW b \in Body(f)
  PROVE  b \in Seq(Function) /\ (f = "transfer" => b = <<"on", "try1", "off">>)
  <1>1. /\ <<>> \in Seq(Function)
        /\ <<"on", "command", "off">> \in Seq(Function)
        /\ <<"seek", "seek">> \in Seq(Function)
        /\ <<"on", "try1", "off">> \in Seq(Function)
        /\ <<"seek", "command">> \in Seq(Function)
    BY DEF Function, Composite
  <1>2. /\ <<"seek", "command", "calibrate", "try2">> \in Seq(Function)
        /\ <<"seek", "command", "calibrate", "reset", "select", "on", "try3">> \in Seq(Function)
        /\ <<"seek", "command", "calibrate", "try4">> \in Seq(Function)
        /\ <<"seek", "command", "calibrate">> \in Seq(Function)
    BY DEF Function, Composite
  <1>3. CASE f \in {"seek", "calibrate", "present"}
    BY <1>1, <1>3 DEF Body
  <1>4. CASE f \in {"transfer", "try1", "try2"}
    BY <1>1, <1>2, <1>4 DEF Body
  <1>5. CASE f \in {"try3", "try4"}
    BY <1>1, <1>2, <1>5 DEF Body
  <1> QED
    BY <1>3, <1>4, <1>5 DEF Composite

LEMMA TailType ==
  ASSUME NEW s \in Seq(Function), s # <<>>
  PROVE  /\ Head(s) \in Function /\ Tail(s) \in Seq(Function)
         /\ Len(s) \in Nat \ {0}
         /\ Len(s) = 1 => Tail(s) = <<>> /\ s[Len(s)] = Head(s)
         /\ Len(s) > 1 => Tail(s) # <<>> /\ Tail(s)[Len(Tail(s))] = s[Len(s)]
  <1>1. Len(s) \in Nat \ {0}
    BY EmptySeq
  <1>2. /\ Head(s) \in Function /\ Tail(s) \in Seq(Function)
        /\ Len(Tail(s)) = Len(s) - 1
        /\ \A i \in 1 .. Len(Tail(s)) : Tail(s)[i] = s[i + 1]
    BY HeadTailProperties
  <1>3. ASSUME Len(s) = 1 PROVE Tail(s) = <<>> /\ s[Len(s)] = Head(s)
    <2>1. Len(Tail(s)) = 0
      BY <1>2, <1>3
    <2>2. Tail(s) = <<>>
      BY <1>2, <2>1, EmptySeq
    <2> QED
      BY <1>3, <2>2
  <1>4. ASSUME Len(s) > 1 PROVE Tail(s) # <<>> /\ Tail(s)[Len(Tail(s))] = s[Len(s)]
    <2>1. Len(s) - 1 \in 1 .. Len(Tail(s)) /\ Len(s) - 1 + 1 = Len(s)
      BY <1>1, <1>2, <1>4
    <2>2. Tail(s)[Len(s) - 1] = s[Len(s) - 1 + 1]
      BY <1>2, <2>1
    <2>3. Len(Tail(s)) # 0
      BY <1>1, <1>2, <1>4
    <2> QED
      BY <1>2, <2>1, <2>2, <2>3, EmptySeq
  <1> QED
    BY <1>1, <1>2, <1>3, <1>4

LEMMA Initially == Init => IInv
  <1> SUFFICES ASSUME Init PROVE IInv
    OBVIOUS
  <1> DEFINE s == <<"reset", "select", "calibrate", "present", "transfer", "transfer">>
  <1>0. s \in Seq(Function) /\ Len(s) = 6 /\ s[6] = "transfer" /\ s # <<>>
    BY DEF Function, Composite
  <1>1. todo \in Seq(Function) /\ Len(todo) = 6 /\ todo[6] = "transfer" /\ ~Idle
    BY <1>0 DEF Init, Idle
  <1>2. TypeOK
    <2>1. 0 \in 0 .. Delay /\ 0 \in 0 .. SpinUp /\ 0 \in 0 .. MaxCalls
      BY MotorAssumption
    <2> QED
      BY <1>1, <2>1 DEF Init, TypeOK
  <1> QED
    BY <1>1, <1>2 DEF Init, IInv, Places, Accounted, EndsOff, OffArmed

(* Leaving a function that is not the last leaves the last in its place.     *)
LEMMA Finished ==
  ASSUME IInv, ~Idle, Finish
  PROVE  /\ todo' \in Seq(Function) /\ EndsOff'
         /\ Idle' => Head(todo) \in {"off", "transfer"}
  <1>1. todo \in Seq(Function) /\ todo # <<>>
    BY DEF IInv, TypeOK, Idle
  <1> QED
    BY <1>1, TailType DEF IInv, EndsOff, Finish, Idle

LEMMA Step == IInv /\ [Next]_vars => IInv'
  <1> SUFFICES ASSUME IInv, [Next]_vars PROVE IInv'
    OBVIOUS
  <1> USE MotorAssumption
  <1>1. CASE UNCHANGED vars
    BY <1>1 DEF vars, device, IInv, TypeOK, Places, Accounted, EndsOff, OffArmed, Idle, At
  <1>2. CASE Call
    <2>1. todo' \in Seq(Function) /\ ~Idle' /\ Len(todo') = 1 /\ todo'[1] = "transfer"
      BY <1>2 DEF Call, Function, Composite, Idle
    <2> QED
      BY <1>2, <2>1
      DEF Call, device, IInv, TypeOK, Places, Accounted, EndsOff, OffArmed, Idle, At
  <1>3. CASE Enter
    <2>1. todo \in Seq(Function) /\ todo # <<>> /\ pc = "enter" /\ pc' = "enter"
      BY <1>3 DEF Enter, IInv, TypeOK, Idle
    <2>2. PICK b \in Body(Head(todo)) : todo' = b \o Tail(todo)
      BY <1>3 DEF Enter
    <2>3. b \in Seq(Function) /\ (Head(todo) = "transfer" => b = <<"on", "try1", "off">>)
      BY <1>3, BodyType DEF Enter
    <2>4. todo' \in Seq(Function)
      BY <2>1, <2>2, <2>3, TailType
    <2>5. ~Idle' /\ EndsOff'
      <3>1. CASE Len(todo) = 1
        <4>1. Tail(todo) = <<>> /\ Head(todo) \in {"off", "transfer"}
          BY <2>1, <3>1, TailType DEF IInv, EndsOff, Idle
        <4>2. b = <<"on", "try1", "off">>
          BY <1>3, <2>3, <4>1 DEF Enter, Composite
        <4>3. todo' = <<"on", "try1", "off">>
          BY <2>2, <2>3, <4>1, <4>2, ConcatEmptySeq
        <4>4. Len(todo') = 3 /\ todo'[3] = "off" /\ todo' # <<>>
          BY <4>3
        <4> QED
          BY <4>4 DEF EndsOff, Idle
      <3>2. CASE Len(todo) > 1
        <4> DEFINE t == Tail(todo)
        <4>1. t \in Seq(Function) /\ t # <<>> /\ t[Len(t)] \in {"off", "transfer"}
          BY <2>1, <3>2, TailType DEF IInv, EndsOff, Idle
        <4> HIDE DEF t
        <4>2. Len(b) \in Nat /\ Len(t) \in Nat \ {0}
          BY <2>3, <4>1, LenProperties, EmptySeq
        <4>3. /\ Len(b \o t) = Len(b) + Len(t)
              /\ \A k \in 1 .. Len(b) + Len(t) :
                   (b \o t)[k] = IF k <= Len(b) THEN b[k] ELSE t[k - Len(b)]
          BY <2>3, <4>1, ConcatProperties
        <4>4. /\ Len(b) + Len(t) \in 1 .. Len(b) + Len(t) /\ ~(Len(b) + Len(t) <= Len(b))
              /\ Len(b) + Len(t) - Len(b) = Len(t) /\ Len(b) + Len(t) # 0
          BY <4>2
        <4>5. (b \o t)[Len(b) + Len(t)] = t[Len(t)]
          BY <4>3, <4>4
        <4> QED
          BY <2>2, <4>1, <4>3, <4>4, <4>5, EmptySeq DEF EndsOff, Idle, t
      <3> QED
        <4>1. Len(todo) \in Nat \ {0}
          BY <2>1, TailType
        <4> QED
          BY <3>1, <3>2, <4>1
    <2> QED
      BY <1>3, <2>1, <2>4, <2>5
      DEF Enter, device, IInv, TypeOK, Places, Accounted, OffArmed, Idle, At, Composite
  <1>4. CASE Command
    BY <1>4, Finished
    DEF Command, Goto, Finish, device, IInv, TypeOK, Places, Accounted, EndsOff, OffArmed, Idle, At
  <1>5. CASE OnTest
    BY <1>5, Finished
    DEF OnTest, Goto, Finish, device, IInv, TypeOK, Places, Accounted, EndsOff, OffArmed, Idle, At
  <1>6. CASE OnStore \/ OnMark \/ OnSpin
    <2>1. CASE OnStore
      BY <2>1
      DEF OnStore, Goto, device,
          IInv, TypeOK, Places, Accounted, EndsOff, OffArmed, Idle, At
    <2>2. CASE OnMark
      BY <2>2
      DEF OnMark, Goto, device,
          IInv, TypeOK, Places, Accounted, EndsOff, OffArmed, Idle, At
    <2>3. CASE OnSpin
      BY <2>3, Finished
      DEF OnSpin, Finish, Goto, device,
          IInv, TypeOK, Places, Accounted, EndsOff, OffArmed, Idle, At
    <2> QED
      BY <1>6, <2>1, <2>2, <2>3
  <1>7. CASE OffTest
    BY <1>7, Finished
    DEF OffTest, Goto, Finish, device, IInv, TypeOK, Places, Accounted, EndsOff, OffArmed, Idle, At
  <1>8. CASE OffArm
    BY <1>8, Finished
    DEF OffArm, Goto, Finish, device, IInv, TypeOK, Places, Accounted, EndsOff, OffArmed, Idle, At
  <1>9. CASE ResetOut \/ ResetStore \/ SelectClear \/ SelectStore
    <2>1. CASE ResetOut
      <3>1. ~port' /\ spun' = 0 /\ 0 \in 0 .. SpinUp /\ todo' = todo /\ pc' = "store"
        BY <2>1 DEF ResetOut, Power, Goto
      <3>2. TypeOK'
        BY <2>1, <3>1 DEF ResetOut, Power, Goto, IInv, TypeOK
      <3> QED
        BY <2>1, <3>1, <3>2
        DEF ResetOut, IInv, Places, Accounted, EndsOff, OffArmed, Idle, At
    <2>2. CASE ResetStore
      BY <2>2
      DEF ResetStore, Goto, device,
          IInv, TypeOK, Places, Accounted, EndsOff, OffArmed, Idle, At
    <2>3. CASE SelectClear
      BY <2>3
      DEF SelectClear, Goto, device,
          IInv, TypeOK, Places, Accounted, EndsOff, OffArmed, Idle, At
    <2>4. CASE SelectStore
      BY <2>4
      DEF SelectStore, Goto, device,
          IInv, TypeOK, Places, Accounted, EndsOff, OffArmed, Idle, At
    <2> QED
      BY <1>9, <2>1, <2>2, <2>3, <2>4
  <1>10. CASE Fetch
    BY <1>10
    DEF Fetch, Goto, device, IInv, TypeOK, Places, Accounted, EndsOff, OffArmed, Idle, At
  <1>11. CASE Out
    BY <1>11, Finished
    DEF Out, Power, Goto, Finish, IInv, TypeOK, Places, Accounted, EndsOff, OffArmed, Idle, At
  <1>12. CASE Tick
    BY <1>12
    DEF Tick, Elapse, device, IInv, TypeOK, Places, Accounted, EndsOff, OffArmed, Idle, At
  <1>13. CASE Expire
    <2>1. ~port' /\ todo' = todo /\ pc' = pc /\ al' = al /\ ~reg_dor'
      BY <1>13 DEF Expire, Elapse
    <2>2. 0 \in 0 .. Delay /\ motoff_timer' = 0
      BY <1>13 DEF Expire
    <2>3. wait' \in 0 .. SpinUp /\ spun' \in 0 .. SpinUp
      BY <1>13 DEF Expire, Elapse, IInv, TypeOK
    <2>4. TypeOK'
      BY <1>13, <2>1, <2>2, <2>3 DEF Expire, Elapse, IInv, TypeOK
    <2> QED
      BY <2>1, <2>4 DEF IInv, Places, Accounted, EndsOff, OffArmed, Idle, At
  <1> QED
    BY <1>1, <1>2, <1>3, <1>4, <1>5, <1>6, <1>7, <1>8, <1>9, <1>10, <1>11, <1>12, <1>13
    DEF Next, Driver

LEMMA Invariant == Spec => []IInv
  BY Initially, Step, PTL DEF Spec

(* The driver's variables keep their shapes, whatever calls it makes.        *)
THEOREM MotorTypes == Spec => []TypeOK
  <1>1. IInv => TypeOK
    BY DEF IInv
  <1> QED
    BY Invariant, <1>1, PTL

(* No motor runs that the driver takes for stopped, wherever floppy_timer    *)
(* comes between motor_on's or floppy_select's instructions.                 *)
THEOREM MotorAccounted == Spec => []Accounted
  <1>1. IInv => Accounted
    BY DEF IInv
  <1> QED
    BY Invariant, <1>1, PTL

(* When floppy_read or floppy_write has returned, a running motor will be    *)
(* switched off: motoff_timer counts.                                        *)
THEOREM MotorOffArmed == Spec => []OffArmed
  <1>1. IInv => OffArmed
    BY DEF IInv
  <1> QED
    BY Invariant, <1>1, PTL

-----------------------------------------------------------------------------
(* The motor's speed.                                                       *)

(* The calls that need the motor at speed when they are reached, a try       *)
(* because its seek may find nothing to do; and those that bring it to speed *)
(* or stop it themselves.                                                    *)
Needs == {"command", "try1", "try2", "try3", "try4"}
Makes == {"on", "calibrate", "transfer", "reset", "select"}

(* What is still to do needs the motor as it is now.                         *)
Demand(s) == \E j \in 1 .. Len(s) : s[j] \in Needs /\ \A k \in 1 .. j - 1 : s[k] \notin Makes

Warm == late \/ (port /\ spun = SpinUp)

(* A reset is followed by a select, and that by a motor_on.                  *)
Pairs(s) ==
  \A i \in 1 .. Len(s) - 1 :
    /\ s[i] = "reset" => s[i + 1] = "select"
    /\ s[i] = "select" => s[i + 1] \in {"on", "calibrate"}

(* motor_on's store reaches the port unless the timer comes between, and     *)
(* motstate tells the truth but between fdc_reset and floppy_select.         *)
Coming ==
  ~Idle =>
    /\ At("on", "fetch") => late \/ reg_dor
    /\ At("on", "out") => late \/ al
    /\ At("on", "mark") => late \/ port
    /\ At("on", "spin") => late \/ (port /\ spun + wait >= SpinUp)
    /\ Head(todo) = "select" /\ pc # "enter" => ~motstate
    /\ motstate /\ Head(todo) \notin {"reset", "select"} /\ ~At("on", "spin") => Warm

Speed ==
  /\ Pairs(todo) /\ Coming
  /\ Idle /\ motstate => Warm
  /\ Demand(todo) => Warm

LEMMA DemandHead ==
  ASSUME NEW s \in Seq(Function), s # <<>>
  PROVE  /\ Head(s) \in Needs => Demand(s)
         /\ Head(s) \in Makes => ~Demand(s)
  <1>1. Len(s) \in Nat \ {0} /\ Head(s) = s[1]
    BY EmptySeq
  <1>2. ASSUME Head(s) \in Needs PROVE Demand(s)
    <2>1. 1 \in 1 .. Len(s) /\ 1 .. 1 - 1 = {}
      BY <1>1
    <2> QED
      BY <1>1, <1>2, <2>1 DEF Demand
  <1>3. ASSUME Head(s) \in Makes, Demand(s) PROVE FALSE
    <2>1. PICK j \in 1 .. Len(s) : s[j] \in Needs /\ \A k \in 1 .. j - 1 : s[k] \notin Makes
      BY <1>3 DEF Demand
    <2>2. CASE j = 1
      BY <1>1, <1>3, <2>1, <2>2 DEF Needs, Makes
    <2>3. CASE j > 1
      <3>1. 1 \in 1 .. j - 1
        BY <2>3
      <3> QED
        BY <1>1, <1>3, <2>1, <3>1
    <2> QED
      BY <1>1, <2>2, <2>3
  <1> QED
    BY <1>2, <1>3

LEMMA DemandTail ==
  ASSUME NEW s \in Seq(Function), s # <<>>
  PROVE  /\ Demand(Tail(s)) /\ Head(s) \notin Makes => Demand(s)
         /\ Pairs(s) => Pairs(Tail(s))
         /\ Pairs(s) /\ Len(s) > 1 /\ Head(s) = "reset" => Head(Tail(s)) = "select"
         /\ Pairs(s) /\ Len(s) > 1 /\ Head(s) = "select" => Head(Tail(s)) \in {"on", "calibrate"}
  <1> DEFINE t == Tail(s)
  <1>1. /\ Len(s) \in Nat \ {0} /\ Head(s) = s[1]
        /\ t \in Seq(Function) /\ Len(t) = Len(s) - 1
        /\ \A i \in 1 .. Len(t) : t[i] = s[i + 1]
    BY EmptySeq, HeadTailProperties
  <1> HIDE DEF t
  <1>2. ASSUME Demand(t), Head(s) \notin Makes PROVE Demand(s)
    <2>1. PICK j \in 1 .. Len(t) : t[j] \in Needs /\ \A k \in 1 .. j - 1 : t[k] \notin Makes
      BY <1>2 DEF Demand
    <2>2. j + 1 \in 1 .. Len(s) /\ s[j + 1] \in Needs
      BY <1>1, <2>1
    <2>3. ASSUME NEW k \in 1 .. (j + 1) - 1 PROVE s[k] \notin Makes
      <3>1. CASE k = 1
        BY <1>1, <1>2, <3>1
      <3>2. CASE k > 1
        <4>1. k - 1 \in 1 .. j - 1 /\ k - 1 \in 1 .. Len(t) /\ (k - 1) + 1 = k
          BY <1>1, <2>1, <3>2
        <4> QED
          BY <1>1, <2>1, <4>1
      <3> QED
        BY <3>1, <3>2
    <2> QED
      BY <2>2, <2>3 DEF Demand
  <1>3. ASSUME Pairs(s) PROVE Pairs(t)
    <2> SUFFICES ASSUME NEW i \in 1 .. Len(t) - 1
                 PROVE  /\ t[i] = "reset" => t[i + 1] = "select"
                        /\ t[i] = "select" => t[i + 1] \in {"on", "calibrate"}
      BY DEF Pairs
    <2>1. i \in 1 .. Len(t) /\ i + 1 \in 1 .. Len(t) /\ i + 1 \in 1 .. Len(s) - 1
      BY <1>1
    <2> QED
      BY <1>1, <1>3, <2>1 DEF Pairs
  <1>4. ASSUME Pairs(s), Len(s) > 1
        PROVE  /\ Head(s) = "reset" => Head(t) = "select"
               /\ Head(s) = "select" => Head(t) \in {"on", "calibrate"}
    <2>1. 1 \in 1 .. Len(s) - 1 /\ 1 \in 1 .. Len(t)
      BY <1>1, <1>4
    <2>2. Head(t) = s[1 + 1]
      BY <1>1, <2>1
    <2> QED
      BY <1>1, <1>4, <2>1, <2>2 DEF Pairs
  <1> QED
    BY <1>2, <1>3, <1>4 DEF t

LEMMA Joined ==
  ASSUME NEW b \in Seq(Function), NEW t \in Seq(Function)
  PROVE  /\ b \o t \in Seq(Function)
         /\ Demand(b \o t) => Demand(t) \/ \E j \in 1 .. Len(b) : b[j] \in Needs
         /\ b # <<>> => b \o t # <<>> /\ Head(b \o t) = b[1]
         /\ Pairs(b) /\ Pairs(t) /\ (b # <<>> => b[Len(b)] \notin {"reset", "select"}) => Pairs(b \o t)
  <1> DEFINE s == b \o t
  <1>1. /\ Len(b) \in Nat /\ Len(t) \in Nat
        /\ s \in Seq(Function) /\ Len(s) = Len(b) + Len(t)
        /\ \A i \in 1 .. Len(b) + Len(t) : s[i] = IF i <= Len(b) THEN b[i] ELSE t[i - Len(b)]
    BY ConcatProperties, LenProperties
  <1> HIDE DEF s
  <1>2. ASSUME Demand(s), \A j \in 1 .. Len(b) : b[j] \notin Needs PROVE Demand(t)
    <2>1. PICK j \in 1 .. Len(s) : s[j] \in Needs /\ \A k \in 1 .. j - 1 : s[k] \notin Makes
      BY <1>2 DEF Demand
    <2>2. j > Len(b)
      BY <1>1, <1>2, <2>1
    <2>3. j - Len(b) \in 1 .. Len(t) /\ t[j - Len(b)] \in Needs
      BY <1>1, <2>1, <2>2
    <2>4. ASSUME NEW k \in 1 .. (j - Len(b)) - 1 PROVE t[k] \notin Makes
      <3>1. /\ Len(b) + k \in 1 .. j - 1 /\ Len(b) + k \in 1 .. Len(b) + Len(t)
            /\ (Len(b) + k) - Len(b) = k /\ ~(Len(b) + k <= Len(b))
        BY <1>1, <2>1, <2>2
      <3>2. s[Len(b) + k] = t[k]
        BY <1>1, <3>1
      <3> QED
        BY <2>1, <3>1, <3>2
    <2> QED
      BY <2>3, <2>4 DEF Demand
  <1>3. ASSUME b # <<>> PROVE s # <<>> /\ Head(s) = b[1]
    <2>1. Len(b) \in Nat \ {0}
      BY <1>3, EmptySeq
    <2>2. Len(s) # 0 /\ 1 \in 1 .. Len(s) /\ 1 <= Len(b)
      BY <1>1, <2>1
    <2>3. s # <<>>
      BY <2>2, EmptySeq
    <2> QED
      BY <1>1, <2>2, <2>3
  <1>4. ASSUME Pairs(b), Pairs(t), b # <<>> => b[Len(b)] \notin {"reset", "select"} PROVE Pairs(s)
    <2> SUFFICES ASSUME NEW i \in 1 .. Len(s) - 1
                 PROVE  /\ s[i] = "reset" => s[i + 1] = "select"
                        /\ s[i] = "select" => s[i + 1] \in {"on", "calibrate"}
      BY DEF Pairs
    <2>1. i \in 1 .. Len(b) + Len(t) /\ i + 1 \in 1 .. Len(b) + Len(t)
      BY <1>1
    <2>2. CASE i < Len(b)
      <3>1. i \in 1 .. Len(b) - 1 /\ s[i] = b[i] /\ s[i + 1] = b[i + 1]
        BY <1>1, <2>1, <2>2
      <3> QED
        BY <1>4, <3>1 DEF Pairs
    <2>3. CASE i = Len(b)
      <3>1. b # <<>> /\ s[i] = b[Len(b)]
        BY <1>1, <2>1, <2>3, EmptySeq
      <3> QED
        BY <1>4, <3>1
    <2>4. CASE i > Len(b)
      <3>1. i - Len(b) \in 1 .. Len(t) - 1 /\ (i + 1) - Len(b) = (i - Len(b)) + 1
        BY <1>1, <2>1, <2>4
      <3>2. s[i] = t[i - Len(b)] /\ s[i + 1] = t[(i - Len(b)) + 1]
        BY <1>1, <2>1, <2>4, <3>1
      <3> QED
        BY <1>4, <3>1, <3>2 DEF Pairs
    <2> QED
      BY <1>1, <2>2, <2>3, <2>4
  <1> QED
    BY <1>1, <1>2, <1>3, <1>4 DEF s

(* A function brings the motor to speed first, or needs what it needed.      *)
LEMMA BodySpeed ==
  ASSUME NEW f \in Composite, NEW b \in Body(f)
  PROVE  /\ Pairs(b) /\ (b # <<>> => b[Len(b)] \notin {"reset", "select"})
         /\ \/ f \in Needs
            \/ b # <<>> /\ b[1] = "on"
            \/ f \notin Makes /\ \A j \in 1 .. Len(b) : b[j] \notin Needs
  <1> USE DEF Pairs, Needs, Makes
  <1>1. CASE b = <<>>
    <2>1. Len(b) = 0 /\ f \in {"seek", "present"}
      BY <1>1 DEF Body, Composite
    <2> QED
      BY <1>1, <2>1
  <1>2. CASE b \in {<<"on", "command", "off">>, <<"on", "try1", "off">>}
    BY <1>2
  <1>3. CASE b = <<"seek", "seek">>
    <2>1. f = "present"
      BY <1>3 DEF Body, Composite
    <2> QED
      BY <1>3, <2>1
  <1>4. CASE f \in Needs
    <2>1. CASE b \in {<<"seek", "command">>, <<"seek", "command", "calibrate">>}
      BY <1>4, <2>1
    <2>2. CASE b \in {<<"seek", "command", "calibrate", "try2">>, <<"seek", "command", "calibrate", "try4">>}
      BY <1>4, <2>2
    <2>3. CASE b = <<"seek", "command", "calibrate", "reset", "select", "on", "try3">>
      <3>1. Len(b) = 7 /\ b[4] = "reset" /\ b[5] = "select" /\ b[6] = "on" /\ b[7] = "try3"
        BY <2>3
      <3>2. b[1] = "seek" /\ b[2] = "command" /\ b[3] = "calibrate"
        BY <2>3
      <3>3. Pairs(b)
        BY <3>1, <3>2
      <3> QED
        BY <1>4, <3>1, <3>3
    <2>4. f \in {"try1", "try2", "try3", "try4"}
      BY <1>4 DEF Composite
    <2>5. \/ b \in {<<"seek", "command">>, <<"seek", "command", "calibrate">>}
          \/ b \in {<<"seek", "command", "calibrate", "try2">>,
                    <<"seek", "command", "calibrate", "try4">>}
          \/ b = <<"seek", "command", "calibrate", "reset", "select", "on", "try3">>
      BY <2>4 DEF Body
    <2> QED
      BY <2>1, <2>2, <2>3, <2>5, Zenon
  <1>5. CASE f \in {"seek", "calibrate", "present", "transfer"}
    <2>1. \/ b = <<>> \/ b = <<"seek", "seek">>
          \/ b \in {<<"on", "command", "off">>, <<"on", "try1", "off">>}
      BY <1>5 DEF Body
    <2> QED
      BY <1>1, <1>2, <1>3, <2>1, Zenon
  <1> QED
    BY <1>4, <1>5 DEF Composite

LEMMA FinishedSpeed ==
  ASSUME IInv, Speed, ~Idle, Finish
  PROVE  /\ Pairs(todo')
         /\ Head(todo) \notin Makes /\ Demand(todo') => Demand(todo)
         /\ Head(todo) \in {"reset", "select"} => ~Idle' /\ ~Demand(todo')
         /\ Head(todo) = "reset" => Head(todo') = "select"
  <1>1. todo \in Seq(Function) /\ todo # <<>> /\ todo' = Tail(todo) /\ Pairs(todo)
    BY DEF IInv, TypeOK, Idle, Finish, Speed
  <1>2. ASSUME Head(todo) \in {"reset", "select"}
        PROVE  ~Idle' /\ ~Demand(todo') /\ (Head(todo) = "reset" => Head(todo') = "select")
    <2>1. ~Idle'
      BY <1>2, Finished
    <2>2. todo' \in Seq(Function) /\ todo' # <<>> /\ Len(todo) > 1
      BY <1>1, <2>1, TailType DEF Idle
    <2>3. /\ Head(todo) = "reset" => Head(todo') = "select"
          /\ Head(todo) = "select" => Head(todo') \in {"on", "calibrate"}
      BY <1>1, <2>2, DemandTail
    <2> QED
      BY <1>2, <2>1, <2>2, <2>3, DemandHead DEF Makes
  <1> QED
    BY <1>1, <1>2, DemandTail

LEMMA EnterSpeed ==
  ASSUME IInv, Speed, Enter
  PROVE  Speed'
  <1>1. /\ todo \in Seq(Function) /\ todo # <<>> /\ Pairs(todo) /\ Head(todo) \in Composite
        /\ pc = "enter" /\ pc' = "enter" /\ ~Idle
    BY DEF IInv, TypeOK, Idle, Enter, Speed
  <1>2. PICK b \in Body(Head(todo)) : todo' = b \o Tail(todo)
    BY DEF Enter
  <1>3. UNCHANGED <<port, motstate, spun, late>>
    BY DEF Enter, device
  <1>4. b \in Seq(Function) /\ Tail(todo) \in Seq(Function) /\ Pairs(Tail(todo))
    BY <1>1, BodyType, TailType, DemandTail
  <1>5. /\ Pairs(b) /\ (b # <<>> => b[Len(b)] \notin {"reset", "select"})
        /\ \/ Head(todo) \in Needs
           \/ b # <<>> /\ b[1] = "on"
           \/ Head(todo) \notin Makes /\ \A j \in 1 .. Len(b) : b[j] \notin Needs
    BY <1>1, BodySpeed
  <1>6. Pairs(todo')
    BY <1>2, <1>4, <1>5, Joined
  <1>7. Demand(todo') => Warm
    <2>1. CASE Head(todo) \in Needs
      BY <1>1, <2>1, DemandHead DEF Speed
    <2>2. CASE b # <<>> /\ b[1] = "on"
      <3>1. todo' \in Seq(Function) /\ todo' # <<>> /\ Head(todo') \in Makes
        BY <1>2, <1>4, <2>2, Joined DEF Makes
      <3> QED
        BY <3>1, DemandHead
    <2>3. CASE Head(todo) \notin Makes /\ \A j \in 1 .. Len(b) : b[j] \notin Needs
      BY <1>1, <1>2, <1>4, <2>3, Joined, DemandTail DEF Speed
    <2> QED
      BY <1>5, <2>1, <2>2, <2>3
  <1>8. motstate => Warm
    BY <1>1 DEF Speed, Coming, At, Composite
  <1>9. Warm' <=> Warm
    BY <1>3 DEF Warm
  <1> QED
    BY <1>1, <1>3, <1>6, <1>7, <1>8, <1>9 DEF Speed, Coming, At

LEMMA SpeedStep ==
  ASSUME IInv, Speed, [Next]_vars
  PROVE  Speed'
  <1> USE MotorAssumption
  <1>0. todo \in Seq(Function) /\ spun \in 0 .. SpinUp /\ wait \in 0 .. SpinUp
    BY DEF IInv, TypeOK
  <1>1. ASSUME ~Idle, Finish, UNCHANGED <<port, spun, late>>, Head(todo) \notin {"reset", "select"},
               motstate' => Warm, Head(todo) = "on" => Warm,
               Head(todo) \notin {"calibrate", "transfer"}
        PROVE  Speed'
    <2>1. Pairs(todo') /\ (Demand(todo') => Warm)
      BY <1>1, FinishedSpeed DEF Makes, Speed
    <2>2. Warm' <=> Warm
      BY <1>1 DEF Warm
    <2> QED
      BY <1>1, <2>1, <2>2 DEF Speed, Coming, At, Finish
  <1>2. ASSUME UNCHANGED <<todo, port, spun, late>>, Coming', motstate' => motstate PROVE Speed'
    BY <1>2 DEF Speed, Warm, Idle
  <1>3. CASE UNCHANGED vars
    BY <1>3 DEF vars, device, Speed, Coming, Warm, Idle, At
  <1>4. CASE Call
    <2>1. todo' = <<"transfer">> /\ pc' = "enter" /\ Idle /\ UNCHANGED <<port, motstate, spun, late>>
      BY <1>4 DEF Call, device
    <2>2. Len(todo') = 1 /\ todo'[1] = "transfer"
      BY <2>1
    <2>3. Pairs(todo') /\ ~Demand(todo') /\ ~Idle'
      BY <2>1, <2>2 DEF Pairs, Demand, Needs, Idle
    <2> QED
      BY <2>1, <2>3 DEF Speed, Coming, Warm, At
  <1>5. CASE Command
    <2>1. ~Idle /\ Head(todo) = "command" /\ UNCHANGED <<device, spun, late>>
      BY <1>5 DEF Command, At
    <2>2. motstate => Warm
      BY <2>1 DEF Speed, Coming, At
    <2>3. CASE Finish
      BY <1>1, <2>1, <2>2, <2>3 DEF device
    <2>4. CASE Goto("busy")
      <3>1. todo' = todo /\ pc' = "busy"
        BY <2>4 DEF Goto
      <3>2. Coming'
        BY <2>1, <2>2, <3>1 DEF Coming, At, Warm, device
      <3> QED
        BY <1>2, <2>1, <3>1, <3>2 DEF device
    <2> QED
      BY <1>5, <2>3, <2>4 DEF Command
  <1>6. CASE OnTest
    <2>1. ~Idle /\ Head(todo) = "on" /\ pc = "enter" /\ UNCHANGED <<device, spun, late>>
      BY <1>6 DEF OnTest, At
    <2>2. motstate => Warm
      BY <2>1 DEF Speed, Coming, At
    <2>3. CASE motstate /\ Finish
      BY <1>1, <2>1, <2>2, <2>3 DEF device
    <2>4. CASE ~motstate /\ Goto("store")
      <3>1. todo' = todo /\ pc' = "store"
        BY <2>4 DEF Goto
      <3>2. Coming'
        BY <2>1, <2>4, <3>1 DEF Coming, At, device
      <3> QED
        BY <1>2, <2>1, <3>1, <3>2 DEF device
    <2> QED
      BY <1>6, <2>3, <2>4 DEF OnTest
  <1>7. CASE OnStore
    <2>1. ~Idle /\ Head(todo) = "on" /\ pc = "store" /\ pc' = "fetch" /\ reg_dor'
          /\ UNCHANGED <<todo, port, motstate, spun, late>>
      BY <1>7 DEF OnStore, At, Goto
    <2>2. Coming'
      BY <2>1 DEF Speed, Coming, At, Warm
    <2> QED
      BY <1>2, <2>1, <2>2
  <1>8. CASE Fetch
    <2>1. ~Idle /\ pc = "fetch" /\ pc' = "out" /\ al' = reg_dor
          /\ UNCHANGED <<todo, port, motstate, spun, late>>
      BY <1>8 DEF Fetch, device, Goto, IInv, Places
    <2>2. Coming'
      BY <2>1 DEF Speed, Coming, At, Warm, Idle
    <2> QED
      BY <1>2, <2>1, <2>2
  <1>9. CASE Out
    <2>1. ~Idle /\ pc = "out" /\ Head(todo) \in {"on", "reset", "select"} /\ Power(al)
          /\ UNCHANGED <<reg_dor, motstate, wait>>
      BY <1>9 DEF Out, IInv, Places
    <2>2. CASE Head(todo) = "on"
      <3>1. todo' = todo /\ pc' = "mark" /\ (late' <=> late)
        BY <1>9, <2>2 DEF Out, Goto
      <3>2. ~Demand(todo) /\ Pairs(todo)
        BY <1>0, <2>1, <2>2, DemandHead DEF Makes, Idle, Speed
      <3>3. (late \/ al) /\ (motstate => Warm)
        BY <2>1, <2>2 DEF Speed, Coming, At
      <3>4. Warm => Warm'
        BY <2>1, <3>1, <3>3 DEF Warm, Power
      <3>5. Coming'
        BY <2>1, <2>2, <3>1, <3>3, <3>4 DEF Coming, At, Power
      <3> QED
        BY <2>1, <3>1, <3>2, <3>5 DEF Speed, Idle
    <2>3. CASE Head(todo) # "on"
      <3>1. Finish
        BY <1>9, <2>3 DEF Out
      <3>2. /\ Pairs(todo') /\ ~Idle' /\ ~Demand(todo')
            /\ Head(todo) = "reset" => Head(todo') = "select"
        BY <2>1, <2>3, <3>1, FinishedSpeed
      <3>3. Head(todo) = "select" => ~motstate
        BY <2>1 DEF Speed, Coming
      <3>4. pc' = "enter"
        BY <3>1 DEF Finish
      <3>5. Coming'
        BY <2>1, <2>3, <3>2, <3>3, <3>4 DEF Coming, At
      <3> QED
        BY <3>2, <3>5 DEF Speed
    <2> QED
      BY <2>2, <2>3
  <1>10. CASE OnMark
    <2>1. ~Idle /\ Head(todo) = "on" /\ pc = "mark" /\ pc' = "spin" /\ wait' = SpinUp
          /\ UNCHANGED <<todo, port, spun, late>>
      BY <1>10 DEF OnMark, At, Goto
    <2>2. late \/ port
      BY <2>1 DEF Speed, Coming, At
    <2>3. Coming'
      BY <1>0, <2>1, <2>2 DEF Coming, At
    <2>4. ~Demand(todo) /\ Pairs(todo)
      BY <1>0, <2>1, DemandHead DEF Makes, Idle, Speed
    <2> QED
      BY <2>1, <2>3, <2>4 DEF Speed, Idle
  <1>11. CASE OnSpin
    <2>1. ~Idle /\ Head(todo) = "on" /\ pc = "spin" /\ wait = 0 /\ Finish
          /\ UNCHANGED <<port, motstate, spun, late>>
      BY <1>11 DEF OnSpin, At, device
    <2>2. Warm
      BY <1>0, <2>1 DEF Speed, Coming, At, Warm
    <2> QED
      BY <1>1, <2>1, <2>2
  <1>12. CASE OffTest \/ OffArm
    <2>1. ~Idle /\ Head(todo) = "off" /\ UNCHANGED <<device, spun, late>>
      BY <1>12 DEF OffTest, OffArm, At
    <2>2. motstate => Warm
      BY <2>1 DEF Speed, Coming, At
    <2>3. CASE Finish
      BY <1>1, <2>1, <2>2, <2>3 DEF device
    <2>4. CASE Goto("arm")
      <3>1. todo' = todo /\ pc' = "arm"
        BY <2>4 DEF Goto
      <3>2. Coming'
        BY <2>1, <2>2, <3>1 DEF Coming, At, Warm, device
      <3> QED
        BY <1>2, <2>1, <3>1, <3>2 DEF device
    <2> QED
      BY <1>12, <2>3, <2>4 DEF OffTest, OffArm
  <1>13. CASE ResetOut
    <2>1. ~Idle /\ Head(todo) = "reset" /\ UNCHANGED todo
      BY <1>13 DEF ResetOut, At, Goto
    <2>2. ~Demand(todo) /\ Pairs(todo)
      BY <1>0, <2>1, DemandHead DEF Makes, Idle, Speed
    <2> QED
      BY <2>1, <2>2 DEF Speed, Coming, At, Idle
  <1>14. CASE ResetStore \/ SelectClear \/ SelectStore
    <2>1. ~Idle /\ Head(todo) \in {"reset", "select"} /\ UNCHANGED <<todo, port, spun, late>>
      BY <1>14 DEF ResetStore, SelectClear, SelectStore, At, Goto
    <2>2. (motstate' => motstate) /\ (Head(todo) = "select" => ~motstate')
      BY <1>14 DEF ResetStore, SelectClear, SelectStore, At, Speed, Coming
    <2>3. Coming'
      BY <2>1, <2>2 DEF Coming, At
    <2> QED
      BY <1>2, <2>1, <2>2, <2>3
  <1>15. CASE Tick
    <2>1. /\ UNCHANGED <<todo, pc, al, device, late>>
          /\ wait' = (IF wait > 0 THEN wait - 1 ELSE 0)
          /\ spun' = (IF ~port THEN 0 ELSE IF spun < SpinUp THEN spun + 1 ELSE spun)
      BY <1>15 DEF Tick, Elapse
    <2>2. Warm => Warm'
      BY <1>0, <2>1 DEF Warm, device
    <2>3. port /\ spun + wait >= SpinUp => port' /\ spun' + wait' >= SpinUp
      BY <1>0, <2>1 DEF device
    <2> QED
      BY <2>1, <2>2, <2>3 DEF Speed, Coming, At, Idle, device
  <1>16. CASE Expire
    <2>1. UNCHANGED <<todo, pc>> /\ ~motstate' /\ (late' <=> ~Idle)
      BY <1>16 DEF Expire, Elapse
    <2>2. Demand(todo) => ~Idle
      BY DEF Demand, Idle
    <2> QED
      BY <2>1, <2>2 DEF Speed, Coming, At, Warm, Idle
  <1> QED
    BY <1>3, <1>4, <1>5, <1>6, <1>7, <1>8, <1>9, <1>10, <1>11, <1>12, <1>13, <1>14, <1>15, <1>16, EnterSpeed
    DEF Next, Driver

(* A command is executed with the motor at speed, unless the timer expired  *)
(* in the middle of the operation: for every spin-up time, and although     *)
(* motor_on trusts motstate, which fdc_reset leaves wrong.                  *)
THEOREM MotorAtSpeed == Spec => []AtSpeed
  <1>1. Init => Speed
    <2> SUFFICES ASSUME Init PROVE Speed
      OBVIOUS
    <2> DEFINE s == <<"reset", "select", "calibrate", "present", "transfer", "transfer">>
    <2>1. /\ Len(s) = 6 /\ s[1] = "reset" /\ s[2] = "select" /\ s[3] = "calibrate"
          /\ s[4] = "present" /\ s[5] = "transfer" /\ s[6] = "transfer" /\ Head(s) = "reset"
      OBVIOUS
    <2>2. s \in Seq(Function) /\ s # <<>> /\ todo = s
      BY DEF Function, Composite, Init
    <2> HIDE DEF s
    <2>3. Pairs(s)
      BY <2>1 DEF Pairs
    <2>4. ~Demand(s)
      BY <2>1, <2>2, DemandHead DEF Makes
    <2> QED
      BY <2>1, <2>2, <2>3, <2>4 DEF Init, Speed, Coming, At, Idle
  <1>2. IInv /\ Speed /\ [Next]_vars => Speed'
    BY SpeedStep
  <1>3. IInv /\ Speed => AtSpeed
    <2> SUFFICES ASSUME IInv, Speed, At("command", "busy") PROVE Warm
      BY DEF AtSpeed, Warm
    <2> QED
      BY DemandHead DEF At, Idle, IInv, TypeOK, Speed, Needs
  <1> QED
    BY <1>1, <1>2, <1>3, Invariant, PTL DEF Spec

-----------------------------------------------------------------------------
(* The DMA driver.                                                           *)
Below == OpToRel(<, Nat)

LEMMA BelowIs == \A x \in Nat, y \in Nat : x < y => <<x, y>> \in Below
BY DEF Below, OpToRel

LEMMA HasMax ==
  ASSUME NEW n \in Nat, NEW S \in SUBSET (0 .. n - 1), S # {}
  PROVE  Max(S) \in S /\ \A y \in S : Max(S) >= y
<1> DEFINE T == {k \in Nat : \E u \in S : k = n - u}
<1>1. T \subseteq Nat /\ T # {}
  <2>1. PICK u \in S : TRUE
    OBVIOUS
  <2>2. n - u \in Nat
    OBVIOUS
  <2> QED
    BY <2>2
<1>2. IsWellFoundedOn(Below, Nat)
  BY NatLessThanWellFounded DEF Below
<1> HIDE DEF T
<1>3. PICK k \in T : \A j \in T : ~(<<j, k>> \in Below)
  BY <1>1, <1>2, WFMin, Zenon
<1>4. k \in Nat /\ \A j \in T : j >= k
  <2>1. k \in Nat
    BY <1>1, <1>3
  <2>2. ASSUME NEW j \in T PROVE j >= k
    <3>1. j \in Nat /\ ~(<<j, k>> \in Below)
      BY <1>1, <1>3
    <3>2. ~(j < k)
      BY <2>1, <3>1, BelowIs, Zenon
    <3> QED
      BY <2>1, <3>1, <3>2
  <2> QED
    BY <2>1, <2>2
<1> USE DEF T
<1>5. PICK u \in S : k = n - u
  OBVIOUS
<1>6. \A y \in S : u >= y
  <2> TAKE y \in S
  <2>1. n - y \in T
    OBVIOUS
  <2> QED
    BY <1>4, <1>5, <2>1
<1> QED
  BY <1>5, <1>6 DEF Max

(* As long as buffers come back last in, first out those in use are the      *)
(* lowest ones.                                                              *)
Pool ==
  /\ used \in SUBSET Buffer
  /\ held = Cardinality(used)
  /\ inOrder \in BOOLEAN /\ panicked \in BOOLEAN
  /\ inOrder => used = 0 .. held - 1
  /\ panicked /\ inOrder => used = Buffer

poolVars == <<used, held, inOrder, panicked>>

LEMMA PoolFinite ==
  ASSUME used \in SUBSET Buffer
  PROVE  IsFiniteSet(used) /\ Cardinality(used) \in Nat
<1>1. IsFiniteSet(Buffer)
  <2>1. 0 \in Int /\ PoolSize - 1 \in Int
    BY DmaAssumption
  <2> QED
    BY <2>1, FS_Interval, Zenon DEF Buffer
<1>2. IsFiniteSet(used)
  BY <1>1, FS_Subset, Zenon
<1> QED
  BY <1>2, FS_CardinalityType, Zenon

(* The scan ends past every buffer in use.                                   *)
LEMMA ScanFree ==
  ASSUME used \in SUBSET Buffer
  PROVE  Scan \in Nat /\ Scan \notin used /\ \A b \in used : b < Scan
<1>1. CASE used = {}
  BY <1>1 DEF Scan
<1>2. CASE used # {}
  <2>1. Max(used) \in used /\ \A y \in used : Max(used) >= y
    BY <1>2, DmaAssumption, HasMax DEF Buffer
  <2>2. Max(used) \in Nat /\ \A b \in used : b \in Nat
    <3>1. \A b \in Buffer : b \in Nat
      BY DmaAssumption DEF Buffer
    <3> QED
      BY <2>1, <3>1
  <2>3. Scan = Max(used) + 1
    BY <1>2 DEF Scan
  <2> HIDE DEF Scan
  <2> QED
    BY <2>1, <2>2, <2>3
<1> QED
  BY <1>1, <1>2

LEMMA AllocKeepsPool ==
  ASSUME Pool, AllocBuffer
  PROVE  Pool'
<1>1. used \in SUBSET Buffer /\ inOrder' = inOrder /\ inOrder \in BOOLEAN /\ panicked = FALSE
  BY DEF Pool, AllocBuffer
<1>2. IsFiniteSet(used) /\ Cardinality(used) \in Nat /\ held = Cardinality(used)
  BY PoolFinite DEF Pool
<1>3. Scan \in Nat /\ Scan \notin used /\ \A b \in used : b < Scan
  BY <1>1, ScanFree
<1>4. inOrder => Scan = held
  <2> SUFFICES ASSUME inOrder PROVE Scan = held
    OBVIOUS
  <2>1. used = 0 .. held - 1 /\ held \in Nat
    BY <1>2 DEF Pool
  <2>2. CASE held = 0
    BY <1>2, <2>1, <2>2 DEF Scan
  <2>3. CASE held > 0
    <3>1. held - 1 \in used /\ used # {}
      BY <2>1, <2>3
    <3>2. Max(used) \in used /\ \A y \in used : Max(used) >= y
      BY <1>1, <3>1, DmaAssumption, HasMax DEF Buffer
    <3>3. Max(used) = held - 1
      BY <2>1, <3>1, <3>2
    <3> QED
      BY <1>2, <3>1, <3>3 DEF Scan
  <2> QED
    BY <1>2, <2>2, <2>3
<1> HIDE DEF Scan
<1>5. CASE Scan \in Buffer
  <2>1. used' = used \cup {Scan} /\ held' = held + 1 /\ panicked' = panicked
    BY <1>5 DEF AllocBuffer
  <2>2. Cardinality(used') = held'
    BY <1>2, <1>3, <2>1, FS_AddElement
  <2>3. inOrder => used' = 0 .. held' - 1
    BY <1>2, <1>4, <2>1 DEF Pool
  <2> QED
    BY <1>1, <1>5, <2>1, <2>2, <2>3 DEF Pool
<1>6. CASE Scan \notin Buffer
  <2>1. used' = used /\ held' = held /\ panicked' = TRUE
    BY <1>6 DEF AllocBuffer
  <2>2. inOrder => used = Buffer
    BY <1>1, <1>2, <1>3, <1>4, <1>6, DmaAssumption DEF Pool, Buffer
  <2> QED
    BY <1>1, <2>1, <2>2 DEF Pool
<1> QED
  BY <1>5, <1>6

LEMMA FreeKeepsPool ==
  ASSUME Pool, NEW b \in Buffer, FreeBuffer(b)
  PROVE  Pool'
<1>1. /\ b \in used /\ used' = used \ {b} /\ held' = held - 1
      /\ inOrder' = (inOrder /\ b = Max(used)) /\ panicked' = FALSE
      /\ used \in SUBSET Buffer
  BY DEF FreeBuffer, Pool
<1>2. IsFiniteSet(used) /\ Cardinality(used) \in Nat /\ held = Cardinality(used)
  BY PoolFinite DEF Pool
<1>3. held' = Cardinality(used')
  BY <1>1, <1>2, FS_RemoveElement
<1>4. ASSUME inOrder' PROVE used' = 0 .. held' - 1
  <2>1. inOrder /\ b = Max(used) /\ used = 0 .. held - 1
    BY <1>1, <1>4 DEF Pool
  <2>2. b \in used /\ \A y \in used : b >= y
    BY <1>1, <2>1, DmaAssumption, HasMax DEF Buffer
  <2>3. held \in Nat
    BY <1>2
  <2>5. held > 0
    BY <2>1, <2>2, <2>3
  <2>4. b = held - 1
    BY <2>1, <2>2, <2>3
  <2> QED
    BY <1>1, <2>1, <2>3, <2>4, <2>5
<1> QED
  BY <1>1, <1>3, <1>4 DEF Pool

LEMMA StillPool == Pool /\ UNCHANGED poolVars => Pool'
BY DEF Pool, poolVars

(* What isa_dma_init_transfer wrote last.                                    *)
Written ==
  \/ programmed.channel = 0
  \/ /\ programmed.channel \in Usable
     /\ programmed.address = AddressWritten(programmed.channel)
     /\ programmed.count = CountWritten(programmed.channel)

LEMMA WrittenElsewhere == Written => MissesItsChannel
<1> SUFFICES ASSUME Written, programmed.channel # 0
             PROVE  /\ programmed.address # AddressRegister(programmed.channel)
                    /\ programmed.count # CountRegister(programmed.channel)
  BY DEF MissesItsChannel
<1>1. PICK ch \in {1, 2, 3, 5, 6, 7} : programmed.channel = ch
  BY DEF Written, Usable, Channel
<1>2. programmed.address = AddressWritten(ch) /\ programmed.count = CountWritten(ch)
  BY <1>1 DEF Written
<1>3. AddressWritten(ch) # AddressRegister(ch) /\ CountWritten(ch) # CountRegister(ch)
  BY DEF AddressWritten, AddressRegister, CountWritten, CountRegister, Port
<1> QED
  BY <1>1, <1>2, <1>3

LEMMA ProgramWrites == \A ch : Program(ch) => Written'
BY DEF Program, Written

(* Nobody unmasks the floppy's channel.                                      *)
Masked == ~stray /\ (job = "transfer" => 2 \in masked)

Dma == Pool /\ Written /\ Masked

LEMMA DmaStarts == MCInit => Dma
<1> SUFFICES ASSUME MCInit PROVE Dma
  OBVIOUS
<1>1. DmaInit /\ ~stray
  BY DEF MCInit, XferInit
<1>2. Pool
  <2>1. Cardinality({}) = 0
    BY FS_EmptySet
  <2>2. {} = 0 .. 0 - 1
    OBVIOUS
  <2> QED
    BY <1>1, <2>1, <2>2 DEF DmaInit, Pool
<1> QED
  BY <1>1, <1>2 DEF DmaInit, Dma, Written, Masked, Channel

(* Of the driver's steps one takes a buffer and one programs the channel.    *)
LEMMA XferAndDma ==
  ASSUME XferNext
  PROVE  /\ AllocBuffer \/ UNCHANGED poolVars
         /\ (\E ch : Program(ch)) \/ UNCHANGED programmed
         /\ UNCHANGED masked
         /\ ~stray /\ 2 \in masked => ~stray'
<1> USE DEF dmaVars, poolVars, machine
<1>1. CASE Alloc
  BY <1>1 DEF Alloc, AllocBuffer
<1>2. CASE Start
  BY <1>2 DEF Start, InitTransfer
<1>3. CASE Expand
  BY <1>3 DEF Expand
<1>4. CASE Present
  BY <1>4 DEF Present
<1>5. CASE SendByte
  BY <1>5 DEF SendByte
<1>6. CASE GetSr0
  BY <1>6 DEF GetSr0
<1>7. CASE GetTrack
  <2>1. UNCHANGED <<irq_signaled, status, reg_sr0, req, xfers, head, answer, stray, env, inStep,
  dmaVars>>
    BY <1>7, Zenon DEF GetTrack
  <2> QED
    BY <2>1
<1>8. CASE Drain
  BY <1>8 DEF Drain
<1>9. CASE WaitInt
  BY <1>9 DEF WaitInt
<1>10. CASE Clear
  BY <1>10 DEF Clear
<1>11. CASE ResetPulse
  BY <1>11 DEF ResetPulse
<1>12. CASE Judge
  BY <1>12 DEF Judge
<1>13. CASE NextSector
  BY <1>13 DEF NextSector
<1>14. CASE InitCalls
  BY <1>14 DEF InitCalls
<1>15. CASE XferCall
  BY <1>15 DEF XferCall
<1>16. CASE SeekDone
  BY <1>16 DEF SeekDone
<1>17. CASE ExecDone
  BY <1>17 DEF ExecDone
<1> QED
  BY <1>1, <1>2, <1>3, <1>4, <1>5, <1>6, <1>7, <1>8, <1>9, <1>10, <1>11, <1>12, <1>13, <1>14,
     <1>15, <1>16, <1>17 DEF XferNext, XferDriver, Controller

LEMMA DmaSteps == Dma /\ [MCNext]_all => Dma'
<1> SUFFICES ASSUME Dma, [MCNext]_all PROVE Dma'
  OBVIOUS
<1>1. CASE UNCHANGED <<xferVars, job>>
  BY <1>1, StillPool DEF Dma, Written, Masked, xferVars, dmaVars, poolVars, machine
<1>2. CASE XferJob /\ XferNext
  <2>1. /\ AllocBuffer \/ UNCHANGED poolVars
        /\ (\E ch : Program(ch)) \/ UNCHANGED programmed
        /\ UNCHANGED masked
        /\ ~stray /\ 2 \in masked => ~stray'
    BY <1>2, XferAndDma
  <2>2. Pool'
    BY <2>1, AllocKeepsPool, StillPool DEF Dma
  <2>3. Written'
    BY <2>1, ProgramWrites DEF Dma, Written
  <2>4. Masked'
    BY <1>2, <2>1 DEF Dma, Masked, XferJob
  <2> QED
    BY <2>2, <2>3, <2>4 DEF Dma
<1>3. CASE DmaJob /\ DmaNext
  <2>1. Masked'
    BY <1>3 DEF DmaJob, Dma, Masked, machine
  <2>2. CASE AllocBuffer
    BY <2>1, <2>2, AllocKeepsPool DEF AllocBuffer, Dma, Written
  <2>3. CASE \E b \in Buffer : FreeBuffer(b)
    BY <2>1, <2>3, FreeKeepsPool DEF FreeBuffer, Dma, Written
  <2>4. CASE \E ch \in Usable : MaskChannel(ch) \/ UnmaskChannel(ch)
    BY <2>1, <2>4, StillPool DEF MaskChannel, UnmaskChannel, WriteMask, poolVars, Dma, Written
  <2>5. CASE \E ch \in Usable : InitTransfer(ch)
    BY <2>1, <2>5, StillPool, ProgramWrites DEF InitTransfer, poolVars, Dma
  <2> QED
    BY <1>3, <2>2, <2>3, <2>4, <2>5 DEF DmaNext
<1> QED
  BY <1>1, <1>2, <1>3 DEF MCNext, MotorJob, all

(* Whatever the size of the pool, no buffer is handed out twice and, as long *)
(* as buffers come back in order, none is refused that is free; no transfer  *)
(* programs its channel, and the channel never moves data.                   *)
THEOREM DmaIsSound == MCSpec => []DmaSound
<1>1. Dma => DmaSound
  BY WrittenElsewhere DEF Dma, Pool, Masked, DmaSound, PoolSound, NoStrayDma
<1> QED
  BY <1>1, DmaStarts, DmaSteps, PTL DEF MCSpec

-----------------------------------------------------------------------------
(* The driver's commands and the controller.                                 *)
Bytes8 == 0 .. 255

OpNames ==
  Compound \cup {"alloc", "present", "read", "write", "next", "send", "getSr0", "getTrack", "waitint", "drain",
                 "clear", "dor", "start", "judge"}

(* A command as long as its first byte says.                                 *)
Whole(c) == c # <<>> /\ c[1] \in DOMAIN CommandLength /\ Len(c) = CommandLength[c[1]]

Operations == [op : OpNames, arg : Nat, bytes : Seq(Bytes8)]
(* An operation not yet begun sends a whole command; one command may be      *)
(* half sent, and only that of the operation at the head.                    *)
Fresh == {o \in Operations : o.op = "send" => o.arg = 0 /\ Whole(o.bytes)}
Begun == {o \in Operations : o.op = "send" /\ o.arg # 0 /\ o.bytes # <<>>}

Mid == ops # <<>> /\ Head(ops) \in Begun

OpsOK == ops # <<>> => Head(ops) \in Fresh \cup Begun /\ Tail(ops) \in Seq(Fresh)

Controllers ==
  [phase : {"command", "execution", "result"}, bytes : Seq(Bytes8), result : Seq(Bytes8),
   goal : Bytes8 \cup {-1}, pending : Seq(Bytes8)]

FdcOK == fdc \in Controllers /\ head \in Bytes8

Requests == [write : BOOLEAN, lba : Nat, num : Nat, res : {0, -3}]

ReqOK ==
  /\ status \in [1 .. 7 -> Bytes8] /\ reg_sr0 \in Bytes8 /\ track \in 0 .. Words - 1
  /\ req \in Requests
  /\ req.res = -3 => req.write
  /\ env \in [answers : BOOLEAN, prompt : BOOLEAN, protected : BOOLEAN]

(* A result waits exactly in the result phase, and only a whole read or      *)
(* write is executed.                                                        *)
Consistent(f) ==
  /\ f.phase = "result" <=> f.result # <<>>
  /\ Len(f.result) <= 7
  /\ f.phase = "result" => f.bytes = <<>>
  /\ f.phase = "execution" => Whole(f.bytes) /\ f.bytes[1] \in {69, 70}

(* What the controller has of a command and what the driver still has to     *)
(* send of it make a whole one; between commands both have nothing.          *)
Phases ==
  /\ Consistent(fdc)
  /\ ~env.answers => fdc.phase = "command" /\ fdc.bytes = <<>>
  /\ env.answers /\ fdc.phase = "command" =>
       IF Mid THEN fdc.bytes # <<>> /\ Whole(fdc.bytes \o Head(ops).bytes) ELSE fdc.bytes = <<>>

StepInv == inStep /\ ops \in Seq(Operations) /\ OpsOK /\ FdcOK /\ ReqOK /\ Phases

LEMMA FreshSeq ==
  ASSUME NEW s \in Seq(Fresh), s # <<>>
  PROVE  Head(s) \in Fresh /\ Tail(s) \in Seq(Fresh)
OBVIOUS

LEMMA Shorter ==
  ASSUME NEW r \in Seq(Bytes8), r # <<>>
  PROVE  /\ Head(r) \in Int /\ Head(r) \in Bytes8 /\ Tail(r) \in Seq(Bytes8)
         /\ Len(r) # 1 <=> Tail(r) # <<>>
         /\ Len(Tail(r)) = Len(r) - 1
<1>1. Head(r) \in Bytes8 /\ Tail(r) \in Seq(Bytes8) /\ Len(Tail(r)) = Len(r) - 1 /\ Len(r) \in Nat
  OBVIOUS
<1>2. Bytes8 \subseteq Int
  BY DEF Bytes8
<1>3. Len(r) # 1 <=> Tail(r) # <<>>
  <2> DEFINE t == Tail(r)
  <2>1. Len(t) = Len(r) - 1 /\ Len(r) \in Nat /\ t \in Seq(Bytes8)
    BY <1>1
  <2> HIDE DEF t
  <2>2. Len(r) # 1 <=> t # <<>>
    BY <2>1
  <2> QED
    BY <2>2 DEF t
<1> QED
  BY <1>1, <1>2, <1>3

LEMMA EndToEnd ==
  ASSUME NEW S, NEW s \in Seq(S), NEW t \in Seq(S)
  PROVE  s \o t \in Seq(S) /\ Len(s \o t) = Len(s) + Len(t)
OBVIOUS

(* The first of one sequence may be the last of another.                     *)
LEMMA Moved ==
  ASSUME NEW S, NEW s \in Seq(S), NEW t \in Seq(S), t # <<>>
  PROVE  Append(s, Head(t)) \o Tail(t) = s \o t
OBVIOUS

LEMMA OneMore ==
  ASSUME NEW S, NEW s \in Seq(S), NEW e \in S
  PROVE  Append(s, e) \in Seq(S) /\ Append(s, e) # <<>>
<1>1. Append(s, e) \in Seq(S) /\ Len(Append(s, e)) = Len(s) + 1 /\ Len(s) \in Nat
  OBVIOUS
<1> DEFINE z == Append(s, e)
<1>2. z \in Seq(S) /\ Len(z) > 0
  BY <1>1
<1> HIDE DEF z
<1>3. z # <<>>
  BY <1>2
<1> QED
  BY <1>2, <1>3 DEF z

LEMMA Two ==
  ASSUME NEW S, NEW a \in S, NEW b \in S
  PROVE  <<a, b>> \in Seq(S)
OBVIOUS

LEMMA Three ==
  ASSUME NEW S, NEW a \in S, NEW b \in S, NEW c \in S
  PROVE  <<a, b, c>> \in Seq(S)
OBVIOUS

LEMMA Nine ==
  ASSUME NEW S, NEW a \in S, NEW b \in S, NEW c \in S, NEW d \in S, NEW e \in S, NEW f \in S, NEW g \in S,
         NEW h \in S, NEW i \in S
  PROVE  <<a, b, c, d, e, f, g, h, i>> \in Seq(S)
OBVIOUS

LEMMA Lengths ==
  /\ CommandLength[3] = 3 /\ CommandLength[7] = 2 /\ CommandLength[8] = 1 /\ CommandLength[15] = 3
  /\ CommandLength[16] = 1 /\ CommandLength[19] = 4 /\ CommandLength[69] = 9 /\ CommandLength[70] = 9
  /\ DOMAIN CommandLength = {3, 7, 8, 15, 16, 19, 69, 70}
BY DEF CommandLength

LEMMA Commands ==
  /\ Send(<<8>>) \in Fresh /\ Send(<<16>>) \in Fresh /\ Send(<<7, 0>>) \in Fresh
  /\ Specify \in Fresh /\ Configure \in Fresh
  /\ \A c \in Bytes8 : Send(<<15, 0, c>>) \in Fresh
<1>1. "send" \in OpNames
  BY DEF OpNames
<1>2. ASSUME NEW c \in Seq(Bytes8), Whole(c)
      PROVE  Send(c) \in Fresh
  BY <1>1, <1>2 DEF Fresh, Operations, Send
<1>3. <<8>> \in Seq(Bytes8) /\ Whole(<<8>>)
  BY Lengths DEF Whole, Bytes8
<1>4. <<16>> \in Seq(Bytes8) /\ Whole(<<16>>)
  BY Lengths DEF Whole, Bytes8
<1>5. <<7, 0>> \in Seq(Bytes8) /\ Whole(<<7, 0>>)
  BY Lengths DEF Whole, Bytes8
<1>6. <<3, 133, 10>> \in Seq(Bytes8) /\ Whole(<<3, 133, 10>>)
  BY Lengths DEF Whole, Bytes8
<1>7. <<19, 0, 23, 0>> \in Seq(Bytes8) /\ Whole(<<19, 0, 23, 0>>)
  BY Lengths DEF Whole, Bytes8
<1>8. \A c \in Bytes8 : <<15, 0, c>> \in Seq(Bytes8) /\ Whole(<<15, 0, c>>)
  BY Lengths DEF Whole, Bytes8
<1> QED
  BY <1>2, <1>3, <1>4, <1>5, <1>6, <1>7, <1>8 DEF Specify, Configure

LEMMA Cylinder ==
  ASSUME NEW lba \in Nat
  PROVE  /\ Chs(lba)[1] \in Nat /\ Chs(lba)[1] \in 0 .. Words - 1
         /\ Chs(lba)[2] \in {0, 1} /\ Chs(lba)[3] \in 1 .. 18
<1>1. (lba \div 36) \in Nat /\ ((lba \div 36) % Words) \in 0 .. Words - 1
  BY SMTT(30) DEF Words
<1>2. ((lba % 36) \div 18) \in {0, 1}
  OBVIOUS
<1>3. (lba % 18) + 1 \in 1 .. 18
  OBVIOUS
<1> QED
  BY <1>1, <1>2, <1>3 DEF Chs

LEMMA TransferIsFresh ==
  ASSUME NEW lba \in Nat, NEW write \in BOOLEAN
  PROVE  /\ TransferBytes(write, Chs(lba)) \in Seq(Bytes8)
         /\ Send(TransferBytes(write, Chs(lba))) \in Fresh
<1> DEFINE c == Chs(lba)
<1>1. c[1] \in Nat /\ c[2] \in {0, 1} /\ c[3] \in 1 .. 18
  BY Cylinder
<1> HIDE DEF c
<1>2. (c[2] * 4) \in Bytes8 /\ (c[1] % 256) \in Bytes8 /\ c[2] \in Bytes8 /\ c[3] \in Bytes8
  <2>1. (c[1] % 256) \in 0 .. 255
    BY <1>1
  <2> QED
    BY <1>1, <2>1 DEF Bytes8
<1>3. TransferBytes(write, c) \in Seq(Bytes8) /\ Whole(TransferBytes(write, c))
  <2>1. CASE write
    <3>1. TransferBytes(write, c) = <<69, c[2] * 4, c[1] % 256, c[2], c[3], 2, 80, 27, 255>>
      BY <2>1 DEF TransferBytes, TransferBytesOf
    <3> QED
      BY <1>2, <3>1, Lengths DEF Whole, Bytes8
  <2>2. CASE ~write
    <3>1. TransferBytes(write, c) = <<70, c[2] * 4, c[1] % 256, c[2], c[3], 2, 80, 27, 255>>
      BY <2>2 DEF TransferBytes, TransferBytesOf
    <3> QED
      BY <1>2, <3>1, Lengths DEF Whole, Bytes8
  <2> QED
    BY <2>1, <2>2
<1>4. Send(TransferBytes(write, c)) \in Fresh
  BY <1>3 DEF Fresh, Operations, Send, OpNames
<1> QED
  BY <1>3, <1>4 DEF c

(* Any other operation is one that sends nothing.                            *)
LEMMA Plain ==
  ASSUME NEW name \in OpNames \ {"send"}, NEW a \in Nat
  PROVE  Op(name, a) \in Fresh
BY DEF Op, Fresh, Operations

LEMMA SectorsFresh ==
  ASSUME NEW n \in Nat
  PROVE  Sectors(n) \in Seq(Fresh)
<1>1. n # 0 => Op("try", 0) \in Fresh /\ Op("next", n - 1) \in Fresh
  <2>1. "try" \in OpNames \ {"send"} /\ "next" \in OpNames \ {"send"} /\ 0 \in Nat /\ (n # 0 => n - 1 \in Nat)
    BY DEF OpNames, Compound
  <2> QED
    BY <2>1, Plain
<1> QED
  BY <1>1 DEF Sectors

LEMMA PartsFresh ==
  ASSUME NEW o \in Operations, o.op \in Compound, track \in 0 .. Words - 1, req.lba \in Nat, req.write \in BOOLEAN
  PROVE  Parts(o) \in Seq(Fresh)
<1>1. \A name \in OpNames \ {"send"} : \A a \in Nat : Op(name, a) \in Fresh
  BY Plain
<1>2. /\ {"clear", "dor", "sense", "getTrack", "getSr0", "wait", "seek", "start", "judge", "waitint", "drain"}
           \subseteq OpNames \ {"send"}
      /\ o.arg \in Nat
  BY DEF OpNames, Compound, Operations
<1>3. ASSUME NEW d \in Nat PROVE Sense(d) \in Seq(Fresh)
  <2>1. Op("getSr0", 0) \in Fresh /\ Op("getTrack", d) \in Fresh
    BY <1>1, <1>2, <1>3
  <2>2. Send(<<8>>) \in Fresh
    BY Commands
  <2> QED
    BY <2>1, <2>2, Three DEF Sense
<1>4. ASSUME NEW n \in Nat PROVE Wait(n) \in Seq(Fresh)
  <2>1. Op("waitint", 0) \in Fresh /\ Op("drain", 0) \in Fresh /\ Op("sense", 0) \in Fresh /\ Op("clear", 0) \in Fresh
    BY <1>1, <1>2
  <2> QED
    BY <2>1 DEF Wait
<1>5. ASSUME NEW c \in Nat PROVE Seek(c) \in Seq(Fresh)
  <2>1. (c % 256) \in Bytes8
    BY <1>5 DEF Bytes8
  <2>2. Send(<<15, 0, c % 256>>) \in Fresh /\ Op("wait", 1) \in Fresh
    BY <1>1, <1>2, <2>1, Commands
  <2> QED
    BY <2>2 DEF Seek
<1>6. CASE o.op = "reset"
  <2> DEFINE parts == <<Op("clear", 0), Op("dor", 0), Op("sense", 0), Op("sense", 1), Op("sense", 2),
                        Op("sense", 3), Op("clear", 0), Configure, Specify>>
  <2>1. /\ Op("clear", 0) \in Fresh /\ Op("dor", 0) \in Fresh
        /\ Op("sense", 0) \in Fresh /\ Op("sense", 1) \in Fresh /\ Op("sense", 2) \in Fresh /\ Op("sense", 3) \in Fresh
    BY <1>1, <1>2
  <2>2. Configure \in Fresh /\ Specify \in Fresh
    BY Commands
  <2>3. Parts(o) = parts
    BY <1>6 DEF Parts
  <2>4. parts \in Seq(Fresh)
    BY <2>1, <2>2, Nine, Zenon
  <2> HIDE DEF parts
  <2> QED
    BY <2>3, <2>4
<1>7. CASE o.op = "version"
  <2>1. Op("getTrack", 1) \in Fresh
    BY <1>1, <1>2
  <2>2. Send(<<16>>) \in Fresh
    BY Commands
  <2> DEFINE parts == <<Send(<<16>>), Op("getTrack", 1)>>
  <2>3. Parts(o) = parts
    BY <1>7 DEF Parts
  <2>4. parts \in Seq(Fresh)
    BY <2>1, <2>2, Two, Zenon
  <2> HIDE DEF parts
  <2> QED
    BY <2>3, <2>4
<1>8. CASE o.op = "select"
  BY <1>8, Commands DEF Parts
<1>9. CASE o.op = "calibrate"
  <2>1. Op("wait", 1) \in Fresh
    BY <1>1, <1>2
  <2> QED
    BY <1>9, <2>1, Commands DEF Parts
<1>10. CASE o.op = "seek"
  BY <1>2, <1>5, <1>10 DEF Parts
<1>11. CASE o.op = "try"
  <2> DEFINE c == Chs(req.lba)
  <2>1. c[1] \in Nat
    BY Cylinder
  <2>2. Send(TransferBytes(req.write, c)) \in Fresh
    BY TransferIsFresh
  <2> HIDE DEF c
  <2>3. /\ Op("seek", c[1]) \in Fresh /\ Op("start", 0) \in Fresh /\ Op("wait", 0) \in Fresh
        /\ Op("judge", o.arg) \in Fresh
    BY <1>1, <1>2, <2>1
  <2>4. Parts(o) = <<Op("seek", c[1]), Op("start", 0), Send(TransferBytes(req.write, c)), Op("wait", 0),
                     Op("judge", o.arg)>>
    BY <1>11 DEF Parts, c
  <2> QED
    BY <2>2, <2>3, <2>4
<1>12. CASE o.op = "wait"
  BY <1>2, <1>4, <1>12 DEF Parts
<1>13. CASE o.op = "sense"
  BY <1>2, <1>3, <1>13 DEF Parts
<1> QED
  BY <1>6, <1>7, <1>8, <1>9, <1>10, <1>11, <1>12, <1>13 DEF Compound

(* What is put before the rest of the operations is fresh, or a command      *)
(* begun.                                                                    *)
LEMMA Continued ==
  ASSUME StepInv, ops # <<>>, NEW with \in Seq(Fresh), Continue(with)
  PROVE  ops' \in Seq(Operations) /\ OpsOK' /\ ~Mid'
<1>1. Tail(ops) \in Seq(Fresh)
  BY DEF StepInv, OpsOK
<1>2. ops' \in Seq(Fresh)
  BY <1>1 DEF Continue
<1>3. ops' # <<>> => Head(ops') \in Fresh /\ Tail(ops') \in Seq(Fresh)
  BY <1>2
<1>4. ops' \in Seq(Operations)
  BY <1>2 DEF Fresh
<1> QED
  BY <1>3, <1>4 DEF OpsOK, Mid, Fresh, Begun
LEMMA ResultsOK ==
  ASSUME NEW f \in Controllers, NEW r \in Seq(Bytes8), r # <<>>, Len(r) <= 7
  PROVE  /\ Results(f, r) \in Controllers /\ Consistent(Results(f, r))
         /\ Results(f, r).phase = "result" /\ Results(f, r).goal = f.goal /\ Results(f, r).pending = f.pending
         /\ Results(f, r).result = r
<1>1. Results(f, r) = [phase |-> "result", bytes |-> <<>>, result |-> r, goal |-> f.goal, pending |-> f.pending]
  <2> DEFINE g == [f EXCEPT !.phase = "result"]
             h == [g EXCEPT !.result = r]
  <2>1. Results(f, r) = [h EXCEPT !.bytes = <<>>]
    BY DEF Results
  <2>2. g = [phase |-> "result", bytes |-> f.bytes, result |-> f.result, goal |-> f.goal, pending |-> f.pending]
    BY DEF Controllers
  <2> HIDE DEF g
  <2>3. h = [phase |-> "result", bytes |-> f.bytes, result |-> r, goal |-> f.goal, pending |-> f.pending]
    BY <2>2
  <2> HIDE DEF h
  <2> QED
    BY <2>1, <2>3
<1>2. <<>> \in Seq(Bytes8)
  OBVIOUS
<1>3. Results(f, r) \in Controllers
  BY <1>1, <1>2 DEF Controllers
<1> QED
  BY <1>1, <1>3 DEF Consistent

(* The heads are sent somewhere.                                             *)
LEMMA SeekOK ==
  ASSUME NEW f \in Controllers, Consistent(f), f.phase = "command", f.bytes = <<>>, NEW g \in Bytes8 \cup {-1}
  PROVE  /\ [f EXCEPT !.goal = g] \in Controllers /\ Consistent([f EXCEPT !.goal = g])
         /\ [f EXCEPT !.goal = g].bytes = <<>>
<1>1. [f EXCEPT !.goal = g] = [phase |-> f.phase, bytes |-> f.bytes, result |-> f.result, goal |-> g,
                               pending |-> f.pending]
  BY DEF Controllers
<1>2. [f EXCEPT !.goal = g] \in Controllers
  BY <1>1 DEF Controllers
<1> QED
  BY <1>1, <1>2 DEF Consistent

(* Interrupts are remembered or forgotten.                                   *)
LEMMA PendingOK ==
  ASSUME NEW f \in Controllers, Consistent(f), NEW p \in Seq(Bytes8)
  PROVE  /\ [f EXCEPT !.pending = p] \in Controllers /\ Consistent([f EXCEPT !.pending = p])
         /\ [f EXCEPT !.pending = p].bytes = f.bytes /\ [f EXCEPT !.pending = p].phase = f.phase
<1>1. [f EXCEPT !.pending = p] = [phase |-> f.phase, bytes |-> f.bytes, result |-> f.result, goal |-> f.goal,
                                  pending |-> p]
  BY DEF Controllers
<1>2. [f EXCEPT !.pending = p] \in Controllers
  BY <1>1 DEF Controllers
<1> QED
  BY <1>1, <1>2 DEF Consistent

(* A whole command is carried out, and its bytes are gone unless it is a     *)
(* transfer.                                                                 *)
LEMMA ExecutedOK ==
  ASSUME NEW f \in Controllers, f.phase = "command", Consistent(f), head \in Bytes8,
         NEW c \in Seq(Bytes8), Whole(c)
  PROVE  /\ Executed(f, c) \in Controllers /\ Consistent(Executed(f, c))
         /\ Executed(f, c).phase = "command" => Executed(f, c).bytes = <<>>
<1> DEFINE idle == [f EXCEPT !.bytes = <<>>]
<1>1. idle \in Controllers /\ Consistent(idle) /\ idle.bytes = <<>>
  BY DEF Controllers, Consistent
<1>2. c[1] \in {3, 7, 8, 15, 16, 19, 69, 70} /\ c # <<>>
  BY Lengths DEF Whole
<1>3. CASE c[1] \in {3, 19}
  BY <1>1, <1>3 DEF Executed
<1>4. CASE c[1] = 16
  <2>1. Executed(f, c) = Results(f, <<144>>)
    BY <1>4 DEF Executed
  <2>2. <<144>> \in Seq(Bytes8) /\ <<144>> # <<>> /\ Len(<<144>>) <= 7
    BY DEF Bytes8
  <2> QED
    BY <2>1, <2>2, ResultsOK
<1>5. CASE c[1] = 8 /\ f.pending = <<>>
  <2>1. Executed(f, c) = Results(f, <<128>>)
    BY <1>5 DEF Executed
  <2>2. <<128>> \in Seq(Bytes8) /\ <<128>> # <<>> /\ Len(<<128>>) <= 7
    BY DEF Bytes8
  <2> QED
    BY <2>1, <2>2, ResultsOK
<1>6. CASE c[1] = 8 /\ f.pending # <<>>
  <2> DEFINE r == <<Head(f.pending), head>>
             g == Results(f, r)
  <2>1. Executed(f, c) = [g EXCEPT !.pending = Tail(@)]
    BY <1>6 DEF Executed
  <2>2. Head(f.pending) \in Bytes8 /\ Tail(f.pending) \in Seq(Bytes8)
    BY <1>6 DEF Controllers
  <2>3. r \in Seq(Bytes8) /\ r # <<>> /\ Len(r) <= 7
    BY <2>2
  <2> HIDE DEF r
  <2>4. g \in Controllers /\ Consistent(g) /\ g.phase = "result" /\ g.pending = f.pending
    BY <2>3, ResultsOK
  <2> HIDE DEF g
  <2>5. Executed(f, c) = [g EXCEPT !.pending = Tail(f.pending)]
    BY <2>1, <2>4
  <2> QED
    BY <2>2, <2>4, <2>5, PendingOK
<1>7. CASE c[1] = 7
  <2>1. Executed(f, c) = [idle EXCEPT !.goal = 0]
    BY <1>7 DEF Executed
  <2>2. 0 \in Bytes8 /\ idle.phase = "command"
    BY DEF Bytes8, Controllers
  <2> HIDE DEF idle
  <2> QED
    BY <1>1, <2>1, <2>2, SeekOK
<1>8. CASE c[1] = 15
  <2>1. Executed(f, c) = [idle EXCEPT !.goal = c[3]]
    BY <1>8 DEF Executed
  <2>2. c[3] \in Bytes8
    <3>1. Len(c) = CommandLength[15]
      BY <1>8 DEF Whole
    <3>2. Len(c) = 3
      BY <3>1, Lengths
    <3>3. 3 \in 1 .. Len(c) /\ DOMAIN c = 1 .. Len(c)
      BY <3>2
    <3> QED
      BY <3>3
  <2>3. idle.phase = "command"
    BY DEF Controllers
  <2> HIDE DEF idle
  <2> QED
    BY <1>1, <2>1, <2>2, <2>3, SeekOK
<1>9. CASE c[1] \in {69, 70}
  <2>1. Executed(f, c) = [f EXCEPT !.phase = "execution", !.bytes = c]
    BY <1>9 DEF Executed
  <2>2. Executed(f, c) = [phase |-> "execution", bytes |-> c, result |-> f.result, goal |-> f.goal,
                          pending |-> f.pending]
    BY <2>1 DEF Controllers
  <2> QED
    BY <1>9, <2>2 DEF Controllers, Consistent
<1> QED
  BY <1>2, <1>3, <1>4, <1>5, <1>6, <1>7, <1>8, <1>9
(* The next byte of a result is taken.                                       *)
LEMMA TakenOK ==
  ASSUME StepInv, Taken
  PROVE  /\ FdcOK' \/ ~(head' = head)
         /\ fdc' \in Controllers /\ Consistent(fdc')
         /\ Byte \in Int
         /\ fdc.phase # "result" => fdc' = fdc
         /\ fdc.phase = "result" => fdc'.phase \in {"result", "command"} /\ fdc'.bytes = <<>>
<1>1. fdc \in Controllers /\ Consistent(fdc)
  BY DEF StepInv, FdcOK, Phases
<1>2. CASE fdc.phase # "result"
  BY <1>1, <1>2 DEF Taken, FdcOK, Byte, StepInv
<1>3. CASE fdc.phase = "result"
  <2>1. fdc.result # <<>> /\ fdc.bytes = <<>> /\ fdc.result \in Seq(Bytes8) /\ Len(fdc.result) <= 7
    BY <1>1, <1>3 DEF Consistent, Controllers
  <2>2. /\ Head(fdc.result) \in Int /\ Tail(fdc.result) \in Seq(Bytes8)
        /\ Len(fdc.result) # 1 => Tail(fdc.result) # <<>>
        /\ Len(Tail(fdc.result)) = Len(fdc.result) - 1
    BY <2>1, Shorter
  <2>3. Byte \in Int
    BY <1>3, <2>2 DEF Byte
  <2>4. CASE Len(fdc.result) = 1
    <3> DEFINE g == [fdc EXCEPT !.phase = "command"]
    <3>1. fdc' = [g EXCEPT !.result = <<>>]
      BY <1>3, <2>4 DEF Taken
    <3>2. g = [phase |-> "command", bytes |-> fdc.bytes, result |-> fdc.result, goal |-> fdc.goal,
               pending |-> fdc.pending]
      BY <1>1 DEF Controllers
    <3> HIDE DEF g
    <3>3. fdc' = [phase |-> "command", bytes |-> fdc.bytes, result |-> <<>>, goal |-> fdc.goal,
                  pending |-> fdc.pending]
      BY <3>1, <3>2
    <3> QED
      BY <1>1, <1>3, <2>1, <2>3, <3>3 DEF Controllers, Consistent, FdcOK, StepInv
  <2>5. CASE Len(fdc.result) # 1
    <3>1. fdc' = [fdc EXCEPT !.result = Tail(@)]
      BY <1>3, <2>5 DEF Taken
    <3>2. fdc' = [phase |-> fdc.phase, bytes |-> fdc.bytes, result |-> Tail(fdc.result), goal |-> fdc.goal,
                  pending |-> fdc.pending]
      BY <1>1, <3>1 DEF Controllers
    <3>3. Tail(fdc.result) # <<>> /\ Len(Tail(fdc.result)) <= 7
      <4>1. Len(fdc.result) \in Nat
        BY <2>1
      <4> QED
        BY <2>1, <2>2, <2>5, <4>1
    <3> QED
      BY <1>1, <1>3, <2>1, <2>2, <2>3, <3>2, <3>3 DEF Controllers, Consistent, FdcOK, StepInv
  <2> QED
    BY <2>4, <2>5
<1> QED
  BY <1>2, <1>3

LEMMA ByteOK ==
  ASSUME StepInv, Taken
  PROVE  (Byte % 256) \in Bytes8
<1>1. Byte \in Int
  BY TakenOK
<1>2. \A b \in Int : (b % 256) \in 0 .. 255
  OBVIOUS
<1> QED
  BY <1>1, <1>2 DEF Bytes8

(* An operation that is not a command leaves the controller between          *)
(* commands, and the next too.                                               *)
LEMMA TakesReply ==
  ASSUME StepInv, ops # <<>>, Head(ops).op # "send", NEW with \in Seq(Fresh), Continue(with),
         Taken \/ UNCHANGED fdc, UNCHANGED <<env, head, inStep>>
  PROVE  inStep' /\ ops' \in Seq(Operations) /\ OpsOK' /\ FdcOK' /\ Phases'
<1>1. ops' \in Seq(Operations) /\ OpsOK' /\ ~Mid'
  BY Continued
<1>2. ~Mid /\ fdc \in Controllers /\ head \in Bytes8
  BY DEF Mid, Begun, StepInv, FdcOK
<1>3. CASE UNCHANGED fdc
  BY <1>1, <1>2, <1>3 DEF StepInv, Phases, FdcOK
<1>4. CASE Taken
  <2>1. /\ fdc' \in Controllers /\ Consistent(fdc')
        /\ fdc.phase # "result" => fdc' = fdc
        /\ fdc.phase = "result" => fdc'.phase \in {"result", "command"} /\ fdc'.bytes = <<>>
    BY <1>4, TakenOK
  <2>2. env.answers /\ fdc.phase = "command" => fdc.bytes = <<>>
    BY <1>2 DEF StepInv, Phases
  <2>3. ~env.answers => fdc.phase = "command" /\ fdc.bytes = <<>>
    BY DEF StepInv, Phases
  <2>4. ~env'.answers => fdc'.phase = "command" /\ fdc'.bytes = <<>>
    BY <2>1, <2>3
  <2>5. env'.answers /\ fdc'.phase = "command" => fdc'.bytes = <<>>
    BY <2>1, <2>2
  <2> QED
    BY <1>1, <1>2, <2>1, <2>4, <2>5 DEF StepInv, Phases, FdcOK
<1> QED
  BY <1>3, <1>4
LEMMA HeadOp ==
  ASSUME StepInv, ops # <<>>
  PROVE  Head(ops) \in Operations /\ Head(ops).arg \in Nat /\ Tail(ops) \in Seq(Fresh)
BY DEF StepInv, OpsOK, Fresh, Begun, Operations

LEMMA NumbersOK ==
  ASSUME StepInv
  PROVE  /\ reg_sr0 \in Bytes8 /\ track \in 0 .. Words - 1 /\ status \in [1 .. 7 -> Bytes8]
         /\ req.lba \in Nat /\ req.write \in BOOLEAN /\ req.num \in Nat
BY DEF StepInv, ReqOK, Requests

LEMMA ExpandStep ==
  ASSUME StepInv, Expand
  PROVE  StepInv'
<1>1. PICK name \in Compound : Doing(name)
  BY DEF Expand
<1>2. ops # <<>> /\ Head(ops).op \in Compound /\ Head(ops).op # "send"
  BY <1>1 DEF Doing, Compound
<1>3. Parts(Head(ops)) \in Seq(Fresh)
  BY <1>2, HeadOp, NumbersOK, PartsFresh
<1>4. inStep' /\ ops' \in Seq(Operations) /\ OpsOK' /\ FdcOK' /\ Phases'
  BY <1>2, <1>3, TakesReply DEF Expand, machine
<1> QED
  BY <1>4 DEF Expand, StepInv, ReqOK

LEMMA PresentStep ==
  ASSUME StepInv, Present
  PROVE  StepInv'
<1>1. ops # <<>> /\ Head(ops).op = "present" /\ Head(ops).op # "send"
  BY DEF Present, Doing
<1>2. PICK changed \in BOOLEAN : Continue(IF changed THEN <<Op("seek", 79), Op("seek", 0)>> ELSE <<>>)
  BY DEF Present
<1>3. Op("seek", 79) \in Fresh /\ Op("seek", 0) \in Fresh
  <2>1. "seek" \in OpNames \ {"send"}
    BY DEF OpNames, Compound
  <2> QED
    BY <2>1, Plain
<1> DEFINE with == IF changed THEN <<Op("seek", 79), Op("seek", 0)>> ELSE <<>>
<1>4. with \in Seq(Fresh)
  BY <1>3
<1> HIDE DEF with
<1>5. inStep' /\ ops' \in Seq(Operations) /\ OpsOK' /\ FdcOK' /\ Phases'
  BY <1>1, <1>2, <1>4, TakesReply DEF Present, machine, with
<1> QED
  BY <1>5 DEF Present, StepInv, ReqOK

LEMMA NoMore == <<>> \in Seq(Fresh)
OBVIOUS

LEMMA GetSr0Step ==
  ASSUME StepInv, GetSr0
  PROVE  StepInv'
<1>1. ops # <<>> /\ Head(ops).op # "send" /\ Continue(<<>>) /\ Taken
  BY DEF GetSr0, Doing
<1>2. inStep' /\ ops' \in Seq(Operations) /\ OpsOK' /\ FdcOK' /\ Phases'
  BY <1>1, NoMore, TakesReply DEF GetSr0
<1>3. reg_sr0' \in Bytes8
  BY <1>1, ByteOK DEF GetSr0
<1> QED
  BY <1>2, <1>3 DEF GetSr0, StepInv, ReqOK

LEMMA GetTrackStep ==
  ASSUME StepInv, GetTrack
  PROVE  StepInv'
<1>1. ops # <<>> /\ Head(ops).op # "send" /\ Continue(<<>>) /\ Taken
  BY DEF GetTrack, Doing
<1>2. inStep' /\ ops' \in Seq(Operations) /\ OpsOK' /\ FdcOK' /\ Phases'
  BY <1>1, NoMore, TakesReply DEF GetTrack
<1>3. track' \in 0 .. Words - 1
  <2>1. Byte \in Int /\ track \in 0 .. Words - 1
    BY <1>1, TakenOK, NumbersOK
  <2>2. Byte % Words \in 0 .. Words - 1
    BY <2>1, SMTT(30) DEF Words
  <2> QED
    BY <2>1, <2>2 DEF GetTrack
<1> QED
  BY <1>2, <1>3 DEF GetTrack, StepInv, ReqOK

LEMMA DrainStep ==
  ASSUME StepInv, Drain
  PROVE  StepInv'
<1> DEFINE n == Head(ops).arg
<1>1. ops # <<>> /\ Head(ops).op # "send"
  BY DEF Drain, Doing
<1>2. n \in Nat
  BY <1>1, HeadOp
<1>3. CASE n < StatusSize /\ RQM
  <2>1. Continue(<<Op("drain", n + 1)>>) /\ status' = [status EXCEPT ![n + 1] = Byte % 256] /\ Taken
    BY <1>3 DEF Drain
  <2>2. <<Op("drain", n + 1)>> \in Seq(Fresh)
    <3>1. "drain" \in OpNames \ {"send"} /\ n + 1 \in Nat
      BY <1>2 DEF OpNames, Compound
    <3> HIDE DEF n
    <3>2. Op("drain", n + 1) \in Fresh
      BY <3>1, Plain
    <3> QED
      BY <3>2
  <2> HIDE DEF n
  <2>3. inStep' /\ ops' \in Seq(Operations) /\ OpsOK' /\ FdcOK' /\ Phases'
    BY <1>1, <2>1, <2>2, TakesReply DEF Drain
  <2>4. status' \in [1 .. 7 -> Bytes8]
    <3>1. Byte % 256 \in Bytes8
      BY <2>1, ByteOK
    <3> QED
      BY <2>1, <3>1, NumbersOK
  <2> QED
    BY <2>3, <2>4 DEF Drain, StepInv, ReqOK
<1>4. CASE ~(n < StatusSize /\ RQM)
  <2>1. Continue(<<>>) /\ UNCHANGED <<status, fdc>>
    BY <1>4 DEF Drain
  <2> HIDE DEF n
  <2>2. inStep' /\ ops' \in Seq(Operations) /\ OpsOK' /\ FdcOK' /\ Phases'
    BY <1>1, <2>1, NoMore, TakesReply DEF Drain
  <2> QED
    BY <2>1, <2>2 DEF Drain, StepInv, ReqOK
<1> QED
  BY <1>3, <1>4

LEMMA WaitIntStep ==
  ASSUME StepInv, WaitInt
  PROVE  StepInv'
<1>1. ops # <<>> /\ Head(ops).op # "send" /\ Continue(<<>>)
  BY DEF WaitInt, Doing
<1>2. inStep' /\ ops' \in Seq(Operations) /\ OpsOK' /\ FdcOK' /\ Phases'
  BY <1>1, NoMore, TakesReply DEF WaitInt, machine
<1> QED
  BY <1>2 DEF WaitInt, StepInv, ReqOK

LEMMA ClearStep ==
  ASSUME StepInv, Clear
  PROVE  StepInv'
<1>1. ops # <<>> /\ Head(ops).op # "send" /\ Continue(<<>>)
  BY DEF Clear, Doing
<1>2. inStep' /\ ops' \in Seq(Operations) /\ OpsOK' /\ FdcOK' /\ Phases'
  BY <1>1, NoMore, TakesReply DEF Clear, machine
<1> QED
  BY <1>2 DEF Clear, StepInv, ReqOK

LEMMA AllocStep ==
  ASSUME StepInv, Alloc
  PROVE  StepInv'
<1>1. ops # <<>> /\ Head(ops).op # "send" /\ Continue(<<>>)
  BY DEF Alloc, Doing
<1>2. inStep' /\ ops' \in Seq(Operations) /\ OpsOK' /\ FdcOK' /\ Phases'
  BY <1>1, NoMore, TakesReply DEF Alloc, machine
<1> QED
  BY <1>2 DEF Alloc, StepInv, ReqOK

LEMMA StartStep ==
  ASSUME StepInv, Start
  PROVE  StepInv'
<1>1. ops # <<>> /\ Head(ops).op # "send" /\ Continue(<<>>)
  BY DEF Start, Doing
<1>2. inStep' /\ ops' \in Seq(Operations) /\ OpsOK' /\ FdcOK' /\ Phases'
  BY <1>1, NoMore, TakesReply DEF Start
<1> QED
  BY <1>2 DEF Start, StepInv, ReqOK
LEMMA ResetStep ==
  ASSUME StepInv, ResetPulse
  PROVE  StepInv'
<1>1. ops # <<>> /\ Continue(<<Op("waitint", 0)>>)
  BY DEF ResetPulse, Doing
<1>2. <<Op("waitint", 0)>> \in Seq(Fresh)
  <2>1. "waitint" \in OpNames \ {"send"}
    BY DEF OpNames, Compound
  <2>2. Op("waitint", 0) \in Fresh
    BY <2>1, Plain
  <2> QED
    BY <2>2
<1>3. ops' \in Seq(Operations) /\ OpsOK' /\ ~Mid'
  BY <1>1, <1>2, Continued
<1>4. fdc' = [phase |-> "command", bytes |-> <<>>, result |-> <<>>, goal |-> -1, pending |-> <<192, 193, 194, 195>>]
  BY DEF ResetPulse, Idle0
<1>5. <<192, 193, 194, 195>> \in Seq(Bytes8) /\ <<>> \in Seq(Bytes8)
  BY DEF Bytes8
<1>6. FdcOK'
  <2>1. fdc' \in Controllers
    BY <1>4, <1>5 DEF Controllers
  <2> QED
    BY <2>1 DEF FdcOK, ResetPulse, StepInv
<1>7. Phases'
  BY <1>3, <1>4 DEF Phases, Consistent
<1> QED
  BY <1>3, <1>6, <1>7 DEF ResetPulse, StepInv, ReqOK

LEMMA JudgeStep ==
  ASSUME StepInv, Judge
  PROVE  StepInv'
<1> DEFINE i == Head(ops).arg
           good == Tmout = 0 /\ status[1] \div 64 = 0
           again == IF i = 1 THEN <<Op("reset", 0), Op("select", 0)>> ELSE <<>>
           retry == IF i < 3 THEN <<Op("try", i + 1)>> ELSE <<>>
           with == IF good THEN <<>> ELSE <<Op("calibrate", 0)>> \o again \o retry
<1>1. ops # <<>> /\ Head(ops).op # "send" /\ Continue(with)
  BY DEF Judge, Doing
<1>2. i \in Nat
  BY <1>1, HeadOp
<1>3. with \in Seq(Fresh)
  <2>1. {"calibrate", "reset", "select", "try"} \subseteq OpNames \ {"send"}
    BY DEF OpNames, Compound
  <2>2. Op("calibrate", 0) \in Fresh /\ Op("reset", 0) \in Fresh /\ Op("select", 0) \in Fresh
    BY <2>1, Plain
  <2>3. Op("try", i + 1) \in Fresh
    <3>1. i + 1 \in Nat
      BY <1>2
    <3> HIDE DEF i
    <3> QED
      BY <2>1, <3>1, Plain
  <2>4. again \in Seq(Fresh)
    BY <2>2
  <2>5. retry \in Seq(Fresh)
    BY <2>3
  <2>6. <<Op("calibrate", 0)>> \in Seq(Fresh)
    BY <2>2
  <2> HIDE DEF again, retry, good
  <2> QED
    BY <2>4, <2>5, <2>6
<1> HIDE DEF with
<1>4. inStep' /\ ops' \in Seq(Operations) /\ OpsOK' /\ FdcOK' /\ Phases'
  BY <1>1, <1>3, TakesReply DEF Judge, machine
<1>5. reg_sr0' \in Bytes8 /\ track' \in 0 .. Words - 1 /\ status' \in [1 .. 7 -> Bytes8]
  <2>1. status \in [1 .. 7 -> Bytes8]
    BY NumbersOK
  <2>2. status[1] \in Bytes8 /\ status[4] \in Bytes8
    BY <2>1
  <2>3. Bytes8 \subseteq 0 .. Words - 1
    <3>1. Words \in Nat /\ Words > 255
      BY DEF Words
    <3> QED
      BY <3>1 DEF Bytes8
  <2> QED
    BY <2>1, <2>2, <2>3 DEF Judge
<1>6. req' \in Requests /\ (req'.res = -3 => req'.write)
  <2>1. PICK r \in {0, -3} : req' = [req EXCEPT !.res = r] /\ (r = -3 => req.write)
    BY DEF Judge, Tmout
  <2> QED
    BY <2>1 DEF StepInv, ReqOK, Requests
<1> QED
  BY <1>4, <1>5, <1>6 DEF Judge, StepInv, ReqOK

LEMMA RequestOK ==
  ASSUME NEW write \in BOOLEAN, NEW lba \in Nat, NEW n \in Nat
  PROVE  /\ [write |-> write, lba |-> lba, num |-> n, res |-> 0] \in Requests
         /\ [write |-> write, lba |-> lba, num |-> n, res |-> 0].res # -3
BY DEF Requests

LEMMA TransferOK ==
  ASSUME NEW write \in BOOLEAN, NEW lba \in Nat, NEW n \in Nat, Transfer(write, lba, n)
  PROVE  req' \in Requests /\ (req'.res = -3 => req'.write)
<1>1. req' = [write |-> write, lba |-> lba, num |-> n, res |-> 0]
  BY DEF Transfer
<1>2. req'.res # -3
  BY <1>1
<1>3. req' \in Requests
  BY <1>1, RequestOK, Zenon
<1> QED
  BY <1>2, <1>3

LEMMA NextSectorStep ==
  ASSUME StepInv, NextSector
  PROVE  StepInv'
<1>1. ops # <<>> /\ Head(ops).op # "send" /\ Continue(Sectors(Head(ops).arg))
  BY DEF NextSector, Doing
<1>2. Sectors(Head(ops).arg) \in Seq(Fresh)
  BY <1>1, HeadOp, SectorsFresh
<1>3. inStep' /\ ops' \in Seq(Operations) /\ OpsOK' /\ FdcOK' /\ Phases'
  BY <1>1, <1>2, TakesReply DEF NextSector, machine
<1>4. req' \in Requests /\ (req'.res = -3 => req'.write)
  <2>1. req \in Requests /\ (req.res = -3 => req.write)
    BY DEF StepInv, ReqOK
  <2>2. req' = [write |-> req.write, lba |-> req.lba + 1, num |-> req.num, res |-> req.res]
    BY <2>1 DEF NextSector, Requests
  <2>3. req' \in Requests
    BY <2>1, <2>2 DEF Requests
  <2> QED
    BY <2>1, <2>2, <2>3
<1> QED
  BY <1>3, <1>4 DEF NextSector, StepInv, ReqOK

LEMMA InitCallsStep ==
  ASSUME StepInv, InitCalls
  PROVE  StepInv'
<1>1. ops # <<>> /\ Head(ops).op # "send" /\ Continue(Sectors(1))
  BY DEF InitCalls, Doing
<1>2. inStep' /\ ops' \in Seq(Operations) /\ OpsOK' /\ FdcOK' /\ Phases'
  BY <1>1, SectorsFresh, TakesReply DEF InitCalls, machine
<1>3. \/ req' = [write |-> FALSE, lba |-> 0, num |-> 1, res |-> 0]
      \/ req' = [write |-> TRUE, lba |-> 1, num |-> 1, res |-> 0]
  BY DEF InitCalls, Transfer
<1>4. 0 \in Nat /\ 1 \in Nat /\ TRUE \in BOOLEAN /\ FALSE \in BOOLEAN
  OBVIOUS
<1>5. req' \in Requests /\ (req'.res = -3 => req'.write)
  BY <1>3, <1>4, RequestOK, Zenon
<1> QED
  BY <1>2, <1>5 DEF InitCalls, StepInv, ReqOK

LEMMA XferCallStep ==
  ASSUME StepInv, XferCall
  PROVE  StepInv'
<1>1. PICK write \in BOOLEAN, lba \in Lba, n \in 0 .. MaxNum : Transfer(write, lba, n) /\ ops' = Sectors(n)
  BY DEF XferCall
<1>2. lba \in Nat /\ n \in Nat
  BY TransferAssumption
<1>3. ops' \in Seq(Fresh)
  BY <1>1, <1>2, SectorsFresh
<1>4. ops' # <<>> => Head(ops') \in Fresh /\ Tail(ops') \in Seq(Fresh)
  BY <1>3, FreshSeq
<1>5. ops' \in Seq(Operations) /\ OpsOK' /\ ~Mid'
  BY <1>3, <1>4 DEF OpsOK, Mid, Fresh, Begun
<1>6. ~Mid
  BY DEF XferCall, Mid
<1>7. FdcOK' /\ Phases' /\ inStep'
  BY <1>5, <1>6 DEF XferCall, StepInv, FdcOK, Phases, machine
<1>8. req' \in Requests /\ (req'.res = -3 => req'.write)
  BY <1>1, <1>2, TransferOK
<1> QED
  BY <1>5, <1>7, <1>8 DEF XferCall, StepInv, ReqOK, machine
LEMMA SeekDoneStep ==
  ASSUME StepInv, SeekDone
  PROVE  StepInv'
<1>1. fdc \in Controllers /\ Consistent(fdc) /\ fdc.goal >= 0
  BY DEF StepInv, FdcOK, Phases, SeekDone
<1> DEFINE g == [fdc EXCEPT !.goal = -1]
<1>2. g \in Controllers /\ Consistent(g) /\ g.bytes = fdc.bytes /\ g.phase = fdc.phase /\ g.pending = fdc.pending
  <2>1. g = [phase |-> fdc.phase, bytes |-> fdc.bytes, result |-> fdc.result, goal |-> -1, pending |-> fdc.pending]
    BY <1>1 DEF Controllers
  <2>2. g \in Controllers
    BY <1>1, <2>1 DEF Controllers
  <2> QED
    BY <1>1, <2>1, <2>2 DEF Consistent
<1>3. fdc' = [g EXCEPT !.pending = Append(fdc.pending, 32)]
  BY DEF SeekDone
<1>4. Append(fdc.pending, 32) \in Seq(Bytes8)
  <2>1. fdc.pending \in Seq(Bytes8) /\ 32 \in Bytes8
    BY <1>1 DEF Controllers, Bytes8
  <2> QED
    BY <2>1
<1> HIDE DEF g
<1>5. fdc' \in Controllers /\ Consistent(fdc') /\ fdc'.bytes = fdc.bytes /\ fdc'.phase = fdc.phase
  BY <1>2, <1>3, <1>4, PendingOK
<1>6. head' \in Bytes8
  <2>1. fdc.goal \in Bytes8 \cup {-1}
    BY <1>1 DEF Controllers
  <2> QED
    BY <1>1, <2>1 DEF SeekDone, Bytes8
<1>7. UNCHANGED <<ops, inStep, status, reg_sr0, track, req, env>>
  BY DEF SeekDone
<1>8. FdcOK' /\ Phases' /\ OpsOK' /\ ReqOK'
  BY <1>5, <1>6, <1>7 DEF FdcOK, Phases, StepInv, OpsOK, ReqOK, Mid
<1> QED
  BY <1>7, <1>8 DEF StepInv

(* The result of a transfer is seven bytes.                                  *)
LEMMA AnswerOK ==
  ASSUME StepInv, ExecDone
  PROVE  answer' \in Seq(Bytes8) /\ Len(answer') = 7
<1>1. fdc \in Controllers /\ Whole(fdc.bytes) /\ fdc.bytes[1] \in {69, 70}
  BY DEF StepInv, FdcOK, Phases, Consistent, ExecDone
<1>2. fdc.bytes \in Seq(Bytes8) /\ Len(fdc.bytes) = 9
  BY <1>1, Lengths DEF Whole, Controllers
<1> DEFINE last == SubSeq(fdc.bytes, 3, 6)
<1>3. last \in Seq(Bytes8) /\ Len(last) = 4
  BY <1>2
<1> HIDE DEF last
<1>4. PICK a \in {0, 64}, b \in {0, 2, 4} : answer' = <<a, b, 0>> \o last
  <2>1. PICK fails \in BOOLEAN :
          LET protected == fdc.bytes[1] = 69 /\ env.protected
              error == fails \/ protected \/ head # fdc.bytes[3]
          IN answer' = <<IF error THEN 64 ELSE 0, IF protected THEN 2 ELSE IF error THEN 4 ELSE 0, 0>> \o last
    BY DEF ExecDone, last
  <2> QED
    BY <2>1
<1> DEFINE first == <<a, b, 0>>
<1>5. first \in Seq(Bytes8) /\ Len(first) = 3
  BY DEF Bytes8
<1>6. answer' = first \o last
  BY <1>4
<1> HIDE DEF first
<1>7. first \o last \in Seq(Bytes8) /\ Len(first \o last) = Len(first) + Len(last)
  BY <1>3, <1>5, EndToEnd, ZenonT(30)
<1> QED
  BY <1>3, <1>5, <1>6, <1>7

LEMMA ExecDoneStep ==
  ASSUME StepInv, ExecDone
  PROVE  StepInv'
<1>1. answer' \in Seq(Bytes8) /\ Len(answer') = 7 /\ answer' # <<>>
  BY AnswerOK
<1>2. fdc \in Controllers /\ fdc' = Results(fdc, answer')
  BY DEF StepInv, FdcOK, ExecDone
<1>3. Len(answer') <= 7
  BY <1>1
<1>4. fdc' \in Controllers /\ Consistent(fdc') /\ fdc'.phase = "result"
  BY <1>1, <1>2, <1>3, ResultsOK
<1>5. UNCHANGED <<ops, inStep, status, reg_sr0, track, req, env, head>> /\ fdc.phase = "execution"
  BY DEF ExecDone
<1>6. FdcOK' /\ Phases' /\ OpsOK' /\ ReqOK'
  BY <1>4, <1>5 DEF FdcOK, Phases, StepInv, OpsOK, ReqOK, Mid
<1> QED
  BY <1>5, <1>6 DEF StepInv
LEMMA SendStep ==
  ASSUME StepInv, SendByte
  PROVE  StepInv'
<1> DEFINE o == Head(ops)
           b == Head(o.bytes)
           c == Append(fdc.bytes, b)
           rest == [o EXCEPT !.bytes = Tail(@), !.arg = 1]
<1>1. ops # <<>> /\ o.op = "send" /\ o \in Operations /\ o \in Fresh \cup Begun /\ Tail(ops) \in Seq(Fresh)
  BY HeadOp DEF SendByte, Doing, StepInv, OpsOK
<1>2. o.bytes \in Seq(Bytes8) /\ o.bytes # <<>> /\ b \in Bytes8 /\ Tail(o.bytes) \in Seq(Bytes8)
  <2>1. o.bytes \in Seq(Bytes8) /\ o.bytes # <<>>
    BY <1>1 DEF Fresh, Begun, Whole, Operations
  <2> QED
    BY <2>1, Shorter
<1>3. fdc \in Controllers /\ Consistent(fdc) /\ head \in Bytes8 /\ env' = env
  BY DEF StepInv, FdcOK, Phases, SendByte
<1>4. (o.arg = 0 => o \in Fresh /\ Whole(o.bytes)) /\ (o.arg # 0 <=> Mid)
  BY <1>1 DEF Fresh, Begun, Mid
<1>5. inStep'
  BY <1>4 DEF SendByte, StepInv, Phases, Writable
<1>6. c \in Seq(Bytes8) /\ c # <<>> /\ fdc.bytes \in Seq(Bytes8)
  <2>1. fdc.bytes \in Seq(Bytes8)
    BY <1>3 DEF Controllers
  <2> QED
    BY <1>2, <2>1, OneMore
<1>7. Writable => Whole(c \o Tail(o.bytes))
  <2>1. c \o Tail(o.bytes) = fdc.bytes \o o.bytes
    BY <1>2, <1>6, Moved
  <2>2. CASE Mid
    BY <1>4, <2>1, <2>2 DEF StepInv, Phases, Writable
  <2>3. CASE ~Mid
    <3>1. Writable => fdc.bytes = <<>>
      BY <2>3 DEF StepInv, Phases, Writable
    <3>2. <<>> \o o.bytes = o.bytes
      BY <1>2
    <3> QED
      BY <1>4, <2>1, <2>3, <3>1, <3>2
  <2> QED
    BY <2>2, <2>3
<1>8. CASE Len(o.bytes) = 1
  <2>1. Continue(<<>>)
    BY <1>8 DEF SendByte
  <2>2. ops' \in Seq(Operations) /\ OpsOK' /\ ~Mid'
    BY <1>1, <2>1, NoMore, Continued
  <2>3. CASE Writable
    <3>1. Whole(c)
      <4>1. Tail(o.bytes) = <<>>
        BY <1>2, <1>8, Shorter
      <4>2. c \o <<>> = c
        BY <1>6
      <4> QED
        BY <1>7, <2>3, <4>1, <4>2
    <3>2. fdc' = Executed(fdc, c)
      BY <2>3, <3>1 DEF SendByte, Accepted, Whole
    <3>3. fdc' \in Controllers /\ Consistent(fdc') /\ (fdc'.phase = "command" => fdc'.bytes = <<>>)
      BY <1>3, <1>6, <2>3, <3>1, <3>2, ExecutedOK DEF Writable
    <3>4. env.answers
      BY <2>3 DEF Writable
    <3>5. Phases'
      BY <1>3, <2>2, <3>3, <3>4 DEF Phases
    <3> QED
      BY <1>3, <1>5, <2>2, <3>3, <3>5 DEF SendByte, StepInv, FdcOK, ReqOK
  <2>4. CASE ~Writable
    <3>1. fdc' = fdc
      BY <2>4 DEF SendByte
    <3>2. Phases'
      BY <1>3, <2>2, <2>4, <3>1 DEF Phases, Writable, StepInv
    <3> QED
      BY <1>3, <1>5, <2>2, <3>1, <3>2 DEF SendByte, StepInv, FdcOK, ReqOK
  <2> QED
    BY <2>3, <2>4
<1>9. CASE Len(o.bytes) # 1
  <2>1. ops' = <<rest>> \o Tail(ops)
    BY <1>9 DEF SendByte, Continue
  <2>2. rest \in Begun /\ rest \in Operations /\ rest.bytes = Tail(o.bytes)
    <3> DEFINE t == Tail(o.bytes)
               p == [o EXCEPT !.bytes = t]
    <3>1. t # <<>> /\ t \in Seq(Bytes8)
      BY <1>2, <1>9, Shorter
    <3>2. rest = [p EXCEPT !.arg = 1]
      OBVIOUS
    <3> HIDE DEF t
    <3>3. p = [op |-> "send", arg |-> o.arg, bytes |-> t]
      BY <1>1 DEF Operations
    <3> HIDE DEF p
    <3>4. rest = [op |-> "send", arg |-> 1, bytes |-> t]
      BY <3>2, <3>3
    <3> HIDE DEF rest
    <3>5. rest \in Operations
      BY <3>1, <3>4 DEF Operations, OpNames
    <3> QED
      BY <3>1, <3>4, <3>5 DEF Begun, t
  <2> HIDE DEF rest
  <2>3. ops' # <<>> /\ Head(ops') = rest /\ Tail(ops') = Tail(ops)
    BY <1>1, <2>1, <2>2
  <2>4. ops' \in Seq(Operations) /\ OpsOK' /\ Mid'
    <3>1. Tail(ops) \in Seq(Operations)
      BY <1>1 DEF Fresh
    <3>2. ops' \in Seq(Operations)
      BY <2>1, <2>2, <3>1
    <3> QED
      BY <1>1, <2>2, <2>3, <3>2 DEF OpsOK, Mid
  <2>5. CASE Writable
    <3>1. Whole(c \o Head(ops').bytes)
      BY <1>7, <2>2, <2>3, <2>5
    <3>2. c[1] \in DOMAIN CommandLength /\ Len(c) < CommandLength[c[1]]
      <4> DEFINE t == Tail(o.bytes)
                 w == c \o t
      <4>1. t # <<>> /\ t \in Seq(Bytes8)
        BY <1>2, <1>9, Shorter
      <4>2. Whole(w)
        BY <1>7, <2>5
      <4> HIDE DEF t, c
      <4>3. Len(w) = Len(c) + Len(t) /\ Len(t) > 0 /\ w[1] = c[1] /\ Len(c) \in Nat /\ Len(t) \in Nat
        BY <1>6, <4>1
      <4> HIDE DEF w
      <4>4. Len(w) = CommandLength[c[1]] /\ c[1] \in DOMAIN CommandLength
        BY <4>2, <4>3 DEF Whole
      <4> QED
        BY <4>3, <4>4
    <3>3. fdc' = [fdc EXCEPT !.bytes = c]
      BY <2>5, <3>2 DEF SendByte, Accepted
    <3>4. fdc' = [phase |-> fdc.phase, bytes |-> c, result |-> fdc.result, goal |-> fdc.goal, pending |-> fdc.pending]
      BY <1>3, <3>3 DEF Controllers
    <3>5. env.answers /\ fdc.phase = "command"
      BY <2>5 DEF Writable
    <3> HIDE DEF c
    <3>6. fdc' \in Controllers /\ fdc'.bytes = c /\ fdc'.phase = "command" /\ fdc'.result = fdc.result
      BY <1>3, <1>6, <3>4, <3>5 DEF Controllers
    <3>7. Phases'
      BY <1>3, <1>6, <2>4, <3>1, <3>5, <3>6 DEF Phases, Consistent
    <3> QED
      BY <1>3, <1>5, <2>4, <3>6, <3>7 DEF SendByte, StepInv, FdcOK, ReqOK
  <2>6. CASE ~Writable
    <3>1. fdc' = fdc
      BY <2>6 DEF SendByte
    <3>2. Phases'
      BY <1>3, <2>4, <2>6, <3>1 DEF Phases, Writable, StepInv
    <3> QED
      BY <1>3, <1>5, <2>4, <3>1, <3>2 DEF SendByte, StepInv, FdcOK, ReqOK
  <2> QED
    BY <2>5, <2>6
<1> QED
  BY <1>8, <1>9

(* Nothing but a call starts from nothing, and nothing that is left for      *)
(* later changes.                                                            *)
LEMMA StepInvStep ==
  ASSUME StepInv, XferNext
  PROVE  StepInv'
<1>1. ASSUME XferDriver PROVE StepInv'
  BY <1>1, ExpandStep, PresentStep, SendStep, GetSr0Step, GetTrackStep, DrainStep, WaitIntStep,
     ClearStep,
     AllocStep, ResetStep, StartStep, JudgeStep, NextSectorStep, InitCallsStep DEF XferDriver
<1>2. ASSUME Controller PROVE StepInv'
  BY <1>2, SeekDoneStep, ExecDoneStep DEF Controller
<1> QED
  BY <1>1, <1>2, XferCallStep DEF XferNext

LEMMA Booted == Booting \in Seq(Fresh)
<1> DEFINE n == <<"alloc", "reset", "version", "select", "calibrate", "present", "read", "write">>
<1>1. \A name \in {"alloc", "reset", "version", "select", "calibrate", "present", "read", "write"} :
        \A a \in {0, 1} : Op(name, a) \in Fresh
  BY Plain DEF OpNames, Compound
<1>2. /\ Op("alloc", 0) \in Fresh /\ Op("reset", 0) \in Fresh /\ Op("version", 0) \in Fresh
      /\ Op("select", 0) \in Fresh /\ Op("calibrate", 0) \in Fresh /\ Op("present", 0) \in Fresh
      /\ Op("read", 0) \in Fresh /\ Op("write", 1) \in Fresh
  BY <1>1
<1> QED
  BY <1>2 DEF Booting

LEMMA StepInvInit ==
  ASSUME MCInit
  PROVE  StepInv
<1> DEFINE first == IF job = "transfer" THEN Booting ELSE <<>>
<1>1. first \in Seq(Fresh)
  BY Booted, NoMore
<1> HIDE DEF first
<1>2. XferInit(first)
  BY DEF MCInit, first
<1>3. ops = first
  BY <1>2 DEF XferInit
<1>4. ops # <<>> => Head(ops) \in Fresh /\ Tail(ops) \in Seq(Fresh)
  BY <1>1, <1>3, FreshSeq
<1>5. ops \in Seq(Operations) /\ OpsOK /\ ~Mid
  BY <1>1, <1>3, <1>4 DEF OpsOK, Mid, Fresh, Begun
<1>6. FdcOK /\ Phases /\ inStep
  <2>1. fdc = [phase |-> "command", bytes |-> <<>>, result |-> <<>>, goal |-> -1, pending |-> <<>>]
    BY <1>2 DEF XferInit, Idle0
  <2>2. fdc \in Controllers /\ Consistent(fdc)
    BY <2>1 DEF Controllers, Consistent
  <2>3. head \in Bytes8 /\ inStep
    BY <1>2 DEF XferInit, Bytes8
  <2> QED
    BY <1>5, <2>1, <2>2, <2>3 DEF FdcOK, Phases
<1>7. ReqOK
  <2>1. 0 \in Bytes8 /\ 0 \in 0 .. Words - 1
    BY DEF Bytes8, Words
  <2>2. req = [write |-> FALSE, lba |-> 0, num |-> 0, res |-> 0]
    BY <1>2 DEF XferInit
  <2>3. req \in Requests /\ req.res # -3
    BY <2>2, RequestOK
  <2> QED
    BY <1>2, <2>1, <2>3 DEF XferInit, ReqOK
<1> QED
  BY <1>5, <1>6, <1>7 DEF StepInv

(* Steps of the other machines leave the driver and the controller alone.    *)
LEMMA StepInvAlways ==
  ASSUME StepInv, [MCNext]_all
  PROVE  StepInv'
<1>1. CASE XferJob /\ XferNext
  BY <1>1, StepInvStep
<1>2. CASE UNCHANGED <<ops, status, reg_sr0, track, req, fdc, head, env, inStep>>
  BY <1>2 DEF StepInv, OpsOK, FdcOK, ReqOK, Phases, Mid
<1>3. CASE MotorJob /\ Next
  BY <1>2, <1>3 DEF MotorJob, xferVars, driver, machine
<1>4. CASE DmaJob /\ DmaNext
  BY <1>2, <1>4 DEF DmaJob, driver, machine
<1>5. CASE UNCHANGED all
  BY <1>2, <1>5 DEF all, xferVars, driver, machine
<1> QED
  BY <1>1, <1>3, <1>4, <1>5 DEF MCNext

(* However late the controller is and however many bytes time out, it never  *)
(* takes a parameter for a command or a command for a parameter: for all     *)
(* sectors and any number of calls.                                          *)
THEOREM KeepsInStep == MCSpec => []InStep
<1>1. MCInit => StepInv
  BY StepInvInit
<1>2. StepInv /\ [MCNext]_all => StepInv'
  BY StepInvAlways
<1>3. StepInv => InStep
  BY DEF StepInv, InStep
<1> QED
  BY <1>1, <1>2, <1>3, PTL DEF MCSpec

-----------------------------------------------------------------------------
(* A transfer reports nothing but its own outcome. First, the order in which *)
(* the driver's operations stand: which kind may come before which, which    *)
(* must follow at once, and what may end the list.                           *)

(* The kinds of operations, and those of a try up to its end.                *)
Seeking == {"seek", "seeking", "waitSense", "sense0", "asking", "getSr0", "getTrack0"}
Waiting == {"wait", "waitint", "drain", "clear"}
Trying == Seeking \cup Waiting \cup {"sending", "start", "transferring"}
Kinds ==
  Trying \cup {"alloc", "reset", "version", "select", "calibrate", "present", "read", "write", "try", "next",
               "sense", "getTrack", "dor", "judge", "calibrating", "versioning", "setting"}

(* What may still have to be done before an operation.                       *)
MayPrecede(e, k) ==
  /\ k \in {"waitint", "drain"} => e = "waitint"
  /\ k = "getSr0" => e = "asking"
  /\ k \in {"getTrack0", "getTrack"} => e \in {"asking", "versioning", "getSr0"}
  /\ k = "sense0" => e \in {"clear", "dor", "waitint", "drain"}
  /\ k = "waitSense" => e \in {"seeking", "calibrating", "sending"}
  /\ k = "judge" => e \in Trying
  /\ k \in {"try", "next"} => e \notin {"next", "read", "write"}
  /\ k \in {"start", "transferring"} => e \in Trying \ {"wait", "transferring"}
  /\ k = "dor" => e = "clear"
  /\ k = "sense" => e \in {"clear", "dor", "waitint", "sense0", "asking", "getSr0", "getTrack0", "getTrack", "sense"}

(* What must be followed by something, and by what.                          *)
Unfinished ==
  {"seeking", "calibrating", "transferring", "wait", "start", "asking", "getSr0", "versioning", "waitint",
   "drain", "dor", "alloc"}
MayFollow(e, f) ==
  /\ e \in {"seeking", "calibrating"} => f = "waitSense"
  /\ e = "transferring" => f = "wait"
  /\ e = "wait" => f = "judge"
  /\ e = "start" => f = "transferring"
  /\ e = "asking" => f = "getSr0"
  /\ e = "getSr0" => f \in {"getTrack0", "getTrack"}
  /\ e = "versioning" => f = "getTrack"
  /\ e = "waitint" => f \in {"waitint", "drain", "sense0"}
  /\ e = "drain" => f \in {"sense0", "clear"}
  /\ e = "dor" => f = "sense0"
  /\ e = "alloc" => f = "reset"
  /\ f = "wait" => e \in {"transferring", "sending"}
  /\ f = "transferring" => e = "start"
  /\ f \in {"waitint", "drain"} => e = "waitint"
  /\ f = "clear" => e \in {"drain", "sense0", "getTrack0", "sense", "getTrack"}

Ordered(s) == \A i \in 1 .. Len(s) : \A j \in 1 .. i - 1 : MayPrecede(s[j], s[i])
Followed(s) == \A i \in 1 .. Len(s) - 1 : MayFollow(s[i], s[i + 1])
Ended(s) == s # <<>> => s[Len(s)] \notin Unfinished

(* Before a judge a seek in progress is the first thing, and the command and *)
(* its end follow.                                                           *)
SeeksFirst(s) ==
  \A i \in 1 .. Len(s) : \A j \in 1 .. i - 1 : s[i] = "judge" =>
    /\ j > 1 => s[j] \notin {"seek", "seeking", "sending"}
    /\ s[j] \in Seeking => j < i - 3 /\ s[i - 3] = "start"

Arranged(s) == Ordered(s) /\ Followed(s) /\ Ended(s) /\ SeeksFirst(s)

(* What an operation of a kind may be replaced by.                           *)
Replaces(b, k) ==
  CASE k = "reset" -> b = <<"clear", "dor", "sense0", "sense", "sense", "sense", "clear", "setting", "setting">>
    [] k = "version" -> b = <<"versioning", "getTrack">>
    [] k = "select" -> b = <<"setting">>
    [] k = "calibrate" -> b = <<"calibrating", "waitSense">>
    [] k = "seek" -> b \in {<<>>, <<"seeking", "waitSense">>}
    [] k = "try" -> b = <<"seek", "start", "transferring", "wait", "judge">>
    [] k = "wait" -> b = <<"waitint", "waitint", "drain", "clear">>
    [] k = "waitSense" -> b = <<"waitint", "waitint", "drain", "sense0", "clear">>
    [] k = "sense0" -> b = <<"asking", "getSr0", "getTrack0">>
    [] k = "sense" -> b = <<"asking", "getSr0", "getTrack">>
    [] k = "present" -> b \in {<<>>, <<"seek", "seek">>}
    [] k \in {"seeking", "calibrating", "transferring", "setting", "sending"} -> b \in {<<>>, <<"sending">>}
    [] k \in {"asking", "versioning"} -> b = <<>>
    [] k = "drain" -> b \in {<<>>, <<"drain">>}
    [] k = "dor" -> b = <<"waitint">>
    [] k = "judge" -> b \in {<<>>, <<"calibrate">>, <<"calibrate", "try">>, <<"calibrate", "reset", "select", "try">>}
    [] k \in {"read", "write", "next"} -> b \in {<<>>, <<"try", "next">>}
    [] OTHER -> b = <<>>

Local(b, k) ==
  /\ Ordered(b) /\ Followed(b) /\ SeeksFirst(b)
  /\ k \notin Unfinished => Ended(b)
  /\ \A x \in Kinds : MayPrecede(k, x) => \A j \in 1 .. Len(b) : MayPrecede(b[j], x)
  /\ b # <<>> => \A f \in Kinds : MayFollow(k, f) => MayFollow(b[Len(b)], f)
  /\ \A j \in 1 .. Len(b) : b[j] \in {"seek", "seeking", "sending"} /\ j > 1 => k \notin Trying
  /\ \A j \in 1 .. Len(b) : b[j] \in Seeking => k \in Seeking \/ k \notin Trying

(* Two sequences, the second without its first element, end to end.          *)
LEMMA Spliced ==
  ASSUME NEW S, NEW s \in Seq(S), s # <<>>, NEW b \in Seq(S)
  PROVE  /\ b \o Tail(s) \in Seq(S)
         /\ Len(b \o Tail(s)) = Len(b) + Len(s) - 1
         /\ Len(b) \in Nat /\ Len(s) \in Nat /\ Len(s) >= 1
         /\ \A i \in 1 .. Len(b) : (b \o Tail(s))[i] = b[i]
         /\ \A i \in Len(b) + 1 .. Len(b) + Len(s) - 1 :
              i - Len(b) + 1 \in 2 .. Len(s) /\ (b \o Tail(s))[i] = s[i - Len(b) + 1]
OBVIOUS

LEMMA JoinedArranged ==
  ASSUME NEW s \in Seq(Kinds), s # <<>>, NEW b \in Seq(Kinds), Arranged(s), Local(b, s[1])
  PROVE  Arranged(b \o Tail(s))
<1> DEFINE z == b \o Tail(s)
           m == Len(b)
           n == Len(s)
<1>1. /\ z \in Seq(Kinds) /\ Len(z) = m + n - 1 /\ m \in Nat /\ n \in Nat /\ n >= 1
      /\ \A i \in 1 .. m : z[i] = b[i]
      /\ \A i \in m + 1 .. m + n - 1 : i - m + 1 \in 2 .. n /\ z[i] = s[i - m + 1]
  BY Spliced
<1>2. /\ \A i \in 1 .. n : \A j \in 1 .. i - 1 : MayPrecede(s[j], s[i])
      /\ \A i \in 1 .. n - 1 : MayFollow(s[i], s[i + 1])
      /\ s[n] \notin Unfinished
      /\ \A i \in 1 .. n : \A j \in 1 .. i - 1 : s[i] = "judge" =>
           /\ j > 1 => s[j] \notin {"seek", "seeking", "sending"}
           /\ s[j] \in Seeking => j < i - 3 /\ s[i - 3] = "start"
  BY DEF Arranged, Ordered, Followed, Ended, SeeksFirst
<1>3. /\ \A i \in 1 .. m : \A j \in 1 .. i - 1 : MayPrecede(b[j], b[i])
      /\ \A i \in 1 .. m - 1 : MayFollow(b[i], b[i + 1])
      /\ \A i \in 1 .. m : \A j \in 1 .. i - 1 : b[i] = "judge" =>
           /\ j > 1 => b[j] \notin {"seek", "seeking", "sending"}
           /\ b[j] \in Seeking => j < i - 3 /\ b[i - 3] = "start"
      /\ s[1] \notin Unfinished => Ended(b)
      /\ \A x \in Kinds : MayPrecede(s[1], x) => \A j \in 1 .. m : MayPrecede(b[j], x)
      /\ m # 0 => \A f \in Kinds : MayFollow(s[1], f) => MayFollow(b[m], f)
      /\ \A j \in 1 .. m : b[j] \in {"seek", "seeking", "sending"} /\ j > 1 => s[1] \notin Trying
      /\ \A j \in 1 .. m : b[j] \in Seeking => s[1] \in Seeking \/ s[1] \notin Trying
  BY DEF Local, Ordered, Followed, SeeksFirst
<1>4. \A i \in 1 .. n : s[i] \in Kinds
  OBVIOUS
<1> HIDE DEF z, m, n
<1>5. Ordered(z)
  <2> SUFFICES ASSUME NEW i \in 1 .. m + n - 1, NEW j \in 1 .. i - 1
               PROVE  MayPrecede(z[j], z[i])
    BY <1>1 DEF Ordered
  <2>1. CASE i <= m
    BY <1>1, <1>3, <2>1
  <2>2. CASE j > m
    <3>1. /\ i - m + 1 \in 1 .. n /\ j - m + 1 \in 1 .. (i - m + 1) - 1
          /\ z[i] = s[i - m + 1] /\ z[j] = s[j - m + 1]
      BY <1>1, <2>2, SMTT(30)
    <3> QED
      BY <1>2, <3>1
  <2>3. CASE j <= m /\ i > m
    <3>1. /\ i - m + 1 \in 1 .. n /\ 1 \in 1 .. (i - m + 1) - 1 /\ j \in 1 .. m
          /\ z[i] = s[i - m + 1] /\ z[j] = b[j]
      BY <1>1, <2>3, SMTT(30)
    <3>2. MayPrecede(s[1], s[i - m + 1]) /\ s[i - m + 1] \in Kinds
      BY <1>2, <1>4, <3>1
    <3> QED
      BY <1>3, <3>1, <3>2
  <2> QED
    BY <1>1, <2>1, <2>2, <2>3
<1>6. Followed(z)
  <2> SUFFICES ASSUME NEW i \in 1 .. m + n - 2
               PROVE  MayFollow(z[i], z[i + 1])
    BY <1>1 DEF Followed
  <2>1. CASE i > m
    <3> DEFINE p == i - m + 1
    <3>1. p \in 1 .. n - 1 /\ i \in m + 1 .. m + n - 1
      BY <1>1, <2>1
    <3>2. i + 1 \in m + 1 .. m + n - 1 /\ (i + 1) - m + 1 = p + 1
      BY <1>1, <2>1
    <3>3. z[i] = s[p]
      BY <1>1, <3>1
    <3>4. z[i + 1] = s[p + 1]
      <4>1. z[i + 1] = s[(i + 1) - m + 1]
        BY <1>1, <3>2
      <4> QED
        BY <3>2, <4>1
    <3> HIDE DEF p
    <3> QED
      BY <1>2, <3>1, <3>3, <3>4
  <2>2. CASE i < m
    BY <1>1, <1>3, <2>2
  <2>3. CASE i = m
    <3>1. /\ 1 \in 1 .. n - 1 /\ z[m] = b[m] /\ m + 1 \in m + 1 .. m + n - 1 /\ (m + 1) - m + 1 = 2 /\ m # 0
      BY <1>1, <2>3
    <3>2. z[m + 1] = s[2]
      BY <1>1, <3>1
    <3>3. MayFollow(s[1], s[1 + 1]) /\ 1 + 1 = 2 /\ s[2] \in Kinds
      <4>1. 2 \in 1 .. n
        BY <1>1, <3>1
      <4> QED
        BY <1>2, <1>4, <3>1, <4>1
    <3> QED
      BY <1>3, <2>3, <3>1, <3>2, <3>3
  <2> QED
    BY <1>1, <2>1, <2>2, <2>3
<1>7. Ended(z)
  <2>1. CASE n = 1
    <3>1. Ended(b)
      BY <1>2, <1>3, <2>1
    <3>2. m # 0 => z[m] = b[m] /\ Len(z) = m /\ b # <<>>
      BY <1>1, <2>1 DEF m
    <3>3. z # <<>> => m # 0
      BY <1>1, <2>1
    <3> QED
      BY <3>1, <3>2, <3>3 DEF Ended, m
  <2>2. CASE n > 1
    <3>1. m + n - 1 \in m + 1 .. m + n - 1 /\ (m + n - 1) - m + 1 = n
      BY <1>1, <2>2
    <3>2. z[m + n - 1] = s[n]
      BY <1>1, <3>1
    <3> QED
      BY <1>1, <1>2, <3>2 DEF Ended
  <2> QED
    BY <1>1, <2>1, <2>2
<1>8. SeeksFirst(z)
  <2> SUFFICES ASSUME NEW i \in 1 .. m + n - 1, NEW j \in 1 .. i - 1, z[i] = "judge"
               PROVE  /\ j > 1 => z[j] \notin {"seek", "seeking", "sending"}
                      /\ z[j] \in Seeking => j < i - 3 /\ z[i - 3] = "start"
    BY <1>1 DEF SeeksFirst
  <2>1. CASE i <= m
    <3>1. i \in 1 .. m /\ j \in 1 .. m /\ z[i] = b[i] /\ z[j] = b[j]
      BY <1>1, <2>1
    <3>2. /\ j > 1 => b[j] \notin {"seek", "seeking", "sending"}
          /\ b[j] \in Seeking => j < i - 3 /\ b[i - 3] = "start"
      BY <1>3, <3>1
    <3>3. j < i - 3 => z[i - 3] = b[i - 3]
      BY <1>1, <2>1
    <3> QED
      BY <3>1, <3>2, <3>3
  <2>2. CASE j > m
    <3> DEFINE p == i - m + 1
               q == j - m + 1
    <3>1. p \in 1 .. n /\ q \in 1 .. p - 1 /\ q > 1 /\ z[i] = s[p] /\ z[j] = s[q]
      BY <1>1, <2>2
    <3>2. /\ s[q] \notin {"seek", "seeking", "sending"}
          /\ s[q] \in Seeking => q < p - 3 /\ s[p - 3] = "start"
      <4> HIDE DEF p, q
      <4> QED
        BY <1>2, <3>1
    <3>3. q < p - 3 => j < i - 3 /\ z[i - 3] = s[p - 3]
      <4>1. ASSUME q < p - 3 PROVE j < i - 3 /\ i - 3 \in m + 1 .. m + n - 1 /\ (i - 3) - m + 1 = p - 3
        BY <1>1, <2>2, <4>1
      <4> QED
        BY <1>1, <4>1
    <3> QED
      BY <3>1, <3>2, <3>3
  <2>3. CASE j <= m /\ i > m
    <3> DEFINE p == i - m + 1
    <3>1. p \in 1 .. n /\ 1 \in 1 .. p - 1 /\ j \in 1 .. m /\ z[i] = s[p] /\ z[j] = b[j]
      BY <1>1, <2>3
    <3>2. MayPrecede(s[1], s[p]) /\ (s[1] \in Seeking => 1 < p - 3 /\ s[p - 3] = "start")
      <4> HIDE DEF p
      <4> QED
        BY <1>2, <3>1
    <3>3. s[1] \in Trying
      BY <3>1, <3>2 DEF MayPrecede
    <3>4. j > 1 => b[j] \notin {"seek", "seeking", "sending"}
      BY <1>3, <3>1, <3>3
    <3>5. b[j] \in Seeking => 1 < p - 3 /\ s[p - 3] = "start"
      BY <1>3, <3>1, <3>2, <3>3
    <3>6. 1 < p - 3 => j < i - 3 /\ z[i - 3] = s[p - 3]
      <4>1. ASSUME 1 < p - 3 PROVE j < i - 3 /\ i - 3 \in m + 1 .. m + n - 1 /\ (i - 3) - m + 1 = p - 3
        BY <1>1, <2>3, <4>1
      <4> QED
        BY <1>1, <4>1
    <3> QED
      BY <3>1, <3>4, <3>5, <3>6
  <2> QED
    BY <1>1, <2>1, <2>2, <2>3
<1> QED
  BY <1>5, <1>6, <1>7, <1>8 DEF Arranged, z

(* What an operation is replaced by takes its place.                         *)
LEMMA ReplacesLocal ==
  ASSUME NEW k \in Kinds, NEW b \in Seq(Kinds), Replaces(b, k)
  PROVE  Local(b, k)
<1> USE DEF MayPrecede, MayFollow, Unfinished, Seeking, Waiting, Trying
<1>1. CASE b = <<>>
  BY <1>1 DEF Local, Ordered, Followed, SeeksFirst, Ended
<1>2. CASE k = "reset" /\ b = <<"clear", "dor", "sense0", "sense", "sense", "sense", "clear", "setting", "setting">>
  <2>1. Ordered(b) /\ Followed(b) /\ SeeksFirst(b)
    BY <1>2 DEF Ordered, Followed, SeeksFirst
  <2>2. \A x \in Kinds : MayPrecede(k, x) => \A j \in 1 .. Len(b) : MayPrecede(b[j], x)
    BY <1>2
  <2> QED
    BY <1>2, <2>1, <2>2 DEF Local, Ended
<1>3. CASE k = "version" /\ b = <<"versioning", "getTrack">>
  <2>1. Ordered(b) /\ Followed(b) /\ SeeksFirst(b)
    BY <1>3 DEF Ordered, Followed, SeeksFirst
  <2>2. \A x \in Kinds : MayPrecede(k, x) => \A j \in 1 .. Len(b) : MayPrecede(b[j], x)
    BY <1>3
  <2> QED
    BY <1>3, <2>1, <2>2 DEF Local, Ended
<1>4. CASE k = "select" /\ b = <<"setting">>
  <2>1. Ordered(b) /\ Followed(b) /\ SeeksFirst(b)
    BY <1>4 DEF Ordered, Followed, SeeksFirst
  <2>2. \A x \in Kinds : MayPrecede(k, x) => \A j \in 1 .. Len(b) : MayPrecede(b[j], x)
    BY <1>4
  <2> QED
    BY <1>4, <2>1, <2>2 DEF Local, Ended
<1>5. CASE k = "calibrate" /\ b = <<"calibrating", "waitSense">>
  <2>1. Ordered(b) /\ Followed(b) /\ SeeksFirst(b)
    BY <1>5 DEF Ordered, Followed, SeeksFirst
  <2>2. \A x \in Kinds : MayPrecede(k, x) => \A j \in 1 .. Len(b) : MayPrecede(b[j], x)
    BY <1>5
  <2> QED
    BY <1>5, <2>1, <2>2 DEF Local, Ended
<1>6. CASE k = "seek" /\ b = <<"seeking", "waitSense">>
  <2>1. Ordered(b) /\ Followed(b) /\ SeeksFirst(b)
    BY <1>6 DEF Ordered, Followed, SeeksFirst
  <2>2. \A x \in Kinds : MayPrecede(k, x) => \A j \in 1 .. Len(b) : MayPrecede(b[j], x)
    BY <1>6
  <2> QED
    BY <1>6, <2>1, <2>2 DEF Local, Ended
<1>7. CASE k = "try" /\ b = <<"seek", "start", "transferring", "wait", "judge">>
  <2>1. Ordered(b) /\ Followed(b) /\ SeeksFirst(b)
    BY <1>7 DEF Ordered, Followed, SeeksFirst
  <2>2. \A x \in Kinds : MayPrecede(k, x) => \A j \in 1 .. Len(b) : MayPrecede(b[j], x)
    BY <1>7
  <2> QED
    BY <1>7, <2>1, <2>2 DEF Local, Ended
<1>8. CASE k = "wait" /\ b = <<"waitint", "waitint", "drain", "clear">>
  <2>1. Ordered(b) /\ Followed(b) /\ SeeksFirst(b)
    BY <1>8 DEF Ordered, Followed, SeeksFirst
  <2>2. \A x \in Kinds : MayPrecede(k, x) => \A j \in 1 .. Len(b) : MayPrecede(b[j], x)
    BY <1>8
  <2> QED
    BY <1>8, <2>1, <2>2 DEF Local, Ended
<1>9. CASE k = "waitSense" /\ b = <<"waitint", "waitint", "drain", "sense0", "clear">>
  <2>1. Ordered(b) /\ Followed(b) /\ SeeksFirst(b)
    BY <1>9 DEF Ordered, Followed, SeeksFirst
  <2>2. \A x \in Kinds : MayPrecede(k, x) => \A j \in 1 .. Len(b) : MayPrecede(b[j], x)
    BY <1>9
  <2> QED
    BY <1>9, <2>1, <2>2 DEF Local, Ended
<1>10. CASE k = "sense0" /\ b = <<"asking", "getSr0", "getTrack0">>
  <2>1. Ordered(b) /\ Followed(b) /\ SeeksFirst(b)
    BY <1>10 DEF Ordered, Followed, SeeksFirst
  <2>2. \A x \in Kinds : MayPrecede(k, x) => \A j \in 1 .. Len(b) : MayPrecede(b[j], x)
    BY <1>10
  <2> QED
    BY <1>10, <2>1, <2>2 DEF Local, Ended
<1>11. CASE k = "sense" /\ b = <<"asking", "getSr0", "getTrack">>
  <2>1. Ordered(b) /\ Followed(b) /\ SeeksFirst(b)
    BY <1>11 DEF Ordered, Followed, SeeksFirst
  <2>2. \A x \in Kinds : MayPrecede(k, x) => \A j \in 1 .. Len(b) : MayPrecede(b[j], x)
    BY <1>11
  <2> QED
    BY <1>11, <2>1, <2>2 DEF Local, Ended
<1>12. CASE k = "present" /\ b = <<"seek", "seek">>
  <2>1. Ordered(b) /\ Followed(b) /\ SeeksFirst(b)
    BY <1>12 DEF Ordered, Followed, SeeksFirst
  <2>2. \A x \in Kinds : MayPrecede(k, x) => \A j \in 1 .. Len(b) : MayPrecede(b[j], x)
    BY <1>12
  <2> QED
    BY <1>12, <2>1, <2>2 DEF Local, Ended
<1>13. CASE k = "drain" /\ b = <<"drain">>
  <2>1. Ordered(b) /\ Followed(b) /\ SeeksFirst(b)
    BY <1>13 DEF Ordered, Followed, SeeksFirst
  <2>2. \A x \in Kinds : MayPrecede(k, x) => \A j \in 1 .. Len(b) : MayPrecede(b[j], x)
    BY <1>13
  <2> QED
    BY <1>13, <2>1, <2>2 DEF Local, Ended
<1>14. CASE k = "dor" /\ b = <<"waitint">>
  <2>1. Ordered(b) /\ Followed(b) /\ SeeksFirst(b)
    BY <1>14 DEF Ordered, Followed, SeeksFirst
  <2>2. \A x \in Kinds : MayPrecede(k, x) => \A j \in 1 .. Len(b) : MayPrecede(b[j], x)
    BY <1>14
  <2> QED
    BY <1>14, <2>1, <2>2 DEF Local, Ended
<1>15. CASE k = "judge" /\ b = <<"calibrate">>
  <2>1. Ordered(b) /\ Followed(b) /\ SeeksFirst(b)
    BY <1>15 DEF Ordered, Followed, SeeksFirst
  <2>2. \A x \in Kinds : MayPrecede(k, x) => \A j \in 1 .. Len(b) : MayPrecede(b[j], x)
    BY <1>15
  <2> QED
    BY <1>15, <2>1, <2>2 DEF Local, Ended
<1>16. CASE k = "judge" /\ b = <<"calibrate", "try">>
  <2>1. Ordered(b) /\ Followed(b) /\ SeeksFirst(b)
    BY <1>16 DEF Ordered, Followed, SeeksFirst
  <2>2. \A x \in Kinds : MayPrecede(k, x) => \A j \in 1 .. Len(b) : MayPrecede(b[j], x)
    BY <1>16
  <2> QED
    BY <1>16, <2>1, <2>2 DEF Local, Ended
<1>17. CASE k = "judge" /\ b = <<"calibrate", "reset", "select", "try">>
  <2>1. Ordered(b) /\ Followed(b) /\ SeeksFirst(b)
    BY <1>17 DEF Ordered, Followed, SeeksFirst
  <2>2. \A x \in Kinds : MayPrecede(k, x) => \A j \in 1 .. Len(b) : MayPrecede(b[j], x)
    BY <1>17
  <2> QED
    BY <1>17, <2>1, <2>2 DEF Local, Ended
<1>18. CASE k \in {"seeking", "calibrating", "transferring", "setting", "sending"} /\ b = <<"sending">>
  <2>1. Ordered(b) /\ Followed(b) /\ SeeksFirst(b)
    BY <1>18 DEF Ordered, Followed, SeeksFirst
  <2>2. \A x \in Kinds : MayPrecede(k, x) => \A j \in 1 .. Len(b) : MayPrecede(b[j], x)
    BY <1>18
  <2> QED
    BY <1>18, <2>1, <2>2 DEF Local, Ended
<1>19. CASE k \in {"read", "write", "next"} /\ b = <<"try", "next">>
  <2>1. Ordered(b) /\ Followed(b) /\ SeeksFirst(b)
    BY <1>19 DEF Ordered, Followed, SeeksFirst
  <2>2. \A x \in Kinds : MayPrecede(k, x) => \A j \in 1 .. Len(b) : MayPrecede(b[j], x)
    BY <1>19
  <2> QED
    BY <1>19, <2>1, <2>2 DEF Local, Ended
<1> QED
  BY <1>1, <1>2, <1>3, <1>4, <1>5, <1>6, <1>7, <1>8, <1>9, <1>10, <1>11, <1>12, <1>13, <1>14,
     <1>15, <1>16, <1>17, <1>18, <1>19 DEF Replaces

-----------------------------------------------------------------------------
(* What an operation is about.                                               *)
SendKind(c) ==
  CASE c = 15 -> "seeking" [] c = 7 -> "calibrating" [] c = 8 -> "asking" [] c = 16 -> "versioning"
    [] c \in {69, 70} -> "transferring" [] OTHER -> "setting"

Kind(o) ==
  CASE o.op = "send" -> IF o.arg # 0 THEN "sending" ELSE SendKind(o.bytes[1])
    [] o.op = "wait" -> IF o.arg = 1 THEN "waitSense" ELSE "wait"
    [] o.op = "sense" -> IF o.arg = 0 THEN "sense0" ELSE "sense"
    [] o.op = "getTrack" -> IF o.arg = 0 THEN "getTrack0" ELSE "getTrack"
    [] OTHER -> o.op

KindsOf(s) == [i \in 1 .. Len(s) |-> Kind(s[i])]

(* The first thing the driver has to do, the second, and all and what comes  *)
(* after the first.                                                          *)
First == IF ops = <<>> THEN "none" ELSE Kind(ops[1])
Second == IF Len(ops) < 2 THEN "none" ELSE Kind(ops[2])
Later == ToSet(Tail(ops))
KindsIn(S) == {Kind(o) : o \in S}
All == KindsIn(ToSet(ops))
Rest == IF ops = <<>> THEN {} ELSE KindsIn(Later)

-----------------------------------------------------------------------------
(* A controller that answers, and has done so when it is asked.              *)
Cyl == Chs(req.lba)[1]
ThisTransfer == TransferBytes(req.write, Chs(req.lba))
Sent == fdc.bytes \o Head(ops).bytes
Judging == "judge" \in All /\ "start" \notin All

(* What the controller may be doing when the driver comes to an operation.   *)
Gates ==
  /\ fdc.goal >= 0 => First = "waitSense"
  /\ fdc.phase = "execution" => First = "wait"
  /\ fdc.phase = "result" => First \in {"getSr0", "getTrack0", "getTrack", "wait", "waitint", "drain"}
  /\ First = "getSr0" => fdc.phase = "result" /\ Len(fdc.result) \in {1, 2}
  /\ First \in {"getTrack0", "getTrack"} => Len(fdc.result) <= 1

(* A seek, a recalibration and a reset are acknowledged with the track that  *)
(* was reached.                                                              *)
Sensed ==
  /\ First = "waitSense" => fdc.pending # <<>> \/ fdc.goal >= 0
  /\ "sense0" \in All /\ "dor" \notin All => fdc.pending # <<>>
  /\ First = "asking" /\ "getTrack0" \in All => fdc.pending # <<>>
  /\ First = "getSr0" /\ "getTrack0" \in All => Len(fdc.result) = 2 /\ fdc.result[2] = head
  /\ First = "getTrack0" => fdc.result = <<head>>

(* The driver knows where the heads are, or is about to learn it.            *)
Tracked ==
  track = head \/ First \in {"alloc", "reset"} \/ All \cap {"waitSense", "sense0", "getTrack0"} # {}

(* A command on its way.                                                     *)
Messages ==
  /\ \A o \in ToSet(ops) : Kind(o) = "transferring" => o.bytes = ThisTransfer
  /\ First # "drain" => \A o \in ToSet(ops) : Kind(o) = "drain" => o.arg = 0
  /\ First = "sending" =>
       /\ Second = "waitSense" <=> Sent[1] \in {7, 15}
       /\ Second = "wait" <=> Sent[1] \in {69, 70}
       /\ Sent[1] \in {69, 70} => Sent = ThisTransfer

(* During a try the heads are, or are being sent, where its sector is.       *)
Aim ==
  "judge" \in All =>
    /\ First = "seek" => Head(ops).arg = Cyl
    /\ First = "seeking" => Head(ops).bytes = <<15, 0, Cyl>>
    /\ First = "sending" /\ Sent[1] \notin {69, 70} => Sent = <<15, 0, Cyl>>
    /\ First \notin {"seek", "seeking"} /\ (First = "sending" => Sent[1] \in {69, 70}) =>
         IF fdc.goal >= 0 THEN fdc.goal = Cyl ELSE head = Cyl

(* The result of the command of the try in progress.                         *)
Answered ==
  /\ answer \in [1 .. 7 -> Bytes8]
  /\ answer[1] \in {0, 64} /\ answer[2] \in {0, 2, 4} /\ answer[4] = Cyl
  /\ answer[2] = 2 <=> req.write /\ env.protected
  /\ req.write /\ env.protected => answer[1] = 64

Verdict ==
  /\ First = "wait" /\ fdc.phase = "execution" => fdc.bytes = ThisTransfer
  /\ First = "wait" /\ fdc.phase # "execution" => Answered /\ fdc.phase = "result" /\ fdc.result = answer
  /\ First = "waitint" /\ Judging => Answered /\ fdc.phase = "result" /\ fdc.result = answer
  /\ First = "drain" /\ Judging =>
       LET n == Head(ops).arg
       IN /\ Answered /\ n <= 7 /\ Len(fdc.result) = 7 - n
          /\ \A m \in 1 .. n : status[m] = answer[m]
          /\ \A m \in 1 .. 7 - n : fdc.result[m] = answer[n + m]
  /\ First \in {"clear", "judge"} /\ Judging => Answered /\ status = answer
  /\ First \in {"waitint", "drain"} /\ ~Judging => fdc.phase = "command"

(* What the call in progress will return.                                    *)
Outcome ==
  /\ (req.res = -3 <=> req.write /\ env.protected /\ req.num > 0)
       \/ All \cap {"try", "judge", "read", "write"} # {}
  /\ All \cap {"try", "judge", "next"} # {} => req.num > 0

(* No sector is beyond the last track that fits a byte.                      *)
Limit == 256 * 36
OnDisk ==
  /\ \A o \in ToSet(ops) : Kind(o) = "next" => req.lba + o.arg < Limit
  /\ All \cap {"try", "judge"} # {} => req.lba < Limit

Prompt == env.answers /\ env.prompt
PromptInv == Gates /\ Sensed /\ Tracked /\ Messages /\ Aim /\ Verdict /\ Outcome

XInv == Arranged(KindsOf(ops)) /\ OnDisk /\ (Prompt => PromptInv)

-----------------------------------------------------------------------------
(* An operation has a kind, and a list of operations is as well arranged     *)
(* when its first operation is taken away or replaced by what it consists    *)
(* of.                                                                       *)

LEMMA KindOK ==
  ASSUME NEW o \in Operations
  PROVE  Kind(o) \in Kinds
<1>1. o.op \in OpNames
  BY DEF Operations
<1> QED
  BY <1>1 DEF Kind, SendKind, OpNames, Compound, Kinds, Trying, Seeking, Waiting

LEMMA KindsSeq ==
  ASSUME NEW s \in Seq(Operations)
  PROVE  /\ KindsOf(s) \in Seq(Kinds) /\ Len(KindsOf(s)) = Len(s)
         /\ \A i \in 1 .. Len(s) : KindsOf(s)[i] = Kind(s[i])
<1>1. \A i \in 1 .. Len(s) : Kind(s[i]) \in Kinds
  BY KindOK
<1> QED
  BY <1>1 DEF KindsOf

LEMMA KindsJoined ==
  ASSUME NEW s \in Seq(Operations), s # <<>>, NEW w \in Seq(Operations)
  PROVE  KindsOf(w \o Tail(s)) = KindsOf(w) \o Tail(KindsOf(s))
<1> DEFINE z == w \o Tail(s)
           k == KindsOf(w) \o Tail(KindsOf(s))
           m == Len(w)
           n == Len(s)
<1>1. /\ z \in Seq(Operations) /\ Len(z) = m + n - 1 /\ m \in Nat /\ n \in Nat /\ n >= 1
      /\ \A i \in 1 .. m : z[i] = w[i]
      /\ \A i \in m + 1 .. m + n - 1 : i - m + 1 \in 2 .. n /\ z[i] = s[i - m + 1]
  BY Spliced
<1>2. /\ KindsOf(s) \in Seq(Kinds) /\ Len(KindsOf(s)) = n /\ \A i \in 1 .. n : KindsOf(s)[i] = Kind(s[i])
      /\ KindsOf(w) \in Seq(Kinds) /\ Len(KindsOf(w)) = m /\ \A i \in 1 .. m : KindsOf(w)[i] = Kind(w[i])
  BY KindsSeq
<1>3. KindsOf(s) # <<>>
  BY <1>1, <1>2
<1>4. /\ k \in Seq(Kinds) /\ Len(k) = m + n - 1
      /\ \A i \in 1 .. m : k[i] = KindsOf(w)[i]
      /\ \A i \in m + 1 .. m + n - 1 : i - m + 1 \in 2 .. n /\ k[i] = KindsOf(s)[i - m + 1]
  <2> DEFINE a == KindsOf(s)
             b == KindsOf(w)
  <2>1. a \in Seq(Kinds) /\ a # <<>> /\ b \in Seq(Kinds) /\ Len(a) = n /\ Len(b) = m
    BY <1>2, <1>3
  <2>2. k = b \o Tail(a)
    OBVIOUS
  <2> HIDE DEF a, b, k, m, n
  <2>3. /\ b \o Tail(a) \in Seq(Kinds)
        /\ Len(b \o Tail(a)) = Len(b) + Len(a) - 1
        /\ Len(b) \in Nat /\ Len(a) \in Nat /\ Len(a) >= 1
        /\ \A i \in 1 .. Len(b) : (b \o Tail(a))[i] = b[i]
        /\ \A i \in Len(b) + 1 .. Len(b) + Len(a) - 1 :
             i - Len(b) + 1 \in 2 .. Len(a) /\ (b \o Tail(a))[i] = a[i - Len(b) + 1]
    BY <2>1, Spliced, Zenon
  <2>4. /\ k \in Seq(Kinds) /\ Len(k) = m + n - 1
        /\ \A i \in 1 .. m : k[i] = b[i]
        /\ \A i \in m + 1 .. m + n - 1 : i - m + 1 \in 2 .. n /\ k[i] = a[i - m + 1]
    BY <2>1, <2>2, <2>3
  <2> QED
    BY <2>4 DEF a, b
<1> HIDE DEF z, k, m, n
<1>5. KindsOf(z) \in Seq(Kinds) /\ Len(KindsOf(z)) = m + n - 1
      /\ \A i \in 1 .. m + n - 1 : KindsOf(z)[i] = Kind(z[i])
  BY <1>1, KindsSeq
<1>6. ASSUME NEW i \in 1 .. m + n - 1 PROVE KindsOf(z)[i] = k[i]
  <2>1. CASE i <= m
    <3>1. i \in 1 .. m
      BY <1>1, <2>1
    <3> QED
      BY <1>1, <1>2, <1>4, <1>5, <3>1
  <2>2. CASE i > m
    <3>1. i \in m + 1 .. m + n - 1
      BY <1>1, <2>2
    <3>2. i - m + 1 \in 1 .. n /\ z[i] = s[i - m + 1] /\ k[i] = KindsOf(s)[i - m + 1]
      BY <1>1, <1>4, <3>1
    <3> QED
      BY <1>2, <1>5, <3>2
  <2> QED
    BY <1>1, <2>1, <2>2
<1>7. KindsOf(z) = k
  BY <1>4, <1>5, <1>6
<1> QED
  BY <1>7 DEF z, k

(* What the order of the operations says of the first one.                   *)
LEMMA Control ==
  ASSUME ops \in Seq(Operations), Arranged(KindsOf(ops)), ops # <<>>
  PROVE  /\ First = Kind(Head(ops)) /\ First \in Kinds
         /\ All = {First} \cup Rest /\ Rest \subseteq Kinds
         /\ \A x \in Rest : MayPrecede(First, x)
         /\ IF Second = "none" THEN Rest = {} /\ First \notin Unfinished
            ELSE Second \in Rest /\ MayFollow(First, Second)
         /\ "judge" \in Rest /\ First \in Seeking => "start" \in Rest
         /\ "judge" \in Rest => /\ Second \notin {"seek", "seeking", "sending"}
                                /\ Second = "judge" \/ Second \in Trying
                                /\ Rest \cap {"waitSense", "sense0", "getSr0", "getTrack0"} # {}
                                     => "start" \in Rest
         /\ First = "start" => "judge" \in Rest
<1> DEFINE k == KindsOf(ops)
           n == Len(ops)
<1>1. /\ k \in Seq(Kinds) /\ Len(k) = n /\ n \in Nat /\ n >= 1
      /\ \A i \in 1 .. n : k[i] = Kind(ops[i]) /\ k[i] \in Kinds
  <2>1. k \in Seq(Kinds) /\ Len(k) = n /\ \A i \in 1 .. n : k[i] = Kind(ops[i])
    BY KindsSeq
  <2> HIDE DEF k
  <2> QED
    BY <2>1
<1>2. /\ \A i \in 1 .. n : \A j \in 1 .. i - 1 : MayPrecede(k[j], k[i])
      /\ \A i \in 1 .. n - 1 : MayFollow(k[i], k[i + 1])
      /\ k[n] \notin Unfinished
      /\ \A i \in 1 .. n : \A j \in 1 .. i - 1 : k[i] = "judge" =>
           /\ j > 1 => k[j] \notin {"seek", "seeking", "sending"}
           /\ k[j] \in Seeking => j < i - 3 /\ k[i - 3] = "start"
  BY <1>1 DEF Arranged, Ordered, Followed, Ended, SeeksFirst
<1>3. First = k[1] /\ First = Kind(Head(ops)) /\ Second = IF n < 2 THEN "none" ELSE k[2]
  BY <1>1 DEF First, Second
<1>4. ToSet(ops) = {ops[i] : i \in 1 .. n} /\ Later = {ops[i] : i \in 2 .. n}
  <2>1. DOMAIN ops = 1 .. n
    OBVIOUS
  <2>2. Tail(ops) \in Seq(Operations) /\ Len(Tail(ops)) = n - 1 /\ \A i \in 1 .. n - 1 : Tail(ops)[i] = ops[i + 1]
    BY <1>1
  <2>3. DOMAIN Tail(ops) = 1 .. n - 1
    BY <2>2
  <2>4. ASSUME NEW o \in Later PROVE o \in {ops[i] : i \in 2 .. n}
    <3>1. PICK i \in 1 .. n - 1 : o = Tail(ops)[i]
      BY <2>3 DEF Later, ToSet
    <3>2. i + 1 \in 2 .. n /\ o = ops[i + 1]
      BY <1>1, <2>2, <3>1
    <3> QED
      BY <3>2
  <2>5. ASSUME NEW i \in 2 .. n PROVE ops[i] \in Later
    <3>1. i - 1 \in 1 .. n - 1 /\ (i - 1) + 1 = i
      BY <1>1
    <3>2. Tail(ops)[i - 1] = ops[i]
      BY <2>2, <3>1
    <3> QED
      BY <2>3, <3>1, <3>2 DEF Later, ToSet
  <2> QED
    BY <2>1, <2>4, <2>5 DEF ToSet
<1> HIDE DEF k
<1>5. Rest = {k[i] : i \in 2 .. n} /\ All = {k[i] : i \in 1 .. n}
  BY <1>1, <1>4 DEF Rest, All, KindsIn
<1> HIDE DEF n
<1>6. All = {First} \cup Rest /\ Rest \subseteq Kinds /\ First \in Kinds
  BY <1>1, <1>3, <1>5
<1>7. \A x \in Rest : MayPrecede(First, x)
  BY <1>1, <1>2, <1>3, <1>5
<1>8. CASE n < 2
  <2>1. n = 1 /\ Rest = {} /\ Second = "none" /\ First \notin Unfinished
    BY <1>1, <1>2, <1>3, <1>5, <1>8
  <2> QED
    BY <1>3, <1>6, <2>1 DEF Unfinished
<1>9. CASE n >= 2
  <2>1. Second = k[2] /\ Second \in Rest /\ MayFollow(First, Second) /\ Second # "none"
    <3>1. Second = k[2] /\ k[2] \in Rest /\ k[2] \in Kinds
      BY <1>1, <1>3, <1>5, <1>9
    <3>2. MayFollow(k[1], k[1 + 1]) /\ 1 + 1 = 2
      BY <1>1, <1>2, <1>9
    <3> QED
      BY <1>3, <3>1, <3>2 DEF Kinds, Trying, Seeking, Waiting
  <2>2. ASSUME "judge" \in Rest
        PROVE  /\ First \in Seeking => "start" \in Rest
               /\ Second \notin {"seek", "seeking", "sending"}
               /\ Second = "judge" \/ Second \in Trying
               /\ Rest \cap {"waitSense", "sense0", "getSr0", "getTrack0"} # {} => "start" \in Rest
    <3>1. PICK i \in 2 .. n : k[i] = "judge"
      BY <1>5, <2>2
    <3>2. ASSUME NEW j \in 1 .. i - 1, k[j] \in Seeking PROVE "start" \in Rest
      <4>1. i \in 1 .. n /\ j < i - 3 /\ k[i - 3] = "start"
        BY <1>1, <1>2, <3>1, <3>2
      <4>2. i - 3 \in 2 .. n
        BY <1>1, <4>1
      <4> QED
        BY <1>5, <4>1, <4>2
    <3>3. First \in Seeking => "start" \in Rest
      BY <1>1, <1>3, <3>1, <3>2
    <3>4. CASE i = 2
      <4>1. Second = "judge"
        BY <2>1, <3>1, <3>4
      <4>2. ASSUME NEW p \in 2 .. n, k[p] \in {"waitSense", "sense0", "getSr0", "getTrack0"}
            PROVE  FALSE
        <5>1. CASE p = 2
          BY <3>1, <3>4, <4>2, <5>1
        <5>2. CASE p > 2
          <6>1. MayPrecede("judge", k[p])
            BY <1>1, <1>2, <3>1, <3>4, <5>2
          <6> QED
            BY <4>2, <6>1 DEF MayPrecede, Trying, Seeking, Waiting
        <5> QED
          BY <1>1, <5>1, <5>2
      <4> QED
        BY <1>5, <3>3, <4>1, <4>2
    <3>5. CASE i > 2
      <4>1. i \in 1 .. n /\ 2 \in 1 .. i - 1
        BY <1>1, <3>1, <3>5
      <4>2. MayPrecede(k[2], "judge") /\ k[2] \notin {"seek", "seeking", "sending"}
        BY <1>2, <3>1, <4>1
      <4>3. Second \in Trying
        BY <2>1, <4>2 DEF MayPrecede
      <4>4. ASSUME NEW p \in 2 .. n, k[p] \in {"waitSense", "sense0", "getSr0", "getTrack0"}
            PROVE  "start" \in Rest
        <5>1. k[p] \in Seeking
          BY <4>4 DEF Seeking
        <5>2. CASE p < i
          <6>1. p \in 1 .. i - 1
            BY <1>1, <3>1, <5>2
          <6> QED
            BY <3>2, <5>1, <6>1
        <5>3. CASE p = i
          BY <3>1, <4>4, <5>3
        <5>4. CASE p > i
          <6>1. MayPrecede("judge", k[p])
            <7>1. p \in 1 .. n /\ i \in 1 .. p - 1
              BY <1>1, <3>1, <5>4
            <7> QED
              BY <1>2, <3>1, <7>1
          <6> QED
            BY <4>4, <6>1 DEF MayPrecede, Trying, Seeking, Waiting
        <5> QED
          BY <1>1, <5>2, <5>3, <5>4
      <4> QED
        BY <1>5, <2>1, <3>3, <4>2, <4>3, <4>4
    <3> QED
      BY <1>1, <3>1, <3>4, <3>5
  <2>3. ASSUME First = "start" PROVE "judge" \in Rest
    <3>1. k[2] = "transferring"
      BY <1>3, <2>1, <2>3 DEF MayFollow
    <3>2. n >= 3 /\ k[3] = "wait"
      <4>1. n # 2
        BY <1>2, <3>1 DEF Unfinished
      <4>2. MayFollow(k[2], k[2 + 1]) /\ 2 + 1 = 3 /\ n >= 3
        BY <1>1, <1>2, <1>9, <4>1
      <4> QED
        BY <3>1, <4>2 DEF MayFollow
    <3>3. n >= 4 /\ k[4] = "judge"
      <4>1. n # 3
        BY <1>2, <3>2 DEF Unfinished
      <4>2. MayFollow(k[3], k[3 + 1]) /\ 3 + 1 = 4 /\ n >= 4
        BY <1>1, <1>2, <3>2, <4>1
      <4> QED
        BY <3>2, <4>2 DEF MayFollow
    <3> QED
      BY <1>1, <1>5, <3>3
  <2> QED
    BY <1>3, <1>6, <1>7, <2>1, <2>2, <2>3
<1> QED
  BY <1>1, <1>8, <1>9

(* What comes of putting operations in the place of the first.               *)
LEMMA Replaced ==
  ASSUME ops \in Seq(Operations), Arranged(KindsOf(ops)), ops # <<>>,
         NEW w, w \in Seq(Operations), Replaces(KindsOf(w), Kind(Head(ops))), ops' = w \o Tail(ops)
  PROVE  /\ Arranged(KindsOf(ops))'
         /\ ToSet(ops)' = ToSet(w) \cup Later /\ Later \subseteq ToSet(ops)
         /\ All' = KindsIn(ToSet(w)) \cup Rest
         /\ w = <<>> => First' = Second /\ (ops' # <<>> => Len(ops) >= 2 /\ Head(ops)' = ops[2])
         /\ w # <<>> => ops' # <<>> /\ Head(ops)' = w[1] /\ First' = Kind(w[1])
         /\ Len(w) = 1 => Second' = Second
         /\ Len(w) > 1 => Second' = Kind(w[2])
<1> DEFINE z == w \o Tail(ops)
           m == Len(w)
           n == Len(ops)
<1>1. /\ z \in Seq(Operations) /\ Len(z) = m + n - 1 /\ m \in Nat /\ n \in Nat /\ n >= 1
      /\ \A i \in 1 .. m : z[i] = w[i]
      /\ \A i \in m + 1 .. m + n - 1 : i - m + 1 \in 2 .. n /\ z[i] = ops[i - m + 1]
  BY Spliced
<1>2. Kind(Head(ops)) \in Kinds /\ Head(ops) = ops[1]
  <2>1. Head(ops) \in Operations /\ Head(ops) = ops[1]
    OBVIOUS
  <2> QED
    BY <2>1, KindOK
<1>3. /\ KindsOf(ops) \in Seq(Kinds) /\ Len(KindsOf(ops)) = n /\ KindsOf(ops)[1] = Kind(ops[1])
      /\ KindsOf(w) \in Seq(Kinds)
  BY <1>1, KindsSeq
<1>4. Arranged(KindsOf(ops))'
  <2>1. Local(KindsOf(w), Kind(Head(ops)))
    BY <1>2, <1>3, ReplacesLocal
  <2> DEFINE a == KindsOf(ops)
             b == KindsOf(w)
  <2>2. a \in Seq(Kinds) /\ a # <<>> /\ b \in Seq(Kinds) /\ Arranged(a) /\ Local(b, a[1])
    BY <1>1, <1>2, <1>3, <2>1
  <2>3. KindsOf(z) = b \o Tail(a)
    BY KindsJoined
  <2> HIDE DEF a, b, z
  <2>4. Arranged(KindsOf(z))
    BY <2>2, <2>3, JoinedArranged
  <2>5. KindsOf(ops)' = KindsOf(ops')
    BY DEF KindsOf
  <2> QED
    BY <2>4, <2>5 DEF Arranged, Ordered, Followed, Ended, SeeksFirst, z
<1>5. Tail(ops) \in Seq(Operations) /\ Len(Tail(ops)) = n - 1 /\ \A i \in 1 .. n - 1 : Tail(ops)[i] = ops[i + 1]
  OBVIOUS
<1>6. /\ Later = {ops[i] : i \in 2 .. n} /\ ToSet(ops) = {ops[i] : i \in 1 .. n}
      /\ ToSet(w) = {w[i] : i \in 1 .. m} /\ ToSet(z) = {z[i] : i \in 1 .. m + n - 1}
  <2>1. Later = {Tail(ops)[i] : i \in 1 .. n - 1}
    <3>1. DOMAIN Tail(ops) = 1 .. n - 1
      BY <1>1, <1>5
    <3> QED
      BY <3>1 DEF Later, ToSet
  <2>2. ASSUME NEW i \in 2 .. n PROVE i - 1 \in 1 .. n - 1 /\ Tail(ops)[i - 1] = ops[i]
    BY <1>1, <1>5
  <2>3. ASSUME NEW i \in 1 .. n - 1 PROVE i + 1 \in 2 .. n /\ Tail(ops)[i] = ops[i + 1]
    BY <1>1, <1>5
  <2>4. Later = {ops[i] : i \in 2 .. n}
    <3>1. ASSUME NEW o \in Later PROVE o \in {ops[i] : i \in 2 .. n}
      <4>1. PICK i \in 1 .. n - 1 : o = Tail(ops)[i]
        BY <2>1
      <4>2. i + 1 \in 2 .. n /\ o = ops[i + 1]
        BY <2>3, <4>1
      <4> QED
        BY <4>2
    <3>2. ASSUME NEW i \in 2 .. n PROVE ops[i] \in Later
      <4>1. i - 1 \in 1 .. n - 1 /\ Tail(ops)[i - 1] = ops[i]
        BY <2>2
      <4> QED
        BY <2>1, <4>1
    <3> QED
      BY <3>1, <3>2
  <2> HIDE DEF z
  <2> QED
    BY <1>1, <2>4 DEF ToSet
<1> HIDE DEF z
<1>7. ToSet(z) = ToSet(w) \cup Later
  <2>1. ASSUME NEW i \in 1 .. m + n - 1 PROVE z[i] \in ToSet(w) \cup Later
    <3>1. CASE i <= m
      BY <1>1, <1>6, <3>1
    <3>2. CASE i > m
      <4>1. i - m + 1 \in 2 .. n /\ z[i] = ops[i - m + 1]
        BY <1>1, <3>2
      <4> QED
        BY <1>6, <4>1
    <3> QED
      BY <1>1, <3>1, <3>2
  <2>2. ASSUME NEW i \in 1 .. m PROVE w[i] \in ToSet(z)
    BY <1>1, <1>6
  <2>3. ASSUME NEW i \in 2 .. n PROVE ops[i] \in ToSet(z)
    <3>1. i + m - 1 \in m + 1 .. m + n - 1 /\ (i + m - 1) - m + 1 = i /\ i + m - 1 \in 1 .. m + n - 1
      BY <1>1
    <3>2. z[i + m - 1] = ops[i]
      BY <1>1, <3>1
    <3> QED
      BY <1>6, <3>1, <3>2
  <2> QED
    BY <1>6, <2>1, <2>2, <2>3
<1>8. ops' = z /\ ToSet(ops)' = ToSet(z)
  BY DEF z, ToSet
<1>9. /\ ToSet(ops)' = ToSet(w) \cup Later /\ Later \subseteq ToSet(ops)
      /\ All' = KindsIn(ToSet(w)) \cup Rest
  <2>1. Later \subseteq ToSet(ops)
    BY <1>1, <1>6
  <2>2. All' = KindsIn(ToSet(z))
    BY <1>8 DEF All, KindsIn
  <2> QED
    BY <1>7, <1>8, <2>1, <2>2 DEF KindsIn, Rest
<1>10. w = <<>> => First' = Second /\ (ops' # <<>> => Len(ops) >= 2 /\ Head(ops)' = ops[2])
  <2> SUFFICES ASSUME w = <<>> PROVE First' = Second /\ (ops' # <<>> => Len(ops) >= 2 /\ Head(ops)' = ops[2])
    OBVIOUS
  <2>1. m = 0 /\ Len(z) = n - 1 /\ (n >= 2 => z[1] = ops[2])
    <3>1. m = 0
      OBVIOUS
    <3>2. n >= 2 => 1 \in m + 1 .. m + n - 1 /\ 1 - m + 1 = 2
      BY <1>1, <3>1
    <3> QED
      BY <1>1, <3>1, <3>2
  <2>2. z = <<>> <=> n < 2
    BY <1>1, <2>1
  <2>3. ops' # <<>> => Head(ops)' = z[1]
    BY <1>1, <1>8
  <2> QED
    BY <1>1, <1>8, <2>1, <2>2, <2>3 DEF First, Second
<1>11. w # <<>> => ops' # <<>> /\ Head(ops)' = w[1] /\ First' = Kind(w[1])
  <2> SUFFICES ASSUME w # <<>> PROVE ops' # <<>> /\ Head(ops)' = w[1] /\ First' = Kind(w[1])
    OBVIOUS
  <2>1. m >= 1 /\ z # <<>> /\ z[1] = w[1] /\ Head(z) = z[1]
    BY <1>1
  <2> QED
    BY <1>8, <2>1 DEF First
<1>12. Len(w) = 1 => Second' = Second
  <2> SUFFICES ASSUME m = 1 PROVE Second' = Second
    OBVIOUS
  <2>1. Len(z) = n /\ (n >= 2 => 2 \in m + 1 .. m + n - 1 /\ 2 - m + 1 = 2)
    BY <1>1
  <2>2. n >= 2 => z[2] = ops[2]
    BY <1>1, <2>1
  <2> QED
    BY <1>1, <1>8, <2>1, <2>2 DEF Second
<1>13. Len(w) > 1 => Second' = Kind(w[2])
  BY <1>1, <1>8 DEF Second
<1> QED
  BY <1>4, <1>9, <1>10, <1>11, <1>12, <1>13

(* What the arrangement says of the first operation and of those after it.   *)
Placed ==
  /\ First = Kind(Head(ops)) /\ First \in Kinds /\ All = {First} \cup Rest /\ Rest \subseteq Kinds
  /\ "sending" \notin Rest
  /\ \A x \in Rest : MayPrecede(First, x)
  /\ IF Second = "none" THEN Rest = {} /\ First \notin Unfinished
     ELSE Second \in Rest /\ MayFollow(First, Second)
  /\ "judge" \in Rest /\ First \in Seeking => "start" \in Rest
  /\ "judge" \in Rest => /\ Second \notin {"seek", "seeking", "sending"}
                         /\ Second = "judge" \/ Second \in Trying
                         /\ Rest \cap {"waitSense", "sense0", "getSr0", "getTrack0"} # {} => "start" \in Rest
  /\ First = "start" => "judge" \in Rest

LEMMA Order ==
  ASSUME StepInv, Arranged(KindsOf(ops)), ops # <<>>
  PROVE  ops \in Seq(Operations) /\ Head(ops) \in Operations /\ Placed
<1>1. ops \in Seq(Operations)
  BY DEF StepInv
<1>2. Head(ops) \in Operations
  BY <1>1
<1>3. "sending" \notin Rest
  <2>1. Tail(ops) \in Seq(Fresh)
    BY DEF StepInv, OpsOK
  <2>2. ASSUME NEW o \in Fresh PROVE Kind(o) # "sending"
    <3>1. o.op \in OpNames /\ (o.op = "send" => o.arg = 0)
      BY DEF Fresh, Operations
    <3> QED
      BY <3>1 DEF Kind, SendKind, OpNames, Compound
  <2>3. Later \subseteq Fresh
    BY <2>1 DEF Later, ToSet
  <2> QED
    BY <2>2, <2>3 DEF Rest, KindsIn
<1> QED
  BY <1>1, <1>2, <1>3, Control DEF Placed

(* The kinds of operations that are not commands.                            *)
LEMMA KindIs ==
  ASSUME NEW o \in Operations
  PROVE  /\ o.op \notin {"send", "wait", "sense", "getTrack"} => Kind(o) = o.op
         /\ o.op = "wait" => Kind(o) = IF o.arg = 1 THEN "waitSense" ELSE "wait"
         /\ o.op = "sense" => Kind(o) = IF o.arg = 0 THEN "sense0" ELSE "sense"
         /\ o.op = "getTrack" => Kind(o) = IF o.arg = 0 THEN "getTrack0" ELSE "getTrack"
         /\ o.op = "send" => Kind(o) = IF o.arg # 0 THEN "sending" ELSE SendKind(o.bytes[1])
BY DEF Kind

LEMMA KindsEmpty == KindsOf(<<>>) = <<>> /\ KindsIn(ToSet(<<>>)) = {} /\ <<>> \in Seq(Operations)
<1>1. KindsOf(<<>>) = <<>> /\ <<>> \in Seq(Operations)
  BY DEF KindsOf
<1>2. ToSet(<<>>) = {}
  BY DEF ToSet
<1> QED
  BY <1>1, <1>2 DEF KindsIn

LEMMA KindsOne ==
  ASSUME NEW a \in Operations
  PROVE  <<a>> \in Seq(Operations) /\ KindsOf(<<a>>) = <<Kind(a)>> /\ KindsIn(ToSet(<<a>>)) = {Kind(a)}
<1>1. ToSet(<<a>>) = {a}
  BY DEF ToSet
<1>2. KindsOf(<<a>>) = <<Kind(a)>>
  BY DEF KindsOf
<1> QED
  BY <1>1, <1>2 DEF KindsIn

(* The first operation done with.                                            *)
Onward ==
  /\ Arranged(KindsOf(ops))'
  /\ ToSet(ops)' = Later /\ Later \subseteq ToSet(ops)
  /\ All' = Rest /\ First' = Second
  /\ ops' # <<>> => Head(ops)' \in Later /\ Kind(Head(ops)') = Second /\ Head(ops)' = ops[2]
  /\ ops' = <<>> => Second = "none"

LEMMA Popped ==
  ASSUME StepInv, Arranged(KindsOf(ops)), ops # <<>>, ops' = <<>> \o Tail(ops),
         Replaces(<<>>, First)
  PROVE  Onward
<1>1. ops \in Seq(Operations) /\ First = Kind(Head(ops))
  BY Order DEF Placed
<1> DEFINE w == <<>>
<1>2. KindsOf(w) = <<>> /\ KindsIn(ToSet(w)) = {} /\ w \in Seq(Operations) /\ ToSet(w) = {} /\ w = <<>>
  BY KindsEmpty DEF ToSet
<1>3. Replaces(KindsOf(w), Kind(Head(ops))) /\ ops' = w \o Tail(ops)
  BY <1>1, <1>2
<1> HIDE DEF w
<1>4. /\ Arranged(KindsOf(ops))'
      /\ ToSet(ops)' = ToSet(w) \cup Later /\ Later \subseteq ToSet(ops)
      /\ All' = KindsIn(ToSet(w)) \cup Rest
      /\ w = <<>> => First' = Second /\ (ops' # <<>> => Len(ops) >= 2 /\ Head(ops)' = ops[2])
  BY <1>1, <1>2, <1>3, Replaced
<1>5. ops' # <<>> => Head(ops)' \in Later /\ Kind(Head(ops)') = Second /\ Head(ops)' = ops[2]
  <2>1. ASSUME Len(ops) >= 2 PROVE ops[2] \in Later /\ Kind(ops[2]) = Second
    <3>1. Tail(ops)[1] = ops[2] /\ 1 \in DOMAIN Tail(ops)
      BY <1>1, <2>1
    <3>2. Len(ops) \in Nat
      BY <1>1
    <3> QED
      <4>1. ops[2] \in Later
        BY <3>1, Zenon DEF Later, ToSet
      <4>2. Kind(ops[2]) = Second
        BY <2>1, <3>2 DEF Second
      <4> QED
        BY <4>1, <4>2
  <2> QED
    BY <1>2, <1>4, <2>1
<1>6. ops' = <<>> => First' = "none"
  BY DEF First
<1> QED
  BY <1>2, <1>4, <1>5, <1>6 DEF Onward

(* The first operation replaced by one.                                      *)
With(a) ==
  /\ Arranged(KindsOf(ops))'
  /\ ToSet(ops)' = {a} \cup Later /\ Later \subseteq ToSet(ops)
  /\ All' = {Kind(a)} \cup Rest /\ First' = Kind(a) /\ Second' = Second
  /\ ops' # <<>> /\ Head(ops)' = a

LEMMA Exchanged ==
  ASSUME StepInv, Arranged(KindsOf(ops)), ops # <<>>, NEW a \in Operations, ops' = <<a>> \o Tail(ops),
         Replaces(<<Kind(a)>>, First)
  PROVE  With(a)
<1>1. ops \in Seq(Operations) /\ First = Kind(Head(ops))
  BY Order DEF Placed
<1> DEFINE w == <<a>>
<1>2. KindsOf(w) = <<Kind(a)>> /\ KindsIn(ToSet(w)) = {Kind(a)} /\ w \in Seq(Operations) /\ ToSet(w) = {a} /\ w # <<>>
      /\ Len(w) = 1 /\ w[1] = a
  BY KindsOne DEF ToSet
<1>3. Replaces(KindsOf(w), Kind(Head(ops))) /\ ops' = w \o Tail(ops)
  BY <1>1, <1>2
<1> HIDE DEF w
<1>4. /\ Arranged(KindsOf(ops))'
      /\ ToSet(ops)' = ToSet(w) \cup Later /\ Later \subseteq ToSet(ops)
      /\ All' = KindsIn(ToSet(w)) \cup Rest
      /\ w # <<>> => ops' # <<>> /\ Head(ops)' = w[1] /\ First' = Kind(w[1])
      /\ Len(w) = 1 => Second' = Second
  BY <1>1, <1>2, <1>3, Replaced
<1> QED
  BY <1>2, <1>4 DEF With

-----------------------------------------------------------------------------
(* The steps of the driver that send nothing. A lemma named after an action  *)
(* says that the action keeps XInv.                                          *)

(* A prompt controller is idle when the driver does anything but wait.       *)
LEMMA Ready ==
  ASSUME StepInv, Prompt, PromptInv, NEW name, Doing(name)
  PROVE  /\ ops # <<>> /\ Head(ops).op = name /\ Head(ops) \in Operations /\ fdc.goal < 0 /\ fdc.goal = -1
         /\ fdc.phase # "execution" /\ env.answers /\ env.prompt
         /\ fdc.phase \in {"command", "result"}
<1>1. fdc.goal \in Bytes8 \cup {-1} /\ fdc.phase \in {"command", "execution", "result"}
  BY DEF StepInv, FdcOK, Controllers
<1>2. ops \in Seq(Operations)
  BY DEF StepInv
<1>3. ops # <<>> /\ Head(ops).op = name /\ fdc.goal < 0 /\ fdc.phase # "execution" /\ env.answers /\ env.prompt
  BY DEF Doing, Prompt
<1>4. Head(ops) \in Operations
  BY <1>2, <1>3
<1>5. fdc.goal = -1
  <2> DEFINE g == fdc.goal
  <2>1. g \in Bytes8 \cup {-1} /\ g < 0
    BY <1>1, <1>3
  <2> HIDE DEF g
  <2>2. g = -1
    BY <2>1 DEF Bytes8
  <2> QED
    BY <2>2 DEF g
<1> QED
  BY <1>1, <1>3, <1>4, <1>5

(* Steps that only take an operation off the list.                           *)
LEMMA CylKept ==
  ASSUME req.lba' = req.lba, req.write' = req.write
  PROVE  Cyl' = Cyl /\ ThisTransfer' = ThisTransfer
BY DEF Cyl, ThisTransfer

LEMMA WaitIntX ==
  ASSUME StepInv, XInv, WaitInt
  PROVE  Arranged(KindsOf(ops))' /\ OnDisk' /\ (Prompt => PromptInv')
<1>1. ops # <<>> /\ Head(ops).op = "waitint" /\ ops' = <<>> \o Tail(ops) /\ Arranged(KindsOf(ops))
      /\ UNCHANGED <<status, track, req, fdc, head, answer, env>>
  BY DEF WaitInt, Doing, Continue, machine, XInv
<1>2. ops \in Seq(Operations) /\ Head(ops) \in Operations /\ Placed
  BY <1>1, Order
<1>3. First = "waitint"
  BY <1>1, <1>2, KindIs DEF Placed
<1>4. Onward
  BY <1>1, <1>3, Popped DEF Replaces
<1>5. /\ Second \in {"waitint", "drain", "sense0"} /\ Second \in Rest
      /\ \A x \in Rest : x \notin {"getSr0", "getTrack0", "getTrack", "waitSense"}
  BY <1>2, <1>3 DEF Placed, MayFollow, MayPrecede, Unfinished, Trying, Seeking, Waiting
<1>6. OnDisk'
  BY <1>1, <1>2, <1>4 DEF XInv, OnDisk, Onward, Placed
<1>7. Cyl' = Cyl /\ ThisTransfer' = ThisTransfer
  BY <1>1, CylKept
<1>8. ASSUME Prompt PROVE PromptInv'
  <2>1. PromptInv /\ fdc.goal < 0 /\ fdc.phase # "execution"
    BY <1>8, Ready DEF XInv, WaitInt
  <2>2. Gates'
    BY <1>1, <1>2, <1>3, <1>4, <1>5, <2>1 DEF Gates, PromptInv, Verdict, Judging, Placed, Onward
  <2>3. Sensed'
    BY <1>1, <1>2, <1>3, <1>4, <1>5, <1>7, <2>1 DEF Sensed, PromptInv, Placed, Onward
  <2>4. Tracked'
    BY <1>1, <1>2, <1>3, <1>4, <1>5, <1>7, <2>1 DEF Tracked, PromptInv, Placed, Onward
  <2>5. Messages'
    BY <1>1, <1>2, <1>3, <1>4, <1>5, <1>7, <2>1 DEF Messages, PromptInv, Placed, Onward
  <2>6. Aim'
    BY <1>1, <1>2, <1>3, <1>4, <1>5, <1>7, <2>1 DEF Aim, PromptInv, Placed, Onward
  <2>7. Verdict'
    <3>1. Judging' <=> Judging
      BY <1>2, <1>3, <1>4 DEF Judging, Placed, Onward
    <3>2. Answered' <=> Answered
      BY <1>1, <1>7 DEF Answered
    <3>3. CASE Judging
      <4>1. Answered /\ fdc.phase = "result" /\ fdc.result = answer
        BY <1>3, <2>1, <3>3 DEF PromptInv, Verdict
      <4>2. Len(answer) = 7
        BY <4>1 DEF Answered
      <4>3. First' = "drain" => Head(ops)'.arg = 0
        BY <1>1, <1>2, <1>3, <1>4, <1>5, <2>1 DEF PromptInv, Messages, Placed, Onward
      <4> QED
        BY <1>1, <1>4, <1>5, <2>1, <3>1, <3>2, <3>3, <4>1, <4>2, <4>3 DEF Verdict, Onward
    <3>4. CASE ~Judging
      BY <1>1, <1>3, <1>4, <1>5, <2>1, <3>1, <3>4 DEF PromptInv, Verdict, Onward
    <3> QED
      BY <3>3, <3>4
  <2>8. Outcome'
    BY <1>1, <1>2, <1>3, <1>4, <1>5, <1>7, <2>1 DEF Outcome, PromptInv, Placed, Onward
  <2> QED
    BY <2>2, <2>3, <2>4, <2>5, <2>6, <2>7, <2>8 DEF PromptInv
<1> QED
  BY <1>4, <1>6, <1>8 DEF Onward

LEMMA ClearX ==
  ASSUME StepInv, XInv, Clear
  PROVE  Arranged(KindsOf(ops))' /\ OnDisk' /\ (Prompt => PromptInv')
<1>1. ops # <<>> /\ Head(ops).op = "clear" /\ ops' = <<>> \o Tail(ops) /\ Arranged(KindsOf(ops))
      /\ UNCHANGED <<status, track, req, fdc, head, answer, env>>
  BY DEF Clear, Doing, Continue, machine, XInv
<1>2. ops \in Seq(Operations) /\ Head(ops) \in Operations /\ Placed
  BY <1>1, Order
<1>3. First = "clear"
  BY <1>1, <1>2, KindIs DEF Placed
<1>4. Onward
  BY <1>1, <1>3, Popped DEF Replaces
<1>5. \A x \in Rest : x \notin {"getSr0", "getTrack0", "getTrack", "waitSense", "waitint", "drain"} /\ Second # "wait"
  BY <1>2, <1>3 DEF Placed, MayFollow, MayPrecede, Unfinished, Trying, Seeking, Waiting
<1>6. OnDisk'
  BY <1>1, <1>2, <1>4 DEF XInv, OnDisk, Onward, Placed
<1>7. Cyl' = Cyl /\ ThisTransfer' = ThisTransfer
  BY <1>1, CylKept
<1>8. ASSUME Prompt PROVE PromptInv'
  <2>1. PromptInv /\ fdc.goal < 0 /\ fdc.phase # "execution"
    BY <1>8, Ready DEF XInv, Clear
  <2>2. Gates'
    BY <1>1, <1>2, <1>3, <1>4, <1>5, <1>7, <2>1 DEF Gates, PromptInv, Placed, Onward
  <2>3. Sensed'
    BY <1>1, <1>2, <1>3, <1>4, <1>5, <1>7, <2>1 DEF Sensed, PromptInv, Placed, Onward
  <2>4. Tracked'
    BY <1>1, <1>2, <1>3, <1>4, <1>5, <1>7, <2>1 DEF Tracked, PromptInv, Placed, Onward
  <2>5. Messages'
    BY <1>1, <1>2, <1>3, <1>4, <1>5, <1>7, <2>1 DEF Messages, PromptInv, Placed, Onward
  <2>6. Aim'
    BY <1>1, <1>2, <1>3, <1>4, <1>5, <1>7, <2>1 DEF Aim, PromptInv, Placed, Onward
  <2>7. Verdict'
    BY <1>1, <1>2, <1>3, <1>4, <1>5, <1>7, <2>1 DEF Verdict, Answered, Judging, PromptInv, Placed,
       Onward
  <2>8. Outcome'
    BY <1>1, <1>2, <1>3, <1>4, <1>5, <1>7, <2>1 DEF Outcome, PromptInv, Placed, Onward
  <2> QED
    BY <2>2, <2>3, <2>4, <2>5, <2>6, <2>7, <2>8 DEF PromptInv
<1> QED
  BY <1>4, <1>6, <1>8 DEF Onward

LEMMA AllocX ==
  ASSUME StepInv, XInv, Alloc
  PROVE  Arranged(KindsOf(ops))' /\ OnDisk' /\ (Prompt => PromptInv')
<1>1. ops # <<>> /\ Head(ops).op = "alloc" /\ ops' = <<>> \o Tail(ops) /\ Arranged(KindsOf(ops))
      /\ UNCHANGED <<status, track, req, fdc, head, answer, env>>
  BY DEF Alloc, Doing, Continue, machine, XInv
<1>2. ops \in Seq(Operations) /\ Head(ops) \in Operations /\ Placed
  BY <1>1, Order
<1>3. First = "alloc"
  BY <1>1, <1>2, KindIs DEF Placed
<1>4. Onward
  BY <1>1, <1>3, Popped DEF Replaces
<1>5. Second = "reset" /\ Second \in Rest /\ "judge" \notin Rest
      /\ \A x \in Rest : x \notin {"getSr0", "getTrack0", "getTrack", "waitSense", "waitint", "drain", "sense0"}
  BY <1>2, <1>3 DEF Placed, MayFollow, MayPrecede, Unfinished, Trying, Seeking, Waiting
<1>6. OnDisk'
  BY <1>1, <1>2, <1>4 DEF XInv, OnDisk, Onward, Placed
<1>7. Cyl' = Cyl /\ ThisTransfer' = ThisTransfer
  BY <1>1, CylKept
<1>8. ASSUME Prompt PROVE PromptInv'
  <2>1. PromptInv /\ fdc.goal < 0 /\ fdc.phase # "execution"
    BY <1>8, Ready DEF XInv, Alloc
  <2>2. Gates'
    BY <1>1, <1>2, <1>3, <1>4, <1>5, <1>7, <2>1 DEF Gates, PromptInv, Placed, Onward
  <2>3. Sensed'
    BY <1>1, <1>2, <1>3, <1>4, <1>5, <1>7, <2>1 DEF Sensed, PromptInv, Placed, Onward
  <2>4. Tracked'
    BY <1>1, <1>2, <1>3, <1>4, <1>5, <1>7, <2>1 DEF Tracked, PromptInv, Placed, Onward
  <2>5. Messages'
    BY <1>1, <1>2, <1>3, <1>4, <1>5, <1>7, <2>1 DEF Messages, PromptInv, Placed, Onward
  <2>6. Aim'
    BY <1>1, <1>2, <1>3, <1>4, <1>5, <1>7, <2>1 DEF Aim, PromptInv, Placed, Onward
  <2>7. Verdict'
    BY <1>1, <1>2, <1>3, <1>4, <1>5, <1>7, <2>1 DEF Verdict, Answered, Judging, PromptInv, Placed,
       Onward
  <2>8. Outcome'
    BY <1>1, <1>2, <1>3, <1>4, <1>5, <1>7, <2>1 DEF Outcome, PromptInv, Placed, Onward
  <2> QED
    BY <2>2, <2>3, <2>4, <2>5, <2>6, <2>7, <2>8 DEF PromptInv
<1> QED
  BY <1>4, <1>6, <1>8 DEF Onward

LEMMA StartX ==
  ASSUME StepInv, XInv, Start
  PROVE  Arranged(KindsOf(ops))' /\ OnDisk' /\ (Prompt => PromptInv')
<1>1. ops # <<>> /\ Head(ops).op = "start" /\ ops' = <<>> \o Tail(ops) /\ Arranged(KindsOf(ops))
      /\ UNCHANGED <<status, track, req, fdc, head, env>>
  BY DEF Start, Doing, Continue, machine, XInv
<1>2. ops \in Seq(Operations) /\ Head(ops) \in Operations /\ Placed
  BY <1>1, Order
<1>3. First = "start"
  BY <1>1, <1>2, KindIs DEF Placed
<1>4. Onward
  BY <1>1, <1>3, Popped DEF Replaces
<1>5. Second = "transferring" /\ Second \in Rest
      /\ \A x \in Rest : x \notin {"getSr0", "getTrack0", "getTrack", "waitSense", "waitint", "drain", "sense0"}
  BY <1>2, <1>3 DEF Placed, MayFollow, MayPrecede, Unfinished, Trying, Seeking, Waiting
<1>6. OnDisk'
  BY <1>1, <1>2, <1>4 DEF XInv, OnDisk, Onward, Placed
<1>7. Cyl' = Cyl /\ ThisTransfer' = ThisTransfer
  BY <1>1, CylKept
<1>8. ASSUME Prompt PROVE PromptInv'
  <2>1. PromptInv /\ fdc.goal < 0 /\ fdc.phase # "execution"
    BY <1>8, Ready DEF XInv, Start
  <2>2. Gates'
    BY <1>1, <1>2, <1>3, <1>4, <1>5, <1>7, <2>1 DEF Gates, PromptInv, Placed, Onward
  <2>3. Sensed'
    BY <1>1, <1>2, <1>3, <1>4, <1>5, <1>7, <2>1 DEF Sensed, PromptInv, Placed, Onward
  <2>4. Tracked'
    BY <1>1, <1>2, <1>3, <1>4, <1>5, <1>7, <2>1 DEF Tracked, PromptInv, Placed, Onward
  <2>5. Messages'
    BY <1>1, <1>2, <1>3, <1>4, <1>5, <1>7, <2>1 DEF Messages, PromptInv, Placed, Onward
  <2>6. Aim'
    BY <1>1, <1>2, <1>3, <1>4, <1>5, <1>7, <2>1 DEF Aim, PromptInv, Placed, Onward
  <2>7. Verdict'
    BY <1>1, <1>2, <1>3, <1>4, <1>5, <1>7, <2>1 DEF Verdict, Answered, Judging, PromptInv, Placed,
       Onward
  <2>8. Outcome'
    BY <1>1, <1>2, <1>3, <1>4, <1>5, <1>7, <2>1 DEF Outcome, PromptInv, Placed, Onward
  <2> QED
    BY <2>2, <2>3, <2>4, <2>5, <2>6, <2>7, <2>8 DEF PromptInv
<1> QED
  BY <1>4, <1>6, <1>8 DEF Onward

-----------------------------------------------------------------------------
(* Reading the result of a command, byte by byte.                            *)

LEMMA Parted ==
  ASSUME NEW S, NEW r \in Seq(S), r # <<>>
  PROVE  /\ Len(r) \in Nat /\ Len(r) >= 1 /\ Head(r) = r[1] /\ r[1] \in S /\ Tail(r) \in Seq(S)
         /\ Len(Tail(r)) = Len(r) - 1 /\ \A i \in 1 .. Len(r) - 1 : Tail(r)[i] = r[i + 1]
<1>1. Len(r) \in Nat /\ Len(r) >= 1
  OBVIOUS
<1>2. r[1] \in S /\ Head(r) = r[1]
  BY <1>1
<1>3. Tail(r) \in Seq(S) /\ Len(Tail(r)) = Len(r) - 1
  OBVIOUS
<1>4. ASSUME NEW i \in 1 .. Len(r) - 1 PROVE Tail(r)[i] = r[i + 1]
  OBVIOUS
<1> QED
  BY <1>1, <1>2, <1>3, <1>4

LEMMA Alone == ASSUME NEW h PROVE Head(<<h>>) = h /\ <<h>> # <<>>
OBVIOUS

(* What taking a byte of the result leaves.                                  *)
LEMMA TakenIs ==
  ASSUME StepInv, Taken
  PROVE  /\ fdc'.goal = fdc.goal /\ fdc'.pending = fdc.pending
         /\ fdc.phase # "result" => fdc' = fdc /\ fdc.result = <<>>
         /\ fdc.phase = "result" =>
              /\ Len(fdc.result) \in 1 .. 7 /\ Len(fdc'.result) = Len(fdc.result) - 1
              /\ Head(fdc.result) = fdc.result[1] /\ fdc.result[1] \in Bytes8
              /\ fdc'.phase = IF Len(fdc.result) = 1 THEN "command" ELSE "result"
              /\ fdc'.result \in Seq(Bytes8)
              /\ \A i \in 1 .. Len(fdc.result) - 1 : fdc'.result[i] = fdc.result[i + 1]
<1>1. fdc \in Controllers /\ Consistent(fdc)
  BY DEF StepInv, FdcOK, Phases
<1>2. CASE fdc.phase # "result"
  BY <1>1, <1>2 DEF Taken, Consistent
<1>3. CASE fdc.phase = "result"
  <2> DEFINE r == fdc.result
  <2>1. r # <<>> /\ r \in Seq(Bytes8) /\ Len(r) <= 7
    BY <1>1, <1>3 DEF Consistent, Controllers
  <2> HIDE DEF r
  <2>2. /\ Len(r) \in 1 .. 7 /\ Head(r) = r[1] /\ r[1] \in Bytes8 /\ Tail(r) \in Seq(Bytes8)
        /\ Len(Tail(r)) = Len(r) - 1 /\ \A i \in 1 .. Len(r) - 1 : Tail(r)[i] = r[i + 1]
    <3>1. /\ Len(r) \in Nat /\ Len(r) >= 1 /\ Head(r) = r[1] /\ r[1] \in Bytes8 /\ Tail(r) \in Seq(Bytes8)
          /\ Len(Tail(r)) = Len(r) - 1 /\ \A i \in 1 .. Len(r) - 1 : Tail(r)[i] = r[i + 1]
      BY <2>1, Parted, Zenon
    <3>2. Len(r) \in 1 .. 7
      BY <2>1, <3>1, SMTT(30)
    <3> QED
      BY <3>1, <3>2
  <2>3. CASE Len(r) = 1
    <3> DEFINE g == [fdc EXCEPT !.phase = "command"]
    <3>1. fdc' = [g EXCEPT !.result = <<>>]
      BY <1>3, <2>3 DEF Taken, r
    <3>2. g = [phase |-> "command", bytes |-> fdc.bytes, result |-> fdc.result, goal |-> fdc.goal,
               pending |-> fdc.pending]
      BY <1>1 DEF Controllers
    <3> HIDE DEF g
    <3>3. fdc' = [phase |-> "command", bytes |-> fdc.bytes, result |-> <<>>, goal |-> fdc.goal,
                  pending |-> fdc.pending]
      BY <3>1, <3>2
    <3> QED
      BY <1>3, <2>2, <2>3, <3>3 DEF r
  <2>4. CASE Len(r) # 1
    <3>1. fdc' = [fdc EXCEPT !.result = Tail(@)]
      BY <1>3, <2>4 DEF Taken, r
    <3>2. fdc' = [phase |-> fdc.phase, bytes |-> fdc.bytes, result |-> Tail(r), goal |-> fdc.goal,
                  pending |-> fdc.pending]
      BY <1>1, <3>1 DEF Controllers, r
    <3> QED
      BY <1>3, <2>2, <2>4, <3>2 DEF r
  <2> QED
    BY <2>3, <2>4
<1> QED
  BY <1>2, <1>3

LEMMA OnlyOne == ASSUME NEW s \in Seq(Bytes8), NEW b, Len(s) = 1, s[1] = b PROVE s = <<b>>
OBVIOUS

LEMMA GetSr0X ==
  ASSUME StepInv, XInv, GetSr0
  PROVE  Arranged(KindsOf(ops))' /\ OnDisk' /\ (Prompt => PromptInv')
<1>1. ops # <<>> /\ Head(ops).op = "getSr0" /\ ops' = <<>> \o Tail(ops) /\ Arranged(KindsOf(ops))
      /\ UNCHANGED <<status, track, req, head, answer, env>>
  BY DEF GetSr0, Doing, Continue, machine, XInv
<1>2. ops \in Seq(Operations) /\ Head(ops) \in Operations /\ Placed
  BY <1>1, Order
<1>3. First = "getSr0"
  BY <1>1, <1>2, KindIs DEF Placed
<1>4. Onward
  BY <1>1, <1>3, Popped DEF Replaces
<1>5. Second \in {"getTrack0", "getTrack"} /\ Second \in Rest /\ "sense0" \notin Rest /\ "waitSense" \notin Rest
  BY <1>2, <1>3 DEF Placed, MayFollow, MayPrecede, Unfinished, Trying, Seeking, Waiting
<1>6. OnDisk'
  BY <1>1, <1>2, <1>4 DEF XInv, OnDisk, Onward, Placed
<1>7. Cyl' = Cyl /\ ThisTransfer' = ThisTransfer
  BY <1>1, CylKept
<1>8. ASSUME Prompt PROVE PromptInv'
  <2>1. PromptInv /\ fdc.goal < 0 /\ fdc.goal = -1 /\ fdc.phase # "execution" /\ env.answers
    BY <1>8, Ready DEF XInv, GetSr0
  <2>0. /\ fdc'.goal = fdc.goal /\ fdc'.pending = fdc.pending /\ fdc'.phase # "execution"
        /\ Len(fdc'.result) <= 1
        /\ "getTrack0" \in All => fdc'.result = <<head>>
    <3>1. /\ fdc.phase = "result" /\ Len(fdc.result) \in {1, 2}
          /\ ("getTrack0" \in All => Len(fdc.result) = 2 /\ fdc.result[2] = head)
      BY <1>3, <2>1 DEF PromptInv, Gates, Sensed
    <3>2. /\ fdc'.goal = fdc.goal /\ fdc'.pending = fdc.pending
          /\ Len(fdc'.result) = Len(fdc.result) - 1 /\ fdc'.result \in Seq(Bytes8)
          /\ fdc'.phase = IF Len(fdc.result) = 1 THEN "command" ELSE "result"
          /\ \A i \in 1 .. Len(fdc.result) - 1 : fdc'.result[i] = fdc.result[i + 1]
      BY <3>1, TakenIs DEF GetSr0
    <3>3. "getTrack0" \in All => Len(fdc'.result) = 1 /\ fdc'.result[1] = head
      BY <3>1, <3>2
    <3> QED
      BY <3>1, <3>2, <3>3, OnlyOne
  <2>2. Gates'
    BY <1>1, <1>2, <1>3, <1>4, <1>5, <1>7, <2>0, <2>1 DEF Gates, PromptInv, Placed, Onward
  <2>3. Sensed'
    BY <1>1, <1>2, <1>3, <1>4, <1>5, <1>7, <2>0, <2>1 DEF Sensed, PromptInv, Placed, Onward
  <2>4. Tracked'
    BY <1>1, <1>2, <1>3, <1>4, <1>5, <1>7, <2>0, <2>1 DEF Tracked, PromptInv, Placed, Onward
  <2>5. Messages'
    BY <1>1, <1>2, <1>3, <1>4, <1>5, <1>7, <2>0, <2>1 DEF Messages, PromptInv, Placed, Onward
  <2>6. Aim'
    BY <1>1, <1>2, <1>3, <1>4, <1>5, <1>7, <2>0, <2>1 DEF Aim, PromptInv, Placed, Onward
  <2>7. Verdict'
    BY <1>1, <1>2, <1>3, <1>4, <1>5, <1>7, <2>0, <2>1 DEF Verdict, Answered, Judging, PromptInv,
       Placed, Onward
  <2>8. Outcome'
    BY <1>1, <1>2, <1>3, <1>4, <1>5, <1>7, <2>0, <2>1 DEF Outcome, PromptInv, Placed, Onward
  <2> QED
    BY <2>2, <2>3, <2>4, <2>5, <2>6, <2>7, <2>8 DEF PromptInv
<1> QED
  BY <1>4, <1>6, <1>8 DEF Onward

LEMMA GetTrackX ==
  ASSUME StepInv, XInv, GetTrack
  PROVE  Arranged(KindsOf(ops))' /\ OnDisk' /\ (Prompt => PromptInv')
<1>1. ops # <<>> /\ Head(ops).op = "getTrack" /\ ops' = <<>> \o Tail(ops) /\ Arranged(KindsOf(ops))
      /\ UNCHANGED <<status, req, head, answer, env>>
  BY DEF GetTrack, Doing, Continue, machine, XInv
<1>2. ops \in Seq(Operations) /\ Head(ops) \in Operations /\ Placed
  BY <1>1, Order
<1>3. First \in {"getTrack", "getTrack0"}
  BY <1>1, <1>2, KindIs DEF Placed
<1>4. Onward
  BY <1>1, <1>3, Popped DEF Replaces
<1>5. "sense0" \notin Rest /\ Second # "wait"
      /\ \A x \in Rest : x \notin {"getSr0", "getTrack0", "getTrack", "waitSense", "waitint", "drain"}
  BY <1>2, <1>3 DEF Placed, MayFollow, MayPrecede, Unfinished, Trying, Seeking, Waiting
<1>6. OnDisk'
  BY <1>1, <1>2, <1>4 DEF XInv, OnDisk, Onward, Placed
<1>7. Cyl' = Cyl /\ ThisTransfer' = ThisTransfer
  BY <1>1, CylKept
<1>8. ASSUME Prompt PROVE PromptInv'
  <2>1. PromptInv /\ fdc.goal < 0 /\ fdc.goal = -1 /\ fdc.phase # "execution" /\ env.answers
    BY <1>8, Ready DEF XInv, GetTrack
  <2>0. /\ fdc'.goal = fdc.goal /\ fdc'.phase = "command"
        /\ "judge" \in Rest => "start" \in Rest
        /\ First = "getTrack" => track' = track
        /\ First = "getTrack0" => track' = head
    <3>1. Len(fdc.result) <= 1 /\ (First = "getTrack0" => fdc.result = <<head>>)
      BY <1>3, <2>1 DEF PromptInv, Gates, Sensed
    <3>2. /\ fdc'.goal = fdc.goal
          /\ fdc.phase # "result" => fdc' = fdc /\ fdc.result = <<>>
          /\ fdc.phase = "result" => Len(fdc.result) \in 1 .. 7 /\ Head(fdc.result) = fdc.result[1]
                                     /\ fdc'.phase = IF Len(fdc.result) = 1 THEN "command" ELSE "result"
      BY TakenIs DEF GetTrack
    <3>3. fdc'.phase = "command"
      <4>1. fdc.phase \in {"command", "execution", "result"}
        BY DEF StepInv, FdcOK, Controllers
      <4> QED
        BY <2>1, <3>1, <3>2, <4>1, SMTT(30)
    <3>4. First = "getTrack" => track' = track
      BY <1>1, <1>2, KindIs DEF GetTrack, Placed
    <3>5. ASSUME First = "getTrack0" PROVE track' = head
      <4>1. Head(ops).arg = 0
        BY <1>1, <1>2, <3>5, KindIs DEF Placed
      <4>2. fdc.phase = "result" /\ Byte = head
        <5>1. fdc.result = <<head>>
          BY <3>1, <3>5
        <5>2. Head(fdc.result) = head /\ fdc.result # <<>>
          BY <5>1, Alone
        <5>3. fdc.phase = "result"
          BY <3>2, <5>2
        <5> QED
          BY <2>1, <5>2, <5>3 DEF Byte
      <4>3. head % Words = head
        <5>1. head \in 0 .. 255
          BY DEF StepInv, FdcOK, Bytes8
        <5> QED
          BY <5>1 DEF Words
      <4> QED
        BY <4>1, <4>2, <4>3 DEF GetTrack
    <3>6. "judge" \in Rest => "start" \in Rest
      BY <1>2, <1>3 DEF Placed, MayPrecede, Trying, Seeking, Waiting
    <3> QED
      BY <3>2, <3>3, <3>4, <3>5, <3>6
  <2>2. Gates'
    BY <1>1, <1>2, <1>3, <1>4, <1>5, <1>7, <2>0, <2>1 DEF Gates, PromptInv, Placed, Onward
  <2>3. Sensed'
    BY <1>1, <1>2, <1>3, <1>4, <1>5, <1>7, <2>0, <2>1 DEF Sensed, PromptInv, Placed, Onward
  <2>4. Tracked'
    BY <1>1, <1>2, <1>3, <1>4, <1>5, <1>7, <2>0, <2>1 DEF Tracked, PromptInv, Placed, Onward
  <2>5. Messages'
    BY <1>1, <1>2, <1>3, <1>4, <1>5, <1>7, <2>0, <2>1 DEF Messages, PromptInv, Placed, Onward
  <2>6. Aim'
    BY <1>1, <1>2, <1>3, <1>4, <1>5, <1>7, <2>0, <2>1 DEF Aim, PromptInv, Placed, Onward
  <2>7. Verdict'
    BY <1>1, <1>2, <1>3, <1>4, <1>5, <1>7, <2>0, <2>1 DEF Verdict, Answered, Judging, PromptInv,
       Placed, Onward
  <2>8. Outcome'
    BY <1>1, <1>2, <1>3, <1>4, <1>5, <1>7, <2>0, <2>1 DEF Outcome, PromptInv, Placed, Onward
  <2> QED
    BY <2>2, <2>3, <2>4, <2>5, <2>6, <2>7, <2>8 DEF PromptInv
<1> QED
  BY <1>4, <1>6, <1>8 DEF Onward

LEMMA DrainOnX ==
  ASSUME StepInv, XInv, Drain, Head(ops).arg < StatusSize /\ RQM
  PROVE  Arranged(KindsOf(ops))' /\ OnDisk' /\ (Prompt => PromptInv')
<1> DEFINE a == Op("drain", Head(ops).arg + 1)
<1>1. ops # <<>> /\ Head(ops).op = "drain" /\ ops' = <<a>> \o Tail(ops) /\ Arranged(KindsOf(ops))
      /\ UNCHANGED <<track, req, head, answer, env>>
  BY DEF Drain, Doing, Continue, machine, XInv
<1>2. ops \in Seq(Operations) /\ Head(ops) \in Operations /\ Placed
  BY <1>1, Order
<1>3. First = "drain"
  BY <1>1, <1>2, KindIs DEF Placed
<1>0. a \in Operations /\ Kind(a) = "drain" /\ a.arg = Head(ops).arg + 1
  BY <1>1, <1>2 DEF Op, Operations, OpNames, Compound, Kind
<1> HIDE DEF a
<1>4. With(a)
  BY <1>0, <1>1, <1>3, Exchanged DEF Replaces
<1>5. Second \in {"sense0", "clear"} /\ "dor" \notin Rest
      /\ \A x \in Rest : x \notin {"getSr0", "getTrack0", "getTrack", "waitSense"}
  BY <1>2, <1>3 DEF Placed, MayFollow, MayPrecede, Unfinished, Trying, Seeking, Waiting
<1>6. OnDisk'
  BY <1>0, <1>1, <1>2, <1>3, <1>4 DEF XInv, OnDisk, With, Placed
<1>7. Cyl' = Cyl /\ ThisTransfer' = ThisTransfer
  BY <1>1, CylKept
<1>8. ASSUME Prompt PROVE PromptInv'
  <2>1. PromptInv /\ fdc.goal < 0 /\ fdc.goal = -1 /\ fdc.phase # "execution" /\ env.answers
    BY <1>8, Ready DEF XInv, Drain
  <2> DEFINE n == Head(ops).arg
  <2>0. /\ fdc'.goal = fdc.goal /\ fdc'.pending = fdc.pending /\ fdc'.phase # "execution"
        /\ n \in Nat /\ n < 7 /\ status' = [status EXCEPT ![n + 1] = Byte % 256]
        /\ fdc.phase # "result" => fdc' = fdc /\ fdc.result = <<>>
        /\ fdc.phase = "result" =>
              /\ Len(fdc.result) \in 1 .. 7 /\ Len(fdc'.result) = Len(fdc.result) - 1
              /\ Head(fdc.result) = fdc.result[1] /\ fdc.result[1] \in Bytes8
              /\ fdc'.phase = IF Len(fdc.result) = 1 THEN "command" ELSE "result"
              /\ \A i \in 1 .. Len(fdc.result) - 1 : fdc'.result[i] = fdc.result[i + 1]
    <3>1. Taken /\ n < 7 /\ status' = [status EXCEPT ![n + 1] = Byte % 256]
      BY DEF Drain, StatusSize
    <3>2. n \in Nat
      BY <1>2 DEF Operations
    <3> QED
      BY <2>1, <3>1, <3>2, TakenIs
  <2>2. Gates'
    BY <1>0, <1>1, <1>2, <1>3, <1>4, <1>5, <1>7, <2>0, <2>1 DEF Gates, PromptInv, Placed, With
  <2>3. Sensed'
    BY <1>0, <1>1, <1>2, <1>3, <1>4, <1>5, <1>7, <2>0, <2>1 DEF Sensed, PromptInv, Placed, With
  <2>4. Tracked'
    BY <1>0, <1>1, <1>2, <1>3, <1>4, <1>5, <1>7, <2>0, <2>1 DEF Tracked, PromptInv, Placed, With
  <2>5. Messages'
    BY <1>0, <1>1, <1>2, <1>3, <1>4, <1>5, <1>7, <2>0, <2>1 DEF Messages, PromptInv, Placed, With
  <2>6. Aim'
    BY <1>0, <1>1, <1>2, <1>3, <1>4, <1>5, <1>7, <2>0, <2>1 DEF Aim, PromptInv, Placed, With
  <2>7. Verdict'
    <3>1. Judging' <=> Judging
      BY <1>0, <1>2, <1>3, <1>4 DEF Judging, Placed, With
    <3>2. Answered' <=> Answered
      BY <1>1, <1>7 DEF Answered
    <3>3. First' = "drain" /\ Head(ops)'.arg = n + 1
      BY <1>0, <1>4 DEF With
    <3>4. CASE Judging
      <4>1. /\ Answered /\ n <= 7 /\ Len(fdc.result) = 7 - n
            /\ \A m \in 1 .. n : status[m] = answer[m]
            /\ \A m \in 1 .. 7 - n : fdc.result[m] = answer[n + m]
        BY <1>3, <2>1, <3>4 DEF PromptInv, Verdict
      <4>2. fdc.phase = "result"
        <5>1. Len(<<>>) = 0
          OBVIOUS
        <5> QED
          BY <2>0, <4>1, <5>1
      <4>3. n + 1 <= 7 /\ Len(fdc'.result) = 7 - (n + 1)
        BY <2>0, <4>1, <4>2
      <4>4. \A m \in 1 .. n + 1 : status'[m] = answer[m]
        <5>1. 1 \in 1 .. 7 - n /\ fdc.result[1] = answer[n + 1]
          BY <2>0, <4>1
        <5>2. Byte % 256 = answer[n + 1]
          <6>1. Byte = fdc.result[1]
            BY <2>0, <2>1, <4>2 DEF Byte
          <6>2. Byte \in 0 .. 255
            BY <2>0, <4>2, <6>1 DEF Bytes8
          <6> DEFINE b == Byte
          <6>3. b % 256 = b
            <7>1. b \in 0 .. 255
              BY <6>2
            <7> HIDE DEF b
            <7> QED
              BY <7>1
          <6> QED
            BY <5>1, <6>1, <6>3
        <5>3. status \in [1 .. 7 -> Bytes8] /\ n + 1 \in 1 .. 7
          BY <2>0 DEF StepInv, ReqOK
        <5>4. ASSUME NEW m \in 1 .. n + 1 PROVE status'[m] = answer[m]
          <6>1. m \in 1 .. 7
            BY <2>0
          <6>2. CASE m = n + 1
            BY <2>0, <5>2, <5>3, <6>1, <6>2
          <6>3. CASE m # n + 1
            <7>1. m \in 1 .. n
              BY <2>0, <6>3
            <7> QED
              BY <2>0, <4>1, <5>3, <6>1, <6>3, <7>1
          <6> QED
            BY <6>2, <6>3
        <5> QED
          BY <5>4
      <4>5. \A m \in 1 .. 7 - (n + 1) : fdc'.result[m] = answer[n + 1 + m]
        <5> SUFFICES ASSUME NEW m \in 1 .. 7 - (n + 1) PROVE fdc'.result[m] = answer[n + 1 + m]
          OBVIOUS
        <5>1. m \in 1 .. Len(fdc.result) - 1
          BY <2>0, <4>1
        <5>2. fdc'.result[m] = fdc.result[m + 1]
          BY <2>0, <4>2, <5>1
        <5>3. m + 1 \in 1 .. 7 - n
          BY <2>0
        <5>4. fdc.result[m + 1] = answer[n + (m + 1)]
          BY <4>1, <5>3
        <5>5. n + (m + 1) = n + 1 + m
          BY <2>0
        <5> QED
          BY <5>2, <5>4, <5>5
      <4> HIDE DEF n
      <4> QED
        BY <1>1, <3>1, <3>2, <3>3, <3>4, <4>1, <4>3, <4>4, <4>5 DEF Verdict
    <3>5. CASE ~Judging
      <4>1. fdc.phase = "command"
        BY <1>3, <2>1, <3>5 DEF PromptInv, Verdict
      <4> QED
        BY <2>0, <3>1, <3>3, <3>5, <4>1 DEF Verdict
    <3> QED
      BY <3>4, <3>5
  <2>8. Outcome'
    BY <1>0, <1>1, <1>2, <1>3, <1>4, <1>5, <1>7, <2>0, <2>1 DEF Outcome, PromptInv, Placed, With
  <2> QED
    BY <2>2, <2>3, <2>4, <2>5, <2>6, <2>7, <2>8 DEF PromptInv
<1> QED
  BY <1>4, <1>6, <1>8 DEF With

LEMMA DrainOffX ==
  ASSUME StepInv, XInv, Drain, ~(Head(ops).arg < StatusSize /\ RQM)
  PROVE  Arranged(KindsOf(ops))' /\ OnDisk' /\ (Prompt => PromptInv')
<1>1. ops # <<>> /\ Head(ops).op = "drain" /\ ops' = <<>> \o Tail(ops) /\ Arranged(KindsOf(ops))
      /\ UNCHANGED <<status, track, req, fdc, head, answer, env>>
  BY DEF Drain, Doing, Continue, machine, XInv
<1>2. ops \in Seq(Operations) /\ Head(ops) \in Operations /\ Placed
  BY <1>1, Order
<1>3. First = "drain"
  BY <1>1, <1>2, KindIs DEF Placed
<1>4. Onward
  BY <1>1, <1>3, Popped DEF Replaces
<1>5. Second \in {"sense0", "clear"} /\ Second \in Rest /\ "dor" \notin Rest
      /\ \A x \in Rest : x \notin {"getSr0", "getTrack0", "getTrack", "waitSense", "drain"}
  BY <1>2, <1>3 DEF Placed, MayFollow, MayPrecede, Unfinished, Trying, Seeking, Waiting
<1>6. OnDisk'
  BY <1>1, <1>2, <1>3, <1>4 DEF XInv, OnDisk, Onward, Placed
<1>7. Cyl' = Cyl /\ ThisTransfer' = ThisTransfer
  BY <1>1, CylKept
<1>8. ASSUME Prompt PROVE PromptInv'
  <2>1. PromptInv /\ fdc.goal < 0 /\ fdc.goal = -1 /\ fdc.phase # "execution" /\ env.answers
    BY <1>8, Ready DEF XInv, Drain
  <2> DEFINE n == Head(ops).arg
  <2>0. /\ fdc.phase = "command"
        /\ Judging => Answered /\ status = answer
    <3>1. n \in Nat /\ ~(n < 7) /\ fdc.phase \in {"command", "result"}
      <4>1. RQM
        BY <2>1 DEF RQM
      <4>2. n \in Nat
        BY <1>2 DEF Operations
      <4> QED
        BY <1>8, <2>1, <4>1, <4>2, Ready DEF StatusSize, Drain
    <3>2. CASE Judging
      <4>1. /\ Answered /\ n <= 7 /\ Len(fdc.result) = 7 - n
            /\ \A m \in 1 .. n : status[m] = answer[m]
        BY <1>3, <2>1, <3>2 DEF PromptInv, Verdict
      <4> HIDE DEF n
      <4>2. n = 7
        BY <3>1, <4>1
      <4>3. fdc.phase # "result"
        <5>1. fdc.phase = "result" => Len(fdc.result) \in 1 .. 7
          <6> DEFINE r == fdc.result
          <6>1. fdc.phase = "result" => r # <<>> /\ r \in Seq(Bytes8) /\ Len(r) <= 7
            BY DEF StepInv, FdcOK, Controllers, Phases, Consistent
          <6> HIDE DEF r
          <6>2. fdc.phase = "result" => Len(r) \in Nat /\ Len(r) >= 1
            BY <6>1, Parted
          <6>3. fdc.phase = "result" => Len(r) \in 1 .. 7
            <7> SUFFICES ASSUME fdc.phase = "result" PROVE Len(r) \in 1 .. 7
              OBVIOUS
            <7> DEFINE l == Len(r)
            <7>1. l \in Nat /\ l >= 1 /\ l <= 7
              BY <6>1, <6>2
            <7> HIDE DEF l
            <7>2. l \in 1 .. 7
              BY <7>1
            <7> QED
              BY <7>2 DEF l
          <6> QED
            BY <6>3 DEF r
        <5> QED
          BY <4>1, <4>2, <5>1
      <4>4. status = answer
        <5>1. status \in [1 .. 7 -> Bytes8] /\ answer \in [1 .. 7 -> Bytes8]
          BY <4>1 DEF StepInv, ReqOK, Answered
        <5> QED
          BY <4>1, <4>2, <5>1
      <4> QED
        BY <3>1, <3>2, <4>1, <4>3, <4>4
    <3>3. CASE ~Judging
      BY <1>3, <2>1, <3>3 DEF PromptInv, Verdict
    <3> QED
      BY <3>2, <3>3
  <2>2. Gates'
    BY <1>1, <1>2, <1>3, <1>4, <1>5, <1>7, <2>0, <2>1 DEF Gates, PromptInv, Placed, Onward
  <2>3. Sensed'
    BY <1>1, <1>2, <1>3, <1>4, <1>5, <1>7, <2>0, <2>1 DEF Sensed, PromptInv, Placed, Onward
  <2>4. Tracked'
    BY <1>1, <1>2, <1>3, <1>4, <1>5, <1>7, <2>0, <2>1 DEF Tracked, PromptInv, Placed, Onward
  <2>5. Messages'
    <3>1. \A o \in ToSet(ops)' : o \in ToSet(ops) /\ Kind(o) # "drain"
      BY <1>4, <1>5 DEF Onward, Rest, KindsIn, Later, ToSet
    <3> QED
      BY <1>1, <1>2, <1>3, <1>4, <1>5, <1>7, <2>1, <3>1 DEF Messages, PromptInv, Placed, Onward
  <2>6. Aim'
    BY <1>1, <1>2, <1>3, <1>4, <1>5, <1>7, <2>0, <2>1 DEF Aim, PromptInv, Placed, Onward
  <2>7. Verdict'
    BY <1>1, <1>2, <1>3, <1>4, <1>5, <1>7, <2>0, <2>1 DEF Verdict, Answered, Judging, PromptInv,
       Placed, Onward
  <2>8. Outcome'
    BY <1>1, <1>2, <1>3, <1>4, <1>5, <1>7, <2>0, <2>1 DEF Outcome, PromptInv, Placed, Onward
  <2> QED
    BY <2>2, <2>3, <2>4, <2>5, <2>6, <2>7, <2>8 DEF PromptInv
<1> QED
  BY <1>4, <1>6, <1>8 DEF Onward

LEMMA DrainX ==
  ASSUME StepInv, XInv, Drain
  PROVE  Arranged(KindsOf(ops))' /\ OnDisk' /\ (Prompt => PromptInv')
BY DrainOnX, DrainOffX

LEMMA ResetPulseX ==
  ASSUME StepInv, XInv, ResetPulse
  PROVE  Arranged(KindsOf(ops))' /\ OnDisk' /\ (Prompt => PromptInv')
<1> DEFINE a == Op("waitint", 0)
<1>1. ops # <<>> /\ Head(ops).op = "dor" /\ ops' = <<a>> \o Tail(ops) /\ Arranged(KindsOf(ops))
      /\ UNCHANGED <<status, track, req, head, answer, env>>
  BY DEF ResetPulse, Doing, Continue, machine, XInv
<1>2. ops \in Seq(Operations) /\ Head(ops) \in Operations /\ Placed
  BY <1>1, Order
<1>3. First = "dor"
  BY <1>1, <1>2, KindIs DEF Placed
<1>0. a \in Operations /\ Kind(a) = "waitint"
  BY <1>1, <1>2 DEF Op, Operations, OpNames, Compound, Kind
<1> HIDE DEF a
<1>4. With(a)
  BY <1>0, <1>1, <1>3, Exchanged DEF Replaces
<1>5. Second = "sense0" /\ Second \in Rest /\ "dor" \notin Rest /\ "judge" \notin Rest
      /\ \A x \in Rest : x \notin {"getSr0", "getTrack0", "getTrack", "waitSense"}
  BY <1>2, <1>3 DEF Placed, MayFollow, MayPrecede, Unfinished, Trying, Seeking, Waiting
<1>6. OnDisk'
  BY <1>0, <1>1, <1>2, <1>3, <1>4 DEF XInv, OnDisk, With, Placed
<1>7. Cyl' = Cyl /\ ThisTransfer' = ThisTransfer
  BY <1>1, CylKept
<1>8. ASSUME Prompt PROVE PromptInv'
  <2>1. PromptInv /\ fdc.goal < 0 /\ fdc.goal = -1 /\ fdc.phase # "execution" /\ env.answers
    BY <1>8, Ready DEF XInv, ResetPulse
  <2>0. fdc'.goal = -1 /\ fdc'.phase = "command" /\ fdc'.pending # <<>> /\ fdc'.result = <<>>
    <3> DEFINE p == <<192, 193, 194, 195>>
    <3>1. fdc' = [Idle0 EXCEPT !.pending = p]
      BY DEF ResetPulse
    <3>2. p # <<>>
      OBVIOUS
    <3> HIDE DEF p
    <3>3. fdc' = [phase |-> "command", bytes |-> <<>>, result |-> <<>>, goal |-> -1, pending |-> p]
      BY <3>1 DEF Idle0
    <3> QED
      BY <3>2, <3>3
  <2>2. Gates'
    BY <1>0, <1>1, <1>2, <1>3, <1>4, <1>5, <1>7, <2>0, <2>1 DEF Gates, PromptInv, Placed, With
  <2>3. Sensed'
    BY <1>0, <1>1, <1>2, <1>3, <1>4, <1>5, <1>7, <2>0, <2>1 DEF Sensed, PromptInv, Placed, With
  <2>4. Tracked'
    BY <1>0, <1>1, <1>2, <1>3, <1>4, <1>5, <1>7, <2>0, <2>1 DEF Tracked, PromptInv, Placed, With
  <2>5. Messages'
    BY <1>0, <1>1, <1>2, <1>3, <1>4, <1>5, <1>7, <2>0, <2>1 DEF Messages, PromptInv, Placed, With
  <2>6. Aim'
    BY <1>0, <1>1, <1>2, <1>3, <1>4, <1>5, <1>7, <2>0, <2>1 DEF Aim, PromptInv, Placed, With
  <2>7. Verdict'
    BY <1>0, <1>1, <1>2, <1>3, <1>4, <1>5, <1>7, <2>0, <2>1 DEF Verdict, Answered, Judging,
       PromptInv, Placed, With
  <2>8. Outcome'
    BY <1>0, <1>1, <1>2, <1>3, <1>4, <1>5, <1>7, <2>0, <2>1 DEF Outcome, PromptInv, Placed, With
  <2> QED
    BY <2>2, <2>3, <2>4, <2>5, <2>6, <2>7, <2>8 DEF PromptInv
<1> QED
  BY <1>4, <1>6, <1>8 DEF With

-----------------------------------------------------------------------------
(* The kinds of short lists of operations.                                   *)

LEMMA KindsTwo ==
  ASSUME NEW a \in Operations, NEW b \in Operations, NEW w, w = <<a, b>>
  PROVE  /\ w \in Seq(Operations) /\ KindsOf(w) = <<Kind(a), Kind(b)>>
         /\ ToSet(w) = {a, b} /\ KindsIn(ToSet(w)) = {Kind(a), Kind(b)}
         /\ Len(w) = 2 /\ w # <<>> /\ w[1] = a /\ w[2] = b
<1>1. Len(w) = 2 /\ w \in Seq(Operations) /\ DOMAIN w = 1 .. 2
      /\ w[1] = a /\ w[2] = b
  OBVIOUS
<1>2. KindsOf(w) = <<Kind(a), Kind(b)>>
  BY DEF KindsOf
<1>3. ToSet(w) = {a, b}
  BY <1>1 DEF ToSet
<1>4. w # <<>>
  BY <1>1
<1> QED
  BY <1>1, <1>2, <1>3, <1>4 DEF KindsIn

LEMMA KindsThree ==
  ASSUME NEW a \in Operations, NEW b \in Operations, NEW c \in Operations, NEW w, w = <<a, b, c>>
  PROVE  /\ w \in Seq(Operations) /\ KindsOf(w) = <<Kind(a), Kind(b), Kind(c)>>
         /\ ToSet(w) = {a, b, c} /\ KindsIn(ToSet(w)) = {Kind(a), Kind(b), Kind(c)}
         /\ Len(w) = 3 /\ w # <<>> /\ w[1] = a /\ w[2] = b
<1>1. Len(w) = 3 /\ w \in Seq(Operations) /\ DOMAIN w = 1 .. 3
      /\ w[1] = a /\ w[2] = b /\ w[3] = c
  OBVIOUS
<1>2. KindsOf(w) = <<Kind(a), Kind(b), Kind(c)>>
  BY DEF KindsOf
<1>3. ToSet(w) = {a, b, c}
  BY <1>1 DEF ToSet
<1>4. w # <<>>
  BY <1>1
<1> QED
  BY <1>1, <1>2, <1>3, <1>4 DEF KindsIn

LEMMA KindsFour ==
  ASSUME NEW a \in Operations, NEW b \in Operations, NEW c \in Operations, NEW d \in Operations, NEW w, w = <<a, b, c, d>>
  PROVE  /\ w \in Seq(Operations) /\ KindsOf(w) = <<Kind(a), Kind(b), Kind(c), Kind(d)>>
         /\ ToSet(w) = {a, b, c, d} /\ KindsIn(ToSet(w)) = {Kind(a), Kind(b), Kind(c), Kind(d)}
         /\ Len(w) = 4 /\ w # <<>> /\ w[1] = a /\ w[2] = b
<1>1. Len(w) = 4 /\ w \in Seq(Operations) /\ DOMAIN w = 1 .. 4
      /\ w[1] = a /\ w[2] = b /\ w[3] = c /\ w[4] = d
  OBVIOUS
<1>2. KindsOf(w) = <<Kind(a), Kind(b), Kind(c), Kind(d)>>
  BY DEF KindsOf
<1>3. ToSet(w) = {a, b, c, d}
  BY <1>1 DEF ToSet
<1>4. w # <<>>
  BY <1>1
<1> QED
  BY <1>1, <1>2, <1>3, <1>4 DEF KindsIn

LEMMA KindsFive ==
  ASSUME NEW a \in Operations, NEW b \in Operations, NEW c \in Operations, NEW d \in Operations,
         NEW e \in Operations, NEW w, w = <<a, b, c, d, e>>
  PROVE  /\ w \in Seq(Operations) /\ KindsOf(w) = <<Kind(a), Kind(b), Kind(c), Kind(d), Kind(e)>>
         /\ ToSet(w) = {a, b, c, d, e} /\ KindsIn(ToSet(w)) = {Kind(a), Kind(b), Kind(c), Kind(d), Kind(e)}
         /\ Len(w) = 5 /\ w # <<>> /\ w[1] = a /\ w[2] = b
<1>1. Len(w) = 5 /\ w \in Seq(Operations) /\ DOMAIN w = 1 .. 5
      /\ w[1] = a /\ w[2] = b /\ w[3] = c /\ w[4] = d /\ w[5] = e
  OBVIOUS
<1>2. KindsOf(w) = <<Kind(a), Kind(b), Kind(c), Kind(d), Kind(e)>>
  BY DEF KindsOf
<1>3. ToSet(w) = {a, b, c, d, e}
  BY <1>1 DEF ToSet
<1>4. w # <<>>
  BY <1>1
<1> QED
  BY <1>1, <1>2, <1>3, <1>4 DEF KindsIn

-----------------------------------------------------------------------------
(* Judging a try, and what is left to do after each verdict.                 *)

(* What follows a try that failed, or nothing.                               *)
Again == {"calibrate", "reset", "select", "try"}

LEMMA Concat ==
  ASSUME NEW S, NEW s \in Seq(S), NEW t \in Seq(S), NEW z \in Seq(S), Len(z) = Len(s) + Len(t),
         \A i \in 1 .. Len(s) : z[i] = s[i], \A i \in 1 .. Len(t) : z[Len(s) + i] = t[i]
  PROVE  s \o t = z
<1> DEFINE y == s \o t
<1>1. /\ y \in Seq(S) /\ Len(y) = Len(s) + Len(t) /\ Len(s) \in Nat /\ Len(t) \in Nat
      /\ \A i \in 1 .. Len(s) + Len(t) : y[i] = IF i <= Len(s) THEN s[i] ELSE t[i - Len(s)]
  OBVIOUS
<1> HIDE DEF y
<1>2. ASSUME NEW i \in 1 .. Len(z) PROVE y[i] = z[i]
  <2>1. CASE i <= Len(s)
    BY <1>1, <2>1
  <2>2. CASE i > Len(s)
    <3>1. i - Len(s) \in 1 .. Len(t) /\ Len(s) + (i - Len(s)) = i
      BY <1>1, <2>2
    <3>2. z[Len(s) + (i - Len(s))] = t[i - Len(s)]
      BY <3>1
    <3> QED
      BY <1>1, <2>2, <3>1, <3>2
  <2> QED
    BY <1>1, <2>1, <2>2
<1>3. y = z
  BY <1>1, <1>2
<1> QED
  BY <1>3 DEF y

LEMMA Glued ==
  ASSUME NEW a, NEW b, NEW c, NEW d
  PROVE  <<a>> \o <<b, c>> \o <<d>> = <<a, b, c, d>> /\ <<a>> \o <<>> \o <<d>> = <<a, d>>
<1> DEFINE S == {a, b, c, d}
           sa == <<a>>
           sbc == <<b, c>>
           sd == <<d>>
           sabc == <<a, b, c>>
           sabcd == <<a, b, c, d>>
           sad == <<a, d>>
<1>1. /\ sa \in Seq(S) /\ sbc \in Seq(S) /\ sd \in Seq(S) /\ sabc \in Seq(S) /\ sabcd \in Seq(S) /\ sad \in Seq(S)
      /\ Len(sa) = 1 /\ Len(sbc) = 2 /\ Len(sd) = 1 /\ Len(sabc) = 3 /\ Len(sabcd) = 4 /\ Len(sad) = 2
      /\ sa[1] = a /\ sbc[1] = b /\ sbc[2] = c /\ sd[1] = d
      /\ sabc[1] = a /\ sabc[2] = b /\ sabc[3] = c
      /\ sabcd[1] = a /\ sabcd[2] = b /\ sabcd[3] = c /\ sabcd[4] = d /\ sad[1] = a /\ sad[2] = d
  OBVIOUS
<1>2. sa \o <<>> = sa
  OBVIOUS
<1> HIDE DEF S, sa, sbc, sd, sabc, sabcd, sad
<1>3. sa \o sbc = sabc
  <2>1. Len(sabc) = Len(sa) + Len(sbc)
    BY <1>1
  <2>2. \A i \in 1 .. Len(sa) : sabc[i] = sa[i]
    BY <1>1
  <2>3. \A i \in 1 .. Len(sbc) : sabc[Len(sa) + i] = sbc[i]
    BY <1>1
  <2> QED
    BY <1>1, <2>1, <2>2, <2>3, Concat, Zenon
<1>4. sabc \o sd = sabcd
  <2>1. Len(sabcd) = Len(sabc) + Len(sd)
    BY <1>1
  <2>2. \A i \in 1 .. Len(sabc) : sabcd[i] = sabc[i]
    BY <1>1
  <2>3. \A i \in 1 .. Len(sd) : sabcd[Len(sabc) + i] = sd[i]
    BY <1>1
  <2> QED
    BY <1>1, <2>1, <2>2, <2>3, Concat, Zenon
<1>5. sa \o sd = sad
  <2>1. Len(sad) = Len(sa) + Len(sd)
    BY <1>1
  <2>2. \A i \in 1 .. Len(sa) : sad[i] = sa[i]
    BY <1>1
  <2>3. \A i \in 1 .. Len(sd) : sad[Len(sa) + i] = sd[i]
    BY <1>1
  <2> QED
    BY <1>1, <2>1, <2>2, <2>3, Concat, Zenon
<1>6. (sa \o sbc) \o sd = sabcd /\ (sa \o <<>>) \o sd = sad
  BY <1>2, <1>3, <1>4, <1>5
<1> QED
  BY <1>6 DEF sa, sbc, sd, sabcd, sad

LEMMA Judged ==
  ASSUME StepInv, Arranged(KindsOf(ops)), Judge
  PROVE  /\ Arranged(KindsOf(ops))'
         /\ \A o \in ToSet(ops)' : o \in Later \/ Kind(o) \in Again
         /\ First' \in {Second, "calibrate"}
         /\ \E K \in SUBSET Again : All' = K \cup Rest
                                   /\ ("try" \in K
                                       \/ req' = [req EXCEPT !.res = IF status[1] \div 64 = 0 THEN 0
                                                   ELSE IF req.write /\ NotWritable(status[2]) THEN -3 ELSE 0])
<1> DEFINE i == Head(ops).arg
           good == Tmout = 0 /\ status[1] \div 64 = 0
           cal == Op("calibrate", 0)
           again == IF i = 1 THEN <<Op("reset", 0), Op("select", 0)>> ELSE <<>>
           retry == IF i < 3 THEN <<Op("try", i + 1)>> ELSE <<>>
           rest == again \o retry
           try == Op("try", i + 1)
           with == IF good THEN <<>> ELSE <<cal>> \o again \o retry
<1>1. ops # <<>> /\ Head(ops).op = "judge" /\ ops' = with \o Tail(ops)
  BY DEF Judge, Doing, Continue
<1>2. ops \in Seq(Operations) /\ Head(ops) \in Operations /\ Placed
  BY <1>1, Order
<1>3. First = "judge" /\ Kind(Head(ops)) = "judge"
  BY <1>1, <1>2, KindIs DEF Placed
<1>4. cal \in Operations /\ Op("reset", 0) \in Operations /\ Op("select", 0) \in Operations /\ try \in Operations
  <2>1. i \in Nat /\ i + 1 \in Nat
    BY <1>2 DEF Operations
  <2> HIDE DEF i
  <2> QED
    BY <2>1 DEF Op, Operations, OpNames, Compound
<1>5. Kind(cal) = "calibrate" /\ Kind(Op("reset", 0)) = "reset" /\ Kind(Op("select", 0)) = "select" /\ Kind(try) = "try"
  BY DEF Kind, Op
<1>6. req' = [req EXCEPT !.res = IF status[1] \div 64 = 0 THEN 0
                                 ELSE IF req.write /\ NotWritable(status[2]) THEN -3 ELSE 0]
  BY DEF Judge, Tmout
<1>7. PICK w : w = with
  OBVIOUS
<1>8. w = with /\ ops' = w \o Tail(ops)
  BY <1>1, <1>7
<1>9. CASE w = <<>>
  <2>1. KindsOf(w) = <<>> /\ w \in Seq(Operations) /\ ToSet(w) = {} /\ KindsIn(ToSet(w)) = {}
    BY <1>9, KindsEmpty DEF ToSet
  <2>2. Replaces(KindsOf(w), Kind(Head(ops)))
    BY <1>3, <2>1 DEF Replaces
  <2> HIDE DEF with
  <2>3. /\ Arranged(KindsOf(ops))' /\ ToSet(ops)' = ToSet(w) \cup Later /\ All' = KindsIn(ToSet(w)) \cup Rest
        /\ First' = Second
    BY <1>1, <1>2, <1>8, <1>9, <2>1, <2>2, Replaced DEF XInv
  <2>4. {} \in SUBSET Again /\ All' = {} \cup Rest
    BY <2>1, <2>3
  <2> QED
    BY <1>6, <2>1, <2>3, <2>4
<1>10. CASE w # <<>>
  <2>1. ~good
    BY <1>7, <1>10
  <2> HIDE DEF cal, try, i, good
  <2>2. CASE i = 1
    <3>1. w = <<cal, Op("reset", 0), Op("select", 0), try>>
      <4>1. i < 3
        BY <2>2
      <4>2. w = <<cal>> \o again \o retry
        BY <1>7, <2>1
      <4>3. again = <<Op("reset", 0), Op("select", 0)>> /\ retry = <<try>>
        BY <2>2, <4>1 DEF try
      <4> HIDE DEF again, retry, with
      <4> QED
        BY <4>2, <4>3, Glued
    <3>2. /\ w \in Seq(Operations) /\ KindsOf(w) = <<"calibrate", "reset", "select", "try">>
          /\ KindsIn(ToSet(w)) = {"calibrate", "reset", "select", "try"} /\ w[1] = cal
      BY <1>4, <1>5, <3>1, KindsFour
    <3>3. Replaces(KindsOf(w), Kind(Head(ops)))
      BY <1>3, <3>2 DEF Replaces
    <3> HIDE DEF with
    <3>4. /\ Arranged(KindsOf(ops))' /\ ToSet(ops)' = ToSet(w) \cup Later /\ All' = KindsIn(ToSet(w)) \cup Rest
          /\ First' = "calibrate"
      BY <1>1, <1>2, <1>5, <1>8, <1>10, <3>2, <3>3, Replaced DEF XInv
    <3>5. \A o \in ToSet(w) : Kind(o) \in Again
      BY <3>2 DEF KindsIn, Again
    <3>6. Again \in SUBSET Again /\ All' = Again \cup Rest /\ "try" \in Again
      BY <3>2, <3>4 DEF Again
    <3> QED
      BY <3>4, <3>5, <3>6
  <2>3. CASE i # 1 /\ i < 3
    <3>1. w = <<cal, try>>
      <4>2. w = <<cal>> \o again \o retry
        BY <1>7, <2>1
      <4>3. again = <<>> /\ retry = <<try>>
        BY <2>3 DEF try
      <4> HIDE DEF again, retry, with
      <4> QED
        BY <4>2, <4>3, Glued
    <3>2. /\ w \in Seq(Operations) /\ KindsOf(w) = <<"calibrate", "try">>
          /\ KindsIn(ToSet(w)) = {"calibrate", "try"} /\ w[1] = cal
      BY <1>4, <1>5, <3>1, KindsTwo
    <3>3. Replaces(KindsOf(w), Kind(Head(ops)))
      BY <1>3, <3>2 DEF Replaces
    <3> HIDE DEF with
    <3>4. /\ Arranged(KindsOf(ops))' /\ ToSet(ops)' = ToSet(w) \cup Later /\ All' = KindsIn(ToSet(w)) \cup Rest
          /\ First' = "calibrate"
      BY <1>1, <1>2, <1>5, <1>8, <1>10, <3>2, <3>3, Replaced DEF XInv
    <3>5. \A o \in ToSet(w) : Kind(o) \in Again
      BY <3>2 DEF KindsIn, Again
    <3>6. {"calibrate", "try"} \in SUBSET Again /\ All' = {"calibrate", "try"} \cup Rest /\ "try" \in {"calibrate", "try"}
      BY <3>2, <3>4 DEF Again
    <3> QED
      BY <3>4, <3>5, <3>6
  <2>4. CASE ~(i < 3)
    <3>1. w = <<cal>>
      <4>1. i # 1
        BY <2>4
      <4> QED
        BY <1>7, <2>1, <2>4, <4>1
    <3>2. /\ w \in Seq(Operations) /\ KindsOf(w) = <<"calibrate">> /\ KindsIn(ToSet(w)) = {"calibrate"} /\ w[1] = cal
      BY <1>4, <1>5, <3>1, KindsOne
    <3>3. Replaces(KindsOf(w), Kind(Head(ops)))
      BY <1>3, <3>2 DEF Replaces
    <3> HIDE DEF with
    <3>4. /\ Arranged(KindsOf(ops))' /\ ToSet(ops)' = ToSet(w) \cup Later /\ All' = KindsIn(ToSet(w)) \cup Rest
          /\ First' = "calibrate"
      BY <1>1, <1>2, <1>5, <1>8, <1>10, <3>2, <3>3, Replaced DEF XInv
    <3>5. \A o \in ToSet(w) : Kind(o) \in Again
      BY <3>2 DEF KindsIn, Again
    <3>6. {"calibrate"} \in SUBSET Again /\ All' = {"calibrate"} \cup Rest
      BY <3>2, <3>4 DEF Again
    <3> QED
      BY <1>6, <3>4, <3>5, <3>6
  <2> QED
    BY <2>2, <2>3, <2>4
<1> QED
  BY <1>9, <1>10

LEMMA LaterIn ==
  ASSUME ops \in Seq(Operations), ops # <<>>
  PROVE  Later \subseteq ToSet(ops)
<1>1. /\ Len(ops) \in Nat /\ Tail(ops) \in Seq(Operations) /\ Len(Tail(ops)) = Len(ops) - 1
      /\ \A i \in 1 .. Len(ops) - 1 : Tail(ops)[i] = ops[i + 1]
  BY Parted
<1>2. DOMAIN ops = 1 .. Len(ops) /\ DOMAIN Tail(ops) = 1 .. Len(ops) - 1
  BY <1>1
<1>3. ASSUME NEW o \in Later PROVE o \in ToSet(ops)
  <2>1. PICK i \in 1 .. Len(ops) - 1 : o = Tail(ops)[i]
    BY <1>2 DEF Later, ToSet
  <2>2. i + 1 \in 1 .. Len(ops) /\ o = ops[i + 1]
    BY <1>1, <2>1
  <2> QED
    BY <1>2, <2>2 DEF ToSet
<1> QED
  BY <1>3

LEMMA JudgeX ==
  ASSUME StepInv, XInv, Judge
  PROVE  Arranged(KindsOf(ops))' /\ OnDisk' /\ (Prompt => PromptInv')
<1>1. ops # <<>> /\ Head(ops).op = "judge" /\ Arranged(KindsOf(ops)) /\ UNCHANGED <<status, fdc, head, answer, env>>
  BY DEF Judge, Doing, machine, XInv
<1>2. ops \in Seq(Operations) /\ Head(ops) \in Operations /\ Placed
  BY <1>1, Order
<1>3. First = "judge"
  BY <1>1, <1>2, KindIs DEF Placed
<1>4. /\ Arranged(KindsOf(ops))'
      /\ \A o \in ToSet(ops)' : o \in Later \/ Kind(o) \in Again
      /\ First' \in {Second, "calibrate"}
  BY <1>1, Judged
<1>5. PICK K \in SUBSET Again : All' = K \cup Rest
                                   /\ ("try" \in K
                                       \/ req' = [req EXCEPT !.res = IF status[1] \div 64 = 0 THEN 0
                                                   ELSE IF req.write /\ NotWritable(status[2]) THEN -3 ELSE 0])
  BY <1>1, Judged
<1>6. /\ \A x \in Rest : x \notin {"getSr0", "getTrack0", "getTrack", "waitSense", "waitint", "drain", "sense0",
                                   "judge", "start", "transferring"}
      /\ Second # "wait"
  BY <1>2, <1>3 DEF Placed, MayFollow, MayPrecede, Unfinished, Trying, Seeking, Waiting
<1>7. /\ \A x \in All' : x \in Rest \/ x \in Again
      /\ First' \notin {"getSr0", "getTrack0", "getTrack", "waitSense", "waitint", "drain", "sense0",
                        "judge", "start", "transferring", "wait", "sending"}
      /\ First' = "none" \/ First' \in Rest \/ First' = "calibrate"
  BY <1>2, <1>4, <1>5, <1>6 DEF Placed
<1>8. \A o \in ToSet(ops)' : Kind(o) \in Rest \/ Kind(o) \in Again
  BY <1>4 DEF Rest, KindsIn, Later, ToSet
<1>9. /\ req \in Requests /\ req'.write = req.write /\ req'.lba = req.lba /\ req'.num = req.num
      /\ track' = status[4] /\ status \in [1 .. 7 -> Bytes8]
  <2>1. req \in Requests /\ status \in [1 .. 7 -> Bytes8]
    BY DEF StepInv, ReqOK
  <2>2. \E r : req' = [req EXCEPT !.res = r]
    BY DEF Judge
  <2> QED
    BY <2>1, <2>2 DEF Requests, Judge
<1>10. \A o \in ToSet(ops)' : Kind(o) = "next" => o \in ToSet(ops)
  <2>1. Later \subseteq ToSet(ops)
    BY <1>1, <1>2, LaterIn
  <2> QED
    BY <1>4, <2>1 DEF Again
<1>11. OnDisk'
  <2>1. \A o \in ToSet(ops)' : Kind(o) = "next" => req'.lba + o.arg < Limit
    BY <1>9, <1>10 DEF XInv, OnDisk
  <2>2. req.lba < Limit
    BY <1>2, <1>3 DEF XInv, OnDisk, Placed
  <2> QED
    BY <1>9, <2>1, <2>2 DEF OnDisk
<1>12. ASSUME Prompt PROVE PromptInv'
  <2>1. PromptInv /\ fdc.goal < 0 /\ fdc.goal = -1 /\ fdc.phase = "command" /\ env.answers
    BY <1>3, <1>12, Ready DEF XInv, Judge, PromptInv, Gates
  <2>2. /\ answer \in [1 .. 7 -> Bytes8]
        /\ answer[1] \in {0, 64} /\ answer[2] \in {0, 2, 4} /\ answer[4] = Cyl
        /\ answer[2] = 2 <=> req.write /\ env.protected
        /\ req.write /\ env.protected => answer[1] = 64
        /\ status = answer
    <3>1. Judging
      BY <1>2, <1>3, <1>6 DEF Judging, Placed
    <3> QED
      BY <1>3, <2>1, <3>1 DEF PromptInv, Verdict, Answered
  <2>3. head = Cyl
    BY <1>2, <1>3, <2>1 DEF PromptInv, Aim, Placed
  <2>4. Gates'
    BY <1>1, <1>7, <2>1 DEF Gates
  <2>5. Sensed'
    BY <1>1, <1>6, <1>7 DEF Sensed, Again
  <2>6. Tracked'
    BY <1>1, <1>9, <2>2, <2>3 DEF Tracked
  <2>7. Messages'
    BY <1>6, <1>7, <1>8 DEF Messages, Again
  <2>8. Aim'
    BY <1>6, <1>7 DEF Aim, Again
  <2>9. Verdict'
    BY <1>6, <1>7 DEF Verdict, Judging, Again
  <2>10. Outcome'
    <3>1. req.num > 0
      BY <1>2, <1>3, <2>1 DEF PromptInv, Outcome, Placed
    <3>2. CASE "try" \in K
      BY <1>5, <1>9, <3>1, <3>2 DEF Outcome
    <3>3. CASE req' = [req EXCEPT !.res = IF status[1] \div 64 = 0 THEN 0
                                 ELSE IF req.write /\ NotWritable(status[2]) THEN -3 ELSE 0]
      <4>1. req'.res = IF status[1] \div 64 = 0 THEN 0
                       ELSE IF req.write /\ NotWritable(status[2]) THEN -3 ELSE 0
        BY <1>9, <3>3 DEF Requests
      <4>2. NotWritable(2) /\ ~NotWritable(0) /\ ~NotWritable(4)
        BY DEF NotWritable
      <4>3. 0 \div 64 = 0 /\ 64 \div 64 # 0
        OBVIOUS
      <4>4. req'.res = -3 <=> req.write /\ env.protected
        BY <2>2, <4>1, <4>2, <4>3
      <4> QED
        BY <1>1, <1>9, <3>1, <4>4 DEF Outcome
    <3> QED
      BY <1>5, <3>2, <3>3
  <2> QED
    BY <2>4, <2>5, <2>6, <2>7, <2>8, <2>9, <2>10 DEF PromptInv
<1> QED
  BY <1>4, <1>11, <1>12

-----------------------------------------------------------------------------
(* Beginning a call and going on to the next sector.                         *)

(* Between two calls nothing is in progress.                                 *)
Busy ==
  {"getSr0", "getTrack0", "getTrack", "waitSense", "waitint", "drain", "sense0", "judge", "start", "transferring",
   "sending"}

LEMMA Neutral ==
  ASSUME fdc.goal = -1, fdc.phase = "command", track' = head, UNCHANGED <<fdc, head>>,
         First' \in All' \cup {"none"}, First' # "wait", \A x \in All' : x \notin Busy,
         \A o \in ToSet(ops)' : Kind(o) \in All'
  PROVE  Gates' /\ Sensed' /\ Tracked' /\ Messages' /\ Aim' /\ Verdict'
<1>1. First' \notin Busy /\ fdc'.goal < 0 /\ fdc'.phase = "command"
  <2>1. "none" \notin Busy
    BY DEF Busy
  <2> DEFINE g == fdc.goal
  <2>2. fdc'.goal = g /\ g = -1
    OBVIOUS
  <2> HIDE DEF g
  <2>3. g < 0
    BY <2>2
  <2> QED
    BY <2>1, <2>2, <2>3
<1>2. Gates' /\ Sensed'
  BY <1>1 DEF Gates, Sensed, Busy
<1>3. Tracked'
  BY DEF Tracked
<1>4. Messages' /\ Aim'
  BY <1>1 DEF Messages, Aim, Busy
<1>5. Verdict'
  BY <1>1 DEF Verdict, Judging, Busy
<1> QED
  BY <1>2, <1>3, <1>4, <1>5

LEMMA SectorsAre ==
  ASSUME NEW n \in Nat, NEW w, w = Sectors(n)
  PROVE  /\ w \in Seq(Operations) /\ KindsOf(w) \in {<<>>, <<"try", "next">>}
         /\ n = 0 => w = <<>> /\ ToSet(w) = {}
         /\ n # 0 => w # <<>> /\ w[1] = Op("try", 0) /\ KindsIn(ToSet(w)) = {"try", "next"}
         /\ \A o \in ToSet(w) : n # 0 /\ Kind(o) \in {"try", "next"} /\ (Kind(o) = "next" => o.arg = n - 1)
         /\ KindsIn(ToSet(w)) \subseteq {"try", "next"}
<1>1. CASE n = 0
  BY <1>1, KindsEmpty DEF Sectors, ToSet
<1>2. CASE n # 0
  <2> DEFINE a == Op("try", 0)
             b == Op("next", n - 1)
  <2>1. w = <<a, b>>
    BY <1>2 DEF Sectors
  <2>2. a \in Operations /\ b \in Operations /\ Kind(a) = "try" /\ Kind(b) = "next" /\ b.arg = n - 1
    BY <1>2 DEF Op, Operations, OpNames, Compound, Kind
  <2> HIDE DEF b
  <2>3. /\ w \in Seq(Operations) /\ KindsOf(w) = <<"try", "next">> /\ ToSet(w) = {a, b}
        /\ KindsIn(ToSet(w)) = {"try", "next"} /\ w # <<>> /\ w[1] = a
    BY <2>1, <2>2, KindsTwo
  <2> QED
    BY <1>2, <2>2, <2>3
<1> QED
  BY <1>1, <1>2

LEMMA FirstIn == ASSUME ops' \in Seq(Operations), ops' # <<>> PROVE First' \in All'
<1>1. 1 \in DOMAIN ops'
  OBVIOUS
<1>2. ops'[1] \in ToSet(ops)'
  BY <1>1 DEF ToSet
<1> QED
  BY <1>2 DEF First, All, KindsIn

(* A call, or a round of it, in the place of the first operation.            *)
LEMMA Begin ==
  ASSUME StepInv, Arranged(KindsOf(ops)), ops # <<>>, First \in {"read", "write", "next"}, NEW n \in Nat,
         Continue(Sectors(n))
  PROVE  /\ Arranged(KindsOf(ops))'
         /\ \A o \in ToSet(ops)' : \/ o \in ToSet(ops) /\ Kind(o) \in Rest
                                   \/ n # 0 /\ Kind(o) \in {"try", "next"} /\ (Kind(o) = "next" => o.arg = n - 1)
         /\ First' = "none" \/ First' \in Rest \/ First' = "try"
         /\ n = 0 => All' = Rest
         /\ n # 0 => All' = Rest \cup {"try", "next"}
         /\ First' # "wait" /\ \A x \in Rest : x \notin Busy \cup {"try", "next"}
<1>1. ops \in Seq(Operations) /\ Head(ops) \in Operations /\ Placed /\ Kind(Head(ops)) = First
  BY Order DEF Placed
<1>2. PICK w : w = Sectors(n)
  OBVIOUS
<1>3. /\ w \in Seq(Operations) /\ KindsOf(w) \in {<<>>, <<"try", "next">>}
      /\ n = 0 => w = <<>> /\ ToSet(w) = {}
      /\ n # 0 => w # <<>> /\ w[1] = Op("try", 0) /\ KindsIn(ToSet(w)) = {"try", "next"}
      /\ \A o \in ToSet(w) : n # 0 /\ Kind(o) \in {"try", "next"} /\ (Kind(o) = "next" => o.arg = n - 1)
  BY <1>2, SectorsAre
<1>4. ops' = w \o Tail(ops)
  BY <1>2 DEF Continue
<1>5. Replaces(KindsOf(w), Kind(Head(ops)))
  BY <1>1, <1>3 DEF Replaces
<1>6. /\ Arranged(KindsOf(ops))'
      /\ ToSet(ops)' = ToSet(w) \cup Later /\ Later \subseteq ToSet(ops)
      /\ All' = KindsIn(ToSet(w)) \cup Rest
      /\ w = <<>> => First' = Second
      /\ w # <<>> => First' = Kind(w[1])
  BY <1>1, <1>3, <1>4, <1>5, Replaced
<1>7. \A o \in Later : Kind(o) \in Rest
  BY DEF Rest, KindsIn, Later, ToSet
<1>8. /\ \A x \in Rest : x \notin Busy \cup {"try", "next"}
      /\ Second # "wait" /\ (Second = "none" \/ Second \in Rest)
  BY <1>1 DEF Placed, Busy, MayFollow, MayPrecede, Unfinished, Trying, Seeking, Waiting
<1>9. Kind(Op("try", 0)) = "try"
  BY DEF Kind, Op
<1> QED
  BY <1>3, <1>6, <1>7, <1>8, <1>9, KindsEmpty

LEMMA InitCallsX ==
  ASSUME StepInv, XInv, InitCalls
  PROVE  Arranged(KindsOf(ops))' /\ OnDisk' /\ (Prompt => PromptInv')
<1>1. ops # <<>> /\ Head(ops).op \in {"read", "write"} /\ Arranged(KindsOf(ops)) /\ Continue(Sectors(1))
      /\ UNCHANGED <<status, track, fdc, head, answer, env>>
  BY DEF InitCalls, Doing, machine, XInv
<1>2. ops \in Seq(Operations) /\ Head(ops) \in Operations /\ Placed
  BY <1>1, Order
<1>3. First \in {"read", "write"}
  BY <1>1, <1>2, KindIs DEF Placed
<1>4. /\ Arranged(KindsOf(ops))'
      /\ \A o \in ToSet(ops)' : \/ o \in ToSet(ops) /\ Kind(o) \in Rest
                                \/ Kind(o) \in {"try", "next"} /\ (Kind(o) = "next" => o.arg = 0)
      /\ First' = "none" \/ First' \in Rest \/ First' = "try"
      /\ All' = Rest \cup {"try", "next"}
      /\ First' # "wait" /\ \A x \in Rest : x \notin Busy \cup {"try", "next"}
  BY <1>1, <1>3, Begin
<1>5. req'.lba \in {0, 1} /\ req'.num = 1
  BY DEF InitCalls, Transfer
<1>6. OnDisk'
  BY <1>4, <1>5 DEF OnDisk, Limit
<1>7. ASSUME Prompt PROVE PromptInv'
  <2>1. PromptInv /\ fdc.goal < 0 /\ fdc.goal = -1 /\ fdc.phase = "command" /\ env.answers
    BY <1>3, <1>7, Ready DEF XInv, InitCalls, PromptInv, Gates
  <2>2. track' = head
    BY <1>1, <1>2, <1>3, <1>4, <2>1 DEF PromptInv, Tracked, Placed, Busy
  <2>3. First' \in All' \cup {"none"} /\ \A x \in All' : x \notin Busy
    <3>1. "try" \notin Busy /\ "next" \notin Busy
      BY DEF Busy
    <3> QED
      BY <1>4, <3>1
  <2>4. \A o \in ToSet(ops)' : Kind(o) \in All'
    BY <1>4
  <2>5. Gates' /\ Sensed' /\ Tracked' /\ Messages' /\ Aim' /\ Verdict'
    BY <1>1, <1>4, <2>1, <2>2, <2>3, <2>4, Neutral
  <2>6. Outcome'
    BY <1>4, <1>5 DEF Outcome
  <2> QED
    BY <2>5, <2>6 DEF PromptInv
<1> QED
  BY <1>4, <1>6, <1>7

LEMMA NextSectorX ==
  ASSUME StepInv, XInv, NextSector
  PROVE  Arranged(KindsOf(ops))' /\ OnDisk' /\ (Prompt => PromptInv')
<1> DEFINE n == Head(ops).arg
<1>1. ops # <<>> /\ Head(ops).op = "next" /\ Arranged(KindsOf(ops)) /\ Continue(Sectors(n))
      /\ UNCHANGED <<status, track, fdc, head, answer, env>>
  BY DEF NextSector, Doing, machine, XInv
<1>2. ops \in Seq(Operations) /\ Head(ops) \in Operations /\ Placed
  BY <1>1, Order
<1>3. First = "next" /\ n \in Nat /\ Kind(Head(ops)) = "next" /\ Head(ops) \in ToSet(ops)
  <2>1. Head(ops) \in ToSet(ops)
    <3>1. 1 \in DOMAIN ops /\ Head(ops) = ops[1]
      BY <1>1, <1>2
    <3> QED
      BY <3>1 DEF ToSet
  <2> QED
    BY <1>1, <1>2, <2>1, KindIs DEF Placed, Operations
<1>4. /\ Arranged(KindsOf(ops))'
      /\ \A o \in ToSet(ops)' : \/ o \in ToSet(ops) /\ Kind(o) \in Rest
                                \/ n # 0 /\ Kind(o) \in {"try", "next"} /\ (Kind(o) = "next" => o.arg = n - 1)
      /\ First' = "none" \/ First' \in Rest \/ First' = "try"
      /\ n = 0 => All' = Rest
      /\ n # 0 => All' = Rest \cup {"try", "next"}
      /\ First' # "wait" /\ \A x \in Rest : x \notin Busy \cup {"try", "next"}
  <2> HIDE DEF n
  <2> QED
    BY <1>1, <1>3, Begin
<1>5. /\ req \in Requests /\ req'.write = req.write /\ req'.lba = req.lba + 1 /\ req'.num = req.num
      /\ req'.res = req.res
  <2>1. req \in Requests
    BY DEF StepInv, ReqOK
  <2> QED
    BY <2>1 DEF NextSector, Requests
<1>6. req.lba + n < Limit /\ req.lba \in Nat /\ Limit \in Nat
  BY <1>3, <1>5 DEF XInv, OnDisk, Requests, Limit
<1>7. OnDisk'
  <2>1. ASSUME NEW o \in ToSet(ops)', Kind(o) = "next" PROVE req'.lba + o.arg < Limit
    <3>1. n # 0 /\ o.arg = n - 1
      BY <1>4, <2>1
    <3> HIDE DEF n
    <3> QED
      BY <1>3, <1>5, <1>6, <3>1
  <2>2. ASSUME All' \cap {"try", "judge"} # {} PROVE req'.lba < Limit
    <3>1. n # 0
      BY <1>4, <2>2 DEF Busy
    <3> HIDE DEF n
    <3> QED
      BY <1>3, <1>5, <1>6, <3>1
  <2> QED
    BY <2>1, <2>2 DEF OnDisk
<1>9. ops' \in Seq(Operations)
  BY NextSectorStep DEF StepInv
<1>8. ASSUME Prompt PROVE PromptInv'
  <2>1. PromptInv /\ fdc.goal < 0 /\ fdc.goal = -1 /\ fdc.phase = "command" /\ env.answers
    BY <1>3, <1>8, Ready DEF XInv, NextSector, PromptInv, Gates
  <2>2. track' = head
    BY <1>1, <1>2, <1>3, <1>4, <2>1 DEF PromptInv, Tracked, Placed, Busy
  <2>3. First' \in All' \cup {"none"} /\ \A x \in All' : x \notin Busy
    <3>1. First' = "try" => n # 0
      <4>1. First' = "try" => "try" \in All' \/ ops' = <<>>
        BY <1>9, FirstIn
      <4>2. ops' = <<>> => First' = "none"
        BY DEF First
      <4> QED
        BY <1>4, <4>1, <4>2
    <3>2. "try" \notin Busy /\ "next" \notin Busy
      BY DEF Busy
    <3> QED
      BY <1>4, <3>1, <3>2
  <2>4. \A o \in ToSet(ops)' : Kind(o) \in All'
    BY <1>4
  <2>5. Gates' /\ Sensed' /\ Tracked' /\ Messages' /\ Aim' /\ Verdict'
    BY <1>1, <1>4, <2>1, <2>2, <2>3, <2>4, Neutral
  <2>6. Outcome'
    BY <1>1, <1>2, <1>3, <1>4, <1>5, <2>1 DEF PromptInv, Outcome, Placed, Busy
  <2> QED
    BY <2>5, <2>6 DEF PromptInv
<1> QED
  BY <1>4, <1>7, <1>8

LEMMA XferCallX ==
  ASSUME StepInv, XInv, XferCall, \A l \in Lba : l + MaxNum <= Limit
  PROVE  Arranged(KindsOf(ops))' /\ OnDisk' /\ (Prompt => PromptInv')
<1>1. PICK write \in BOOLEAN, lba \in Lba, n \in 0 .. MaxNum : Transfer(write, lba, n) /\ ops' = Sectors(n)
  BY DEF XferCall
<1>2. lba \in Nat /\ n \in Nat /\ MaxNum \in Nat /\ lba + MaxNum <= Limit /\ Limit \in Nat
  BY TransferAssumption DEF Limit
<1>3. /\ ops' \in Seq(Operations) /\ KindsOf(ops') \in {<<>>, <<"try", "next">>}
      /\ n = 0 => ops' = <<>> /\ ToSet(ops') = {}
      /\ n # 0 => ops' # <<>> /\ ops'[1] = Op("try", 0) /\ KindsIn(ToSet(ops')) = {"try", "next"}
      /\ \A o \in ToSet(ops') : n # 0 /\ Kind(o) \in {"try", "next"} /\ (Kind(o) = "next" => o.arg = n - 1)
      /\ KindsIn(ToSet(ops')) \subseteq {"try", "next"}
  BY <1>1, <1>2, SectorsAre
<1>4. /\ ToSet(ops)' = ToSet(ops') /\ All' = KindsIn(ToSet(ops')) /\ KindsOf(ops)' = KindsOf(ops')
      /\ First' = IF ops' = <<>> THEN "none" ELSE Kind(ops'[1])
  BY DEF All, KindsIn, KindsOf, First, ToSet
<1>5. Kind(Op("try", 0)) = "try"
  BY DEF Kind, Op
<1>6. Arranged(KindsOf(ops))'
  <2>1. Arranged(<<>>) /\ Arranged(<<"try", "next">>)
    BY DEF Arranged, Ordered, Followed, Ended, SeeksFirst, MayPrecede, MayFollow, Unfinished,
       Trying, Seeking,
           Waiting
  <2>2. Arranged(KindsOf(ops'))
    BY <1>3, <2>1
  <2> QED
    BY <1>4, <2>2 DEF Arranged, Ordered, Followed, Ended, SeeksFirst
<1>7. req'.write = write /\ req'.lba = lba /\ req'.num = n /\ req'.res = 0
  BY <1>1 DEF Transfer
<1>8. OnDisk'
  <2>1. ASSUME NEW o \in ToSet(ops)', Kind(o) = "next" PROVE req'.lba + o.arg < Limit
    <3>1. n # 0 /\ o.arg = n - 1
      BY <1>3, <1>4, <2>1
    <3> QED
      BY <1>2, <1>7, <3>1
  <2>2. ASSUME All' \cap {"try", "judge"} # {} PROVE req'.lba < Limit
    <3>1. n # 0
      BY <1>3, <1>4, <2>2 DEF KindsIn
    <3> QED
      BY <1>2, <1>7, <3>1
  <2> QED
    BY <2>1, <2>2 DEF OnDisk
<1>9. ASSUME Prompt PROVE PromptInv'
  <2>1. PromptInv /\ ops = <<>>
    BY <1>9 DEF XInv, XferCall
  <2>2. First = "none" /\ All = {}
    <3>1. ToSet(<<>>) = {}
      BY DEF ToSet
    <3> QED
      BY <2>1, <3>1 DEF First, All, KindsIn
  <2>3. fdc.goal = -1 /\ fdc.phase = "command"
    <3>1. ~(fdc.goal >= 0) /\ fdc.phase \notin {"execution", "result"}
      BY <2>1, <2>2 DEF PromptInv, Gates
    <3>2. fdc.goal \in Bytes8 \cup {-1} /\ fdc.phase \in {"command", "execution", "result"}
      BY DEF StepInv, FdcOK, Controllers
    <3> DEFINE g == fdc.goal
    <3>3. g \in Bytes8 \cup {-1} /\ ~(g >= 0)
      BY <3>1, <3>2
    <3> HIDE DEF g
    <3>4. g = -1
      BY <3>3 DEF Bytes8
    <3> QED
      BY <3>1, <3>2, <3>4 DEF g
  <2>4. UNCHANGED <<fdc, head, track>>
    BY DEF XferCall, machine
  <2>5. track' = head
    BY <2>1, <2>2, <2>4 DEF PromptInv, Tracked
  <2>6. First' \in All' \cup {"none"} /\ First' # "wait" /\ \A x \in All' : x \notin Busy
    <3>1. "try" \notin Busy /\ "next" \notin Busy
      BY DEF Busy
    <3> QED
      BY <1>3, <1>4, <1>5, <3>1
  <2>7. \A o \in ToSet(ops)' : Kind(o) \in All'
    BY <1>4 DEF KindsIn
  <2>8. Gates' /\ Sensed' /\ Tracked' /\ Messages' /\ Aim' /\ Verdict'
    BY <2>3, <2>4, <2>5, <2>6, <2>7, Neutral
  <2>9. Outcome'
    <3>1. CASE n = 0
      BY <1>3, <1>4, <1>7, <3>1 DEF Outcome, KindsIn
    <3>2. CASE n # 0
      BY <1>2, <1>3, <1>4, <1>7, <3>2, SMTT(30) DEF Outcome
    <3> QED
      BY <3>1, <3>2
  <2> QED
    BY <2>8, <2>9 DEF PromptInv
<1> QED
  BY <1>6, <1>8, <1>9

-----------------------------------------------------------------------------
(* The controller finishes a seek or a transfer.                             *)

(* A cylinder on the disk fits the byte that it is sent in.                  *)
LEMMA CylOK ==
  ASSUME req.lba \in Nat, req.lba < Limit
  PROVE  Cyl \in 0 .. 255 /\ (Cyl % 256) = Cyl
<1> DEFINE l == req.lba
           q == l \div 36
<1>1. l \in Nat /\ l < 9216
  BY DEF Limit
<1> HIDE DEF l
<1>2. q \in 0 .. 255
  BY <1>1
<1> HIDE DEF q
<1>3. (q % 65536) = q /\ (q % 256) = q
  BY <1>2
<1>4. Cyl = (q % 65536)
  BY DEF Cyl, Chs, q, l, Words
<1> QED
  BY <1>2, <1>3, <1>4

LEMMA SeekDoneX ==
  ASSUME StepInv, XInv, SeekDone
  PROVE  Arranged(KindsOf(ops))' /\ OnDisk' /\ (Prompt => PromptInv')
<1>1. UNCHANGED <<ops, status, track, req, env, answer>> /\ head' = fdc.goal /\ fdc.goal >= 0
  BY DEF SeekDone
<1>2. fdc \in Controllers
  BY DEF StepInv, FdcOK
<1>3. /\ fdc'.goal = -1 /\ fdc'.pending # <<>> /\ fdc'.phase = fdc.phase /\ fdc'.bytes = fdc.bytes
      /\ fdc'.result = fdc.result
  <2> DEFINE p == fdc.pending
             z == Append(p, 32)
  <2>1. fdc' = [fdc EXCEPT !.goal = -1, !.pending = z]
    BY DEF SeekDone
  <2>2. p \in Seq(Bytes8) /\ 32 \in Bytes8
    BY <1>2 DEF Controllers, Bytes8
  <2> HIDE DEF p
  <2>3. z # <<>>
    BY <2>2, OneMore
  <2> HIDE DEF z
  <2>4. fdc' = [phase |-> fdc.phase, bytes |-> fdc.bytes, result |-> fdc.result, goal |-> -1, pending |-> z]
    BY <1>2, <2>1 DEF Controllers
  <2> QED
    BY <2>3, <2>4
<1>4. First' = First /\ Second' = Second /\ All' = All /\ Arranged(KindsOf(ops))' /\ Cyl' = Cyl
      /\ ThisTransfer' = ThisTransfer /\ Head(ops)' = Head(ops) /\ Judging' = Judging
  BY <1>1 DEF XInv, First, Second, All, Arranged, Ordered, Followed, Ended, SeeksFirst,
     KindsOf, Cyl, ThisTransfer,
              Judging
<1>5. OnDisk'
  BY <1>1, <1>4 DEF XInv, OnDisk
<1>6. ASSUME Prompt PROVE PromptInv'
  <2>1. PromptInv /\ First = "waitSense"
    BY <1>1, <1>6 DEF XInv, PromptInv, Gates
  <2>2. Gates'
    BY <1>3, <1>4, <2>1 DEF PromptInv, Gates
  <2>3. Sensed'
    BY <1>3, <1>4, <2>1 DEF Sensed
  <2>4. Tracked'
    <3>1. ops # <<>>
      BY <2>1 DEF First
    <3>2. "waitSense" \in All
      BY <2>1, <3>1, Order DEF XInv, Placed
    <3> QED
      BY <1>4, <3>2 DEF Tracked
  <2>5. Messages'
    BY <1>1, <1>3, <1>4, <2>1 DEF PromptInv, Messages
  <2>6. Aim'
    <3>1. "judge" \in All => fdc.goal = Cyl
      BY <1>1, <2>1 DEF PromptInv, Aim
    <3> QED
      BY <1>1, <1>3, <1>4, <2>1, <3>1 DEF Aim
  <2>7. Verdict'
    BY <1>4, <2>1 DEF Verdict
  <2>8. Outcome'
    BY <1>1, <1>4, <2>1 DEF PromptInv, Outcome
  <2> QED
    BY <2>2, <2>3, <2>4, <2>5, <2>6, <2>7, <2>8 DEF PromptInv
<1> QED
  BY <1>4, <1>5, <1>6

LEMMA Placewise ==
  ASSUME NEW S, NEW s \in Seq(S), NEW t \in Seq(S)
  PROVE  \A i \in 1 .. Len(s) + Len(t) : (s \o t)[i] = IF i <= Len(s) THEN s[i] ELSE t[i - Len(s)]
OBVIOUS

LEMMA Slice ==
  ASSUME NEW S, NEW s \in Seq(S), Len(s) = 9
  PROVE  SubSeq(s, 3, 6) \in Seq(S) /\ Len(SubSeq(s, 3, 6)) = 4 /\ SubSeq(s, 3, 6) = [i \in 1 .. 4 |-> s[3 + i - 1]]
<1>1. SubSeq(s, 3, 6) \in Seq(S)
  BY SMTT(30)
<1>2. Len(SubSeq(s, 3, 6)) = 4
  OBVIOUS
<1>3. SubSeq(s, 3, 6) = [i \in 1 .. 4 |-> s[3 + i - 1]]
  OBVIOUS
<1> QED
  BY <1>1, <1>2, <1>3

(* The result of a command that reached the heads' place.                    *)
LEMMA AnswerIs ==
  ASSUME StepInv, ExecDone
  PROVE  \E fails \in BOOLEAN :
           LET protected == fdc.bytes[1] = 69 /\ env.protected
               error == fails \/ protected \/ head # fdc.bytes[3]
           IN /\ answer'[1] = IF error THEN 64 ELSE 0
              /\ answer'[2] = IF protected THEN 2 ELSE IF error THEN 4 ELSE 0
              /\ answer'[4] = fdc.bytes[3]
<1>1. fdc \in Controllers /\ Whole(fdc.bytes) /\ fdc.bytes[1] \in {69, 70}
  BY DEF StepInv, FdcOK, Phases, Consistent, ExecDone
<1> DEFINE b == fdc.bytes
<1>2. b \in Seq(Bytes8) /\ Len(b) = 9
  BY <1>1, Lengths DEF Whole, Controllers
<1>3. PICK fails \in BOOLEAN :
         LET protected == b[1] = 69 /\ env.protected
             error == fails \/ protected \/ head # b[3]
         IN answer' = <<IF error THEN 64 ELSE 0, IF protected THEN 2 ELSE IF error THEN 4 ELSE 0, 0>> \o SubSeq(b, 3, 6)
  BY DEF ExecDone
<1> HIDE DEF b
<1> DEFINE protected == b[1] = 69 /\ env.protected
           error == fails \/ protected \/ head # b[3]
           x == IF error THEN 64 ELSE 0
           y == IF protected THEN 2 ELSE IF error THEN 4 ELSE 0
           last == SubSeq(b, 3, 6)
           first == <<x, y, 0>>
<1>4. answer' = first \o last
  BY <1>3
<1>5. last \in Seq(Bytes8) /\ Len(last) = 4 /\ last[1] = b[3]
  <2>1. last \in Seq(Bytes8) /\ Len(last) = 4 /\ last = [i \in 1 .. 4 |-> b[3 + i - 1]]
    BY <1>2, Slice, Zenon
  <2> HIDE DEF last
  <2>3. last[1] = b[3 + 1 - 1] /\ 3 + 1 - 1 = 3
    BY <2>1
  <2> QED
    BY <2>1, <2>3
<1>6. x \in Bytes8 /\ y \in Bytes8 /\ 0 \in Bytes8
  BY DEF Bytes8
<1> HIDE DEF x, y
<1>7. first \in Seq(Bytes8) /\ Len(first) = 3 /\ first[1] = x /\ first[2] = y
  BY <1>6
<1> HIDE DEF last, first
<1>8. (first \o last)[1] = x /\ (first \o last)[2] = y /\ (first \o last)[4] = b[3]
  <2>1. \A i \in 1 .. Len(first) + Len(last) :
          (first \o last)[i] = IF i <= Len(first) THEN first[i] ELSE last[i - Len(first)]
    BY <1>5, <1>7, Placewise, Zenon
  <2>2. 1 \in 1 .. Len(first) + Len(last) /\ 2 \in 1 .. Len(first) + Len(last) /\ 4 \in 1 .. Len(first) + Len(last)
        /\ 1 <= Len(first) /\ 2 <= Len(first) /\ ~(4 <= Len(first)) /\ 4 - Len(first) = 1
    BY <1>5, <1>7
  <2>3. (first \o last)[1] = first[1] /\ (first \o last)[2] = first[2] /\ (first \o last)[4] = last[4 - Len(first)]
    BY <2>1, <2>2, Zenon
  <2> QED
    BY <1>5, <1>7, <2>2, <2>3
<1>9. answer'[1] = x /\ answer'[2] = y /\ answer'[4] = b[3]
  BY <1>4, <1>8
<1> QED
  BY <1>9 DEF x, y, b

LEMMA ExecDoneX ==
  ASSUME StepInv, XInv, ExecDone
  PROVE  Arranged(KindsOf(ops))' /\ OnDisk' /\ (Prompt => PromptInv')
<1>1. UNCHANGED <<ops, status, track, req, env, head>> /\ fdc' = Results(fdc, answer') /\ fdc.phase = "execution"
  BY DEF ExecDone
<1>2. fdc \in Controllers /\ req \in Requests /\ env \in [answers : BOOLEAN, prompt : BOOLEAN, protected : BOOLEAN]
  BY DEF StepInv, FdcOK, ReqOK
<1>3. /\ fdc'.goal = fdc.goal /\ fdc'.pending = fdc.pending /\ fdc'.phase = "result" /\ fdc'.bytes = <<>>
      /\ fdc'.result = answer'
  <2>1. fdc' = [phase |-> "result", bytes |-> <<>>, result |-> answer', goal |-> fdc.goal, pending |-> fdc.pending]
    BY <1>1, <1>2 DEF Controllers, Results
  <2> QED
    BY <2>1
<1>4. First' = First /\ Second' = Second /\ All' = All /\ Arranged(KindsOf(ops))' /\ Cyl' = Cyl
      /\ ThisTransfer' = ThisTransfer /\ Head(ops)' = Head(ops) /\ Judging' = Judging
  BY <1>1 DEF XInv, First, Second, All, Arranged, Ordered, Followed, Ended, SeeksFirst,
     KindsOf, Cyl, ThisTransfer,
              Judging
<1>5. OnDisk'
  BY <1>1, <1>4 DEF XInv, OnDisk
<1>6. ASSUME Prompt PROVE PromptInv'
  <2>1. PromptInv /\ First = "wait" /\ ~(fdc.goal >= 0)
    BY <1>1, <1>6 DEF XInv, PromptInv, Gates
  <2>2. ops # <<>> /\ "judge" \in All
    <3>1. ops # <<>>
      BY <2>1 DEF First
    <3>2. Placed
      BY <3>1, Order DEF XInv
    <3> QED
      BY <2>1, <3>1, <3>2 DEF Placed, MayFollow, Unfinished
  <2>3. Gates'
    BY <1>3, <1>4, <2>1 DEF Gates
  <2>4. Sensed'
    BY <1>1, <1>3, <1>4, <2>1 DEF PromptInv, Sensed
  <2>5. Tracked'
    BY <1>1, <1>4, <2>1 DEF PromptInv, Tracked
  <2>6. Messages'
    BY <1>1, <1>4, <2>1 DEF PromptInv, Messages
  <2>7. Aim'
    BY <1>1, <1>3, <1>4, <2>1 DEF PromptInv, Aim
  <2>8. Verdict'
    <3>1. fdc.bytes = ThisTransfer
      BY <1>1, <2>1 DEF PromptInv, Verdict
    <3>2. ThisTransfer[1] = (IF req.write THEN 69 ELSE 70) /\ ThisTransfer[3] = (Cyl % 256)
      BY DEF ThisTransfer, TransferBytes, TransferBytesOf, Cyl
    <3>3. (Cyl % 256) = Cyl /\ Cyl \in 0 .. 255
      <4>1. req.lba \in Nat /\ req.lba < Limit
        BY <1>2, <2>2 DEF XInv, OnDisk, Requests
      <4> QED
        BY <4>1, CylOK
    <3>4. answer' \in [1 .. 7 -> Bytes8]
      BY AnswerOK
    <3>5. PICK fails \in BOOLEAN :
             LET protected == fdc.bytes[1] = 69 /\ env.protected
                 error == fails \/ protected \/ head # fdc.bytes[3]
             IN /\ answer'[1] = IF error THEN 64 ELSE 0
                /\ answer'[2] = IF protected THEN 2 ELSE IF error THEN 4 ELSE 0
                /\ answer'[4] = fdc.bytes[3]
      BY AnswerIs
    <3>6. fdc.bytes[1] = 69 <=> req.write
      BY <1>2, <3>1, <3>2 DEF Requests
    <3>7. answer'[4] = Cyl
      BY <3>1, <3>2, <3>3, <3>5
    <3>8. /\ answer'[1] \in {0, 64} /\ answer'[2] \in {0, 2, 4}
          /\ answer'[2] = 2 <=> req.write /\ env.protected
          /\ req.write /\ env.protected => answer'[1] = 64
      BY <3>5, <3>6
    <3>9. Answered'
      BY <1>1, <1>4, <3>4, <3>7, <3>8 DEF Answered
    <3> QED
      BY <1>3, <1>4, <2>1, <3>9 DEF Verdict
  <2>9. Outcome'
    BY <1>1, <1>4, <2>1 DEF PromptInv, Outcome
  <2> QED
    BY <2>3, <2>4, <2>5, <2>6, <2>7, <2>8, <2>9 DEF PromptInv
<1> QED
  BY <1>4, <1>5, <1>6

LEMMA PresentX ==
  ASSUME StepInv, XInv, Present
  PROVE  Arranged(KindsOf(ops))' /\ OnDisk' /\ (Prompt => PromptInv')
<1>1. ops # <<>> /\ Head(ops).op = "present" /\ Arranged(KindsOf(ops))
      /\ UNCHANGED <<status, track, req, fdc, head, answer, env>>
  BY DEF Present, Doing, machine, XInv
<1>2. ops \in Seq(Operations) /\ Head(ops) \in Operations /\ Placed
  BY <1>1, Order
<1>3. First = "present" /\ Kind(Head(ops)) = "present"
  BY <1>1, <1>2, KindIs DEF Placed
<1>4. \E changed \in BOOLEAN : ops' = (IF changed THEN <<Op("seek", 79), Op("seek", 0)>> ELSE <<>>) \o Tail(ops)
  BY DEF Present, Continue
<1>5. PICK w : ops' = w \o Tail(ops) /\ w \in {<<>>, <<Op("seek", 79), Op("seek", 0)>>}
  BY <1>4
<1>6. /\ w \in Seq(Operations) /\ KindsOf(w) \in {<<>>, <<"seek", "seek">>}
      /\ KindsIn(ToSet(w)) \subseteq {"seek"}
      /\ w # <<>> => Kind(w[1]) = "seek"
  <2>1. CASE w = <<>>
    BY <2>1, KindsEmpty
  <2>2. CASE w = <<Op("seek", 79), Op("seek", 0)>>
    <3>1. Op("seek", 79) \in Operations /\ Op("seek", 0) \in Operations /\ Kind(Op("seek", 79)) = "seek"
          /\ Kind(Op("seek", 0)) = "seek"
      BY DEF Op, Operations, OpNames, Compound, Kind
    <3> DEFINE a == Op("seek", 79)
               b == Op("seek", 0)
    <3>2. w = <<a, b>> /\ a \in Operations /\ b \in Operations
      BY <2>2, <3>1
    <3> HIDE DEF a, b
    <3>3. /\ w \in Seq(Operations) /\ KindsOf(w) = <<Kind(a), Kind(b)>>
          /\ KindsIn(ToSet(w)) = {Kind(a), Kind(b)} /\ w[1] = a
      BY <3>2, KindsTwo
    <3>4. Kind(a) = "seek" /\ Kind(b) = "seek"
      BY <3>1 DEF a, b
    <3> QED
      BY <3>3, <3>4
  <2> QED
    BY <1>5, <2>1, <2>2
<1>7. Replaces(KindsOf(w), Kind(Head(ops)))
  BY <1>3, <1>6 DEF Replaces
<1>8. /\ Arranged(KindsOf(ops))'
      /\ ToSet(ops)' = ToSet(w) \cup Later /\ Later \subseteq ToSet(ops)
      /\ All' = KindsIn(ToSet(w)) \cup Rest
      /\ w = <<>> => First' = Second
      /\ w # <<>> => First' = Kind(w[1])
  BY <1>1, <1>2, <1>5, <1>6, <1>7, Replaced
<1>9. /\ \A x \in Rest : x \notin Busy
      /\ Second # "wait" /\ (Second = "none" \/ Second \in Rest) /\ "seek" \notin Busy
  BY <1>2, <1>3 DEF Placed, Busy, MayFollow, MayPrecede, Unfinished, Trying, Seeking, Waiting
<1>10. \A o \in ToSet(ops)' : Kind(o) \in All' /\ (o \in ToSet(ops) \/ Kind(o) = "seek")
  <2>1. ASSUME NEW o \in ToSet(ops)' PROVE Kind(o) \in All' /\ (o \in ToSet(ops) \/ Kind(o) = "seek")
    <3>1. CASE o \in ToSet(w)
      BY <1>6, <1>8, <3>1 DEF KindsIn
    <3>2. CASE o \in Later
      <4>1. ops # <<>> => Kind(o) \in Rest
        BY <3>2 DEF Rest, KindsIn
      <4> QED
        BY <1>1, <1>8, <3>2, <4>1
    <3> QED
      BY <1>8, <2>1, <3>1, <3>2
  <2> QED
    BY <2>1
<1>11. OnDisk'
  BY <1>1, <1>2, <1>6, <1>8, <1>10 DEF XInv, OnDisk, Placed
<1>12. ASSUME Prompt PROVE PromptInv'
  <2>1. PromptInv /\ fdc.goal = -1 /\ fdc.phase = "command"
    BY <1>3, <1>12, Ready DEF XInv, Present, PromptInv, Gates
  <2>2. track' = head
    BY <1>1, <1>2, <1>3, <1>9, <2>1 DEF PromptInv, Tracked, Placed, Busy
  <2>3. First' \in All' \cup {"none"} /\ First' # "wait" /\ \A x \in All' : x \notin Busy
    BY <1>6, <1>8, <1>9 DEF KindsIn, ToSet
  <2>5. Gates' /\ Sensed' /\ Tracked' /\ Messages' /\ Aim' /\ Verdict'
    BY <1>1, <1>10, <2>1, <2>2, <2>3, Neutral
  <2>6. Outcome'
    BY <1>1, <1>2, <1>3, <1>6, <1>8, <2>1 DEF PromptInv, Outcome, Placed
  <2> QED
    BY <2>5, <2>6 DEF PromptInv
<1> QED
  BY <1>8, <1>11, <1>12

-----------------------------------------------------------------------------
(* Sending a command, byte by byte: the bytes sent and those still to come   *)
(* are one of the driver's commands.                                         *)

(* Which command the driver is at.                                           *)
SendKindsAre == {"seeking", "calibrating", "asking", "versioning", "transferring", "setting"}

LEMMA SendKinds ==
  ASSUME StepInv, Arranged(KindsOf(ops)), ops # <<>>, Head(ops).op = "send"
  PROVE  /\ Head(ops).bytes \in Seq(Bytes8) /\ Head(ops).bytes # <<>>
         /\ Mid <=> First = "sending"
         /\ First # "sending" => /\ Head(ops).arg = 0 /\ Whole(Head(ops).bytes)
                                 /\ First = SendKind(Head(ops).bytes[1]) /\ First \in SendKindsAre
<1> DEFINE o == Head(ops)
<1>1. o \in Operations /\ First = Kind(o)
  BY Order DEF Placed
<1>2. o \in Fresh \cup Begun
  BY DEF StepInv, OpsOK
<1>3. o.bytes \in Seq(Bytes8) /\ o.bytes # <<>>
  BY <1>1, <1>2 DEF Operations, Fresh, Begun, Whole
<1>4. Kind(o) = IF o.arg # 0 THEN "sending" ELSE SendKind(o.bytes[1])
  BY <1>1, KindIs
<1>5. SendKind(o.bytes[1]) \in SendKindsAre /\ "sending" \notin SendKindsAre
  BY DEF SendKind, SendKindsAre
<1>6. Mid <=> o.arg # 0
  BY <1>2 DEF Mid, Fresh, Begun
<1>7. o.arg = 0 => Whole(o.bytes)
  BY <1>2 DEF Fresh, Begun
<1> QED
  BY <1>1, <1>3, <1>4, <1>5, <1>6, <1>7

(* The command that a byte belongs to, and what becomes of the byte.         *)
LEMMA SendIs ==
  ASSUME StepInv, Arranged(KindsOf(ops)), SendByte, env.answers, fdc.phase = "command"
  PROVE  /\ Sent \in Seq(Bytes8) /\ Whole(Sent)
         /\ First # "sending" => /\ Sent = Head(ops).bytes /\ First = SendKind(Sent[1])
         /\ First = "sending" => Sent[1] \notin {8, 16}
         /\ Len(Head(ops).bytes) = 1 => fdc' = Executed(fdc, Sent)
         /\ Len(Head(ops).bytes) # 1 =>
              /\ fdc'.goal = fdc.goal /\ fdc'.pending = fdc.pending /\ fdc'.phase = fdc.phase
              /\ fdc'.bytes \o Tail(Head(ops).bytes) = Sent
<1> DEFINE o == Head(ops)
           b == o.bytes
           f == fdc.bytes
           c == Append(f, Head(b))
<1>1. ops # <<>> /\ o.op = "send" /\ Writable
  BY DEF SendByte, Doing, Writable
<1>2. /\ b \in Seq(Bytes8) /\ b # <<>> /\ (Mid <=> First = "sending")
      /\ First # "sending" => o.arg = 0 /\ Whole(b) /\ First = SendKind(b[1]) /\ First \in SendKindsAre
  BY <1>1, SendKinds
<1>3. fdc \in Controllers /\ f \in Seq(Bytes8) /\ o \in Operations
  BY <1>1, Order DEF StepInv, FdcOK, Controllers
<1>4. IF Mid THEN f # <<>> /\ Whole(f \o b) ELSE f = <<>>
  BY <1>1 DEF StepInv, Phases, Writable
<1>5. Sent = f \o b
  BY DEF Sent
<1>8. fdc' = IF c[1] \in DOMAIN CommandLength /\ Len(c) < CommandLength[c[1]] THEN [fdc EXCEPT !.bytes = c]
             ELSE Executed(fdc, c)
  BY <1>1 DEF SendByte, Accepted
<1> HIDE DEF b, f
<1>9. /\ Len(b) \in Nat /\ Len(b) >= 1 /\ Head(b) = b[1] /\ b[1] \in Bytes8 /\ Tail(b) \in Seq(Bytes8)
      /\ Len(Tail(b)) = Len(b) - 1
  BY <1>2, Parted, Zenon
<1>10. c \in Seq(Bytes8) /\ c # <<>> /\ c \o Tail(b) = f \o b
  BY <1>2, <1>3, <1>9, OneMore, Moved, Zenon
<1>11. f \o b \in Seq(Bytes8) /\ Len(f \o b) = Len(f) + Len(b) /\ Len(f) \in Nat
  <2>1. Len(f) \in Nat
    BY <1>3
  <2> QED
    BY <1>2, <1>3, <2>1, EndToEnd
<1>12. f # <<>> => Len(f) >= 1
  BY <1>3
<1>13. f = <<>> => f \o b = b
  BY <1>2
<1>14. Whole(f \o b)
  BY <1>2, <1>4, <1>13
<1>15. First = "sending" => (f \o b)[1] \notin {8, 16}
  <2> DEFINE w == f \o b
  <2>1. Whole(w) /\ (First = "sending" => Len(w) >= 2)
    BY <1>2, <1>4, <1>9, <1>11, <1>12, <1>14
  <2> HIDE DEF w
  <2>2. Len(w) = CommandLength[w[1]]
    BY <2>1 DEF Whole
  <2>3. w[1] = 8 => Len(w) = 1
    BY <2>2, Lengths
  <2>4. w[1] = 16 => Len(w) = 1
    BY <2>2, Lengths
  <2> QED
    BY <2>1, <2>3, <2>4 DEF w
<1>16. /\ Sent \in Seq(Bytes8) /\ Whole(Sent)
       /\ First # "sending" => Sent = b /\ First = SendKind(Sent[1])
       /\ First = "sending" => Sent[1] \notin {8, 16}
  BY <1>2, <1>4, <1>5, <1>11, <1>13, <1>14, <1>15
<1> HIDE DEF c
<1>17. ASSUME Len(b) = 1 PROVE fdc' = Executed(fdc, Sent)
  <2>1. Tail(b) = <<>>
    <3> DEFINE t == Tail(b)
    <3>1. t \in Seq(Bytes8) /\ Len(t) = 0
      BY <1>9, <1>17
    <3> HIDE DEF t
    <3>2. t = <<>>
      BY <3>1
    <3> QED
      BY <3>2 DEF t
  <2>2. c \o <<>> = c
    BY <1>10
  <2>3. c = Sent
    BY <1>5, <1>10, <2>1, <2>2
  <2> QED
    BY <1>8, <1>16, <2>3 DEF Whole
<1>18. ASSUME Len(b) # 1
       PROVE  /\ fdc'.goal = fdc.goal /\ fdc'.pending = fdc.pending /\ fdc'.phase = fdc.phase
              /\ fdc'.bytes \o Tail(b) = Sent
  <2> DEFINE t == Tail(b)
  <2>1. t \in Seq(Bytes8) /\ Len(t) = Len(b) - 1 /\ Len(t) > 0
    BY <1>9, <1>18
  <2>2. c \o t = Sent
    BY <1>5, <1>10
  <2> HIDE DEF t
  <2>3. c[1] \in DOMAIN CommandLength /\ Len(c) < CommandLength[c[1]]
    <3> DEFINE w == c \o t
    <3>1. Whole(w)
      BY <1>16, <2>2
    <3>2. Len(w) = Len(c) + Len(t) /\ Len(t) > 0 /\ w[1] = c[1] /\ Len(c) \in Nat /\ Len(t) \in Nat
      <4>1. Len(c) \in Nat /\ Len(c) >= 1 /\ c[1] \in Bytes8 /\ Head(c) = c[1]
        BY <1>10, Parted, Zenon
      <4>2. Len(t) \in Nat
        BY <2>1
      <4>3. \A i \in 1 .. Len(c) + Len(t) : (c \o t)[i] = IF i <= Len(c) THEN c[i] ELSE t[i - Len(c)]
        BY <1>10, <2>1, Placewise, Zenon
      <4>4. 1 \in 1 .. Len(c) + Len(t) /\ 1 <= Len(c)
        BY <4>1, <4>2
      <4>5. w[1] = c[1]
        BY <4>3, <4>4
      <4>6. Len(w) = Len(c) + Len(t)
        BY <1>10, <2>1, EndToEnd, Zenon
      <4> QED
        BY <2>1, <4>1, <4>2, <4>5, <4>6
    <3> HIDE DEF w
    <3>3. Len(w) = CommandLength[c[1]] /\ c[1] \in DOMAIN CommandLength
      BY <3>1, <3>2 DEF Whole
    <3> QED
      BY <3>2, <3>3
  <2>4. fdc' = [fdc EXCEPT !.bytes = c]
    BY <1>8, <2>3
  <2>5. fdc' = [phase |-> fdc.phase, bytes |-> c, result |-> fdc.result, goal |-> fdc.goal, pending |-> fdc.pending]
    BY <1>3, <2>4 DEF Controllers
  <2>6. fdc'.bytes = c
    BY <2>5
  <2> QED
    BY <2>2, <2>5, <2>6 DEF t
<1> QED
  BY <1>16, <1>17, <1>18 DEF b

(* What is left to do after a byte.                                          *)
LEMMA SendOn ==
  ASSUME StepInv, Arranged(KindsOf(ops)), SendByte
  PROVE  /\ Len(Head(ops).bytes) = 1 => Onward
         /\ Len(Head(ops).bytes) # 1 =>
              /\ \E a \in Operations : With(a) /\ Kind(a) = "sending" /\ a.bytes = Tail(Head(ops).bytes)
              /\ First \notin {"asking", "versioning"}
<1> DEFINE o == Head(ops)
           b == o.bytes
<1>1. ops # <<>> /\ o.op = "send"
  BY DEF SendByte, Doing
<1>2. /\ b \in Seq(Bytes8) /\ b # <<>>
      /\ First # "sending" => o.arg = 0 /\ Whole(b) /\ First = SendKind(b[1]) /\ First \in SendKindsAre
  BY <1>1, SendKinds
<1>3. o \in Operations
  BY <1>1, Order
<1>4. ASSUME Len(b) = 1 PROVE Onward
  <2>1. ops' = <<>> \o Tail(ops)
    BY <1>4 DEF SendByte, Continue
  <2>2. Replaces(<<>>, First)
    BY <1>2 DEF Replaces, SendKindsAre
  <2> QED
    BY <1>1, <2>1, <2>2, Popped
<1>5. ASSUME Len(b) # 1
      PROVE  /\ \E a \in Operations : With(a) /\ Kind(a) = "sending" /\ a.bytes = Tail(b)
             /\ First \notin {"asking", "versioning"}
  <2>1. ops' = <<[o EXCEPT !.bytes = Tail(@), !.arg = 1]>> \o Tail(ops)
    BY <1>5 DEF SendByte, Continue
  <2> DEFINE t == Tail(b)
             a == [op |-> "send", arg |-> 1, bytes |-> t]
             p == [o EXCEPT !.bytes = t]
  <2>2. t \in Seq(Bytes8)
    BY <1>2, Parted, Zenon
  <2>3. [o EXCEPT !.bytes = Tail(@), !.arg = 1] = a
    <3> HIDE DEF b
    <3>1. [o EXCEPT !.bytes = Tail(@), !.arg = 1] = [p EXCEPT !.arg = 1]
      BY DEF b
    <3> HIDE DEF t
    <3>2. p = [op |-> "send", arg |-> o.arg, bytes |-> t]
      BY <1>1, <1>3 DEF Operations
    <3> HIDE DEF p
    <3> QED
      BY <3>1, <3>2
  <2> HIDE DEF t
  <2>4. a \in Operations /\ Kind(a) = "sending" /\ a.bytes = t
    BY <2>2 DEF Operations, OpNames, Kind
  <2>5. First \notin {"asking", "versioning"}
    <3> SUFFICES ASSUME First \in {"asking", "versioning"} PROVE FALSE
      OBVIOUS
    <3> HIDE DEF b
    <3>1. b[1] \in {8, 16} /\ Len(b) = CommandLength[b[1]]
      <4>1. Whole(b) /\ First = SendKind(b[1])
        BY <1>2
      <4> QED
        BY <4>1 DEF SendKind, Whole
    <3> QED
      BY <1>5, <3>1, Lengths
  <2>6. ops' = <<a>> \o Tail(ops)
    BY <2>1, <2>3
  <2> HIDE DEF a
  <2>7. Replaces(<<Kind(a)>>, First)
    BY <1>2, <2>4, <2>5 DEF Replaces, SendKindsAre
  <2>8. With(a)
    BY <1>1, <2>4, <2>6, <2>7, Exchanged
  <2> QED
    BY <2>4, <2>5, <2>8 DEF t
<1> QED
  BY <1>4, <1>5

(* What a command does to the controller.                                    *)
LEMMA ResultsAre ==
  ASSUME NEW f \in Controllers, NEW r
  PROVE  Results(f, r) = [phase |-> "result", bytes |-> <<>>, result |-> r, goal |-> f.goal, pending |-> f.pending]
<1> DEFINE g == [f EXCEPT !.phase = "result"]
           h == [g EXCEPT !.result = r]
<1>1. Results(f, r) = [h EXCEPT !.bytes = <<>>]
  BY DEF Results
<1>2. g = [phase |-> "result", bytes |-> f.bytes, result |-> f.result, goal |-> f.goal, pending |-> f.pending]
  BY DEF Controllers
<1> HIDE DEF g
<1>3. h = [phase |-> "result", bytes |-> f.bytes, result |-> r, goal |-> f.goal, pending |-> f.pending]
  BY <1>2
<1> HIDE DEF h
<1> QED
  BY <1>1, <1>3

LEMMA ExecutedIs ==
  ASSUME NEW f \in Controllers, f.phase = "command", NEW c, c[1] \in {3, 7, 8, 15, 16, 19, 69, 70}
  PROVE  /\ c[1] \notin {7, 15} => Executed(f, c).goal = f.goal
         /\ c[1] # 8 => Executed(f, c).pending = f.pending
         /\ c[1] = 7 => Executed(f, c).goal = 0
         /\ c[1] = 15 => Executed(f, c).goal = c[3]
         /\ c[1] \in {3, 19, 7, 15} => Executed(f, c).phase = "command"
         /\ c[1] \in {8, 16} => Executed(f, c).phase = "result"
         /\ c[1] \in {69, 70} => Executed(f, c).phase = "execution" /\ Executed(f, c).bytes = c
         /\ c[1] = 16 => Executed(f, c).result = <<144>>
         /\ c[1] = 8 => Executed(f, c).result = IF f.pending = <<>> THEN <<128>> ELSE <<Head(f.pending), head>>
<1> DEFINE idle == [f EXCEPT !.bytes = <<>>]
<1>1. idle = [phase |-> "command", bytes |-> <<>>, result |-> f.result, goal |-> f.goal, pending |-> f.pending]
  BY DEF Controllers
<1>2. CASE c[1] \in {3, 19}
  BY <1>1, <1>2 DEF Executed
<1>3. CASE c[1] = 16
  <2> DEFINE r == <<144>>
  <2>1. Executed(f, c) = Results(f, r)
    BY <1>3 DEF Executed
  <2> HIDE DEF r
  <2>2. Executed(f, c) = [phase |-> "result", bytes |-> <<>>, result |-> r, goal |-> f.goal, pending |-> f.pending]
    BY <2>1, ResultsAre
  <2> QED
    BY <1>3, <2>2 DEF r
<1>4. CASE c[1] = 8 /\ f.pending = <<>>
  <2> DEFINE r == <<128>>
  <2>1. Executed(f, c) = Results(f, r)
    BY <1>4 DEF Executed
  <2> HIDE DEF r
  <2>2. Executed(f, c) = [phase |-> "result", bytes |-> <<>>, result |-> r, goal |-> f.goal, pending |-> f.pending]
    BY <2>1, ResultsAre
  <2> QED
    BY <1>4, <2>2 DEF r
<1>5. CASE c[1] = 8 /\ f.pending # <<>>
  <2> DEFINE r == <<Head(f.pending), head>>
             g == Results(f, r)
  <2>1. Executed(f, c) = [g EXCEPT !.pending = Tail(@)]
    BY <1>5 DEF Executed
  <2> HIDE DEF r
  <2>2. g = [phase |-> "result", bytes |-> <<>>, result |-> r, goal |-> f.goal, pending |-> f.pending]
    BY ResultsAre
  <2> HIDE DEF g
  <2> DEFINE t == Tail(g.pending)
  <2>3. Executed(f, c) = [g EXCEPT !.pending = t]
    BY <2>1
  <2> HIDE DEF t
  <2>4. Executed(f, c) = [phase |-> "result", bytes |-> <<>>, result |-> r, goal |-> f.goal, pending |-> t]
    BY <2>2, <2>3
  <2> QED
    BY <1>5, <2>4 DEF r
<1>6. CASE c[1] = 7
  <2>1. Executed(f, c) = [idle EXCEPT !.goal = 0]
    BY <1>6 DEF Executed
  <2> HIDE DEF idle
  <2>2. Executed(f, c) = [phase |-> "command", bytes |-> <<>>, result |-> f.result, goal |-> 0, pending |-> f.pending]
    BY <1>1, <2>1
  <2> QED
    BY <1>6, <2>2
<1>7. CASE c[1] = 15
  <2>1. Executed(f, c) = [idle EXCEPT !.goal = c[3]]
    BY <1>7 DEF Executed
  <2> HIDE DEF idle
  <2>2. Executed(f, c) = [phase |-> "command", bytes |-> <<>>, result |-> f.result, goal |-> c[3], pending |-> f.pending]
    BY <1>1, <2>1
  <2> QED
    BY <1>7, <2>2
<1>8. CASE c[1] \in {69, 70}
  <2> DEFINE g == [f EXCEPT !.phase = "execution"]
  <2>1. Executed(f, c) = [g EXCEPT !.bytes = c]
    BY <1>8 DEF Executed
  <2>2. g = [phase |-> "execution", bytes |-> f.bytes, result |-> f.result, goal |-> f.goal, pending |-> f.pending]
    BY DEF Controllers
  <2> HIDE DEF g
  <2>3. Executed(f, c) = [phase |-> "execution", bytes |-> c, result |-> f.result, goal |-> f.goal, pending |-> f.pending]
    BY <2>1, <2>2
  <2> QED
    BY <1>8, <2>3
<1> QED
  BY <1>2, <1>3, <1>4, <1>5, <1>6, <1>7, <1>8

(* Which commands there are, and what may follow one.                        *)
LEMMA SendNext ==
  ASSUME Placed, First \in SendKindsAre \cup {"sending"}
  PROVE  /\ First \in {"seeking", "calibrating"} => Second = "waitSense"
         /\ First = "transferring" => Second = "wait"
         /\ First = "asking" => Second = "getSr0"
         /\ First = "versioning" => Second = "getTrack"
         /\ First = "setting" => Second \notin {"wait", "waitSense"}
         /\ Second = "getSr0" => First = "asking"
         /\ Second \in {"getTrack", "getTrack0"} => First = "versioning"
         /\ "getTrack0" \in Rest => First \in {"asking", "versioning"}
         /\ Second \notin {"waitint", "drain", "clear", "sending"}
         /\ "sense0" \notin Rest /\ "drain" \notin Rest
         /\ "judge" \in Rest => /\ First \in {"seeking", "asking", "transferring", "sending"}
                                /\ Second \notin {"seek", "seeking"}
<1>1. Second # "none" => Second \in Rest /\ MayFollow(First, Second) /\ MayPrecede(First, Second)
  <2> SUFFICES ASSUME Second # "none" PROVE Second \in Rest /\ MayFollow(First, Second) /\ MayPrecede(First, Second)
    OBVIOUS
  <2>1. Second \in Rest /\ MayFollow(First, Second)
    BY DEF Placed
  <2>2. \A x \in Rest : MayPrecede(First, x)
    BY DEF Placed
  <2> QED
    BY <2>1, <2>2
<1>2. First \in {"seeking", "calibrating", "asking", "versioning", "transferring", "setting", "sending"}
  BY DEF SendKindsAre
<1>3. First \in {"seeking", "calibrating", "asking", "versioning", "transferring"} => Second # "none"
  BY DEF Placed, Unfinished
<1>4. Second # "sending"
  BY <1>1 DEF Placed
<1> QED
  BY <1>1, <1>2, <1>3, <1>4 DEF Placed, MayFollow, MayPrecede, Trying, Seeking, Waiting

(* The first operation with its command.                                     *)
LEMMA SendAims ==
  ASSUME StepInv, Arranged(KindsOf(ops)), SendByte, Prompt, PromptInv
  PROVE  /\ env.answers /\ fdc.phase = "command" /\ fdc.goal = -1 /\ First \in SendKindsAre \cup {"sending"} /\ Placed
         /\ Sent[1] \in {3, 7, 8, 15, 16, 19, 69, 70}
         /\ First = "asking" <=> Sent[1] = 8
         /\ First = "versioning" <=> Sent[1] = 16
         /\ Second = "waitSense" <=> Sent[1] \in {7, 15}
         /\ Second = "wait" <=> Sent[1] \in {69, 70}
         /\ Sent[1] \in {69, 70} => Sent = ThisTransfer
         /\ "judge" \in Rest => /\ Sent[1] \in {8, 15, 69, 70}
                                /\ IF Sent[1] = 15 THEN Sent = <<15, 0, Cyl>> ELSE head = Cyl
<1>1. /\ ops # <<>> /\ Head(ops).op = "send" /\ Head(ops) \in Operations /\ fdc.goal = -1 /\ ~(fdc.goal >= 0)
      /\ fdc.phase \in {"command", "result"} /\ env.answers
  BY Ready DEF SendByte
<1>2. Placed /\ Head(ops) \in ToSet(ops) /\ First = Kind(Head(ops))
  <2>1. ops \in Seq(Operations) /\ Placed
    BY <1>1, Order
  <2>2. 1 \in DOMAIN ops /\ Head(ops) = ops[1]
    BY <1>1, <2>1
  <2> QED
    BY <2>1, <2>2 DEF Placed, ToSet
<1>3. First \in SendKindsAre \cup {"sending"} /\ (Mid <=> First = "sending")
  BY <1>1, SendKinds
<1>4. fdc.phase = "command"
  BY <1>1, <1>3 DEF PromptInv, Gates, SendKindsAre
<1>5. /\ Sent \in Seq(Bytes8) /\ Whole(Sent)
      /\ First # "sending" => Sent = Head(ops).bytes /\ First = SendKind(Sent[1])
      /\ First = "sending" => Sent[1] \notin {8, 16}
  BY <1>1, <1>4, SendIs
<1>6. Sent[1] \in {3, 7, 8, 15, 16, 19, 69, 70}
  BY <1>5, Lengths DEF Whole
<1>7. /\ First = "asking" <=> Sent[1] = 8
      /\ First = "versioning" <=> Sent[1] = 16
      /\ First = "seeking" => Sent[1] = 15
      /\ First = "calibrating" => Sent[1] = 7
      /\ First = "transferring" => Sent[1] \in {69, 70}
      /\ First = "setting" => Sent[1] \in {3, 19}
  <2> DEFINE c == Sent[1]
  <2>1. c \in {3, 7, 8, 15, 16, 19, 69, 70} /\ (First # "sending" => First = SendKind(c))
        /\ (First = "sending" => c \notin {8, 16})
    BY <1>5, <1>6
  <2> HIDE DEF c
  <2>2. /\ SendKind(3) = "setting" /\ SendKind(19) = "setting" /\ SendKind(7) = "calibrating" /\ SendKind(8) = "asking"
        /\ SendKind(15) = "seeking" /\ SendKind(16) = "versioning" /\ SendKind(69) = "transferring"
        /\ SendKind(70) = "transferring"
    BY DEF SendKind
  <2>3. /\ First = "asking" <=> c = 8
        /\ First = "versioning" <=> c = 16
        /\ First = "seeking" => c = 15
        /\ First = "calibrating" => c = 7
        /\ First = "transferring" => c \in {69, 70}
        /\ First = "setting" => c \in {3, 19}
    BY <2>1, <2>2
  <2> QED
    BY <2>3 DEF c
<1>8. /\ First \in {"seeking", "calibrating"} => Second = "waitSense"
      /\ First = "transferring" => Second = "wait"
      /\ First = "asking" => Second = "getSr0"
      /\ First = "versioning" => Second = "getTrack"
      /\ First = "setting" => Second \notin {"wait", "waitSense"}
      /\ "judge" \in Rest => First \in {"seeking", "asking", "transferring", "sending"}
  BY <1>2, <1>3, SendNext
<1>9. First = "sending" => /\ Second = "waitSense" <=> Sent[1] \in {7, 15}
                           /\ Second = "wait" <=> Sent[1] \in {69, 70}
                           /\ Sent[1] \in {69, 70} => Sent = ThisTransfer
  BY DEF PromptInv, Messages
<1>10. Second = "waitSense" <=> Sent[1] \in {7, 15}
  BY <1>3, <1>7, <1>8, <1>9 DEF SendKindsAre
<1>11. Second = "wait" <=> Sent[1] \in {69, 70}
  BY <1>3, <1>7, <1>8, <1>9 DEF SendKindsAre
<1>12. Sent[1] \in {69, 70} => Sent = ThisTransfer
  <2>1. First = "transferring" => Head(ops).bytes = ThisTransfer
    BY <1>2 DEF PromptInv, Messages
  <2>2. First \notin {"transferring", "sending"} => Sent[1] \notin {69, 70}
    BY <1>3, <1>6, <1>7, <1>8, <1>11 DEF SendKindsAre
  <2> QED
    BY <1>5, <1>9, <2>1, <2>2
<1>13. ASSUME "judge" \in Rest
       PROVE  /\ Sent[1] \in {8, 15, 69, 70}
              /\ IF Sent[1] = 15 THEN Sent = <<15, 0, Cyl>> ELSE head = Cyl
  <2>1. "judge" \in All /\ First \in {"seeking", "asking", "transferring", "sending"}
    BY <1>2, <1>8, <1>13 DEF Placed
  <2>2. /\ First = "seeking" => Head(ops).bytes = <<15, 0, Cyl>>
        /\ First = "sending" /\ Sent[1] \notin {69, 70} => Sent = <<15, 0, Cyl>>
        /\ First \notin {"seek", "seeking"} /\ (First = "sending" => Sent[1] \in {69, 70}) => head = Cyl
    BY <1>1, <2>1 DEF PromptInv, Aim
  <2>3. <<15, 0, Cyl>>[1] = 15
    OBVIOUS
  <2>4. CASE First = "seeking"
    BY <1>5, <1>7, <2>2, <2>4
  <2>5. CASE First \in {"asking", "transferring"}
    BY <1>7, <2>2, <2>5
  <2>6. CASE First = "sending" /\ Sent[1] \in {69, 70}
    BY <2>2, <2>6
  <2>7. CASE First = "sending" /\ Sent[1] \notin {69, 70}
    <3>1. Sent = <<15, 0, Cyl>>
      BY <2>2, <2>7
    <3>2. Sent[1] = 15
      BY <2>3, <3>1
    <3> QED
      BY <3>1, <3>2
  <2> QED
    BY <2>1, <2>4, <2>5, <2>6, <2>7
<1> QED
  BY <1>1, <1>2, <1>3, <1>4, <1>6, <1>7, <1>10, <1>11, <1>12, <1>13

LEMMA Third == ASSUME NEW S, NEW s \in Seq(S), Len(s) = 3 PROVE s[3] \in S
OBVIOUS

LEMMA LengthOne == ASSUME NEW r, NEW a, r = <<a>> PROVE Len(r) = 1
OBVIOUS

LEMMA LengthTwo == ASSUME NEW r, NEW a, NEW b, r = <<a, b>> PROVE Len(r) = 2 /\ r[2] = b
OBVIOUS

(* The last byte of a command.                                               *)
LEMMA SendLast ==
  ASSUME StepInv, XInv, SendByte, Prompt, Len(Head(ops).bytes) = 1, Onward
  PROVE  PromptInv'
<1>1. PromptInv /\ Arranged(KindsOf(ops)) /\ UNCHANGED <<status, track, req, head, answer, env>>
  BY DEF XInv, SendByte
<1>2. /\ env.answers /\ fdc.phase = "command" /\ fdc.goal = -1 /\ First \in SendKindsAre \cup {"sending"} /\ Placed
      /\ Sent[1] \in {3, 7, 8, 15, 16, 19, 69, 70}
      /\ First = "asking" <=> Sent[1] = 8
      /\ First = "versioning" <=> Sent[1] = 16
      /\ Second = "waitSense" <=> Sent[1] \in {7, 15}
      /\ Second = "wait" <=> Sent[1] \in {69, 70}
      /\ Sent[1] \in {69, 70} => Sent = ThisTransfer
      /\ "judge" \in Rest => /\ Sent[1] \in {8, 15, 69, 70}
                             /\ IF Sent[1] = 15 THEN Sent = <<15, 0, Cyl>> ELSE head = Cyl
  BY <1>1, SendAims
<1>3. fdc \in Controllers /\ fdc' = Executed(fdc, Sent)
  BY <1>1, <1>2, SendIs DEF StepInv, FdcOK
<1>4. /\ Sent[1] \notin {7, 15} => fdc'.goal = -1
      /\ Sent[1] # 8 => fdc'.pending = fdc.pending
      /\ Sent[1] = 7 => fdc'.goal = 0
      /\ Sent[1] = 15 => fdc'.goal = Sent[3]
      /\ Sent[1] \in {3, 19, 7, 15} => fdc'.phase = "command"
      /\ Sent[1] \in {8, 16} => fdc'.phase = "result"
      /\ Sent[1] \in {69, 70} => fdc'.phase = "execution" /\ fdc'.bytes = Sent
      /\ Sent[1] = 16 => fdc'.result = <<144>>
      /\ Sent[1] = 8 => fdc'.result = IF fdc.pending = <<>> THEN <<128>> ELSE <<Head(fdc.pending), head>>
  BY <1>2, <1>3, ExecutedIs
<1>5. /\ First \in {"seeking", "calibrating"} => Second = "waitSense"
      /\ First = "asking" => Second = "getSr0"
      /\ First = "versioning" => Second = "getTrack"
      /\ Second = "getSr0" => First = "asking"
      /\ Second \in {"getTrack", "getTrack0"} => First = "versioning"
      /\ "getTrack0" \in Rest => First \in {"asking", "versioning"}
      /\ Second \notin {"waitint", "drain", "clear", "sending"}
      /\ "sense0" \notin Rest /\ "drain" \notin Rest
      /\ "judge" \in Rest => Second \notin {"seek", "seeking"}
  BY <1>2, SendNext
<1>6. Cyl' = Cyl /\ ThisTransfer' = ThisTransfer
  BY <1>1, CylKept
<1>7. All' = Rest /\ First' = Second /\ ToSet(ops)' \subseteq ToSet(ops) /\ All = {First} \cup Rest
      /\ First \notin {"waitSense", "sense0", "getTrack0", "alloc", "reset", "drain", "try", "judge",
                        "read", "write", "next"}
  BY <1>2 DEF Onward, Placed, SendKindsAre
<1>8. Sent[1] = 16 => Len(fdc'.result) = 1
  BY <1>4, LengthOne
<1>9. /\ Sent[1] = 8 /\ fdc.pending = <<>> => Len(fdc'.result) = 1
      /\ Sent[1] = 8 /\ fdc.pending # <<>> => Len(fdc'.result) = 2 /\ fdc'.result[2] = head
  <2> DEFINE r == fdc'.result
             p == fdc.pending
             x == Head(p)
  <2>1. Sent[1] = 8 => r = IF p = <<>> THEN <<128>> ELSE <<x, head>>
    BY <1>4
  <2> HIDE DEF r, p, x
  <2>2. Sent[1] = 8 /\ p = <<>> => Len(r) = 1
    BY <2>1, LengthOne
  <2>3. Sent[1] = 8 /\ p # <<>> => Len(r) = 2 /\ r[2] = head
    BY <2>1, LengthTwo
  <2> QED
    BY <2>2, <2>3 DEF r, p
<1>10. Gates'
  <2>1. fdc'.goal >= 0 => Second = "waitSense"
    BY <1>2, <1>4
  <2>2. fdc'.phase = "execution" => Second = "wait"
    BY <1>2, <1>4
  <2>3. fdc'.phase = "result" => Second \in {"getSr0", "getTrack"}
    BY <1>2, <1>4, <1>5
  <2>4. Second = "getSr0" => fdc'.phase = "result" /\ Len(fdc'.result) \in {1, 2}
    BY <1>2, <1>4, <1>5, <1>9
  <2>5. Second \in {"getTrack0", "getTrack"} => Len(fdc'.result) <= 1
    <3>1. Second \in {"getTrack0", "getTrack"} => Sent[1] = 16
      BY <1>2, <1>5
    <3>2. Len(fdc'.result) = 1 => Len(fdc'.result) <= 1
      OBVIOUS
    <3> QED
      BY <1>8, <3>1, <3>2
  <2> QED
    BY <1>7, <2>1, <2>2, <2>3, <2>4, <2>5 DEF Gates
<1>11. Sensed'
  <2>1. Second = "waitSense" => fdc'.goal >= 0
    <3>1. Sent[1] = 15 => Sent[3] \in Bytes8
      <4>1. Sent \in Seq(Bytes8) /\ Whole(Sent)
        BY <1>1, <1>2, SendIs
      <4>2. Sent[1] = 15 => Len(Sent) = 3
        BY <4>1, Lengths DEF Whole
      <4> DEFINE c == Sent
      <4>3. c \in Seq(Bytes8) /\ (c[1] = 15 => Len(c) = 3)
        BY <4>1, <4>2
      <4> HIDE DEF c
      <4>4. c[1] = 15 => c[3] \in Bytes8
        BY <4>3, Third
      <4> QED
        BY <4>4 DEF c
    <3>2. \A g \in Bytes8 : g >= 0
      BY DEF Bytes8
    <3>3. 0 \in Bytes8
      BY DEF Bytes8
    <3>4. Sent[1] = 15 => fdc'.goal \in Bytes8
      BY <1>4, <3>1
    <3>5. Sent[1] = 7 => fdc'.goal \in Bytes8
      BY <1>4, <3>3
    <3> QED
      BY <1>2, <3>2, <3>4, <3>5
  <2>2. Second = "asking" => "getTrack0" \notin Rest
    BY <1>5
  <2>3. Second = "getSr0" /\ "getTrack0" \in Rest => Len(fdc'.result) = 2 /\ fdc'.result[2] = head
    <3>1. First = "asking" /\ "getTrack0" \in Rest => fdc.pending # <<>>
      BY <1>1, <1>7 DEF PromptInv, Sensed
    <3> QED
      BY <1>2, <1>5, <1>9, <3>1
  <2>4. Second # "getTrack0"
    BY <1>5
  <2> QED
    BY <1>1, <1>5, <1>7, <2>1, <2>2, <2>3, <2>4 DEF Sensed
<1>12. Tracked'
  BY <1>1, <1>7 DEF PromptInv, Tracked
<1>13. Messages'
  <2>1. First' # "sending" /\ First # "drain"
    BY <1>5, <1>7
  <2> QED
    BY <1>1, <1>6, <1>7, <2>1 DEF PromptInv, Messages
<1>14. Aim'
  <2> SUFFICES ASSUME "judge" \in Rest PROVE IF fdc'.goal >= 0 THEN fdc'.goal = Cyl ELSE head = Cyl
    BY <1>1, <1>5, <1>6, <1>7 DEF Aim
  <2>1. CASE Sent[1] = 15
    <3>1. <<15, 0, Cyl>>[3] = Cyl
      OBVIOUS
    <3>2. Sent = <<15, 0, Cyl>>
      BY <1>2, <2>1
    <3>3. fdc'.goal = Cyl
      BY <1>4, <2>1, <3>1, <3>2
    <3>4. req.lba \in Nat /\ req.lba < Limit
      BY <1>7 DEF StepInv, ReqOK, Requests, XInv, OnDisk
    <3>5. Cyl \in 0 .. 255
      BY <3>4, CylOK
    <3> QED
      BY <3>3, <3>5
  <2>2. CASE Sent[1] # 15
    BY <1>2, <1>4, <2>2
  <2> QED
    BY <2>1, <2>2
<1>15. Verdict'
  <2>1. Second = "wait" => fdc'.phase = "execution" /\ fdc'.bytes = ThisTransfer
    BY <1>2, <1>4
  <2>2. Second # "judge"
    <3> SUFFICES ASSUME Second = "judge" PROVE FALSE
      OBVIOUS
    <3>1. "judge" \in Rest
      BY <1>2 DEF Placed
    <3>2. Sent[1] \in {8, 15, 69, 70}
      BY <1>2, <3>1
    <3> QED
      BY <1>2, <1>5, <3>2
  <2> QED
    BY <1>1, <1>5, <1>6, <1>7, <2>1, <2>2 DEF Verdict
<1>16. Outcome'
  BY <1>1, <1>7 DEF PromptInv, Outcome
<1> QED
  BY <1>10, <1>11, <1>12, <1>13, <1>14, <1>15, <1>16 DEF PromptInv

(* A byte before the last.                                                   *)
LEMMA SendMore ==
  ASSUME StepInv, XInv, SendByte, Prompt, Len(Head(ops).bytes) # 1, NEW a, With(a), Kind(a) = "sending",
         a.bytes = Tail(Head(ops).bytes), First \notin {"asking", "versioning"}
  PROVE  PromptInv'
<1>1. PromptInv /\ Arranged(KindsOf(ops)) /\ UNCHANGED <<status, track, req, head, answer, env>>
  BY DEF XInv, SendByte
<1>2. /\ env.answers /\ fdc.phase = "command" /\ fdc.goal = -1 /\ First \in SendKindsAre \cup {"sending"} /\ Placed
      /\ Second = "waitSense" <=> Sent[1] \in {7, 15}
      /\ Second = "wait" <=> Sent[1] \in {69, 70}
      /\ Sent[1] \in {69, 70} => Sent = ThisTransfer
      /\ First = "asking" <=> Sent[1] = 8
      /\ "judge" \in Rest => /\ Sent[1] \in {8, 15, 69, 70}
                             /\ IF Sent[1] = 15 THEN Sent = <<15, 0, Cyl>> ELSE head = Cyl
  BY <1>1, SendAims
<1>3. fdc'.goal = -1 /\ fdc'.phase = "command" /\ fdc'.bytes \o Tail(Head(ops).bytes) = Sent
  BY <1>1, <1>2, SendIs
<1>4. "sense0" \notin Rest /\ "drain" \notin Rest
  BY <1>2, SendNext
<1>5. Cyl' = Cyl /\ ThisTransfer' = ThisTransfer
  BY <1>1, CylKept
<1>6. /\ All' = {"sending"} \cup Rest /\ First' = "sending" /\ Second' = Second
      /\ ToSet(ops)' = {a} \cup Later /\ Later \subseteq ToSet(ops) /\ Head(ops)' = a
      /\ All = {First} \cup Rest
      /\ First \notin {"waitSense", "sense0", "getTrack0", "alloc", "reset", "drain", "try", "judge",
                        "read", "write", "next"}
  BY <1>2 DEF With, Placed, SendKindsAre
<1>7. Sent' = Sent
  BY <1>3, <1>6 DEF Sent
<1>8. Gates' /\ ~(fdc'.goal >= 0)
  BY <1>3, <1>6 DEF Gates
<1>9. Sensed'
  BY <1>4, <1>6 DEF Sensed
<1>10. Tracked'
  BY <1>1, <1>6 DEF PromptInv, Tracked
<1>11. Messages'
  <2>1. \A o \in ToSet(ops)' : Kind(o) = "transferring" => o.bytes = ThisTransfer'
    BY <1>1, <1>5, <1>6 DEF PromptInv, Messages
  <2>2. \A o \in ToSet(ops)' : Kind(o) = "drain" => o.arg = 0
    BY <1>1, <1>6 DEF PromptInv, Messages
  <2> QED
    BY <1>2, <1>5, <1>6, <1>7, <2>1, <2>2 DEF Messages
<1>12. Aim'
  BY <1>1, <1>2, <1>5, <1>6, <1>7, <1>8 DEF Aim
<1>13. Verdict'
  BY <1>6 DEF Verdict
<1>14. Outcome'
  BY <1>1, <1>6 DEF PromptInv, Outcome
<1> QED
  BY <1>8, <1>9, <1>10, <1>11, <1>12, <1>13, <1>14 DEF PromptInv

LEMMA SendByteX ==
  ASSUME StepInv, XInv, SendByte
  PROVE  Arranged(KindsOf(ops))' /\ OnDisk' /\ (Prompt => PromptInv')
<1>1. Arranged(KindsOf(ops)) /\ ops # <<>> /\ Head(ops).op = "send" /\ UNCHANGED req
  BY DEF XInv, SendByte, Doing
<1>2. Placed /\ First \in SendKindsAre \cup {"sending"}
  BY <1>1, Order, SendKinds
<1>3. CASE Len(Head(ops).bytes) = 1
  <2>1. Onward
    BY <1>1, <1>3, SendOn
  <2>2. OnDisk'
    BY <1>1, <1>2, <2>1 DEF XInv, OnDisk, Onward, Placed
  <2>3. Prompt => PromptInv'
    BY <1>3, <2>1, SendLast
  <2> QED
    BY <2>1, <2>2, <2>3 DEF Onward
<1>4. CASE Len(Head(ops).bytes) # 1
  <2>1. PICK a \in Operations : With(a) /\ Kind(a) = "sending" /\ a.bytes = Tail(Head(ops).bytes)
    BY <1>1, <1>4, SendOn
  <2>2. First \notin {"asking", "versioning"}
    BY <1>1, <1>4, SendOn
  <2>3. OnDisk'
    BY <1>1, <1>2, <2>1 DEF XInv, OnDisk, With, Placed
  <2>4. Prompt => PromptInv'
    BY <1>4, <2>1, <2>2, SendMore
  <2> QED
    BY <2>1, <2>3, <2>4 DEF With
<1> QED
  BY <1>3, <1>4

-----------------------------------------------------------------------------
(* The operations that are made of others.                                   *)

(* The operations that others are made of.                                   *)
LEMMA OpIs ==
  ASSUME NEW name \in OpNames \ {"send"}, NEW a \in Nat
  PROVE  /\ Op(name, a) \in Operations /\ Op(name, a).arg = a
         /\ Kind(Op(name, a)) = CASE name = "wait" -> (IF a = 1 THEN "waitSense" ELSE "wait")
                                  [] name = "sense" -> (IF a = 0 THEN "sense0" ELSE "sense")
                                  [] name = "getTrack" -> (IF a = 0 THEN "getTrack0" ELSE "getTrack")
                                  [] OTHER -> name
<1>1. Op(name, a) = [op |-> name, arg |-> a, bytes |-> <<>>]
  BY DEF Op
<1>2. Op(name, a) \in Operations
  BY <1>1 DEF Operations
<1>3. Op(name, a).op = name /\ Op(name, a).arg = a
  BY <1>1
<1> QED
  BY <1>2, <1>3 DEF Kind

LEMMA Names ==
  /\ \A name \in {"clear", "dor", "waitint", "drain", "getSr0", "seek", "start", "judge"} : \A a \in Nat :
       Op(name, a) \in Operations /\ Kind(Op(name, a)) = name /\ Op(name, a).arg = a
  /\ \A a \in Nat : Op("wait", a) \in Operations /\ Kind(Op("wait", a)) = IF a = 1 THEN "waitSense" ELSE "wait"
  /\ \A a \in Nat : Op("sense", a) \in Operations /\ Kind(Op("sense", a)) = IF a = 0 THEN "sense0" ELSE "sense"
  /\ \A a \in Nat : Op("getTrack", a) \in Operations
                    /\ Kind(Op("getTrack", a)) = IF a = 0 THEN "getTrack0" ELSE "getTrack"
<1>1. {"clear", "dor", "waitint", "drain", "getSr0", "seek", "start", "judge", "wait", "sense", "getTrack"}
        \subseteq OpNames \ {"send"}
  BY DEF OpNames, Compound
<1> QED
  BY <1>1, OpIs

LEMMA SendOpIs ==
  ASSUME NEW c \in Seq(Bytes8), Send(c) \in Fresh
  PROVE  Send(c) \in Operations /\ Kind(Send(c)) = SendKind(c[1]) /\ Send(c).bytes = c
BY DEF Send, Fresh, Kind

LEMMA CommandKinds ==
  /\ Send(<<8>>) \in Operations /\ Kind(Send(<<8>>)) = "asking"
  /\ Send(<<16>>) \in Operations /\ Kind(Send(<<16>>)) = "versioning"
  /\ Send(<<7, 0>>) \in Operations /\ Kind(Send(<<7, 0>>)) = "calibrating"
  /\ Specify \in Operations /\ Kind(Specify) = "setting"
  /\ Configure \in Operations /\ Kind(Configure) = "setting"
  /\ \A c \in Bytes8 : /\ Send(<<15, 0, c>>) \in Operations /\ Kind(Send(<<15, 0, c>>)) = "seeking"
                       /\ Send(<<15, 0, c>>).bytes = <<15, 0, c>>
<1>1. /\ Send(<<8>>) \in Operations /\ Send(<<16>>) \in Operations /\ Send(<<7, 0>>) \in Operations
      /\ Specify \in Operations /\ Configure \in Operations
      /\ \A c \in Bytes8 : Send(<<15, 0, c>>) \in Operations
  BY Commands DEF Fresh
<1>2. \A c : Kind(Send(c)) = SendKind(c[1]) /\ Send(c).bytes = c
  BY DEF Send, Kind
<1>3. /\ SendKind(3) = "setting" /\ SendKind(19) = "setting" /\ SendKind(7) = "calibrating" /\ SendKind(8) = "asking"
      /\ SendKind(15) = "seeking" /\ SendKind(16) = "versioning"
  BY DEF SendKind
<1>4. /\ <<8>>[1] = 8 /\ <<16>>[1] = 16 /\ <<7, 0>>[1] = 7 /\ <<3, 133, 10>>[1] = 3 /\ <<19, 0, 23, 0>>[1] = 19
      /\ \A c : <<15, 0, c>>[1] = 15
  OBVIOUS
<1>5. Kind(Send(<<8>>)) = "asking" /\ Kind(Send(<<16>>)) = "versioning" /\ Kind(Send(<<7, 0>>)) = "calibrating"
  BY <1>2, <1>3, <1>4
<1>6. Kind(Specify) = "setting" /\ Kind(Configure) = "setting"
  BY <1>2, <1>3, <1>4 DEF Specify, Configure
<1>7. \A c : Kind(Send(<<15, 0, c>>)) = "seeking" /\ Send(<<15, 0, c>>).bytes = <<15, 0, c>>
  BY <1>2, <1>3, <1>4
<1> QED
  BY <1>1, <1>5, <1>6, <1>7

(* The first operation replaced by its parts.                                *)
Unfolded(parts, kinds, a) ==
  /\ Arranged(KindsOf(ops))'
  /\ ToSet(ops)' = parts \cup Later /\ Later \subseteq ToSet(ops)
  /\ All' = kinds \cup Rest /\ First' = Kind(a) /\ Head(ops)' = a

LEMMA Unfolds ==
  ASSUME StepInv, Arranged(KindsOf(ops)), ops # <<>>, NEW w \in Seq(Operations), w # <<>>,
         NEW k, KindsOf(w) = k, Replaces(k, First), ops' = w \o Tail(ops)
  PROVE  Unfolded(ToSet(w), KindsIn(ToSet(w)), w[1])
<1>1. ops \in Seq(Operations) /\ First = Kind(Head(ops))
  BY Order DEF Placed
<1>2. Replaces(KindsOf(w), Kind(Head(ops)))
  BY <1>1
<1>3. /\ Arranged(KindsOf(ops))'
      /\ ToSet(ops)' = ToSet(w) \cup Later /\ Later \subseteq ToSet(ops)
      /\ All' = KindsIn(ToSet(w)) \cup Rest
      /\ w # <<>> => ops' # <<>> /\ Head(ops)' = w[1] /\ First' = Kind(w[1])
  BY <1>1, <1>2, Replaced
<1> QED
  BY <1>3 DEF Unfolded

LEMMA EndToEndFour ==
  ASSUME NEW a, NEW b, NEW c, NEW d, NEW e
  PROVE  <<a, b, c>> \o <<d>> \o <<e>> = <<a, b, c, d, e>> /\ <<a, b, c>> \o <<>> \o <<e>> = <<a, b, c, e>>
<1> DEFINE S == {a, b, c, d, e}
           sabc == <<a, b, c>>
           sd == <<d>>
           se == <<e>>
           sabcd == <<a, b, c, d>>
           sabcde == <<a, b, c, d, e>>
           sabce == <<a, b, c, e>>
<1>1. /\ sabc \in Seq(S) /\ sd \in Seq(S) /\ se \in Seq(S) /\ sabcd \in Seq(S) /\ sabcde \in Seq(S) /\ sabce \in Seq(S)
      /\ Len(sabc) = 3 /\ Len(sd) = 1 /\ Len(se) = 1 /\ Len(sabcd) = 4 /\ Len(sabcde) = 5 /\ Len(sabce) = 4
      /\ sabc[1] = a /\ sabc[2] = b /\ sabc[3] = c /\ sd[1] = d /\ se[1] = e
      /\ sabcd[1] = a /\ sabcd[2] = b /\ sabcd[3] = c /\ sabcd[4] = d
      /\ sabcde[1] = a /\ sabcde[2] = b /\ sabcde[3] = c /\ sabcde[4] = d /\ sabcde[5] = e
      /\ sabce[1] = a /\ sabce[2] = b /\ sabce[3] = c /\ sabce[4] = e
  OBVIOUS
<1>2. sabc \o <<>> = sabc
  OBVIOUS
<1> HIDE DEF S, sabc, sd, se, sabcd, sabcde, sabce
<1>3. sabc \o sd = sabcd
  <2>1. Len(sabcd) = Len(sabc) + Len(sd)
    BY <1>1
  <2>2. \A i \in 1 .. Len(sabc) : sabcd[i] = sabc[i]
    BY <1>1
  <2>3. \A i \in 1 .. Len(sd) : sabcd[Len(sabc) + i] = sd[i]
    BY <1>1
  <2> QED
    BY <1>1, <2>1, <2>2, <2>3, Concat, Zenon
<1>4. sabcd \o se = sabcde
  <2>1. Len(sabcde) = Len(sabcd) + Len(se)
    BY <1>1
  <2>2. \A i \in 1 .. Len(sabcd) : sabcde[i] = sabcd[i]
    BY <1>1
  <2>3. \A i \in 1 .. Len(se) : sabcde[Len(sabcd) + i] = se[i]
    BY <1>1
  <2> QED
    BY <1>1, <2>1, <2>2, <2>3, Concat, Zenon
<1>5. sabc \o se = sabce
  <2>1. Len(sabce) = Len(sabc) + Len(se)
    BY <1>1
  <2>2. \A i \in 1 .. Len(sabc) : sabce[i] = sabc[i]
    BY <1>1
  <2>3. \A i \in 1 .. Len(se) : sabce[Len(sabc) + i] = se[i]
    BY <1>1
  <2> QED
    BY <1>1, <2>1, <2>2, <2>3, Concat, Zenon
<1> QED
  BY <1>2, <1>3, <1>4, <1>5 DEF sabc, sd, se, sabcd, sabcde, sabce

LEMMA WaitIs ==
  /\ \A n : n # 1 => Wait(n) = <<Op("waitint", 0), Op("waitint", 0), Op("drain", 0), Op("clear", 0)>>
  /\ Wait(1) = <<Op("waitint", 0), Op("waitint", 0), Op("drain", 0), Op("sense", 0), Op("clear", 0)>>
<1> DEFINE a == Op("waitint", 0)
           c == Op("drain", 0)
           d == Op("sense", 0)
           e == Op("clear", 0)
<1>1. \A n : Wait(n) = <<a, a, c>> \o (IF n = 1 THEN <<d>> ELSE <<>>) \o <<e>>
  BY DEF Wait
<1> HIDE DEF a, c, d, e
<1>2. <<a, a, c>> \o <<d>> \o <<e>> = <<a, a, c, d, e>> /\ <<a, a, c>> \o <<>> \o <<e>> = <<a, a, c, e>>
  BY EndToEndFour
<1>3. Wait(1) = <<a, a, c, d, e>>
  BY <1>1, <1>2
<1>4. \A n : n # 1 => Wait(n) = <<a, a, c, e>>
  BY <1>1, <1>2
<1> QED
  BY <1>3, <1>4 DEF a, c, d, e

LEMMA OpOfKind ==
  ASSUME NEW o \in Operations
  PROVE  /\ Kind(o) \in {"reset", "version", "select", "calibrate", "seek", "try"} => o.op = Kind(o)
         /\ Kind(o) = "wait" => o.op = "wait" /\ o.arg # 1
         /\ Kind(o) = "waitSense" => o.op = "wait" /\ o.arg = 1
         /\ Kind(o) = "sense" => o.op = "sense" /\ o.arg # 0
         /\ Kind(o) = "sense0" => o.op = "sense" /\ o.arg = 0
<1>1. o.op \in OpNames
  BY DEF Operations
<1> QED
  BY <1>1 DEF Kind, SendKind, OpNames, Compound

LEMMA UnfoldReset ==
  ASSUME StepInv, Arranged(KindsOf(ops)), Expand, First = "reset"
  PROVE  Unfolded({Op("clear", 0), Op("dor", 0), Op("sense", 0), Op("sense", 1),
                    Op("sense", 2), Op("sense", 3), Configure, Specify},
                   {"clear", "dor", "sense0", "sense", "setting"}, Op("clear", 0))
<1> DEFINE a == Op("clear", 0)
           b == Op("dor", 0)
           c == Op("sense", 0)
           d == Op("sense", 1)
           e == Op("sense", 2)
           f == Op("sense", 3)
           g == Op("clear", 0)
           h == Configure
           i == Specify
<1>1. ops # <<>> /\ Head(ops) \in Operations /\ First = Kind(Head(ops)) /\ ops' = Parts(Head(ops)) \o Tail(ops)
  BY Order DEF Expand, Doing, Continue, Placed
<1>2. Head(ops).op = "reset"
  BY <1>1, OpOfKind
<1>3. Parts(Head(ops)) = <<a, b, c, d, e, f, g, h, i>>
  BY <1>2, WaitIs DEF Parts, Sense
<1>4. /\ a \in Operations /\ b \in Operations /\ c \in Operations /\ d \in Operations /\ e \in Operations
      /\ f \in Operations /\ g \in Operations /\ h \in Operations /\ i \in Operations
  BY <1>1, Names, CommandKinds DEF Operations
<1>5. /\ Kind(a) = "clear" /\ Kind(b) = "dor" /\ Kind(c) = "sense0" /\ Kind(d) = "sense"
      /\ Kind(e) = "sense" /\ Kind(f) = "sense" /\ Kind(g) = "clear" /\ Kind(h) = "setting" /\ Kind(i) = "setting"
  BY <1>1, Names, CommandKinds DEF Operations
<1> HIDE DEF a, b, c, d, e, f, g, h, i
<1> DEFINE w == Parts(Head(ops))
<1>6. w = <<a, b, c, d, e, f, g, h, i>>
  BY <1>3
<1> HIDE DEF w
<1>7. /\ w \in Seq(Operations)
      /\ KindsOf(w) = <<Kind(a), Kind(b), Kind(c), Kind(d), Kind(e), Kind(f), Kind(g), Kind(h), Kind(i)>>
      /\ ToSet(w) = {a, b, c, d, e, f, g, h, i}
      /\ KindsIn(ToSet(w)) = {Kind(a), Kind(b), Kind(c), Kind(d), Kind(e), Kind(f), Kind(g), Kind(h), Kind(i)}
      /\ w # <<>> /\ w[1] = a
  <2>1. Len(w) = 9 /\ w \in Seq(Operations) /\ DOMAIN w = 1 .. 9
        /\ w[1] = a /\ w[2] = b /\ w[3] = c /\ w[4] = d /\ w[5] = e /\ w[6] = f /\ w[7] = g /\ w[8] = h
        /\ w[9] = i
    BY <1>4, <1>6
  <2>2. KindsOf(w) = <<Kind(a), Kind(b), Kind(c), Kind(d), Kind(e), Kind(f), Kind(g), Kind(h), Kind(i)>>
    BY <1>6 DEF KindsOf
  <2>3. ToSet(w) = {a, b, c, d, e, f, g, h, i}
    BY <2>1 DEF ToSet
  <2>4. w # <<>>
    <3>1. Len(w) = 9
      BY <2>1
    <3> QED
      BY <3>1
  <2> QED
    BY <2>1, <2>2, <2>3, <2>4 DEF KindsIn
<1>8. /\ KindsOf(w) = <<"clear", "dor", "sense0", "sense", "sense", "sense", "clear", "setting", "setting">>
      /\ KindsIn(ToSet(w)) = {"clear", "dor", "sense0", "sense", "setting"}
  BY <1>5, <1>7
<1>9. Replaces(KindsOf(w), First)
  BY <1>8 DEF Replaces
<1>10. Unfolded(ToSet(w), KindsIn(ToSet(w)), w[1])
  <2> DEFINE k == KindsOf(w)
  <2>1. ops' = w \o Tail(ops) /\ Replaces(k, First)
    BY <1>1, <1>9 DEF w
  <2> HIDE DEF k
  <2> QED
    BY <1>1, <1>7, <2>1, Unfolds DEF k
<1>11. ToSet(w) = {Op("clear", 0), Op("dor", 0), Op("sense", 0), Op("sense", 1),
                   Op("sense", 2), Op("sense", 3), Configure, Specify}
  BY <1>7 DEF a, b, c, d, e, f, g, h, i
<1>12. w[1] = Op("clear", 0)
  BY <1>7 DEF a
<1> QED
  BY <1>8, <1>10, <1>11, <1>12

LEMMA UnfoldVersion ==
  ASSUME StepInv, Arranged(KindsOf(ops)), Expand, First = "version"
  PROVE  Unfolded({Send(<<16>>), Op("getTrack", 1)}, {"versioning", "getTrack"}, Send(<<16>>))
<1> DEFINE a == Send(<<16>>)
           b == Op("getTrack", 1)
<1>1. ops # <<>> /\ Head(ops) \in Operations /\ First = Kind(Head(ops)) /\ ops' = Parts(Head(ops)) \o Tail(ops)
  BY Order DEF Expand, Doing, Continue, Placed
<1>2. Head(ops).op = "version"
  BY <1>1, OpOfKind
<1>3. Parts(Head(ops)) = <<a, b>>
  BY <1>2, WaitIs DEF Parts, Sense
<1>4. a \in Operations /\ b \in Operations
  BY <1>1, Names, CommandKinds DEF Operations
<1>5. Kind(a) = "versioning" /\ Kind(b) = "getTrack"
  BY <1>1, Names, CommandKinds DEF Operations
<1> HIDE DEF a, b
<1> DEFINE w == Parts(Head(ops))
<1>6. w = <<a, b>>
  BY <1>3
<1> HIDE DEF w
<1>7. /\ w \in Seq(Operations) /\ KindsOf(w) = <<Kind(a), Kind(b)>>
      /\ ToSet(w) = {a, b} /\ KindsIn(ToSet(w)) = {Kind(a), Kind(b)}
      /\ w # <<>> /\ w[1] = a
  BY <1>4, <1>6, KindsTwo
<1>8. KindsOf(w) = <<"versioning", "getTrack">> /\ KindsIn(ToSet(w)) = {"versioning", "getTrack"}
  BY <1>5, <1>7
<1>9. Replaces(KindsOf(w), First)
  BY <1>8 DEF Replaces
<1>10. Unfolded(ToSet(w), KindsIn(ToSet(w)), w[1])
  <2> DEFINE k == KindsOf(w)
  <2>1. ops' = w \o Tail(ops) /\ Replaces(k, First)
    BY <1>1, <1>9 DEF w
  <2> HIDE DEF k
  <2> QED
    BY <1>1, <1>7, <2>1, Unfolds DEF k
<1>11. ToSet(w) = {Send(<<16>>), Op("getTrack", 1)}
  BY <1>7 DEF a, b
<1>12. w[1] = Send(<<16>>)
  BY <1>7 DEF a
<1> QED
  BY <1>8, <1>10, <1>11, <1>12

LEMMA UnfoldCalibrate ==
  ASSUME StepInv, Arranged(KindsOf(ops)), Expand, First = "calibrate"
  PROVE  Unfolded({Send(<<7, 0>>), Op("wait", 1)}, {"calibrating", "waitSense"}, Send(<<7, 0>>))
<1> DEFINE a == Send(<<7, 0>>)
           b == Op("wait", 1)
<1>1. ops # <<>> /\ Head(ops) \in Operations /\ First = Kind(Head(ops)) /\ ops' = Parts(Head(ops)) \o Tail(ops)
  BY Order DEF Expand, Doing, Continue, Placed
<1>2. Head(ops).op = "calibrate"
  BY <1>1, OpOfKind
<1>3. Parts(Head(ops)) = <<a, b>>
  BY <1>2, WaitIs DEF Parts, Sense
<1>4. a \in Operations /\ b \in Operations
  BY <1>1, Names, CommandKinds DEF Operations
<1>5. Kind(a) = "calibrating" /\ Kind(b) = "waitSense"
  BY <1>1, Names, CommandKinds DEF Operations
<1> HIDE DEF a, b
<1> DEFINE w == Parts(Head(ops))
<1>6. w = <<a, b>>
  BY <1>3
<1> HIDE DEF w
<1>7. /\ w \in Seq(Operations) /\ KindsOf(w) = <<Kind(a), Kind(b)>>
      /\ ToSet(w) = {a, b} /\ KindsIn(ToSet(w)) = {Kind(a), Kind(b)}
      /\ w # <<>> /\ w[1] = a
  BY <1>4, <1>6, KindsTwo
<1>8. KindsOf(w) = <<"calibrating", "waitSense">> /\ KindsIn(ToSet(w)) = {"calibrating", "waitSense"}
  BY <1>5, <1>7
<1>9. Replaces(KindsOf(w), First)
  BY <1>8 DEF Replaces
<1>10. Unfolded(ToSet(w), KindsIn(ToSet(w)), w[1])
  <2> DEFINE k == KindsOf(w)
  <2>1. ops' = w \o Tail(ops) /\ Replaces(k, First)
    BY <1>1, <1>9 DEF w
  <2> HIDE DEF k
  <2> QED
    BY <1>1, <1>7, <2>1, Unfolds DEF k
<1>11. ToSet(w) = {Send(<<7, 0>>), Op("wait", 1)}
  BY <1>7 DEF a, b
<1>12. w[1] = Send(<<7, 0>>)
  BY <1>7 DEF a
<1> QED
  BY <1>8, <1>10, <1>11, <1>12

LEMMA UnfoldWait ==
  ASSUME StepInv, Arranged(KindsOf(ops)), Expand, First = "wait"
  PROVE  Unfolded({Op("waitint", 0), Op("drain", 0), Op("clear", 0)}, {"waitint", "drain", "clear"}, Op("waitint", 0))
<1> DEFINE a == Op("waitint", 0)
           b == Op("waitint", 0)
           c == Op("drain", 0)
           d == Op("clear", 0)
<1>1. ops # <<>> /\ Head(ops) \in Operations /\ First = Kind(Head(ops)) /\ ops' = Parts(Head(ops)) \o Tail(ops)
  BY Order DEF Expand, Doing, Continue, Placed
<1>2. Head(ops).op = "wait" /\ Head(ops).arg # 1
  BY <1>1, OpOfKind
<1>3. Parts(Head(ops)) = <<a, b, c, d>>
  BY <1>2, WaitIs DEF Parts, Sense
<1>4. a \in Operations /\ b \in Operations /\ c \in Operations /\ d \in Operations
  BY <1>1, Names, CommandKinds DEF Operations
<1>5. Kind(a) = "waitint" /\ Kind(b) = "waitint" /\ Kind(c) = "drain" /\ Kind(d) = "clear"
  BY <1>1, Names, CommandKinds DEF Operations
<1> HIDE DEF a, b, c, d
<1> DEFINE w == Parts(Head(ops))
<1>6. w = <<a, b, c, d>>
  BY <1>3
<1> HIDE DEF w
<1>7. /\ w \in Seq(Operations) /\ KindsOf(w) = <<Kind(a), Kind(b), Kind(c), Kind(d)>>
      /\ ToSet(w) = {a, b, c, d} /\ KindsIn(ToSet(w)) = {Kind(a), Kind(b), Kind(c), Kind(d)}
      /\ w # <<>> /\ w[1] = a
  BY <1>4, <1>6, KindsFour
<1>8. KindsOf(w) = <<"waitint", "waitint", "drain", "clear">> /\ KindsIn(ToSet(w)) = {"waitint", "drain", "clear"}
  BY <1>5, <1>7
<1>9. Replaces(KindsOf(w), First)
  BY <1>8 DEF Replaces
<1>10. Unfolded(ToSet(w), KindsIn(ToSet(w)), w[1])
  <2> DEFINE k == KindsOf(w)
  <2>1. ops' = w \o Tail(ops) /\ Replaces(k, First)
    BY <1>1, <1>9 DEF w
  <2> HIDE DEF k
  <2> QED
    BY <1>1, <1>7, <2>1, Unfolds DEF k
<1>11. ToSet(w) = {Op("waitint", 0), Op("drain", 0), Op("clear", 0)}
  BY <1>7 DEF a, b, c, d
<1>12. w[1] = Op("waitint", 0)
  BY <1>7 DEF a
<1> QED
  BY <1>8, <1>10, <1>11, <1>12

LEMMA UnfoldWaitSense ==
  ASSUME StepInv, Arranged(KindsOf(ops)), Expand, First = "waitSense"
  PROVE  Unfolded({Op("waitint", 0), Op("drain", 0), Op("sense", 0), Op("clear", 0)},
                 {"waitint", "drain", "sense0", "clear"}, Op("waitint", 0))
<1> DEFINE a == Op("waitint", 0)
           b == Op("waitint", 0)
           c == Op("drain", 0)
           d == Op("sense", 0)
           e == Op("clear", 0)
<1>1. ops # <<>> /\ Head(ops) \in Operations /\ First = Kind(Head(ops)) /\ ops' = Parts(Head(ops)) \o Tail(ops)
  BY Order DEF Expand, Doing, Continue, Placed
<1>2. Head(ops).op = "wait" /\ Head(ops).arg = 1
  BY <1>1, OpOfKind
<1>3. Parts(Head(ops)) = <<a, b, c, d, e>>
  BY <1>2, WaitIs DEF Parts, Sense
<1>4. a \in Operations /\ b \in Operations /\ c \in Operations /\ d \in Operations /\ e \in Operations
  BY <1>1, Names, CommandKinds DEF Operations
<1>5. Kind(a) = "waitint" /\ Kind(b) = "waitint" /\ Kind(c) = "drain" /\ Kind(d) = "sense0" /\ Kind(e) = "clear"
  BY <1>1, Names, CommandKinds DEF Operations
<1> HIDE DEF a, b, c, d, e
<1> DEFINE w == Parts(Head(ops))
<1>6. w = <<a, b, c, d, e>>
  BY <1>3
<1> HIDE DEF w
<1>7. /\ w \in Seq(Operations) /\ KindsOf(w) = <<Kind(a), Kind(b), Kind(c), Kind(d), Kind(e)>>
      /\ ToSet(w) = {a, b, c, d, e} /\ KindsIn(ToSet(w)) = {Kind(a), Kind(b), Kind(c), Kind(d), Kind(e)}
      /\ w # <<>> /\ w[1] = a
  BY <1>4, <1>6, KindsFive
<1>8. /\ KindsOf(w) = <<"waitint", "waitint", "drain", "sense0", "clear">>
      /\ KindsIn(ToSet(w)) = {"waitint", "drain", "sense0", "clear"}
  BY <1>5, <1>7
<1>9. Replaces(KindsOf(w), First)
  BY <1>8 DEF Replaces
<1>10. Unfolded(ToSet(w), KindsIn(ToSet(w)), w[1])
  <2> DEFINE k == KindsOf(w)
  <2>1. ops' = w \o Tail(ops) /\ Replaces(k, First)
    BY <1>1, <1>9 DEF w
  <2> HIDE DEF k
  <2> QED
    BY <1>1, <1>7, <2>1, Unfolds DEF k
<1>11. ToSet(w) = {Op("waitint", 0), Op("drain", 0), Op("sense", 0), Op("clear", 0)}
  BY <1>7 DEF a, b, c, d, e
<1>12. w[1] = Op("waitint", 0)
  BY <1>7 DEF a
<1> QED
  BY <1>8, <1>10, <1>11, <1>12

LEMMA UnfoldSense0 ==
  ASSUME StepInv, Arranged(KindsOf(ops)), Expand, First = "sense0"
  PROVE  Unfolded({Send(<<8>>), Op("getSr0", 0), Op("getTrack", 0)}, {"asking", "getSr0", "getTrack0"}, Send(<<8>>))
<1> DEFINE a == Send(<<8>>)
           b == Op("getSr0", 0)
           c == Op("getTrack", 0)
<1>1. ops # <<>> /\ Head(ops) \in Operations /\ First = Kind(Head(ops)) /\ ops' = Parts(Head(ops)) \o Tail(ops)
  BY Order DEF Expand, Doing, Continue, Placed
<1>2. Head(ops).op = "sense" /\ Head(ops).arg = 0
  BY <1>1, OpOfKind
<1>3. Parts(Head(ops)) = <<a, b, c>>
  BY <1>2, WaitIs DEF Parts, Sense
<1>4. a \in Operations /\ b \in Operations /\ c \in Operations
  BY <1>1, Names, CommandKinds DEF Operations
<1>5. Kind(a) = "asking" /\ Kind(b) = "getSr0" /\ Kind(c) = "getTrack0"
  BY <1>1, Names, CommandKinds DEF Operations
<1> HIDE DEF a, b, c
<1> DEFINE w == Parts(Head(ops))
<1>6. w = <<a, b, c>>
  BY <1>3
<1> HIDE DEF w
<1>7. /\ w \in Seq(Operations) /\ KindsOf(w) = <<Kind(a), Kind(b), Kind(c)>>
      /\ ToSet(w) = {a, b, c} /\ KindsIn(ToSet(w)) = {Kind(a), Kind(b), Kind(c)}
      /\ w # <<>> /\ w[1] = a
  BY <1>4, <1>6, KindsThree
<1>8. KindsOf(w) = <<"asking", "getSr0", "getTrack0">> /\ KindsIn(ToSet(w)) = {"asking", "getSr0", "getTrack0"}
  BY <1>5, <1>7
<1>9. Replaces(KindsOf(w), First)
  BY <1>8 DEF Replaces
<1>10. Unfolded(ToSet(w), KindsIn(ToSet(w)), w[1])
  <2> DEFINE k == KindsOf(w)
  <2>1. ops' = w \o Tail(ops) /\ Replaces(k, First)
    BY <1>1, <1>9 DEF w
  <2> HIDE DEF k
  <2> QED
    BY <1>1, <1>7, <2>1, Unfolds DEF k
<1>11. ToSet(w) = {Send(<<8>>), Op("getSr0", 0), Op("getTrack", 0)}
  BY <1>7 DEF a, b, c
<1>12. w[1] = Send(<<8>>)
  BY <1>7 DEF a
<1> QED
  BY <1>8, <1>10, <1>11, <1>12

LEMMA UnfoldSense ==
  ASSUME StepInv, Arranged(KindsOf(ops)), Expand, First = "sense"
  PROVE  Unfolded({Send(<<8>>), Op("getSr0", 0), Op("getTrack", Head(ops).arg)},
                  {"asking", "getSr0", "getTrack"}, Send(<<8>>))
<1> DEFINE a == Send(<<8>>)
           b == Op("getSr0", 0)
           c == Op("getTrack", Head(ops).arg)
<1>1. ops # <<>> /\ Head(ops) \in Operations /\ First = Kind(Head(ops)) /\ ops' = Parts(Head(ops)) \o Tail(ops)
  BY Order DEF Expand, Doing, Continue, Placed
<1>2. Head(ops).op = "sense" /\ Head(ops).arg # 0
  BY <1>1, OpOfKind
<1>3. Parts(Head(ops)) = <<a, b, c>>
  BY <1>2, WaitIs DEF Parts, Sense
<1>4. a \in Operations /\ b \in Operations /\ c \in Operations
  BY <1>1, Names, CommandKinds DEF Operations
<1>5. Kind(a) = "asking" /\ Kind(b) = "getSr0" /\ Kind(c) = "getTrack"
  BY <1>1, <1>2, Names, CommandKinds DEF Operations
<1> HIDE DEF a, b, c
<1> DEFINE w == Parts(Head(ops))
<1>6. w = <<a, b, c>>
  BY <1>3
<1> HIDE DEF w
<1>7. /\ w \in Seq(Operations) /\ KindsOf(w) = <<Kind(a), Kind(b), Kind(c)>>
      /\ ToSet(w) = {a, b, c} /\ KindsIn(ToSet(w)) = {Kind(a), Kind(b), Kind(c)}
      /\ w # <<>> /\ w[1] = a
  BY <1>4, <1>6, KindsThree
<1>8. KindsOf(w) = <<"asking", "getSr0", "getTrack">> /\ KindsIn(ToSet(w)) = {"asking", "getSr0", "getTrack"}
  BY <1>5, <1>7
<1>9. Replaces(KindsOf(w), First)
  BY <1>8 DEF Replaces
<1>10. Unfolded(ToSet(w), KindsIn(ToSet(w)), w[1])
  <2> DEFINE k == KindsOf(w)
  <2>1. ops' = w \o Tail(ops) /\ Replaces(k, First)
    BY <1>1, <1>9 DEF w
  <2> HIDE DEF k
  <2> QED
    BY <1>1, <1>7, <2>1, Unfolds DEF k
<1>11. ToSet(w) = {Send(<<8>>), Op("getSr0", 0), Op("getTrack", Head(ops).arg)}
  BY <1>7 DEF a, b, c
<1>12. w[1] = Send(<<8>>)
  BY <1>7 DEF a
<1> QED
  BY <1>8, <1>10, <1>11, <1>12

LEMMA UnfoldSelect ==
  ASSUME StepInv, Arranged(KindsOf(ops)), Expand, First = "select"
  PROVE  Unfolded({Specify}, {"setting"}, Specify)
<1>1. ops # <<>> /\ Head(ops) \in Operations /\ First = Kind(Head(ops)) /\ ops' = Parts(Head(ops)) \o Tail(ops)
  BY Order DEF Expand, Doing, Continue, Placed
<1>2. Head(ops).op = "select"
  BY <1>1, OpOfKind
<1>3. Parts(Head(ops)) = <<Specify>>
  BY <1>2 DEF Parts
<1> DEFINE a == Specify
<1>4. a \in Operations /\ Kind(a) = "setting" /\ ops' = <<a>> \o Tail(ops)
  BY <1>1, <1>3, CommandKinds
<1> HIDE DEF a
<1>5. Replaces(<<Kind(a)>>, First)
  BY <1>4 DEF Replaces
<1>6. With(a)
  BY <1>1, <1>4, <1>5, Exchanged
<1>7. Unfolded({a}, {"setting"}, a)
  BY <1>4, <1>6 DEF With, Unfolded
<1> QED
  BY <1>7 DEF a

LEMMA TransferKind ==
  ASSUME StepInv
  PROVE  Send(ThisTransfer) \in Operations /\ Kind(Send(ThisTransfer)) = "transferring"
         /\ Send(ThisTransfer).bytes = ThisTransfer
<1>1. req.lba \in Nat /\ req.write \in BOOLEAN
  BY DEF StepInv, ReqOK, Requests
<1>2. ThisTransfer \in Seq(Bytes8) /\ Send(ThisTransfer) \in Fresh
  BY <1>1, TransferIsFresh DEF ThisTransfer
<1>3. ThisTransfer[1] \in {69, 70}
  BY DEF ThisTransfer, TransferBytes, TransferBytesOf
<1>4. SendKind(69) = "transferring" /\ SendKind(70) = "transferring"
  BY DEF SendKind
<1> QED
  BY <1>2, <1>3, <1>4, SendOpIs

LEMMA UnfoldTry ==
  ASSUME StepInv, Arranged(KindsOf(ops)), Expand, First = "try"
  PROVE  Unfolded({Op("seek", Cyl), Op("start", 0), Send(ThisTransfer), Op("wait", 0), Op("judge", Head(ops).arg)},
                  {"seek", "start", "transferring", "wait", "judge"}, Op("seek", Cyl))
<1> DEFINE a == Op("seek", Cyl)
           b == Op("start", 0)
           c == Send(ThisTransfer)
           d == Op("wait", 0)
           e == Op("judge", Head(ops).arg)
<1>1. ops # <<>> /\ Head(ops) \in Operations /\ First = Kind(Head(ops)) /\ ops' = Parts(Head(ops)) \o Tail(ops)
  BY Order DEF Expand, Doing, Continue, Placed
<1>2. Head(ops).op = "try"
  BY <1>1, OpOfKind
<1>3. Parts(Head(ops)) = <<a, b, c, d, e>>
  BY <1>2 DEF Parts, Cyl, ThisTransfer
<1>4. a \in Operations /\ b \in Operations /\ d \in Operations /\ e \in Operations
      /\ Kind(a) = "seek" /\ Kind(b) = "start" /\ Kind(d) = "wait" /\ Kind(e) = "judge"
  <2>1. Cyl \in Nat /\ Head(ops).arg \in Nat
    <3>1. req.lba \in Nat
      BY DEF StepInv, ReqOK, Requests
    <3> QED
      BY <1>1, <3>1, Cylinder DEF Cyl, Operations
  <2> QED
    BY <2>1, Names
<1>5. c \in Operations /\ Kind(c) = "transferring"
  BY TransferKind
<1> HIDE DEF a, b, c, d, e
<1> DEFINE w == Parts(Head(ops))
<1>6. w = <<a, b, c, d, e>>
  BY <1>3
<1> HIDE DEF w
<1>7. /\ w \in Seq(Operations) /\ KindsOf(w) = <<Kind(a), Kind(b), Kind(c), Kind(d), Kind(e)>>
      /\ ToSet(w) = {a, b, c, d, e} /\ KindsIn(ToSet(w)) = {Kind(a), Kind(b), Kind(c), Kind(d), Kind(e)}
      /\ w # <<>> /\ w[1] = a
  BY <1>4, <1>5, <1>6, KindsFive
<1>8. KindsOf(w) = <<"seek", "start", "transferring", "wait", "judge">>
      /\ KindsIn(ToSet(w)) = {"seek", "start", "transferring", "wait", "judge"}
  BY <1>4, <1>5, <1>7
<1>9. Replaces(KindsOf(w), First)
  BY <1>8 DEF Replaces
<1>10. Unfolded(ToSet(w), KindsIn(ToSet(w)), w[1])
  <2> DEFINE k == KindsOf(w)
  <2>1. ops' = w \o Tail(ops) /\ Replaces(k, First)
    BY <1>1, <1>9 DEF w
  <2> HIDE DEF k
  <2> QED
    BY <1>1, <1>7, <2>1, Unfolds DEF k
<1>11. Unfolded({a, b, c, d, e}, {"seek", "start", "transferring", "wait", "judge"}, a)
  BY <1>7, <1>8, <1>10
<1> QED
  BY <1>11 DEF a, b, c, d, e

LEMMA UnfoldSeek ==
  ASSUME StepInv, Arranged(KindsOf(ops)), Expand, First = "seek"
  PROVE  /\ track = Head(ops).arg => Onward
         /\ track # Head(ops).arg =>
              Unfolded({Send(<<15, 0, Head(ops).arg % 256>>), Op("wait", 1)}, {"seeking", "waitSense"},
                       Send(<<15, 0, Head(ops).arg % 256>>))
<1> DEFINE n == Head(ops).arg
           m == n % 256
           a == Send(<<15, 0, m>>)
           b == Op("wait", 1)
<1>1. ops # <<>> /\ Head(ops) \in Operations /\ First = Kind(Head(ops)) /\ ops' = Parts(Head(ops)) \o Tail(ops)
  BY Order DEF Expand, Doing, Continue, Placed
<1>2. Head(ops).op = "seek" /\ n \in Nat
  BY <1>1, OpOfKind DEF Operations
<1>3. Parts(Head(ops)) = IF track = n THEN <<>> ELSE <<a, b>>
  BY <1>2 DEF Parts, Seek
<1>4. m \in Bytes8
  <2> HIDE DEF n
  <2> QED
    BY <1>2 DEF Bytes8
<1> HIDE DEF n, m
<1>5. a \in Operations /\ b \in Operations /\ Kind(a) = "seeking" /\ Kind(b) = "waitSense"
  BY <1>4, Names, CommandKinds
<1> HIDE DEF a, b
<1>6. CASE track = n
  <2>1. ops' = <<>> \o Tail(ops)
    BY <1>1, <1>3, <1>6
  <2>2. Replaces(<<>>, First)
    BY DEF Replaces
  <2> QED
    BY <1>1, <1>6, <2>1, <2>2, Popped DEF n
<1>7. CASE track # n
  <2> DEFINE w == Parts(Head(ops))
  <2>1. w = <<a, b>>
    BY <1>3, <1>7
  <2> HIDE DEF w
  <2>2. /\ w \in Seq(Operations) /\ KindsOf(w) = <<Kind(a), Kind(b)>>
        /\ ToSet(w) = {a, b} /\ KindsIn(ToSet(w)) = {Kind(a), Kind(b)}
        /\ w # <<>> /\ w[1] = a
    BY <1>5, <2>1, KindsTwo
  <2>3. KindsOf(w) = <<"seeking", "waitSense">> /\ KindsIn(ToSet(w)) = {"seeking", "waitSense"}
    BY <1>5, <2>2
  <2>4. Replaces(KindsOf(w), First)
    BY <2>3 DEF Replaces
  <2>5. Unfolded(ToSet(w), KindsIn(ToSet(w)), w[1])
    <3> DEFINE k == KindsOf(w)
    <3>1. ops' = w \o Tail(ops) /\ Replaces(k, First)
      BY <1>1, <2>4 DEF w
    <3> HIDE DEF k
    <3> QED
      BY <1>1, <2>2, <3>1, Unfolds DEF k
  <2>6. Unfolded({a, b}, {"seeking", "waitSense"}, a)
    BY <2>2, <2>3, <2>5
  <2> QED
    BY <1>7, <2>6 DEF a, b, m, n
<1> QED
  BY <1>6, <1>7

-----------------------------------------------------------------------------
(* Unfolding an operation keeps the driver and the controller together.      *)

LEMMA Still ==
  ASSUME StepInv, XInv, Expand, Prompt
  PROVE  /\ PromptInv /\ Arranged(KindsOf(ops)) /\ ops # <<>> /\ Placed /\ fdc.goal = -1 /\ ~(fdc.goal >= 0)
         /\ fdc.phase \in {"command", "result"}
         /\ UNCHANGED <<status, track, req, fdc, head, answer, env>> /\ Cyl' = Cyl /\ ThisTransfer' = ThisTransfer
<1>1. PICK name \in Compound : Doing(name)
  BY DEF Expand
<1>2. UNCHANGED <<status, track, req, fdc, head, answer, env>>
  BY DEF Expand, machine
<1>3. ops # <<>> /\ fdc.goal = -1 /\ fdc.phase \in {"command", "result"} /\ ~(fdc.goal >= 0)
  BY <1>1, Ready DEF XInv
<1> QED
  BY <1>2, <1>3, CylKept, Order DEF XInv

LEMMA ResetX ==
  ASSUME StepInv, XInv, Expand, First = "reset"
  PROVE  Arranged(KindsOf(ops))' /\ OnDisk' /\ (Prompt => PromptInv')
<1>1. Arranged(KindsOf(ops)) /\ ops # <<>> /\ UNCHANGED req
  BY DEF XInv, Expand, Doing
<1>2. Placed
  BY <1>1, Order
<1>3. /\ Kind(Op("clear", 0)) = "clear"
      /\ Kind(Op("dor", 0)) = "dor"
      /\ Kind(Op("sense", 0)) = "sense0"
      /\ Kind(Op("sense", 1)) = "sense"
      /\ Kind(Op("sense", 2)) = "sense"
      /\ Kind(Op("sense", 3)) = "sense"
      /\ Kind(Configure) = "setting"
      /\ Kind(Specify) = "setting"
  BY Names, CommandKinds
<1>4. Unfolded({Op("clear", 0), Op("dor", 0), Op("sense", 0), Op("sense", 1),
                Op("sense", 2), Op("sense", 3), Configure, Specify},
               {"clear", "dor", "sense0", "sense", "setting"}, Op("clear", 0))
  BY <1>1, UnfoldReset
<1>5. \A x \in Rest : x \notin {"getSr0", "getTrack0", "getTrack", "waitSense", "waitint", "drain", "sense0", "dor",
                            "judge", "start", "transferring"}
  BY <1>2 DEF Placed, MayFollow, MayPrecede, Unfinished, Trying, Seeking, Waiting
<1>6. OnDisk'
  BY <1>1, <1>2, <1>3, <1>4 DEF XInv, OnDisk, Unfolded, Placed
<1>7. ASSUME Prompt PROVE PromptInv'
  <2>1. /\ PromptInv /\ fdc.goal = -1 /\ ~(fdc.goal >= 0) /\ fdc.phase \in {"command", "result"}
        /\ UNCHANGED <<status, track, req, fdc, head, answer, env>> /\ Cyl' = Cyl /\ ThisTransfer' = ThisTransfer
    BY <1>7, Still
  <2>2. Gates'
    BY <1>2, <1>3, <1>4, <1>5, <2>1 DEF Gates, PromptInv, Verdict, Placed, Unfolded
  <2>3. Sensed'
    BY <1>2, <1>3, <1>4, <1>5, <2>1 DEF Sensed, PromptInv, Placed, Unfolded
  <2>4. Tracked'
    BY <1>2, <1>3, <1>4, <1>5, <2>1 DEF Tracked, PromptInv, Placed, Unfolded
  <2>5. Messages'
    BY <1>2, <1>3, <1>4, <1>5, <2>1 DEF Messages, PromptInv, Placed, Unfolded
  <2>6. Aim'
    BY <1>2, <1>3, <1>4, <1>5, <2>1 DEF Aim, PromptInv, Placed, Unfolded
  <2>7. Verdict'
    BY <1>2, <1>3, <1>4, <1>5, <2>1 DEF Gates, Verdict, Judging, Answered, PromptInv, Placed,
       Unfolded
  <2>8. Outcome'
    BY <1>2, <1>3, <1>4, <1>5, <2>1 DEF Outcome, PromptInv, Placed, Unfolded
  <2> QED
    BY <2>2, <2>3, <2>4, <2>5, <2>6, <2>7, <2>8 DEF PromptInv
<1> QED
  BY <1>4, <1>6, <1>7 DEF Unfolded

LEMMA VersionX ==
  ASSUME StepInv, XInv, Expand, First = "version"
  PROVE  Arranged(KindsOf(ops))' /\ OnDisk' /\ (Prompt => PromptInv')
<1>1. Arranged(KindsOf(ops)) /\ ops # <<>> /\ UNCHANGED req
  BY DEF XInv, Expand, Doing
<1>2. Placed
  BY <1>1, Order
<1>3. /\ Kind(Send(<<16>>)) = "versioning"
      /\ Kind(Op("getTrack", 1)) = "getTrack"
  BY Names, CommandKinds
<1>4. Unfolded({Send(<<16>>), Op("getTrack", 1)}, {"versioning", "getTrack"}, Send(<<16>>))
  BY <1>1, UnfoldVersion
<1>5. \A x \in Rest : x \notin {"getSr0", "getTrack0", "getTrack", "waitSense", "waitint", "drain", "sense0", "dor",
                            "judge", "start", "transferring"}
  BY <1>2 DEF Placed, MayFollow, MayPrecede, Unfinished, Trying, Seeking, Waiting
<1>6. OnDisk'
  BY <1>1, <1>2, <1>3, <1>4 DEF XInv, OnDisk, Unfolded, Placed
<1>7. ASSUME Prompt PROVE PromptInv'
  <2>1. /\ PromptInv /\ fdc.goal = -1 /\ ~(fdc.goal >= 0) /\ fdc.phase \in {"command", "result"}
        /\ UNCHANGED <<status, track, req, fdc, head, answer, env>> /\ Cyl' = Cyl /\ ThisTransfer' = ThisTransfer
    BY <1>7, Still
  <2>2. Gates'
    BY <1>2, <1>3, <1>4, <1>5, <2>1 DEF Gates, PromptInv, Verdict, Placed, Unfolded
  <2>3. Sensed'
    BY <1>2, <1>3, <1>4, <1>5, <2>1 DEF Sensed, PromptInv, Placed, Unfolded
  <2>4. Tracked'
    BY <1>2, <1>3, <1>4, <1>5, <2>1 DEF Tracked, PromptInv, Placed, Unfolded
  <2>5. Messages'
    BY <1>2, <1>3, <1>4, <1>5, <2>1 DEF Messages, PromptInv, Placed, Unfolded
  <2>6. Aim'
    BY <1>2, <1>3, <1>4, <1>5, <2>1 DEF Aim, PromptInv, Placed, Unfolded
  <2>7. Verdict'
    BY <1>2, <1>3, <1>4, <1>5, <2>1 DEF Gates, Verdict, Judging, Answered, PromptInv, Placed,
       Unfolded
  <2>8. Outcome'
    BY <1>2, <1>3, <1>4, <1>5, <2>1 DEF Outcome, PromptInv, Placed, Unfolded
  <2> QED
    BY <2>2, <2>3, <2>4, <2>5, <2>6, <2>7, <2>8 DEF PromptInv
<1> QED
  BY <1>4, <1>6, <1>7 DEF Unfolded

LEMMA SelectX ==
  ASSUME StepInv, XInv, Expand, First = "select"
  PROVE  Arranged(KindsOf(ops))' /\ OnDisk' /\ (Prompt => PromptInv')
<1>1. Arranged(KindsOf(ops)) /\ ops # <<>> /\ UNCHANGED req
  BY DEF XInv, Expand, Doing
<1>2. Placed
  BY <1>1, Order
<1>3. /\ Kind(Specify) = "setting"
  BY Names, CommandKinds
<1>4. Unfolded({Specify}, {"setting"}, Specify)
  BY <1>1, UnfoldSelect
<1>5. \A x \in Rest : x \notin {"getSr0", "getTrack0", "getTrack", "waitSense", "waitint", "drain", "sense0", "dor",
                            "judge", "start", "transferring"}
  BY <1>2 DEF Placed, MayFollow, MayPrecede, Unfinished, Trying, Seeking, Waiting
<1>6. OnDisk'
  BY <1>1, <1>2, <1>3, <1>4 DEF XInv, OnDisk, Unfolded, Placed
<1>7. ASSUME Prompt PROVE PromptInv'
  <2>1. /\ PromptInv /\ fdc.goal = -1 /\ ~(fdc.goal >= 0) /\ fdc.phase \in {"command", "result"}
        /\ UNCHANGED <<status, track, req, fdc, head, answer, env>> /\ Cyl' = Cyl /\ ThisTransfer' = ThisTransfer
    BY <1>7, Still
  <2>2. Gates'
    BY <1>2, <1>3, <1>4, <1>5, <2>1 DEF Gates, PromptInv, Verdict, Placed, Unfolded
  <2>3. Sensed'
    BY <1>2, <1>3, <1>4, <1>5, <2>1 DEF Sensed, PromptInv, Placed, Unfolded
  <2>4. Tracked'
    BY <1>2, <1>3, <1>4, <1>5, <2>1 DEF Tracked, PromptInv, Placed, Unfolded
  <2>5. Messages'
    BY <1>2, <1>3, <1>4, <1>5, <2>1 DEF Messages, PromptInv, Placed, Unfolded
  <2>6. Aim'
    BY <1>2, <1>3, <1>4, <1>5, <2>1 DEF Aim, PromptInv, Placed, Unfolded
  <2>7. Verdict'
    BY <1>2, <1>3, <1>4, <1>5, <2>1 DEF Gates, Verdict, Judging, Answered, PromptInv, Placed,
       Unfolded
  <2>8. Outcome'
    BY <1>2, <1>3, <1>4, <1>5, <2>1 DEF Outcome, PromptInv, Placed, Unfolded
  <2> QED
    BY <2>2, <2>3, <2>4, <2>5, <2>6, <2>7, <2>8 DEF PromptInv
<1> QED
  BY <1>4, <1>6, <1>7 DEF Unfolded

LEMMA CalibrateX ==
  ASSUME StepInv, XInv, Expand, First = "calibrate"
  PROVE  Arranged(KindsOf(ops))' /\ OnDisk' /\ (Prompt => PromptInv')
<1>1. Arranged(KindsOf(ops)) /\ ops # <<>> /\ UNCHANGED req
  BY DEF XInv, Expand, Doing
<1>2. Placed
  BY <1>1, Order
<1>3. /\ Kind(Send(<<7, 0>>)) = "calibrating"
      /\ Kind(Op("wait", 1)) = "waitSense"
  BY Names, CommandKinds
<1>4. Unfolded({Send(<<7, 0>>), Op("wait", 1)}, {"calibrating", "waitSense"}, Send(<<7, 0>>))
  BY <1>1, UnfoldCalibrate
<1>5. \A x \in Rest : x \notin {"getSr0", "getTrack0", "getTrack", "waitSense", "waitint", "drain", "sense0", "dor",
                            "judge", "start", "transferring"}
  BY <1>2 DEF Placed, MayFollow, MayPrecede, Unfinished, Trying, Seeking, Waiting
<1>6. OnDisk'
  BY <1>1, <1>2, <1>3, <1>4 DEF XInv, OnDisk, Unfolded, Placed
<1>7. ASSUME Prompt PROVE PromptInv'
  <2>1. /\ PromptInv /\ fdc.goal = -1 /\ ~(fdc.goal >= 0) /\ fdc.phase \in {"command", "result"}
        /\ UNCHANGED <<status, track, req, fdc, head, answer, env>> /\ Cyl' = Cyl /\ ThisTransfer' = ThisTransfer
    BY <1>7, Still
  <2>2. Gates'
    BY <1>2, <1>3, <1>4, <1>5, <2>1 DEF Gates, PromptInv, Verdict, Placed, Unfolded
  <2>3. Sensed'
    BY <1>2, <1>3, <1>4, <1>5, <2>1 DEF Sensed, PromptInv, Placed, Unfolded
  <2>4. Tracked'
    BY <1>2, <1>3, <1>4, <1>5, <2>1 DEF Tracked, PromptInv, Placed, Unfolded
  <2>5. Messages'
    BY <1>2, <1>3, <1>4, <1>5, <2>1 DEF Messages, PromptInv, Placed, Unfolded
  <2>6. Aim'
    BY <1>2, <1>3, <1>4, <1>5, <2>1 DEF Aim, PromptInv, Placed, Unfolded
  <2>7. Verdict'
    BY <1>2, <1>3, <1>4, <1>5, <2>1 DEF Gates, Verdict, Judging, Answered, PromptInv, Placed,
       Unfolded
  <2>8. Outcome'
    BY <1>2, <1>3, <1>4, <1>5, <2>1 DEF Outcome, PromptInv, Placed, Unfolded
  <2> QED
    BY <2>2, <2>3, <2>4, <2>5, <2>6, <2>7, <2>8 DEF PromptInv
<1> QED
  BY <1>4, <1>6, <1>7 DEF Unfolded

LEMMA WaitX ==
  ASSUME StepInv, XInv, Expand, First = "wait"
  PROVE  Arranged(KindsOf(ops))' /\ OnDisk' /\ (Prompt => PromptInv')
<1>1. Arranged(KindsOf(ops)) /\ ops # <<>> /\ UNCHANGED req
  BY DEF XInv, Expand, Doing
<1>2. Placed
  BY <1>1, Order
<1>3. /\ Kind(Op("waitint", 0)) = "waitint"
      /\ Kind(Op("drain", 0)) = "drain" /\ Op("drain", 0).arg = 0
      /\ Kind(Op("clear", 0)) = "clear"
  BY Names, CommandKinds
<1>4. Unfolded({Op("waitint", 0), Op("drain", 0), Op("clear", 0)}, {"waitint", "drain", "clear"}, Op("waitint", 0))
  BY <1>1, UnfoldWait
<1>5. /\ Second = "judge" /\ "judge" \in Rest /\ "start" \notin Rest
      /\ \A x \in Rest : x \notin {"getSr0", "getTrack0", "getTrack", "waitSense", "waitint", "drain", "sense0", "dor"}
  BY <1>2 DEF Placed, MayFollow, MayPrecede, Unfinished, Trying, Seeking, Waiting
<1>6. OnDisk'
  BY <1>1, <1>2, <1>3, <1>4 DEF XInv, OnDisk, Unfolded, Placed
<1>7. ASSUME Prompt PROVE PromptInv'
  <2>1. /\ PromptInv /\ fdc.goal = -1 /\ ~(fdc.goal >= 0) /\ fdc.phase \in {"command", "result"}
        /\ UNCHANGED <<status, track, req, fdc, head, answer, env>> /\ Cyl' = Cyl /\ ThisTransfer' = ThisTransfer
    BY <1>7, Still
  <2>2. Gates'
    BY <1>2, <1>3, <1>4, <1>5, <2>1 DEF Gates, PromptInv, Verdict, Placed, Unfolded
  <2>3. Sensed'
    BY <1>2, <1>3, <1>4, <1>5, <2>1 DEF Sensed, PromptInv, Placed, Unfolded
  <2>4. Tracked'
    BY <1>2, <1>3, <1>4, <1>5, <2>1 DEF Tracked, PromptInv, Placed, Unfolded
  <2>5. Messages'
    BY <1>2, <1>3, <1>4, <1>5, <2>1 DEF Messages, PromptInv, Placed, Unfolded
  <2>6. Aim'
    BY <1>2, <1>3, <1>4, <1>5, <2>1 DEF Aim, PromptInv, Placed, Unfolded
  <2>7. Verdict'
    BY <1>2, <1>3, <1>4, <1>5, <2>1 DEF Gates, Verdict, Judging, Answered, PromptInv, Placed,
       Unfolded
  <2>8. Outcome'
    BY <1>2, <1>3, <1>4, <1>5, <2>1 DEF Outcome, PromptInv, Placed, Unfolded
  <2> QED
    BY <2>2, <2>3, <2>4, <2>5, <2>6, <2>7, <2>8 DEF PromptInv
<1> QED
  BY <1>4, <1>6, <1>7 DEF Unfolded

LEMMA WaitSenseX ==
  ASSUME StepInv, XInv, Expand, First = "waitSense"
  PROVE  Arranged(KindsOf(ops))' /\ OnDisk' /\ (Prompt => PromptInv')
<1>1. Arranged(KindsOf(ops)) /\ ops # <<>> /\ UNCHANGED req
  BY DEF XInv, Expand, Doing
<1>2. Placed
  BY <1>1, Order
<1>3. /\ Kind(Op("waitint", 0)) = "waitint"
      /\ Kind(Op("drain", 0)) = "drain" /\ Op("drain", 0).arg = 0
      /\ Kind(Op("sense", 0)) = "sense0"
      /\ Kind(Op("clear", 0)) = "clear"
  BY Names, CommandKinds
<1>4. Unfolded({Op("waitint", 0), Op("drain", 0), Op("sense", 0), Op("clear", 0)},
              {"waitint", "drain", "sense0", "clear"}, Op("waitint", 0))
  BY <1>1, UnfoldWaitSense
<1>5. /\ "judge" \in Rest => "start" \in Rest
      /\ \A x \in Rest : x \notin {"getSr0", "getTrack0", "getTrack", "waitSense", "waitint", "drain", "sense0", "dor"}
  BY <1>2 DEF Placed, MayFollow, MayPrecede, Unfinished, Trying, Seeking, Waiting
<1>6. OnDisk'
  BY <1>1, <1>2, <1>3, <1>4 DEF XInv, OnDisk, Unfolded, Placed
<1>7. ASSUME Prompt PROVE PromptInv'
  <2>1. /\ PromptInv /\ fdc.goal = -1 /\ ~(fdc.goal >= 0) /\ fdc.phase \in {"command", "result"}
        /\ UNCHANGED <<status, track, req, fdc, head, answer, env>> /\ Cyl' = Cyl /\ ThisTransfer' = ThisTransfer
    BY <1>7, Still
  <2>2. Gates'
    BY <1>2, <1>3, <1>4, <1>5, <2>1 DEF Gates, PromptInv, Verdict, Placed, Unfolded
  <2>3. Sensed'
    BY <1>2, <1>3, <1>4, <1>5, <2>1 DEF Sensed, PromptInv, Placed, Unfolded
  <2>4. Tracked'
    BY <1>2, <1>3, <1>4, <1>5, <2>1 DEF Tracked, PromptInv, Placed, Unfolded
  <2>5. Messages'
    BY <1>2, <1>3, <1>4, <1>5, <2>1 DEF Messages, PromptInv, Placed, Unfolded
  <2>6. Aim'
    BY <1>2, <1>3, <1>4, <1>5, <2>1 DEF Aim, PromptInv, Placed, Unfolded
  <2>7. Verdict'
    BY <1>2, <1>3, <1>4, <1>5, <2>1 DEF Gates, Verdict, Judging, Answered, PromptInv, Placed,
       Unfolded
  <2>8. Outcome'
    BY <1>2, <1>3, <1>4, <1>5, <2>1 DEF Outcome, PromptInv, Placed, Unfolded
  <2> QED
    BY <2>2, <2>3, <2>4, <2>5, <2>6, <2>7, <2>8 DEF PromptInv
<1> QED
  BY <1>4, <1>6, <1>7 DEF Unfolded

LEMMA Sense0X ==
  ASSUME StepInv, XInv, Expand, First = "sense0"
  PROVE  Arranged(KindsOf(ops))' /\ OnDisk' /\ (Prompt => PromptInv')
<1>1. Arranged(KindsOf(ops)) /\ ops # <<>> /\ UNCHANGED req
  BY DEF XInv, Expand, Doing
<1>2. Placed
  BY <1>1, Order
<1>3. /\ Kind(Send(<<8>>)) = "asking"
      /\ Kind(Op("getSr0", 0)) = "getSr0"
      /\ Kind(Op("getTrack", 0)) = "getTrack0"
  BY Names, CommandKinds
<1>4. Unfolded({Send(<<8>>), Op("getSr0", 0), Op("getTrack", 0)}, {"asking", "getSr0", "getTrack0"}, Send(<<8>>))
  BY <1>1, UnfoldSense0
<1>5. \A x \in Rest : x \notin {"getSr0", "getTrack0", "getTrack", "waitSense", "waitint", "drain", "sense0", "dor"}
  BY <1>2 DEF Placed, MayFollow, MayPrecede, Unfinished, Trying, Seeking, Waiting
<1>6. OnDisk'
  BY <1>1, <1>2, <1>3, <1>4 DEF XInv, OnDisk, Unfolded, Placed
<1>7. ASSUME Prompt PROVE PromptInv'
  <2>1. /\ PromptInv /\ fdc.goal = -1 /\ ~(fdc.goal >= 0) /\ fdc.phase \in {"command", "result"}
        /\ UNCHANGED <<status, track, req, fdc, head, answer, env>> /\ Cyl' = Cyl /\ ThisTransfer' = ThisTransfer
    BY <1>7, Still
  <2>2. Gates'
    BY <1>2, <1>3, <1>4, <1>5, <2>1 DEF Gates, PromptInv, Verdict, Placed, Unfolded
  <2>3. Sensed'
    BY <1>2, <1>3, <1>4, <1>5, <2>1 DEF Sensed, PromptInv, Placed, Unfolded
  <2>4. Tracked'
    BY <1>2, <1>3, <1>4, <1>5, <2>1 DEF Tracked, PromptInv, Placed, Unfolded
  <2>5. Messages'
    BY <1>2, <1>3, <1>4, <1>5, <2>1 DEF Messages, PromptInv, Placed, Unfolded
  <2>6. Aim'
    BY <1>2, <1>3, <1>4, <1>5, <2>1 DEF Aim, PromptInv, Placed, Unfolded
  <2>7. Verdict'
    BY <1>2, <1>3, <1>4, <1>5, <2>1 DEF Gates, Verdict, Judging, Answered, PromptInv, Placed,
       Unfolded
  <2>8. Outcome'
    BY <1>2, <1>3, <1>4, <1>5, <2>1 DEF Outcome, PromptInv, Placed, Unfolded
  <2> QED
    BY <2>2, <2>3, <2>4, <2>5, <2>6, <2>7, <2>8 DEF PromptInv
<1> QED
  BY <1>4, <1>6, <1>7 DEF Unfolded

LEMMA SenseIs ==
  ASSUME StepInv, Arranged(KindsOf(ops)), ops # <<>>, First = "sense"
  PROVE  Head(ops).arg \in Nat /\ Head(ops).arg # 0
BY Order, OpOfKind DEF Placed, Operations

LEMMA SenseX ==
  ASSUME StepInv, XInv, Expand, First = "sense"
  PROVE  Arranged(KindsOf(ops))' /\ OnDisk' /\ (Prompt => PromptInv')
<1>1. Arranged(KindsOf(ops)) /\ ops # <<>> /\ UNCHANGED req
  BY DEF XInv, Expand, Doing
<1>2. Placed
  BY <1>1, Order
<1>3. /\ Kind(Send(<<8>>)) = "asking"
      /\ Kind(Op("getSr0", 0)) = "getSr0"
      /\ Kind(Op("getTrack", Head(ops).arg)) = "getTrack"
  BY <1>1, <1>2, SenseIs, Names, CommandKinds
<1>4. Unfolded({Send(<<8>>), Op("getSr0", 0), Op("getTrack", Head(ops).arg)}, {"asking", "getSr0", "getTrack"}, Send(<<8>>))
  BY <1>1, UnfoldSense
<1>5. \A x \in Rest : x \notin {"getSr0", "getTrack0", "getTrack", "waitSense", "waitint", "drain", "sense0", "dor",
                            "judge", "start", "transferring"}
  BY <1>2 DEF Placed, MayFollow, MayPrecede, Unfinished, Trying, Seeking, Waiting
<1>6. OnDisk'
  BY <1>1, <1>2, <1>3, <1>4 DEF XInv, OnDisk, Unfolded, Placed
<1>7. ASSUME Prompt PROVE PromptInv'
  <2>1. /\ PromptInv /\ fdc.goal = -1 /\ ~(fdc.goal >= 0) /\ fdc.phase \in {"command", "result"}
        /\ UNCHANGED <<status, track, req, fdc, head, answer, env>> /\ Cyl' = Cyl /\ ThisTransfer' = ThisTransfer
    BY <1>7, Still
  <2>2. Gates'
    BY <1>2, <1>3, <1>4, <1>5, <2>1 DEF Gates, PromptInv, Verdict, Placed, Unfolded
  <2>3. Sensed'
    BY <1>2, <1>3, <1>4, <1>5, <2>1 DEF Sensed, PromptInv, Placed, Unfolded
  <2>4. Tracked'
    BY <1>2, <1>3, <1>4, <1>5, <2>1 DEF Tracked, PromptInv, Placed, Unfolded
  <2>5. Messages'
    BY <1>2, <1>3, <1>4, <1>5, <2>1 DEF Messages, PromptInv, Placed, Unfolded
  <2>6. Aim'
    BY <1>2, <1>3, <1>4, <1>5, <2>1 DEF Aim, PromptInv, Placed, Unfolded
  <2>7. Verdict'
    BY <1>2, <1>3, <1>4, <1>5, <2>1 DEF Gates, Verdict, Judging, Answered, PromptInv, Placed,
       Unfolded
  <2>8. Outcome'
    BY <1>2, <1>3, <1>4, <1>5, <2>1 DEF Outcome, PromptInv, Placed, Unfolded
  <2> QED
    BY <2>2, <2>3, <2>4, <2>5, <2>6, <2>7, <2>8 DEF PromptInv
<1> QED
  BY <1>4, <1>6, <1>7 DEF Unfolded

LEMMA TryX ==
  ASSUME StepInv, XInv, Expand, First = "try"
  PROVE  Arranged(KindsOf(ops))' /\ OnDisk' /\ (Prompt => PromptInv')
<1>1. Arranged(KindsOf(ops)) /\ ops # <<>> /\ UNCHANGED req
  BY DEF XInv, Expand, Doing
<1>2. Placed
  BY <1>1, Order
<1>3. /\ Kind(Op("seek", Cyl)) = "seek" /\ Op("seek", Cyl).arg = Cyl
      /\ Kind(Op("start", 0)) = "start" /\ Kind(Op("wait", 0)) = "wait" /\ Kind(Op("judge", Head(ops).arg)) = "judge"
      /\ Kind(Send(ThisTransfer)) = "transferring" /\ Send(ThisTransfer).bytes = ThisTransfer
  <2>1. Cyl \in Nat /\ Head(ops).arg \in Nat
    <3>1. req.lba \in Nat
      BY DEF StepInv, ReqOK, Requests
    <3>2. Head(ops) \in Operations
      BY <1>1, Order
    <3> QED
      BY <3>1, <3>2, Cylinder DEF Cyl, Operations
  <2> QED
    BY <2>1, Names, TransferKind
<1>4. Unfolded({Op("seek", Cyl), Op("start", 0), Send(ThisTransfer), Op("wait", 0), Op("judge", Head(ops).arg)},
               {"seek", "start", "transferring", "wait", "judge"}, Op("seek", Cyl))
  BY <1>1, UnfoldTry
<1>5. \A x \in Rest : x \notin {"getSr0", "getTrack0", "getTrack", "waitSense", "waitint", "drain", "sense0", "dor",
                            "judge", "start", "transferring"}
  BY <1>2 DEF Placed, MayFollow, MayPrecede, Unfinished, Trying, Seeking, Waiting
<1>6. OnDisk'
  BY <1>1, <1>2, <1>3, <1>4 DEF XInv, OnDisk, Unfolded, Placed
<1>7. ASSUME Prompt PROVE PromptInv'
  <2>1. /\ PromptInv /\ fdc.goal = -1 /\ ~(fdc.goal >= 0) /\ fdc.phase \in {"command", "result"}
        /\ UNCHANGED <<status, track, req, fdc, head, answer, env>> /\ Cyl' = Cyl /\ ThisTransfer' = ThisTransfer
    BY <1>7, Still
  <2>2. Gates'
    BY <1>2, <1>3, <1>4, <1>5, <2>1 DEF Gates, PromptInv, Verdict, Placed, Unfolded
  <2>3. Sensed'
    BY <1>2, <1>3, <1>4, <1>5, <2>1 DEF Sensed, PromptInv, Placed, Unfolded
  <2>4. Tracked'
    BY <1>2, <1>3, <1>4, <1>5, <2>1 DEF Tracked, PromptInv, Placed, Unfolded
  <2>5. Messages'
    BY <1>2, <1>3, <1>4, <1>5, <2>1 DEF Messages, PromptInv, Placed, Unfolded
  <2>6. Aim'
    BY <1>2, <1>3, <1>4, <1>5, <2>1 DEF Aim, PromptInv, Placed, Unfolded
  <2>7. Verdict'
    BY <1>2, <1>3, <1>4, <1>5, <2>1 DEF Gates, Verdict, Judging, Answered, PromptInv, Placed,
       Unfolded
  <2>8. Outcome'
    BY <1>2, <1>3, <1>4, <1>5, <2>1 DEF Outcome, PromptInv, Placed, Unfolded
  <2> QED
    BY <2>2, <2>3, <2>4, <2>5, <2>6, <2>7, <2>8 DEF PromptInv
<1> QED
  BY <1>4, <1>6, <1>7 DEF Unfolded

LEMMA SeekOutX ==
  ASSUME StepInv, XInv, Expand, First = "seek", track # Head(ops).arg
  PROVE  Arranged(KindsOf(ops))' /\ OnDisk' /\ (Prompt => PromptInv')
<1> DEFINE n == Head(ops).arg
           m == n % 256
           a == Send(<<15, 0, m>>)
           b == Op("wait", 1)
<1>1. Arranged(KindsOf(ops)) /\ ops # <<>> /\ UNCHANGED req
  BY DEF XInv, Expand, Doing
<1>2. Placed
  BY <1>1, Order
<1>0. n \in Nat
  BY <1>1, Order DEF Operations
<1>9. m \in Bytes8
  <2> HIDE DEF n
  <2> QED
    BY <1>0 DEF Bytes8
<1>3. Kind(a) = "seeking" /\ Kind(b) = "waitSense" /\ a.bytes = <<15, 0, m>>
  <2> HIDE DEF m
  <2> QED
    BY <1>9, Names, CommandKinds
<1>4. Unfolded({a, b}, {"seeking", "waitSense"}, a)
  BY <1>1, UnfoldSeek
<1>8. ASSUME "judge" \in Rest, Prompt PROVE m = Cyl
  <2>1. PromptInv
    BY <1>8 DEF XInv
  <2>2. n = Cyl /\ "judge" \in All
    BY <1>2, <1>8, <2>1 DEF Placed, PromptInv, Aim
  <2>3. req.lba \in Nat /\ req.lba < Limit
    BY <2>2 DEF StepInv, ReqOK, Requests, XInv, OnDisk
  <2> QED
    BY <2>2, <2>3, CylOK
<1> HIDE DEF a, b, m, n
<1>5. \A x \in Rest : x \notin {"getSr0", "getTrack0", "getTrack", "waitSense", "waitint", "drain", "sense0", "dor"}
  BY <1>2 DEF Placed, MayFollow, MayPrecede, Unfinished, Trying, Seeking, Waiting
<1>6. OnDisk'
  BY <1>1, <1>2, <1>3, <1>4 DEF XInv, OnDisk, Unfolded, Placed
<1>7. ASSUME Prompt PROVE PromptInv'
  <2>1. /\ PromptInv /\ fdc.goal = -1 /\ ~(fdc.goal >= 0) /\ fdc.phase \in {"command", "result"}
        /\ UNCHANGED <<status, track, req, fdc, head, answer, env>> /\ Cyl' = Cyl /\ ThisTransfer' = ThisTransfer
    BY <1>7, Still
  <2>2. Gates'
    BY <1>2, <1>3, <1>4, <1>5, <2>1 DEF Gates, PromptInv, Verdict, Placed, Unfolded
  <2>3. Sensed'
    BY <1>2, <1>3, <1>4, <1>5, <2>1 DEF Sensed, PromptInv, Placed, Unfolded
  <2>4. Tracked'
    BY <1>2, <1>3, <1>4, <1>5, <2>1 DEF Tracked, PromptInv, Placed, Unfolded
  <2>5. Messages'
    BY <1>2, <1>3, <1>4, <1>5, <2>1 DEF Messages, PromptInv, Placed, Unfolded
  <2>6. Aim'
    BY <1>2, <1>3, <1>4, <1>5, <1>7, <1>8, <2>1 DEF Aim, PromptInv, Placed, Unfolded
  <2>7. Verdict'
    BY <1>2, <1>3, <1>4, <1>5, <2>1 DEF Gates, Verdict, Judging, Answered, PromptInv, Placed,
       Unfolded
  <2>8. Outcome'
    BY <1>2, <1>3, <1>4, <1>5, <2>1 DEF Outcome, PromptInv, Placed, Unfolded
  <2> QED
    BY <2>2, <2>3, <2>4, <2>5, <2>6, <2>7, <2>8 DEF PromptInv
<1> QED
  BY <1>4, <1>6, <1>7 DEF Unfolded

LEMMA SeekSkippedX ==
  ASSUME StepInv, XInv, Expand, First = "seek", track = Head(ops).arg
  PROVE  Arranged(KindsOf(ops))' /\ OnDisk' /\ (Prompt => PromptInv')
<1>1. Arranged(KindsOf(ops)) /\ ops # <<>> /\ UNCHANGED req
  BY DEF XInv, Expand, Doing
<1>2. Placed
  BY <1>1, Order
<1>4. Onward
  BY <1>1, UnfoldSeek
<1>5. /\ \A x \in Rest : x \notin {"getSr0", "getTrack0", "getTrack", "waitSense", "waitint", "drain", "sense0", "dor"}
      /\ Second \notin {"wait", "clear"}
      /\ "judge" \in Rest => "start" \in Rest
  BY <1>2 DEF Placed, MayFollow, MayPrecede, Unfinished, Trying, Seeking, Waiting
<1>6. OnDisk'
  BY <1>1, <1>2, <1>4 DEF XInv, OnDisk, Onward, Placed
<1>7. ASSUME Prompt PROVE PromptInv'
  <2>1. /\ PromptInv /\ fdc.goal = -1 /\ ~(fdc.goal >= 0) /\ fdc.phase \in {"command", "result"}
        /\ UNCHANGED <<status, track, req, fdc, head, answer, env>> /\ Cyl' = Cyl /\ ThisTransfer' = ThisTransfer
    BY <1>7, Still
  <2>2. Gates'
    BY <1>2, <1>4, <1>5, <2>1 DEF Gates, PromptInv, Placed, Onward
  <2>3. Sensed'
    BY <1>2, <1>4, <1>5, <2>1 DEF Sensed, PromptInv, Placed, Onward
  <2>4. Tracked'
    BY <1>2, <1>4, <1>5, <2>1 DEF Tracked, PromptInv, Placed, Onward
  <2>5. Messages'
    BY <1>2, <1>4, <1>5, <2>1 DEF Messages, PromptInv, Placed, Onward
  <2>6. Aim'
    <3>1. track = head
      BY <1>2, <1>5, <2>1 DEF PromptInv, Tracked, Placed
    <3>2. "judge" \in Rest => Head(ops).arg = Cyl
      BY <1>2, <2>1 DEF PromptInv, Aim, Placed
    <3> QED
      BY <1>2, <1>4, <2>1, <3>1, <3>2 DEF Aim, Placed, Onward
  <2>7. Verdict'
    BY <1>2, <1>4, <1>5, <2>1 DEF Verdict, Judging, PromptInv, Placed, Onward
  <2>8. Outcome'
    BY <1>2, <1>4, <1>5, <2>1 DEF Outcome, PromptInv, Placed, Onward
  <2> QED
    BY <2>2, <2>3, <2>4, <2>5, <2>6, <2>7, <2>8 DEF PromptInv
<1> QED
  BY <1>4, <1>6, <1>7 DEF Onward

LEMMA ExpandX ==
  ASSUME StepInv, XInv, Expand
  PROVE  Arranged(KindsOf(ops))' /\ OnDisk' /\ (Prompt => PromptInv')
<1>1. ops # <<>> /\ Head(ops).op \in Compound /\ Arranged(KindsOf(ops))
  BY DEF Expand, Doing, XInv
<1>2. Head(ops) \in Operations /\ First = Kind(Head(ops))
  BY <1>1, Order DEF Placed
<1>3. First \in {"reset", "version", "select", "calibrate", "seek", "try", "wait", "waitSense", "sense", "sense0"}
  BY <1>1, <1>2 DEF Kind, Compound
<1> QED
  BY <1>3, ResetX, VersionX, SelectX, CalibrateX, TryX, SeekOutX, SeekSkippedX, WaitX, WaitSenseX,
     SenseX, Sense0X

-----------------------------------------------------------------------------
(* Every step, of whichever machine, keeps XInv; XInv holds when the driver  *)
(* starts, and tells what a transfer returns.                                *)

LEMMA EnvKept == ASSUME XferNext PROVE env' = env
BY DEF XferNext, XferDriver, Controller, Expand, Present, SendByte, GetSr0, GetTrack, Drain,
   WaitInt, Clear, Alloc,
       ResetPulse, Start, Judge, NextSector, InitCalls, XferCall, SeekDone, ExecDone

LEMMA XInvStep ==
  ASSUME StepInv, XInv, XferNext, \A l \in Lba : l + MaxNum <= Limit
  PROVE  XInv'
<1>1. Arranged(KindsOf(ops))' /\ OnDisk' /\ (Prompt => PromptInv')
  <2>1. ASSUME XferDriver PROVE Arranged(KindsOf(ops))' /\ OnDisk' /\ (Prompt => PromptInv')
    BY <2>1, ExpandX, PresentX, SendByteX, GetSr0X, GetTrackX, DrainX, WaitIntX, ClearX, AllocX,
       ResetPulseX,
       StartX, JudgeX, NextSectorX, InitCallsX DEF XferDriver
  <2>2. ASSUME Controller PROVE Arranged(KindsOf(ops))' /\ OnDisk' /\ (Prompt => PromptInv')
    BY <2>2, SeekDoneX, ExecDoneX DEF Controller
  <2> QED
    BY <2>1, <2>2, XferCallX DEF XferNext
<1>2. Prompt' = Prompt
  BY EnvKept DEF Prompt
<1> QED
  BY <1>1, <1>2 DEF XInv

(* What other machines do is no concern of the driver's.                     *)
LEMMA XInvKept ==
  ASSUME XInv, UNCHANGED <<ops, status, track, req, fdc, head, env, answer>>
  PROVE  XInv'
<1>1. /\ First' = First /\ Second' = Second /\ All' = All /\ Cyl' = Cyl /\ ThisTransfer' = ThisTransfer
      /\ Sent' = Sent /\ Judging' = Judging /\ Answered' = Answered
      /\ Arranged(KindsOf(ops))' = Arranged(KindsOf(ops)) /\ Prompt' = Prompt
  BY DEF First, Second, All, Cyl, ThisTransfer, Sent, Judging, Answered, Arranged, Ordered,
     Followed, Ended,
         SeeksFirst, KindsOf, Prompt
<1>2. OnDisk => OnDisk'
  BY <1>1 DEF OnDisk
<1>3. PromptInv => PromptInv'
  <2> SUFFICES ASSUME PromptInv PROVE PromptInv'
    OBVIOUS
  <2>1. Gates'
    BY <1>1 DEF PromptInv, Gates
  <2>2. Sensed'
    BY <1>1 DEF PromptInv, Sensed
  <2>3. Tracked'
    BY <1>1 DEF PromptInv, Tracked
  <2>4. Messages'
    BY <1>1 DEF PromptInv, Messages
  <2>5. Aim'
    BY <1>1 DEF PromptInv, Aim
  <2>6. Verdict'
    BY <1>1 DEF PromptInv, Verdict
  <2>7. Outcome'
    BY <1>1 DEF PromptInv, Outcome
  <2> QED
    BY <2>1, <2>2, <2>3, <2>4, <2>5, <2>6, <2>7 DEF PromptInv
<1> QED
  BY <1>1, <1>2, <1>3 DEF XInv

LEMMA BootKinds ==
  /\ KindsOf(Booting) = <<"alloc", "reset", "version", "select", "calibrate", "present", "read", "write">>
  /\ KindsIn(ToSet(Booting)) = {"alloc", "reset", "version", "select", "calibrate", "present", "read", "write"}
  /\ Booting # <<>> /\ Kind(Booting[1]) = "alloc"
<1> DEFINE a == Op("alloc", 0)
           b == Op("reset", 0)
           c == Op("version", 0)
           d == Op("select", 0)
           e == Op("calibrate", 0)
           f == Op("present", 0)
           g == Op("read", 0)
           h == Op("write", 1)
           w == Booting
<1>1. /\ Kind(a) = "alloc" /\ Kind(b) = "reset" /\ Kind(c) = "version" /\ Kind(d) = "select"
      /\ Kind(e) = "calibrate" /\ Kind(f) = "present" /\ Kind(g) = "read" /\ Kind(h) = "write"
  BY DEF Op, Kind
<1>2. w = <<a, b, c, d, e, f, g, h>>
  BY DEF Booting
<1> HIDE DEF a, b, c, d, e, f, g, h, w
<1>3. /\ Len(w) = 8 /\ DOMAIN w = 1 .. 8 /\ w[1] = a /\ w[2] = b /\ w[3] = c /\ w[4] = d /\ w[5] = e
      /\ w[6] = f /\ w[7] = g /\ w[8] = h
  BY <1>2
<1>4. ToSet(w) = {a, b, c, d, e, f, g, h}
  BY <1>3 DEF ToSet
<1>5. KindsOf(w) = <<Kind(a), Kind(b), Kind(c), Kind(d), Kind(e), Kind(f), Kind(g), Kind(h)>>
  BY <1>2 DEF KindsOf
<1>6. KindsIn(ToSet(w)) = {Kind(a), Kind(b), Kind(c), Kind(d), Kind(e), Kind(f), Kind(g), Kind(h)}
  BY <1>4 DEF KindsIn
<1>7. w # <<>> /\ Kind(w[1]) = "alloc"
  BY <1>1, <1>2, <1>3
<1> QED
  BY <1>1, <1>5, <1>6, <1>7 DEF w

LEMMA XInvInit ==
  ASSUME MCInit
  PROVE  XInv
<1>1. XferInit(IF job = "transfer" THEN Booting ELSE <<>>) /\ (job # "transfer" => head = 0)
  BY DEF MCInit
<1>2. /\ track = 0 /\ req = [write |-> FALSE, lba |-> 0, num |-> 0, res |-> 0] /\ fdc = Idle0
      /\ ops = IF job = "transfer" THEN Booting ELSE <<>>
  BY <1>1 DEF XferInit
<1>3. req.res = 0 /\ req.write = FALSE /\ req.num = 0
  BY <1>2
<1>4. ~(fdc.goal >= 0) /\ fdc.phase = "command"
  BY <1>2 DEF Idle0
<1>5. CASE ops = <<>>
  <2>1. First = "none" /\ All = {} /\ ToSet(ops) = {} /\ KindsOf(ops) = <<>>
    BY <1>5, KindsEmpty DEF First, All, ToSet
  <2>2. job # "transfer"
    BY <1>2, <1>5, BootKinds
  <2>3. track = head
    BY <1>1, <1>2, <2>2
  <2>4. Arranged(KindsOf(ops))
    BY <2>1 DEF Arranged, Ordered, Followed, Ended, SeeksFirst
  <2>5. Gates /\ Sensed /\ Tracked /\ Messages /\ Aim /\ Verdict
    BY <1>4, <2>1, <2>3 DEF Gates, Sensed, Tracked, Messages, Aim, Verdict, Judging
  <2>6. Outcome /\ OnDisk
    BY <1>3, <2>1 DEF Outcome, OnDisk
  <2> QED
    BY <2>4, <2>5, <2>6 DEF XInv, PromptInv
<1>6. CASE ops # <<>>
  <2>1. /\ First = "alloc"
        /\ All = {"alloc", "reset", "version", "select", "calibrate", "present", "read", "write"}
        /\ KindsOf(ops) = <<"alloc", "reset", "version", "select", "calibrate", "present", "read", "write">>
        /\ \A o \in ToSet(ops) : Kind(o) \in All
    <3>1. ops = Booting
      BY <1>2, <1>6
    <3> QED
      BY <3>1, BootKinds DEF First, All, KindsIn
  <2>4. Arranged(KindsOf(ops))
    <3> DEFINE k == <<"alloc", "reset", "version", "select", "calibrate", "present", "read", "write">>
    <3>1. Ordered(k) /\ SeeksFirst(k)
      BY DEF Ordered, SeeksFirst, MayPrecede
    <3>2. Followed(k)
      BY DEF Followed, MayFollow
    <3>3. Ended(k)
      BY DEF Ended, Unfinished
    <3> QED
      BY <2>1, <3>1, <3>2, <3>3 DEF Arranged
  <2>5. Gates /\ Sensed /\ Tracked /\ Messages /\ Aim /\ Verdict
    BY <1>4, <2>1 DEF Gates, Sensed, Tracked, Messages, Aim, Verdict, Judging
  <2>6. Outcome /\ OnDisk
    BY <1>3, <2>1 DEF Outcome, OnDisk
  <2> QED
    BY <2>4, <2>5, <2>6 DEF XInv, PromptInv
<1> QED
  BY <1>5, <1>6

LEMMA XInvTells ==
  ASSUME StepInv, XInv
  PROVE  OnlyWritesFail
<1>1. req.res = 0 \/ (req.write /\ req.res = -3)
  BY DEF StepInv, ReqOK, Requests
<1>2. ASSUME env.answers, env.prompt, ops = <<>>
      PROVE  req.res = -3 <=> req.write /\ env.protected /\ req.num > 0
  <2>1. All = {} /\ Outcome
    BY <1>2, KindsEmpty DEF All, XInv, Prompt, PromptInv
  <2> QED
    BY <2>1 DEF Outcome
<1>3. ASSUME env.answers, env.prompt, ops # <<>>
      PROVE  /\ Head(ops).op = "start" => head = Chs(req.lba)[1]
             /\ Head(ops).op = "judge" => status = answer
  <2>1. PromptInv /\ Placed /\ Head(ops) \in Operations
    BY <1>3, Order DEF XInv, Prompt
  <2>2. ASSUME Head(ops).op = "start" PROVE head = Chs(req.lba)[1]
    <3>1. First = "start" /\ "judge" \in All
      BY <2>1, <2>2, KindIs DEF Placed
    <3>2. ~(fdc.goal >= 0)
      BY <2>1, <3>1 DEF PromptInv, Gates
    <3> QED
      BY <2>1, <3>1, <3>2 DEF PromptInv, Aim, Cyl
  <2>3. ASSUME Head(ops).op = "judge" PROVE status = answer
    <3>1. First = "judge" /\ Judging
      BY <2>1, <2>3, KindIs DEF Placed, Judging, MayPrecede, Trying, Seeking, Waiting
    <3> QED
      BY <2>1, <3>1 DEF PromptInv, Verdict
  <2> QED
    BY <2>2, <2>3
<1> QED
  BY <1>1, <1>2, <1>3 DEF OnlyWritesFail, PromptJudged

(* A read always reports success, and a transfer returns 0 or, a write only, *)
(* -3.  With a controller that answers in time a write fails exactly when    *)
(* the disk is protected and there is something to write; the heads are over *)
(* the sector's track when its command is sent, and every try is judged by   *)
(* the answer to its own command, however the resets, recalibrations and     *)
(* retries before it went.  For all sectors on tracks that a byte can name,  *)
(* the form in which the driver sends them, and any number of calls.         *)
THEOREM FailuresAreToldOfWrites ==
  ASSUME \A l \in Lba : l + MaxNum <= 256 * 36
  PROVE  MCSpec => []OnlyWritesFail
<1> DEFINE Inv == StepInv /\ XInv
<1>1. MCInit => Inv
  BY StepInvInit, XInvInit
<1>2. Inv /\ [MCNext]_all => Inv'
  <2> SUFFICES ASSUME StepInv, XInv, [MCNext]_all
               PROVE  StepInv' /\ XInv'
    OBVIOUS
  <2>1. StepInv'
    BY StepInvAlways
  <2>2. \A l \in Lba : l + MaxNum <= Limit
    BY DEF Limit
  <2>3. CASE XferJob /\ XferNext
    BY <2>1, <2>2, <2>3, XInvStep
  <2>4. CASE MotorJob /\ Next
    BY <2>1, <2>4, XInvKept DEF MotorJob, xferVars, driver, machine
  <2>5. CASE DmaJob /\ DmaNext
    BY <2>1, <2>5, XInvKept DEF DmaJob, driver, machine
  <2>6. CASE UNCHANGED all
    BY <2>1, <2>6, XInvKept DEF all, xferVars, driver, machine
  <2> QED
    BY <2>3, <2>4, <2>5, <2>6 DEF MCNext
<1>3. Inv => OnlyWritesFail
  BY XInvTells
<1> HIDE DEF Inv
<1> QED
  BY <1>1, <1>2, <1>3, PTL DEF MCSpec

-----------------------------------------------------------------------------
(* The interrupts that the driver has not sensed.  A seek or a recalibration *)
(* adds one, a reset makes them four, and a sense takes one if the command   *)
(* gets through.                                                             *)
Count(b) == IF b THEN 1 ELSE 0
Outstanding == Len(fdc.pending) + Count(fdc.goal >= 0)

(* The senses the driver is about to make.                                   *)
Sensing(n) == Count(Op("sense", n) \in ToSet(ops))
Due ==
  Sensing(0) + Sensing(1) + Sensing(2) + Sensing(3) + Count(First = "waitSense") + Count(First = "asking")

(* The controller is at a transfer the driver has given up, or about to give *)
(* up: what is sent to it is lost.                                           *)
Elsewhere ==
  \/ fdc.phase = "execution"
  \/ /\ fdc.phase = "result"
     /\ ~(First = "getSr0" /\ Len(fdc.result) <= 2)
     /\ ~(First \in {"getTrack0", "getTrack"} /\ Len(fdc.result) <= 1)

(* A seek or a recalibration that is half sent is one the driver will sense. *)
HalfSent ==
  First = "sending" /\ env.answers /\ fdc.phase = "command" /\ Sent[1] \in {7, 15} => Second = "waitSense"

Counted ==
  /\ HalfSent
  /\ Outstanding <= 5
  /\ ~env.answers => fdc.goal = -1 /\ Len(fdc.pending) <= 4
  /\ env.answers => Outstanding <= 1 + Due
  /\ env.answers /\ Elsewhere => Outstanding <= 1
  /\ "dor" \in All => \A n \in {1, 2, 3} : Op("sense", n) \in ToSet(ops)

LEMMA DueIs ==
  /\ Due \in Nat /\ Sensing(0) \in {0, 1} /\ Sensing(1) \in {0, 1} /\ Sensing(2) \in {0, 1} /\ Sensing(3) \in {0, 1}
  /\ Count(First = "waitSense") \in {0, 1} /\ Count(First = "asking") \in {0, 1}
BY DEF Due, Sensing, Count

(* What is put before the other operations leaves them there.                *)
LEMMA Stays ==
  ASSUME StepInv, ops # <<>>, NEW w \in Seq(Operations), Continue(w)
  PROVE  /\ ToSet(ops) = {Head(ops)} \cup Later /\ Later \subseteq ToSet(ops)'
         /\ w = <<>> => ops' = Tail(ops)
         /\ w # <<>> => ops' # <<>> /\ Head(ops') = w[1]
<1> DEFINE t == Tail(ops)
<1>1. /\ ops \in Seq(Operations) /\ t \in Seq(Operations) /\ Len(ops) \in Nat /\ Len(ops) >= 1 /\ Len(t) = Len(ops) - 1
      /\ Head(ops) = ops[1] /\ \A i \in 1 .. Len(t) : t[i] = ops[i + 1]
  BY DEF StepInv
<1>2. ops' = w \o t
  BY DEF Continue
<1>3. /\ Len(w) \in Nat /\ Len(w \o t) = Len(w) + Len(t) /\ w \o t \in Seq(Operations)
      /\ \A i \in 1 .. Len(t) : (w \o t)[Len(w) + i] = t[i]
      /\ \A i \in 1 .. Len(w) : (w \o t)[i] = w[i]
  BY <1>1
<1>4. DOMAIN t = 1 .. Len(t) /\ DOMAIN ops = 1 .. Len(ops) /\ DOMAIN (w \o t) = 1 .. Len(w \o t)
  BY <1>1, <1>3
<1> DEFINE z == w \o t
<1> HIDE DEF t, z
<1>5. Later = {t[i] : i \in 1 .. Len(t)}
  BY <1>4 DEF Later, ToSet, t
<1>6. ToSet(ops) = {ops[i] : i \in 1 .. Len(ops)}
  BY <1>4 DEF ToSet
<1>7. ToSet(ops)' = {z[i] : i \in 1 .. Len(z)}
  BY <1>2, <1>4 DEF ToSet, z
<1>8. ToSet(ops) = {Head(ops)} \cup Later
  <2>1. ASSUME NEW x \in ToSet(ops) PROVE x \in {Head(ops)} \cup Later
    <3>1. PICK i \in 1 .. Len(ops) : x = ops[i]
      BY <1>6
    <3>2. CASE i = 1
      BY <1>1, <3>1, <3>2
    <3>3. CASE i # 1
      <4>1. i - 1 \in 1 .. Len(t) /\ t[i - 1] = ops[(i - 1) + 1] /\ (i - 1) + 1 = i
        BY <1>1, <3>3
      <4> QED
        BY <1>5, <3>1, <4>1
    <3> QED
      BY <3>2, <3>3
  <2>2. Head(ops) \in ToSet(ops)
    BY <1>1, <1>6
  <2>3. ASSUME NEW x \in Later PROVE x \in ToSet(ops)
    <3>1. PICK i \in 1 .. Len(t) : x = t[i]
      BY <1>5
    <3>2. i + 1 \in 1 .. Len(ops) /\ t[i] = ops[i + 1]
      BY <1>1
    <3> QED
      BY <1>6, <3>1, <3>2
  <2> QED
    BY <2>1, <2>2, <2>3
<1>9. ASSUME NEW x \in Later PROVE x \in ToSet(ops)'
  <2>1. PICK i \in 1 .. Len(t) : x = t[i]
    BY <1>5
  <2>2. Len(w) + i \in 1 .. Len(z) /\ z[Len(w) + i] = t[i]
    BY <1>1, <1>3 DEF z
  <2> QED
    BY <1>7, <2>1, <2>2
<1>10. w = <<>> => ops' = Tail(ops)
  BY <1>1, <1>2 DEF t
<1>11. ASSUME w # <<>> PROVE ops' # <<>> /\ Head(ops') = w[1]
  <2>1. Len(w) > 0
    BY <1>11
  <2>2. z \in Seq(Operations) /\ Len(z) > 0 /\ z[1] = w[1]
    BY <1>1, <1>3, <2>1 DEF z
  <2>3. z # <<>> /\ Head(z) = z[1]
    BY <2>2
  <2> QED
    BY <1>2, <2>2, <2>3 DEF z
<1> QED
  BY <1>8, <1>9, <1>10, <1>11

LEMMA OrderHolds == StepInv /\ Arranged(KindsOf(ops)) /\ ops # <<>> => Placed /\ Head(ops) \in Operations
BY Order

LEMMA OrderNext == (StepInv /\ Arranged(KindsOf(ops)) /\ ops # <<>> => Placed /\ Head(ops) \in Operations)'
BY OrderHolds, PTL

(* No operation but those of a reset comes before its pulse.                 *)
LEMMA PulseKept ==
  ASSUME StepInv, StepInv', Arranged(KindsOf(ops)), Arranged(KindsOf(ops))', Counted, ops # <<>>,
         ToSet(ops) = {Head(ops)} \cup Later, Later \subseteq ToSet(ops)',
         ops' = Tail(ops) \/ (ops' # <<>> /\ Head(ops').op \notin {"clear", "dor"})
  PROVE  "dor" \in All' => \A n \in {1, 2, 3} : Op("sense", n) \in ToSet(ops)'
<1> SUFFICES ASSUME "dor" \in All' PROVE \A n \in {1, 2, 3} : Op("sense", n) \in ToSet(ops)'
  OBVIOUS
<1>1. ops' # <<>>
  BY KindsEmpty DEF All
<1>2. Placed' /\ Head(ops') \in Operations
  BY <1>1, OrderNext
<1>3. First' \in {"clear", "dor"}
  BY <1>2 DEF Placed, MayPrecede
<1>4. Head(ops').op \in {"clear", "dor"}
  BY <1>2, <1>3 DEF Placed, Kind, SendKind
<1>5. ops' = Tail(ops)
  BY <1>4
<1>6. "dor" \in Rest
  BY <1>5 DEF All, Rest, Later
<1>7. Placed
  BY Order
<1>8. First = "clear" /\ "dor" \in All
  BY <1>6, <1>7 DEF Placed, MayPrecede
<1>9. \A n \in {1, 2, 3} : Head(ops) # Op("sense", n)
  BY <1>7, <1>8, OpIs DEF Placed, OpNames, Compound
<1> QED
  BY <1>8, <1>9 DEF Counted

LEMMA Within == ASSUME NEW o \in Nat, NEW d \in Nat, NEW e \in Nat, o <= 1 + d, e >= d PROVE o <= 1 + e
OBVIOUS

LEMMA Spare ==
  ASSUME NEW d \in Nat, NEW o \in Nat
  PROVE  (o <= 1 => o <= 1 + d /\ o <= 5) /\ (o = 4 /\ d >= 3 => o <= 1 + d) /\ (o <= 2 /\ d >= 1 => o <= 1 + d)
OBVIOUS

LEMMA Taking ==
  ASSUME NEW o \in Nat, NEW p, NEW d \in Nat, NEW e \in Nat, p = o - 1, o <= 1 + d, o <= 5, e + 1 >= d
  PROVE  p <= 1 + e /\ p <= 5
OBVIOUS

(* An operation that senses nothing leaves the count.                        *)
LEMMA DueKept ==
  ASSUME ops # <<>>, ToSet(ops) = {Head(ops)} \cup Later, Later \subseteq ToSet(ops)',
         First = Kind(Head(ops)), First \notin {"sense0", "sense", "waitSense", "asking"}
  PROVE  Due' >= Due /\ Due \in Nat /\ Due' \in Nat
<1>1. \A n \in {0, 1, 2, 3} : Head(ops) # Op("sense", n)
  BY OpIs DEF OpNames, Compound
<1>2. \A n \in {0, 1, 2, 3} : Op("sense", n) \in ToSet(ops) => Op("sense", n) \in ToSet(ops)'
  BY <1>1
<1>3. Sensing(0)' >= Sensing(0) /\ Sensing(1)' >= Sensing(1) /\ Sensing(2)' >= Sensing(2) /\ Sensing(3)' >= Sensing(3)
  BY <1>2 DEF Sensing, Count
<1>4. Count(First = "waitSense") = 0 /\ Count(First = "asking") = 0
  BY DEF Count
<1>5. Due \in Nat /\ Due' \in Nat
  BY DEF Due, Sensing, Count
<1> QED
  BY <1>3, <1>4, <1>5 DEF Due, Sensing, Count

LEMMA Unbegun ==
  ASSUME StepInv', Arranged(KindsOf(ops))', ~Mid'
  PROVE  HalfSent'
<1>1. ASSUME First' = "sending" PROVE FALSE
  <2>1. ops' # <<>>
    BY <1>1 DEF First
  <2>2. Placed' /\ Head(ops') \in Operations
    BY <2>1, OrderNext
  <2>3. Kind(Head(ops')) = "sending"
    BY <1>1, <2>2 DEF Placed
  <2>4. Head(ops').op = "send" /\ Head(ops').arg # 0
    BY <2>2, <2>3 DEF Kind, SendKind, Operations, OpNames, Compound
  <2>5. Head(ops') \in Fresh \cup Begun
    BY <2>1 DEF StepInv, OpsOK
  <2> QED
    BY <2>1, <2>4, <2>5 DEF Mid, Fresh
<1> QED
  BY <1>1 DEF HalfSent

LEMMA CountedOn ==
  ASSUME StepInv, StepInv', Arranged(KindsOf(ops)), Arranged(KindsOf(ops))', Counted, HalfSent', ops # <<>>,
         ToSet(ops) = {Head(ops)} \cup Later, Later \subseteq ToSet(ops)',
         ops' = Tail(ops) \/ (ops' # <<>> /\ Head(ops').op \notin {"clear", "dor"}),
         First \notin {"sense0", "sense", "waitSense", "asking", "getSr0", "getTrack0", "getTrack"},
         env' = env, fdc'.goal = fdc.goal, fdc'.pending = fdc.pending, fdc'.phase \in {fdc.phase, "command"}
  PROVE  Counted'
<1>1. First = Kind(Head(ops))
  BY Order DEF Placed
<1>2. Due' >= Due /\ Due \in Nat /\ Due' \in Nat
  BY <1>1, DueKept
<1>3. Outstanding' = Outstanding /\ Outstanding \in Nat
  BY DEF Outstanding, Count, StepInv, FdcOK, Controllers
<1>4. Elsewhere' => Elsewhere
  BY DEF Elsewhere
<1>5. "dor" \in All' => \A n \in {1, 2, 3} : Op("sense", n) \in ToSet(ops)'
  BY PulseKept
<1>6. Outstanding' <= 5 /\ (~env'.answers => fdc'.goal = -1 /\ Len(fdc'.pending) <= 4)
  BY <1>3 DEF Counted
<1>7. env'.answers => Outstanding' <= 1 + Due'
  <2> SUFFICES ASSUME env'.answers PROVE Outstanding' <= 1 + Due'
    OBVIOUS
  <2>1. Outstanding <= 1 + Due
    BY DEF Counted
  <2>2. Outstanding <= 1 + Due'
    BY <1>2, <1>3, <2>1, Within
  <2> QED
    BY <1>3, <2>2
<1>8. env'.answers /\ Elsewhere' => Outstanding' <= 1
  BY <1>3, <1>4 DEF Counted
<1> QED
  BY <1>5, <1>6, <1>7, <1>8 DEF Counted

(* What has been counted stays so when nothing is sent, read or reset.       *)
LEMMA Calm ==
  ASSUME StepInv, StepInv', XInv, XInv', Counted, ops # <<>>, Head(ops) \in Operations,
         NEW w \in Seq(Fresh), Continue(w), w = <<>> \/ w[1].op \notin {"clear", "dor"},
         Head(ops).op \notin {"sense", "wait", "send", "getSr0", "getTrack"},
         env' = env, fdc'.goal = fdc.goal, fdc'.pending = fdc.pending, fdc'.phase \in {fdc.phase, "command"}
  PROVE  Counted'
<1>1. w \in Seq(Operations)
  BY DEF Fresh
<1>2. /\ ToSet(ops) = {Head(ops)} \cup Later /\ Later \subseteq ToSet(ops)'
      /\ ops' = Tail(ops) \/ (ops' # <<>> /\ Head(ops').op \notin {"clear", "dor"})
  BY <1>1, Stays
<1>3. Arranged(KindsOf(ops)) /\ Arranged(KindsOf(ops))'
  BY DEF XInv
<1>4. First = Kind(Head(ops))
  BY <1>3, Order DEF Placed
<1>5. First \notin {"sense0", "sense", "waitSense", "asking", "getSr0", "getTrack0", "getTrack"}
  <2>1. Kind(Head(ops)) = Head(ops).op
    BY KindIs
  <2>2. Head(ops).op \in OpNames
    BY DEF Operations
  <2> QED
    BY <1>4, <2>1, <2>2 DEF OpNames, Compound
<1>6. HalfSent'
  BY <1>3, Continued, Unbegun
<1> QED
  BY <1>2, <1>3, <1>5, <1>6, CountedOn

LEMMA CalmSteps ==
  ASSUME StepInv, StepInv', XInv, XInv', Counted, WaitInt \/ Clear \/ Alloc \/ Start
  PROVE  Counted'
<1>1. /\ ops # <<>> /\ Head(ops).op \in {"waitint", "clear", "alloc", "start"} /\ Continue(<<>>)
      /\ env' = env /\ fdc' = fdc
  BY DEF WaitInt, Clear, Alloc, Start, Doing, machine
<1>2. Head(ops) \in Operations
  BY <1>1, HeadOp
<1> QED
  BY <1>1, <1>2, NoMore, Calm

LEMMA PresentC ==
  ASSUME StepInv, StepInv', XInv, XInv', Counted, Present
  PROVE  Counted'
<1>1. ops # <<>> /\ Head(ops).op = "present" /\ env' = env /\ fdc' = fdc
  BY DEF Present, Doing, machine
<1>2. PICK changed \in BOOLEAN : Continue(IF changed THEN <<Op("seek", 79), Op("seek", 0)>> ELSE <<>>)
  BY DEF Present
<1>3. Op("seek", 79) \in Fresh /\ Op("seek", 0) \in Fresh /\ Op("seek", 79).op = "seek"
  <2>1. "seek" \in OpNames \ {"send"}
    BY DEF OpNames, Compound
  <2> QED
    BY <2>1, Plain DEF Op
<1> DEFINE with == IF changed THEN <<Op("seek", 79), Op("seek", 0)>> ELSE <<>>
<1>4. with \in Seq(Fresh) /\ (with = <<>> \/ with[1].op = "seek")
  BY <1>3
<1> HIDE DEF with
<1>5. Head(ops) \in Operations
  BY <1>1, HeadOp
<1> QED
  BY <1>1, <1>2, <1>4, <1>5, Calm DEF with

LEMMA SectorsTry == ASSUME NEW n \in Nat PROVE Sectors(n) = <<>> \/ Sectors(n)[1].op = "try"
BY DEF Sectors, Op

LEMMA RoundsC ==
  ASSUME StepInv, StepInv', XInv, XInv', Counted, NextSector \/ InitCalls
  PROVE  Counted'
<1>1. /\ ops # <<>> /\ Head(ops).op \in {"next", "read", "write"} /\ env' = env /\ fdc' = fdc
      /\ Continue(Sectors(Head(ops).arg)) \/ Continue(Sectors(1))
  BY DEF NextSector, InitCalls, Doing, machine
<1>2. Head(ops) \in Operations /\ Head(ops).arg \in Nat
  BY <1>1, HeadOp
<1>3. PICK n \in Nat : Continue(Sectors(n))
  BY <1>1, <1>2
<1>4. Sectors(n) \in Seq(Fresh) /\ (Sectors(n) = <<>> \/ Sectors(n)[1].op = "try")
  BY SectorsFresh, SectorsTry
<1> QED
  BY <1>1, <1>2, <1>3, <1>4, Calm

LEMMA JudgeC ==
  ASSUME StepInv, StepInv', XInv, XInv', Counted, Judge
  PROVE  Counted'
<1> DEFINE i == Head(ops).arg
           good == Tmout = 0 /\ status[1] \div 64 = 0
           first == <<Op("calibrate", 0)>>
           again == IF i = 1 THEN <<Op("reset", 0), Op("select", 0)>> ELSE <<>>
           retry == IF i < 3 THEN <<Op("try", i + 1)>> ELSE <<>>
           with == IF good THEN <<>> ELSE first \o again \o retry
<1>1. ops # <<>> /\ Head(ops).op = "judge" /\ Continue(with) /\ env' = env /\ fdc' = fdc
  BY DEF Judge, Doing, machine
<1>2. Head(ops) \in Operations /\ i \in Nat
  BY <1>1, HeadOp
<1>3. with \in Seq(Fresh) /\ (with = <<>> \/ with[1].op = "calibrate")
  <2>1. {"calibrate", "reset", "select", "try"} \subseteq OpNames \ {"send"}
    BY DEF OpNames, Compound
  <2>2. Op("calibrate", 0) \in Fresh /\ Op("reset", 0) \in Fresh /\ Op("select", 0) \in Fresh
    BY <2>1, Plain
  <2>3. Op("try", i + 1) \in Fresh
    <3>1. i + 1 \in Nat
      BY <1>2
    <3> HIDE DEF i
    <3> QED
      BY <2>1, <3>1, Plain
  <2>4. again \in Seq(Fresh)
    BY <2>2
  <2>5. retry \in Seq(Fresh)
    BY <2>3
  <2>6. first \in Seq(Fresh) /\ Len(first) = 1 /\ first[1] = Op("calibrate", 0) /\ Op("calibrate", 0).op = "calibrate"
    BY <2>2 DEF Op
  <2> HIDE DEF first, again, retry, good
  <2> DEFINE both == first \o again
  <2>7. both \in Seq(Fresh) /\ Len(both) >= 1 /\ both[1] = first[1]
    BY <2>4, <2>6
  <2> HIDE DEF both
  <2>8. both \o retry \in Seq(Fresh) /\ (both \o retry)[1] = both[1]
    BY <2>5, <2>7
  <2> QED
    BY <2>6, <2>7, <2>8 DEF both
<1> HIDE DEF with
<1> QED
  BY <1>1, <1>2, <1>3, Calm

LEMMA DrainC ==
  ASSUME StepInv, StepInv', XInv, XInv', Counted, Drain
  PROVE  Counted'
<1> DEFINE n == Head(ops).arg
<1>1. ops # <<>> /\ Head(ops).op = "drain" /\ env' = env
  BY DEF Drain, Doing
<1>2. Head(ops) \in Operations /\ n \in Nat
  BY <1>1, HeadOp
<1>3. CASE n < StatusSize /\ RQM
  <2>1. Continue(<<Op("drain", n + 1)>>) /\ Taken
    BY <1>3 DEF Drain
  <2>2. <<Op("drain", n + 1)>> \in Seq(Fresh) /\ <<Op("drain", n + 1)>>[1].op = "drain"
    <3>1. "drain" \in OpNames \ {"send"} /\ n + 1 \in Nat
      BY <1>2 DEF OpNames, Compound
    <3> HIDE DEF n
    <3>2. Op("drain", n + 1) \in Fresh /\ Op("drain", n + 1).op = "drain"
      BY <3>1, Plain DEF Op
    <3> QED
      BY <3>2
  <2>3. fdc'.goal = fdc.goal /\ fdc'.pending = fdc.pending /\ fdc'.phase \in {fdc.phase, "command"}
    BY <2>1, TakenIs
  <2> QED
    BY <1>1, <1>2, <2>1, <2>2, <2>3, Calm
<1>4. CASE ~(n < StatusSize /\ RQM)
  BY <1>1, <1>2, <1>4, NoMore, Calm DEF Drain
<1> QED
  BY <1>3, <1>4

LEMMA ResetPulseC ==
  ASSUME StepInv, StepInv', XInv, XInv', Counted, ResetPulse
  PROVE  Counted'
<1> DEFINE a == Op("waitint", 0)
           w == <<a>>
<1>0. w \in Seq(Fresh)
  <2>1. "waitint" \in OpNames \ {"send"} /\ 0 \in Nat
    BY DEF OpNames, Compound
  <2>2. a \in Fresh
    BY <2>1, Plain
  <2> HIDE DEF a
  <2> QED
    BY <2>2
<1>1. ops # <<>> /\ Head(ops).op = "dor" /\ Continue(w) /\ env' = env
  BY DEF ResetPulse, Doing
<1>2. fdc' = [phase |-> "command", bytes |-> <<>>, result |-> <<>>, goal |-> -1, pending |-> <<192, 193, 194, 195>>]
  BY DEF ResetPulse, Idle0
<1>3. fdc'.phase = "command" /\ fdc'.goal = -1 /\ Len(fdc'.pending) = 4
  BY <1>2
<1>4. w \in Seq(Operations) /\ w # <<>> /\ w[1] = a /\ a.op = "waitint"
  <2>1. a \in Operations /\ a.op = "waitint"
    <3>1. "waitint" \in OpNames \ {"send"} /\ 0 \in Nat
      BY DEF OpNames, Compound
    <3> QED
      BY <3>1, OpIs DEF Op
  <2> HIDE DEF a
  <2> QED
    BY <2>1
<1> HIDE DEF a, w
<1>5. /\ ToSet(ops) = {Head(ops)} \cup Later /\ Later \subseteq ToSet(ops)'
      /\ ops' # <<>> /\ Head(ops').op \notin {"clear", "dor"}
  BY <1>1, <1>4, Stays
<1>6. Arranged(KindsOf(ops)) /\ Arranged(KindsOf(ops))'
  BY DEF XInv
<1>7. Placed /\ Head(ops) \in Operations
  BY <1>1, <1>6, Order
<1>8. "dor" \in All
  BY <1>1, <1>7, KindIs DEF Placed
<1>9. \A n \in {1, 2, 3} : Head(ops) # Op("sense", n)
  BY <1>1 DEF Op
<1>10. \A n \in {1, 2, 3} : Op("sense", n) \in ToSet(ops)'
  BY <1>5, <1>8, <1>9 DEF Counted
<1>11. Sensing(1)' = 1 /\ Sensing(2)' = 1 /\ Sensing(3)' = 1
  BY <1>10 DEF Sensing, Count
<1>12. Sensing(0)' \in {0, 1} /\ Count(First = "waitSense")' \in {0, 1} /\ Count(First = "asking")' \in {0, 1}
  BY DEF Sensing, Count
<1>13. Due' \in Nat /\ Due' >= 3
  BY <1>11, <1>12 DEF Due
<1>14. Outstanding' = 4
  BY <1>3 DEF Outstanding, Count
<1>15. ~Elsewhere'
  BY <1>3 DEF Elsewhere
<1>16. Outstanding' <= 1 + Due'
  <2>1. Outstanding' \in Nat
    BY <1>14
  <2> QED
    BY <1>13, <1>14, <2>1, Spare
<1>17. HalfSent'
  BY <1>0, <1>1, <1>6, Continued, Unbegun
<1> QED
  BY <1>3, <1>10, <1>14, <1>15, <1>16, <1>17 DEF Counted

LEMMA ReadsC ==
  ASSUME StepInv, StepInv', XInv, XInv', Counted, GetSr0 \/ GetTrack
  PROVE  Counted'
<1>1. ops # <<>> /\ Head(ops).op \in {"getSr0", "getTrack"} /\ Continue(<<>>) /\ Taken /\ env' = env
  BY DEF GetSr0, GetTrack, Doing
<1>2. Arranged(KindsOf(ops)) /\ Arranged(KindsOf(ops))'
  BY DEF XInv
<1>3. Placed /\ Head(ops) \in Operations /\ ops' = <<>> \o Tail(ops)
  BY <1>1, <1>2, Order DEF Continue
<1>4. First \in {"getSr0", "getTrack0", "getTrack"}
  BY <1>1, <1>3, KindIs DEF Placed
<1>5. Onward
  BY <1>1, <1>2, <1>3, <1>4, Popped DEF Replaces
<1>6. First = "getSr0" => First' \in {"getTrack0", "getTrack"}
  BY <1>3, <1>4, <1>5 DEF Placed, MayFollow, Unfinished, Onward
<1>7. /\ ToSet(ops) = {Head(ops)} \cup Later /\ Later \subseteq ToSet(ops)' /\ ops' = Tail(ops)
  <2>1. <<>> \in Seq(Operations)
    OBVIOUS
  <2> QED
    BY <1>1, <2>1, Stays
<1>8. Due' >= Due /\ Due \in Nat /\ Due' \in Nat
  BY <1>1, <1>3, <1>4, <1>7, DueKept DEF Placed
<1>9. fdc'.goal = fdc.goal /\ fdc'.pending = fdc.pending
  BY <1>1, TakenIs
<1>10. Outstanding' = Outstanding /\ Outstanding \in Nat
  BY <1>9 DEF Outstanding, Count, StepInv, FdcOK, Controllers
<1>11. ASSUME Elsewhere' PROVE Elsewhere
  <2>1. CASE fdc.phase # "result"
    <3>1. fdc' = fdc
      BY <1>1, <2>1, TakenIs
    <3> QED
      BY <1>11, <2>1, <3>1 DEF Elsewhere
  <2>2. CASE fdc.phase = "result"
    <3>1. Len(fdc.result) \in 1 .. 7 /\ Len(fdc'.result) = Len(fdc.result) - 1
          /\ fdc'.phase = IF Len(fdc.result) = 1 THEN "command" ELSE "result"
      BY <1>1, <2>2, TakenIs
    <3>2. Len(fdc.result) > 1
      BY <1>11, <3>1 DEF Elsewhere
    <3>3. First = "getSr0" => Len(fdc.result) > 2
      BY <1>6, <1>11, <3>1, <3>2 DEF Elsewhere
    <3> QED
      BY <2>2, <3>1, <3>2, <3>3 DEF Elsewhere
  <2> QED
    BY <2>1, <2>2
<1>12. "dor" \in All' => \A n \in {1, 2, 3} : Op("sense", n) \in ToSet(ops)'
  BY <1>1, <1>2, <1>7, PulseKept
<1>13. Outstanding' <= 5 /\ (~env'.answers => fdc'.goal = -1 /\ Len(fdc'.pending) <= 4)
  BY <1>1, <1>9, <1>10 DEF Counted
<1>14. env'.answers => Outstanding' <= 1 + Due'
  <2>1. env.answers => Outstanding <= 1 + Due
    BY DEF Counted
  <2> QED
    BY <1>1, <1>8, <1>10, <2>1, Within
<1>15. env'.answers /\ Elsewhere' => Outstanding' <= 1
  BY <1>1, <1>10, <1>11 DEF Counted
<1>16. HalfSent'
  BY <1>1, <1>2, NoMore, Continued, Unbegun
<1> QED
  BY <1>12, <1>13, <1>14, <1>15, <1>16 DEF Counted

(* A seek that is over is an interrupt to be sensed.                         *)
LEMMA SeekDoneC ==
  ASSUME StepInv, Counted, SeekDone
  PROVE  Counted'
<1>1. /\ fdc' = [phase |-> fdc.phase, bytes |-> fdc.bytes, result |-> fdc.result, goal |-> -1,
                 pending |-> Append(fdc.pending, 32)]
      /\ fdc.pending \in Seq(Bytes8) /\ fdc.goal >= 0
  BY DEF SeekDone, StepInv, FdcOK, Controllers
<1>2. fdc'.phase = fdc.phase /\ fdc'.result = fdc.result /\ fdc'.goal = -1 /\ Len(fdc'.pending) = Len(fdc.pending) + 1
      /\ Len(fdc.pending) \in Nat
  BY <1>1
<1>3. ops' = ops /\ env' = env
  BY DEF SeekDone
<1>4. Due' = Due /\ All' = All /\ ToSet(ops)' = ToSet(ops) /\ First' = First
  BY <1>3 DEF Due, Sensing, All, First
<1>5. Elsewhere' = Elsewhere
  BY <1>2, <1>4 DEF Elsewhere
<1>6. Outstanding' = Outstanding
  <2>1. Count(fdc.goal >= 0) = 1 /\ Count(fdc'.goal >= 0) = 0
    BY <1>1, <1>2 DEF Count
  <2>2. Outstanding = Len(fdc.pending) + 1 /\ Outstanding' = Len(fdc'.pending) + 0
    BY <2>1 DEF Outstanding
  <2> QED
    BY <1>2, <2>2
<1>7. env.answers
  BY <1>1 DEF Counted
<1>8. HalfSent'
  <2>1. fdc'.bytes = fdc.bytes
    BY <1>1
  <2>2. Sent' = Sent /\ Second' = Second
    BY <1>3, <2>1 DEF Sent, Second
  <2> QED
    BY <1>2, <1>3, <1>4, <2>2 DEF Counted, HalfSent
<1> QED
  BY <1>3, <1>4, <1>5, <1>6, <1>7, <1>8 DEF Counted

LEMMA ExecDoneC ==
  ASSUME StepInv, Counted, ExecDone
  PROVE  Counted'
<1>1. fdc.phase = "execution" /\ ops' = ops /\ env' = env /\ env.answers
  BY DEF ExecDone, StepInv, Phases
<1>2. fdc'.goal = fdc.goal /\ fdc'.pending = fdc.pending
  BY ResultsAre DEF ExecDone, StepInv, FdcOK
<1>3. Due' = Due /\ All' = All /\ ToSet(ops)' = ToSet(ops)
  BY <1>1 DEF Due, Sensing, All, First
<1>4. Outstanding' = Outstanding /\ Outstanding <= 1
  BY <1>1, <1>2 DEF Outstanding, Counted, Elsewhere
<1>5. HalfSent'
  BY ResultsAre DEF ExecDone, StepInv, FdcOK, HalfSent
<1> QED
  BY <1>1, <1>3, <1>4, <1>5 DEF Counted

LEMMA XferCallC ==
  ASSUME StepInv, StepInv', XInv', Counted, XferCall
  PROVE  Counted'
<1>1. ops = <<>> /\ env' = env /\ fdc' = fdc
  BY DEF XferCall, machine
<1>2. PICK n \in Nat : ops' = Sectors(n)
  <2>1. PICK write \in BOOLEAN, lba \in Lba, n \in 0 .. MaxNum : Transfer(write, lba, n) /\ ops' = Sectors(n)
    BY DEF XferCall
  <2> QED
    BY <2>1, TransferAssumption
<1>3. Due = 0 /\ First = "none"
  <2>1. ToSet(ops) = {} /\ First = "none"
    BY <1>1 DEF ToSet, First
  <2> QED
    BY <2>1 DEF Due, Sensing, Count
<1>4. Due' \in Nat
  BY DEF Due, Sensing, Count
<1>5. Outstanding' = Outstanding /\ Outstanding \in Nat
  BY <1>1 DEF Outstanding, Count, StepInv, FdcOK, Controllers
<1>6. Elsewhere' => Elsewhere
  BY <1>1, <1>3 DEF Elsewhere
<1>7. "dor" \notin All' /\ First' # "sending"
  <2>1. CASE ops' = <<>>
    BY <2>1, KindsEmpty DEF All, First
  <2>2. CASE ops' # <<>>
    <3>1. Placed' /\ Head(ops') \in Operations
      BY <2>2, OrderNext DEF XInv
    <3>2. Head(ops').op = "try"
      BY <1>2, <2>2 DEF Sectors, Op
    <3>3. First' = "try"
      BY <3>1, <3>2, KindIs DEF Placed
    <3> QED
      BY <3>1, <3>3 DEF Placed, MayPrecede
  <2> QED
    BY <2>1, <2>2
<1>8. env'.answers => Outstanding' <= 1 + Due'
  <2>1. env.answers => Outstanding <= 1
    BY <1>3 DEF Counted
  <2> QED
    BY <1>1, <1>4, <1>5, <2>1, Spare
<1> QED
  BY <1>1, <1>5, <1>6, <1>7, <1>8 DEF Counted, HalfSent

(* When a command other than a sense is sent nothing is due.                 *)
LEMMA NothingDue ==
  ASSUME StepInv, Arranged(KindsOf(ops)), Counted, ops # <<>>, Head(ops).op = "send", First # "asking",
         ToSet(ops) = {Head(ops)} \cup Later, env.answers
  PROVE  Outstanding \in Nat /\ Outstanding <= 1
<1>1. Placed /\ Head(ops) \in Operations
  BY Order
<1>2. First \in SendKindsAre \cup {"sending"}
  BY SendKinds
<1>3. First \notin {"clear", "dor", "waitint", "drain", "sense0", "asking", "getSr0", "getTrack0", "getTrack", "sense"}
  BY <1>2 DEF SendKindsAre
<1>4. "sense0" \notin Rest /\ "sense" \notin Rest
  BY <1>1, <1>3 DEF Placed, MayPrecede
<1>5. ASSUME NEW n \in {0, 1, 2, 3} PROVE Op("sense", n) \notin ToSet(ops)
  <2>1. Kind(Op("sense", n)) \in {"sense0", "sense"}
    BY DEF Kind, Op
  <2>2. Op("sense", n) \notin Later
    BY <1>4, <2>1 DEF Rest, KindsIn
  <2>3. Op("sense", n).op # Head(ops).op
    BY DEF Op
  <2> QED
    BY <2>2, <2>3
<1>6. Sensing(0) = 0 /\ Sensing(1) = 0 /\ Sensing(2) = 0 /\ Sensing(3) = 0
  BY <1>5 DEF Sensing, Count
<1>7. First # "waitSense"
  BY <1>2 DEF SendKindsAre
<1>8. Count(First = "waitSense") = 0 /\ Count(First = "asking") = 0
  BY <1>7 DEF Count
<1>9. Due = 0
  BY <1>6, <1>8 DEF Due
<1>10. Outstanding \in Nat
  BY DEF Outstanding, Count, StepInv, FdcOK, Controllers
<1> QED
  BY <1>9, <1>10 DEF Counted

(* What the first byte says of the command that ends with this one.          *)
LEMMA SendDoneC ==
  ASSUME StepInv, StepInv', XInv, XInv', Counted, SendByte, Writable, Len(Head(ops).bytes) = 1, First # "asking",
         ToSet(ops) = {Head(ops)} \cup Later, Later \subseteq ToSet(ops)', ops' = Tail(ops), HalfSent'
  PROVE  Counted'
<1>1. ops # <<>> /\ Head(ops).op = "send" /\ env' = env /\ env.answers /\ fdc.phase = "command"
  BY DEF SendByte, Doing, Writable
<1>2. Arranged(KindsOf(ops)) /\ Arranged(KindsOf(ops))'
  BY DEF XInv
<1>3. Placed /\ Head(ops) \in Operations /\ First \in SendKindsAre \cup {"sending"}
  BY <1>1, <1>2, Order, SendKinds
<1>4. Outstanding \in Nat /\ Outstanding <= 1
  BY <1>1, <1>2, NothingDue
<1>5. /\ Sent \in Seq(Bytes8) /\ Whole(Sent) /\ (First # "sending" => First = SendKind(Sent[1]))
      /\ (First = "sending" => Sent[1] \notin {8, 16}) /\ fdc' = Executed(fdc, Sent)
  BY <1>1, <1>2, SendIs
<1>6. Sent[1] \in {3, 7, 8, 15, 16, 19, 69, 70}
  BY <1>5 DEF Whole, CommandLength
<1>7. Sent[1] # 8
  BY <1>5 DEF SendKind
<1>8. /\ fdc \in Controllers /\ fdc'.pending = fdc.pending
      /\ Sent[1] \notin {7, 15} => fdc'.goal = fdc.goal
      /\ Sent[1] \in {7, 15} => fdc'.phase = "command"
  <2>1. fdc \in Controllers
    BY DEF StepInv, FdcOK
  <2>2. fdc.phase = "command" /\ fdc' = Executed(fdc, Sent) /\ Sent[1] \in {3, 7, 8, 15, 16, 19, 69, 70}
    BY <1>1, <1>5, <1>6
  <2>3. /\ Sent[1] \notin {7, 15} => fdc'.goal = fdc.goal
        /\ Sent[1] # 8 => fdc'.pending = fdc.pending
        /\ Sent[1] = 7 => fdc'.goal = 0
        /\ Sent[1] = 15 => fdc'.goal = Sent[3]
        /\ Sent[1] \in {3, 19, 7, 15} => fdc'.phase = "command"
        /\ Sent[1] \in {8, 16} => fdc'.phase = "result"
        /\ Sent[1] \in {69, 70} => fdc'.phase = "execution" /\ fdc'.bytes = Sent
        /\ Sent[1] = 16 => fdc'.result = <<144>>
        /\ Sent[1] = 8 => fdc'.result = IF fdc.pending = <<>> THEN <<128>> ELSE <<Head(fdc.pending), head>>
    BY <2>1, <2>2, ExecutedIs
  <2> QED
    BY <1>7, <2>1, <2>3
<1>9. Onward
  BY <1>1, <1>2, SendOn
<1>10. "dor" \in All' => \A n \in {1, 2, 3} : Op("sense", n) \in ToSet(ops)'
  BY <1>1, <1>2, PulseKept
<1>11. Due' \in Nat
  BY DEF Due, Sensing, Count
<1>12. CASE Sent[1] \notin {7, 15}
  <2>1. Outstanding' = Outstanding
    BY <1>8, <1>12 DEF Outstanding
  <2>2. Outstanding' \in Nat /\ Outstanding' <= 1
    BY <1>4, <2>1
  <2>3. Outstanding' <= 1 + Due' /\ Outstanding' <= 5
    BY <1>11, <2>2, Spare
  <2> QED
    BY <1>1, <1>10, <2>2, <2>3 DEF Counted
<1>13. CASE Sent[1] \in {7, 15}
  <2>1. First \in {"seeking", "calibrating", "sending"}
    BY <1>3, <1>5, <1>13 DEF SendKind
  <2>2. Second = "waitSense"
    BY <1>1, <1>3, <1>13, <2>1, SendNext DEF Counted, HalfSent
  <2>3. First' = "waitSense"
    BY <1>9, <2>2 DEF Onward
  <2>4. Sensing(0)' \in {0, 1} /\ Sensing(1)' \in {0, 1} /\ Sensing(2)' \in {0, 1} /\ Sensing(3)' \in {0, 1}
        /\ Count(First = "waitSense")' = 1 /\ Count(First = "asking")' = 0
    BY <2>3 DEF Sensing, Count
  <2>5. Due' >= 1
    BY <2>4 DEF Due
  <2>6. Outstanding' \in Nat /\ Outstanding' <= 2
    <3>1. Len(fdc.pending) \in Nat
      BY <1>8 DEF Controllers
    <3>2. Outstanding = Len(fdc.pending) + Count(fdc.goal >= 0) /\ Count(fdc.goal >= 0) \in {0, 1}
          /\ Outstanding' = Len(fdc.pending) + Count(fdc'.goal >= 0) /\ Count(fdc'.goal >= 0) \in {0, 1}
      BY <1>8 DEF Outstanding, Count
    <3> QED
      BY <1>4, <3>1, <3>2
  <2>7. Outstanding' <= 1 + Due'
    BY <1>11, <2>5, <2>6, Spare
  <2>8. ~Elsewhere'
    BY <1>8, <1>13 DEF Elsewhere
  <2> QED
    BY <1>1, <1>10, <2>6, <2>7, <2>8 DEF Counted
<1> QED
  BY <1>12, <1>13

(* A sense takes an interrupt, unless it is lost.                            *)
LEMMA AskedC ==
  ASSUME StepInv, StepInv', XInv, XInv', Counted, SendByte, First = "asking",
         ToSet(ops) = {Head(ops)} \cup Later, Later \subseteq ToSet(ops)', ops' = Tail(ops), HalfSent',
         Len(Head(ops).bytes) = 1
  PROVE  Counted'
<1>1. ops # <<>> /\ Head(ops).op = "send" /\ env' = env
  BY DEF SendByte, Doing
<1>2. Arranged(KindsOf(ops)) /\ Arranged(KindsOf(ops))'
  BY DEF XInv
<1>3. Placed /\ Head(ops) \in Operations
  BY <1>1, <1>2, Order
<1>4. First' = "getSr0"
  BY <1>1, <1>2, <1>3, SendOn, SendNext DEF Onward, SendKindsAre
<1>5. "dor" \in All' => \A n \in {1, 2, 3} : Op("sense", n) \in ToSet(ops)'
  BY <1>1, <1>2, PulseKept
<1>6. Outstanding \in Nat
  BY DEF Outstanding, Count, StepInv, FdcOK, Controllers
<1>7. Due \in Nat /\ Due' \in Nat /\ Due' + 1 >= Due
  <2>1. \A n \in {0, 1, 2, 3} : Head(ops) # Op("sense", n)
    BY <1>1 DEF Op
  <2>2. \A n \in {0, 1, 2, 3} : Op("sense", n) \in ToSet(ops) => Op("sense", n) \in ToSet(ops)'
    BY <2>1
  <2>3. /\ Sensing(0)' >= Sensing(0) /\ Sensing(1)' >= Sensing(1) /\ Sensing(2)' >= Sensing(2)
        /\ Sensing(3)' >= Sensing(3)
    BY <2>2 DEF Sensing, Count
  <2>4. Count(First = "waitSense") = 0 /\ Count(First = "asking") = 1
        /\ Count(First = "waitSense")' = 0 /\ Count(First = "asking")' = 0
    BY <1>4 DEF Count
  <2>5. Due \in Nat /\ Due' \in Nat
    BY DEF Due, Sensing, Count
  <2> QED
    BY <2>3, <2>4, <2>5 DEF Due, Sensing, Count
<1>8. CASE ~Writable
  <2>1. fdc' = fdc
    BY <1>8 DEF SendByte
  <2>2. Outstanding' = Outstanding
    BY <2>1 DEF Outstanding
  <2>3. env.answers => Elsewhere
    BY <1>8 DEF Writable, Elsewhere, StepInv, FdcOK, Controllers
  <2>4. env.answers => Outstanding <= 1
    BY <2>3 DEF Counted
  <2>5. env'.answers => Outstanding' <= 1 + Due' /\ Outstanding' <= 1
    BY <1>1, <1>6, <1>7, <2>2, <2>4, Spare
  <2> QED
    BY <1>1, <1>5, <2>1, <2>2, <2>5 DEF Counted
<1>9. CASE Writable
  <2>1. env.answers /\ fdc.phase = "command"
    BY <1>9 DEF Writable
  <2>2. Sent \in Seq(Bytes8) /\ Whole(Sent) /\ First = SendKind(Sent[1]) /\ fdc' = Executed(fdc, Sent)
    BY <1>1, <1>2, <2>1, SendIs
  <2>3. Sent[1] = 8
    BY <2>2 DEF Whole, CommandLength, SendKind
  <2>4. /\ fdc \in Controllers /\ fdc'.goal = fdc.goal /\ fdc'.phase = "result"
        /\ fdc'.result = IF fdc.pending = <<>> THEN <<128>> ELSE <<Head(fdc.pending), head>>
    BY <2>1, <2>2, <2>3, ExecutedIs DEF StepInv, FdcOK
  <2>5. Len(fdc'.result) <= 2
    BY <2>4
  <2>6. ~Elsewhere'
    BY <1>4, <2>4, <2>5 DEF Elsewhere
  <2>7. CASE fdc.pending = <<>>
    <3>1. fdc'.pending = fdc.pending
      <4>1. fdc' = Results(fdc, <<128>>)
        BY <2>2, <2>3, <2>7 DEF Executed
      <4> QED
        BY <2>4, <4>1, ResultsAre
    <3>2. Outstanding' = Outstanding
      BY <2>4, <3>1 DEF Outstanding
    <3>3. Outstanding <= 1
      <4>1. Len(fdc.pending) = 0 /\ Count(fdc.goal >= 0) \in {0, 1}
        BY <2>7 DEF Count
      <4> QED
        BY <4>1 DEF Outstanding
    <3>4. Outstanding' \in Nat /\ Outstanding' <= 1
      BY <1>6, <3>2, <3>3
    <3>5. Outstanding' <= 1 + Due' /\ Outstanding' <= 5
      BY <1>7, <3>4, Spare
    <3> QED
      BY <1>1, <1>5, <2>1, <2>6, <3>5 DEF Counted
  <2>8. CASE fdc.pending # <<>>
    <3>1. fdc'.pending = Tail(fdc.pending)
      <4> DEFINE g == Results(fdc, <<Head(fdc.pending), head>>)
      <4>1. fdc' = [g EXCEPT !.pending = Tail(@)]
        BY <2>2, <2>3, <2>8 DEF Executed
      <4>2. g = [phase |-> "result", bytes |-> <<>>, result |-> <<Head(fdc.pending), head>>, goal |-> fdc.goal,
                 pending |-> fdc.pending]
        BY <2>4, ResultsAre
      <4> HIDE DEF g
      <4> QED
        BY <4>1, <4>2
    <3>2. Len(fdc.pending) \in Nat /\ Len(fdc'.pending) = Len(fdc.pending) - 1
      BY <2>4, <2>8, <3>1 DEF Controllers
    <3>3. Outstanding' = Outstanding - 1
      <4>1. /\ Count(fdc'.goal >= 0) = Count(fdc.goal >= 0) /\ Count(fdc.goal >= 0) \in {0, 1}
        BY <2>4 DEF Count
      <4> QED
        BY <3>2, <4>1 DEF Outstanding
    <3>4. Outstanding <= 1 + Due /\ Outstanding <= 5
      BY <2>1 DEF Counted
    <3>5. Outstanding' <= 1 + Due' /\ Outstanding' <= 5
      BY <1>6, <1>7, <3>3, <3>4, Taking
    <3> QED
      BY <1>1, <1>5, <2>1, <2>6, <3>5 DEF Counted
  <2> QED
    BY <2>7, <2>8
<1> QED
  BY <1>8, <1>9

LEMMA SendByteC ==
  ASSUME StepInv, StepInv', XInv, XInv', Counted, SendByte
  PROVE  Counted'
<1> DEFINE o == Head(ops)
           v == [o EXCEPT !.bytes = Tail(@), !.arg = 1]
           w == <<v>>
<1>1. /\ ops # <<>> /\ o.op = "send" /\ env' = env
      /\ Continue(IF Len(o.bytes) = 1 THEN <<>> ELSE w)
      /\ fdc' = IF Writable THEN Accepted(Head(o.bytes)) ELSE fdc
  BY DEF SendByte, Doing
<1>2. Arranged(KindsOf(ops)) /\ Arranged(KindsOf(ops))'
  BY DEF XInv
<1>3. Placed /\ o \in Operations /\ First \in SendKindsAre \cup {"sending"}
  BY <1>1, <1>2, Order, SendKinds
<1>4. Writable <=> env.answers /\ fdc.phase = "command"
  BY DEF Writable
<1>5. CASE Len(o.bytes) = 1
  <2>1. Continue(<<>>) /\ <<>> \in Seq(Operations)
    BY <1>1, <1>5
  <2>2. ToSet(ops) = {o} \cup Later /\ Later \subseteq ToSet(ops)' /\ ops' = Tail(ops)
    BY <1>1, <2>1, Stays
  <2>3. Onward
    BY <1>2, <1>5, SendOn
  <2>4. Second # "sending"
    BY <1>3, SendNext
  <2>5. HalfSent'
    BY <2>3, <2>4 DEF HalfSent, Onward
  <2>6. CASE First = "asking"
    BY <1>5, <2>2, <2>5, <2>6, AskedC
  <2>7. CASE First # "asking" /\ Writable
    BY <1>5, <2>2, <2>5, <2>7, SendDoneC
  <2>8. CASE First # "asking" /\ ~Writable
    <3>1. fdc' = fdc
      BY <1>1, <2>8
    <3>2. First \notin {"sense0", "sense", "waitSense", "asking", "getSr0", "getTrack0", "getTrack"}
      BY <1>3, <2>8 DEF SendKindsAre
    <3>3. fdc'.goal = fdc.goal /\ fdc'.pending = fdc.pending /\ fdc'.phase \in {fdc.phase, "command"}
      BY <3>1
    <3> QED
      BY <1>1, <1>2, <2>2, <2>5, <3>2, <3>3, CountedOn
  <2> QED
    BY <2>6, <2>7, <2>8
<1>6. CASE Len(o.bytes) # 1
  <2>1. PICK a \in Operations : With(a) /\ Kind(a) = "sending" /\ a.bytes = Tail(o.bytes)
    BY <1>2, <1>6, SendOn
  <2>2. First \notin {"asking", "versioning"}
    BY <1>2, <1>6, SendOn
  <2>3. First \notin {"sense0", "sense", "waitSense", "asking", "getSr0", "getTrack0", "getTrack"}
    BY <1>3, <2>2 DEF SendKindsAre
  <2>4. /\ First' = "sending" /\ Second' = Second /\ ops' # <<>> /\ Head(ops') = a /\ Later \subseteq ToSet(ops)'
    BY <2>1 DEF With
  <2>5. a.op = "send"
    BY <2>1 DEF Kind, SendKind, Operations, OpNames, Compound
  <2>6. ToSet(ops) = {o} \cup Later
    <3>1. w \in Seq(Operations) /\ Continue(w)
      <4> DEFINE b == o.bytes
                 t == Tail(b)
                 p == [o EXCEPT !.bytes = t]
      <4>1. b \in Seq(Bytes8) /\ b # <<>>
        BY <1>1, <1>2, SendKinds
      <4>2. t \in Seq(Bytes8)
        BY <4>1, Parted, Zenon
      <4>3. v = [op |-> "send", arg |-> 1, bytes |-> t]
        <5> HIDE DEF b
        <5>1. v = [p EXCEPT !.arg = 1]
          BY DEF b
        <5> HIDE DEF t
        <5>2. p = [op |-> "send", arg |-> o.arg, bytes |-> t]
          BY <1>1, <1>3 DEF Operations
        <5> HIDE DEF p
        <5> QED
          BY <5>1, <5>2
      <4>4. Continue(w)
        BY <1>1, <1>6
      <4> HIDE DEF t
      <4>5. v \in Operations
        BY <4>2, <4>3 DEF Operations, OpNames
      <4> HIDE DEF v
      <4> QED
        BY <4>4, <4>5
    <3> QED
      BY <1>1, <3>1, Stays
  <2>7. /\ fdc'.goal = fdc.goal /\ fdc'.pending = fdc.pending /\ fdc'.phase = fdc.phase
        /\ Writable => fdc'.bytes \o a.bytes = Sent
    <3>1. CASE Writable
      BY <1>2, <1>4, <1>6, <2>1, <3>1, SendIs
    <3>2. CASE ~Writable
      BY <1>1, <3>2
    <3> QED
      BY <3>1, <3>2
  <2>8. HalfSent'
    <3> SUFFICES ASSUME env.answers, fdc.phase = "command", Sent'[1] \in {7, 15} PROVE Second = "waitSense"
      BY <1>1, <2>4, <2>7 DEF HalfSent
    <3>1. Writable /\ Sent' = Sent
      BY <1>4, <2>4, <2>7 DEF Sent
    <3>2. First # "sending" => First = SendKind(Sent[1])
      BY <1>2, SendIs
    <3>3. First # "sending" => First \in {"seeking", "calibrating"}
      BY <3>1, <3>2 DEF SendKind
    <3> QED
      BY <1>3, <3>1, <3>3, SendNext DEF Counted, HalfSent
  <2> QED
    BY <1>1, <1>2, <2>3, <2>4, <2>5, <2>6, <2>7, <2>8, CountedOn
<1> QED
  BY <1>5, <1>6

(* Only a reset begins by clearing the interrupt.                            *)
LEMMA PartsBegin ==
  ASSUME NEW o \in Operations, o.op \in Compound \ {"reset"}
  PROVE  Parts(o) = <<>> \/ Parts(o)[1].op \notin {"clear", "dor"}
<1>1. CASE o.op \in {"version", "select", "calibrate", "seek"}
  BY <1>1 DEF Parts, Seek, Send, Specify
<1>2. CASE o.op = "try"
  <2> DEFINE a == Op("seek", Chs(req.lba)[1])
             b == Op("start", 0)
             c == Send(TransferBytes(req.write, Chs(req.lba)))
             d == Op("wait", 0)
             e == Op("judge", o.arg)
  <2>1. Parts(o) = <<a, b, c, d, e>> /\ a.op = "seek"
    BY <1>2 DEF Parts, Op
  <2> HIDE DEF a, b, c, d, e
  <2> QED
    BY <2>1
<1>3. CASE o.op = "wait"
  <2> DEFINE a == Op("waitint", 0)
             c == Op("drain", 0)
             d == Op("sense", 0)
             e == Op("clear", 0)
  <2>1. Parts(o) \in {<<a, a, c, e>>, <<a, a, c, d, e>>} /\ a.op = "waitint"
    <3>1. Parts(o) = Wait(o.arg)
      BY <1>3 DEF Parts
    <3>2. a.op = "waitint"
      BY DEF Op
    <3> QED
      BY <3>1, <3>2, WaitIs
  <2> HIDE DEF a, c, d, e
  <2> QED
    BY <2>1
<1>4. CASE o.op = "sense"
  BY <1>4 DEF Parts, Sense, Send
<1> QED
  BY <1>1, <1>2, <1>3, <1>4 DEF Compound

LEMMA ExpandIs ==
  ASSUME StepInv, XInv, Expand
  PROVE  /\ ops # <<>> /\ Head(ops) \in Operations /\ Head(ops).op \in Compound /\ First = Kind(Head(ops))
         /\ env' = env /\ fdc' = fdc /\ Continue(Parts(Head(ops))) /\ Parts(Head(ops)) \in Seq(Fresh)
         /\ Arranged(KindsOf(ops)) /\ Placed
<1>1. ops # <<>> /\ Head(ops).op \in Compound /\ env' = env /\ fdc' = fdc /\ Continue(Parts(Head(ops)))
  BY DEF Expand, Doing, machine
<1>2. Arranged(KindsOf(ops))
  BY DEF XInv
<1>3. Head(ops) \in Operations /\ Placed
  BY <1>1, <1>2, Order
<1>4. Parts(Head(ops)) \in Seq(Fresh)
  BY <1>1, <1>3, PartsFresh DEF StepInv, ReqOK, Requests
<1> QED
  BY <1>1, <1>2, <1>3, <1>4 DEF Placed

(* What is to come stays.                                                    *)
LEMMA ExpandKeeps ==
  ASSUME StepInv, StepInv', XInv, XInv', Expand
  PROVE  /\ ToSet(ops) = {Head(ops)} \cup Later /\ Later \subseteq ToSet(ops)' /\ HalfSent'
         /\ Head(ops).op # "reset" => ops' = Tail(ops) \/ (ops' # <<>> /\ Head(ops').op \notin {"clear", "dor"})
<1>1. /\ ops # <<>> /\ Head(ops) \in Operations /\ Head(ops).op \in Compound
      /\ Continue(Parts(Head(ops))) /\ Parts(Head(ops)) \in Seq(Fresh)
  BY ExpandIs
<1>2. Parts(Head(ops)) \in Seq(Operations)
  BY <1>1 DEF Fresh
<1>3. /\ ToSet(ops) = {Head(ops)} \cup Later /\ Later \subseteq ToSet(ops)'
      /\ Parts(Head(ops)) = <<>> => ops' = Tail(ops)
      /\ Parts(Head(ops)) # <<>> => ops' # <<>> /\ Head(ops') = Parts(Head(ops))[1]
  BY <1>1, <1>2, Stays
<1>4. HalfSent'
  <2>1. Arranged(KindsOf(ops))'
    BY DEF XInv
  <2> QED
    BY <1>1, <2>1, Continued, Unbegun
<1>5. ASSUME Head(ops).op # "reset" PROVE Parts(Head(ops)) = <<>> \/ Parts(Head(ops))[1].op \notin {"clear", "dor"}
  BY <1>1, <1>5, PartsBegin
<1> QED
  BY <1>3, <1>4, <1>5

(* A reset is to sense all four drives.                                      *)
LEMMA ResetC ==
  ASSUME StepInv, StepInv', XInv, XInv', Counted, Expand, First = "reset"
  PROVE  Counted'
<1>1. /\ ops # <<>> /\ First = Kind(Head(ops)) /\ env' = env /\ fdc' = fdc /\ Arranged(KindsOf(ops))
  BY ExpandIs
<1>2. ToSet(ops) = {Head(ops)} \cup Later /\ Later \subseteq ToSet(ops)' /\ HalfSent'
  BY ExpandKeeps
<1>3. Due' >= Due /\ Due \in Nat /\ Due' \in Nat
  BY <1>1, <1>2, DueKept
<1>4. \A n \in {1, 2, 3} : Op("sense", n) \in ToSet(ops)'
  BY <1>1, UnfoldReset DEF Unfolded
<1>5. Outstanding' = Outstanding /\ Outstanding \in Nat
  BY <1>1 DEF Outstanding, Count, StepInv, FdcOK, Controllers
<1>6. env'.answers => Outstanding' <= 1 + Due'
  <2> SUFFICES ASSUME env'.answers PROVE Outstanding' <= 1 + Due'
    OBVIOUS
  <2>1. Outstanding <= 1 + Due
    BY <1>1 DEF Counted
  <2> QED
    BY <1>3, <1>5, <2>1, Within
<1>7. Elsewhere' => Elsewhere
  BY <1>1 DEF Elsewhere
<1> QED
  BY <1>1, <1>2, <1>4, <1>5, <1>6, <1>7 DEF Counted

(* What a seek waits for it will sense.                                      *)
LEMMA WaitSenseC ==
  ASSUME StepInv, StepInv', XInv, XInv', Counted, Expand, First = "waitSense"
  PROVE  Counted'
<1>1. /\ ops # <<>> /\ First = Kind(Head(ops)) /\ env' = env /\ fdc' = fdc /\ Arranged(KindsOf(ops)) /\ Placed
      /\ Head(ops) \in Operations
  BY ExpandIs
<1>2. Head(ops).op = "wait"
  BY <1>1, OpOfKind
<1>3. /\ ToSet(ops) = {Head(ops)} \cup Later /\ Later \subseteq ToSet(ops)' /\ HalfSent'
      /\ ops' = Tail(ops) \/ (ops' # <<>> /\ Head(ops').op \notin {"clear", "dor"})
  BY <1>2, ExpandKeeps
<1>4. /\ Op("sense", 0) \in ToSet(ops)' /\ First' = "waitint"
  <2>1. Kind(Op("waitint", 0)) = "waitint"
    BY Names
  <2> QED
    BY <1>1, <2>1, UnfoldWaitSense DEF Unfolded
<1>5. "dor" \in All' => \A n \in {1, 2, 3} : Op("sense", n) \in ToSet(ops)'
  BY <1>1, <1>3, PulseKept DEF XInv
<1>6. Op("sense", 0) \notin ToSet(ops)
  <2>1. "sense0" \notin Rest
    BY <1>1 DEF Placed, MayPrecede
  <2>2. Kind(Op("sense", 0)) = "sense0"
    BY Names
  <2>3. Op("sense", 0) \notin Later
    BY <1>1, <2>1, <2>2 DEF Rest, KindsIn
  <2>4. Op("sense", 0).op = "sense"
    BY DEF Op
  <2> QED
    BY <1>2, <1>3, <2>3, <2>4
<1>7. Due' >= Due /\ Due \in Nat /\ Due' \in Nat
  <2>1. \A n \in {1, 2, 3} : Op("sense", n) \in ToSet(ops) => Op("sense", n) \in ToSet(ops)'
    <3>1. \A n \in {1, 2, 3} : Op("sense", n).op = "sense"
      BY DEF Op
    <3> QED
      BY <1>2, <1>3, <3>1
  <2>2. Sensing(0) = 0 /\ Sensing(0)' = 1
    BY <1>4, <1>6 DEF Sensing, Count
  <2>3. Sensing(1)' >= Sensing(1) /\ Sensing(2)' >= Sensing(2) /\ Sensing(3)' >= Sensing(3)
    BY <2>1 DEF Sensing, Count
  <2>4. /\ Count(First = "waitSense") = 1 /\ Count(First = "asking") = 0
        /\ Count(First = "waitSense")' = 0 /\ Count(First = "asking")' = 0
    BY <1>4 DEF Count
  <2>5. Due \in Nat /\ Due' \in Nat
    BY DEF Due, Sensing, Count
  <2> QED
    BY <2>2, <2>3, <2>4, <2>5 DEF Due, Sensing, Count
<1>8. Outstanding' = Outstanding /\ Outstanding \in Nat
  BY <1>1 DEF Outstanding, Count, StepInv, FdcOK, Controllers
<1>9. env'.answers => Outstanding' <= 1 + Due'
  <2> SUFFICES ASSUME env'.answers PROVE Outstanding' <= 1 + Due'
    OBVIOUS
  <2>1. Outstanding <= 1 + Due
    BY <1>1 DEF Counted
  <2> QED
    BY <1>7, <1>8, <2>1, Within
<1>10. Elsewhere' => Elsewhere
  BY <1>1 DEF Elsewhere
<1> QED
  BY <1>1, <1>3, <1>5, <1>8, <1>9, <1>10 DEF Counted

(* A sense that is due becomes one that is asked for.                        *)
LEMMA SenseC ==
  ASSUME StepInv, StepInv', XInv, XInv', Counted, Expand, Head(ops).op = "sense"
  PROVE  Counted'
<1>1. /\ ops # <<>> /\ First = Kind(Head(ops)) /\ env' = env /\ fdc' = fdc /\ Arranged(KindsOf(ops)) /\ Placed
      /\ Head(ops) \in Operations
  BY ExpandIs
<1>2. First \in {"sense0", "sense"}
  BY <1>1, KindIs
<1>3. /\ ToSet(ops) = {Head(ops)} \cup Later /\ Later \subseteq ToSet(ops)' /\ HalfSent'
      /\ ops' = Tail(ops) \/ (ops' # <<>> /\ Head(ops').op \notin {"clear", "dor"})
  BY ExpandKeeps
<1>4. First' = "asking"
  <2>1. Kind(Send(<<8>>)) = "asking"
    BY CommandKinds
  <2> QED
    BY <1>1, <1>2, <2>1, UnfoldSense0, UnfoldSense DEF Unfolded
<1>5. "dor" \in All' => \A n \in {1, 2, 3} : Op("sense", n) \in ToSet(ops)'
  BY <1>1, <1>3, PulseKept DEF XInv
<1>6. Due' >= Due /\ Due \in Nat /\ Due' \in Nat
  <2>1. \A n : n # Head(ops).arg /\ Op("sense", n) \in ToSet(ops) => Op("sense", n) \in ToSet(ops)'
    <3>1. \A n : Op("sense", n).arg = n
      BY DEF Op
    <3> QED
      BY <1>3, <3>1
  <2>2. \A n \in {0, 1, 2, 3} : Sensing(n) \in {0, 1} /\ Sensing(n)' \in {0, 1}
    BY DEF Sensing, Count
  <2>3. \A n \in {0, 1, 2, 3} : n # Head(ops).arg => Sensing(n)' >= Sensing(n)
    BY <2>1 DEF Sensing, Count
  <2>4. /\ Count(First = "waitSense") = 0 /\ Count(First = "asking") = 0
        /\ Count(First = "waitSense")' = 0 /\ Count(First = "asking")' = 1
    BY <1>2, <1>4 DEF Count
  <2>5. /\ Sensing(0) \in {0, 1} /\ Sensing(1) \in {0, 1} /\ Sensing(2) \in {0, 1} /\ Sensing(3) \in {0, 1}
        /\ Sensing(0)' \in {0, 1} /\ Sensing(1)' \in {0, 1} /\ Sensing(2)' \in {0, 1} /\ Sensing(3)' \in {0, 1}
        /\ 0 # Head(ops).arg => Sensing(0)' >= Sensing(0)
        /\ 1 # Head(ops).arg => Sensing(1)' >= Sensing(1)
        /\ 2 # Head(ops).arg => Sensing(2)' >= Sensing(2)
        /\ 3 # Head(ops).arg => Sensing(3)' >= Sensing(3)
    BY <2>2, <2>3
  <2>6. Due \in Nat /\ Due' \in Nat
    BY DEF Due, Sensing, Count
  <2>7. Due = Sensing(0) + Sensing(1) + Sensing(2) + Sensing(3)
    BY <2>4, <2>5 DEF Due
  <2>8. Due' = Sensing(0)' + Sensing(1)' + Sensing(2)' + Sensing(3)' + 1
    BY <2>4, <2>5 DEF Due
  <2> QED
    BY <2>5, <2>6, <2>7, <2>8
<1>7. Outstanding' = Outstanding /\ Outstanding \in Nat
  BY <1>1 DEF Outstanding, Count, StepInv, FdcOK, Controllers
<1>8. env'.answers => Outstanding' <= 1 + Due'
  <2> SUFFICES ASSUME env'.answers PROVE Outstanding' <= 1 + Due'
    OBVIOUS
  <2>1. Outstanding <= 1 + Due
    BY <1>1 DEF Counted
  <2> QED
    BY <1>6, <1>7, <2>1, Within
<1>9. Elsewhere' => Elsewhere
  BY <1>1, <1>2 DEF Elsewhere
<1> QED
  BY <1>1, <1>3, <1>5, <1>7, <1>8, <1>9 DEF Counted

LEMMA ExpandC ==
  ASSUME StepInv, StepInv', XInv, XInv', Counted, Expand
  PROVE  Counted'
<1>1. /\ ops # <<>> /\ First = Kind(Head(ops)) /\ env' = env /\ fdc' = fdc /\ Arranged(KindsOf(ops))
      /\ Head(ops) \in Operations /\ Head(ops).op \in Compound
  BY ExpandIs
<1>2. CASE First \notin {"reset", "waitSense", "sense0", "sense"}
  <2>1. Head(ops).op # "reset"
    BY <1>1, <1>2, KindIs
  <2>2. /\ ToSet(ops) = {Head(ops)} \cup Later /\ Later \subseteq ToSet(ops)' /\ HalfSent'
        /\ ops' = Tail(ops) \/ (ops' # <<>> /\ Head(ops').op \notin {"clear", "dor"})
    BY <2>1, ExpandKeeps
  <2>3. First \notin {"asking", "getSr0", "getTrack0", "getTrack"}
    BY <1>1, KindIs DEF Compound
  <2>4. Arranged(KindsOf(ops))'
    BY DEF XInv
  <2>5. fdc'.goal = fdc.goal /\ fdc'.pending = fdc.pending /\ fdc'.phase \in {fdc.phase, "command"}
    BY <1>1
  <2> QED
    BY <1>1, <1>2, <2>2, <2>3, <2>4, <2>5, CountedOn
<1>3. CASE First \in {"sense0", "sense"}
  <2>1. Head(ops).op = "sense"
    BY <1>1, <1>3, OpOfKind
  <2> QED
    BY <2>1, SenseC
<1> QED
  BY <1>2, <1>3, ResetC, WaitSenseC

LEMMA CountedStep ==
  ASSUME StepInv, StepInv', XInv, XInv', Counted, XferNext
  PROVE  Counted'
<1>1. ASSUME XferDriver PROVE Counted'
  BY <1>1, ExpandC, PresentC, SendByteC, ReadsC, DrainC, CalmSteps, ResetPulseC, JudgeC, RoundsC DEF XferDriver
<1>2. ASSUME Controller PROVE Counted'
  BY <1>2, SeekDoneC, ExecDoneC DEF Controller
<1> QED
  BY <1>1, <1>2, XferCallC DEF XferNext

LEMMA CountedInit ==
  ASSUME MCInit
  PROVE  Counted
<1>1. /\ fdc = Idle0 /\ ops = IF job = "transfer" THEN Booting ELSE <<>>
  BY DEF MCInit, XferInit
<1>2. fdc.goal = -1 /\ fdc.phase = "command" /\ Len(fdc.pending) = 0
  BY <1>1 DEF Idle0
<1>3. First # "sending" /\ "dor" \notin All
  <2>1. CASE ops = <<>>
    BY <2>1, KindsEmpty DEF First, All
  <2>2. CASE ops # <<>>
    <3>1. ops = Booting
      BY <1>1, <2>2
    <3> QED
      BY <2>2, <3>1, BootKinds DEF First, All
  <2> QED
    BY <2>1, <2>2
<1>4. Outstanding = 0
  BY <1>2 DEF Outstanding, Count
<1>5. Due \in Nat
  BY DueIs
<1>6. HalfSent /\ ~Elsewhere
  BY <1>2, <1>3 DEF HalfSent, Elsewhere
<1> QED
  BY <1>2, <1>3, <1>4, <1>5, <1>6 DEF Counted

LEMMA CountedKept ==
  ASSUME Counted, UNCHANGED <<ops, fdc, env>>
  PROVE  Counted'
<1>1. /\ First' = First /\ Second' = Second /\ All' = All /\ Sent' = Sent /\ ToSet(ops)' = ToSet(ops)
      /\ Outstanding' = Outstanding
  BY DEF First, Second, All, Sent, Outstanding
<1>2. Due' = Due
  BY <1>1 DEF Due, Sensing
<1>3. HalfSent' /\ Elsewhere' = Elsewhere
  BY <1>1 DEF Counted, HalfSent, Elsewhere
<1> QED
  BY <1>1, <1>2, <1>3 DEF Counted

(* No more than a whole command is kept, nor more than five interrupts.      *)
LEMMA ShapesFollow ==
  ASSUME StepInv, Counted
  PROVE  XferTypeOK
<1>1. fdc.bytes \in Seq(Bytes8) /\ fdc.pending \in Seq(Bytes8)
  BY DEF StepInv, FdcOK, Controllers
<1>2. ASSUME NEW c \in Seq(Bytes8), Whole(c) PROVE Len(c) <= 9
  BY <1>2, Lengths DEF Whole
<1>3. ASSUME fdc.bytes = <<>> PROVE Len(fdc.bytes) <= 9
  BY <1>3
<1>4. ASSUME fdc.phase = "execution" PROVE Len(fdc.bytes) <= 9
  BY <1>1, <1>2, <1>4 DEF StepInv, Phases, Consistent
<1>5. ASSUME env.answers, fdc.phase = "command", Mid PROVE Len(fdc.bytes) <= 9
  <2>1. Head(ops).bytes \in Seq(Bytes8) /\ Whole(fdc.bytes \o Head(ops).bytes)
    BY <1>5 DEF StepInv, Phases, Mid, Begun, Operations
  <2>2. /\ fdc.bytes \o Head(ops).bytes \in Seq(Bytes8)
        /\ Len(fdc.bytes \o Head(ops).bytes) = Len(fdc.bytes) + Len(Head(ops).bytes)
    BY <1>1, <2>1, EndToEnd
  <2>3. Len(fdc.bytes \o Head(ops).bytes) <= 9
    BY <1>2, <2>1, <2>2
  <2>4. Len(fdc.bytes) \in Nat /\ Len(Head(ops).bytes) \in Nat
    BY <1>1, <2>1
  <2> DEFINE k == Len(fdc.bytes)
             m == Len(Head(ops).bytes)
             n == Len(fdc.bytes \o Head(ops).bytes)
  <2>5. k \in Nat /\ m \in Nat /\ n = k + m /\ n <= 9
    BY <2>2, <2>3, <2>4
  <2> HIDE DEF k, m, n
  <2>6. k <= 9
    BY <2>5
  <2> QED
    BY <2>6 DEF k
<1>6. Len(fdc.bytes) <= 9
  <2>1. \/ fdc.bytes = <<>> \/ fdc.phase = "execution" \/ (env.answers /\ fdc.phase = "command" /\ Mid)
    BY DEF StepInv, Phases, Consistent, FdcOK, Controllers
  <2> QED
    BY <1>3, <1>4, <1>5, <2>1
<1>7. Len(fdc.pending) <= 5
  <2>1. Len(fdc.pending) \in Nat /\ Count(fdc.goal >= 0) \in {0, 1}
    BY <1>1 DEF Count
  <2> QED
    BY <2>1 DEF Counted, Outstanding
<1>8. /\ fdc.phase \in {"command", "execution", "result"} /\ Len(fdc.result) <= 7
      /\ fdc.phase = "result" <=> fdc.result # <<>>
  BY DEF StepInv, FdcOK, Controllers, Phases, Consistent
<1> QED
  BY <1>6, <1>7, <1>8 DEF StepInv, ReqOK, Bytes8, XferTypeOK

(* The three machines' states keep their shapes.  The controller never holds *)
(* more than the nine bytes of the longest command, and there are never more *)
(* than five interrupts that nobody has sensed: every seek or recalibration is *)
(* sensed before the next, and a reset, which sets four off, senses four,    *)
(* although the driver never learns whether a command it sent was taken.  For *)
(* all delays and spin-up times, all sectors on tracks that a byte can name, *)
(* the form in which the driver sends them, and any number of calls.         *)
THEOREM ShapesKept ==
  ASSUME \A l \in Lba : l + MaxNum <= 256 * 36
  PROVE  MCSpec => []TypesOK
<1> DEFINE All3 == StepInv /\ XInv /\ Counted /\ IInv
<1>1. MCInit => All3
  BY StepInvInit, XInvInit, CountedInit, Initially DEF MCInit
<1>2. All3 /\ [MCNext]_all => All3'
  <2> SUFFICES ASSUME StepInv, XInv, Counted, IInv, [MCNext]_all
               PROVE  StepInv' /\ XInv' /\ Counted' /\ IInv'
    OBVIOUS
  <2>1. StepInv'
    BY StepInvAlways
  <2>2. \A l \in Lba : l + MaxNum <= Limit
    BY DEF Limit
  <2>3. CASE XferJob /\ XferNext
    <3>1. XInv'
      BY <2>2, <2>3, XInvStep
    <3>2. Counted'
      BY <2>1, <2>3, <3>1, CountedStep
    <3>3. IInv'
      BY <2>3, Step DEF XferJob
    <3> QED
      BY <2>1, <3>1, <3>2, <3>3
  <2>4. CASE MotorJob /\ Next
    <3>1. UNCHANGED <<ops, status, track, req, fdc, head, env, answer>>
      BY <2>4 DEF MotorJob, xferVars, driver, machine
    <3>2. IInv'
      BY <2>4, Step
    <3> QED
      BY <2>1, <3>1, <3>2, XInvKept, CountedKept
  <2>5. CASE (DmaJob /\ DmaNext) \/ UNCHANGED all
    <3>1. UNCHANGED <<ops, status, track, req, fdc, head, env, answer>> /\ UNCHANGED vars
      BY <2>5 DEF DmaJob, driver, machine, all, xferVars
    <3>2. IInv'
      BY <3>1, Step
    <3> QED
      BY <2>1, <3>1, <3>2, XInvKept, CountedKept
  <2> QED
    BY <2>3, <2>4, <2>5 DEF MCNext
<1>3. All3 => TypesOK
  BY ShapesFollow DEF TypesOK, IInv
<1> HIDE DEF All3
<1> QED
  BY <1>1, <1>2, <1>3, PTL DEF MCSpec
=============================================================================
