------------------------------- MODULE Setjmp -------------------------------
(* src/src/arch/i386/setjmp.S.  A register is its two 16-bit halves, low    *)
(* first; jmp_buf is twelve of them, at byte offsets 0, 2, 4, ...           *)
EXTENDS Integers, Sequences, LibraryCall, TLAPS

Kept == <<"eip", "ebp", "ebx", "edi", "esi", "esp">>
Offset(r) == CHOOSE o \in {0, 4, 8, 12, 16, 20} : Kept[o \div 4 + 1] = r

(* The slip corrected: esi is loaded from where it was saved.               *)
LoadOffsetSaved(r) == Offset(r)

(* Lines 33-41: where longjmp loads each register from.                     *)
LoadOffset(r) == IF r = "esi" THEN 14 ELSE Offset(r)

Halves(regs) == [h \in 1 .. 12 |-> regs[Kept[(h + 1) \div 2]][((h + 1) % 2) + 1]]

(* setjmp, lines 9-17, and then longjmp with value, lines 30-43.            *)
SaveAndJump(regs, value) ==
  LET buf == Halves(regs)
  IN [regs |-> [r \in {Kept[k] : k \in 1 .. 6} |->
                  <<buf[LoadOffset(r) \div 2 + 1], buf[LoadOffset(r) \div 2 + 2]>>],
      eax |-> value]

CallJump == Return("longjmp", SaveAndJump(arg.regs, arg.value))

-----------------------------------------------------------------------------
(* longjmp comes back with every register as setjmp found it but esi, whose *)
(* low half is edi's high one and whose high half is its own low one        *)
(* (setjmp.S:41): esi survives only if it equals 65537 times edi's high     *)
(* half.  Lua's protected calls and errors go through this.                 *)
LongjmpRestores ==
  Returned("longjmp") =>
    LET regs == arg.regs
    IN /\ \A r \in DOMAIN regs \ {"esi"} : Result.regs[r] = regs[r]
       /\ Result.regs["esi"] = regs["esi"]
            <=> regs["esi"] = <<regs["edi"][2], regs["edi"][2]>>
       /\ Result.eax = arg.value

-----------------------------------------------------------------------------
(* Proofs, for registers of any value.                                       *)
Half == 0 .. 65535
KeptNames == {"eip", "ebp", "ebx", "edi", "esi", "esp"}

JumpInit == ret = <<>> /\ fn = "longjmp" /\ arg \in [regs : [KeptNames -> Half \X Half], value : Int]
JumpSpec == JumpInit /\ [][CallJump]_callVars

(* Where setjmp has saved each register and longjmp looks for it.            *)
LEMMA Offsets ==
  /\ LoadOffset("eip") = 0 /\ LoadOffset("ebp") = 4 /\ LoadOffset("ebx") = 8 /\ LoadOffset("edi") = 12
  /\ LoadOffset("esi") = 14 /\ LoadOffset("esp") = 20
<1>1. /\ 0 \div 4 + 1 = 1 /\ 4 \div 4 + 1 = 2 /\ 8 \div 4 + 1 = 3 /\ 12 \div 4 + 1 = 4
      /\ 16 \div 4 + 1 = 5 /\ 20 \div 4 + 1 = 6
  OBVIOUS
<1> QED
  BY <1>1 DEF LoadOffset, Offset, Kept

(* The halves of the registers, one after the other.                         *)
LEMMA Saved ==
  ASSUME NEW regs
  PROVE  /\ Halves(regs)[1] = regs["eip"][1] /\ Halves(regs)[2] = regs["eip"][2]
         /\ Halves(regs)[3] = regs["ebp"][1] /\ Halves(regs)[4] = regs["ebp"][2]
         /\ Halves(regs)[5] = regs["ebx"][1] /\ Halves(regs)[6] = regs["ebx"][2]
         /\ Halves(regs)[7] = regs["edi"][1] /\ Halves(regs)[8] = regs["edi"][2]
         /\ Halves(regs)[9] = regs["esi"][1] /\ Halves(regs)[10] = regs["esi"][2]
         /\ Halves(regs)[11] = regs["esp"][1] /\ Halves(regs)[12] = regs["esp"][2]
<1>1. \A h \in 1 .. 12 : Halves(regs)[h] = regs[Kept[(h + 1) \div 2]][((h + 1) % 2) + 1]
  BY DEF Halves
<1>2. /\ (1 + 1) \div 2 = 1 /\ (2 + 1) \div 2 = 1 /\ (3 + 1) \div 2 = 2 /\ (4 + 1) \div 2 = 2
      /\ (5 + 1) \div 2 = 3 /\ (6 + 1) \div 2 = 3 /\ (7 + 1) \div 2 = 4 /\ (8 + 1) \div 2 = 4
      /\ (9 + 1) \div 2 = 5 /\ (10 + 1) \div 2 = 5 /\ (11 + 1) \div 2 = 6 /\ (12 + 1) \div 2 = 6
  OBVIOUS
<1>3. /\ ((1 + 1) % 2) + 1 = 1 /\ ((2 + 1) % 2) + 1 = 2 /\ ((3 + 1) % 2) + 1 = 1 /\ ((4 + 1) % 2) + 1 = 2
      /\ ((5 + 1) % 2) + 1 = 1 /\ ((6 + 1) % 2) + 1 = 2 /\ ((7 + 1) % 2) + 1 = 1 /\ ((8 + 1) % 2) + 1 = 2
      /\ ((9 + 1) % 2) + 1 = 1 /\ ((10 + 1) % 2) + 1 = 2 /\ ((11 + 1) % 2) + 1 = 1 /\ ((12 + 1) % 2) + 1 = 2
  OBVIOUS
<1> QED
  BY <1>1, <1>2, <1>3 DEF Kept

(* What a longjmp leaves in the registers.                                   *)
LEMMA JumpRestores ==
  ASSUME NEW regs \in [KeptNames -> Half \X Half], NEW value
  PROVE  LET after == SaveAndJump(regs, value)
         IN /\ \A r \in KeptNames \ {"esi"} : after.regs[r] = regs[r]
            /\ after.regs["esi"] = <<regs["edi"][2], regs["esi"][1]>>
            /\ after.eax = value
<1> DEFINE after == SaveAndJump(regs, value)
           buf == Halves(regs)
<1>1. after.eax = value
  BY DEF SaveAndJump
<1>2. {Kept[k] : k \in 1 .. 6} = KeptNames
  BY DEF Kept, KeptNames
<1>3. \A r \in KeptNames : after.regs[r] = <<buf[LoadOffset(r) \div 2 + 1], buf[LoadOffset(r) \div 2 + 2]>>
  BY <1>2 DEF SaveAndJump
<1>4. \A r \in KeptNames : regs[r] = <<regs[r][1], regs[r][2]>>
  OBVIOUS
<1>5. /\ 0 \div 2 = 0 /\ 4 \div 2 = 2 /\ 8 \div 2 = 4 /\ 12 \div 2 = 6 /\ 14 \div 2 = 7 /\ 20 \div 2 = 10
  OBVIOUS
<1> HIDE DEF after, buf
<1>6. /\ after.regs["eip"] = <<buf[1], buf[2]>> /\ after.regs["ebp"] = <<buf[3], buf[4]>>
      /\ after.regs["ebx"] = <<buf[5], buf[6]>> /\ after.regs["edi"] = <<buf[7], buf[8]>>
      /\ after.regs["esi"] = <<buf[8], buf[9]>> /\ after.regs["esp"] = <<buf[11], buf[12]>>
  BY <1>3, <1>5, Offsets DEF KeptNames
<1>7. /\ after.regs["eip"] = regs["eip"] /\ after.regs["ebp"] = regs["ebp"] /\ after.regs["ebx"] = regs["ebx"]
      /\ after.regs["edi"] = regs["edi"] /\ after.regs["esp"] = regs["esp"]
      /\ after.regs["esi"] = <<regs["edi"][2], regs["esi"][1]>>
  BY <1>4, <1>6, Saved DEF buf, KeptNames
<1> QED
  BY <1>1, <1>7 DEF after, KeptNames

JumpInv ==
  /\ fn = "longjmp" /\ arg \in [regs : [KeptNames -> Half \X Half], value : Int]
  /\ ret = <<>> \/ ret = <<SaveAndJump(arg.regs, arg.value)>>

(* The stack, the frame and the address longjmp returns to are those of      *)
(* setjmp, and so are ebx and edi, whatever they hold; esi is lost but by    *)
(* chance.                                                                   *)
THEOREM LongjmpKeepsAllButEsi == JumpSpec => []LongjmpRestores
<1>1. JumpInit => JumpInv
  BY DEF JumpInit, JumpInv
<1>2. JumpInv /\ [CallJump]_callVars => JumpInv'
  BY DEF JumpInv, CallJump, Return, callVars
<1>3. JumpInv => LongjmpRestores
  <2> SUFFICES ASSUME JumpInv, ret # <<>>
               PROVE  LongjmpRestores
    BY DEF LongjmpRestores, Returned
  <2> DEFINE regs == arg.regs
  <2>1. regs \in [KeptNames -> Half \X Half] /\ ret = <<SaveAndJump(regs, arg.value)>>
    BY DEF JumpInv
  <2>2. Result = SaveAndJump(regs, arg.value)
    BY <2>1 DEF Result
  <2>3. /\ \A r \in KeptNames \ {"esi"} : Result.regs[r] = regs[r]
        /\ Result.regs["esi"] = <<regs["edi"][2], regs["esi"][1]>>
        /\ Result.eax = arg.value
    BY <2>1, <2>2, JumpRestores
  <2>4. DOMAIN regs = KeptNames /\ regs["esi"] = <<regs["esi"][1], regs["esi"][2]>>
    BY <2>1 DEF KeptNames
  <2> HIDE DEF regs
  <2>5. Result.regs["esi"] = regs["esi"] <=> regs["esi"] = <<regs["edi"][2], regs["edi"][2]>>
    BY <2>3, <2>4
  <2> QED
    BY <2>3, <2>4, <2>5 DEF LongjmpRestores, regs
<1> QED
  BY <1>1, <1>2, <1>3, PTL DEF JumpSpec
=============================================================================
