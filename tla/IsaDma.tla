------------------------------- MODULE IsaDma -------------------------------
(* The ISA DMA driver, src/src/arch/i386/isa_dma.c: the pool of buffers, the *)
(* masks, and the ports a transfer is programmed through.  A buffer is its   *)
(* number in the pool.                                                       *)
EXTENDS Integers, FiniteSetsExt

CONSTANT PoolSize      \* DMA_POOL_SIZE

ASSUME DmaAssumption == PoolSize \in Nat \ {0}

Channel == 0 .. 7
Usable == Channel \ {0, 4}     \* those isa_dma_init_transfer does not refuse
Buffer == 0 .. PoolSize - 1

VARIABLES
  used,       \* used_dma_buffers
  held,       \* buffers handed out and not freed
  inOrder,    \* every buffer freed was the last one handed out
  panicked,
  mask,       \* mask[]: the channels whose bit is set
  masked,     \* the same in the controllers
  programmed  \* the ports the last transfer wrote, its address and its count

dmaVars == <<used, held, inOrder, panicked, mask, masked, programmed>>

(* After isa_dma_init: a master reset masks every channel.                   *)
DmaInit ==
  /\ used = {} /\ held = 0 /\ inOrder = TRUE /\ panicked = FALSE
  /\ mask = Channel /\ masked = Channel
  /\ programmed = [channel |-> 0, address |-> 0, count |-> 0]

-----------------------------------------------------------------------------
(* The loop of isa_dma_alloc_buffer goes on while any bit from id up is set, *)
(* so it ends one past the highest buffer in use.  (The slip ends on it.)    *)
ScanShort == IF used = {} THEN 0 ELSE Max(used)
Scan == IF used = {} THEN 0 ELSE Max(used) + 1

AllocBuffer ==
  /\ ~panicked
  /\ IF Scan \in Buffer
       THEN used' = used \cup {Scan} /\ held' = held + 1 /\ UNCHANGED panicked
       ELSE panicked' = TRUE /\ UNCHANGED <<used, held>>
  /\ UNCHANGED <<inOrder, mask, masked, programmed>>

FreeBuffer(b) ==
  /\ ~panicked /\ b \in used
  /\ used' = used \ {b} /\ held' = held - 1
  /\ inOrder' = (inOrder /\ b = Max(used))
  /\ UNCHANGED <<panicked, mask, masked, programmed>>

(* isa_dma_mask and isa_dma_unmask write the bits of a whole controller.     *)
Together(ch) == {d \in Channel : d \div 4 = ch \div 4}

WriteMask(ch, m) ==
  /\ ~panicked
  /\ mask' = m
  /\ masked' = (masked \ Together(ch)) \cup (m \cap Together(ch))
  /\ UNCHANGED <<used, held, inOrder, panicked, programmed>>

MaskChannel(ch) == WriteMask(ch, mask \cup {ch})
UnmaskChannel(ch) == WriteMask(ch, mask \ {ch})

Port(c, id) == c * 192 + id * (c + 1)

(* The registers of a channel by the table at the top of the file, and those *)
(* isa_dma_init_transfer writes: ADDR0 + n and CNT0 + n for channel n.       *)
AddressRegister(ch) == Port(ch \div 4, 2 * (ch % 4))
CountRegister(ch) == Port(ch \div 4, 2 * (ch % 4) + 1)

AddressWritten(ch) == Port(ch \div 4, ch % 4)
CountWritten(ch) == Port(ch \div 4, 1 + (ch % 4))

(* isa_dma_init_transfer, for a buffer of the pool.                          *)
Program(ch) ==
  /\ ch \in Usable
  /\ programmed' = [channel |-> ch, address |-> AddressWritten(ch), count |-> CountWritten(ch)]

InitTransfer(ch) ==
  /\ ~panicked /\ Program(ch)
  /\ UNCHANGED <<used, held, inOrder, panicked, mask, masked>>

DmaNext ==
  \/ AllocBuffer
  \/ \E b \in Buffer : FreeBuffer(b)
  \/ \E ch \in Usable : MaskChannel(ch) \/ UnmaskChannel(ch) \/ InitTransfer(ch)

-----------------------------------------------------------------------------
(* No buffer is handed out twice, and as long as buffers come back last in,  *)
(* first out the pool is exhausted only when all of it is in use.  In any    *)
(* other order a free buffer below one in use is never found again.          *)
PoolSound ==
  /\ Cardinality(used) = held
  /\ panicked /\ inOrder => used = Buffer

(* A transfer never programs the channel it is for: neither the address nor  *)
(* the count register the table gives that channel gets its value.           *)
MissesItsChannel ==
  programmed.channel # 0 =>
    /\ programmed.address # AddressRegister(programmed.channel)
    /\ programmed.count # CountRegister(programmed.channel)
=============================================================================
