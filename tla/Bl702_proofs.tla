---------------------------- MODULE Bl702_proofs ---------------------------
(***************************************************************************)
(* Theorems about Bl702 for every size of i2c_buf, of the ring and of a    *)
(* transfer, and for every length of a block: what a block is made of, and *)
(* what becomes of its bytes on their way to the host.                     *)
(***************************************************************************)
EXTENDS Bl702, SequenceTheorems, TLAPS

Slot == 0 .. Slots - 1

\* The types of what task_I2C and the timer share.
SampleTypes ==
  /\ i2c_buf \in [Slot -> Nat] /\ meas \in Nat
  /\ i2c_buf_wr \in Slot /\ i2c_buf_rd \in Slot
  /\ pktcnt \in {0, PktCnt}
  /\ task \in [prd : Slot, wrapped : BOOLEAN, count : {0, PktCnt}]

\* Once the timer came round, every slot is of this measurement.
Round == \A i \in Slot : i2c_buf[i] = meas

\* Before that the slots written since the flush are, and the reader is
\* behind the timer with all that it has set out to take.
Behind ==
  /\ \A i \in 0 .. i2c_buf_wr - 1 : i2c_buf[i] = meas
  /\ i2c_buf_rd <= i2c_buf_wr
  /\ InTask => task.prd <= i2c_buf_wr
  /\ pc = "copy" => task.prd + pktcnt <= i2c_buf_wr
  /\ pc = "index" => task.prd + task.count <= i2c_buf_wr
  /\ pc \in {"copy", "index"} => task.wrapped = FALSE

SlotInv == SampleTypes /\ (~restarted => Round \/ Behind)

LEMMA Sizes == Slots \in Nat \ {0} /\ PktCnt \in Nat \ {0} /\ PktCnt < Slots
BY SizeAssumption

-----------------------------------------------------------------------------
LEMMA InitSlots == Init => SlotInv
<1> SUFFICES ASSUME Init PROVE SlotInv
  OBVIOUS
<1>1. SampleTypes
  BY Sizes DEF Init, SampleTypes, Slot
<1>2. Round
  BY DEF Init, Round, Slot
<1> QED
  BY <1>1, <1>2 DEF SlotInv

LEMMA TimerStep == ASSUME SlotInv, timer1_isr PROVE SlotInv'
<1>1. /\ i2c_buf' = [i2c_buf EXCEPT ![i2c_buf_wr] = meas]
      /\ i2c_buf_wr' = (i2c_buf_wr + 1) % Slots
      /\ UNCHANGED <<pc, i2c_buf_rd, pktcnt, meas, restarted, task>>
  BY DEF timer1_isr
<1>2. SampleTypes'
  BY <1>1, Sizes DEF SlotInv, SampleTypes, Slot
<1>3. ASSUME Round PROVE Round'
  BY <1>1, <1>3 DEF Round, SlotInv, SampleTypes
<1>4. ASSUME Behind PROVE Round' \/ Behind'
  <2>1. i2c_buf_wr \in Nat /\ i2c_buf_wr <= Slots - 1
    BY Sizes DEF SlotInv, SampleTypes, Slot
  <2>2. \A i \in 0 .. i2c_buf_wr : i2c_buf'[i] = meas
    <3> TAKE i \in 0 .. i2c_buf_wr
    <3>1. i \in Slot
      BY <2>1, Sizes DEF Slot
    <3> QED
      BY <1>1, <1>4, <2>1, <3>1 DEF Behind, SlotInv, SampleTypes
  <2>3. CASE i2c_buf_wr + 1 = Slots
    <3>1. Slot = 0 .. i2c_buf_wr
      BY <2>1, <2>3, Sizes DEF Slot
    <3> QED
      BY <1>1, <2>2, <3>1 DEF Round
  <2>4. CASE i2c_buf_wr + 1 < Slots
    <3>1. i2c_buf_wr' = i2c_buf_wr + 1
      BY <1>1, <2>1, <2>4, Sizes
    <3>2. /\ i2c_buf_rd \in Nat /\ task.prd \in Nat /\ task.count \in Nat
          /\ pktcnt \in Nat
      BY Sizes DEF SlotInv, SampleTypes, Slot
    <3>3. \A i \in 0 .. i2c_buf_wr' - 1 : i2c_buf'[i] = meas'
      BY <1>1, <2>1, <2>2, <3>1
    <3> QED
      BY <1>1, <1>4, <2>1, <3>1, <3>2, <3>3 DEF Behind, InTask
  <2> QED
    BY <2>1, <2>3, <2>4, Sizes
<1> QED
  BY <1>1, <1>2, <1>3, <1>4 DEF SlotInv

\* The commands: the flush starts anew, and a command without one only ends
\* the measurement.
LEMMA SetUpStep ==
  ASSUME SlotInv, NEW r \in Request \cup {"stop", "refuse"}, InitI2CDevice(r),
         UNCHANGED <<pc, task>>
  PROVE  SlotInv'
<1>1. CASE r # "refuse"
  <2>1. /\ i2c_buf_wr' = 0 /\ i2c_buf_rd' = 0 /\ restarted' = InTask
        /\ i2c_buf' = i2c_buf
        /\ pktcnt' \in {0, PktCnt}
        /\ meas' \in {meas, meas + 1}
    BY <1>1 DEF InitI2CDevice, FlushI2CBuf
  <2>2. SampleTypes'
    BY <2>1, Sizes DEF SlotInv, SampleTypes, Slot
  <2>3. ASSUME ~restarted' PROVE Behind'
    <3>1. ~InTask /\ pc' = pc
      BY <2>1, <2>3
    <3>2. \A i \in 0 .. i2c_buf_wr' - 1 : i2c_buf'[i] = meas'
      BY <2>1
    <3> QED
      BY <2>1, <3>1, <3>2 DEF Behind, InTask
  <2> QED
    BY <2>2, <2>3 DEF SlotInv
<1>2. CASE r = "refuse"
  <2>1. /\ pktcnt' = 0
        /\ UNCHANGED <<i2c_buf, i2c_buf_wr, i2c_buf_rd, meas, restarted>>
    BY <1>2 DEF InitI2CDevice
  <2>2. SampleTypes'
    BY <2>1 DEF SlotInv, SampleTypes
  <2>3. Behind => Behind'
    <3>1. task.prd \in Nat
      BY Sizes DEF SlotInv, SampleTypes, Slot
    <3> QED
      BY <2>1, <3>1 DEF Behind, InTask
  <2>4. Round => Round'
    BY <2>1 DEF Round
  <2> QED
    BY <2>1, <2>2, <2>3, <2>4 DEF SlotInv
<1> QED
  BY <1>1, <1>2

LEMMA SamplingKept ==
  ASSUME SlotInv, UNCHANGED <<sampling, task>>,
         ~InTask' \/ UNCHANGED pc
  PROVE  SlotInv'
BY DEF SlotInv, SampleTypes, Round, Behind, InTask, sampling

LEMMA InterruptStep == ASSUME SlotInv, Interrupt PROVE SlotInv'
<1>1. CASE timer1_isr
  BY <1>1, TimerStep
<1>2. CASE dma0_ch0_isr
  BY <1>2, SamplingKept DEF dma0_ch0_isr
<1>3. ASSUME NEW r \in Request, usbd_cdc_acm_bulk_out(r) PROVE SlotInv'
  <2>1. cmd_decode(r) /\ UNCHANGED <<pc, task>>
    BY <1>3 DEF usbd_cdc_acm_bulk_out
  <2>2. InitI2CDevice(r) \/ UNCHANGED sampling
    BY <2>1 DEF cmd_decode
  <2> QED
    BY <2>1, <2>2, SetUpStep, SamplingKept
<1>4. CASE usbd_cdc_acm_set_dtr
  <2>1. UNCHANGED <<pc, task>>
    BY <1>4 DEF usbd_cdc_acm_set_dtr
  <2>2. \E r \in {"stop", "refuse"} : InitI2CDevice(r)
    BY <1>4 DEF usbd_cdc_acm_set_dtr
  <2> QED
    BY <2>1, <2>2, SetUpStep
<1>5. CASE HostIn \/ BusReset \/ Configure
  BY <1>5, SamplingKept DEF HostIn, BusReset, Configure
<1> QED
  BY <1>1, <1>2, <1>3, <1>4, <1>5 DEF Interrupt

-----------------------------------------------------------------------------
(***************************************************************************)
(* task_I2C.                                                               *)
(***************************************************************************)
LEMMA ReadStep == ASSUME SlotInv, TaskRead PROVE SlotInv'
<1>1. /\ task' = [task EXCEPT !.prd = i2c_buf_rd] /\ pc' = "pick"
      /\ UNCHANGED sampling
  BY DEF TaskRead
<1>2. task' \in [prd : Slot, wrapped : BOOLEAN, count : {0, PktCnt}]
      /\ task'.prd = i2c_buf_rd
  BY <1>1 DEF SlotInv, SampleTypes
<1> QED
  BY <1>1, <1>2 DEF SlotInv, SampleTypes, Round, Behind, InTask, sampling

LEMMA PickStep == ASSUME SlotInv, TaskPick PROVE SlotInv'
<1>1. /\ task' = [task EXCEPT !.wrapped = i2c_buf_wr < task.prd] /\ pc = "pick"
      /\ pc' = IF BlockPending(task.prd, i2c_buf_wr) THEN "copy" ELSE "wait"
      /\ UNCHANGED sampling
  BY DEF TaskPick
<1>2. /\ i2c_buf_wr \in 0 .. Slots - 1 /\ task.prd \in 0 .. Slots - 1
      /\ pktcnt \in Nat
  BY Sizes DEF SlotInv, SampleTypes, Slot
<1>3. /\ task' \in [prd : Slot, wrapped : BOOLEAN, count : {0, PktCnt}]
      /\ task'.prd = task.prd
      /\ i2c_buf_wr >= task.prd => task'.wrapped = FALSE
  <2>1. (i2c_buf_wr < task.prd) \in BOOLEAN
    OBVIOUS
  <2>2. i2c_buf_wr >= task.prd => (i2c_buf_wr < task.prd) = FALSE
    BY <1>2, Sizes
  <2> QED
    BY <1>1, <2>1, <2>2 DEF SlotInv, SampleTypes
<1>4. ASSUME BlockPending(task.prd, i2c_buf_wr), task.prd <= i2c_buf_wr
      PROVE  task.prd + pktcnt <= i2c_buf_wr
  <2>1. (i2c_buf_wr + Slots - task.prd) % Slots = i2c_buf_wr - task.prd
    BY <1>2, <1>4, Sizes
  <2> QED
    BY <1>2, <1>4, <2>1, Sizes DEF BlockPending
<1>5. ASSUME Behind PROVE Behind'
  <2>1. task.prd <= i2c_buf_wr
    BY <1>1, <1>5 DEF Behind, InTask
  <2> QED
    BY <1>1, <1>2, <1>3, <1>4, <1>5, <2>1 DEF Behind, InTask, sampling
<1>6. ASSUME Round PROVE Round'
  BY <1>1, <1>6 DEF Round, sampling
<1>7. SampleTypes'
  BY <1>1, <1>3 DEF SlotInv, SampleTypes, sampling
<1> QED
  BY <1>1, <1>5, <1>6, <1>7 DEF SlotInv, sampling

\* What is copied is of this measurement.
LEMMA CopyStep ==
  ASSUME SlotInv, TaskCopy
  PROVE  SlotInv' /\ (stale' => stale \/ restarted)
<1>1. /\ task' = [task EXCEPT !.count = pktcnt] /\ pc = "copy" /\ pc' = "index"
      /\ UNCHANGED sampling
  BY DEF TaskCopy
<1>2. /\ i2c_buf_wr \in 0 .. Slots - 1 /\ task.prd \in 0 .. Slots - 1
      /\ pktcnt \in Nat
  BY Sizes DEF SlotInv, SampleTypes, Slot
<1>3. /\ task' \in [prd : Slot, wrapped : BOOLEAN, count : {0, PktCnt}]
      /\ task'.prd = task.prd /\ task'.count = pktcnt
      /\ task'.wrapped = task.wrapped
  BY <1>1 DEF SlotInv, SampleTypes
<1>4. SlotInv'
  BY <1>1, <1>3 DEF SlotInv, SampleTypes, Round, Behind, InTask, sampling
<1>5. ASSUME ~restarted, NEW k \in 0 .. pktcnt - 1
      PROVE  i2c_buf[(task.prd + k) % Slots] = meas
  <2>1. CASE Round
    <3>1. (task.prd + k) % Slots \in Slot
      BY <1>2, Sizes DEF Slot
    <3> QED
      BY <2>1, <3>1 DEF Round
  <2>2. CASE Behind
    <3>1. task.prd + pktcnt <= i2c_buf_wr
      BY <1>1, <2>2 DEF Behind
    <3>2. task.prd + k \in 0 .. i2c_buf_wr - 1
      BY <1>2, <3>1
    <3>3. (task.prd + k) % Slots = task.prd + k
      <4>1. PICK a \in 0 .. Slots - 1 : a = task.prd + k
        BY <1>2, <3>2, Sizes
      <4>2. a % Slots = a
        BY <4>1, Sizes
      <4> QED
        BY <4>1, <4>2
    <3> QED
      BY <2>2, <3>2, <3>3 DEF Behind
  <2> QED
    BY <1>5, <2>1, <2>2 DEF SlotInv
<1> QED
  BY <1>4, <1>5 DEF TaskCopy

LEMMA IndexStep == ASSUME SlotInv, TaskIndex PROVE SlotInv'
<1>1. /\ i2c_buf_rd' = NewRd(task) /\ pc = "index" /\ pc' = "length"
      /\ UNCHANGED <<i2c_buf, i2c_buf_wr, pktcnt, meas, restarted, task>>
  BY DEF TaskIndex
<1>2. /\ i2c_buf_wr \in 0 .. Slots - 1 /\ task.prd \in 0 .. Slots - 1
      /\ task.count \in Nat /\ task.count < Slots
  BY Sizes DEF SlotInv, SampleTypes, Slot
<1>3. NewRd(task) \in Slot
  BY <1>2, Sizes DEF NewRd, Slot
<1>4. ASSUME Behind PROVE Behind'
  <2>1. task.prd + task.count <= i2c_buf_wr /\ task.wrapped = FALSE
    BY <1>1, <1>4 DEF Behind
  <2>2. NewRd(task) = task.prd + task.count
    <3>1. (task.prd + task.count) % Slots = task.prd + task.count
      BY <1>2, <2>1, Sizes
    <3> QED
      BY <2>1, <3>1 DEF NewRd
  <2> QED
    BY <1>1, <1>4, <2>1, <2>2 DEF Behind, InTask
<1> QED
  BY <1>1, <1>3, <1>4 DEF SlotInv, SampleTypes, Round

LEMMA RestStep ==
  ASSUME SlotInv,
         WriteLength \/ WriteRoom \/ WriteStore \/ WriteAdvance \/ WriteMirror
         \/ ReadLength \/ ReadSize \/ ReadCopy \/ ReadMirror \/ Send
         \/ UNCHANGED vars
  PROVE  SlotInv' /\ UNCHANGED stale
<1>1. UNCHANGED <<sampling, task, stale>>
  BY DEF WriteLength, WriteRoom, WriteStore, WriteAdvance, WriteMirror, ReadLength,
     ReadSize, ReadCopy, ReadMirror, Send, vars
<1>2. ~InTask' \/ UNCHANGED pc
  BY DEF WriteLength, WriteRoom, WriteStore, WriteAdvance, WriteMirror, ReadLength,
     ReadSize, ReadCopy, ReadMirror, Send, vars, InTask
<1> QED
  BY <1>1, <1>2, SamplingKept

LEMMA StaleStep ==
  ASSUME SlotInv, [Next]_vars
  PROVE  SlotInv' /\ (stale' => stale \/ restarted)
<1>1. CASE Interrupt
  <2>1. UNCHANGED stale
    BY <1>1 DEF Interrupt, timer1_isr, dma0_ch0_isr, usbd_cdc_acm_bulk_out,
       usbd_cdc_acm_set_dtr, HostIn, BusReset, Configure
  <2> QED
    BY <1>1, <2>1, InterruptStep
<1>2. CASE TaskRead \/ TaskPick \/ TaskIndex
  <2>1. UNCHANGED stale
    BY <1>2 DEF TaskRead, TaskPick, TaskIndex
  <2> QED
    BY <1>2, <2>1, ReadStep, PickStep, IndexStep
<1>3. CASE TaskCopy
  BY <1>3, CopyStep
<1> QED
  BY <1>1, <1>2, <1>3, RestStep DEF Next, MainLoop

(***************************************************************************)
(* Whatever the timer overtakes and whatever the commands do, unless one   *)
(* flushed i2c_buf while task_I2C was using its indices a block holds      *)
(* samples of the running measurement only.                                *)
(***************************************************************************)
THEOREM BlocksAreFresh == Spec => FreshBlock
<1>1. SlotInv /\ [Next]_vars => SlotInv' /\ [stale' => (stale \/ restarted)]_vars
  BY StaleStep
<1> QED
  BY <1>1, InitSlots, PTL DEF Spec, FreshBlock

-----------------------------------------------------------------------------
(***************************************************************************)
(* The ring buffer and the stream through it.  Every byte has a number,    *)
(* and the invariant says where byte p is: the last one the host took, in  *)
(* the endpoint or write_buffer, or in the cell of the ring that the       *)
(* mirrors and indices make the (p - Taken)-th of those held.              *)
(***************************************************************************)
Cell == 0 .. Size - 1

\* The types of what the stream passes through.
PipeTypes ==
  /\ usb_tx_rb \in [mem : [Cell -> Byte], readMirror : 0 .. 1, readIndex : Cell,
                    writeMirror : 0 .. 1, writeIndex : Cell]
  /\ op \in [rm : Nat, wm : Nat, n : Nat, left : Nat]
  /\ write_buffer \in Seq(Byte)
  /\ ep \in [enable : BOOLEAN, ready : BOOLEAN, left : Seq(Byte), done : Nat]
  /\ page \in [last : Byte, open : BOOLEAN, lost : BOOLEAN, broken : BOOLEAN]
  /\ written \in Nat

\* The bytes between the ring and the host, and how many have left the ring.
Transit == IF pc \in {"rmirror", "send"} THEN write_buffer ELSE ep.left
Taken == page.last.n + Len(Transit)
Held == written - Taken

\* The cell of the ring k behind cell i.
At(i, k) == IF i + k < Size THEN i + k ELSE i + k - Size

\* Where byte p of the stream is: the last one the host took, on its way, or in
\* the ring.
Numbered(p) ==
  IF p = page.last.n THEN page.last
  ELSE IF p <= Taken THEN Transit[p - page.last.n]
  ELSE usb_tx_rb.mem[At(usb_tx_rb.readIndex, p - Taken - 1)]

\* The last byte of the stream: those of the block in hand are in the ring before
\* they count as written.
End == IF pc = "advance" THEN written + op.n ELSE written

\* Mirrors as they are once the operation in hand has flipped them, and what they
\* and the indices say of the bytes held.
FlipDue == ~(op.left > op.n)
ReadSide == IF pc = "rmirror" /\ FlipDue THEN 1 - usb_tx_rb.readMirror
            ELSE usb_tx_rb.readMirror
WriteSide == IF pc = "mirror" /\ FlipDue THEN 1 - usb_tx_rb.writeMirror
             ELSE usb_tx_rb.writeMirror

Holds(rm, wm, ri, wi, held) ==
  /\ rm = wm => ri <= wi /\ held = wi - ri
  /\ rm # wm => wi <= ri /\ held = Size - (ri - wi)

RingInv ==
  /\ Taken <= written
  /\ Holds(ReadSide, WriteSide, usb_tx_rb.readIndex, usb_tx_rb.writeIndex, Held)

\* What the operation in hand has read agrees with the ring.
OpInv ==
  /\ pc \in {"room", "rsize"} => op.rm = usb_tx_rb.readMirror /\ op.wm = usb_tx_rb.writeMirror
  /\ pc \in {"store", "advance"} =>
       /\ op.n \in 1 .. HeadLen + task.count /\ op.n <= Size - Held
       /\ ~cut => op.n = HeadLen + task.count
  /\ pc = "advance" => op.left = Size - usb_tx_rb.writeIndex
  /\ pc = "rcopy" => op.n \in 1 .. Held

\* One transfer at a time: the flag is taken before the ring is read.
TransferInv ==
  /\ ep.enable
  /\ ~ep.ready => ep.left = <<>>
  /\ ~ep_tx_busy_flag => ~ep.ready
  /\ pc \in {"rsize", "rcopy", "rmirror", "send"} => ep_tx_busy_flag /\ ~ep.ready

\* From the host to the end of the ring, bytes follow each other, and as long as no
\* write was cut so do blocks.
StreamInv ==
  /\ \A p \in page.last.n .. End : Numbered(p).n = p
  /\ ~cut => /\ \A p \in page.last.n .. End - 1 : Follows(Numbered(p), Numbered(p + 1))
             /\ Numbered(End).at = Numbered(End).of
  /\ ~page.lost /\ (~cut => ~page.broken)

PipeInv == PipeTypes /\ RingInv /\ OpInv /\ TransferInv /\ StreamInv

LEMMA StreamSizes ==
  /\ Size \in Nat /\ Size > 0 /\ Word \in Nat /\ 4 * Size < Word
  /\ TxLen \in Nat /\ TxLen > 0 /\ Packet \in Nat /\ Packet > 0
  /\ HeadLen \in Nat /\ HeadLen > 0 /\ ReplyLen \in Nat /\ ReplyLen > 0
  /\ AdcLen \in Nat /\ AdcLen > 0 /\ PktCnt \in Nat
BY SizeAssumption

-----------------------------------------------------------------------------
(***************************************************************************)
(* The arithmetic of ring_buffer.c.                                        *)
(***************************************************************************)
LEMMA MinusIs ==
  ASSUME NEW a \in 0 .. Size, NEW b \in 0 .. a PROVE Minus(a, b) = a - b
<1>1. PICK d \in Nat : d = a - b /\ d < Word /\ a + Word - b = d + Word
  <2>1. a - b \in Nat /\ a - b < Word /\ a + Word - b = (a - b) + Word
    BY StreamSizes
  <2> QED
    BY <2>1
<1>2. (d + Word) % Word = d
  BY <1>1, StreamSizes
<1> QED
  BY <1>1, <1>2 DEF Minus

\* Ring_Buffer_Get_Length and _Get_Empty_Length return what the ring holds and
\* has room for, if mirrors and indices are of the same moment.
LEMMA LengthIs ==
  ASSUME NEW rm, NEW wm, NEW ri \in Cell, NEW wi \in Cell, NEW held,
         Holds(rm, wm, ri, wi, held)
  PROVE  /\ held \in 0 .. Size
         /\ Length(rm, wm, ri, wi) = held
         /\ Empty(rm, wm, ri, wi) = Size - held
<1>1. held \in 0 .. Size
  BY StreamSizes DEF Holds, Cell
<1>2. Length(rm, wm, ri, wi) = held
  <2>1. CASE rm = wm
    <3>1. wi \in 0 .. Size /\ ri \in 0 .. wi /\ held = wi - ri
      BY <2>1, StreamSizes DEF Holds, Cell
    <3> QED
      BY <2>1, <3>1, MinusIs DEF Length
  <2>2. CASE rm # wm
    <3>1. ri \in 0 .. Size /\ wi \in 0 .. ri /\ held = Size - (ri - wi)
      BY <2>2, StreamSizes DEF Holds, Cell
    <3>2. Minus(ri, wi) = ri - wi
      BY <3>1, MinusIs
    <3>3. ri - wi \in 0 .. Size /\ Size \in 0 .. Size
      BY <3>1, StreamSizes
    <3>4. Minus(Size, ri - wi) = Size - (ri - wi)
      BY <3>3, MinusIs
    <3> QED
      BY <2>2, <3>1, <3>2, <3>4 DEF Length
  <2> QED
    BY <2>1, <2>2
<1>3. Minus(Size, held) = Size - held
  BY <1>1, MinusIs, StreamSizes
<1> QED
  BY <1>1, <1>2, <1>3 DEF Empty

\* An index that goes round flips its mirror: what the ring holds stays right.
LEMMA WriteMoves ==
  ASSUME NEW rm \in 0 .. 1, NEW wm \in 0 .. 1, NEW ri \in Cell, NEW wi \in Cell, NEW held,
         Holds(rm, wm, ri, wi, held), NEW n \in 1 .. Size - held
  PROVE  /\ At(wi, n) \in Cell
         /\ At(wi, n) = IF Size - wi > n THEN wi + n ELSE n - (Size - wi)
         /\ Holds(rm, IF Size - wi > n THEN wm ELSE 1 - wm, ri, At(wi, n), held + n)
<1>1. /\ ri \in Nat /\ ri < Size /\ wi \in Nat /\ wi < Size /\ n \in Nat /\ n > 0
      /\ held \in Nat /\ n <= Size - held /\ Size \in Nat
  BY LengthIs, StreamSizes DEF Cell
<1>2. /\ At(wi, n) \in Cell
      /\ At(wi, n) = IF Size - wi > n THEN wi + n ELSE n - (Size - wi)
  BY <1>1 DEF At, Cell
<1>3. CASE Size - wi > n
  <2>1. At(wi, n) = wi + n
    BY <1>2, <1>3
  <2>2. Holds(rm, wm, ri, wi + n, held + n)
    BY <1>1, <1>3 DEF Holds
  <2> QED
    BY <1>2, <1>3, <2>1, <2>2
<1>4. CASE ~(Size - wi > n)
  <2>1. At(wi, n) = n - (Size - wi)
    BY <1>2, <1>4
  <2>2. rm = wm
    BY <1>1, <1>4 DEF Holds
  <2>3. Holds(rm, 1 - wm, ri, n - (Size - wi), held + n)
    BY <1>1, <1>4, <2>2 DEF Holds
  <2> QED
    BY <1>2, <1>4, <2>1, <2>3
<1> QED
  BY <1>3, <1>4

LEMMA ReadMoves ==
  ASSUME NEW rm \in 0 .. 1, NEW wm \in 0 .. 1, NEW ri \in Cell, NEW wi \in Cell, NEW held,
         Holds(rm, wm, ri, wi, held), NEW n \in 1 .. held
  PROVE  /\ At(ri, n) \in Cell
         /\ At(ri, n) = IF Size - ri > n THEN ri + n ELSE n - (Size - ri)
         /\ Holds(IF Size - ri > n THEN rm ELSE 1 - rm, wm, At(ri, n), wi, held - n)
<1>1. /\ ri \in Nat /\ ri < Size /\ wi \in Nat /\ wi < Size /\ n \in Nat /\ n > 0
      /\ held \in Nat /\ n <= held /\ held <= Size /\ Size \in Nat
  BY LengthIs, StreamSizes DEF Cell
<1>2. /\ At(ri, n) \in Cell
      /\ At(ri, n) = IF Size - ri > n THEN ri + n ELSE n - (Size - ri)
  BY <1>1 DEF At, Cell
<1>3. CASE Size - ri > n
  <2>1. At(ri, n) = ri + n
    BY <1>2, <1>3
  <2>2. Holds(rm, wm, ri + n, wi, held - n)
    BY <1>1, <1>3 DEF Holds
  <2> QED
    BY <1>2, <1>3, <2>1, <2>2
<1>4. CASE ~(Size - ri > n)
  <2>1. At(ri, n) = n - (Size - ri)
    BY <1>2, <1>4
  <2>2. rm # wm
    BY <1>1, <1>4 DEF Holds
  <2>3. 1 - rm = wm
    BY <2>2
  <2>4. Holds(1 - rm, wm, n - (Size - ri), wi, held - n)
    BY <1>1, <1>4, <2>2, <2>3 DEF Holds
  <2> QED
    BY <1>2, <1>4, <2>1, <2>4
<1> QED
  BY <1>3, <1>4

\* The cells of the ring, counted from an index.
LEMMA AtIs ==
  ASSUME NEW i \in Cell
  PROVE  /\ \A k \in Cell : At(i, k) \in Cell
         /\ \A h, k \in Cell : h # k => At(i, h) # At(i, k)
         /\ \A n, k \in Nat : n + k < Size => At(At(i, n), k) = At(i, n + k)
         /\ \A k \in Cell : At(At(i, Size), k) = At(i, k)
<1>1. i \in Nat /\ i < Size /\ Size \in Nat
  BY StreamSizes DEF Cell
<1>2. \A k \in Cell : At(i, k) \in Cell
  BY <1>1 DEF At, Cell
<1>3. \A h, k \in Cell : h # k => At(i, h) # At(i, k)
  BY <1>1 DEF At, Cell
<1>4. \A n, k \in Nat : n + k < Size => At(At(i, n), k) = At(i, n + k)
  BY <1>1 DEF At
<1>5. \A k \in Cell : At(At(i, Size), k) = At(i, k)
  BY <1>1 DEF At, Cell
<1> QED
  BY <1>2, <1>3, <1>4, <1>5

\* The room of the ring begins behind what it holds.
LEMMA RoomBehind ==
  ASSUME NEW rm, NEW wm, NEW ri \in Cell, NEW wi \in Cell, NEW held,
         Holds(rm, wm, ri, wi, held)
  PROVE  wi = At(ri, held)
<1>1. /\ ri \in Nat /\ ri < Size /\ wi \in Nat /\ wi < Size /\ Size \in Nat
      /\ held \in Nat /\ held <= Size
  BY LengthIs, StreamSizes DEF Cell
<1>2. CASE rm = wm
  BY <1>1, <1>2 DEF Holds, At
<1>3. CASE rm # wm
  BY <1>1, <1>3 DEF Holds, At
<1> QED
  BY <1>2, <1>3

-----------------------------------------------------------------------------
(***************************************************************************)
(* memcpy to the ring and from it, in one piece or in two.                 *)
(***************************************************************************)
LEMMA CopyToIs ==
  ASSUME NEW mem \in [Cell -> Byte], NEW i \in Nat, NEW s \in Seq(Byte)
  PROVE  /\ CopyTo(mem, i, s) \in [Cell -> Byte]
         /\ \A j \in Cell : CopyTo(mem, i, s)[j] =
              IF i <= j /\ j < i + Len(s) THEN s[j - i + 1] ELSE mem[j]
<1>1. CopyTo(mem, i, s) =
        [j \in Cell |-> IF i <= j /\ j < i + Len(s) THEN s[j - i + 1] ELSE mem[j]]
  BY DEF CopyTo, Cell
<1>2. ASSUME NEW j \in Cell, i <= j, j < i + Len(s) PROVE s[j - i + 1] \in Byte
  <2>1. j - i + 1 \in 1 .. Len(s)
    BY <1>2, LenProperties DEF Cell
  <2> QED
    BY <2>1, ElementOfSeq
<1> QED
  BY <1>1, <1>2

LEMMA FillIs ==
  ASSUME NEW r, r.mem \in [Cell -> Byte], NEW wi \in Cell, r.writeIndex = wi,
         NEW data \in Seq(Byte), Len(data) <= Size
  PROVE  /\ Fill(r, data, Size - wi) \in [Cell -> Byte]
         /\ \A k \in 1 .. Len(data) : Fill(r, data, Size - wi)[At(wi, k - 1)] = data[k]
         /\ \A j \in Cell : (\A k \in 1 .. Len(data) : j # At(wi, k - 1))
                              => Fill(r, data, Size - wi)[j] = r.mem[j]
<1> DEFINE len == Len(data)
           left == Size - wi
<1>1. /\ len \in Nat /\ len <= Size /\ wi \in Nat /\ wi < Size /\ Size \in Nat
      /\ left \in Nat /\ left > 0
  BY LenProperties, StreamSizes DEF Cell
<1>2. \A j \in Cell : j \in Nat /\ j < Size
  BY StreamSizes DEF Cell
<1>3. ASSUME NEW j \in Cell, \A k \in 1 .. len : j # At(wi, k - 1)
      PROVE  /\ ~(wi <= j /\ j < wi + len)
             /\ ~(j < wi /\ j < len - left)
  <2>1. CASE wi <= j /\ j < wi + len
    <3>1. PICK k \in 1 .. len : k = j - wi + 1
      BY <1>1, <1>2, <2>1
    <3>2. At(wi, k - 1) = j
      BY <1>1, <1>2, <2>1, <3>1 DEF At
    <3> QED
      BY <1>3, <3>1, <3>2
  <2>2. CASE j < wi /\ j < len - left
    <3>1. PICK k \in 1 .. len : k = j + left + 1
      BY <1>1, <1>2, <2>2
    <3>2. At(wi, k - 1) = j
      BY <1>1, <1>2, <2>2, <3>1 DEF At
    <3> QED
      BY <1>3, <3>1, <3>2
  <2> QED
    BY <2>1, <2>2
<1>4. CASE left > len
  <2>1. Fill(r, data, left) = CopyTo(r.mem, wi, data)
    BY <1>4 DEF Fill
  <2>2. \A j \in Cell : Fill(r, data, left)[j] =
          IF wi <= j /\ j < wi + len THEN data[j - wi + 1] ELSE r.mem[j]
    BY <1>1, <2>1, CopyToIs
  <2>3. ASSUME NEW k \in 1 .. len PROVE Fill(r, data, left)[At(wi, k - 1)] = data[k]
    <3>1. PICK j \in Cell : j = At(wi, k - 1) /\ j = wi + k - 1
      <4>1. At(wi, k - 1) = wi + k - 1 /\ wi + k - 1 \in Cell
        BY <1>1, <1>4 DEF At, Cell
      <4> QED
        BY <4>1
    <3>2. wi <= j /\ j < wi + len /\ j - wi + 1 = k
      BY <1>1, <3>1
    <3> HIDE DEF len, left
    <3> QED
      BY <2>2, <3>1, <3>2
  <2>4. Fill(r, data, left) \in [Cell -> Byte]
    BY <1>1, <2>1, CopyToIs
  <2> HIDE DEF left
  <2>5. \A j \in Cell : (\A k \in 1 .. len : j # At(wi, k - 1))
                          => Fill(r, data, left)[j] = r.mem[j]
    BY <1>3, <2>2
  <2> QED
    BY <2>3, <2>4, <2>5 DEF left
<1>5. CASE ~(left > len)
  <2> DEFINE d1 == SubSeq(data, 1, left)
             d2 == SubSeq(data, left + 1, len)
             m1 == CopyTo(r.mem, wi, d1)
             m2 == CopyTo(m1, 0, d2)
  <2>1. Fill(r, data, left) = m2
    BY <1>5 DEF Fill
  <2>2. /\ d1 \in Seq(Byte) /\ Len(d1) = left /\ \A k \in 1 .. left : d1[k] = data[k]
    <3>1. \A k \in 1 .. left : data[k] \in Byte
      BY <1>1, <1>5, ElementOfSeq
    <3>2. 1 \in Int /\ left \in Int /\ 1 <= left /\ left - 1 + 1 = left
          /\ \A k \in 1 .. left : 1 + k - 1 = k
      BY <1>1
    <3> HIDE DEF left
    <3> QED
      BY <3>1, <3>2, SubSeqProperties
  <2>3. /\ d2 \in Seq(Byte) /\ Len(d2) = len - left
        /\ \A k \in 1 .. len - left : d2[k] = data[left + k]
    <3>1. \A k \in left + 1 .. len : data[k] \in Byte
      BY <1>1, <1>5, ElementOfSeq
    <3>2. left + 1 \in Int /\ len \in Int
      BY <1>1
    <3>3. /\ d2 \in Seq(Byte)
          /\ Len(d2) = IF left + 1 <= len THEN len - (left + 1) + 1 ELSE 0
          /\ \A k \in 1 .. len - (left + 1) + 1 : d2[k] = data[left + 1 + k - 1]
      <4> HIDE DEF left, len
      <4> QED
        BY <3>1, <3>2, SubSeqProperties
    <3>4. /\ (IF left + 1 <= len THEN len - (left + 1) + 1 ELSE 0) = len - left
          /\ len - (left + 1) + 1 = len - left
          /\ \A k \in 1 .. len - left : left + 1 + k - 1 = left + k
      BY <1>1, <1>5
    <3> HIDE DEF d2, left, len
    <3> QED
      BY <3>3, <3>4
  <2>4. m1 \in [Cell -> Byte] /\ \A j \in Cell : m1[j] =
          IF wi <= j /\ j < wi + Len(d1) THEN d1[j - wi + 1] ELSE r.mem[j]
    <3> HIDE DEF d1
    <3> QED
      BY <1>1, <2>2, CopyToIs
  <2>5. m2 \in [Cell -> Byte] /\ \A j \in Cell : m2[j] =
          IF 0 <= j /\ j < 0 + Len(d2) THEN d2[j - 0 + 1] ELSE m1[j]
    <3>1. 0 \in Nat
      OBVIOUS
    <3> HIDE DEF d2, m1
    <3> QED
      BY <2>3, <2>4, <3>1, CopyToIs
  <2> HIDE DEF d1, d2, m1, m2
  <2>6. ASSUME NEW k \in 1 .. len PROVE m2[At(wi, k - 1)] = data[k]
    <3>1. CASE k <= left
      <4>1. PICK j \in Cell : j = At(wi, k - 1) /\ j = wi + k - 1
        <5>1. At(wi, k - 1) = wi + k - 1 /\ wi + k - 1 \in Cell
          BY <1>1, <3>1 DEF At, Cell
        <5> QED
          BY <5>1
      <4>2. ~(j < 0 + (len - left)) /\ j < wi + left /\ wi <= j
            /\ j - wi + 1 = k /\ k \in 1 .. left
        BY <1>1, <1>5, <3>1, <4>1
      <4>3. m2[j] = m1[j]
        BY <2>3, <2>5, <4>2
      <4>4. m1[j] = d1[k]
        BY <2>2, <2>4, <4>2
      <4> QED
        BY <2>2, <4>1, <4>2, <4>3, <4>4
    <3>2. CASE ~(k <= left)
      <4>1. At(wi, k - 1) = k - left - 1 /\ k - left - 1 \in Cell
        BY <1>1, <3>2 DEF At, Cell
      <4>2. /\ 0 <= k - left - 1 /\ k - left - 1 < len - left /\ k - left - 1 - 0 + 1 = k - left
            /\ k - left \in 1 .. len - left /\ left + (k - left) = k
        BY <1>1, <3>2
      <4>3. m2[k - left - 1] = d2[k - left]
        BY <2>3, <2>5, <4>1, <4>2
      <4> QED
        BY <2>3, <4>1, <4>2, <4>3
    <3> QED
      BY <3>1, <3>2
  <2>7. ASSUME NEW j \in Cell, \A k \in 1 .. len : j # At(wi, k - 1) PROVE m2[j] = r.mem[j]
    <3>1. ~(wi <= j /\ j < wi + len) /\ ~(j < wi /\ j < len - left)
      BY <1>3, <2>7
    <3>2. ~(0 <= j /\ j < 0 + (len - left)) /\ ~(wi <= j /\ j < wi + left)
      BY <1>1, <1>2, <1>5, <3>1
    <3> QED
      BY <2>2, <2>3, <2>4, <2>5, <3>2
  <2> QED
    BY <2>1, <2>5, <2>6, <2>7
<1> QED
  BY <1>4, <1>5

\* What ReadCopy puts into write_buffer.
TakenOut(mem, ri, n) ==
  IF Size - ri > n THEN CopyFrom(mem, ri, n)
  ELSE CopyFrom(mem, ri, Size - ri) \o CopyFrom(mem, 0, n - (Size - ri))

LEMMA CopyFromIs ==
  ASSUME NEW mem \in [Cell -> Byte], NEW i \in Nat, NEW n \in Nat, i + n <= Size
  PROVE  /\ CopyFrom(mem, i, n) \in Seq(Byte) /\ Len(CopyFrom(mem, i, n)) = n
         /\ \A k \in 1 .. n : CopyFrom(mem, i, n)[k] = mem[i + k - 1]
<1> DEFINE c == CopyFrom(mem, i, n)
<1>1. \A k \in 1 .. n : i + k - 1 < Size /\ i + k - 1 \in Cell
  BY StreamSizes DEF Cell
<1>2. c = [k \in 1 .. n |-> IF i + k - 1 < Size THEN mem[i + k - 1] ELSE Garbage]
  BY DEF CopyFrom
<1> HIDE DEF c
<1>3. c \in [1 .. n -> Byte] /\ \A k \in 1 .. n : c[k] = mem[i + k - 1]
  BY <1>1, <1>2
<1>4. c \in Seq(Byte)
  BY <1>3, SeqDef
<1>5. Len(c) = n
  <2>1. DOMAIN c = 1 .. Len(c) /\ Len(c) \in Nat
    BY <1>4, LenProperties
  <2>2. DOMAIN c = 1 .. n
    BY <1>3
  <2>3. PICK l \in Nat : l = Len(c)
    BY <2>1
  <2>4. 1 .. l = 1 .. n
    BY <2>1, <2>2, <2>3
  <2>5. l = n
    BY <2>4
  <2> QED
    BY <2>3, <2>5
<1> QED
  BY <1>3, <1>4, <1>5 DEF c

LEMMA TakenOutIs ==
  ASSUME NEW mem \in [Cell -> Byte], NEW ri \in Cell, NEW n \in 1 .. Size
  PROVE  /\ TakenOut(mem, ri, n) \in Seq(Byte) /\ Len(TakenOut(mem, ri, n)) = n
         /\ \A k \in 1 .. n : TakenOut(mem, ri, n)[k] = mem[At(ri, k - 1)]
<1>1. ri \in Nat /\ ri < Size /\ Size \in Nat /\ n \in Nat /\ n <= Size
  BY StreamSizes DEF Cell
<1>2. CASE Size - ri > n
  <2>1. TakenOut(mem, ri, n) = CopyFrom(mem, ri, n) /\ ri + n <= Size
    BY <1>1, <1>2 DEF TakenOut
  <2>2. \A k \in 1 .. n : At(ri, k - 1) = ri + k - 1
    BY <1>1, <1>2 DEF At
  <2> QED
    BY <1>1, <2>1, <2>2, CopyFromIs
<1>3. CASE ~(Size - ri > n)
  <2> DEFINE left == Size - ri
             a == CopyFrom(mem, ri, left)
             b == CopyFrom(mem, 0, n - left)
  <2>1. left \in Nat /\ n - left \in Nat /\ ri + left <= Size /\ 0 + (n - left) <= Size
    BY <1>1, <1>3
  <2>2. TakenOut(mem, ri, n) = a \o b
    BY <1>3 DEF TakenOut
  <2>3. a \in Seq(Byte) /\ Len(a) = left /\ \A k \in 1 .. left : a[k] = mem[ri + k - 1]
    BY <1>1, <2>1, CopyFromIs
  <2>4. b \in Seq(Byte) /\ Len(b) = n - left /\ \A k \in 1 .. n - left : b[k] = mem[0 + k - 1]
    BY <1>1, <2>1, CopyFromIs
  <2> HIDE DEF a, b
  <2>5. /\ a \o b \in Seq(Byte) /\ Len(a \o b) = left + (n - left)
        /\ \A k \in 1 .. left + (n - left) :
             (a \o b)[k] = IF k <= left THEN a[k] ELSE b[k - left]
    BY <2>3, <2>4, ConcatProperties
  <2>6. left + (n - left) = n
    BY <1>1, <2>1
  <2>7. ASSUME NEW k \in 1 .. n PROVE (a \o b)[k] = mem[At(ri, k - 1)]
    <3>1. CASE k <= left
      <4>1. At(ri, k - 1) = ri + k - 1 /\ k \in 1 .. left
        BY <1>1, <3>1 DEF At
      <4> QED
        BY <2>3, <2>5, <2>6, <3>1, <4>1
    <3>2. CASE ~(k <= left)
      <4>1. k - left \in 1 .. n - left /\ At(ri, k - 1) = 0 + (k - left) - 1
        BY <1>1, <2>1, <3>2 DEF At
      <4> QED
        BY <2>4, <2>5, <2>6, <3>2, <4>1
    <3> QED
      BY <3>1, <3>2
  <2> QED
    BY <2>2, <2>5, <2>6, <2>7
<1> QED
  BY <1>2, <1>3

-----------------------------------------------------------------------------
(***************************************************************************)
(* The stream from the host to the end of the ring.                        *)
(***************************************************************************)
LEMMA PipeFacts ==
  ASSUME PipeTypes, RingInv
  PROVE  /\ usb_tx_rb.mem \in [Cell -> Byte]
         /\ usb_tx_rb.readMirror \in 0 .. 1 /\ usb_tx_rb.writeMirror \in 0 .. 1
         /\ usb_tx_rb.readIndex \in Cell /\ usb_tx_rb.writeIndex \in Cell
         /\ Transit \in Seq(Byte) /\ Len(Transit) \in Nat
         /\ page.last \in Byte /\ page.last.n \in Nat
         /\ Taken \in Nat /\ page.last.n <= Taken /\ Taken <= written /\ written \in Nat
         /\ Held \in Nat /\ Held <= Size /\ Held = written - Taken
         /\ pc \notin {"mirror", "rmirror"} =>
              Holds(usb_tx_rb.readMirror, usb_tx_rb.writeMirror, usb_tx_rb.readIndex,
                    usb_tx_rb.writeIndex, Held)
<1>1. /\ usb_tx_rb.mem \in [Cell -> Byte]
      /\ usb_tx_rb.readMirror \in 0 .. 1 /\ usb_tx_rb.writeMirror \in 0 .. 1
      /\ usb_tx_rb.readIndex \in Cell /\ usb_tx_rb.writeIndex \in Cell
      /\ page.last \in Byte /\ page.last.n \in Nat /\ written \in Nat
  BY DEF PipeTypes, Byte
<1>2. Transit \in Seq(Byte)
  BY DEF PipeTypes, Transit
<1>3. Len(Transit) \in Nat
  BY <1>2, LenProperties
<1>4. Taken \in Nat /\ page.last.n <= Taken /\ Taken <= written
  BY <1>1, <1>3 DEF Taken, RingInv
<1>5. Held \in Nat /\ Held = written - Taken
  BY <1>1, <1>4 DEF Held
<1>6. Held <= Size
  BY <1>1, LengthIs, StreamSizes DEF RingInv
<1>7. pc \notin {"mirror", "rmirror"} =>
        Holds(usb_tx_rb.readMirror, usb_tx_rb.writeMirror, usb_tx_rb.readIndex,
              usb_tx_rb.writeIndex, Held)
  BY DEF RingInv, ReadSide, WriteSide
<1> QED
  BY <1>1, <1>2, <1>3, <1>4, <1>5, <1>6, <1>7

LEMMA BlockIs ==
  ASSUME NEW N \in Nat, NEW n \in 1 .. N, written \in Nat
  PROVE  /\ SubSeq(Block(N), 1, n) \in Seq(Byte)
         /\ Len(SubSeq(Block(N), 1, n)) = n
         /\ \A k \in 1 .. n :
              SubSeq(Block(N), 1, n)[k] = [n |-> written + k, at |-> k, of |-> N]
<1>1. \A k \in 1 .. n : Block(N)[k] = [n |-> written + k, at |-> k, of |-> N]
  BY DEF Block
<1>2. \A k \in 1 .. n : Block(N)[k] \in Byte
  <2> TAKE k \in 1 .. n
  <2>1. written + k \in Nat /\ k \in Nat
    OBVIOUS
  <2>2. [n |-> written + k, at |-> k, of |-> N] \in Byte
    BY <2>1 DEF Byte
  <2> QED
    BY <1>1, <2>2
<1>3. 1 \in Int /\ n \in Int /\ 1 <= n /\ n - 1 + 1 = n /\ \A k \in 1 .. n : 1 + k - 1 = k
  OBVIOUS
<1>4. /\ SubSeq(Block(N), 1, n) \in Seq(Byte)
      /\ Len(SubSeq(Block(N), 1, n)) = n
      /\ \A k \in 1 .. n : SubSeq(Block(N), 1, n)[k] = Block(N)[1 + k - 1]
  BY <1>2, <1>3, SubSeqProperties
<1> QED
  BY <1>1, <1>3, <1>4

\* What is stored behind the bytes the ring holds leaves those as they are, and
\* comes after them.
LEMMA FillStep ==
  ASSUME PipeTypes, RingInv, pc \notin {"mirror", "rmirror"},
         NEW N \in Nat, NEW n \in 1 .. N, n <= Size - Held,
         usb_tx_rb'.mem = Fill(usb_tx_rb, SubSeq(Block(N), 1, n), Size - usb_tx_rb.writeIndex),
         usb_tx_rb'.readIndex = usb_tx_rb.readIndex,
         page' = page, Transit' = Transit
  PROVE  /\ usb_tx_rb'.mem \in [Cell -> Byte]
         /\ \A p \in page.last.n .. written : Numbered(p)' = Numbered(p)
         /\ \A k \in 1 .. n, p \in Nat : p = written + k =>
              Numbered(p)' = [n |-> p, at |-> k, of |-> N]
<1> DEFINE d == SubSeq(Block(N), 1, n)
           ri == usb_tx_rb.readIndex
           wi == usb_tx_rb.writeIndex
           mem == usb_tx_rb'.mem
<1>1. d \in Seq(Byte) /\ Len(d) = n
      /\ \A k \in 1 .. n : d[k] = [n |-> written + k, at |-> k, of |-> N]
  BY BlockIs, PipeFacts
<1>2. /\ ri \in Cell /\ wi \in Cell /\ Held \in Nat /\ Taken \in Nat /\ written \in Nat
      /\ page.last.n \in Nat /\ page.last.n <= Taken /\ Taken <= written
      /\ Held = written - Taken /\ Size \in Nat /\ wi = At(ri, Held)
  BY PipeFacts, RoomBehind, StreamSizes
<1>3. /\ mem \in [Cell -> Byte]
      /\ \A k \in 1 .. n : mem[At(wi, k - 1)] = d[k]
      /\ \A j \in Cell : (\A k \in 1 .. n : j # At(wi, k - 1)) => mem[j] = usb_tx_rb.mem[j]
  <2>1. usb_tx_rb.mem \in [Cell -> Byte] /\ Len(d) <= Size
    BY <1>1, <1>2, PipeFacts
  <2>2. mem = Fill(usb_tx_rb, d, Size - wi)
    OBVIOUS
  <2> HIDE DEF d, mem
  <2>3. /\ Fill(usb_tx_rb, d, Size - wi) \in [Cell -> Byte]
        /\ \A k \in 1 .. Len(d) : Fill(usb_tx_rb, d, Size - wi)[At(wi, k - 1)] = d[k]
        /\ \A j \in Cell : (\A k \in 1 .. Len(d) : j # At(wi, k - 1))
                             => Fill(usb_tx_rb, d, Size - wi)[j] = usb_tx_rb.mem[j]
    BY <1>1, <1>2, <2>1, FillIs
  <2> QED
    BY <1>1, <2>2, <2>3
<1>4. Taken' = Taken
  BY DEF Taken
<1>5. \A k \in 1 .. n : /\ At(wi, k - 1) = At(ri, Held + (k - 1))
                        /\ Held + (k - 1) \in Cell
  <2> TAKE k \in 1 .. n
  <2>1. k - 1 \in Nat /\ Held + (k - 1) \in Nat /\ Held + (k - 1) < Size
    BY <1>2
  <2>2. Held + (k - 1) \in Cell
    BY <2>1, StreamSizes DEF Cell
  <2>3. At(At(ri, Held), k - 1) = At(ri, Held + (k - 1))
    BY <1>2, <2>1, AtIs
  <2> QED
    BY <1>2, <2>2, <2>3
<1> HIDE DEF d, ri, wi, mem
<1>6. ASSUME NEW p \in page.last.n .. written PROVE Numbered(p)' = Numbered(p)
  <2>1. CASE p <= Taken
    BY <1>4, <2>1 DEF Numbered
  <2>2. CASE ~(p <= Taken)
    <3>1. PICK h \in Cell : h = p - Taken - 1 /\ h < Held
      <4>1. p - Taken - 1 \in Nat /\ p - Taken - 1 < Held /\ p - Taken - 1 < Size
        BY <1>2, <2>2
      <4> QED
        BY <4>1, StreamSizes DEF Cell
    <3>2. \A k \in 1 .. n : At(ri, h) # At(wi, k - 1)
      <4> TAKE k \in 1 .. n
      <4>1. h # Held + (k - 1) /\ Held + (k - 1) \in Cell
        BY <1>2, <1>5, <3>1, StreamSizes DEF Cell
      <4>2. At(ri, h) # At(ri, Held + (k - 1))
        BY <1>2, <4>1, AtIs
      <4> QED
        BY <1>5, <4>2
    <3>3. At(ri, h) \in Cell
      BY <1>2, AtIs
    <3>4. mem[At(ri, h)] = usb_tx_rb.mem[At(ri, h)]
      BY <1>3, <3>2, <3>3
    <3>5. p # page.last.n
      BY <1>2, <2>2
    <3> QED
      BY <1>4, <2>2, <3>1, <3>4, <3>5 DEF Numbered, ri, mem, At
  <2> QED
    BY <2>1, <2>2
<1>7. ASSUME NEW k \in 1 .. n, NEW p \in Nat, p = written + k
      PROVE  Numbered(p)' = [n |-> p, at |-> k, of |-> N]
  <2>1. p # page.last.n /\ ~(p <= Taken) /\ p - Taken - 1 = Held + (k - 1)
    BY <1>2, <1>7
  <2>2. Numbered(p)' = mem[At(ri, p - Taken - 1)]
    BY <1>4, <2>1 DEF Numbered, ri, mem, At
  <2> QED
    BY <1>1, <1>3, <1>5, <1>7, <2>1, <2>2
<1> QED
  BY <1>3, <1>6, <1>7 DEF mem

\* A block, or a first part of it, behind the stream is a longer stream.
LEMMA Extends ==
  ASSUME PipeTypes, RingInv, StreamInv, pc # "advance",
         NEW N \in Nat, NEW n \in 1 .. N,
         page' = page, End' = written + n, ~cut' => ~cut /\ n = N,
         \A p \in page.last.n .. written : Numbered(p)' = Numbered(p),
         \A k \in 1 .. n, p \in Nat : p = written + k =>
           Numbered(p)' = [n |-> p, at |-> k, of |-> N]
  PROVE  StreamInv'
<1>1. /\ written \in Nat /\ page.last.n \in Nat /\ page.last.n <= written /\ End = written
  BY PipeFacts DEF End
<1>2. \A p \in page.last.n .. written + n :
        p \in page.last.n .. written \/ \E k \in 1 .. n : p = written + k
  <2> SUFFICES ASSUME NEW p \in page.last.n .. written + n, ~(p <= written)
               PROVE  \E k \in 1 .. n : p = written + k
    BY <1>1
  <2>1. p - written \in 1 .. n /\ p = written + (p - written)
    BY <1>1
  <2> QED
    BY <2>1
<1>3. ASSUME NEW p \in page.last.n .. End' PROVE Numbered(p)'.n = p /\ p \in Nat
  <2>0. p \in Nat /\ p \in page.last.n .. written + n
    BY <1>1
  <2>1. CASE p \in page.last.n .. written
    BY <1>1, <2>1 DEF StreamInv
  <2>2. ASSUME NEW k \in 1 .. n, p = written + k PROVE Numbered(p)'.n = p
    BY <2>0, <2>2
  <2> QED
    BY <1>2, <2>0, <2>1, <2>2
<1>4. ASSUME ~cut', NEW p \in page.last.n .. End' - 1
      PROVE  Follows(Numbered(p)', Numbered(p + 1)')
  <2>1. ~cut /\ n = N
    BY <1>4
  <2>2. CASE p < written
    <3>1. /\ p \in page.last.n .. written /\ p + 1 \in page.last.n .. written
          /\ p \in page.last.n .. written - 1
      BY <1>1, <2>2
    <3> QED
      BY <1>1, <2>1, <3>1 DEF StreamInv
  <2>3. CASE p = written
    <3>1. p \in page.last.n .. written /\ 1 \in 1 .. n /\ p + 1 \in Nat /\ p + 1 = written + 1
      BY <1>1, <2>3
    <3>2. Numbered(p).at = Numbered(p).of
      BY <1>1, <2>1, <2>3 DEF StreamInv
    <3>3. Numbered(p + 1)'.at = 1
      BY <3>1
    <3> QED
      BY <3>1, <3>2, <3>3 DEF Follows
  <2>4. CASE p > written
    <3>1. PICK k \in 1 .. n : p = written + k /\ k + 1 \in 1 .. n /\ p + 1 = written + (k + 1)
      <4>1. p - written \in 1 .. n /\ p - written + 1 \in 1 .. n /\ p = written + (p - written)
            /\ p + 1 = written + (p - written + 1)
        BY <1>1, <2>4
      <4> QED
        BY <4>1
    <3>2. p \in Nat /\ p + 1 \in Nat
      BY <1>1, <2>4
    <3>3. Numbered(p)' = [n |-> p, at |-> k, of |-> N]
      BY <3>1, <3>2
    <3>5. Numbered(p + 1)' = [n |-> p + 1, at |-> k + 1, of |-> N]
      BY <3>1, <3>2
    <3>4. k # N
      BY <2>1, <3>1
    <3> QED
      BY <3>3, <3>4, <3>5 DEF Follows
  <2> QED
    BY <1>1, <2>2, <2>3, <2>4
<1>5. ~cut' => Numbered(End)'.at = Numbered(End)'.of
  <2>1. PICK p \in Nat : p = written + n /\ p = End' /\ n \in 1 .. n
    BY <1>1
  <2>2. Numbered(p)' = [n |-> p, at |-> n, of |-> N]
    BY <2>1
  <2>3. Numbered(End)' = Numbered(p)'
    BY <2>1 DEF Numbered
  <2> QED
    BY <2>2, <2>3
<1>6. ~page'.lost /\ (~cut' => ~page'.broken)
  BY DEF StreamInv
<1> QED
  BY <1>3, <1>4, <1>5, <1>6 DEF StreamInv

\* A stream whose bytes keep their numbers, from the last one the host took on.
LEMMA StreamMoves ==
  ASSUME StreamInv, End' = End, ~cut' => ~cut,
         NEW m \in Nat, m = page'.last.n, page.last.n \in Nat, End \in Nat,
         page.last.n <= m, m <= End,
         \A p \in m .. End : Numbered(p)' = Numbered(p),
         ~page'.lost, ~cut' => ~page'.broken
  PROVE  StreamInv'
<1>1. \A p \in m .. End' : Numbered(p)'.n = p
  <2> TAKE p \in m .. End'
  <2>1. p \in m .. End /\ p \in page.last.n .. End
    OBVIOUS
  <2>2. Numbered(p)' = Numbered(p)
    BY <2>1
  <2> QED
    BY <2>1, <2>2 DEF StreamInv
<1>2. ASSUME ~cut', NEW p \in m .. End' - 1
      PROVE  Follows(Numbered(p)', Numbered(p + 1)')
  <2>1. p \in page.last.n .. End - 1 /\ p \in m .. End /\ p + 1 \in m .. End
    OBVIOUS
  <2>2. Follows(Numbered(p), Numbered(p + 1))
    BY <1>2, <2>1 DEF StreamInv
  <2>3. Numbered(p)' = Numbered(p) /\ Numbered(p + 1)' = Numbered(p + 1)
    BY <2>1
  <2> QED
    BY <2>2, <2>3
<1>3. ~cut' => Numbered(End)'.at = Numbered(End)'.of
  <2>1. PICK p \in m .. End : p = End
    OBVIOUS
  <2>2. Numbered(End)' = Numbered(p)' /\ Numbered(End) = Numbered(p)
    BY <2>1 DEF Numbered
  <2>3. Numbered(p)' = Numbered(p)
    BY <2>1
  <2> QED
    BY <2>2, <2>3 DEF StreamInv
<1> QED
  BY <1>1, <1>2, <1>3 DEF StreamInv

LEMMA StreamKept ==
  ASSUME StreamInv, page' = page, End' = End, ~cut' => ~cut,
         \A p \in page.last.n .. End : Numbered(p)' = Numbered(p),
         page.last.n \in Nat, End \in Nat, page.last.n <= End
  PROVE  StreamInv'
<1>1. PICK m \in Nat : m = page.last.n
  OBVIOUS
<1>2. ~page'.lost /\ (~cut' => ~page'.broken) /\ m = page'.last.n
  BY <1>1 DEF StreamInv
<1>3. \A p \in m .. End : Numbered(p)' = Numbered(p)
  BY <1>1
<1> QED
  BY <1>1, <1>2, <1>3, StreamMoves

\* Where the main loop has nothing to do with the ring.
Outside == {"task", "pick", "copy", "index", "length", "wait"}

LEMMA PipeKept ==
  ASSUME PipeInv, UNCHANGED <<usb_tx_rb, op, written, write_buffer, usb>>, ~cut' => ~cut,
         UNCHANGED <<pc, task>> \/ (pc \in Outside /\ pc' \in Outside)
  PROVE  PipeInv'
<1>1. UNCHANGED <<usb_tx_rb, op, written, write_buffer, ep_tx_busy_flag, ep, page>>
  BY DEF usb
<1>2. /\ Transit' = Transit /\ Taken' = Taken /\ Held' = Held
      /\ End' = End /\ ReadSide' = ReadSide /\ WriteSide' = WriteSide
  BY <1>1 DEF Outside, Transit, Taken, Held, End, ReadSide, WriteSide, FlipDue
<1>3. PipeTypes' /\ RingInv' /\ TransferInv'
  BY <1>1, <1>2 DEF PipeInv, PipeTypes, RingInv, TransferInv, Outside
<1>4. OpInv'
  BY <1>1, <1>2 DEF PipeInv, OpInv, Outside
<1>5. StreamInv'
  BY <1>1, <1>2 DEF PipeInv, StreamInv, Numbered
<1> QED
  BY <1>3, <1>4, <1>5 DEF PipeInv

-----------------------------------------------------------------------------
(***************************************************************************)
(* Ring_Buffer_Write.                                                      *)
(***************************************************************************)
LEMMA SmallerIs ==
  ASSUME NEW a \in Nat, NEW b \in Nat
  PROVE  /\ Smaller(a, b) \in Nat /\ Smaller(a, b) <= a /\ Smaller(a, b) <= b
         /\ Smaller(a, b) \in {a, b}
BY DEF Smaller

LEMMA AdvanceIs ==
  ASSUME NEW r \in [mem : [Cell -> Byte], readMirror : 0 .. 1, readIndex : Cell,
                    writeMirror : 0 .. 1, writeIndex : Cell],
         NEW n \in 1 .. Size
  PROVE  Advance(r, n, Size - r.writeIndex) = [r EXCEPT !.writeIndex = At(r.writeIndex, n)]
<1>1. r.writeIndex \in Nat /\ r.writeIndex < Size /\ n \in Nat /\ Size \in Nat
  BY StreamSizes DEF Cell
<1>2. CASE Size - r.writeIndex > n
  <2>1. PICK a \in Nat : a = r.writeIndex + n /\ a < Word /\ a = At(r.writeIndex, n)
    BY <1>1, <1>2, StreamSizes DEF At
  <2>2. a % Word = a
    BY <2>1, StreamSizes
  <2> QED
    BY <1>2, <2>1, <2>2 DEF Advance
<1>3. CASE ~(Size - r.writeIndex > n)
  <2>1. At(r.writeIndex, n) = n - (Size - r.writeIndex)
    BY <1>1, <1>3 DEF At
  <2> QED
    BY <1>3, <2>1 DEF Advance
<1> QED
  BY <1>2, <1>3

\* In one piece, from an interrupt.
LEMMA RingWriteStep ==
  ASSUME PipeInv, ~InRing, pc \in Place, NEW N \in Nat, N > 0, RingWrite(N),
         UNCHANGED <<pc, task, op, write_buffer, usb>>
  PROVE  PipeInv'
<1> DEFINE len == Smaller(N, Room)
           ri == usb_tx_rb.readIndex
           wi == usb_tx_rb.writeIndex
           rm == usb_tx_rb.readMirror
           wm == usb_tx_rb.writeMirror
           fill == Fill(usb_tx_rb, SubSeq(Block(N), 1, len), Size - wi)
<1>1. /\ UNCHANGED <<ep_tx_busy_flag, ep, page>> /\ UNCHANGED <<pc, task, op, write_buffer>>
      /\ pc \notin {"room", "store", "advance", "mirror", "rsize", "rmirror"}
  BY DEF usb, InRing
<1>2. PipeTypes /\ RingInv /\ StreamInv /\ OpInv /\ TransferInv
  BY DEF PipeInv
<1>3. /\ ri \in Cell /\ wi \in Cell /\ rm \in 0 .. 1 /\ wm \in 0 .. 1
      /\ Holds(rm, wm, ri, wi, Held) /\ Held \in Nat /\ Held <= Size
      /\ Taken \in Nat /\ written \in Nat /\ Held = written - Taken /\ Taken <= written
      /\ page.last.n \in Nat /\ page.last.n <= Taken
  BY <1>1, <1>2, PipeFacts
<1>4. /\ Room = Size - Held /\ len \in Nat /\ len <= N /\ len <= Size - Held
      /\ len = N \/ len < N
  <2>1. Room = Size - Held /\ Room \in Nat
    BY <1>3, LengthIs, StreamSizes DEF Room
  <2> QED
    BY <2>1, SmallerIs
<1>5. Minus(Size, wi) = Size - wi
  BY <1>3, MinusIs, StreamSizes DEF Cell
<1>6. /\ usb_tx_rb' = IF len = 0 THEN usb_tx_rb
                      ELSE FlipWrite(Advance([usb_tx_rb EXCEPT !.mem = fill], len, Size - wi),
                                     len, Size - wi)
      /\ written' = written + len
      /\ ~cut' => ~cut /\ ~(len < N)
  BY <1>5 DEF RingWrite
<1>7. Transit' = Transit /\ Taken' = Taken /\ End = written /\ End' = written'
      /\ ReadSide' = usb_tx_rb'.readMirror /\ WriteSide' = usb_tx_rb'.writeMirror
  BY <1>1 DEF Transit, Taken, End, ReadSide, WriteSide
<1> HIDE DEF len
<1>8. CASE len = 0
  <2>1. usb_tx_rb' = usb_tx_rb /\ written' = written
    BY <1>3, <1>6, <1>8
  <2>2. ~cut' => ~cut
    BY <1>6
  <2> QED
    BY <2>1, <2>2, PipeKept
<1>9. CASE len # 0
  <2>1. len \in 1 .. N /\ len \in 1 .. Size /\ len \in 1 .. Size - Held
    BY <1>3, <1>4, <1>9, StreamSizes
  <2>2. fill \in [Cell -> Byte]
    <3>1. SubSeq(Block(N), 1, len) \in Seq(Byte) /\ Len(SubSeq(Block(N), 1, len)) <= Size
      BY <1>3, <2>1, BlockIs
    <3>2. usb_tx_rb.mem \in [Cell -> Byte]
      BY <1>2, PipeFacts
    <3> QED
      BY <1>3, <3>1, <3>2, FillIs
  <2> HIDE DEF fill
  <2> DEFINE r == [usb_tx_rb EXCEPT !.mem = fill]
  <2>3. /\ r \in [mem : [Cell -> Byte], readMirror : 0 .. 1, readIndex : Cell,
                  writeMirror : 0 .. 1, writeIndex : Cell]
        /\ r.mem = fill /\ r.readMirror = rm /\ r.readIndex = ri /\ r.writeMirror = wm
        /\ r.writeIndex = wi
    BY <1>2, <2>2 DEF PipeTypes
  <2> HIDE DEF r
  <2>4. Advance(r, len, Size - wi) = [r EXCEPT !.writeIndex = At(wi, len)]
    BY <2>1, <2>3, AdvanceIs
  <2>5. /\ At(wi, len) \in Cell
        /\ Holds(rm, IF Size - wi > len THEN wm ELSE 1 - wm, ri, At(wi, len), Held + len)
    BY <1>3, <2>1, WriteMoves
  <2>6. usb_tx_rb' = FlipWrite([r EXCEPT !.writeIndex = At(wi, len)], len, Size - wi)
    BY <1>6, <1>9, <2>4 DEF r
  <2>7. /\ usb_tx_rb' \in [mem : [Cell -> Byte], readMirror : 0 .. 1, readIndex : Cell,
                           writeMirror : 0 .. 1, writeIndex : Cell]
        /\ usb_tx_rb'.mem = fill /\ usb_tx_rb'.readMirror = rm /\ usb_tx_rb'.readIndex = ri
        /\ usb_tx_rb'.writeMirror = IF Size - wi > len THEN wm ELSE 1 - wm
        /\ usb_tx_rb'.writeIndex = At(wi, len)
    <3> DEFINE a == At(wi, len)
    <3>1. a \in Cell
      BY <2>5
    <3> HIDE DEF a
    <3>2. usb_tx_rb' = FlipWrite([r EXCEPT !.writeIndex = a], len, Size - wi)
      BY <2>6 DEF a
    <3>3. 1 - wm \in 0 .. 1
      BY <1>3
    <3>4. CASE Size - wi > len
      <4>1. usb_tx_rb' = [r EXCEPT !.writeIndex = a]
        BY <3>2, <3>4 DEF FlipWrite
      <4> QED
        BY <2>3, <3>1, <3>4, <4>1 DEF a
    <3>5. CASE ~(Size - wi > len)
      <4>1. usb_tx_rb' = [[r EXCEPT !.writeIndex = a] EXCEPT !.writeMirror = 1 - @]
        BY <3>2, <3>5 DEF FlipWrite
      <4> QED
        BY <2>3, <3>1, <3>3, <3>5, <4>1 DEF a
    <3> QED
      BY <3>4, <3>5
  <2>8. Held' = Held + len
    BY <1>3, <1>4, <1>6, <1>7 DEF Held
  <2>9. RingInv'
    BY <1>3, <1>4, <1>6, <1>7, <2>5, <2>7, <2>8 DEF RingInv
  <2>10. PipeTypes'
    <3>1. written' \in Nat
      BY <1>3, <1>4, <1>6
    <3> QED
      BY <1>1, <1>2, <2>7, <3>1 DEF PipeTypes
  <2>11. TransferInv' /\ OpInv'
    <3>1. pc = "rcopy" => op.n \in 1 .. Held + len
      BY <1>2, <1>3, <1>4 DEF OpInv
    <3> QED
      BY <1>1, <1>2, <2>8, <3>1 DEF TransferInv, OpInv
  <2>12. StreamInv'
    <3>1. /\ usb_tx_rb'.mem = Fill(usb_tx_rb, SubSeq(Block(N), 1, len), Size - usb_tx_rb.writeIndex)
          /\ usb_tx_rb'.readIndex = usb_tx_rb.readIndex
      BY <2>7 DEF fill
    <3>2. pc \notin {"mirror", "rmirror"} /\ len <= Size - Held
      BY <1>1, <1>4
    <3>3. /\ \A p \in page.last.n .. written : Numbered(p)' = Numbered(p)
          /\ \A k \in 1 .. len, p \in Nat : p = written + k =>
               Numbered(p)' = [n |-> p, at |-> k, of |-> N]
      BY <1>1, <1>2, <1>7, <2>1, <3>1, <3>2, FillStep
    <3>4. End' = written + len /\ (~cut' => ~cut /\ len = N)
      BY <1>4, <1>6, <1>7
    <3> QED
      BY <1>1, <1>2, <2>1, <3>3, <3>4, Extends
  <2> QED
    BY <2>9, <2>10, <2>11, <2>12 DEF PipeInv
<1> QED
  BY <1>8, <1>9

\* Step by step, in the main loop: only the locals of the operation change.
LEMMA OpMoves ==
  ASSUME PipeInv, UNCHANGED <<usb_tx_rb, written, write_buffer, ep, page>>, ~cut' => ~cut,
         pc \notin {"advance", "mirror", "rmirror", "send"},
         pc' \notin {"advance", "mirror", "rmirror", "send"},
         op' \in [rm : Nat, wm : Nat, n : Nat, left : Nat],
         Held' = Held => OpInv', TransferInv'
  PROVE  PipeInv'
<1>1. /\ Transit' = Transit /\ Taken' = Taken /\ Held' = Held
      /\ End' = End /\ ReadSide' = ReadSide /\ WriteSide' = WriteSide
  BY DEF Transit, Taken, Held, End, ReadSide, WriteSide
<1>2. PipeTypes' /\ RingInv'
  BY <1>1 DEF PipeInv, PipeTypes, RingInv
<1>3. StreamInv'
  BY <1>1 DEF PipeInv, StreamInv, Numbered
<1> QED
  BY <1>1, <1>2, <1>3 DEF PipeInv

LEMMA WriteLengthStep == ASSUME PipeInv, WriteLength PROVE PipeInv'
<1>1. /\ pc = "length" /\ pc' = "room"
      /\ op' = [op EXCEPT !.rm = usb_tx_rb.readMirror, !.wm = usb_tx_rb.writeMirror]
      /\ UNCHANGED <<usb_tx_rb, written, cut, write_buffer, ep_tx_busy_flag, ep, page>>
  BY DEF WriteLength, stream, usb
<1>2. usb_tx_rb.readMirror \in Nat /\ usb_tx_rb.writeMirror \in Nat
  BY PipeFacts DEF PipeInv
<1>3. /\ op' \in [rm : Nat, wm : Nat, n : Nat, left : Nat]
      /\ op'.rm = usb_tx_rb.readMirror /\ op'.wm = usb_tx_rb.writeMirror
  BY <1>1, <1>2 DEF PipeInv, PipeTypes
<1>4. OpInv' /\ TransferInv'
  BY <1>1, <1>3 DEF PipeInv, OpInv, TransferInv
<1> QED
  BY <1>1, <1>3, <1>4, OpMoves

LEMMA WriteRoomStep == ASSUME PipeInv, SlotInv, WriteRoom PROVE PipeInv'
<1> DEFINE total == HeadLen + task.count
           room == Empty(op.rm, op.wm, usb_tx_rb.readIndex, usb_tx_rb.writeIndex)
<1>1. /\ pc = "room" /\ op' = [op EXCEPT !.n = Smaller(total, room)]
      /\ pc' = IF op'.n = 0 THEN "wait" ELSE "store"
      /\ cut' = (cut \/ op'.n < total)
      /\ UNCHANGED <<usb_tx_rb, written, write_buffer, ep_tx_busy_flag, ep, page, task>>
  BY DEF WriteRoom, usb
<1>2. room = Size - Held /\ room \in Nat
  <2>1. op.rm = usb_tx_rb.readMirror /\ op.wm = usb_tx_rb.writeMirror
    BY <1>1 DEF PipeInv, OpInv
  <2> QED
    BY <1>1, <2>1, PipeFacts, LengthIs, StreamSizes DEF PipeInv
<1>3. total \in Nat /\ total > 0
  BY StreamSizes DEF SlotInv, SampleTypes
<1> HIDE DEF total, room
<1>4. /\ op' \in [rm : Nat, wm : Nat, n : Nat, left : Nat]
      /\ op'.n \in Nat /\ op'.n <= total /\ op'.n <= room /\ op'.n \in {total, room}
  <2>1. /\ Smaller(total, room) \in Nat /\ Smaller(total, room) <= total
        /\ Smaller(total, room) <= room /\ Smaller(total, room) \in {total, room}
    BY <1>2, <1>3, SmallerIs
  <2>2. op' \in [rm : Nat, wm : Nat, n : Nat, left : Nat] /\ op'.n = Smaller(total, room)
    BY <1>1, <2>1 DEF PipeInv, PipeTypes
  <2> QED
    BY <2>1, <2>2
<1>5. ~cut' => ~cut /\ ~(op'.n < total)
  BY <1>1
<1>6. Held' = Held => OpInv'
  <2> SUFFICES ASSUME Held' = Held PROVE OpInv'
    OBVIOUS
  <2>1. HeadLen + task'.count = total
    BY <1>1 DEF total
  <2>2. CASE op'.n = 0
    BY <1>1, <2>2 DEF OpInv
  <2>3. CASE op'.n # 0
    <3>1. op'.n \in 1 .. total /\ op'.n <= Size - Held /\ (~cut' => op'.n = total)
      BY <1>2, <1>3, <1>4, <1>5, <2>3
    <3> QED
      BY <1>1, <2>1, <2>3, <3>1 DEF OpInv
  <2> QED
    BY <2>2, <2>3
<1>7. TransferInv'
  BY <1>1 DEF PipeInv, TransferInv
<1>8. pc' \in {"wait", "store"}
  BY <1>1
<1> QED
  BY <1>1, <1>4, <1>5, <1>6, <1>7, <1>8, OpMoves

LEMMA WriteStoreStep == ASSUME PipeInv, SlotInv, WriteStore PROVE PipeInv'
<1> DEFINE N == HeadLen + task.count
           wi == usb_tx_rb.writeIndex
           fill == Fill(usb_tx_rb, SubSeq(Block(N), 1, op.n), Size - wi)
<1>1. PipeTypes /\ RingInv /\ StreamInv /\ OpInv /\ TransferInv /\ pc = "store"
  BY DEF PipeInv, WriteStore
<1>2. wi \in Cell /\ Minus(Size, wi) = Size - wi /\ Size - wi \in Nat
  <2>1. wi \in Cell
    BY <1>1, PipeFacts
  <2> QED
    BY <2>1, MinusIs, StreamSizes DEF Cell
<1>3. /\ pc' = "advance" /\ op' = [op EXCEPT !.left = Size - wi]
      /\ usb_tx_rb' = [usb_tx_rb EXCEPT !.mem = fill]
      /\ UNCHANGED <<written, cut, write_buffer, ep_tx_busy_flag, ep, page, task>>
  BY <1>2 DEF WriteStore, usb
<1>4. /\ N \in Nat /\ op.n \in 1 .. N /\ op.n <= Size - Held /\ (~cut => op.n = N)
      /\ Held \in Nat /\ written \in Nat /\ op.n \in Nat
  BY <1>1, PipeFacts, StreamSizes DEF SlotInv, SampleTypes, OpInv
<1>5. /\ op' \in [rm : Nat, wm : Nat, n : Nat, left : Nat]
      /\ op'.n = op.n /\ op'.left = Size - wi
  BY <1>1, <1>2, <1>3 DEF PipeTypes
<1>6. /\ usb_tx_rb'.mem = fill /\ usb_tx_rb'.readIndex = usb_tx_rb.readIndex
      /\ usb_tx_rb'.readMirror = usb_tx_rb.readMirror
      /\ usb_tx_rb'.writeMirror = usb_tx_rb.writeMirror /\ usb_tx_rb'.writeIndex = wi
  BY <1>1, <1>3 DEF PipeTypes
<1>7. /\ Transit' = Transit /\ Taken' = Taken /\ Held' = Held /\ End' = written + op.n
      /\ ReadSide' = ReadSide /\ WriteSide' = WriteSide
  BY <1>1, <1>3, <1>5, <1>6 DEF Transit, Taken, Held, End, ReadSide, WriteSide
<1> HIDE DEF N
<1>8. /\ usb_tx_rb'.mem \in [Cell -> Byte]
      /\ \A p \in page.last.n .. written : Numbered(p)' = Numbered(p)
      /\ \A k \in 1 .. op.n, p \in Nat : p = written + k =>
           Numbered(p)' = [n |-> p, at |-> k, of |-> N]
  <2>1. /\ usb_tx_rb'.mem = Fill(usb_tx_rb, SubSeq(Block(N), 1, op.n), Size - usb_tx_rb.writeIndex)
        /\ pc \notin {"mirror", "rmirror"} /\ page' = page
    BY <1>1, <1>3, <1>6
  <2> QED
    BY <1>1, <1>4, <1>6, <1>7, <2>1, FillStep
<1>9. StreamInv'
  <2>1. page' = page /\ pc # "advance" /\ (~cut' => ~cut /\ op.n = N)
    BY <1>1, <1>3, <1>4
  <2> QED
    BY <1>1, <1>4, <1>7, <1>8, <2>1, Extends
<1>10. PipeTypes'
  <2>1. usb_tx_rb' \in [mem : [Cell -> Byte], readMirror : 0 .. 1, readIndex : Cell,
                        writeMirror : 0 .. 1, writeIndex : Cell]
    <3>1. fill \in [Cell -> Byte]
      BY <1>6, <1>8
    <3> HIDE DEF fill
    <3> QED
      BY <1>1, <1>3, <3>1 DEF PipeTypes
  <2> QED
    BY <1>1, <1>3, <1>5, <2>1 DEF PipeTypes
<1>11. RingInv'
  BY <1>1, <1>3, <1>6, <1>7 DEF RingInv
<1>12. OpInv' /\ TransferInv'
  <2>1. HeadLen + task'.count = N
    BY <1>3 DEF N
  <2> QED
    BY <1>1, <1>3, <1>4, <1>5, <1>6, <1>7, <2>1 DEF OpInv, TransferInv
<1> QED
  BY <1>9, <1>10, <1>11, <1>12 DEF PipeInv

LEMMA WriteAdvanceStep == ASSUME PipeInv, SlotInv, WriteAdvance PROVE PipeInv'
<1> DEFINE wi == usb_tx_rb.writeIndex
           rm == usb_tx_rb.readMirror
           wm == usb_tx_rb.writeMirror
<1>1. PipeTypes /\ RingInv /\ StreamInv /\ OpInv /\ TransferInv /\ pc = "advance"
  BY DEF PipeInv, WriteAdvance
<1>2. /\ op.left = Size - wi /\ op.n \in Nat /\ op.n \in 1 .. Size - Held
      /\ op.n \in 1 .. Size /\ Held \in Nat /\ written \in Nat /\ wi \in Cell
      /\ rm \in 0 .. 1 /\ wm \in 0 .. 1 /\ usb_tx_rb.readIndex \in Cell
      /\ Taken \in Nat /\ Taken <= written /\ Held = written - Taken
      /\ Holds(rm, wm, usb_tx_rb.readIndex, wi, Held)
      /\ page.last.n \in Nat /\ page.last.n <= Taken
  <2>1. op.left = Size - wi /\ op.n \in Nat /\ op.n > 0 /\ op.n <= Size - Held
    BY <1>1, StreamSizes DEF OpInv, PipeTypes, SlotInv, SampleTypes
  <2> QED
    BY <1>1, <2>1, PipeFacts, StreamSizes
<1>3. /\ usb_tx_rb' = [usb_tx_rb EXCEPT !.writeIndex = At(wi, op.n)]
      /\ pc' = "mirror" /\ written' = written + op.n
      /\ UNCHANGED <<op, cut, write_buffer, ep_tx_busy_flag, ep, page>>
  <2>1. Advance(usb_tx_rb, op.n, Size - wi) = [usb_tx_rb EXCEPT !.writeIndex = At(wi, op.n)]
    BY <1>1, <1>2, AdvanceIs DEF PipeTypes
  <2> QED
    BY <1>2, <2>1 DEF WriteAdvance, usb
<1>4. /\ At(wi, op.n) \in Cell
      /\ Holds(rm, IF Size - wi > op.n THEN wm ELSE 1 - wm, usb_tx_rb.readIndex, At(wi, op.n),
               Held + op.n)
  BY <1>2, WriteMoves
<1>5. /\ usb_tx_rb' \in [mem : [Cell -> Byte], readMirror : 0 .. 1, readIndex : Cell,
                         writeMirror : 0 .. 1, writeIndex : Cell]
      /\ usb_tx_rb'.mem = usb_tx_rb.mem /\ usb_tx_rb'.readIndex = usb_tx_rb.readIndex
      /\ usb_tx_rb'.readMirror = rm /\ usb_tx_rb'.writeMirror = wm
      /\ usb_tx_rb'.writeIndex = At(wi, op.n)
  <2> DEFINE a == At(wi, op.n)
  <2>1. a \in Cell
    BY <1>4
  <2>2. usb_tx_rb' = [usb_tx_rb EXCEPT !.writeIndex = a]
    BY <1>3
  <2> HIDE DEF a
  <2>3. /\ usb_tx_rb' \in [mem : [Cell -> Byte], readMirror : 0 .. 1, readIndex : Cell,
                           writeMirror : 0 .. 1, writeIndex : Cell]
        /\ usb_tx_rb'.mem = usb_tx_rb.mem /\ usb_tx_rb'.readIndex = usb_tx_rb.readIndex
        /\ usb_tx_rb'.readMirror = rm /\ usb_tx_rb'.writeMirror = wm
        /\ usb_tx_rb'.writeIndex = a
    BY <1>1, <2>1, <2>2 DEF PipeTypes
  <2> QED
    BY <2>3 DEF a
<1>6. /\ Transit' = Transit /\ Taken' = Taken /\ Held' = Held + op.n
      /\ End = written + op.n /\ End' = End
  BY <1>1, <1>2, <1>3 DEF Transit, Taken, Held, End
<1>7. ReadSide' = rm /\ WriteSide' = IF Size - wi > op.n THEN wm ELSE 1 - wm
  BY <1>2, <1>3, <1>5 DEF ReadSide, WriteSide, FlipDue
<1>8. PipeTypes'
  <2>1. written' \in Nat
    BY <1>2, <1>3
  <2> QED
    BY <1>1, <1>3, <1>5, <2>1 DEF PipeTypes
<1>9. RingInv'
  <2>1. Taken' <= written'
    BY <1>2, <1>3, <1>6
  <2> QED
    BY <1>4, <1>5, <1>6, <1>7, <2>1 DEF RingInv
<1>10. OpInv' /\ TransferInv'
  BY <1>1, <1>3 DEF OpInv, TransferInv
<1>11. StreamInv'
  <2>1. \A p \in page.last.n .. End : Numbered(p)' = Numbered(p)
    BY <1>3, <1>5, <1>6 DEF Numbered
  <2>2. End \in Nat /\ page.last.n <= End /\ page.last.n \in Nat
    BY <1>2, <1>6
  <2> QED
    BY <1>1, <1>3, <1>6, <2>1, <2>2, StreamKept
<1> QED
  BY <1>8, <1>9, <1>10, <1>11 DEF PipeInv

LEMMA WriteMirrorStep == ASSUME PipeInv, WriteMirror PROVE PipeInv'
<1>1. PipeTypes /\ RingInv /\ StreamInv /\ OpInv /\ TransferInv /\ pc = "mirror"
  BY DEF PipeInv, WriteMirror
<1>2. /\ usb_tx_rb' = FlipWrite(usb_tx_rb, op.n, op.left) /\ pc' = "wait"
      /\ UNCHANGED <<written, op, cut, write_buffer, ep_tx_busy_flag, ep, page>>
  BY DEF WriteMirror, usb
<1>3. /\ usb_tx_rb' \in [mem : [Cell -> Byte], readMirror : 0 .. 1, readIndex : Cell,
                         writeMirror : 0 .. 1, writeIndex : Cell]
      /\ usb_tx_rb'.mem = usb_tx_rb.mem /\ usb_tx_rb'.readIndex = usb_tx_rb.readIndex
      /\ usb_tx_rb'.readMirror = usb_tx_rb.readMirror /\ usb_tx_rb'.writeMirror = WriteSide
      /\ usb_tx_rb'.writeIndex = usb_tx_rb.writeIndex
  <2>1. 1 - usb_tx_rb.writeMirror \in 0 .. 1
    BY <1>1, PipeFacts
  <2>2. CASE op.left > op.n
    BY <1>1, <1>2, <2>2 DEF PipeTypes, FlipWrite, WriteSide, FlipDue
  <2>3. CASE ~(op.left > op.n)
    <3>1. /\ usb_tx_rb' = [usb_tx_rb EXCEPT !.writeMirror = 1 - usb_tx_rb.writeMirror]
          /\ WriteSide = 1 - usb_tx_rb.writeMirror
      BY <1>1, <1>2, <2>3 DEF FlipWrite, WriteSide, FlipDue
    <3> QED
      BY <1>1, <2>1, <3>1 DEF PipeTypes
  <2> QED
    BY <2>2, <2>3
<1>4. /\ Transit' = Transit /\ Taken' = Taken /\ Held' = Held /\ End' = End
      /\ ReadSide' = ReadSide /\ WriteSide' = WriteSide
  BY <1>1, <1>2, <1>3 DEF Transit, Taken, Held, End, ReadSide, WriteSide
<1>5. PipeTypes' /\ RingInv'
  BY <1>1, <1>2, <1>3, <1>4 DEF PipeTypes, RingInv
<1>6. OpInv' /\ TransferInv'
  BY <1>1, <1>2 DEF OpInv, TransferInv
<1>7. StreamInv'
  BY <1>1, <1>2, <1>3, <1>4 DEF StreamInv, Numbered
<1> QED
  BY <1>5, <1>6, <1>7 DEF PipeInv

-----------------------------------------------------------------------------
(***************************************************************************)
(* usb_dc_send_from_ringbuffer.                                            *)
(***************************************************************************)
LEMMA ReadLengthStep == ASSUME PipeInv, ReadLength PROVE PipeInv'
<1>1. /\ pc = "wait" /\ pc' = "rsize" /\ ~ep_tx_busy_flag /\ ep_tx_busy_flag' = TRUE
      /\ op' = [op EXCEPT !.rm = usb_tx_rb.readMirror, !.wm = usb_tx_rb.writeMirror]
      /\ UNCHANGED <<usb_tx_rb, written, cut, write_buffer, ep, page>>
  BY DEF ReadLength, stream
<1>2. usb_tx_rb.readMirror \in Nat /\ usb_tx_rb.writeMirror \in Nat
  BY PipeFacts DEF PipeInv
<1>3. /\ op' \in [rm : Nat, wm : Nat, n : Nat, left : Nat]
      /\ op'.rm = usb_tx_rb.readMirror /\ op'.wm = usb_tx_rb.writeMirror
  BY <1>1, <1>2 DEF PipeInv, PipeTypes
<1>4. OpInv' /\ TransferInv'
  BY <1>1, <1>3 DEF PipeInv, OpInv, TransferInv
<1> QED
  BY <1>1, <1>3, <1>4, OpMoves

\* What is read is what the ring holds, or a first part of it.
LEMMA ReadSizeStep == ASSUME PipeInv, ReadSize PROVE PipeInv'
<1> DEFINE length == Length(op.rm, op.wm, usb_tx_rb.readIndex, usb_tx_rb.writeIndex)
<1>1. /\ pc = "rsize" /\ op' = [op EXCEPT !.n = Smaller(TxLen, length)]
      /\ \/ op'.n = 0 /\ pc' = "task" /\ ep_tx_busy_flag' = FALSE
         \/ op'.n # 0 /\ pc' = "rcopy" /\ ep_tx_busy_flag' = ep_tx_busy_flag
      /\ UNCHANGED <<usb_tx_rb, written, cut, write_buffer, ep, page>>
  BY DEF ReadSize, stream
<1>2. length = Held /\ Held \in Nat
  <2>1. op.rm = usb_tx_rb.readMirror /\ op.wm = usb_tx_rb.writeMirror
    BY <1>1 DEF PipeInv, OpInv
  <2> QED
    BY <1>1, <2>1, PipeFacts, LengthIs DEF PipeInv
<1> HIDE DEF length
<1>3. /\ op' \in [rm : Nat, wm : Nat, n : Nat, left : Nat]
      /\ op'.n \in Nat /\ op'.n <= Held
  <2>1. Smaller(TxLen, length) \in Nat /\ Smaller(TxLen, length) <= length
    BY <1>2, SmallerIs, StreamSizes
  <2>2. op' \in [rm : Nat, wm : Nat, n : Nat, left : Nat] /\ op'.n = Smaller(TxLen, length)
    BY <1>1, <2>1 DEF PipeInv, PipeTypes
  <2> QED
    BY <1>2, <2>1, <2>2
<1>4. Held' = Held => OpInv'
  <2>1. op'.n # 0 => op'.n \in 1 .. Held
    BY <1>2, <1>3
  <2> QED
    BY <1>1, <2>1 DEF OpInv
<1>5. TransferInv'
  BY <1>1 DEF PipeInv, TransferInv
<1> QED
  BY <1>1, <1>3, <1>4, <1>5, OpMoves

\* The bytes read move from the ring to write_buffer, and none of them changes its
\* number.
LEMMA ReadCopyStep == ASSUME PipeInv, ReadCopy PROVE PipeInv'
<1> DEFINE ri == usb_tx_rb.readIndex
           rm == usb_tx_rb.readMirror
           wm == usb_tx_rb.writeMirror
           mem == usb_tx_rb.mem
<1>1. PipeTypes /\ RingInv /\ StreamInv /\ OpInv /\ TransferInv /\ pc = "rcopy"
  BY DEF PipeInv, ReadCopy
<1>2. /\ op.n \in 1 .. Held /\ op.n \in 1 .. Size /\ op.n \in Nat /\ Held \in Nat
      /\ written \in Nat /\ ri \in Cell /\ rm \in 0 .. 1 /\ wm \in 0 .. 1
      /\ usb_tx_rb.writeIndex \in Cell /\ mem \in [Cell -> Byte]
      /\ Holds(rm, wm, ri, usb_tx_rb.writeIndex, Held)
      /\ Taken \in Nat /\ Taken <= written /\ Held = written - Taken /\ Held <= Size
      /\ page.last.n \in Nat /\ Size \in Nat
  <2>1. op.n \in 1 .. Held
    BY <1>1 DEF OpInv
  <2> QED
    BY <1>1, <2>1, PipeFacts, StreamSizes
<1>3. Transit = <<>> /\ Taken = page.last.n
  <2>1. ep.left = <<>>
    BY <1>1 DEF TransferInv
  <2>2. Transit = <<>> /\ Len(Transit) = 0
    BY <1>1, <2>1 DEF Transit
  <2> QED
    BY <1>2, <2>2 DEF Taken
<1>4. Minus(Size, ri) = Size - ri /\ Size - ri \in Nat
  <2>1. ri \in Cell
    BY <1>2
  <2> HIDE DEF ri
  <2>2. ri \in 0 .. Size /\ Size \in 0 .. Size /\ Size - ri \in Nat
    BY <2>1, StreamSizes DEF Cell
  <2> QED
    BY <2>2, MinusIs
<1>5. /\ At(ri, op.n) \in Cell
      /\ At(ri, op.n) = IF Size - ri > op.n THEN ri + op.n ELSE op.n - (Size - ri)
      /\ Holds(IF Size - ri > op.n THEN rm ELSE 1 - rm, wm, At(ri, op.n),
               usb_tx_rb.writeIndex, Held - op.n)
  BY <1>2, ReadMoves
<1>6. /\ pc' = "rmirror" /\ op' = [op EXCEPT !.left = Size - ri]
      /\ write_buffer' = TakenOut(mem, ri, op.n)
      /\ usb_tx_rb' = [usb_tx_rb EXCEPT !.readIndex = At(ri, op.n)]
      /\ UNCHANGED <<written, cut, ep_tx_busy_flag, ep, page>>
  <2>1. PICK a \in Nat : a = At(ri, op.n) /\ a < Word
    BY <1>5, StreamSizes DEF Cell
  <2>2. a % Word = a
    BY <2>1, StreamSizes
  <2>3. usb_tx_rb' = [usb_tx_rb EXCEPT !.readIndex = a]
    BY <1>1, <1>4, <1>5, <2>1, <2>2 DEF ReadCopy
  <2> QED
    BY <1>1, <1>4, <2>1, <2>3 DEF ReadCopy, TakenOut, usb
<1>7. /\ write_buffer' \in Seq(Byte) /\ Len(write_buffer') = op.n
      /\ \A k \in 1 .. op.n : write_buffer'[k] = mem[At(ri, k - 1)]
  BY <1>2, <1>6, TakenOutIs
<1>8. /\ op' \in [rm : Nat, wm : Nat, n : Nat, left : Nat]
      /\ op'.n = op.n /\ op'.left = Size - ri
  BY <1>1, <1>4, <1>6 DEF PipeTypes
<1>9. /\ usb_tx_rb' \in [mem : [Cell -> Byte], readMirror : 0 .. 1, readIndex : Cell,
                         writeMirror : 0 .. 1, writeIndex : Cell]
      /\ usb_tx_rb'.mem = mem /\ usb_tx_rb'.readIndex = At(ri, op.n)
      /\ usb_tx_rb'.readMirror = rm /\ usb_tx_rb'.writeMirror = wm
      /\ usb_tx_rb'.writeIndex = usb_tx_rb.writeIndex
  <2>1. PICK a \in Cell : a = At(ri, op.n)
    BY <1>5
  <2>2. usb_tx_rb' = [usb_tx_rb EXCEPT !.readIndex = a]
    BY <1>6, <2>1
  <2>3. /\ usb_tx_rb' \in [mem : [Cell -> Byte], readMirror : 0 .. 1, readIndex : Cell,
                           writeMirror : 0 .. 1, writeIndex : Cell]
        /\ usb_tx_rb'.mem = mem /\ usb_tx_rb'.readIndex = a
        /\ usb_tx_rb'.readMirror = rm /\ usb_tx_rb'.writeMirror = wm
        /\ usb_tx_rb'.writeIndex = usb_tx_rb.writeIndex
    BY <1>1, <2>1, <2>2 DEF PipeTypes
  <2> QED
    BY <2>1, <2>3
<1>10. /\ Transit' = write_buffer' /\ Taken' = Taken + op.n /\ Held' = Held - op.n
       /\ End = written /\ End' = written
  <2>1. Transit' = write_buffer'
    BY <1>6 DEF Transit
  <2>2. Taken' = page.last.n + op.n
    BY <1>6, <1>7, <2>1 DEF Taken
  <2> QED
    BY <1>1, <1>2, <1>3, <1>6, <2>1, <2>2 DEF Held, End
<1>11. /\ ReadSide' = IF Size - ri > op.n THEN rm ELSE 1 - rm
       /\ WriteSide' = wm
  BY <1>6, <1>8, <1>9 DEF ReadSide, WriteSide, FlipDue
<1>12. ASSUME NEW p \in page.last.n .. written PROVE Numbered(p)' = Numbered(p)
  <2>1. CASE p = page.last.n
    BY <1>6, <2>1 DEF Numbered
  <2>2. CASE p > Taken /\ p <= Taken + op.n
    <3>1. PICK k \in 1 .. op.n : k = p - page.last.n /\ k - 1 = p - Taken - 1
      BY <1>2, <1>3, <2>2
    <3>2. p # page.last.n /\ ~(p <= Taken) /\ p <= Taken'
      BY <1>2, <1>3, <1>10, <2>2
    <3>3. Numbered(p)' = write_buffer'[k]
      BY <1>6, <1>10, <3>1, <3>2 DEF Numbered
    <3>4. Numbered(p) = mem[At(ri, k - 1)]
      BY <3>1, <3>2 DEF Numbered
    <3> QED
      BY <1>7, <3>3, <3>4
  <2>3. CASE p > Taken + op.n
    <3>1. PICK h \in Nat : h = p - Taken' - 1 /\ op.n + h = p - Taken - 1 /\ op.n + h < Size
      BY <1>2, <1>10, <2>3
    <3>2. p # page.last.n /\ ~(p <= Taken) /\ ~(p <= Taken')
      BY <1>2, <1>3, <1>10, <2>3
    <3>3. At(At(ri, op.n), h) = At(ri, op.n + h)
      BY <1>2, <3>1, AtIs
    <3>4. Numbered(p)' = mem[At(At(ri, op.n), h)]
      BY <1>6, <1>9, <3>1, <3>2 DEF Numbered, At
    <3>5. Numbered(p) = mem[At(ri, op.n + h)]
      BY <3>1, <3>2 DEF Numbered
    <3> QED
      BY <3>3, <3>4, <3>5
  <2> QED
    BY <1>2, <1>3, <2>1, <2>2, <2>3
<1>13. PipeTypes'
  BY <1>1, <1>6, <1>7, <1>8, <1>9 DEF PipeTypes
<1>14. RingInv'
  <2>1. Taken' <= written'
    BY <1>2, <1>6, <1>10
  <2> QED
    BY <1>5, <1>9, <1>10, <1>11, <2>1 DEF RingInv
<1>15. OpInv' /\ TransferInv'
  BY <1>1, <1>6 DEF OpInv, TransferInv
<1>16. StreamInv'
  <2>1. page.last.n <= End /\ page' = page /\ End' = End /\ (~cut' => ~cut)
    BY <1>2, <1>3, <1>6, <1>10
  <2> QED
    BY <1>1, <1>2, <1>10, <1>12, <2>1, StreamKept
<1> QED
  BY <1>13, <1>14, <1>15, <1>16 DEF PipeInv

LEMMA ReadMirrorStep == ASSUME PipeInv, ReadMirror PROVE PipeInv'
<1>1. PipeTypes /\ RingInv /\ StreamInv /\ OpInv /\ TransferInv /\ pc = "rmirror"
  BY DEF PipeInv, ReadMirror
<1>2. /\ usb_tx_rb' = IF op.left > op.n THEN usb_tx_rb
                      ELSE [usb_tx_rb EXCEPT !.readMirror = 1 - @]
      /\ pc' = "send"
      /\ UNCHANGED <<written, op, cut, write_buffer, ep_tx_busy_flag, ep, page>>
  BY DEF ReadMirror, usb
<1>3. /\ usb_tx_rb' \in [mem : [Cell -> Byte], readMirror : 0 .. 1, readIndex : Cell,
                         writeMirror : 0 .. 1, writeIndex : Cell]
      /\ usb_tx_rb'.mem = usb_tx_rb.mem /\ usb_tx_rb'.readIndex = usb_tx_rb.readIndex
      /\ usb_tx_rb'.readMirror = ReadSide /\ usb_tx_rb'.writeMirror = usb_tx_rb.writeMirror
      /\ usb_tx_rb'.writeIndex = usb_tx_rb.writeIndex
  <2>1. 1 - usb_tx_rb.readMirror \in 0 .. 1
    BY <1>1, PipeFacts
  <2>2. CASE op.left > op.n
    BY <1>1, <1>2, <2>2 DEF PipeTypes, ReadSide, FlipDue
  <2>3. CASE ~(op.left > op.n)
    <3>1. /\ usb_tx_rb' = [usb_tx_rb EXCEPT !.readMirror = 1 - usb_tx_rb.readMirror]
          /\ ReadSide = 1 - usb_tx_rb.readMirror
      BY <1>1, <1>2, <2>3 DEF ReadSide, FlipDue
    <3> QED
      BY <1>1, <2>1, <3>1 DEF PipeTypes
  <2> QED
    BY <2>2, <2>3
<1>4. /\ Transit' = Transit /\ Taken' = Taken /\ Held' = Held /\ End' = End
      /\ ReadSide' = ReadSide /\ WriteSide' = WriteSide
  BY <1>1, <1>2, <1>3 DEF Transit, Taken, Held, End, ReadSide, WriteSide
<1>5. PipeTypes' /\ RingInv'
  BY <1>1, <1>2, <1>3, <1>4 DEF PipeTypes, RingInv
<1>6. OpInv' /\ TransferInv'
  BY <1>1, <1>2 DEF OpInv, TransferInv
<1>7. StreamInv'
  BY <1>1, <1>2, <1>3, <1>4 DEF StreamInv, Numbered
<1> QED
  BY <1>5, <1>6, <1>7 DEF PipeInv

LEMMA SendStep == ASSUME PipeInv, Send PROVE PipeInv'
<1>1. PipeTypes /\ RingInv /\ StreamInv /\ OpInv /\ TransferInv /\ pc = "send"
  BY DEF PipeInv, Send
<1>2. /\ ep' = [ep EXCEPT !.ready = TRUE, !.left = write_buffer, !.done = 0]
      /\ pc' = "task"
      /\ UNCHANGED <<usb_tx_rb, written, op, cut, write_buffer, ep_tx_busy_flag, page>>
  BY <1>1 DEF Send, usbd_ep_start_write, TransferInv, stream
<1>3. /\ ep' \in [enable : BOOLEAN, ready : BOOLEAN, left : Seq(Byte), done : Nat]
      /\ ep'.enable = ep.enable /\ ep'.ready = TRUE /\ ep'.left = write_buffer
  BY <1>1, <1>2 DEF PipeTypes
<1>4. /\ Transit' = Transit /\ Taken' = Taken /\ Held' = Held /\ End' = End
      /\ ReadSide' = ReadSide /\ WriteSide' = WriteSide
  BY <1>1, <1>2, <1>3 DEF Transit, Taken, Held, End, ReadSide, WriteSide
<1>5. PipeTypes' /\ RingInv'
  BY <1>1, <1>2, <1>3, <1>4 DEF PipeTypes, RingInv
<1>6. OpInv' /\ TransferInv'
  BY <1>1, <1>2, <1>3 DEF OpInv, TransferInv
<1>7. StreamInv'
  BY <1>1, <1>2, <1>4 DEF StreamInv, Numbered
<1> QED
  BY <1>5, <1>6, <1>7 DEF PipeInv

-----------------------------------------------------------------------------
(***************************************************************************)
(* The host takes what is ready.                                           *)
(***************************************************************************)
LEMMA BulkInIs ==
  ASSUME NEW e, e \in [enable : BOOLEAN, ready : BOOLEAN, left : Seq(Byte), done : Nat],
         e.enable, e.ready, e.left = <<>>, usbd_cdc_acm_bulk_in(e), ep_tx_busy_flag
  PROVE  /\ ep' \in [enable : BOOLEAN, ready : BOOLEAN, left : Seq(Byte), done : Nat]
         /\ ep'.enable /\ ep'.left = <<>> /\ (~ep_tx_busy_flag' => ~ep'.ready)
<1>1. CASE EndsFull(e.done)
  <2>1. /\ ep' = [e EXCEPT !.ready = TRUE, !.left = <<>>, !.done = 0]
        /\ ep_tx_busy_flag'
    BY <1>1 DEF usbd_cdc_acm_bulk_in, usbd_ep_start_write
  <2>2. <<>> \in Seq(Byte)
    OBVIOUS
  <2> QED
    BY <2>1, <2>2
<1>2. CASE ~EndsFull(e.done)
  <2>1. ep' = [e EXCEPT !.ready = FALSE]
    BY <1>2 DEF usbd_cdc_acm_bulk_in
  <2> QED
    BY <2>1
<1> QED
  BY <1>1, <1>2

\* The bytes in hand are those behind the last one the host took.
LEMMA ReceivedIs ==
  ASSUME page \in [last : Byte, open : BOOLEAN, lost : BOOLEAN, broken : BOOLEAN],
         NEW left \in Seq(Byte), NEW n \in 0 .. Len(left),
         page' = Received(page, SubSeq(left, 1, n))
  PROVE  LET X(k) == IF k = 0 THEN page.last ELSE left[k]
         IN /\ page' \in [last : Byte, open : BOOLEAN, lost : BOOLEAN, broken : BOOLEAN]
            /\ page'.last = X(n)
            /\ page'.lost => page.lost \/ \E k \in 1 .. n : X(k).n # X(k - 1).n + 1
            /\ page'.broken => page.broken \/ \E k \in 1 .. n : ~Follows(X(k - 1), X(k))
<1> DEFINE s == SubSeq(left, 1, n)
           all == <<page.last>> \o s
           X(k) == IF k = 0 THEN page.last ELSE left[k]
<1>1. Len(left) \in Nat /\ n \in Nat /\ n <= Len(left)
  BY LenProperties
<1>2. s \in Seq(Byte) /\ Len(s) = n /\ \A k \in 1 .. n : s[k] = left[k]
  <2>1. \A k \in 1 .. n : left[k] \in Byte
    BY <1>1, ElementOfSeq
  <2>2. /\ 1 \in Int /\ n \in Int /\ (IF 1 <= n THEN n - 1 + 1 ELSE 0) = n /\ n - 1 + 1 = n
        /\ \A k \in 1 .. n : 1 + k - 1 = k
    BY <1>1
  <2>3. /\ s \in Seq(Byte)
        /\ Len(s) = IF 1 <= n THEN n - 1 + 1 ELSE 0
        /\ \A k \in 1 .. n - 1 + 1 : s[k] = left[1 + k - 1]
    BY <2>1, <2>2, SubSeqProperties
  <2> HIDE DEF s
  <2> QED
    BY <2>2, <2>3
<1> HIDE DEF s
<1>3. /\ all \in Seq(Byte) /\ Len(all) = n + 1
      /\ \A k \in 1 .. n + 1 : all[k] = X(k - 1)
  <2>1. <<page.last>> \in Seq(Byte) /\ Len(<<page.last>>) = 1 /\ <<page.last>>[1] = page.last
    OBVIOUS
  <2>2. /\ all \in Seq(Byte) /\ Len(all) = 1 + Len(s)
        /\ \A k \in 1 .. 1 + Len(s) :
             all[k] = IF k <= 1 THEN <<page.last>>[k] ELSE s[k - 1]
    BY <1>2, <2>1, ConcatProperties
  <2> HIDE DEF all
  <2>3. ASSUME NEW k \in 1 .. n + 1 PROVE all[k] = X(k - 1)
    <3>1. k \in 1 .. 1 + Len(s)
      BY <1>1, <1>2
    <3>2. CASE k = 1
      BY <2>1, <2>2, <3>1, <3>2
    <3>3. CASE k # 1
      <4>1. ~(k <= 1) /\ k - 1 \in 1 .. n /\ k - 1 # 0
        BY <1>1, <3>3
      <4> QED
        BY <1>2, <2>2, <3>1, <4>1
    <3> QED
      BY <3>2, <3>3
  <2>4. Len(all) = n + 1
    BY <1>1, <1>2, <2>2
  <2> QED
    BY <2>2, <2>3, <2>4
<1>4. PICK open, lost, broken :
        /\ open \in BOOLEAN /\ lost \in BOOLEAN /\ broken \in BOOLEAN
        /\ lost <=> page.lost \/ \E k \in 1 .. Len(s) : all[k + 1].n # all[k].n + 1
        /\ broken <=> page.broken \/ \E k \in 1 .. Len(s) : ~Follows(all[k], all[k + 1])
        /\ page' = [last |-> all[Len(all)], open |-> open, lost |-> lost, broken |-> broken]
  <2> DEFINE opened == Len(s) = Packet
             lost1 == page.lost \/ \E k \in 1 .. Len(s) : all[k + 1].n # all[k].n + 1
             broken1 == page.broken \/ \E k \in 1 .. Len(s) : ~Follows(all[k], all[k + 1])
  <2>1. page' = [last |-> all[Len(all)], open |-> opened, lost |-> lost1, broken |-> broken1]
    BY DEF Received, s
  <2>2. opened \in BOOLEAN /\ lost1 \in BOOLEAN /\ broken1 \in BOOLEAN
    <3>1. page.lost \in BOOLEAN /\ page.broken \in BOOLEAN
      OBVIOUS
    <3> QED
      BY <3>1
  <2>3. /\ lost1 <=> page.lost \/ \E k \in 1 .. Len(s) : all[k + 1].n # all[k].n + 1
        /\ broken1 <=> page.broken \/ \E k \in 1 .. Len(s) : ~Follows(all[k], all[k + 1])
    OBVIOUS
  <2> HIDE DEF opened, lost1, broken1, all
  <2> QED
    BY <2>1, <2>2, <2>3
<1> HIDE DEF all, X
<1>5. n + 1 \in 1 .. n + 1 /\ n + 1 - 1 = n
  BY <1>1
<1>6. page'.last = X(n) /\ page'.last \in Byte
  <2>1. page'.last = all[n + 1]
    BY <1>3, <1>4
  <2>2. all[n + 1] \in Byte
    BY <1>3, <1>5, ElementOfSeq
  <2> QED
    BY <1>3, <1>5, <2>1, <2>2
<1>7. \A k \in 1 .. n : all[k + 1] = X(k) /\ all[k] = X(k - 1)
  <2> TAKE k \in 1 .. n
  <2>1. k \in 1 .. n + 1 /\ k + 1 \in 1 .. n + 1 /\ k + 1 - 1 = k
    BY <1>1
  <2> QED
    BY <1>3, <2>1
<1>8. page'.lost => page.lost \/ \E k \in 1 .. n : X(k).n # X(k - 1).n + 1
  <2>1. page'.lost = lost
    BY <1>4
  <2> QED
    BY <1>2, <1>4, <1>7, <2>1
<1>9. page'.broken => page.broken \/ \E k \in 1 .. n : ~Follows(X(k - 1), X(k))
  <2>1. page'.broken = broken
    BY <1>4
  <2> QED
    BY <1>2, <1>4, <1>7, <2>1
<1>10. page' \in [last : Byte, open : BOOLEAN, lost : BOOLEAN, broken : BOOLEAN]
  <2>1. all[Len(all)] \in Byte
    BY <1>3, <1>5, ElementOfSeq
  <2> QED
    BY <1>4, <2>1
<1> QED
  BY <1>6, <1>8, <1>9, <1>10 DEF X

LEMMA HostInStep == ASSUME PipeInv, HostIn PROVE PipeInv'
<1> DEFINE left == ep.left
           n == Smaller(Packet, Len(left))
           rest == SubSeq(left, n + 1, Len(left))
           e == [ep EXCEPT !.left = rest, !.done = @ + n]
           m == page.last.n
           X(k) == IF k = 0 THEN page.last ELSE left[k]
<1>1. /\ PipeTypes /\ RingInv /\ StreamInv /\ OpInv /\ TransferInv
      /\ ep.enable /\ ep.ready /\ ep_tx_busy_flag
      /\ pc \notin {"rsize", "rcopy", "rmirror", "send"}
  BY DEF PipeInv, HostIn, TransferInv
<1>2. /\ page' = Received(page, SubSeq(left, 1, n))
      /\ \/ rest = <<>> /\ usbd_cdc_acm_bulk_in(e)
         \/ ep' = e /\ ep_tx_busy_flag' = ep_tx_busy_flag
      /\ UNCHANGED <<pc, task, usb_tx_rb, written, cut, op, write_buffer>>
  <2>1. e.left = rest
    BY <1>1 DEF PipeTypes
  <2>2. /\ page' = Received(page, SubSeq(left, 1, n))
        /\ IF e.left = <<>> THEN usbd_cdc_acm_bulk_in(e)
           ELSE ep' = e /\ UNCHANGED ep_tx_busy_flag
        /\ UNCHANGED <<pc, task, usb_tx_rb, written, cut, op, write_buffer>>
    BY DEF HostIn, stream
  <2> HIDE DEF e, rest, n
  <2> QED
    BY <2>1, <2>2
<1>3. left \in Seq(Byte) /\ Len(left) \in Nat
  BY <1>1, LenProperties DEF PipeTypes
<1>4. n \in Nat /\ n <= Len(left)
  BY <1>3, SmallerIs, StreamSizes
<1> HIDE DEF n
<1>5. rest \in Seq(Byte) /\ Len(rest) = Len(left) - n
      /\ \A k \in 1 .. Len(left) - n : rest[k] = left[n + k]
  <2>1. \A k \in n + 1 .. Len(left) : left[k] \in Byte
    BY <1>3, <1>4, ElementOfSeq
  <2>2. /\ n + 1 \in Int /\ Len(left) \in Int
        /\ (IF n + 1 <= Len(left) THEN Len(left) - (n + 1) + 1 ELSE 0) = Len(left) - n
        /\ Len(left) - (n + 1) + 1 = Len(left) - n
        /\ \A k \in 1 .. Len(left) - n : n + 1 + k - 1 = n + k
    BY <1>3, <1>4
  <2>3. /\ rest \in Seq(Byte)
        /\ Len(rest) = IF n + 1 <= Len(left) THEN Len(left) - (n + 1) + 1 ELSE 0
        /\ \A k \in 1 .. Len(left) - (n + 1) + 1 : rest[k] = left[n + 1 + k - 1]
    BY <1>3, <2>1, <2>2, SubSeqProperties
  <2> HIDE DEF rest, left
  <2> QED
    BY <2>2, <2>3
<1> HIDE DEF rest
<1>6. /\ ep' \in [enable : BOOLEAN, ready : BOOLEAN, left : Seq(Byte), done : Nat]
      /\ ep'.enable /\ ep'.left = rest /\ (~ep_tx_busy_flag' => ~ep'.ready)
      /\ (~ep'.ready => ep'.left = <<>>)
  <2>1. /\ e \in [enable : BOOLEAN, ready : BOOLEAN, left : Seq(Byte), done : Nat]
        /\ e.enable /\ e.ready /\ e.left = rest
    <3>1. PICK d \in Nat : d = ep.done + n
      BY <1>1, <1>4 DEF PipeTypes
    <3>2. e = [ep EXCEPT !.left = rest, !.done = d]
      BY <3>1
    <3> HIDE DEF e
    <3> QED
      BY <1>1, <1>5, <3>1, <3>2 DEF PipeTypes
  <2> HIDE DEF e
  <2>2. CASE rest = <<>> /\ usbd_cdc_acm_bulk_in(e)
    BY <1>1, <2>1, <2>2, BulkInIs
  <2>3. CASE ep' = e /\ ep_tx_busy_flag' = ep_tx_busy_flag
    BY <1>1, <2>1, <2>3
  <2> QED
    BY <1>2, <2>2, <2>3
<1>7. Transit = left /\ Transit' = rest
  BY <1>1, <1>2, <1>6 DEF Transit
<1>8. /\ m \in Nat /\ Taken = m + Len(left) /\ Taken <= written /\ written \in Nat
      /\ written <= End /\ End \in Nat
  <2>1. m \in Nat /\ Taken <= written /\ written \in Nat
    BY <1>1, PipeFacts
  <2>2. Taken = m + Len(left)
    BY <1>7 DEF Taken
  <2>3. op.n \in Nat
    BY <1>1 DEF PipeTypes
  <2> QED
    BY <2>1, <2>2, <2>3 DEF End
<1> HIDE DEF m, left
<1>9. /\ page' \in [last : Byte, open : BOOLEAN, lost : BOOLEAN, broken : BOOLEAN]
      /\ page'.last = X(n)
      /\ page'.lost => page.lost \/ \E k \in 1 .. n : X(k).n # X(k - 1).n + 1
      /\ page'.broken => page.broken \/ \E k \in 1 .. n : ~Follows(X(k - 1), X(k))
  <2>1. n \in 0 .. Len(left)
    BY <1>3, <1>4
  <2>2. page \in [last : Byte, open : BOOLEAN, lost : BOOLEAN, broken : BOOLEAN]
    BY <1>1 DEF PipeTypes
  <2> QED
    BY <1>2, <1>3, <2>1, <2>2, ReceivedIs
<1>10. \A k \in 0 .. n, p \in Nat : p = m + k => X(k) = Numbered(p) /\ X(k).n = p
  <2> TAKE k \in 0 .. n, p \in Nat
  <2> SUFFICES ASSUME p = m + k PROVE X(k) = Numbered(p) /\ X(k).n = p
    OBVIOUS
  <2>1. p \in m .. End
    BY <1>3, <1>4, <1>8
  <2>2. X(k) = Numbered(p)
    <3>1. CASE k = 0
      <4>1. p = m
        BY <1>8, <3>1
      <4> QED
        BY <3>1, <4>1 DEF Numbered, m
    <3>2. CASE k # 0
      <4>1. p # m /\ p <= Taken /\ p - m = k
        BY <1>3, <1>4, <1>8, <3>2
      <4> QED
        BY <1>7, <3>2, <4>1 DEF Numbered, m
    <3> QED
      BY <3>1, <3>2
  <2> QED
    BY <1>1, <2>1, <2>2 DEF StreamInv, m
<1>11. ~page'.lost
  <2> SUFFICES ASSUME NEW k \in 1 .. n PROVE X(k).n = X(k - 1).n + 1
    BY <1>1, <1>9 DEF StreamInv
  <2> HIDE DEF X
  <2>1. PICK p \in Nat : p = m + k /\ p - 1 \in Nat /\ p - 1 = m + (k - 1)
    BY <1>4, <1>8
  <2>2. k \in 0 .. n /\ k - 1 \in 0 .. n
    BY <1>4
  <2>3. X(k).n = p /\ X(k - 1).n = p - 1
    BY <1>10, <2>1, <2>2
  <2> QED
    BY <2>1, <2>3
<1>12. ~cut' => ~page'.broken
  <2> SUFFICES ASSUME ~cut, NEW k \in 1 .. n PROVE Follows(X(k - 1), X(k))
    BY <1>1, <1>2, <1>9 DEF StreamInv
  <2> HIDE DEF X
  <2>1. PICK p \in Nat : p = m + (k - 1) /\ p + 1 = m + k /\ p \in m .. End - 1
    <3>1. m + (k - 1) \in Nat /\ m + (k - 1) + 1 = m + k /\ m + (k - 1) \in m .. End - 1
      BY <1>3, <1>4, <1>8
    <3> QED
      BY <3>1
  <2>2. k \in 0 .. n /\ k - 1 \in 0 .. n /\ p + 1 \in Nat
    BY <1>4
  <2>3. X(k) = Numbered(p + 1) /\ X(k - 1) = Numbered(p)
    BY <1>10, <2>1, <2>2
  <2> QED
    BY <1>1, <2>1, <2>3 DEF StreamInv, m
<1>13. PICK q \in Nat : q = m + n /\ page'.last.n = q /\ page'.last = Numbered(q)
  <2>1. n \in 0 .. n /\ m + n \in Nat
    BY <1>4, <1>8
  <2> HIDE DEF X
  <2> QED
    BY <1>9, <1>10, <2>1
<1> HIDE DEF X
<1>14. Taken' = Taken /\ Held' = Held /\ End' = End /\ ReadSide' = ReadSide
       /\ WriteSide' = WriteSide
  <2>1. Taken' = q + Len(rest)
    BY <1>7, <1>13 DEF Taken
  <2>2. Taken' = Taken
    BY <1>3, <1>4, <1>5, <1>8, <1>13, <2>1
  <2> QED
    BY <1>2, <2>2 DEF Held, End, ReadSide, WriteSide, FlipDue
<1>15. ASSUME NEW p \in q .. End PROVE Numbered(p)' = Numbered(p)
  <2>1. CASE p = q
    BY <1>13, <2>1 DEF Numbered
  <2>2. CASE p # q /\ p <= Taken
    <3>1. /\ p # m /\ p - m = n + (p - q) /\ p - q \in 1 .. Len(left) - n
      BY <1>3, <1>4, <1>8, <1>13, <2>2
    <3>2. Numbered(p)' = rest[p - q]
      BY <1>7, <1>13, <1>14, <2>2 DEF Numbered
    <3>3. Numbered(p) = left[p - m]
      BY <1>7, <2>2, <3>1 DEF Numbered, m
    <3>4. rest[p - q] = left[n + (p - q)]
      BY <1>5, <3>1
    <3> QED
      BY <3>1, <3>2, <3>3, <3>4
  <2>3. CASE p # q /\ ~(p <= Taken)
    <3>1. p # m
      BY <1>3, <1>4, <1>8, <1>13, <2>3
    <3> QED
      BY <1>2, <1>13, <1>14, <2>3, <3>1 DEF Numbered, m
  <2> QED
    BY <2>1, <2>2, <2>3
<1>16. PipeTypes' /\ RingInv'
  BY <1>1, <1>2, <1>6, <1>9, <1>14 DEF PipeTypes, RingInv
<1>17. OpInv' /\ TransferInv'
  BY <1>1, <1>2, <1>6, <1>14 DEF OpInv, TransferInv
<1>18. StreamInv'
  <2>1. page.last.n \in Nat /\ page.last.n <= q /\ q <= End /\ q = page'.last.n
    BY <1>3, <1>4, <1>8, <1>13 DEF m
  <2> QED
    BY <1>1, <1>2, <1>8, <1>11, <1>12, <1>14, <1>15, <2>1, StreamMoves
<1> QED
  BY <1>16, <1>17, <1>18 DEF PipeInv

-----------------------------------------------------------------------------
(***************************************************************************)
(* The whole.                                                              *)
(***************************************************************************)
\* Until an interrupt writes in the middle of an operation on the ring, or the bus
\* is reset, the stream is whole.
CleanInv ==
  /\ SlotInv /\ pc \in Place
  /\ used \in [samples : Nat, adc : Nat, commands : Nat, resets : Nat]
  /\ overlap \in BOOLEAN
  /\ Undisturbed => PipeInv

LEMMA InitPipe == Init => PipeInv
<1> SUFFICES ASSUME Init PROVE PipeInv
  OBVIOUS
<1>1. /\ pc = "task" /\ op = NoOp /\ write_buffer = <<>> /\ ep_tx_busy_flag = FALSE
      /\ usb_tx_rb = [mem |-> [i \in Cell |-> Garbage],
                      readMirror |-> 0, readIndex |-> 0, writeMirror |-> 0, writeIndex |-> 0]
      /\ ep = [enable |-> TRUE, ready |-> FALSE, left |-> <<>>, done |-> 0]
      /\ page = [last |-> Garbage, open |-> FALSE, lost |-> FALSE, broken |-> FALSE]
      /\ written = 0
  BY DEF Init, Cell
<1>2. Garbage \in Byte /\ 0 \in Cell
  BY StreamSizes DEF Garbage, Byte, Cell
<1>3. PipeTypes
  BY <1>1, <1>2 DEF PipeTypes, NoOp
<1>4. Transit = <<>> /\ Taken = 0 /\ Held = 0 /\ End = 0 /\ page.last.n = 0
  BY <1>1 DEF Transit, Taken, Held, End, Garbage
<1>5. RingInv
  BY <1>1, <1>4 DEF RingInv, Holds, ReadSide, WriteSide
<1>6. OpInv /\ TransferInv
  BY <1>1 DEF OpInv, TransferInv
<1>7. StreamInv
  <2>1. Numbered(0) = Garbage
    BY <1>1, <1>4 DEF Numbered
  <2>2. \A p \in 0 .. 0 : p = 0
    OBVIOUS
  <2>3. \A p \in 0 .. 0 - 1 : FALSE
    OBVIOUS
  <2> QED
    BY <1>1, <1>4, <2>1, <2>2, <2>3 DEF StreamInv, Garbage
<1> QED
  BY <1>3, <1>5, <1>6, <1>7 DEF PipeInv

LEMMA MainLoopPipe == ASSUME PipeInv, SlotInv, MainLoop PROVE PipeInv'
<1>1. CASE TaskRead
  BY <1>1, PipeKept DEF TaskRead, stream, Outside
<1>2. CASE TaskPick
  BY <1>2, PipeKept DEF TaskPick, stream, Outside
<1>3. CASE TaskCopy
  BY <1>3, PipeKept DEF TaskCopy, stream, Outside
<1>4. CASE TaskIndex
  BY <1>4, PipeKept DEF TaskIndex, stream, Outside
<1>5. CASE WriteLength \/ WriteRoom \/ WriteStore \/ WriteAdvance \/ WriteMirror
  BY <1>5, WriteLengthStep, WriteRoomStep, WriteStoreStep, WriteAdvanceStep, WriteMirrorStep
<1>6. CASE ReadLength \/ ReadSize \/ ReadCopy \/ ReadMirror \/ Send
  BY <1>6, ReadLengthStep, ReadSizeStep, ReadCopyStep, ReadMirrorStep, SendStep
<1> QED
  BY <1>1, <1>2, <1>3, <1>4, <1>5, <1>6 DEF MainLoop

LEMMA InterruptPipe ==
  ASSUME PipeInv, pc \in Place, Interrupt, ~overlap', used'.resets = 0,
         used \in [samples : Nat, adc : Nat, commands : Nat, resets : Nat]
  PROVE  PipeInv'
<1>1. CASE timer1_isr
  BY <1>1, PipeKept DEF timer1_isr, stream
<1>2. CASE dma0_ch0_isr
  <2>1. RingWrite(AdcLen) /\ UNCHANGED <<pc, task, op, write_buffer, usb>>
    BY <1>2 DEF dma0_ch0_isr
  <2>2. ~InRing
    BY <2>1 DEF RingWrite
  <2> QED
    BY <2>1, <2>2, RingWriteStep, StreamSizes
<1>3. ASSUME NEW r \in Request, usbd_cdc_acm_bulk_out(r) PROVE PipeInv'
  <2>1. PICK N \in Nat : N > 0 /\ RingWrite(N)
    <3>1. RingWrite(IF r = "refuse" THEN HeadLen ELSE ReplyLen)
      BY <1>3 DEF usbd_cdc_acm_bulk_out
    <3>2. CASE r = "refuse"
      BY <3>1, <3>2, StreamSizes
    <3>3. CASE r # "refuse"
      BY <3>1, <3>3, StreamSizes
    <3> QED
      BY <3>2, <3>3
  <2>2. ~InRing
    BY <2>1 DEF RingWrite
  <2>3. UNCHANGED <<pc, task, op, write_buffer, usb>>
    BY <1>3 DEF usbd_cdc_acm_bulk_out
  <2> QED
    BY <2>1, <2>2, <2>3, RingWriteStep
<1>4. CASE usbd_cdc_acm_set_dtr
  BY <1>4, PipeKept DEF usbd_cdc_acm_set_dtr, stream
<1>5. CASE HostIn
  BY <1>5, HostInStep
<1>6. CASE BusReset
  <2>1. used' = [used EXCEPT !.resets = @ + 1]
    BY <1>6 DEF BusReset
  <2>2. used'.resets = used.resets + 1 /\ used.resets \in Nat
    BY <2>1
  <2> QED
    BY <2>2
<1>7. CASE Configure
  BY <1>7 DEF Configure, PipeInv, TransferInv
<1> QED
  BY <1>1, <1>2, <1>3, <1>4, <1>5, <1>6, <1>7 DEF Interrupt

\* Disturbed once is disturbed for good.
LEMMA DisturbedStays ==
  ASSUME CleanInv, Next
  PROVE  /\ used' \in [samples : Nat, adc : Nat, commands : Nat, resets : Nat]
         /\ used'.resets = 0 => used.resets = 0
         /\ overlap' \in BOOLEAN /\ (overlap => overlap')
<1>1. /\ \/ used' = used
         \/ used' = [used EXCEPT !.samples = @ + 1]
         \/ used' = [used EXCEPT !.adc = @ + 1]
         \/ used' = [used EXCEPT !.commands = @ + 1]
         \/ used' = [used EXCEPT !.resets = @ + 1]
      /\ UNCHANGED overlap \/ overlap' = (overlap \/ InRing)
  <2>1. CASE MainLoop
    BY <2>1 DEF MainLoop, TaskRead, TaskPick, TaskCopy, TaskIndex, WriteLength, WriteRoom,
                WriteStore, WriteAdvance, WriteMirror, ReadLength, ReadSize, ReadCopy,
                ReadMirror, Send, stream
  <2>2. CASE Interrupt
    BY <2>2 DEF Interrupt, timer1_isr, dma0_ch0_isr, usbd_cdc_acm_bulk_out,
                usbd_cdc_acm_set_dtr, HostIn, BusReset, Configure, RingWrite, stream
  <2> QED
    BY <2>1, <2>2 DEF Next
<1>2. /\ used' \in [samples : Nat, adc : Nat, commands : Nat, resets : Nat]
      /\ used'.resets = used.resets \/ used'.resets = used.resets + 1
  BY <1>1 DEF CleanInv
<1>3. used'.resets = 0 => used.resets = 0
  BY <1>2 DEF CleanInv
<1>4. overlap' \in BOOLEAN /\ (overlap => overlap')
  <2>1. CASE UNCHANGED overlap
    BY <2>1 DEF CleanInv
  <2>2. CASE overlap' = (overlap \/ InRing)
    BY <2>2
  <2> QED
    BY <1>1, <2>1, <2>2
<1> QED
  BY <1>2, <1>3, <1>4

LEMMA CleanStep == ASSUME CleanInv, [Next]_vars PROVE CleanInv'
<1>1. CASE Next
  <2>1. SlotInv'
    BY <1>1, StaleStep DEF CleanInv, vars
  <2>2. pc' \in Place
    <3>1. CASE MainLoop
      BY <3>1 DEF MainLoop, TaskRead, TaskPick, TaskCopy, TaskIndex, WriteLength, WriteRoom,
                  WriteStore, WriteAdvance, WriteMirror, ReadLength, ReadSize, ReadCopy,
                  ReadMirror, Send, Place
    <3>2. CASE Interrupt
      BY <3>2 DEF Interrupt, timer1_isr, dma0_ch0_isr, usbd_cdc_acm_bulk_out,
                  usbd_cdc_acm_set_dtr, HostIn, BusReset, Configure, CleanInv
    <3> QED
      BY <1>1, <3>1, <3>2 DEF Next
  <2>3. Undisturbed' => PipeInv'
    <3> SUFFICES ASSUME Undisturbed' PROVE PipeInv'
      OBVIOUS
    <3>1. ~overlap' /\ used'.resets = 0 /\ Undisturbed
      BY <1>1, DisturbedStays DEF Undisturbed
    <3>2. PipeInv
      BY <3>1 DEF CleanInv
    <3> QED
      BY <1>1, <3>1, <3>2, MainLoopPipe, InterruptPipe DEF CleanInv, Next
  <2> QED
    BY <1>1, <2>1, <2>2, <2>3, DisturbedStays DEF CleanInv
<1>2. CASE UNCHANGED vars
  <2>1. SlotInv'
    BY <1>2, StaleStep DEF CleanInv
  <2>2. Undisturbed' => Undisturbed
    BY <1>2 DEF Undisturbed, vars, stream
  <2>3. PipeInv => PipeInv'
    BY <1>2, PipeKept DEF vars, stream
  <2> QED
    BY <1>2, <2>1, <2>2, <2>3 DEF CleanInv, vars, stream
<1> QED
  BY <1>1, <1>2

LEMMA CleanAlways == Spec => []CleanInv
<1>1. Init => CleanInv
  <2> SUFFICES ASSUME Init PROVE CleanInv
    OBVIOUS
  <2>1. SlotInv /\ PipeInv
    BY InitSlots, InitPipe
  <2>2. pc = "task" /\ used = [samples |-> 0, adc |-> 0, commands |-> 0, resets |-> 0]
        /\ overlap = FALSE
    BY DEF Init
  <2> QED
    BY <2>1, <2>2 DEF CleanInv, Place
<1>2. CleanInv /\ [Next]_vars => CleanInv'
  BY CleanStep
<1> QED
  BY <1>1, <1>2, PTL DEF Spec

\* For every size of the ring, of a transfer, of a packet and of the blocks: as long
\* as no interrupt writes to the ring in the middle of Ring_Buffer_Write or _Read of
\* the main loop, and the bus is not reset, the host gets every byte once and in order.
THEOREM NothingIsLost == Spec => []NothingLost
<1>1. CleanInv => NothingLost
  BY DEF CleanInv, NothingLost, PipeInv, StreamInv
<1> QED
  BY <1>1, CleanAlways, PTL

\* And as long as moreover the ring had room for every block, blocks follow each
\* other where the host looks for their heads.
THEOREM FramingIsKept == Spec => []FramingKept
<1>1. CleanInv => FramingKept
  BY DEF CleanInv, FramingKept, PipeInv, StreamInv
<1> QED
  BY <1>1, CleanAlways, PTL

-----------------------------------------------------------------------------
(***************************************************************************)
(* Types, whatever an interrupt does in the middle of an operation on the  *)
(* ring: lengths and indices that do not fit together stay words, and what *)
(* is read stays within write_buffer.                                      *)
(***************************************************************************)
Index == 0 .. Word - 1

RingTypes ==
  /\ usb_tx_rb \in [mem : [Cell -> Byte], readMirror : 0 .. 1, readIndex : Index,
                    writeMirror : 0 .. 1, writeIndex : Index]
  /\ op \in [rm : Nat, wm : Nat, n : Nat, left : Nat]
  /\ pc \in {"store", "advance"} => op.n <= HeadLen + task.count
  /\ pc = "rcopy" => op.n <= TxLen /\ op.n < Word
  /\ write_buffer \in Seq(Byte) /\ Len(write_buffer) <= TxLen
  /\ written \in Nat

UsbTypes ==
  /\ ep \in [enable : BOOLEAN, ready : BOOLEAN, left : Seq(Byte), done : Nat]
  /\ page \in [last : Byte, open : BOOLEAN, lost : BOOLEAN, broken : BOOLEAN]

FlagTypes ==
  /\ pc \in Place
  /\ timer_flg \in BOOLEAN /\ adc \in BOOLEAN /\ dtr_enable \in BOOLEAN
  /\ ep_tx_busy_flag \in BOOLEAN
  /\ overlap \in BOOLEAN /\ cut \in BOOLEAN /\ restarted \in BOOLEAN /\ stale \in BOOLEAN
  /\ used \in [samples : 0 .. MaxSamples, adc : 0 .. MaxAdc,
               commands : 0 .. MaxCommands, resets : 0 .. MaxResets]

TypeInv == SlotInv /\ RingTypes /\ UsbTypes /\ FlagTypes

LEMMA TypeInvIs == TypeInv => TypeOK
<1> SUFFICES ASSUME TypeInv PROVE TypeOK
  OBVIOUS
<1>1. /\ i2c_buf \in [0 .. Slots - 1 -> Nat]
      /\ i2c_buf_wr \in 0 .. Slots - 1 /\ i2c_buf_rd \in 0 .. Slots - 1
      /\ pktcnt \in {0, PktCnt}
      /\ task \in [prd : 0 .. Slots - 1, wrapped : BOOLEAN, count : {0, PktCnt}]
  BY DEF TypeInv, SlotInv, SampleTypes, Slot
<1>2. /\ usb_tx_rb.mem \in [0 .. Size - 1 -> Byte]
      /\ {usb_tx_rb.readMirror, usb_tx_rb.writeMirror} \subseteq 0 .. 1
      /\ {usb_tx_rb.readIndex, usb_tx_rb.writeIndex} \subseteq 0 .. Word - 1
      /\ write_buffer \in Seq(Byte) /\ Len(write_buffer) <= TxLen
  BY DEF TypeInv, RingTypes, Cell, Index
<1>3. /\ ep.left \in Seq(Byte) /\ ep.enable \in BOOLEAN /\ ep.ready \in BOOLEAN
      /\ page \in [last : Byte, open : BOOLEAN, lost : BOOLEAN, broken : BOOLEAN]
  BY DEF TypeInv, UsbTypes
<1>4. /\ pc \in Place /\ timer_flg \in BOOLEAN /\ adc \in BOOLEAN /\ dtr_enable \in BOOLEAN
      /\ ep_tx_busy_flag \in BOOLEAN /\ {overlap, cut, restarted, stale} \subseteq BOOLEAN
      /\ used \in [samples : 0 .. MaxSamples, adc : 0 .. MaxAdc,
                   commands : 0 .. MaxCommands, resets : 0 .. MaxResets]
  <2>1. \A b \in {overlap, cut, restarted, stale} : b \in BOOLEAN
    BY Zenon DEF TypeInv, FlagTypes
  <2> QED
    BY <2>1 DEF TypeInv, FlagTypes
<1> QED
  BY <1>1, <1>2, <1>3, <1>4 DEF TypeOK

LEMMA TypeInvInit == Init => TypeInv
<1> SUFFICES ASSUME Init PROVE TypeInv
  OBVIOUS
<1>1. SlotInv /\ PipeTypes /\ pc = "task" /\ Len(write_buffer) = 0
  BY InitSlots, InitPipe DEF Init, PipeInv
<1>2. /\ usb_tx_rb.mem \in [Cell -> Byte]
      /\ usb_tx_rb = [mem |-> usb_tx_rb.mem, readMirror |-> 0, readIndex |-> 0,
                      writeMirror |-> 0, writeIndex |-> 0]
      /\ 0 \in Index
  BY <1>1, StreamSizes DEF PipeTypes, Init, Index
<1>3. usb_tx_rb \in [mem : [Cell -> Byte], readMirror : 0 .. 1, readIndex : Index,
                     writeMirror : 0 .. 1, writeIndex : Index]
  BY <1>2
<1>4. RingTypes
  BY <1>1, <1>3, StreamSizes DEF RingTypes, PipeTypes
<1>5. UsbTypes
  BY <1>1 DEF UsbTypes, PipeTypes
<1>6. FlagTypes
  <2>1. 0 \in 0 .. MaxSamples /\ 0 \in 0 .. MaxAdc /\ 0 \in 0 .. MaxCommands
        /\ 0 \in 0 .. MaxResets
    BY BoundAssumption
  <2>2. used = [samples |-> 0, adc |-> 0, commands |-> 0, resets |-> 0]
    BY DEF Init
  <2>3. used \in [samples : 0 .. MaxSamples, adc : 0 .. MaxAdc,
                 commands : 0 .. MaxCommands, resets : 0 .. MaxResets]
    BY <2>1, <2>2
  <2> QED
    BY <2>3 DEF FlagTypes, Init, Place
<1> QED
  BY <1>1, <1>4, <1>5, <1>6 DEF TypeInv


\* Word arithmetic stays in a word.
LEMMA WordTypes ==
  /\ \A a, b \in Index : Minus(a, b) \in Index
  /\ \A a, b \in Nat : (a + b) % Word \in Index
  /\ Cell \subseteq Index /\ Size \in Index /\ Index \subseteq Nat
<1>1. \A c \in Int : c % Word \in Index
  BY StreamSizes DEF Index
<1>2. \A a, b \in Index : a + Word - b \in Int
  BY StreamSizes DEF Index
<1> QED
  BY <1>1, <1>2, StreamSizes DEF Minus, Index, Cell

LEMMA RingLengths ==
  ASSUME NEW rm, NEW wm, NEW ri \in Index, NEW wi \in Index
  PROVE  Length(rm, wm, ri, wi) \in Index /\ Empty(rm, wm, ri, wi) \in Index
<1>1. Length(rm, wm, ri, wi) \in Index
  BY WordTypes DEF Length
<1> QED
  BY <1>1, WordTypes DEF Empty

LEMMA FirstPart ==
  ASSUME NEW s \in Seq(Byte), NEW n \in Nat, n <= Len(s)
  PROVE  /\ SubSeq(s, 1, n) \in Seq(Byte) /\ Len(SubSeq(s, 1, n)) = n
         /\ SubSeq(s, n + 1, Len(s)) \in Seq(Byte)
<1>1. Len(s) \in Nat
  BY LenProperties
<1>2. \A k \in 1 .. Len(s) : s[k] \in Byte
  BY ElementOfSeq
<1>3. /\ \A k \in 1 .. n : s[k] \in Byte
      /\ \A k \in n + 1 .. Len(s) : s[k] \in Byte
      /\ n \in Int /\ n + 1 \in Int /\ Len(s) \in Int /\ 1 \in Int
      /\ (IF 1 <= n THEN n - 1 + 1 ELSE 0) = n
  BY <1>1, <1>2
<1>4. SubSeq(s, 1, n) \in Seq(Byte) /\ Len(SubSeq(s, 1, n)) = IF 1 <= n THEN n - 1 + 1 ELSE 0
  BY <1>3, SubSeqProperties
<1>5. SubSeq(s, n + 1, Len(s)) \in Seq(Byte)
  BY <1>3, SubSeqProperties
<1> QED
  BY <1>3, <1>4, <1>5

\* Wherever the index points, memcpy leaves bytes in the ring.
LEMMA FillTypes ==
  ASSUME NEW r, r.mem \in [Cell -> Byte], r.writeIndex \in Nat, NEW data \in Seq(Byte),
         NEW left \in Nat
  PROVE  Fill(r, data, left) \in [Cell -> Byte]
<1>1. CASE left > Len(data)
  BY <1>1, CopyToIs DEF Fill
<1>2. CASE ~(left > Len(data))
  <2>1. left <= Len(data)
    BY <1>2, LenProperties
  <2>2. SubSeq(data, 1, left) \in Seq(Byte) /\ SubSeq(data, left + 1, Len(data)) \in Seq(Byte)
    BY <2>1, FirstPart
  <2>3. CopyTo(r.mem, r.writeIndex, SubSeq(data, 1, left)) \in [Cell -> Byte]
    BY <2>2, CopyToIs
  <2>4. CopyTo(CopyTo(r.mem, r.writeIndex, SubSeq(data, 1, left)), 0,
               SubSeq(data, left + 1, Len(data))) \in [Cell -> Byte]
    BY <2>2, <2>3, CopyToIs
  <2> QED
    BY <1>2, <2>4 DEF Fill
<1> QED
  BY <1>1, <1>2

LEMMA CopyFromTypes ==
  ASSUME NEW mem \in [Cell -> Byte], NEW i \in Nat, NEW n \in Nat
  PROVE  CopyFrom(mem, i, n) \in Seq(Byte) /\ Len(CopyFrom(mem, i, n)) = n
<1> DEFINE c == CopyFrom(mem, i, n)
<1>1. \A k \in 1 .. n : i + k - 1 < Size => i + k - 1 \in Cell
  BY StreamSizes DEF Cell
<1>2. Garbage \in Byte
  BY DEF Garbage, Byte
<1>3. c = [k \in 1 .. n |-> IF i + k - 1 < Size THEN mem[i + k - 1] ELSE Garbage]
  BY DEF CopyFrom
<1> HIDE DEF c
<1>4. c \in [1 .. n -> Byte]
  BY <1>1, <1>2, <1>3
<1>5. c \in Seq(Byte)
  BY <1>4, SeqDef
<1>6. Len(c) = n
  <2>1. DOMAIN c = 1 .. Len(c) /\ Len(c) \in Nat
    BY <1>5, LenProperties
  <2>2. PICK l \in Nat : l = Len(c)
    BY <2>1
  <2>3. 1 .. l = 1 .. n
    BY <1>4, <2>1, <2>2
  <2>4. l = n
    BY <2>3
  <2> QED
    BY <2>2, <2>4
<1> QED
  BY <1>5, <1>6 DEF c

-----------------------------------------------------------------------------
\* What leaves the ring, the locals and write_buffer alone.
LEMMA RingTypesKept ==
  ASSUME RingTypes, UNCHANGED <<usb_tx_rb, op, write_buffer, written>>,
         UNCHANGED <<pc, task>> \/ pc' \in Outside
  PROVE  RingTypes'
BY DEF RingTypes, Outside

LEMMA UsbTypesKept == ASSUME UsbTypes, UNCHANGED <<ep, page>> PROVE UsbTypes'
BY DEF UsbTypes

\* What a write does to its index.
LEMMA AdvanceTypes ==
  ASSUME NEW r \in [mem : [Cell -> Byte], readMirror : 0 .. 1, readIndex : Index,
                    writeMirror : 0 .. 1, writeIndex : Index],
         NEW n \in Index, NEW left \in Nat
  PROVE  Advance(r, n, left) \in [mem : [Cell -> Byte], readMirror : 0 .. 1,
                                  readIndex : Index, writeMirror : 0 .. 1,
                                  writeIndex : Index]
<1>1. PICK a \in Index : Advance(r, n, left) = [r EXCEPT !.writeIndex = a]
  <2>1. CASE left > n
    <3>1. (r.writeIndex + n) % Word \in Index
      <4>1. r.writeIndex \in Nat /\ n \in Nat
        BY WordTypes
      <4> QED
        BY <4>1, WordTypes
    <3> QED
      BY <2>1, <3>1 DEF Advance
  <2>2. CASE ~(left > n)
    <3>1. n - left \in Index
      BY <2>2, StreamSizes DEF Index
    <3> QED
      BY <2>2, <3>1 DEF Advance
  <2> QED
    BY <2>1, <2>2
<1> QED
  BY <1>1

LEMMA FlipTypes ==
  ASSUME NEW r \in [mem : [Cell -> Byte], readMirror : 0 .. 1, readIndex : Index,
                    writeMirror : 0 .. 1, writeIndex : Index],
         NEW n, NEW left
  PROVE  FlipWrite(r, n, left) \in [mem : [Cell -> Byte], readMirror : 0 .. 1,
                                    readIndex : Index, writeMirror : 0 .. 1,
                                    writeIndex : Index]
<1>1. 1 - r.writeMirror \in 0 .. 1
  OBVIOUS
<1>2. CASE left > n
  BY <1>2 DEF FlipWrite
<1>3. CASE ~(left > n)
  BY <1>1, <1>3 DEF FlipWrite
<1> QED
  BY <1>2, <1>3

\* From an interrupt.
LEMMA RingWriteTypes ==
  ASSUME RingTypes, NEW N \in Nat, N < Word, RingWrite(N),
         UNCHANGED <<pc, task, op, write_buffer>>
  PROVE  RingTypes'
<1> DEFINE len == Smaller(N, Room)
           left == Minus(Size, usb_tx_rb.writeIndex)
           fill == Fill(usb_tx_rb, SubSeq(Block(N), 1, len), left)
<1>1. /\ usb_tx_rb.mem \in [Cell -> Byte] /\ usb_tx_rb.readIndex \in Index
      /\ usb_tx_rb.writeIndex \in Index /\ usb_tx_rb.writeIndex \in Nat /\ written \in Nat
  BY StreamSizes DEF RingTypes, Index
<1>2. len \in Nat /\ len <= N /\ len \in Index
  <2>1. Room \in Nat
    BY <1>1, RingLengths, StreamSizes DEF Room, Index
  <2>2. len \in Nat /\ len <= N
    BY <2>1, SmallerIs
  <2> QED
    BY <2>2, StreamSizes DEF Index
<1>3. left \in Nat
  <2>1. Minus(Size, usb_tx_rb.writeIndex) \in Index
    BY <1>1, WordTypes
  <2> QED
    BY <2>1, WordTypes
<1>4. /\ usb_tx_rb' = IF len = 0 THEN usb_tx_rb
                      ELSE FlipWrite(Advance([usb_tx_rb EXCEPT !.mem = fill], len, left),
                                     len, left)
      /\ written' = written + len
  BY DEF RingWrite
<1> HIDE DEF len, left
<1>5. usb_tx_rb' \in [mem : [Cell -> Byte], readMirror : 0 .. 1, readIndex : Index,
                      writeMirror : 0 .. 1, writeIndex : Index]
  <2>1. CASE len = 0
    BY <1>4, <2>1 DEF RingTypes
  <2>2. CASE len # 0
    <3>1. SubSeq(Block(N), 1, len) \in Seq(Byte)
      BY <1>1, <1>2, <2>2, BlockIs
    <3>2. fill \in [Cell -> Byte]
      BY <1>1, <1>3, <3>1, FillTypes
    <3> HIDE DEF fill
    <3>3. [usb_tx_rb EXCEPT !.mem = fill]
            \in [mem : [Cell -> Byte], readMirror : 0 .. 1, readIndex : Index,
                 writeMirror : 0 .. 1, writeIndex : Index]
      BY <3>2 DEF RingTypes
    <3>4. Advance([usb_tx_rb EXCEPT !.mem = fill], len, left)
            \in [mem : [Cell -> Byte], readMirror : 0 .. 1, readIndex : Index,
                 writeMirror : 0 .. 1, writeIndex : Index]
      BY <1>2, <1>3, <3>3, AdvanceTypes
    <3> QED
      BY <1>4, <2>2, <3>4, FlipTypes
  <2> QED
    BY <2>1, <2>2
<1>6. written' \in Nat
  BY <1>1, <1>2, <1>4
<1> QED
  BY <1>5, <1>6 DEF RingTypes

LEMMA HostInTypes == ASSUME UsbTypes, FlagTypes, HostIn PROVE UsbTypes' /\ ep_tx_busy_flag' \in BOOLEAN
<1> DEFINE left == ep.left
           n == Smaller(Packet, Len(left))
           rest == SubSeq(left, n + 1, Len(left))
           e == [ep EXCEPT !.left = rest, !.done = @ + n]
<1>1. left \in Seq(Byte) /\ Len(left) \in Nat
  BY LenProperties DEF UsbTypes
<1>2. n \in Nat /\ n <= Len(left)
  BY <1>1, SmallerIs, StreamSizes
<1>3. /\ page' = Received(page, SubSeq(left, 1, n))
      /\ usbd_cdc_acm_bulk_in(e) \/ (ep' = e /\ ep_tx_busy_flag' = ep_tx_busy_flag)
  BY DEF HostIn
<1> HIDE DEF n
<1>4. rest \in Seq(Byte)
  BY <1>1, <1>2, FirstPart
<1> HIDE DEF rest
<1>5. e \in [enable : BOOLEAN, ready : BOOLEAN, left : Seq(Byte), done : Nat]
  <2>1. PICK d \in Nat : d = ep.done + n
    BY <1>2 DEF UsbTypes
  <2>2. e = [ep EXCEPT !.left = rest, !.done = d]
    BY <2>1
  <2> HIDE DEF e
  <2> QED
    BY <1>4, <2>1, <2>2 DEF UsbTypes
<1> HIDE DEF e
<1>6. /\ ep' \in [enable : BOOLEAN, ready : BOOLEAN, left : Seq(Byte), done : Nat]
      /\ ep_tx_busy_flag' \in BOOLEAN
  <2>1. ep_tx_busy_flag \in BOOLEAN
    BY DEF FlagTypes
  <2>2. CASE ep' = e /\ ep_tx_busy_flag' = ep_tx_busy_flag
    BY <1>5, <2>1, <2>2
  <2>3. CASE usbd_cdc_acm_bulk_in(e)
    <3>1. <<>> \in Seq(Byte)
      OBVIOUS
    <3>2. \/ ep' = [e EXCEPT !.ready = TRUE, !.left = <<>>, !.done = 0]
          \/ ep' = e
          \/ ep' = [e EXCEPT !.ready = FALSE]
      BY <2>3 DEF usbd_cdc_acm_bulk_in, usbd_ep_start_write
    <3>3. ep_tx_busy_flag' = ep_tx_busy_flag \/ ep_tx_busy_flag' = FALSE
      BY <2>3 DEF usbd_cdc_acm_bulk_in
    <3>4. CASE ep' = [e EXCEPT !.ready = TRUE, !.left = <<>>, !.done = 0]
      BY <1>5, <2>1, <3>1, <3>3, <3>4
    <3>5. CASE ep' = e
      BY <1>5, <2>1, <3>3, <3>5
    <3>6. CASE ep' = [e EXCEPT !.ready = FALSE]
      BY <1>5, <2>1, <3>3, <3>6
    <3> QED
      BY <3>2, <3>4, <3>5, <3>6
  <2> QED
    BY <1>3, <2>2, <2>3
<1>7. page' \in [last : Byte, open : BOOLEAN, lost : BOOLEAN, broken : BOOLEAN]
  <2>1. n \in 0 .. Len(left)
    BY <1>1, <1>2
  <2>2. page \in [last : Byte, open : BOOLEAN, lost : BOOLEAN, broken : BOOLEAN]
    BY DEF UsbTypes
  <2> HIDE DEF left
  <2> QED
    BY <1>1, <1>3, <2>1, <2>2, ReceivedIs
<1> QED
  BY <1>6, <1>7 DEF UsbTypes

-----------------------------------------------------------------------------
LEMMA MainLoopRing == ASSUME SlotInv, RingTypes, MainLoop PROVE RingTypes'
<1>1. CASE TaskRead \/ TaskPick \/ TaskCopy \/ TaskIndex
  <2>1. UNCHANGED <<usb_tx_rb, op, write_buffer, written>> /\ pc' \in Outside
    BY <1>1 DEF TaskRead, TaskPick, TaskCopy, TaskIndex, stream, Outside
  <2> QED
    BY <2>1, RingTypesKept
<1>2. CASE WriteMirror \/ ReadMirror
  <2>1. usb_tx_rb' \in [mem : [Cell -> Byte], readMirror : 0 .. 1, readIndex : Index,
                        writeMirror : 0 .. 1, writeIndex : Index]
    <3>1. CASE WriteMirror
      BY <3>1, FlipTypes DEF WriteMirror, RingTypes
    <3>2. CASE ReadMirror
      <4>1. 1 - usb_tx_rb.readMirror \in 0 .. 1
        BY DEF RingTypes
      <4>2. \/ usb_tx_rb' = usb_tx_rb
            \/ usb_tx_rb' = [usb_tx_rb EXCEPT !.readMirror = 1 - usb_tx_rb.readMirror]
        BY <3>2 DEF ReadMirror
      <4> QED
        BY <4>1, <4>2 DEF RingTypes
    <3> QED
      BY <1>2, <3>1, <3>2
  <2>2. UNCHANGED <<op, write_buffer, written>> /\ pc' \in {"wait", "send"}
    BY <1>2 DEF WriteMirror, ReadMirror
  <2> QED
    BY <2>1, <2>2 DEF RingTypes
<1>3. CASE WriteLength \/ ReadLength
  <2>1. /\ op' = [op EXCEPT !.rm = usb_tx_rb.readMirror, !.wm = usb_tx_rb.writeMirror]
        /\ UNCHANGED <<usb_tx_rb, write_buffer, written>> /\ pc' \in {"room", "rsize"}
    BY <1>3 DEF WriteLength, ReadLength, stream
  <2>2. usb_tx_rb.readMirror \in Nat /\ usb_tx_rb.writeMirror \in Nat
    BY DEF RingTypes
  <2>3. op' \in [rm : Nat, wm : Nat, n : Nat, left : Nat]
    BY <2>1, <2>2 DEF RingTypes
  <2> QED
    BY <2>1, <2>3 DEF RingTypes
<1>4. CASE WriteRoom
  <2> DEFINE total == HeadLen + task.count
             room == Empty(op.rm, op.wm, usb_tx_rb.readIndex, usb_tx_rb.writeIndex)
  <2>1. /\ op' = [op EXCEPT !.n = Smaller(total, room)] /\ pc' \in {"wait", "store"}
        /\ UNCHANGED <<usb_tx_rb, write_buffer, written, task>>
    BY <1>4 DEF WriteRoom
  <2>2. total \in Nat /\ room \in Nat
    <3>1. room \in Index
      BY RingLengths DEF RingTypes
    <3>2. total \in Nat
      BY StreamSizes DEF SlotInv, SampleTypes
    <3> HIDE DEF room
    <3> QED
      BY <3>1, <3>2, WordTypes
  <2> HIDE DEF room
  <2>3. Smaller(total, room) \in Nat /\ Smaller(total, room) <= total
    BY <2>2, SmallerIs
  <2>4. op' \in [rm : Nat, wm : Nat, n : Nat, left : Nat] /\ op'.n <= HeadLen + task'.count
    BY <2>1, <2>3 DEF RingTypes
  <2> QED
    BY <2>1, <2>4 DEF RingTypes
<1>5. CASE WriteStore
  <2> DEFINE left == Minus(Size, usb_tx_rb.writeIndex)
             N == HeadLen + task.count
             data == SubSeq(Block(N), 1, op.n)
             fill == Fill(usb_tx_rb, data, left)
  <2>1. /\ pc = "store" /\ pc' = "advance" /\ op' = [op EXCEPT !.left = left]
        /\ usb_tx_rb' = [usb_tx_rb EXCEPT !.mem = fill]
        /\ UNCHANGED <<write_buffer, written, task>>
    BY <1>5 DEF WriteStore
  <2>2. left \in Nat
    <3>1. left \in Index
      BY WordTypes DEF RingTypes
    <3> QED
      BY <3>1, WordTypes
  <2>3. N \in Nat /\ op.n \in Nat /\ op.n <= N /\ written \in Nat
    BY <2>1, StreamSizes DEF SlotInv, SampleTypes, RingTypes
  <2>4. data \in Seq(Byte)
    <3>1. CASE op.n = 0
      <4>1. data = SubSeq(Block(N), 1, 0)
        BY <3>1
      <4>2. \A k \in 1 .. 0 : Block(N)[k] \in Byte
        OBVIOUS
      <4>3. SubSeq(Block(N), 1, 0) \in Seq(Byte)
        BY <4>2, SubSeqProperties
      <4> QED
        BY <4>1, <4>3
    <3>2. CASE op.n # 0
      <4>1. op.n \in 1 .. N
        BY <2>3, <3>2
      <4> QED
        BY <2>3, <4>1, BlockIs
    <3> QED
      BY <3>1, <3>2
  <2> HIDE DEF left, data, N
  <2>5. fill \in [Cell -> Byte]
    <3>1. usb_tx_rb.mem \in [Cell -> Byte] /\ usb_tx_rb.writeIndex \in Nat
      BY WordTypes DEF RingTypes
    <3> QED
      BY <2>2, <2>4, <3>1, FillTypes
  <2> HIDE DEF fill
  <2>6. /\ op' \in [rm : Nat, wm : Nat, n : Nat, left : Nat] /\ op'.n <= HeadLen + task'.count
        /\ usb_tx_rb' \in [mem : [Cell -> Byte], readMirror : 0 .. 1, readIndex : Index,
                           writeMirror : 0 .. 1, writeIndex : Index]
    <3>1. op' \in [rm : Nat, wm : Nat, n : Nat, left : Nat] /\ op'.n = op.n
      BY <2>1, <2>2 DEF RingTypes
    <3>2. usb_tx_rb' \in [mem : [Cell -> Byte], readMirror : 0 .. 1, readIndex : Index,
                          writeMirror : 0 .. 1, writeIndex : Index]
      BY <2>1, <2>5 DEF RingTypes
    <3> QED
      BY <2>1, <2>3, <3>1, <3>2 DEF N
  <2> QED
    BY <2>1, <2>6 DEF RingTypes
<1>6. CASE WriteAdvance
  <2>1. /\ pc = "advance" /\ pc' = "mirror" /\ written' = written + op.n
        /\ usb_tx_rb' = Advance(usb_tx_rb, op.n, op.left)
        /\ UNCHANGED <<op, write_buffer>>
    BY <1>6 DEF WriteAdvance
  <2>2. op.n \in Index /\ op.left \in Nat /\ written' \in Nat
    <3>1. op.n \in Nat /\ op.n <= HeadLen + task.count /\ op.left \in Nat /\ written \in Nat
      BY <2>1 DEF RingTypes
    <3>2. HeadLen + task.count < Word
      BY StreamSizes, SizeAssumption DEF SlotInv, SampleTypes
    <3> QED
      BY <2>1, <3>1, <3>2, StreamSizes DEF Index, SlotInv, SampleTypes
  <2>3. usb_tx_rb' \in [mem : [Cell -> Byte], readMirror : 0 .. 1, readIndex : Index,
                        writeMirror : 0 .. 1, writeIndex : Index]
    BY <2>1, <2>2, AdvanceTypes DEF RingTypes
  <2> QED
    BY <2>1, <2>2, <2>3 DEF RingTypes
<1>7. CASE ReadSize
  <2> DEFINE length == Length(op.rm, op.wm, usb_tx_rb.readIndex, usb_tx_rb.writeIndex)
  <2>1. /\ op' = [op EXCEPT !.n = Smaller(TxLen, length)] /\ pc' \in {"task", "rcopy"}
        /\ UNCHANGED <<usb_tx_rb, write_buffer, written>>
    BY <1>7 DEF ReadSize, stream
  <2>2. length \in Nat /\ length < Word
    <3>1. length \in Index
      BY RingLengths DEF RingTypes
    <3> HIDE DEF length
    <3> QED
      BY <3>1, StreamSizes DEF Index
  <2> HIDE DEF length
  <2>3. /\ Smaller(TxLen, length) \in Nat /\ Smaller(TxLen, length) <= TxLen
        /\ Smaller(TxLen, length) < Word
    BY <2>2, SmallerIs, StreamSizes
  <2>4. op' \in [rm : Nat, wm : Nat, n : Nat, left : Nat] /\ op'.n <= TxLen /\ op'.n < Word
    BY <2>1, <2>3 DEF RingTypes
  <2> QED
    BY <2>1, <2>4 DEF RingTypes
<1>8. CASE ReadCopy
  <2> DEFINE left == Minus(Size, usb_tx_rb.readIndex)
             ri == usb_tx_rb.readIndex
             mem == usb_tx_rb.mem
  <2>1. /\ pc = "rcopy" /\ pc' = "rmirror" /\ op' = [op EXCEPT !.left = left]
        /\ write_buffer' = IF left > op.n THEN CopyFrom(mem, ri, op.n)
                           ELSE CopyFrom(mem, ri, left) \o CopyFrom(mem, 0, op.n - left)
        /\ usb_tx_rb' = [usb_tx_rb EXCEPT !.readIndex =
                           IF left > op.n THEN (ri + op.n) % Word ELSE op.n - left]
        /\ UNCHANGED written
    BY <1>8 DEF ReadCopy
  <2>2. /\ mem \in [Cell -> Byte] /\ ri \in Index /\ op.n \in Nat /\ op.n <= TxLen
        /\ op.n < Word
    BY <2>1 DEF RingTypes
  <2>3. ri \in Nat /\ left \in Nat
    <3>1. left \in Index
      BY <2>2, WordTypes
    <3> HIDE DEF left, ri
    <3> QED
      BY <2>2, <3>1, WordTypes
  <2> HIDE DEF left, ri, mem
  <2>4. write_buffer' \in Seq(Byte) /\ Len(write_buffer') = op.n
    <3>1. CASE left > op.n
      BY <2>1, <2>2, <2>3, <3>1, CopyFromTypes
    <3>2. CASE ~(left > op.n)
      <4>1. op.n - left \in Nat /\ left + (op.n - left) = op.n
        BY <2>2, <2>3, <3>2
      <4>2. /\ CopyFrom(mem, ri, left) \in Seq(Byte) /\ Len(CopyFrom(mem, ri, left)) = left
            /\ CopyFrom(mem, 0, op.n - left) \in Seq(Byte)
            /\ Len(CopyFrom(mem, 0, op.n - left)) = op.n - left
        BY <2>2, <2>3, <4>1, CopyFromTypes
      <4>3. write_buffer' = CopyFrom(mem, ri, left) \o CopyFrom(mem, 0, op.n - left)
        BY <2>1, <3>2
      <4>4. PICK s, t \in Seq(Byte) :
              /\ write_buffer' = s \o t /\ Len(s) = left /\ Len(t) = op.n - left
        BY <4>2, <4>3
      <4>5. s \o t \in Seq(Byte) /\ Len(s \o t) = Len(s) + Len(t)
        BY ConcatProperties
      <4> QED
        BY <4>1, <4>4, <4>5
    <3> QED
      BY <3>1, <3>2
  <2>5. PICK a \in Index : usb_tx_rb' = [usb_tx_rb EXCEPT !.readIndex = a]
    <3>1. (ri + op.n) % Word \in Index
      BY <2>2, <2>3, WordTypes
    <3>2. ~(left > op.n) => op.n - left \in Index
      BY <2>2, <2>3, StreamSizes DEF Index
    <3> QED
      BY <2>1, <3>1, <3>2
  <2>6. /\ op' \in [rm : Nat, wm : Nat, n : Nat, left : Nat]
        /\ usb_tx_rb' \in [mem : [Cell -> Byte], readMirror : 0 .. 1, readIndex : Index,
                           writeMirror : 0 .. 1, writeIndex : Index]
    BY <2>1, <2>3, <2>5 DEF RingTypes
  <2> QED
    BY <2>1, <2>2, <2>4, <2>6 DEF RingTypes
<1>9. CASE Send
  <2>1. UNCHANGED <<usb_tx_rb, op, write_buffer, written>> /\ pc' \in Outside
    BY <1>9 DEF Send, stream, Outside
  <2> QED
    BY <2>1, RingTypesKept
<1> QED
  BY <1>1, <1>2, <1>3, <1>4, <1>5, <1>6, <1>7, <1>8, <1>9 DEF MainLoop

LEMMA InterruptRing == ASSUME RingTypes, Interrupt PROVE RingTypes'
<1>1. CASE timer1_isr \/ usbd_cdc_acm_set_dtr \/ HostIn \/ BusReset \/ Configure
  <2>1. UNCHANGED <<pc, task, usb_tx_rb, op, write_buffer, written>>
    BY <1>1 DEF timer1_isr, usbd_cdc_acm_set_dtr, HostIn, BusReset, Configure, stream
  <2> QED
    BY <2>1, RingTypesKept
<1>2. AdcLen < Word /\ HeadLen < Word /\ ReplyLen < Word
  BY SizeAssumption
<1>3. CASE dma0_ch0_isr
  <2>1. RingWrite(AdcLen) /\ UNCHANGED <<pc, task, op, write_buffer>>
    BY <1>3 DEF dma0_ch0_isr
  <2> QED
    BY <1>2, <2>1, RingWriteTypes, StreamSizes
<1>4. ASSUME NEW r \in Request, usbd_cdc_acm_bulk_out(r) PROVE RingTypes'
  <2>1. UNCHANGED <<pc, task, op, write_buffer>>
    BY <1>4 DEF usbd_cdc_acm_bulk_out
  <2>2. RingWrite(IF r = "refuse" THEN HeadLen ELSE ReplyLen)
    BY <1>4 DEF usbd_cdc_acm_bulk_out
  <2>3. CASE r = "refuse"
    BY <1>2, <2>1, <2>2, <2>3, RingWriteTypes, StreamSizes
  <2>4. CASE r # "refuse"
    BY <1>2, <2>1, <2>2, <2>4, RingWriteTypes, StreamSizes
  <2> QED
    BY <2>3, <2>4
<1> QED
  BY <1>1, <1>3, <1>4 DEF Interrupt

LEMMA UsbTypesStep ==
  ASSUME RingTypes, UsbTypes, FlagTypes, Next
  PROVE  UsbTypes' /\ ep_tx_busy_flag' \in BOOLEAN
<1>0. ep_tx_busy_flag \in BOOLEAN
  BY DEF FlagTypes
<1>1. CASE HostIn
  BY <1>1, HostInTypes
<1>2. CASE BusReset
  <2>1. ep' = [enable |-> FALSE, ready |-> FALSE, left |-> <<>>, done |-> 0]
        /\ UNCHANGED <<page, ep_tx_busy_flag>>
    BY <1>2 DEF BusReset
  <2>2. <<>> \in Seq(Byte)
    OBVIOUS
  <2> QED
    BY <1>0, <2>1, <2>2 DEF UsbTypes
<1>3. CASE Configure
  BY <1>0, <1>3 DEF Configure, UsbTypes
<1>4. CASE Send
  <2>1. /\ \/ ep' = ep
           \/ ep' = [ep EXCEPT !.ready = TRUE, !.left = write_buffer, !.done = 0]
        /\ UNCHANGED <<page, ep_tx_busy_flag>>
    BY <1>4 DEF Send, usbd_ep_start_write
  <2>2. write_buffer \in Seq(Byte)
    BY DEF RingTypes
  <2>3. ep' \in [enable : BOOLEAN, ready : BOOLEAN, left : Seq(Byte), done : Nat]
    <3>1. ep \in [enable : BOOLEAN, ready : BOOLEAN, left : Seq(Byte), done : Nat]
      BY DEF UsbTypes
    <3>2. CASE ep' = ep
      BY <3>1, <3>2
    <3>3. CASE ep' = [ep EXCEPT !.ready = TRUE, !.left = write_buffer, !.done = 0]
      BY <2>2, <3>1, <3>3
    <3> QED
      BY <2>1, <3>2, <3>3
  <2>4. page' = page /\ ep_tx_busy_flag' = ep_tx_busy_flag
    BY <2>1
  <2> QED
    BY <1>0, <2>3, <2>4 DEF UsbTypes
<1>5. CASE MainLoop /\ ~Send
  <2>1. UNCHANGED <<ep, page>>
    BY <1>5 DEF MainLoop, TaskRead, TaskPick, TaskCopy, TaskIndex, WriteLength, WriteRoom,
                WriteStore, WriteAdvance, WriteMirror, ReadLength, ReadSize, ReadCopy,
                ReadMirror, usb
  <2>2. ep_tx_busy_flag' \in {ep_tx_busy_flag, TRUE, FALSE}
    BY <1>5 DEF MainLoop, TaskRead, TaskPick, TaskCopy, TaskIndex, WriteLength, WriteRoom,
                WriteStore, WriteAdvance, WriteMirror, ReadLength, ReadSize, ReadCopy,
                ReadMirror, usb
  <2> QED
    BY <1>0, <2>1, <2>2, UsbTypesKept
<1>6. CASE \/ timer1_isr \/ dma0_ch0_isr \/ usbd_cdc_acm_set_dtr
           \/ \E r \in Request : usbd_cdc_acm_bulk_out(r)
  <2>1. UNCHANGED <<ep, page, ep_tx_busy_flag>>
    BY <1>6 DEF timer1_isr, dma0_ch0_isr, usbd_cdc_acm_set_dtr, usbd_cdc_acm_bulk_out, usb
  <2> QED
    BY <1>0, <2>1, UsbTypesKept
<1> QED
  BY <1>1, <1>2, <1>3, <1>4, <1>5, <1>6 DEF Next, Interrupt

\* The commands set up the gate of the timer and the ADC.
LEMMA SetUpFlags ==
  ASSUME FlagTypes, NEW r, InitI2CDevice(r)
  PROVE  timer_flg' \in BOOLEAN /\ restarted' \in BOOLEAN
<1>1. restarted \in BOOLEAN /\ InTask \in BOOLEAN
  BY DEF FlagTypes, InTask
<1>2. timer_flg' = TRUE \/ timer_flg' = FALSE
  BY DEF InitI2CDevice
<1>3. restarted' = InTask \/ restarted' = restarted
  BY DEF InitI2CDevice, FlushI2CBuf
<1> QED
  BY <1>1, <1>2, <1>3

LEMMA CommandFlags ==
  ASSUME FlagTypes, NEW r \in Request, cmd_decode(r)
  PROVE  timer_flg' \in BOOLEAN /\ restarted' \in BOOLEAN /\ adc' \in BOOLEAN
<1>1. timer_flg \in BOOLEAN /\ restarted \in BOOLEAN /\ adc \in BOOLEAN
  BY DEF FlagTypes
<1>2. CASE r \in {"start", "fail", "refuse", "stop"}
  <2>1. InitI2CDevice(r) /\ adc' = adc
    BY <1>2 DEF cmd_decode
  <2> QED
    BY <1>1, <2>1, SetUpFlags
<1>3. CASE r \notin {"start", "fail", "refuse", "stop"}
  <2>1. UNCHANGED <<timer_flg, restarted>> /\ adc' \in {TRUE, FALSE, adc}
    BY <1>3 DEF cmd_decode, sampling
  <2> QED
    BY <1>1, <2>1
<1> QED
  BY <1>2, <1>3

LEMMA FlagTypesStep ==
  ASSUME FlagTypes, Next, ep_tx_busy_flag' \in BOOLEAN
  PROVE  FlagTypes'
<1>1. /\ pc \in Place /\ timer_flg \in BOOLEAN /\ adc \in BOOLEAN /\ dtr_enable \in BOOLEAN
      /\ overlap \in BOOLEAN /\ cut \in BOOLEAN /\ restarted \in BOOLEAN /\ stale \in BOOLEAN
  BY DEF FlagTypes
<1>2. pc' \in Place
  <2>1. CASE MainLoop
    BY <2>1 DEF MainLoop, TaskRead, TaskPick, TaskCopy, TaskIndex, WriteLength, WriteRoom,
                WriteStore, WriteAdvance, WriteMirror, ReadLength, ReadSize, ReadCopy,
                ReadMirror, Send, Place
  <2>2. CASE Interrupt
    BY <1>1, <2>2 DEF Interrupt, timer1_isr, dma0_ch0_isr, usbd_cdc_acm_bulk_out,
                      usbd_cdc_acm_set_dtr, HostIn, BusReset, Configure
  <2> QED
    BY <2>1, <2>2 DEF Next
<1>3. timer_flg' \in BOOLEAN /\ restarted' \in BOOLEAN /\ adc' \in BOOLEAN
  <2>1. CASE MainLoop \/ timer1_isr \/ dma0_ch0_isr \/ HostIn \/ BusReset \/ Configure
    <3>1. UNCHANGED <<timer_flg, restarted, adc>>
      BY <2>1 DEF MainLoop, TaskRead, TaskPick, TaskCopy, TaskIndex, WriteLength, WriteRoom,
                  WriteStore, WriteAdvance, WriteMirror, ReadLength, ReadSize, ReadCopy,
                  ReadMirror, Send, timer1_isr, dma0_ch0_isr, HostIn, BusReset, Configure,
                  sampling
    <3> QED
      BY <1>1, <3>1
  <2>2. ASSUME NEW r \in Request, usbd_cdc_acm_bulk_out(r)
        PROVE  timer_flg' \in BOOLEAN /\ restarted' \in BOOLEAN /\ adc' \in BOOLEAN
    BY <2>2, CommandFlags DEF usbd_cdc_acm_bulk_out
  <2>3. CASE usbd_cdc_acm_set_dtr
    <3>1. (\E r \in {"stop", "refuse"} : InitI2CDevice(r)) /\ adc' \in {FALSE, adc}
      BY <2>3 DEF usbd_cdc_acm_set_dtr
    <3> QED
      BY <1>1, <3>1, SetUpFlags
  <2> QED
    BY <2>1, <2>2, <2>3 DEF Next, Interrupt
<1>4. dtr_enable' \in BOOLEAN
  <2>1. dtr_enable' = dtr_enable \/ dtr_enable' = ~dtr_enable
    BY DEF Next, MainLoop, TaskRead, TaskPick, TaskCopy, TaskIndex, WriteLength, WriteRoom,
           WriteStore, WriteAdvance, WriteMirror, ReadLength, ReadSize, ReadCopy,
           ReadMirror, Send, Interrupt, timer1_isr, dma0_ch0_isr, usbd_cdc_acm_bulk_out,
           usbd_cdc_acm_set_dtr, HostIn, BusReset, Configure
  <2> QED
    BY <1>1, <2>1
<1>5. overlap' \in BOOLEAN
  <2>1. overlap' = overlap \/ overlap' = (overlap \/ InRing)
    BY DEF Next, MainLoop, TaskRead, TaskPick, TaskCopy, TaskIndex, WriteLength, WriteRoom,
           WriteStore, WriteAdvance, WriteMirror, ReadLength, ReadSize, ReadCopy,
           ReadMirror, Send, Interrupt, timer1_isr, dma0_ch0_isr, usbd_cdc_acm_bulk_out,
           usbd_cdc_acm_set_dtr, HostIn, BusReset, Configure, RingWrite, stream
  <2> QED
    BY <1>1, <2>1
<1>6. cut' \in BOOLEAN
  <2>1. CASE WriteRoom
    BY <2>1 DEF WriteRoom
  <2>2. ASSUME NEW N, RingWrite(N) PROVE cut' \in BOOLEAN
    BY <2>2 DEF RingWrite
  <2>3. CASE dma0_ch0_isr \/ \E r \in Request : usbd_cdc_acm_bulk_out(r)
    <3>1. \E N : RingWrite(N)
      BY <2>3 DEF dma0_ch0_isr, usbd_cdc_acm_bulk_out
    <3> QED
      BY <2>2, <3>1
  <2>4. CASE \/ MainLoop /\ ~WriteRoom
             \/ timer1_isr \/ usbd_cdc_acm_set_dtr \/ HostIn \/ BusReset \/ Configure
    <3>1. UNCHANGED cut
      BY <2>4 DEF MainLoop, TaskRead, TaskPick, TaskCopy, TaskIndex, WriteLength,
                  WriteStore, WriteAdvance, WriteMirror, ReadLength, ReadSize, ReadCopy,
                  ReadMirror, Send, timer1_isr, usbd_cdc_acm_set_dtr, HostIn, BusReset,
                  Configure, stream
    <3> QED
      BY <1>1, <3>1
  <2> QED
    BY <2>1, <2>3, <2>4 DEF Next, Interrupt
<1>7. stale' \in BOOLEAN
  <2>1. CASE TaskCopy
    BY <2>1 DEF TaskCopy
  <2>2. CASE Interrupt \/ (MainLoop /\ ~TaskCopy)
    <3>1. UNCHANGED stale
      BY <2>2 DEF MainLoop, TaskRead, TaskPick, TaskIndex, WriteLength, WriteRoom,
                  WriteStore, WriteAdvance, WriteMirror, ReadLength, ReadSize, ReadCopy,
                  ReadMirror, Send, Interrupt, timer1_isr, dma0_ch0_isr,
                  usbd_cdc_acm_bulk_out, usbd_cdc_acm_set_dtr, HostIn, BusReset, Configure
    <3> QED
      BY <1>1, <3>1
  <2> QED
    BY <2>1, <2>2 DEF Next
<1>8. used' \in [samples : 0 .. MaxSamples, adc : 0 .. MaxAdc,
                commands : 0 .. MaxCommands, resets : 0 .. MaxResets]
  <2>1. used \in [samples : 0 .. MaxSamples, adc : 0 .. MaxAdc,
                  commands : 0 .. MaxCommands, resets : 0 .. MaxResets]
    BY DEF FlagTypes
  <2>2. \/ used' = used
        \/ used.samples < MaxSamples /\ used' = [used EXCEPT !.samples = @ + 1]
        \/ used.adc < MaxAdc /\ used' = [used EXCEPT !.adc = @ + 1]
        \/ used.commands < MaxCommands /\ used' = [used EXCEPT !.commands = @ + 1]
        \/ used.resets < MaxResets /\ used' = [used EXCEPT !.resets = @ + 1]
    BY DEF Next, MainLoop, TaskRead, TaskPick, TaskCopy, TaskIndex, WriteLength, WriteRoom,
           WriteStore, WriteAdvance, WriteMirror, ReadLength, ReadSize, ReadCopy,
           ReadMirror, Send, Interrupt, timer1_isr, dma0_ch0_isr, usbd_cdc_acm_bulk_out,
           usbd_cdc_acm_set_dtr, HostIn, BusReset, Configure
  <2>3. MaxSamples \in Nat /\ MaxAdc \in Nat /\ MaxCommands \in Nat /\ MaxResets \in Nat
    BY BoundAssumption
  <2>4. CASE used' = used
    BY <2>1, <2>4
  <2>5. CASE used.samples < MaxSamples /\ used' = [used EXCEPT !.samples = @ + 1]
    BY <2>1, <2>3, <2>5
  <2>6. CASE used.adc < MaxAdc /\ used' = [used EXCEPT !.adc = @ + 1]
    BY <2>1, <2>3, <2>6
  <2>7. CASE used.commands < MaxCommands /\ used' = [used EXCEPT !.commands = @ + 1]
    BY <2>1, <2>3, <2>7
  <2>8. CASE used.resets < MaxResets /\ used' = [used EXCEPT !.resets = @ + 1]
    BY <2>1, <2>3, <2>8
  <2> QED
    BY <2>2, <2>4, <2>5, <2>6, <2>7, <2>8
<1> QED
  BY <1>2, <1>3, <1>4, <1>5, <1>6, <1>7, <1>8 DEF FlagTypes

\* For every value of the constants, and whatever an interrupt writes in the middle
\* of Ring_Buffer_Write or _Read: indices and mirrors stay what they are, the ring
\* holds bytes, and no transfer exceeds write_buffer.
THEOREM TypeCorrect == Spec => []TypeOK
<1>1. TypeInv /\ [Next]_vars => TypeInv'
  <2> SUFFICES ASSUME TypeInv, [Next]_vars PROVE TypeInv'
    OBVIOUS
  <2>1. SlotInv'
    BY StaleStep DEF TypeInv
  <2>2. CASE Next
    <3>1. RingTypes'
      BY <2>2, MainLoopRing, InterruptRing DEF TypeInv, Next
    <3>2. UsbTypes' /\ ep_tx_busy_flag' \in BOOLEAN
      BY <2>2, UsbTypesStep DEF TypeInv
    <3>3. FlagTypes'
      BY <2>2, <3>2, FlagTypesStep DEF TypeInv
    <3> QED
      BY <2>1, <3>1, <3>2, <3>3 DEF TypeInv
  <2>3. CASE UNCHANGED vars
    <3>1. RingTypes' /\ UsbTypes'
      BY <2>3, RingTypesKept, UsbTypesKept DEF TypeInv, vars, stream, usb
    <3>2. FlagTypes'
      BY <2>3 DEF TypeInv, FlagTypes, vars, sampling, stream, usb
    <3> QED
      BY <2>1, <3>1, <3>2 DEF TypeInv
  <2> QED
    BY <2>2, <2>3
<1> QED
  BY <1>1, TypeInvInit, TypeInvIs, PTL DEF Spec

=============================================================================
