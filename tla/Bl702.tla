------------------------------- MODULE Bl702 -------------------------------
(***************************************************************************)
(* The BL702 firmware (BL702/PowerProfiler/src) from its samples to the    *)
(* host, as it is built: USE_LOCK_RNG is 0, so nothing locks the ring      *)
(* buffer.                                                                 *)
(*                                                                         *)
(*   timer1_isr --i2c_buf--> task_I2C --+                                  *)
(*   dma0_ch0_isr ----------------------+-> usb_tx_rb -> write_buffer ->   *)
(*   usbd_cdc_acm_bulk_out (replies) ---+      usbd_ep_start_write -> host *)
(*                                                                         *)
(* The main loop runs task_I2C and usb_dc_send_from_ringbuffer in turn.    *)
(* Interrupts do not nest; each is one step, at any moment of the main     *)
(* loop, and commands are carried out, and answered, inside the USB        *)
(* interrupt.  The main loop is split (pc) where an interrupt can change   *)
(* what it has read: the indices of i2c_buf, the fields of the ring        *)
(* buffer, in the order the source touches them.                           *)
(***************************************************************************)
EXTENDS Naturals, Sequences

CONSTANTS
  Size,         \* USB_TX_RINGBUFFER_SIZE
  Word,         \* values of an uint32_t; any number well above Size will do
  TxLen,        \* USBD_TXBUFSIZE - 1, the most that one transfer takes
  Packet,       \* CDC_MAX_MPS
  Slots,        \* I2C_BUF_SIZE
  PktCnt,       \* cfg_i2c.pktcnt of a measurement
  HeadLen,      \* length of a block without data, an error reply
  ReplyLen,     \* length of any other reply
  AdcLen,       \* sizeof(adc_blk)
  MaxSamples,   \* bound: interrupts of the timer that store a sample
  MaxAdc,       \* bound: interrupts of the DMA channel
  MaxCommands,  \* bound: commands and line states
  MaxResets     \* bound: resets of the bus

ASSUME SizeAssumption ==
  /\ {Size, TxLen, Packet, Slots, PktCnt, HeadLen, ReplyLen, AdcLen} \subseteq Nat \ {0}
  /\ HeadLen + PktCnt < Size /\ ReplyLen < Size /\ AdcLen < Size
  /\ Word \in Nat /\ 4 * Size < Word
  /\ PktCnt < Slots
ASSUME BoundAssumption ==
  {MaxSamples, MaxAdc, MaxCommands, MaxResets} \subseteq Nat

\* A byte of the stream: its number, and its place in a block of length of.
Byte == [n : Nat, at : Nat, of : Nat]
Garbage == [n |-> 0, at |-> 0, of |-> 0]

Request == {"start", "fail", "refuse", "stop", "ask", "adc_on", "adc_off"}

VARIABLES
  pc,           \* where the main loop is
  i2c_buf,      \* of each slot, the measurement its sample was taken in
  i2c_buf_wr, i2c_buf_rd,
  pktcnt,       \* cfg_i2c.pktcnt
  timer_flg,
  task,         \* locals of task_I2C: the read index, i2c_blk
  adc,          \* the ADC is converting
  usb_tx_rb,
  op,           \* locals of Ring_Buffer_Write and _Read in the main loop
  write_buffer,
  ep_tx_busy_flag,
  dtr_enable,
  ep,           \* CDC_IN_EP in the driver
  page,         \* the host, taking blocks off the stream
  \* History:
  meas,         \* measurements started
  written,      \* bytes whose writing Ring_Buffer_Write reported
  overlap,      \* an interrupt wrote to the ring in the middle of an operation
  cut,          \* a write found room for a part of its data only
  restarted,    \* the last flush of i2c_buf came in the middle of task_I2C
  stale,        \* a block got a sample of an earlier measurement
  used          \* samples, ADC blocks, commands and resets so far

sampling == <<i2c_buf, i2c_buf_wr, i2c_buf_rd, pktcnt, timer_flg, meas, restarted>>
stream == <<usb_tx_rb, written, overlap, cut>>
usb == <<ep_tx_busy_flag, ep, page>>
vars == <<pc, sampling, task, adc, stream, op, write_buffer, usb, dtr_enable, stale, used>>

Place == {"task", "pick", "copy", "index", "length", "room", "store",
          "advance", "mirror", "wait", "rsize", "rcopy", "rmirror", "send"}

TypeOK ==
  /\ pc \in Place
  /\ i2c_buf \in [0 .. Slots - 1 -> Nat]
  /\ i2c_buf_wr \in 0 .. Slots - 1 /\ i2c_buf_rd \in 0 .. Slots - 1
  /\ pktcnt \in {0, PktCnt} /\ timer_flg \in BOOLEAN
  /\ task \in [prd : 0 .. Slots - 1, wrapped : BOOLEAN, count : {0, PktCnt}]
  /\ adc \in BOOLEAN /\ dtr_enable \in BOOLEAN
  /\ usb_tx_rb.mem \in [0 .. Size - 1 -> Byte]
  /\ {usb_tx_rb.readMirror, usb_tx_rb.writeMirror} \subseteq 0 .. 1
  /\ {usb_tx_rb.readIndex, usb_tx_rb.writeIndex} \subseteq 0 .. Word - 1
  /\ write_buffer \in Seq(Byte) /\ Len(write_buffer) <= TxLen
  /\ ep_tx_busy_flag \in BOOLEAN
  /\ ep.left \in Seq(Byte) /\ ep.enable \in BOOLEAN /\ ep.ready \in BOOLEAN
  /\ page \in [last : Byte, open : BOOLEAN, lost : BOOLEAN, broken : BOOLEAN]
  /\ {overlap, cut, restarted, stale} \subseteq BOOLEAN
  /\ used \in [samples : 0 .. MaxSamples, adc : 0 .. MaxAdc,
               commands : 0 .. MaxCommands, resets : 0 .. MaxResets]

NoOp == [rm |-> 0, wm |-> 0, n |-> 0, left |-> 0]

Init ==
  /\ pc = "task"
  /\ i2c_buf = [i \in 0 .. Slots - 1 |-> 0]
  /\ i2c_buf_wr = 0 /\ i2c_buf_rd = 0
  /\ pktcnt = 0 /\ timer_flg = FALSE
  /\ task = [prd |-> 0, wrapped |-> FALSE, count |-> 0]
  /\ adc = FALSE /\ dtr_enable = FALSE
  /\ usb_tx_rb = [mem |-> [i \in 0 .. Size - 1 |-> Garbage],
                  readMirror |-> 0, readIndex |-> 0, writeMirror |-> 0, writeIndex |-> 0]
  /\ op = NoOp
  /\ write_buffer = <<>>
  /\ ep_tx_busy_flag = FALSE
  /\ ep = [enable |-> TRUE, ready |-> FALSE, left |-> <<>>, done |-> 0]
  /\ page = [last |-> Garbage, open |-> FALSE, lost |-> FALSE, broken |-> FALSE]
  /\ meas = 0 /\ written = 0
  /\ overlap = FALSE /\ cut = FALSE /\ restarted = FALSE /\ stale = FALSE
  /\ used = [samples |-> 0, adc |-> 0, commands |-> 0, resets |-> 0]

-----------------------------------------------------------------------------
(***************************************************************************)
(* ring_buffer.c.  The mirror bits flip each time an index comes round:    *)
(* equal indices mean empty with equal mirrors, full with different ones.  *)
(***************************************************************************)
Minus(a, b) == (a + Word - b) % Word
Smaller(a, b) == IF a < b THEN a ELSE b

\* Ring_Buffer_Get_Length, of mirrors and indices read at different times.
Length(rm, wm, ri, wi) == IF rm = wm THEN Minus(wi, ri) ELSE Minus(Size, Minus(ri, wi))

\* Mutant of Empty: one byte of room too many.
EmptyPlusOne(rm, wm, ri, wi) == Minus(Size + 1, Length(rm, wm, ri, wi))

Empty(rm, wm, ri, wi) == Minus(Size, Length(rm, wm, ri, wi))

\* memcpy to the ring and from it; what is written outside of it is lost.
CopyTo(mem, i, s) ==
  [j \in 0 .. Size - 1 |-> IF i <= j /\ j < i + Len(s) THEN s[j - i + 1] ELSE mem[j]]
CopyFrom(mem, i, n) ==
  [k \in 1 .. n |-> IF i + k - 1 < Size THEN mem[i + k - 1] ELSE Garbage]

\* left is what the mirror still holds from the write or read index on.
Fill(r, data, left) ==
  IF left > Len(data) THEN CopyTo(r.mem, r.writeIndex, data)
  ELSE CopyTo(CopyTo(r.mem, r.writeIndex, SubSeq(data, 1, left)), 0,
              SubSeq(data, left + 1, Len(data)))

Advance(r, n, left) ==
  [r EXCEPT !.writeIndex = IF left > n THEN (@ + n) % Word ELSE n - left]

\* Mutant of FlipWrite: a write that ends with the ring does not flip the mirror.
FlipWritePast(r, n, left) ==
  IF left >= n THEN r ELSE [r EXCEPT !.writeMirror = 1 - @]

FlipWrite(r, n, left) ==
  IF left > n THEN r ELSE [r EXCEPT !.writeMirror = 1 - @]

\* A block of length n as it is written next.
Block(n) == [k \in 1 .. n |-> [n |-> written + k, at |-> k, of |-> n]]

Room == Empty(usb_tx_rb.readMirror, usb_tx_rb.writeMirror,
              usb_tx_rb.readIndex, usb_tx_rb.writeIndex)

\* The main loop is in the middle of an operation on the ring.
InRing == pc \in {"room", "store", "advance", "mirror", "rsize", "rmirror"}

(***************************************************************************)
(* Ring_Buffer_Write from an interrupt, which nothing cuts in on.  What    *)
(* does not fit is dropped; the caller of a reply does not look.           *)
(***************************************************************************)
RingWrite(n) ==
  LET len  == Smaller(n, Room)
      data == SubSeq(Block(n), 1, len)
      left == Minus(Size, usb_tx_rb.writeIndex)
  IN /\ usb_tx_rb' = IF len = 0 THEN usb_tx_rb
                     ELSE FlipWrite(Advance([usb_tx_rb EXCEPT !.mem = Fill(usb_tx_rb, data, left)],
                                            len, left), len, left)
     /\ written' = written + len
     /\ cut' = (cut \/ len < n)
     /\ overlap' = (overlap \/ InRing)

-----------------------------------------------------------------------------
(***************************************************************************)
(* Interrupts of the timer and of the DMA channel.                         *)
(***************************************************************************)
timer1_isr ==
  /\ timer_flg /\ used.samples < MaxSamples
  /\ i2c_buf' = [i2c_buf EXCEPT ![i2c_buf_wr] = meas]
  /\ i2c_buf_wr' = (i2c_buf_wr + 1) % Slots
  /\ used' = [used EXCEPT !.samples = @ + 1]
  /\ UNCHANGED <<pc, i2c_buf_rd, pktcnt, timer_flg, meas, restarted, task, adc,
                 stream, op, write_buffer, usb, dtr_enable, stale>>

dma0_ch0_isr ==
  /\ adc /\ used.adc < MaxAdc
  /\ RingWrite(AdcLen)
  /\ used' = [used EXCEPT !.adc = @ + 1]
  /\ UNCHANGED <<pc, sampling, task, adc, op, write_buffer, usb, dtr_enable, stale>>

(***************************************************************************)
(* Commands, carried out in usbd_cdc_acm_bulk_out, that is in the USB      *)
(* interrupt.  Only InitI2CDevice and FlushI2CBuf touch the indices of     *)
(* i2c_buf, and they do not know where task_I2C is.                        *)
(***************************************************************************)
InTask == pc \in {"pick", "copy", "index"}

\* Mutant of FlushI2CBuf: the read index is kept.
FlushKeepsRd ==
  /\ i2c_buf_wr' = 0
  /\ restarted' = InTask
  /\ UNCHANGED <<i2c_buf, i2c_buf_rd>>

FlushI2CBuf ==
  /\ i2c_buf_wr' = 0 /\ i2c_buf_rd' = 0
  /\ restarted' = InTask
  /\ UNCHANGED i2c_buf

\* InitI2CDevice: the period is refused before the flush; a set-up register
\* that cannot be written ends the measurement, but the reply is the usual one.
InitI2CDevice(r) ==
  CASE r = "start"  -> /\ FlushI2CBuf
                       /\ pktcnt' = PktCnt /\ timer_flg' = TRUE /\ meas' = meas + 1
    [] r = "refuse" -> /\ pktcnt' = 0 /\ timer_flg' = FALSE
                       /\ UNCHANGED <<i2c_buf, i2c_buf_wr, i2c_buf_rd, meas, restarted>>
    [] OTHER        -> /\ FlushI2CBuf
                       /\ pktcnt' = 0 /\ timer_flg' = FALSE
                       /\ UNCHANGED meas

cmd_decode(r) ==
  CASE r \in {"start", "fail", "refuse", "stop"} -> InitI2CDevice(r) /\ UNCHANGED adc
    [] r = "adc_on"  -> adc' = TRUE /\ UNCHANGED sampling
    [] r = "adc_off" -> adc' = FALSE /\ UNCHANGED sampling
    [] OTHER         -> UNCHANGED <<sampling, adc>>

usbd_cdc_acm_bulk_out(r) ==
  /\ ep.enable /\ used.commands < MaxCommands
  /\ cmd_decode(r)
  /\ RingWrite(IF r = "refuse" THEN HeadLen ELSE ReplyLen)
  /\ used' = [used EXCEPT !.commands = @ + 1]
  /\ UNCHANGED <<pc, task, op, write_buffer, usb, dtr_enable, stale>>

\* The port is opened (I2CDevWakeUp, which sets up without a measurement) or
\* closed (ADC_Stop, I2CDevSleep, which flushes nothing).
usbd_cdc_acm_set_dtr ==
  /\ ep.enable /\ used.commands < MaxCommands
  /\ dtr_enable' = ~dtr_enable
  /\ IF dtr_enable THEN InitI2CDevice("refuse") /\ adc' = FALSE
     ELSE (\E r \in {"stop", "refuse"} : InitI2CDevice(r)) /\ UNCHANGED adc
  /\ used' = [used EXCEPT !.commands = @ + 1]
  /\ UNCHANGED <<pc, task, stream, op, write_buffer, usb, stale>>

(***************************************************************************)
(* The host takes a packet.  The driver sends a transfer packet by packet  *)
(* and calls usbd_cdc_acm_bulk_in when all of it is gone; a transfer that  *)
(* ends on a full packet gets an empty one behind it.                      *)
(***************************************************************************)
usbd_ep_start_write(e, data) ==
  IF e.enable THEN [e EXCEPT !.ready = TRUE, !.left = data, !.done = 0] ELSE e

EndsFull(n) == n % Packet = 0 /\ n # 0

usbd_cdc_acm_bulk_in(e) ==
  IF EndsFull(e.done)
  THEN ep' = usbd_ep_start_write(e, <<>>) /\ UNCHANGED ep_tx_busy_flag
  ELSE ep' = [e EXCEPT !.ready = FALSE] /\ ep_tx_busy_flag' = FALSE

\* The host, which reads the length of a block and then its bytes (CmdDecode of
\* the web page; what it makes of a block's contents is left out).
Follows(a, b) == IF a.at = a.of THEN b.at = 1 ELSE b.of = a.of /\ b.at = a.at + 1

Received(p, s) ==
  LET all == <<p.last>> \o s
  IN [last   |-> all[Len(all)],
      open   |-> Len(s) = Packet,
      lost   |-> p.lost \/ \E k \in 1 .. Len(s) : all[k + 1].n # all[k].n + 1,
      broken |-> p.broken \/ \E k \in 1 .. Len(s) : ~Follows(all[k], all[k + 1])]

HostIn ==
  LET n == Smaller(Packet, Len(ep.left))
      e == [ep EXCEPT !.left = SubSeq(@, n + 1, Len(@)), !.done = @ + n]
  IN /\ ep.enable /\ ep.ready
     /\ page' = Received(page, SubSeq(ep.left, 1, n))
     /\ IF e.left = <<>> THEN usbd_cdc_acm_bulk_in(e)
        ELSE ep' = e /\ UNCHANGED ep_tx_busy_flag
     /\ UNCHANGED <<pc, sampling, task, adc, stream, op, write_buffer, dtr_enable, stale, used>>

\* A reset of the bus forgets the transfer and calls nobody back: the flag
\* stays as it is.
BusReset ==
  /\ ep.enable /\ used.resets < MaxResets
  /\ ep' = [enable |-> FALSE, ready |-> FALSE, left |-> <<>>, done |-> 0]
  /\ used' = [used EXCEPT !.resets = @ + 1]
  /\ UNCHANGED <<pc, sampling, task, adc, stream, op, write_buffer,
                 ep_tx_busy_flag, page, dtr_enable, stale>>

Configure ==
  /\ ~ep.enable
  /\ ep' = [ep EXCEPT !.enable = TRUE]
  /\ UNCHANGED <<pc, sampling, task, adc, stream, op, write_buffer,
                 ep_tx_busy_flag, page, dtr_enable, stale, used>>

Interrupt ==
  \/ timer1_isr \/ dma0_ch0_isr
  \/ \E r \in Request : usbd_cdc_acm_bulk_out(r)
  \/ usbd_cdc_acm_set_dtr
  \/ HostIn \/ BusReset \/ Configure

-----------------------------------------------------------------------------
(***************************************************************************)
(* task_I2C.                                                               *)
(***************************************************************************)
TaskRead ==
  /\ pc = "task"
  /\ task' = [task EXCEPT !.prd = i2c_buf_rd]
  /\ pc' = "pick"
  /\ UNCHANGED <<sampling, adc, stream, op, write_buffer, usb, dtr_enable, stale, used>>

BlockPending(prd, pwr) == pktcnt # 0 /\ pwr # prd /\ (pwr + Slots - prd) % Slots >= pktcnt

TaskPick ==
  /\ pc = "pick"
  /\ task' = [task EXCEPT !.wrapped = i2c_buf_wr < task.prd]
  /\ pc' = IF BlockPending(task.prd, i2c_buf_wr) THEN "copy" ELSE "wait"
  /\ UNCHANGED <<sampling, adc, stream, op, write_buffer, usb, dtr_enable, stale, used>>

\* cfg_i2c.pktcnt is read again for the length of the block.
TaskCopy ==
  /\ pc = "copy"
  /\ task' = [task EXCEPT !.count = pktcnt]
  /\ stale' = (stale \/ \E k \in 0 .. pktcnt - 1 : i2c_buf[(task.prd + k) % Slots] # meas)
  /\ pc' = "index"
  /\ UNCHANGED <<sampling, adc, stream, op, write_buffer, usb, dtr_enable, used>>

\* With the writer ahead of the end, what is left to copy from slot 0 on.
NewRd(t) ==
  IF t.wrapped THEN (IF t.prd + t.count <= Slots THEN 0 ELSE t.prd + t.count - Slots)
  ELSE (t.prd + t.count) % Slots

TaskIndex ==
  /\ pc = "index"
  /\ i2c_buf_rd' = NewRd(task)
  /\ pc' = "length"
  /\ UNCHANGED <<i2c_buf, i2c_buf_wr, pktcnt, timer_flg, meas, restarted, task, adc,
                 stream, op, write_buffer, usb, dtr_enable, stale, used>>

(***************************************************************************)
(* Ring_Buffer_Write of the block, step by step.                           *)
(***************************************************************************)
WriteLength ==
  /\ pc = "length"
  /\ op' = [op EXCEPT !.rm = usb_tx_rb.readMirror, !.wm = usb_tx_rb.writeMirror]
  /\ pc' = "room"
  /\ UNCHANGED <<sampling, task, adc, stream, write_buffer, usb, dtr_enable, stale, used>>

WriteRoom ==
  /\ pc = "room"
  /\ op' = [op EXCEPT !.n = Smaller(HeadLen + task.count,
                               Empty(op.rm, op.wm, usb_tx_rb.readIndex, usb_tx_rb.writeIndex))]
  /\ pc' = IF op'.n = 0 THEN "wait" ELSE "store"
  /\ cut' = (cut \/ op'.n < HeadLen + task.count)
  /\ UNCHANGED <<sampling, task, adc, usb_tx_rb, written, overlap, write_buffer, usb,
                 dtr_enable, stale, used>>

WriteStore ==
  /\ pc = "store"
  /\ LET left == Minus(Size, usb_tx_rb.writeIndex)
     IN /\ op' = [op EXCEPT !.left = left]
        /\ usb_tx_rb' = [usb_tx_rb EXCEPT
             !.mem = Fill(usb_tx_rb, SubSeq(Block(HeadLen + task.count), 1, op.n), left)]
  /\ pc' = "advance"
  /\ UNCHANGED <<sampling, task, adc, written, overlap, cut, write_buffer, usb,
                 dtr_enable, stale, used>>

WriteAdvance ==
  /\ pc = "advance"
  /\ usb_tx_rb' = Advance(usb_tx_rb, op.n, op.left)
  /\ written' = written + op.n
  /\ pc' = "mirror"
  /\ UNCHANGED <<sampling, task, adc, overlap, cut, op, write_buffer, usb,
                 dtr_enable, stale, used>>

WriteMirror ==
  /\ pc = "mirror"
  /\ usb_tx_rb' = FlipWrite(usb_tx_rb, op.n, op.left)
  /\ pc' = "wait"
  /\ UNCHANGED <<sampling, task, adc, written, overlap, cut, op, write_buffer, usb,
                 dtr_enable, stale, used>>

(***************************************************************************)
(* usb_dc_send_from_ringbuffer, with Ring_Buffer_Read step by step.        *)
(***************************************************************************)
ReadLength ==
  /\ pc = "wait" /\ ~ep_tx_busy_flag
  /\ ep_tx_busy_flag' = TRUE
  /\ op' = [op EXCEPT !.rm = usb_tx_rb.readMirror, !.wm = usb_tx_rb.writeMirror]
  /\ pc' = "rsize"
  /\ UNCHANGED <<sampling, task, adc, stream, write_buffer, ep, page, dtr_enable, stale, used>>

\* Mutant of ReadSize: the flag is not given back with nothing to send.
ReadSizeKeepsFlag ==
  /\ pc = "rsize"
  /\ op' = [op EXCEPT !.n = Smaller(TxLen,
              Length(op.rm, op.wm, usb_tx_rb.readIndex, usb_tx_rb.writeIndex))]
  /\ pc' = IF op'.n = 0 THEN "task" ELSE "rcopy"
  /\ UNCHANGED <<sampling, task, adc, stream, write_buffer, usb, dtr_enable, stale, used>>

ReadSize ==
  /\ pc = "rsize"
  /\ op' = [op EXCEPT !.n = Smaller(TxLen,
              Length(op.rm, op.wm, usb_tx_rb.readIndex, usb_tx_rb.writeIndex))]
  /\ IF op'.n = 0 THEN pc' = "task" /\ ep_tx_busy_flag' = FALSE
     ELSE pc' = "rcopy" /\ UNCHANGED ep_tx_busy_flag
  /\ UNCHANGED <<sampling, task, adc, stream, write_buffer, ep, page, dtr_enable, stale, used>>

ReadCopy ==
  LET left == Minus(Size, usb_tx_rb.readIndex)
  IN /\ pc = "rcopy"
     /\ op' = [op EXCEPT !.left = left]
     /\ write_buffer' = IF left > op.n THEN CopyFrom(usb_tx_rb.mem, usb_tx_rb.readIndex, op.n)
                        ELSE CopyFrom(usb_tx_rb.mem, usb_tx_rb.readIndex, left)
                               \o CopyFrom(usb_tx_rb.mem, 0, op.n - left)
     /\ usb_tx_rb' = [usb_tx_rb EXCEPT
          !.readIndex = IF left > op.n THEN (@ + op.n) % Word ELSE op.n - left]
     /\ pc' = "rmirror"
     /\ UNCHANGED <<sampling, task, adc, written, overlap, cut, usb, dtr_enable, stale, used>>

ReadMirror ==
  /\ pc = "rmirror"
  /\ usb_tx_rb' = IF op.left > op.n THEN usb_tx_rb
                  ELSE [usb_tx_rb EXCEPT !.readMirror = 1 - @]
  /\ pc' = "send"
  /\ UNCHANGED <<sampling, task, adc, written, overlap, cut, op, write_buffer, usb,
                 dtr_enable, stale, used>>

Send ==
  /\ pc = "send"
  /\ ep' = usbd_ep_start_write(ep, write_buffer)
  /\ pc' = "task"
  /\ UNCHANGED <<sampling, task, adc, stream, op, write_buffer, ep_tx_busy_flag, page,
                 dtr_enable, stale, used>>

MainLoop ==
  \/ TaskRead \/ TaskPick \/ TaskCopy \/ TaskIndex
  \/ WriteLength \/ WriteRoom \/ WriteStore \/ WriteAdvance \/ WriteMirror
  \/ ReadLength \/ ReadSize \/ ReadCopy \/ ReadMirror \/ Send

Next == MainLoop \/ Interrupt

Spec == Init /\ [][Next]_vars

\* The loop runs on, and the host fetches what is ready and configures the
\* device; samples, commands and resets may come or not.
FairSpec == Spec /\ WF_vars(MainLoop) /\ WF_vars(HostIn) /\ WF_vars(Configure)

-----------------------------------------------------------------------------
Undisturbed == ~overlap /\ used.resets = 0

\* Unless an interrupt writes to the ring in the middle of an operation of the
\* main loop on it, or the bus is reset, every byte that Ring_Buffer_Write
\* reports as written reaches the host, once and in order, across the end of
\* the ring and of a transfer.
NothingLost == Undisturbed => ~page.lost

\* As long as moreover no write was cut for want of room, the host finds the
\* head of a block where the block before ends.
FramingKept == (Undisturbed /\ ~cut) => ~page.broken

\* Unless a command flushed i2c_buf while task_I2C was using its indices, a
\* block holds samples of the running measurement only.
FreshBlock == [][stale' => (stale \/ restarted)]_vars

\* Whatever was written reaches the host program in the end: the flag that one
\* transfer holds is given back, and a transfer that ends on a full packet gets a
\* short one behind it, without which the program would wait for it.
Waiting == written > page.last.n \/ page.open
Delivered == Waiting ~> (~Waiting \/ ~Undisturbed)
=============================================================================
