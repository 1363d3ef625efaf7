------------------------------- MODULE Ina229 -------------------------------
(***************************************************************************)
(* The firmware for the INA229 (INA228_229/BL702/PowerProfiler_ina229/src) *)
(* from the sensor to the blocks it hands to the ring buffer of the USB.   *)
(*                                                                         *)
(*   INA229 --SPI fifo--> timer1_isr --data_buffer--> task_data_out -->    *)
(*                                              Ring_Buffer_Write          *)
(*                                                                         *)
(* timer1_isr reads the answer to the question of the interrupt before and *)
(* asks the next one: what a word is follows from where in data_buffer the *)
(* question was asked.  Commands and line states run in the USB interrupt, *)
(* to their end: they print, and a transfer of the SPI bus is over long    *)
(* before the next step.  The main loop is split (pc) where an interrupt   *)
(* can change what it has read.  The ring buffer, the CDC files and the    *)
(* loop around them are, line for line, those of Bl702; here a block is    *)
(* taken by the ring, or not taken as a whole.                             *)
(***************************************************************************)
EXTENDS Naturals, Sequences

CONSTANTS
  Slots,        \* DATA_BUF_CNT
  BlkCnt,       \* DATA24_BLK_CNT
  MaxSamples,   \* bound: interrupts of the timer
  MaxCommands   \* bound: commands and line states

ASSUME SlotsAssumption ==
  /\ Slots \in Nat /\ BlkCnt \in Nat
  /\ 0 < BlkCnt /\ BlkCnt < Slots
  /\ Slots % 2 = 0 /\ BlkCnt % 2 = 0
ASSUME BoundAssumption == MaxSamples \in Nat /\ MaxCommands \in Nat

\* A word of the SPI bus: the channel it was read from, whether both were
\* measured, and the measurement and the question it answers.  Other is the
\* answer to a register that is written, or nothing.
Word == [ch : {"bus", "shunt", "other"}, both : BOOLEAN, meas : Nat, n : Nat]
Other == [ch |-> "other", both |-> FALSE, meas |-> 0, n |-> 0]

VARIABLES
  cfg_ina,      \* inited, buf_enable, chnls
  cfg_adc,      \* enable, chnl: the reply to CMD_DEV_ECAD
  timer1,       \* "null" until the first ina229_init
  dtr_enable,
  rx,           \* receive fifo of the SPI
  data_buffer, data_buffer_wr_ptr, data_buffer_rd_ptr,
  pc, task,     \* the main loop: prd, the block, the counter it increments
  count,        \* blk_read_count, blk_overflow_cnt
  \* History:
  meas,         \* measurements started
  asked,        \* questions of this measurement
  last,         \* n of the last sample handed over
  lapped,       \* data_buffer was full, and so empty, in this measurement
  torn,         \* it was while task_data_out was copying
  restarted,    \* this measurement began in the middle of task_data_out
  stale,        \* samples of earlier ones handed over in this one
  blocks,       \* blocks handed over in this measurement
  used          \* interrupts and commands so far

device == <<cfg_ina, cfg_adc, timer1, dtr_enable, rx, meas, asked>>
buffer == <<data_buffer, data_buffer_wr_ptr, data_buffer_rd_ptr>>
history == <<last, lapped, torn, restarted, stale, blocks>>
vars == <<device, buffer, pc, task, count, history, used>>

Where == {"task", "pick", "copy", "index", "write", "count"}
Slot == 0 .. Slots - 1

TypeOK ==
  /\ cfg_ina \in [inited : BOOLEAN, buf_enable : BOOLEAN, chnls : 0 .. 3]
  /\ cfg_adc \in [enable : BOOLEAN, chnl : 0 .. 3]
  /\ timer1 \in {"null", "stopped", "running"} /\ dtr_enable \in BOOLEAN
  /\ rx \in Seq(Word)
  /\ data_buffer \in [Slot -> Word]
  /\ data_buffer_wr_ptr \in Slot /\ data_buffer_rd_ptr \in Slot
  /\ pc \in Where
  /\ task \in [prd : Slot, blk : Seq(Word), cnt : Nat, ok : BOOLEAN]
  /\ Len(task.blk) <= BlkCnt
  /\ count \in [read : Nat, overflow : Nat]
  /\ meas \in Nat /\ asked \in Nat /\ last \in Nat /\ stale \in Nat /\ blocks \in Nat
  /\ lapped \in BOOLEAN /\ torn \in BOOLEAN /\ restarted \in BOOLEAN
  /\ used \in [samples : 0 .. MaxSamples, commands : 0 .. MaxCommands]

Init ==
  /\ cfg_ina = [inited |-> FALSE, buf_enable |-> FALSE, chnls |-> 0]
  /\ cfg_adc = [enable |-> FALSE, chnl |-> 3]
  /\ timer1 = "null" /\ dtr_enable = FALSE
  /\ rx = <<>>
  /\ data_buffer = [i \in Slot |-> Other]
  /\ data_buffer_wr_ptr = 0 /\ data_buffer_rd_ptr = 0
  /\ pc = "task" /\ task = [prd |-> 0, blk |-> <<>>, cnt |-> 0, ok |-> FALSE]
  /\ count = [read |-> 0, overflow |-> 0]
  /\ meas = 0 /\ asked = 0 /\ last = 0 /\ stale = 0 /\ blocks = 0
  /\ lapped = FALSE /\ torn = FALSE /\ restarted = FALSE
  /\ used = [samples |-> 0, commands |-> 0]

-----------------------------------------------------------------------------
(***************************************************************************)
(* The SPI driver: a word sent brings a word back, and setting the width   *)
(* or the whole interface empties the fifo.                                *)
(***************************************************************************)
bflb_spi_poll_send(fifo) == Tail(Append(fifo, Other))

\* Mutant of SetDataWidth: the fifo is left as it is.
SetDataWidthOnly(fifo) == fifo

SetDataWidth(fifo) == <<>>

(***************************************************************************)
(* timer1_isr.  In the middle of a measurement of both channels, the       *)
(* question is for the bus voltage at odd places of data_buffer: its       *)
(* answer comes with the interrupt after and goes to an even one.          *)
(***************************************************************************)
Channel(chnls, wr) ==
  IF chnls = 3 THEN (IF wr % 2 = 1 THEN "bus" ELSE "shunt")
  ELSE IF chnls = 2 THEN "bus" ELSE "shunt"

Asked(chnls, ch, m, n) == [ch |-> ch, both |-> chnls = 3, meas |-> m, n |-> n]

NextPlace(wr) == (wr + 1) % Slots

Received == IF rx = <<>> THEN Other ELSE Head(rx)
Behind == IF rx = <<>> THEN <<>> ELSE Tail(rx)

timer1_isr ==
  LET wr == NextPlace(data_buffer_wr_ptr)
      full == wr = data_buffer_rd_ptr
  IN /\ timer1 = "running" /\ used.samples < MaxSamples
     /\ asked' = asked + 1
     /\ rx' = Append(Behind, Asked(cfg_ina.chnls, Channel(cfg_ina.chnls, data_buffer_wr_ptr),
                                   meas, asked + 1))
     /\ IF cfg_ina.buf_enable
        THEN /\ data_buffer' = [data_buffer EXCEPT ![data_buffer_wr_ptr] = Received]
             /\ data_buffer_wr_ptr' = wr
             /\ lapped' = (lapped \/ full)
             /\ torn' = (torn \/ (full /\ pc \in {"pick", "copy"}))
        ELSE UNCHANGED <<data_buffer, data_buffer_wr_ptr, lapped, torn>>
     /\ used' = [used EXCEPT !.samples = @ + 1]
     /\ UNCHANGED <<cfg_ina, cfg_adc, timer1, dtr_enable, meas, data_buffer_rd_ptr,
                    pc, task, count, last, restarted, stale, blocks>>

-----------------------------------------------------------------------------
(***************************************************************************)
(* ina229.c, as called from commands and line states.  The buffer's        *)
(* indices are set without a look at where task_data_out is.               *)
(***************************************************************************)
Chnls(chnl) == IF chnl \in {2, 3} THEN chnl ELSE 1

\* The sensor is asked for the first reading before the first interrupt.
FirstAsked(chnls) == IF chnls \in {2, 3} THEN "bus" ELSE "shunt"

\* Four registers are written, at a width of 24 bits.
StartFifo(chnls) ==
  LET written == bflb_spi_poll_send(bflb_spi_poll_send(bflb_spi_poll_send(
                   bflb_spi_poll_send(SetDataWidth(rx)))))
  IN Append(SetDataWidth(written), Asked(chnls, FirstAsked(chnls), meas + 1, 1))

NewMeasurement ==
  /\ meas' = meas + 1 /\ asked' = 1 /\ last' = 0 /\ stale' = 0 /\ blocks' = 0
  /\ lapped' = FALSE /\ torn' = FALSE /\ restarted' = (pc # "task")

\* Mutant of ResetPointers: the write pointer is kept.
ResetReadPointer == data_buffer_rd_ptr' = 0 /\ UNCHANGED data_buffer_wr_ptr

ResetPointers == data_buffer_wr_ptr' = 0 /\ data_buffer_rd_ptr' = 0

ina229_start(chnl) ==
  IF ~cfg_ina.inited
  THEN UNCHANGED <<cfg_ina, timer1, rx, buffer, count, meas, asked, history>>
  ELSE /\ cfg_ina' = [cfg_ina EXCEPT !.buf_enable = TRUE, !.chnls = Chnls(chnl)]
       /\ rx' = StartFifo(Chnls(chnl))
       /\ count' = [read |-> 0, overflow |-> 0]
       /\ ResetPointers
       /\ timer1' = "running"
       /\ NewMeasurement
       /\ UNCHANGED data_buffer

\* Mutant of StopTimer: the timer runs on.
StopTimerNot == UNCHANGED timer1

StopTimer == timer1' = "stopped"

ina229_stop ==
  IF ~cfg_ina.inited THEN UNCHANGED <<cfg_ina, timer1, rx>>
  ELSE /\ cfg_ina' = [cfg_ina EXCEPT !.buf_enable = FALSE]
       /\ StopTimer
       /\ rx' = bflb_spi_poll_send(SetDataWidth(rx))

\* The timer and the SPI are switched off whatever was done before.
ina229_sleep ==
  /\ cfg_ina' = [cfg_ina EXCEPT !.buf_enable = @ /\ ~cfg_ina.inited, !.inited = FALSE]
  /\ timer1' = "stopped"
  /\ rx' = IF cfg_ina.inited THEN bflb_spi_poll_send(SetDataWidth(rx)) ELSE rx

\* ina229_init empties the fifo and reads two identifiers; with the wrong
\* ones, the sensor is put to sleep again.
ina229_wakeup(found) ==
  IF cfg_ina.inited THEN UNCHANGED <<cfg_ina, timer1, rx>>
  ELSE /\ cfg_ina' = [cfg_ina EXCEPT !.inited = found, !.buf_enable = FALSE]
       /\ timer1' = "stopped"
       /\ rx' = bflb_spi_poll_send(bflb_spi_poll_send(<<>>))

(***************************************************************************)
(* Commands and line states.                                               *)
(***************************************************************************)
Keep == UNCHANGED <<buffer, count, meas, asked, history>>

\* CMD_DEV_ECAD with the structure, and CMD_INA_STR, which starts what was
\* last configured.
CmdEcadStart(chnl) ==
  /\ ina229_start(chnl)
  /\ cfg_adc' = [enable |-> TRUE, chnl |-> cfg_ina'.chnls]
CmdInaStr ==
  /\ ina229_start(cfg_adc.chnl)
  /\ cfg_adc' = [cfg_adc EXCEPT !.enable = TRUE]

CmdEcadStop(chnl) ==
  /\ ina229_stop /\ Keep
  /\ cfg_adc' = [enable |-> FALSE, chnl |-> chnl]
CmdInaStp ==
  /\ ina229_stop /\ Keep
  /\ cfg_adc' = [cfg_adc EXCEPT !.enable = FALSE]

\* CMD_DEV_PWR: power on, off, or on and off again.  Off alone comes only
\* after the first on: before that there is no timer to switch off.
CmdPwr ==
  /\ \/ \E found \in BOOLEAN : ina229_wakeup(found)
     \/ \E on \in BOOLEAN : (on \/ timer1 # "null") /\ ina229_sleep
  /\ Keep /\ UNCHANGED cfg_adc

Command(step) ==
  /\ used.commands < MaxCommands
  /\ step
  /\ used' = [used EXCEPT !.commands = @ + 1]
  /\ UNCHANGED <<pc, task>>

usbd_cdc_acm_bulk_out ==
  /\ Command(\/ \E chnl \in 0 .. 3 : CmdEcadStart(chnl) \/ CmdEcadStop(chnl)
             \/ CmdInaStr \/ CmdInaStp \/ CmdPwr)
  /\ UNCHANGED dtr_enable

usbd_cdc_acm_set_dtr ==
  Command(/\ IF dtr_enable THEN ina229_sleep ELSE \E found \in BOOLEAN : ina229_wakeup(found)
          /\ dtr_enable' = ~dtr_enable
          /\ Keep /\ UNCHANGED cfg_adc)

-----------------------------------------------------------------------------
(***************************************************************************)
(* task_data_out.                                                          *)
(***************************************************************************)
TaskRead ==
  /\ pc = "task"
  /\ task' = [task EXCEPT !.prd = data_buffer_rd_ptr, !.blk = <<>>]
  /\ torn' = FALSE
  /\ pc' = "pick"
  /\ UNCHANGED <<device, buffer, count, last, lapped, restarted, stale, blocks, used>>

\* Mutant of BlockPending: a block is handed over with one sample to spare.
BlockPendingMore(prd, pwr) == (pwr + Slots - prd) % Slots > BlkCnt

BlockPending(prd, pwr) == (pwr + Slots - prd) % Slots >= BlkCnt

TaskPick ==
  /\ pc = "pick"
  /\ pc' = IF BlockPending(task.prd, data_buffer_wr_ptr) THEN "copy" ELSE "task"
  /\ UNCHANGED <<device, buffer, task, count, history, used>>

PlaceOf(prd, k) == (prd + k) % Slots

TaskCopy ==
  LET k == Len(task.blk)
      s == data_buffer[PlaceOf(task.prd, k)]
  IN /\ pc = "copy"
     /\ task' = [task EXCEPT !.blk = Append(@, s)]
     /\ stale' = IF s.meas = meas THEN stale ELSE stale + 1
     /\ pc' = IF k + 1 = BlkCnt THEN "index" ELSE "copy"
     /\ UNCHANGED <<device, buffer, count, last, lapped, torn, restarted, blocks, used>>

\* Mutant of NewRd: the index stays when the block goes round the end.
NewRdStays(prd) == IF prd + BlkCnt < Slots THEN prd + BlkCnt ELSE prd

NewRd(prd) == (prd + BlkCnt) % Slots

TaskIndex ==
  /\ pc = "index"
  /\ data_buffer_rd_ptr' = NewRd(task.prd)
  /\ last' = IF task.blk[BlkCnt].meas = meas THEN task.blk[BlkCnt].n ELSE last
  /\ blocks' = blocks + 1
  /\ pc' = "write"
  /\ UNCHANGED <<device, data_buffer, data_buffer_wr_ptr, task, count, lapped, torn,
                 restarted, stale, used>>

\* Ring_Buffer_Write, and the load of blk_read_count++ or blk_overflow_cnt++.
TaskWrite ==
  /\ pc = "write"
  /\ \E ok \in BOOLEAN :
       task' = [task EXCEPT !.ok = ok, !.cnt = IF ok THEN count.read ELSE count.overflow]
  /\ pc' = "count"
  /\ UNCHANGED <<device, buffer, count, history, used>>

\* Mutant of Counted: a block that the ring does not take counts as read too.
CountedTwice ==
  IF task.ok THEN [count EXCEPT !.read = task.cnt + 1]
  ELSE [read |-> count.read + 1, overflow |-> task.cnt + 1]

Counted ==
  IF task.ok THEN [count EXCEPT !.read = task.cnt + 1]
  ELSE [count EXCEPT !.overflow = task.cnt + 1]

TaskCount ==
  /\ pc = "count"
  /\ count' = Counted
  /\ pc' = "task"
  /\ UNCHANGED <<device, buffer, task, history, used>>

task_data_out ==
  TaskRead \/ TaskPick \/ TaskCopy \/ TaskIndex \/ TaskWrite \/ TaskCount

Next == timer1_isr \/ usbd_cdc_acm_bulk_out \/ usbd_cdc_acm_set_dtr \/ task_data_out

Spec == Init /\ [][Next]_vars

\* The loop comes round: usb_dc_send_from_ringbuffer, which it also calls,
\* waits for the host, and the host fetches.
FairSpec == Spec /\ WF_vars(task_data_out)

-----------------------------------------------------------------------------
\* The timer runs only with the sensor found, buffering on, and CMD_DEV_ECAD
\* answered with "enabled": no sequence of power, line states and commands
\* leaves timer1_isr at work on a sleeping interface.
SamplingNeedsSensor ==
  timer1 = "running" => cfg_ina.inited /\ cfg_ina.buf_enable /\ cfg_adc.enable

\* The host tells the channels apart by their place in a block.  When both are
\* measured the bus voltage comes first, in every block of every measurement,
\* also when the buffer was lapped and when what is handed over is of an
\* earlier measurement.
ChannelPhase ==
  pc = "index" =>
    \A k \in 1 .. BlkCnt : task.blk[k].both => (task.blk[k].ch = "bus" <=> k % 2 = 1)

\* Unless the measurement was restarted in the middle of task_data_out, every
\* sample handed over was asked for, and stored, in this measurement: nothing
\* is left over in the fifo of the SPI or in data_buffer.
FreshBlock == stale > 0 => restarted

\* If it was, samples of earlier measurements are handed over, but no more of
\* them than one buffer and the block in hand.
StaleBounded == stale < Slots + BlkCnt

\* As long as the loop keeps up, blocks follow each other without a gap.  When it does
\* not, nothing tells the host; but samples are lost between blocks only, and not
\* inside of one that was not overtaken while it was copied.
Gapless ==
  (pc = "index" /\ ~torn /\ ~restarted) =>
    /\ ~lapped => task.blk[1].n = last + 1
    /\ \A k \in 1 .. BlkCnt - 1 : task.blk[k + 1].n = task.blk[k].n + 1

\* CMD_DEV_STA counts each block of the measurement once, as read or as not
\* taken by the ring.  (cmd_cfg.h calls rd_cnt and to_cnt counters of samples;
\* what is counted is blocks.)
StatusCounts ==
  (pc \notin {"write", "count"} /\ ~restarted) => count.read + count.overflow = blocks

\* A block's worth of samples is handed over, also after the timer stopped.
Pending == (data_buffer_wr_ptr + Slots - data_buffer_rd_ptr) % Slots >= BlkCnt
Delivered == Pending ~> ~Pending
=============================================================================
