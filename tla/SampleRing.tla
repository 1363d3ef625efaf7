----------------------------- MODULE SampleRing -----------------------------
(***************************************************************************)
(* The acquisition path of the CH58x USB firmware (ch583/I2C2USB/src,      *)
(* i2c_dev.c and the commands of cmd_decode.c that act on it).             *)
(*                                                                         *)
(* Two threads of control share i2c_dev and cfg_i2c without a lock:        *)
(*   - TMR1_IRQHandler reads one register of the converter per tick and    *)
(*     stores it in the ring i2c_buf;                                      *)
(*   - the main loop runs one command at most, then I2CDevTask, which      *)
(*     takes cfg_i2c.pktcnt samples out of the ring and offers them, as    *)
(*     one block, to the transmit FIFO.                                    *)
(* The interrupt preempts the main loop anywhere, so the main loop is cut  *)
(* into steps (pc) at every access to what the interrupt also touches.     *)
(* Samples are numbered by the order in which they are taken.  Of a value  *)
(* the model keeps where it comes from: register, format, measurement, and *)
(* whether it was read for the sample that its slot now stands for.        *)
(***************************************************************************)
EXTENDS Naturals, Sequences

CONSTANTS
  BufSize,        \* I2C_BUF_SIZE, also the range of the 8-bit indices
  MaxPkt16,       \* MAX_I2C_PKTCNT16
  MaxPkt24,       \* MAX_I2C_PKTCNT24
  MaxReadRegs,    \* MAX_READ_REGS
  Configs,        \* what CMD_DEV_CFG and the flash may put in cfg_i2c
  EcadConfig,     \* what ina228_start puts in cfg_i2c
  MaxLag,         \* samples the timer may run ahead of a collected block
  BusMayFail,     \* a register read of the interrupt may fail
  UtrLive,        \* the host sends CMD_DEV_UTR while it measures
  FrdLive,        \* the host sends CMD_DEV_FRD while it measures
  MaxTaken,       \* bound: samples per measurement
  MaxRuns         \* bound: set-ups

Slot == 0 .. BufSize - 1

(***************************************************************************)
(* A configuration: block size, number of leading entries of rd[] that     *)
(* name a device, and whether the period is refused as too short for the   *)
(* bus clock.                                                              *)
(***************************************************************************)
Config == [pktcnt : Nat, regs : 0 .. MaxReadRegs, tooFast : BOOLEAN]

ASSUME BufSizeAssumption == BufSize \in Nat /\ BufSize > 1
ASSUME PktAssumption ==
  /\ MaxPkt16 \in Nat /\ MaxPkt24 \in Nat
  /\ MaxPkt16 < BufSize /\ MaxPkt24 < BufSize
ASSUME RegsAssumption == MaxReadRegs \in Nat \ {0}
ASSUME ConfigsAssumption ==
  /\ Configs \subseteq Config
  /\ EcadConfig \in Config
ASSUME EnvAssumption ==
  /\ MaxLag \in Nat /\ MaxTaken \in Nat /\ MaxRuns \in Nat
  /\ BusMayFail \in BOOLEAN /\ UtrLive \in BOOLEAN /\ FrdLive \in BOOLEAN

VARIABLES
  cfg,            \* cfg_i2c
  rd24,           \* i2c_dev.i2c_rd_24bit is not 0
  timer_flg,      \* i2c_dev.timer_flg: the interrupt may use the bus
  raddr,          \* index in cfg_i2c.rd that i2c_dev.raddr points to
  i2c_buf,
  i2c_buf_wr,
  i2c_buf_rd,
  status,         \* all_read_count and all_overflow_cnt
  pc,             \* where the main loop is
  tmp,            \* timer_flg as the register commands saved it
  task,           \* locals of I2CDevTask: next slot, samples to copy, new rd
  i2c_blk,        \* the block being built: width and samples
  \* History, not in the code:
  run,            \* set-ups so far
  taken,          \* samples taken since the last set-up
  pos,            \* number of the first sample no block has claimed
  accounted,      \* samples of the blocks either counter has counted
  delivered       \* numbers of the samples given to the FIFO, in order

code == <<cfg, rd24, timer_flg, raddr, i2c_buf, i2c_buf_wr, i2c_buf_rd,
          status, pc, tmp, task, i2c_blk>>
history == <<run, taken, pos, accounted, delivered>>
vars == <<code, history>>

Sample == [seq : Nat, reg : Nat, wide : BOOLEAN, run : Nat, good : BOOLEAN]

PC == {"cmd", "start", "bus", "task", "copy", "send"}

TypeOK ==
  /\ cfg \in Config
  /\ rd24 \in BOOLEAN
  /\ timer_flg \in BOOLEAN
  /\ raddr \in 0 .. MaxReadRegs - 1
  /\ i2c_buf \in [Slot -> Sample]
  /\ i2c_buf_wr \in Slot
  /\ i2c_buf_rd \in Slot
  /\ status \in [read : Nat, over : Nat]
  /\ pc \in PC
  /\ tmp \in BOOLEAN
  /\ task \in [i : Slot, size : Nat, rd : Slot]
  /\ i2c_blk \in [wide : BOOLEAN, data : Seq(Sample)]
  /\ run \in Nat
  /\ taken \in Nat
  /\ pos \in Nat
  /\ accounted \in Nat
  /\ delivered \in Seq(Nat)

-----------------------------------------------------------------------------
(***************************************************************************)
(* Index arithmetic and configuration.                                     *)
(***************************************************************************)

\* uint8_t index, one further.
Succ(i) == IF i + 1 = BufSize THEN 0 ELSE i + 1

\* Samples the task finds between its two snapshots of the indices.
Pending(prd, pwr) == IF pwr < prd THEN BufSize - prd + pwr ELSE pwr - prd

\* Mutant of NewRd: what was copied from the start of the ring is forgotten.
NewRdForgets(prd, pwr) == IF pwr < prd THEN 0 ELSE prd + cfg.pktcnt

(***************************************************************************)
(* What the task leaves in i2c_buf_rd.  When the writer has wrapped round  *)
(* (pwr < prd) it is what is left to copy from the start of the ring: none *)
(* if the block ended before the end of the ring.                          *)
(***************************************************************************)
NewRd(prd, pwr) ==
  IF pwr < prd
  THEN IF prd + cfg.pktcnt > BufSize THEN prd + cfg.pktcnt - BufSize ELSE 0
  ELSE prd + cfg.pktcnt

\* The register after raddr; past the last one that names a device, the first.
NextReg(r) == IF r + 1 < cfg.regs THEN r + 1 ELSE 0

\* Mutant of Clamp: the sample format is not looked at.
ClampOneFormat(n) == IF n > MaxPkt16 THEN MaxPkt16 ELSE n

\* The block size I2CDevStart admits for the current sample format.
Clamp(n) ==
  LET max == IF rd24 THEN MaxPkt24 ELSE MaxPkt16
  IN  IF n > max THEN max ELSE n

Off(c) == [c EXCEPT !.pktcnt = 0]

\* Mutant of I2CDevFlushBuf: the next register to read is kept.
FlushKeepsRaddr ==
  /\ i2c_buf_wr' = 0
  /\ i2c_buf_rd' = 0
  /\ run' = run + 1
  /\ taken' = 0
  /\ pos' = 0
  /\ accounted' = 0
  /\ delivered' = <<>>
  /\ UNCHANGED raddr

\* Mutant of I2CDevFlushBuf: the samples are kept.
FlushKeepsSamples ==
  /\ raddr' = 0
  /\ run' = run + 1
  /\ taken' = 0
  /\ pos' = 0
  /\ accounted' = 0
  /\ delivered' = <<>>
  /\ UNCHANGED <<i2c_buf_wr, i2c_buf_rd>>

\* I2CDevFlushBuf; a new measurement begins.
I2CDevFlushBuf ==
  /\ raddr' = 0
  /\ i2c_buf_wr' = 0
  /\ i2c_buf_rd' = 0
  /\ run' = run + 1
  /\ taken' = 0
  /\ pos' = 0
  /\ accounted' = 0
  /\ delivered' = <<>>

ring == <<raddr, i2c_buf_wr, i2c_buf_rd, run, taken, pos, accounted, delivered>>

\* A value that was not read for the sample its slot stands for.
Stale == [seq |-> 0, reg |-> 0, wide |-> FALSE, run |-> 0, good |-> FALSE]

\* After I2CDevInit: configuration read from flash or the default, no timer.
Init ==
  /\ cfg \in Configs
  /\ rd24 = FALSE
  /\ timer_flg = FALSE
  /\ raddr = 0
  /\ i2c_buf = [i \in Slot |-> Stale]
  /\ i2c_buf_wr = 0
  /\ i2c_buf_rd = 0
  /\ status = [read |-> 0, over |-> 0]
  /\ pc = "cmd"
  /\ tmp = FALSE
  /\ task = [i |-> 0, size |-> 0, rd |-> 0]
  /\ i2c_blk = [wide |-> FALSE, data |-> <<>>]
  /\ run = 0
  /\ taken = 0
  /\ pos = 0
  /\ accounted = 0
  /\ delivered = <<>>

-----------------------------------------------------------------------------
(***************************************************************************)
(* The timer interrupt.  It does not look at i2c_buf_rd: nothing but the   *)
(* speed of the main loop (Timely) keeps it from lapping the reader.  The  *)
(* result of the bus transfer is not looked at either: after a failed one  *)
(* the slot passes for a sample with what was in it before.                *)
(***************************************************************************)
Stored(ok) ==
  IF ok
  THEN [seq |-> taken, reg |-> raddr, wide |-> rd24, run |-> run, good |-> TRUE]
  ELSE [Stale EXCEPT !.seq = taken]

Timely == taken < pos + cfg.pktcnt + MaxLag

TMR1_IRQHandler ==
  /\ timer_flg
  /\ taken < MaxTaken
  /\ Timely
  /\ \E ok \in {TRUE, ~BusMayFail} :
       i2c_buf' = [i2c_buf EXCEPT ![i2c_buf_wr] = Stored(ok)]
  /\ i2c_buf_wr' = Succ(i2c_buf_wr)
  /\ raddr' = NextReg(raddr)
  /\ taken' = taken + 1
  /\ UNCHANGED <<cfg, rd24, timer_flg, i2c_buf_rd, status, pc, tmp, task,
                 i2c_blk, run, pos, accounted, delivered>>

-----------------------------------------------------------------------------
(***************************************************************************)
(* Commands, at the head of the main loop.  Those that reconfigure the     *)
(* device close the interrupt's gate and go on in I2CDevStart; those that  *)
(* use the bus are in a transfer (pc = "bus") until BusDone.               *)
(***************************************************************************)
unused == <<i2c_buf, status, task, i2c_blk>>

\* CMD_DEV_CFG with a configuration.
CmdCfg(c) ==
  /\ pc = "cmd"
  /\ run < MaxRuns
  /\ timer_flg' = FALSE
  /\ cfg' = c
  /\ pc' = "start"
  /\ UNCHANGED <<rd24, tmp, ring, unused>>

\* CMD_DEV_ECAD, measurement on: ina228_start.
CmdEcadOn ==
  /\ pc = "cmd"
  /\ run < MaxRuns
  /\ timer_flg' = FALSE
  /\ cfg' = EcadConfig
  /\ rd24' = TRUE
  /\ pc' = "start"
  /\ UNCHANGED <<tmp, ring, unused>>

\* CMD_DEV_ECAD, measurement off (ina228_stop), and CMD_I2C_PWR on
\* (I2CDevWakeUp): nothing is to be measured, the device is set up again.
CmdQuiet ==
  /\ pc = "cmd"
  /\ run < MaxRuns
  /\ timer_flg' = FALSE
  /\ cfg' = Off(cfg)
  /\ pc' = "start"
  /\ UNCHANGED <<rd24, tmp, ring, unused>>

\* CMD_I2C_PWR off: I2CDevSleep, after I2CDevWakeUp if the device was unpowered.
CmdPwrOff ==
  /\ pc = "cmd"
  /\ run < MaxRuns
  /\ cfg' = Off(cfg)
  /\ timer_flg' = FALSE
  /\ tmp' = FALSE
  /\ \/ UNCHANGED ring
     \/ ~cfg.tooFast /\ I2CDevFlushBuf
  /\ pc' = "bus"
  /\ UNCHANGED <<rd24, unused>>

\* Mutant of CmdReg: the gate is not closed.
CmdRegUngated ==
  /\ pc = "cmd"
  /\ tmp' = timer_flg
  /\ pc' = "bus"
  /\ UNCHANGED <<cfg, rd24, timer_flg, ring, unused>>

\* CMD_DEV_GRG and CMD_DEV_SRG: the gate is closed for the transfer.
CmdReg ==
  /\ pc = "cmd"
  /\ tmp' = timer_flg
  /\ timer_flg' = FALSE
  /\ pc' = "bus"
  /\ UNCHANGED <<cfg, rd24, ring, unused>>

\* CMD_DEV_UTR: the gate stays as it is.
CmdUtr ==
  /\ pc = "cmd"
  /\ UtrLive \/ ~timer_flg
  /\ tmp' = timer_flg
  /\ pc' = "bus"
  /\ UNCHANGED <<cfg, rd24, timer_flg, ring, unused>>

BusDone ==
  /\ pc = "bus"
  /\ timer_flg' = tmp
  /\ pc' = "task"
  /\ UNCHANGED <<cfg, rd24, tmp, ring, unused>>

\* CMD_DEV_FRD: the sample format changes at once.
CmdFrd(wide) ==
  /\ pc = "cmd"
  /\ FrdLive \/ ~timer_flg
  /\ rd24' = wide
  /\ pc' = "task"
  /\ UNCHANGED <<cfg, timer_flg, tmp, ring, unused>>

\* No command, or one that only reads or stores the configuration.
NoCmd ==
  /\ pc = "cmd"
  /\ pc' = "task"
  /\ UNCHANGED <<cfg, rd24, timer_flg, tmp, ring, unused>>

(***************************************************************************)
(* I2CDevStart after it has closed the gate.  A period too short for the   *)
(* bus returns before the buffers are flushed.                             *)
(***************************************************************************)
StartRefused ==
  /\ pc = "start"
  /\ cfg.tooFast
  /\ cfg' = Off(cfg)
  /\ timer_flg' = FALSE
  /\ pc' = "task"
  /\ UNCHANGED <<rd24, tmp, ring, unused>>

\* Mutant of Start: the counters are those of all measurements.
StartKeepsCounters ==
  /\ pc = "start"
  /\ ~cfg.tooFast
  /\ I2CDevFlushBuf
  /\ LET n == Clamp(cfg.pktcnt) IN
       \E initOk \in BOOLEAN :
         /\ cfg' = [cfg EXCEPT !.pktcnt = IF initOk THEN n ELSE 0]
         /\ timer_flg' = (initOk /\ n > 0 /\ cfg.regs > 0)
  /\ pc' = "task"
  /\ UNCHANGED <<rd24, tmp, unused>>

\* A register that cannot be initialised stops the measurement, no more.
Start ==
  /\ pc = "start"
  /\ ~cfg.tooFast
  /\ I2CDevFlushBuf
  /\ LET n == Clamp(cfg.pktcnt) IN
       /\ status' = IF n > 0 THEN [read |-> 0, over |-> 0] ELSE status
       /\ \E initOk \in BOOLEAN :
            /\ cfg' = [cfg EXCEPT !.pktcnt = IF initOk THEN n ELSE 0]
            /\ timer_flg' = (initOk /\ n > 0 /\ cfg.regs > 0)
  /\ pc' = "task"
  /\ UNCHANGED <<rd24, tmp, i2c_buf, task, i2c_blk>>

-----------------------------------------------------------------------------
(***************************************************************************)
(* I2CDevTask.  The indices are read once; the samples are then copied one *)
(* by one, with the interrupt possibly in between.                         *)
(***************************************************************************)
\* Mutant of BlockPending: a part of a block will do.
BlockPendingPart == cfg.pktcnt > 0 /\ i2c_buf_wr # i2c_buf_rd

\* Mutant of BlockPending: the block waits for one more sample.
BlockPendingLate ==
  /\ cfg.pktcnt > 0
  /\ i2c_buf_wr # i2c_buf_rd
  /\ Pending(i2c_buf_rd, i2c_buf_wr) > cfg.pktcnt

BlockPending ==
  /\ cfg.pktcnt > 0
  /\ i2c_buf_wr # i2c_buf_rd
  /\ Pending(i2c_buf_rd, i2c_buf_wr) >= cfg.pktcnt

TaskReturn ==
  /\ pc = "task"
  /\ ~BlockPending
  /\ pc' = "cmd"
  /\ UNCHANGED <<cfg, rd24, timer_flg, tmp, ring, unused>>

TaskCollect ==
  /\ pc = "task"
  /\ BlockPending
  /\ LET rd == NewRd(i2c_buf_rd, i2c_buf_wr) IN
       /\ task' = [i |-> i2c_buf_rd, size |-> cfg.pktcnt, rd |-> rd]
       /\ pos' = pos + Pending(i2c_buf_rd, rd)
  /\ i2c_blk' = [wide |-> rd24, data |-> <<>>]
  /\ pc' = "copy"
  /\ UNCHANGED <<cfg, rd24, timer_flg, raddr, i2c_buf, i2c_buf_wr, i2c_buf_rd,
                 status, tmp, run, taken, accounted, delivered>>

TaskCopy ==
  /\ pc = "copy"
  /\ task.size > 0
  /\ i2c_blk' = [i2c_blk EXCEPT !.data = Append(@, i2c_buf[task.i])]
  /\ task' = [task EXCEPT !.i = Succ(@), !.size = @ - 1]
  /\ UNCHANGED <<cfg, rd24, timer_flg, i2c_buf, status, pc, tmp, ring>>

\* The wrapped branch of the code sets i2c_buf_rd between its two copying loops;
\* nobody reads it before they are done.
TaskCopied ==
  /\ pc = "copy"
  /\ task.size = 0
  /\ i2c_buf_rd' = task.rd
  /\ pc' = "send"
  /\ UNCHANGED <<cfg, rd24, timer_flg, raddr, i2c_buf, i2c_buf_wr, status, tmp,
                 task, i2c_blk, history>>

\* app_drv_fifo_write takes the whole block or none of it.
TaskSent ==
  /\ pc = "send"
  /\ \/ /\ status' = [status EXCEPT !.read = @ + 1]
        /\ delivered' = delivered \o
             [k \in 1 .. Len(i2c_blk.data) |-> i2c_blk.data[k].seq]
     \/ /\ status' = [status EXCEPT !.over = @ + 1]
        /\ UNCHANGED delivered
  /\ accounted' = accounted + Len(i2c_blk.data)
  /\ pc' = "cmd"
  /\ UNCHANGED <<cfg, rd24, timer_flg, raddr, i2c_buf, i2c_buf_wr, i2c_buf_rd,
                 tmp, task, i2c_blk, run, taken, pos>>

-----------------------------------------------------------------------------
MainLoop ==
  \/ \E c \in Configs : CmdCfg(c)
  \/ CmdEcadOn
  \/ CmdQuiet
  \/ CmdPwrOff
  \/ CmdReg
  \/ CmdUtr
  \/ BusDone
  \/ \E wide \in BOOLEAN : CmdFrd(wide)
  \/ NoCmd
  \/ StartRefused
  \/ Start
  \/ TaskReturn
  \/ TaskCollect
  \/ TaskCopy
  \/ TaskCopied
  \/ TaskSent

Next == TMR1_IRQHandler \/ MainLoop

Spec == Init /\ [][Next]_vars

\* The main loop never blocks for good: no call in it waits without a timeout.
FairSpec == Spec /\ WF_vars(MainLoop)

-----------------------------------------------------------------------------
(***************************************************************************)
(* Properties.                                                             *)
(***************************************************************************)

(***************************************************************************)
(* Every sample the timer has taken since the set-up is either still in    *)
(* the ring or belongs to a block that one of the two counters of          *)
(* CMD_DEV_STA has counted: what the main loop leaves in i2c_buf_rd never  *)
(* steps over a sample.  It does in the code as soon as the timer is one   *)
(* sample ahead of a block that ends before the ring does.                 *)
(***************************************************************************)
NoSilentLoss ==
  pc \notin {"copy", "send"} =>
    taken = accounted + Pending(i2c_buf_rd, i2c_buf_wr)

(***************************************************************************)
(* The acquisition path hands over its samples as SampleStream promises:   *)
(* in order, in whole blocks, none twice, each lost block counted.         *)
(***************************************************************************)
Stream == INSTANCE SampleStream WITH
  pkt <- IF pc = "start" THEN 0 ELSE cfg.pktcnt,
  taken <- taken,
  next <- accounted,
  delivered <- delivered,
  lost <- status.over

StreamSpec == Stream!Spec

(***************************************************************************)
(* A block offered to the host holds samples taken one after the other,    *)
(* although the interrupt goes on writing to the ring during the copy: as  *)
(* long as the timer is no more than the ring ahead of the first of them,  *)
(* none has been overwritten.  Between the block and pos are the samples   *)
(* that NewRd stepped over.                                                *)
(***************************************************************************)
First == pos - Pending(task.i, task.rd) - Len(i2c_blk.data)
NotLapped == taken <= First + BufSize

BlockConsecutive ==
  pc = "send" /\ NotLapped =>
    \A j, k \in 1 .. Len(i2c_blk.data) :
      i2c_blk.data[j].good /\ i2c_blk.data[k].good =>
        i2c_blk.data[k].seq + j = i2c_blk.data[j].seq + k

(***************************************************************************)
(* Register k of the configuration is sample k of each block, counted      *)
(* modulo the number of registers: the host tells voltage from current by  *)
(* the place in the block only.  It holds of the values that were read,    *)
(* when registers divide both the ring and the block, whatever the timer   *)
(* overruns and whichever other reads fail.                                *)
(***************************************************************************)
Aligned ==
  /\ cfg.regs > 0
  /\ BufSize % cfg.regs = 0
  /\ cfg.pktcnt % cfg.regs = 0

ChannelPhase ==
  pc = "send" /\ Aligned =>
    \A k \in 1 .. Len(i2c_blk.data) :
      i2c_blk.data[k].good => i2c_blk.data[k].reg = (k - 1) % cfg.regs

(***************************************************************************)
(* A block holds no value read in an earlier measurement and none read in  *)
(* another format than the one its id announces, but for what a failed     *)
(* read leaves in its slot.                                                *)
(***************************************************************************)
FreshBlock ==
  pc = "send" =>
    \A k \in 1 .. Len(i2c_blk.data) :
      i2c_blk.data[k].good =>
        /\ i2c_blk.data[k].run = run
        /\ i2c_blk.data[k].wide = i2c_blk.wide

(***************************************************************************)
(* The block built by the task fits the array i2c_blk.data, which has room *)
(* for MAX_I2C_PKTCNT24 samples of three bytes or MAX_I2C_PKTCNT16 of two. *)
(***************************************************************************)
BlockFits ==
  pc \in {"copy", "send"} =>
    Len(i2c_blk.data) + task.size
      <= IF i2c_blk.wide THEN MaxPkt24 ELSE MaxPkt16

(***************************************************************************)
(* The interrupt cannot start a transfer while the main loop is in one:    *)
(* I2CBusReadWord and its like have no other protection than timer_flg.    *)
(***************************************************************************)
BusExclusive == pc \in {"start", "bus"} => ~timer_flg

(***************************************************************************)
(* A block whose samples have all been taken is handed over, or a command  *)
(* ends its measurement, or the timer laps the reader, which then takes    *)
(* the full ring for an empty one: the main loop never just leaves it.     *)
(***************************************************************************)
BlockComplete == cfg.pktcnt > 0 /\ taken >= pos + cfg.pktcnt

BlockCollected ==
  BlockComplete ~>
    (pc = "send" \/ pc = "start" \/ cfg.pktcnt = 0 \/ taken >= pos + BufSize)

=============================================================================
