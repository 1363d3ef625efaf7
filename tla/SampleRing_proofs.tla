------------------------- MODULE SampleRing_proofs -------------------------
(***************************************************************************)
(* Theorems about SampleRing for every size of the ring, every limit on    *)
(* the blocks and every set of configurations.                             *)
(***************************************************************************)
EXTENDS SampleRing, SequenceTheorems, TLAPS

(***************************************************************************)
(* Index arithmetic.                                                       *)
(***************************************************************************)
\* The next slot is a slot of the ring.
LEMMA SuccInSlot == ASSUME NEW i \in Slot PROVE Succ(i) \in Slot
BY BufSizeAssumption DEF Succ, Slot

\* The task finds fewer samples than the ring has slots.
LEMMA PendingBounds ==
  ASSUME NEW prd \in Slot, NEW pwr \in Slot
  PROVE  /\ Pending(prd, pwr) \in 0 .. BufSize - 1
         /\ Pending(prd, pwr) = 0 <=> prd = pwr
BY BufSizeAssumption DEF Pending, Slot

\* One sample more is pending after a tick, unless the ring was full.
LEMMA PendingSucc ==
  ASSUME NEW prd \in Slot, NEW pwr \in Slot,
         Pending(prd, pwr) < BufSize - 1
  PROVE  Pending(prd, Succ(pwr)) = Pending(prd, pwr) + 1
BY BufSizeAssumption DEF Pending, Succ, Slot

\* The task leaves i2c_buf_rd inside the ring.
LEMMA NewRdInSlot ==
  ASSUME TypeOK, BlockPending
  PROVE  NewRd(i2c_buf_rd, i2c_buf_wr) \in Slot
BY SMTT(60), BufSizeAssumption DEF TypeOK, BlockPending, NewRd, Pending, Slot, Config

\* A block that is all there is in the ring leaves nothing behind.
LEMMA NewRdExact ==
  ASSUME NEW prd \in Slot, NEW pwr \in Slot, cfg.pktcnt \in Nat,
         Pending(prd, pwr) = cfg.pktcnt
  PROVE  NewRd(prd, pwr) = pwr
BY BufSizeAssumption DEF NewRd, Pending, Slot

\* I2CDevStart only ever lowers the block size.
LEMMA ClampBounds ==
  ASSUME NEW n \in Nat
  PROVE  /\ Clamp(n) \in Nat
         /\ Clamp(n) < BufSize
         /\ Clamp(n) <= IF rd24 THEN MaxPkt24 ELSE MaxPkt16
BY PktAssumption, BufSizeAssumption DEF Clamp

-----------------------------------------------------------------------------
(***************************************************************************)
(* Types: in particular neither index of the ring leaves it and raddr      *)
(* never points past the last entry of cfg_i2c.rd.                         *)
(***************************************************************************)
LEMMA TypeInit == Init => TypeOK
<1> SUFFICES ASSUME Init PROVE TypeOK
  OBVIOUS
<1>1. cfg \in Config
  BY ConfigsAssumption DEF Init
<1>2. i2c_buf \in [Slot -> Sample]
  <2>1. Stale \in Sample
    BY RegsAssumption DEF Stale, Sample
  <2> QED
    BY <2>1 DEF Init
<1>3. 0 \in Slot
  BY BufSizeAssumption DEF Slot
<1>4. status \in [read : Nat, over : Nat]
  BY DEF Init
<1>5. task \in [i : Slot, size : Nat, rd : Slot]
  BY <1>3 DEF Init
<1>6. i2c_blk \in [wide : BOOLEAN, data : Seq(Sample)]
  BY DEF Init
<1>7. raddr \in 0 .. MaxReadRegs - 1
  BY RegsAssumption DEF Init
<1>8. rd24 \in BOOLEAN /\ timer_flg \in BOOLEAN /\ tmp \in BOOLEAN
  BY DEF Init
<1>9. pc \in PC
  BY DEF Init, PC
<1>10. i2c_buf_wr \in Slot /\ i2c_buf_rd \in Slot
  BY <1>3 DEF Init
<1>11. run \in Nat /\ taken \in Nat /\ pos \in Nat /\ accounted \in Nat
  BY DEF Init
<1>12. delivered \in Seq(Nat)
  BY DEF Init
<1> QED
  BY <1>1, <1>2, <1>4, <1>5, <1>6, <1>7, <1>8, <1>9, <1>10, <1>11, <1>12
  DEF TypeOK

LEMMA FlushTypes ==
  ASSUME TypeOK, I2CDevFlushBuf
  PROVE  /\ raddr' \in 0 .. MaxReadRegs - 1
         /\ i2c_buf_wr' \in Slot
         /\ i2c_buf_rd' \in Slot
         /\ run' \in Nat
         /\ taken' \in Nat
         /\ pos' \in Nat
         /\ accounted' \in Nat
         /\ delivered' \in Seq(Nat)
BY BufSizeAssumption, RegsAssumption DEF TypeOK, I2CDevFlushBuf, Slot

\* The block under construction is a sequence of samples.
LEMMA BlockData == TypeOK => i2c_blk.data \in Seq(Sample)
BY DEF TypeOK

LEMMA TypeStep == TypeOK /\ [Next]_vars => TypeOK'
<1> SUFFICES ASSUME TypeOK, [Next]_vars PROVE TypeOK'
  OBVIOUS
<1> USE DEF TypeOK
<1>1. ASSUME TMR1_IRQHandler PROVE TypeOK'
  <2>1. Succ(i2c_buf_wr) \in Slot
    BY SuccInSlot
  <2>2. NextReg(raddr) \in 0 .. MaxReadRegs - 1
    BY RegsAssumption DEF NextReg, Config
  <2>3. PICK ok \in {TRUE, ~BusMayFail} :
          i2c_buf' = [i2c_buf EXCEPT ![i2c_buf_wr] =
                        Stored(ok)]
    BY <1>1 DEF TMR1_IRQHandler
  <2>4. Stored(ok) \in Sample
    <3>1. raddr \in Nat
      BY RegsAssumption
    <3> QED
      BY <3>1 DEF Sample, Stored, Stale
  <2>5. i2c_buf' \in [Slot -> Sample]
    BY <2>3, <2>4
  <2> QED
    BY <1>1, <2>1, <2>2, <2>5 DEF TMR1_IRQHandler
<1>2. ASSUME NEW c \in Configs, CmdCfg(c) PROVE TypeOK'
  BY <1>2, ConfigsAssumption DEF CmdCfg, ring, unused, PC
<1>3. ASSUME CmdEcadOn PROVE TypeOK'
  BY <1>3, ConfigsAssumption DEF CmdEcadOn, ring, unused, PC
<1>4. Off(cfg) \in Config
  BY DEF Off, Config
<1>5. ASSUME CmdQuiet PROVE TypeOK'
  BY <1>4, <1>5 DEF CmdQuiet, ring, unused, PC
<1>6. ASSUME CmdPwrOff PROVE TypeOK'
  <2>1. CASE UNCHANGED ring
    BY <1>4, <1>6, <2>1 DEF CmdPwrOff, ring, unused, PC
  <2>2. CASE I2CDevFlushBuf
    BY <1>4, <1>6, <2>2, FlushTypes DEF CmdPwrOff, unused, PC
  <2> QED
    BY <1>6, <2>1, <2>2 DEF CmdPwrOff
<1>7. ASSUME CmdReg PROVE TypeOK'
  BY <1>7 DEF CmdReg, ring, unused, PC
<1>8. ASSUME CmdUtr PROVE TypeOK'
  BY <1>8 DEF CmdUtr, ring, unused, PC
<1>9. ASSUME BusDone PROVE TypeOK'
  BY <1>9 DEF BusDone, ring, unused, PC
<1>10. ASSUME NEW wide \in BOOLEAN, CmdFrd(wide) PROVE TypeOK'
  BY <1>10 DEF CmdFrd, ring, unused, PC
<1>11. ASSUME NoCmd PROVE TypeOK'
  BY <1>11 DEF NoCmd, ring, unused, PC
<1>12. ASSUME StartRefused PROVE TypeOK'
  BY <1>4, <1>12 DEF StartRefused, ring, unused, PC
<1>13. ASSUME Start PROVE TypeOK'
  <2> DEFINE n == Clamp(cfg.pktcnt)
  <2>1. n \in Nat
    BY ClampBounds DEF Config
  <2>2. status' \in [read : Nat, over : Nat]
    BY <1>13 DEF Start
  <2>3. PICK initOk \in BOOLEAN :
          /\ cfg' = [cfg EXCEPT !.pktcnt = IF initOk THEN n ELSE 0]
          /\ timer_flg' = (initOk /\ n > 0 /\ cfg.regs > 0)
    BY <1>13 DEF Start
  <2>4. cfg' \in Config /\ timer_flg' \in BOOLEAN
    BY <2>1, <2>3 DEF Config
  <2>5. I2CDevFlushBuf
    BY <1>13 DEF Start
  <2> QED
    BY <1>13, <2>2, <2>4, <2>5, FlushTypes DEF Start, PC
<1>14. ASSUME TaskReturn PROVE TypeOK'
  BY <1>14 DEF TaskReturn, ring, unused, PC
<1>15. ASSUME TaskCollect PROVE TypeOK'
  <2> DEFINE rd == NewRd(i2c_buf_rd, i2c_buf_wr)
  <2>1. rd \in Slot
    BY <1>15, NewRdInSlot DEF TaskCollect
  <2>2. Pending(i2c_buf_rd, rd) \in Nat
    BY <2>1, PendingBounds
  <2>3. task' \in [i : Slot, size : Nat, rd : Slot]
    BY <1>15, <2>1 DEF TaskCollect, Config
  <2>4. i2c_blk' \in [wide : BOOLEAN, data : Seq(Sample)]
    BY <1>15 DEF TaskCollect
  <2>5. pos' \in Nat
    BY <1>15, <2>2 DEF TaskCollect
  <2> QED
    BY <1>15, <2>3, <2>4, <2>5 DEF TaskCollect, PC
<1>16. ASSUME TaskCopy PROVE TypeOK'
  <2>1. Succ(task.i) \in Slot
    BY SuccInSlot
  <2>2. task' = [i |-> Succ(task.i), size |-> task.size - 1, rd |-> task.rd]
    BY <1>16 DEF TaskCopy
  <2>3. task' \in [i : Slot, size : Nat, rd : Slot]
    <3>1. task.size - 1 \in Nat
      BY <1>16 DEF TaskCopy
    <3> QED
      BY <2>1, <2>2, <3>1
  <2>4. i2c_blk' \in [wide : BOOLEAN, data : Seq(Sample)]
    <3> HIDE DEF TypeOK
    <3>1. i2c_buf[task.i] \in Sample
      BY DEF TypeOK
    <3>2. Append(i2c_blk.data, i2c_buf[task.i]) \in Seq(Sample)
      BY <3>1, BlockData
    <3>3. i2c_blk' = [wide |-> i2c_blk.wide,
                      data |-> Append(i2c_blk.data, i2c_buf[task.i])]
      BY <1>16 DEF TaskCopy, TypeOK
    <3>4. i2c_blk.wide \in BOOLEAN
      BY DEF TypeOK
    <3> QED
      BY <3>2, <3>3, <3>4
  <2> QED
    BY <1>16, <2>3, <2>4 DEF TaskCopy, ring
<1>17. ASSUME TaskCopied PROVE TypeOK'
  BY <1>17 DEF TaskCopied, history, PC
<1>18. ASSUME TaskSent PROVE TypeOK'
  <2>1. status' \in [read : Nat, over : Nat]
    <3> HIDE DEF TypeOK
    <3>1. status \in [read : Nat, over : Nat]
      BY DEF TypeOK
    <3>2. \/ status' = [status EXCEPT !.read = @ + 1]
          \/ status' = [status EXCEPT !.over = @ + 1]
      BY <1>18 DEF TaskSent
    <3> QED
      BY <3>1, <3>2
  <2>2. delivered' \in Seq(Nat)
    <3> HIDE DEF TypeOK
    <3> DEFINE seqs == [k \in 1 .. Len(i2c_blk.data) |-> i2c_blk.data[k].seq]
    <3>1. i2c_blk.data \in Seq(Sample)
      BY BlockData
    <3>2. \A k \in 1 .. Len(i2c_blk.data) : i2c_blk.data[k].seq \in Nat
      <4> TAKE k \in 1 .. Len(i2c_blk.data)
      <4>1. i2c_blk.data[k] \in Sample
        BY <3>1, ElementOfSeq
      <4> QED
        BY <4>1 DEF Sample
    <3>3. Len(i2c_blk.data) \in Nat
      BY <3>1
    <3>4. seqs \in Seq(Nat)
      BY <3>2, <3>3
    <3>5. delivered \in Seq(Nat)
      BY DEF TypeOK
    <3>6. delivered' = delivered \o seqs \/ delivered' = delivered
      BY <1>18 DEF TaskSent
    <3> HIDE DEF seqs
    <3>7. delivered \o seqs \in Seq(Nat)
      BY <3>4, <3>5, ConcatProperties
    <3> QED
      BY <3>5, <3>6, <3>7
  <2>3. accounted' \in Nat
    <3> HIDE DEF TypeOK
    <3>1. Len(i2c_blk.data) \in Nat
      BY BlockData
    <3> QED
      BY <1>18, <3>1 DEF TaskSent, TypeOK
  <2> QED
    BY <1>18, <2>1, <2>2, <2>3 DEF TaskSent, PC
<1>19. ASSUME UNCHANGED vars PROVE TypeOK'
  BY <1>19 DEF vars, code, history
<1> QED
  BY <1>1, <1>2, <1>3, <1>5, <1>6, <1>7, <1>8, <1>9, <1>10, <1>11, <1>12,
     <1>13, <1>14, <1>15, <1>16, <1>17, <1>18, <1>19 DEF Next, MainLoop

THEOREM TypeCorrect == Spec => []TypeOK
<1>1. Init => TypeOK
  BY TypeInit
<1>2. TypeOK /\ [Next]_vars => TypeOK'
  BY TypeStep
<1> QED
  BY <1>1, <1>2, PTL DEF Spec

-----------------------------------------------------------------------------
(***************************************************************************)
(* The gate of the interrupt.  Measuring: the interrupt may sample, now or *)
(* when the register command in progress is done.                          *)
(***************************************************************************)
Measuring == timer_flg \/ (pc = "bus" /\ tmp)

GateInv == pc = "start" => ~timer_flg

LEMMA GateStep == TypeOK /\ GateInv /\ [Next]_vars => GateInv'
<1> SUFFICES ASSUME TypeOK, GateInv, [Next]_vars PROVE GateInv'
  OBVIOUS
<1> USE DEF GateInv
<1>1. ASSUME NEW c \in Configs, CmdCfg(c) PROVE GateInv'
  BY <1>1 DEF CmdCfg
<1>2. CASE CmdEcadOn \/ CmdQuiet
  BY <1>2 DEF CmdEcadOn, CmdQuiet
<1>3. CASE TMR1_IRQHandler
  BY <1>3 DEF TMR1_IRQHandler
<1>4. CASE UNCHANGED vars
  BY <1>4 DEF vars, code
<1>5. CASE CmdPwrOff \/ CmdReg \/ CmdUtr
  BY <1>5 DEF CmdPwrOff, CmdReg, CmdUtr
<1>6. CASE BusDone \/ NoCmd \/ StartRefused \/ Start
  BY <1>6 DEF BusDone, NoCmd, StartRefused, Start
<1>7. ASSUME NEW wide \in BOOLEAN, CmdFrd(wide) PROVE GateInv'
  BY <1>7 DEF CmdFrd
<1>8. CASE TaskReturn \/ TaskCollect \/ TaskCopied \/ TaskSent
  BY <1>8 DEF TaskReturn, TaskCollect, TaskCopied, TaskSent
<1>9. CASE TaskCopy
  BY <1>9 DEF TaskCopy
<1> QED
  BY <1>1, <1>2, <1>3, <1>4, <1>5, <1>6, <1>7, <1>8, <1>9 DEF Next, MainLoop

(***************************************************************************)
(* If the host sends CMD_DEV_UTR only while nothing is measured, no        *)
(* transfer of the main loop is ever interrupted by one of the interrupt.  *)
(***************************************************************************)
THEOREM BusIsExclusive ==
  ASSUME UtrLive = FALSE
  PROVE  Spec => []BusExclusive
<1>1. Init => BusExclusive
  BY DEF Init, BusExclusive
<1>2. TypeOK /\ BusExclusive /\ [Next]_vars => BusExclusive'
  <2> SUFFICES ASSUME TypeOK, BusExclusive, [Next]_vars PROVE BusExclusive'
    OBVIOUS
  <2> USE DEF BusExclusive
  <2>1. ASSUME NEW c \in Configs, CmdCfg(c) PROVE BusExclusive'
    BY <2>1 DEF CmdCfg
  <2>2. CASE CmdEcadOn \/ CmdQuiet \/ CmdPwrOff \/ CmdReg
    BY <2>2 DEF CmdEcadOn, CmdQuiet, CmdPwrOff, CmdReg
  <2>3. CASE CmdUtr
    BY <2>3 DEF CmdUtr
  <2>4. CASE TMR1_IRQHandler
    BY <2>4 DEF TMR1_IRQHandler
  <2>5. ASSUME NEW wide \in BOOLEAN, CmdFrd(wide) PROVE BusExclusive'
    BY <2>5 DEF CmdFrd
  <2>6. CASE BusDone \/ NoCmd \/ StartRefused \/ Start
    BY <2>6 DEF BusDone, NoCmd, StartRefused, Start
  <2>7. CASE TaskReturn \/ TaskCollect \/ TaskCopied \/ TaskSent
    BY <2>7 DEF TaskReturn, TaskCollect, TaskCopied, TaskSent
  <2>8. CASE TaskCopy
    BY <2>8 DEF TaskCopy
  <2>9. CASE UNCHANGED vars
    BY <2>9 DEF vars, code
  <2> QED
    BY <2>1, <2>2, <2>3, <2>4, <2>5, <2>6, <2>7, <2>8, <2>9
    DEF Next, MainLoop
<1> QED
  BY <1>1, <1>2, TypeCorrect, PTL DEF Spec

-----------------------------------------------------------------------------
(***************************************************************************)
(* Accounting of samples, for a main loop that is prompt: it collects each *)
(* block before the timer takes a sample of the one after the next, that   *)
(* is MaxLag = 0.  Then the ring never holds more than a block, a block    *)
(* that is taken out of it is all there is, and the index left behind by   *)
(* the task is the one the interrupt writes to.                            *)
(***************************************************************************)
AtMostABlock ==
  /\ Measuring => cfg.pktcnt < BufSize
  /\ pc # "start" /\ cfg.pktcnt > 0 => taken <= pos + cfg.pktcnt

AllInRing ==
  pc \notin {"copy", "send"} =>
    /\ taken = pos + Pending(i2c_buf_rd, i2c_buf_wr)
    /\ pos = accounted

BlockUnderWay ==
  pc \in {"copy", "send"} =>
    /\ taken = pos + Pending(task.rd, i2c_buf_wr)
    /\ pos = accounted + Len(i2c_blk.data) + task.size
    /\ cfg.pktcnt > 0

BlockDone ==
  pc = "send" => task.size = 0 /\ i2c_buf_rd = task.rd

AccountInv ==
  GateInv /\ AtMostABlock /\ AllInRing /\ BlockUnderWay /\ BlockDone

\* Outside I2CDevTask, a step that leaves the ring alone leaves its accounts.
LEMMA AccountKept ==
  ASSUME AccountInv, GateInv', AtMostABlock',
         UNCHANGED <<i2c_buf_rd, i2c_buf_wr, taken, pos, accounted>>,
         pc \notin {"copy", "send"}, pc' \notin {"copy", "send"}
  PROVE  AccountInv'
BY DEF AccountInv, AllInRing, BlockUnderWay, BlockDone

\* After a flush the accounts start from zero.
LEMMA AccountFlushed ==
  ASSUME I2CDevFlushBuf, GateInv', AtMostABlock', pc' \notin {"copy", "send"}
  PROVE  AccountInv'
BY BufSizeAssumption
DEF AccountInv, AllInRing, BlockUnderWay, BlockDone, I2CDevFlushBuf, Pending

LEMMA AccountInit == Init => AccountInv
BY BufSizeAssumption, ConfigsAssumption
DEF Init, AccountInv, GateInv, AtMostABlock, Measuring, AllInRing,
    BlockUnderWay, BlockDone, Pending, Config

LEMMA AccountTick ==
  ASSUME MaxLag = 0, TypeOK, AccountInv, GateInv', TMR1_IRQHandler
  PROVE  AccountInv'
<1> DEFINE prd == IF pc \in {"copy", "send"} THEN task.rd ELSE i2c_buf_rd
<1>1. prd \in Slot /\ i2c_buf_wr \in Slot
  BY DEF TypeOK
<1>2. cfg.pktcnt \in Nat /\ taken \in Nat /\ pos \in Nat
  BY DEF TypeOK, Config
<1>3. taken = pos + Pending(prd, i2c_buf_wr)
  BY DEF AccountInv, AllInRing, BlockUnderWay
<1>4. timer_flg /\ taken < pos + cfg.pktcnt /\ cfg.pktcnt < BufSize
  BY <1>2 DEF TMR1_IRQHandler, Timely, AccountInv, AtMostABlock, Measuring
<1>5. Pending(prd, i2c_buf_wr) < BufSize - 1
  BY <1>1, <1>2, <1>3, <1>4, PendingBounds, BufSizeAssumption
<1>6. Pending(prd, Succ(i2c_buf_wr)) = Pending(prd, i2c_buf_wr) + 1
  BY <1>1, <1>5, PendingSucc
<1>7. /\ taken' = taken + 1
      /\ i2c_buf_wr' = Succ(i2c_buf_wr)
      /\ UNCHANGED <<cfg, timer_flg, i2c_buf_rd, pc, tmp, task, i2c_blk, pos,
                     accounted>>
  BY DEF TMR1_IRQHandler
<1>8. Pending(prd, i2c_buf_wr) \in Nat
  BY <1>1, PendingBounds
<1>9. taken' = pos' + Pending(prd, i2c_buf_wr')
  BY <1>2, <1>3, <1>6, <1>7, <1>8
<1>10. AtMostABlock'
  BY <1>2, <1>4, <1>7 DEF AccountInv, AtMostABlock, Measuring
<1>11. AllInRing'
  BY <1>7, <1>9 DEF AccountInv, AllInRing, Pending
<1>12. BlockUnderWay'
  BY <1>7, <1>9 DEF AccountInv, BlockUnderWay, Pending
<1>13. BlockDone'
  BY <1>7 DEF AccountInv, BlockDone
<1> QED
  BY <1>10, <1>11, <1>12, <1>13 DEF AccountInv

LEMMA AccountCommand ==
  ASSUME TypeOK, AccountInv, GateInv',
         \/ \E c \in Configs : CmdCfg(c)
         \/ CmdEcadOn \/ CmdQuiet \/ CmdPwrOff \/ CmdReg \/ CmdUtr \/ BusDone
         \/ \E wide \in BOOLEAN : CmdFrd(wide)
         \/ NoCmd
  PROVE  AccountInv'
<1> USE DEF AtMostABlock, Measuring
<1>1. ASSUME NEW c \in Configs, CmdCfg(c) PROVE AccountInv'
  BY <1>1, AccountKept DEF CmdCfg, ring
<1>2. ASSUME CmdEcadOn \/ CmdQuiet PROVE AccountInv'
  BY <1>2, AccountKept DEF CmdEcadOn, CmdQuiet, ring
<1>3. ASSUME CmdPwrOff PROVE AccountInv'
  <2>1. AtMostABlock'
    BY <1>3 DEF CmdPwrOff, Off
  <2>2. CASE UNCHANGED ring
    BY <1>3, <2>1, <2>2, AccountKept DEF CmdPwrOff, ring
  <2>3. CASE I2CDevFlushBuf
    BY <1>3, <2>1, <2>3, AccountFlushed DEF CmdPwrOff
  <2> QED
    BY <1>3, <2>2, <2>3 DEF CmdPwrOff
<1>4. ASSUME CmdReg \/ CmdUtr \/ BusDone PROVE AccountInv'
  <2>1. UNCHANGED <<cfg, ring>>
    BY <1>4 DEF CmdReg, CmdUtr, BusDone
  <2>2. AtMostABlock'
    BY <1>4, <2>1 DEF CmdReg, CmdUtr, BusDone, AccountInv, ring
  <2> QED
    BY <1>4, <2>1, <2>2, AccountKept DEF CmdReg, CmdUtr, BusDone, ring
<1>5. ASSUME NEW wide \in BOOLEAN, CmdFrd(wide) PROVE AccountInv'
  BY <1>5, AccountKept DEF CmdFrd, ring, AccountInv
<1>6. ASSUME NoCmd PROVE AccountInv'
  BY <1>6, AccountKept DEF NoCmd, ring, AccountInv
<1> QED
  BY <1>1, <1>2, <1>3, <1>4, <1>5, <1>6

LEMMA AccountStart ==
  ASSUME TypeOK, AccountInv, GateInv', StartRefused \/ Start
  PROVE  AccountInv'
<1>1. CASE StartRefused
  <2>1. AtMostABlock'
    BY <1>1 DEF StartRefused, Off, AtMostABlock, Measuring
  <2> QED
    BY <1>1, <2>1, AccountKept DEF StartRefused, ring
<1>2. CASE Start
  <2> DEFINE n == Clamp(cfg.pktcnt)
  <2>1. n \in Nat /\ n < BufSize
    BY ClampBounds DEF TypeOK, Config
  <2>2. cfg'.pktcnt \in {0, n}
    BY <1>2 DEF Start, TypeOK, Config
  <2>3. taken' = 0 /\ pos' = 0
    BY <1>2 DEF Start, I2CDevFlushBuf
  <2>4. AtMostABlock'
    BY <2>1, <2>2, <2>3, BufSizeAssumption DEF AtMostABlock
  <2> QED
    BY <1>2, <2>4, AccountFlushed DEF Start
<1> QED
  BY <1>1, <1>2

\* The block collected is all the ring holds, so that nothing is stepped over.
LEMMA AccountCollect ==
  ASSUME TypeOK, AccountInv, GateInv', TaskCollect
  PROVE  AccountInv'
<1> DEFINE prd == i2c_buf_rd
           pwr == i2c_buf_wr
           n == cfg.pktcnt
<1>1. prd \in Slot /\ pwr \in Slot /\ n \in Nat
  BY DEF TypeOK, Config
<1>2. taken \in Nat /\ pos \in Nat /\ accounted \in Nat
  BY DEF TypeOK
<1>3. pc = "task" /\ BlockPending
  BY DEF TaskCollect
<1>4. taken = pos + Pending(prd, pwr) /\ pos = accounted
  BY <1>3 DEF AccountInv, AllInRing
<1>5. n > 0 /\ taken <= pos + n /\ Pending(prd, pwr) >= n
  BY <1>3 DEF AccountInv, AtMostABlock, BlockPending
<1>6. Pending(prd, pwr) = n
  BY <1>1, <1>2, <1>4, <1>5, PendingBounds
<1>7. NewRd(prd, pwr) = pwr
  BY <1>1, <1>6, NewRdExact
<1>8. Pending(pwr, pwr) = 0
  BY <1>1, PendingBounds
<1>9. /\ task' = [i |-> prd, size |-> n, rd |-> pwr]
      /\ pos' = pos + n
      /\ i2c_blk' = [wide |-> rd24, data |-> <<>>]
      /\ pc' = "copy"
      /\ UNCHANGED <<cfg, timer_flg, tmp, i2c_buf_wr, taken, accounted>>
  BY <1>6, <1>7 DEF TaskCollect
<1>10. AtMostABlock'
  BY <1>1, <1>2, <1>3, <1>5, <1>9 DEF AccountInv, AtMostABlock, Measuring
<1>11. BlockUnderWay'
  <2>1. task'.rd = pwr /\ task'.size = n /\ Len(i2c_blk'.data) = 0
    BY <1>9
  <2>2. Pending(task'.rd, i2c_buf_wr') = 0
    BY <1>8, <1>9, <2>1
  <2>3. taken' = pos' + 0
    BY <1>1, <1>2, <1>4, <1>6, <1>9
  <2>4. pos' = accounted' + 0 + n
    BY <1>1, <1>2, <1>4, <1>9
  <2>5. taken' = pos' + Pending(task.rd, i2c_buf_wr)'
    BY <2>2, <2>3 DEF Pending
  <2>6. pos' = accounted' + Len(i2c_blk'.data) + task'.size
    BY <2>1, <2>4
  <2> QED
    BY <1>5, <1>9, <2>5, <2>6 DEF BlockUnderWay
<1> QED
  BY <1>9, <1>10, <1>11 DEF AccountInv, AllInRing, BlockDone

LEMMA AccountCopy ==
  ASSUME TypeOK, AccountInv, GateInv', TaskCopy
  PROVE  AccountInv'
<1>1. /\ pc = "copy"
      /\ task' = [i |-> Succ(task.i), size |-> task.size - 1, rd |-> task.rd]
      /\ i2c_blk'.data = Append(i2c_blk.data, i2c_buf[task.i])
      /\ UNCHANGED <<cfg, timer_flg, pc, tmp, i2c_buf_wr, taken, pos, accounted>>
  BY DEF TaskCopy, TypeOK, ring
<1>2. Len(i2c_blk'.data) = Len(i2c_blk.data) + 1
  BY <1>1, BlockData
<1>3. task.size \in Nat /\ Len(i2c_blk.data) \in Nat /\ accounted \in Nat
  BY BlockData DEF TypeOK
<1>4. task'.rd = task.rd /\ task'.size = task.size - 1
  BY <1>1
<1>5. pos' = accounted' + Len(i2c_blk'.data) + task'.size
  BY <1>1, <1>2, <1>3, <1>4 DEF AccountInv, BlockUnderWay
<1>6. taken' = pos' + Pending(task.rd, i2c_buf_wr)'
  BY <1>1, <1>4 DEF AccountInv, BlockUnderWay, Pending
<1>7. BlockUnderWay'
  BY <1>1, <1>5, <1>6 DEF AccountInv, BlockUnderWay
<1>8. AtMostABlock'
  BY <1>1 DEF AccountInv, AtMostABlock, Measuring
<1> QED
  BY <1>1, <1>7, <1>8 DEF AccountInv, AllInRing, BlockDone

LEMMA AccountCopied ==
  ASSUME TypeOK, AccountInv, GateInv', TaskCopied
  PROVE  AccountInv'
<1>1. /\ pc = "copy" /\ pc' = "send"
      /\ task.size = 0
      /\ i2c_buf_rd' = task.rd
      /\ UNCHANGED <<cfg, timer_flg, tmp, i2c_buf_wr, task, i2c_blk, taken, pos,
                     accounted>>
  BY DEF TaskCopied, history
<1>2. AtMostABlock'
  BY <1>1 DEF AccountInv, AtMostABlock, Measuring
<1>3. BlockUnderWay'
  BY <1>1 DEF AccountInv, BlockUnderWay, Pending
<1> QED
  BY <1>1, <1>2, <1>3 DEF AccountInv, AllInRing, BlockDone

LEMMA AccountSent ==
  ASSUME TypeOK, AccountInv, GateInv', TaskSent
  PROVE  AccountInv'
<1>1. /\ pc = "send" /\ pc' = "cmd"
      /\ accounted' = accounted + Len(i2c_blk.data)
      /\ UNCHANGED <<cfg, timer_flg, tmp, i2c_buf_wr, i2c_buf_rd, taken, pos>>
  BY DEF TaskSent
<1>2. task.size = 0 /\ i2c_buf_rd = task.rd
  BY <1>1 DEF AccountInv, BlockDone
<1>3. Len(i2c_blk.data) \in Nat /\ accounted \in Nat
  BY BlockData DEF TypeOK
<1>4. pos' = accounted'
  BY <1>1, <1>2, <1>3 DEF AccountInv, BlockUnderWay
<1>5. AllInRing'
  BY <1>1, <1>2, <1>4 DEF AccountInv, BlockUnderWay, AllInRing, Pending
<1>6. AtMostABlock'
  BY <1>1 DEF AccountInv, AtMostABlock, Measuring
<1> QED
  BY <1>1, <1>5, <1>6 DEF AccountInv, BlockUnderWay, BlockDone

LEMMA AccountStep ==
  ASSUME MaxLag = 0, TypeOK, AccountInv, [Next]_vars
  PROVE  AccountInv'
<1>1. GateInv'
  BY GateStep DEF AccountInv
<1>2. CASE TMR1_IRQHandler
  BY <1>1, <1>2, AccountTick
<1>3. CASE StartRefused \/ Start
  BY <1>1, <1>3, AccountStart
<1>4. CASE TaskReturn
  <2>1. AtMostABlock'
    BY <1>4 DEF TaskReturn, AccountInv, AtMostABlock, Measuring, ring
  <2> QED
    BY <1>1, <1>4, <2>1, AccountKept DEF TaskReturn, ring
<1>5. CASE TaskCollect
  BY <1>1, <1>5, AccountCollect
<1>6. CASE TaskCopy
  BY <1>1, <1>6, AccountCopy
<1>7. CASE TaskCopied
  BY <1>1, <1>7, AccountCopied
<1>8. CASE TaskSent
  BY <1>1, <1>8, AccountSent
<1>9. CASE UNCHANGED vars
  BY <1>1, <1>9
  DEF vars, code, history, AccountInv, AtMostABlock, Measuring, AllInRing,
      BlockUnderWay, BlockDone, Pending
<1> QED
  BY <1>1, <1>2, <1>3, <1>4, <1>5, <1>6, <1>7, <1>8, <1>9, AccountCommand
  DEF Next, MainLoop

(***************************************************************************)
(* If the main loop is prompt, every sample taken is in the ring or in a   *)
(* block that was counted, for every ring and block size.                  *)
(***************************************************************************)
THEOREM PromptLosesNothing ==
  ASSUME MaxLag = 0
  PROVE  Spec => []NoSilentLoss
<1>1. Init => AccountInv
  BY AccountInit
<1>2. TypeOK /\ AccountInv /\ [Next]_vars => AccountInv'
  BY AccountStep
<1>3. TypeOK /\ AccountInv => NoSilentLoss
  BY DEF AccountInv, AllInRing, NoSilentLoss
<1> QED
  BY <1>1, <1>2, <1>3, TypeCorrect, PTL DEF Spec

-----------------------------------------------------------------------------
(***************************************************************************)
(* Room for the block.  I2CDevStart bounds cfg_i2c.pktcnt for the format   *)
(* it finds; the bound is good for as long as the format is, that is if    *)
(* the host does not send CMD_DEV_FRD while it measures.  That no block is *)
(* collected once the gate is closed for good needs the third conjunct.    *)
(***************************************************************************)
Room == IF rd24 THEN MaxPkt24 ELSE MaxPkt16

FormatInv ==
  /\ Measuring => cfg.pktcnt <= Room
  /\ pc = "bus" /\ timer_flg => tmp
  /\ pc # "start" /\ cfg.pktcnt > 0 /\ i2c_buf_wr # i2c_buf_rd => Measuring
  /\ pc \in {"copy", "send"} =>
       /\ timer_flg
       /\ Len(i2c_blk.data) + task.size = cfg.pktcnt
       /\ i2c_blk.wide = rd24

LEMMA FormatCommand ==
  ASSUME FrdLive = FALSE, TypeOK, FormatInv,
         \/ \E c \in Configs : CmdCfg(c)
         \/ CmdEcadOn \/ CmdQuiet \/ CmdPwrOff \/ CmdReg \/ CmdUtr \/ BusDone
         \/ \E wide \in BOOLEAN : CmdFrd(wide)
         \/ NoCmd
  PROVE  FormatInv'
<1> USE DEF FormatInv, Measuring, Room
<1>1. ASSUME NEW c \in Configs, CmdCfg(c) PROVE FormatInv'
  BY <1>1 DEF CmdCfg
<1>2. ASSUME CmdEcadOn \/ CmdQuiet PROVE FormatInv'
  BY <1>2 DEF CmdEcadOn, CmdQuiet
<1>3. ASSUME CmdPwrOff PROVE FormatInv'
  BY <1>3 DEF CmdPwrOff, Off, TypeOK, Config
<1>4. ASSUME CmdReg \/ CmdUtr \/ BusDone \/ NoCmd PROVE FormatInv'
  <2>1. CASE CmdReg
    BY <2>1 DEF CmdReg, ring
  <2>2. CASE CmdUtr
    BY <2>2 DEF CmdUtr, ring
  <2>3. CASE BusDone
    BY <2>3 DEF BusDone, ring
  <2>4. CASE NoCmd
    BY <2>4 DEF NoCmd, ring
  <2> QED
    BY <1>4, <2>1, <2>2, <2>3, <2>4
<1>5. ASSUME NEW wide \in BOOLEAN, CmdFrd(wide) PROVE FormatInv'
  BY <1>5 DEF CmdFrd, ring
<1> QED
  BY <1>1, <1>2, <1>3, <1>4, <1>5

LEMMA FormatStart ==
  ASSUME TypeOK, FormatInv, GateInv, StartRefused \/ Start
  PROVE  FormatInv'
<1> USE DEF FormatInv, Measuring, Room
<1>1. CASE StartRefused
  BY <1>1 DEF StartRefused, Off, TypeOK, Config
<1>2. CASE Start
  <2> DEFINE n == Clamp(cfg.pktcnt)
  <2>1. n \in Nat /\ n <= Room
    BY ClampBounds DEF TypeOK, Config
  <2>2. PICK initOk \in BOOLEAN :
          /\ cfg' = [cfg EXCEPT !.pktcnt = IF initOk THEN n ELSE 0]
          /\ timer_flg' = (initOk /\ n > 0 /\ cfg.regs > 0)
    BY <1>2 DEF Start
  <2>3. cfg'.pktcnt = IF initOk THEN n ELSE 0
    BY <2>2 DEF TypeOK, Config
  <2>4. /\ pc' = "task"
        /\ i2c_buf_wr' = 0 /\ i2c_buf_rd' = 0
        /\ rd24' = rd24
    BY <1>2 DEF Start, I2CDevFlushBuf
  <2>5. timer_flg' => initOk
    BY <2>2
  <2> HIDE DEF n
  <2> QED
    BY <2>1, <2>3, <2>4, <2>5
<1> QED
  BY <1>1, <1>2

LEMMA FormatTask ==
  ASSUME TypeOK, FormatInv,
         TaskReturn \/ TaskCollect \/ TaskCopy \/ TaskCopied \/ TaskSent
  PROVE  FormatInv'
<1> USE DEF FormatInv, Measuring, Room
<1>1. CASE TaskReturn
  BY <1>1 DEF TaskReturn, ring
<1>2. CASE TaskCollect
  <2>1. /\ task'.size = cfg.pktcnt
        /\ i2c_blk'.wide = rd24
        /\ Len(i2c_blk'.data) = 0
    BY <1>2 DEF TaskCollect
  <2>2. cfg.pktcnt \in Nat
    BY DEF TypeOK, Config
  <2> QED
    BY <1>2, <2>1, <2>2 DEF TaskCollect, BlockPending
<1>3. CASE TaskCopy
  <2>1. /\ task'.size = task.size - 1
        /\ i2c_blk'.wide = i2c_blk.wide
        /\ i2c_blk'.data = Append(i2c_blk.data, i2c_buf[task.i])
    BY <1>3 DEF TaskCopy, TypeOK
  <2>2. Len(i2c_blk'.data) = Len(i2c_blk.data) + 1
    BY <2>1, BlockData
  <2>3. task.size \in Nat /\ Len(i2c_blk.data) \in Nat
    BY BlockData DEF TypeOK
  <2>4. Len(i2c_blk'.data) + task'.size = Len(i2c_blk.data) + task.size
    BY <2>1, <2>2, <2>3
  <2> QED
    BY <1>3, <2>1, <2>4 DEF TaskCopy, ring
<1>4. CASE TaskCopied
  BY <1>4 DEF TaskCopied
<1>5. CASE TaskSent
  BY <1>5 DEF TaskSent
<1> QED
  BY <1>1, <1>2, <1>3, <1>4, <1>5

LEMMA FormatStep ==
  ASSUME FrdLive = FALSE, TypeOK, GateInv, FormatInv, [Next]_vars
  PROVE  FormatInv'
<1>1. CASE TMR1_IRQHandler
  BY <1>1 DEF TMR1_IRQHandler, FormatInv, Measuring, Room
<1>2. CASE UNCHANGED vars
  BY <1>2 DEF vars, code, FormatInv, Measuring, Room
<1> QED
  BY <1>1, <1>2, FormatCommand, FormatStart, FormatTask DEF Next, MainLoop

(***************************************************************************)
(* If the host changes the sample format only while nothing is measured,   *)
(* no block outgrows i2c_blk.data, however far the timer runs ahead.       *)
(***************************************************************************)
THEOREM BlocksFit ==
  ASSUME FrdLive = FALSE
  PROVE  Spec => []BlockFits
<1>1. Init => GateInv /\ FormatInv
  BY DEF Init, GateInv, FormatInv, Measuring
<1>2. TypeOK /\ GateInv /\ FormatInv /\ [Next]_vars => GateInv' /\ FormatInv'
  BY GateStep, FormatStep
<1>3. TypeOK /\ FormatInv => BlockFits
  BY DEF FormatInv, Measuring, Room, BlockFits
<1> QED
  BY <1>1, <1>2, <1>3, TypeCorrect, PTL DEF Spec

-----------------------------------------------------------------------------
(***************************************************************************)
(* What the blocks hold, with the timer as far ahead of the reader as it   *)
(* likes.                                                                  *)
(***************************************************************************)

(***************************************************************************)
(* Where a sample is.  The slot that was written Age(i) ticks ago holds    *)
(* the sample of that tick, whatever the reader does.                      *)
(***************************************************************************)
Age(i) == IF i = i2c_buf_wr THEN BufSize ELSE Pending(i, i2c_buf_wr)

SlotInv ==
  \A i \in Slot : Age(i) <= taken => i2c_buf[i].seq = taken - Age(i)

LEMMA SlotKept ==
  ASSUME SlotInv, UNCHANGED <<i2c_buf, i2c_buf_wr, taken>>
  PROVE  SlotInv'
BY DEF SlotInv, Age, Pending

LEMMA SlotFlushed ==
  ASSUME I2CDevFlushBuf PROVE SlotInv'
BY BufSizeAssumption DEF I2CDevFlushBuf, SlotInv, Age, Pending, Slot

LEMMA SlotTick ==
  ASSUME TypeOK, SlotInv, TMR1_IRQHandler PROVE SlotInv'
<1>1. PICK ok \in {TRUE, ~BusMayFail} :
        i2c_buf' = [i2c_buf EXCEPT ![i2c_buf_wr] = Stored(ok)]
  BY DEF TMR1_IRQHandler
<1>2. Stored(ok).seq = taken
  BY DEF Stored, Stale
<1>3. i2c_buf_wr' = Succ(i2c_buf_wr) /\ taken' = taken + 1
  BY DEF TMR1_IRQHandler
<1>4. i2c_buf_wr \in Slot /\ taken \in Nat /\ i2c_buf \in [Slot -> Sample]
  BY DEF TypeOK
<1> SUFFICES ASSUME NEW i \in Slot, Age(i)' <= taken'
             PROVE  i2c_buf'[i].seq = taken' - Age(i)'
  BY DEF SlotInv
<1>5. CASE i = i2c_buf_wr
  <2>1. Age(i)' = 1
    BY <1>3, <1>4, <1>5, BufSizeAssumption DEF Age, Pending, Succ, Slot
  <2> QED
    BY <1>1, <1>2, <1>3, <1>4, <1>5, <2>1
<1>6. CASE i # i2c_buf_wr
  <2>1. Age(i)' = Age(i) + 1 /\ Age(i) \in Nat
    BY <1>3, <1>4, <1>6, BufSizeAssumption DEF Age, Pending, Succ, Slot
  <2>2. i2c_buf'[i] = i2c_buf[i]
    BY <1>1, <1>4, <1>6
  <2>3. Age(i) <= taken
    BY <1>3, <1>4, <2>1
  <2>4. i2c_buf[i].seq = taken - Age(i)
    BY <2>3 DEF SlotInv
  <2> QED
    BY <1>3, <1>4, <2>1, <2>2, <2>4
<1> QED
  BY <1>5, <1>6

LEMMA SlotStep ==
  ASSUME TypeOK, SlotInv, [Next]_vars PROVE SlotInv'
<1>1. CASE TMR1_IRQHandler
  BY <1>1, SlotTick
<1>2. CASE Start
  BY <1>2, SlotFlushed DEF Start
<1>3. CASE CmdPwrOff
  BY <1>3, SlotFlushed, SlotKept DEF CmdPwrOff, ring, unused
<1>4. CASE \/ \E c \in Configs : CmdCfg(c)
           \/ CmdEcadOn \/ CmdQuiet \/ CmdReg \/ CmdUtr \/ BusDone
           \/ \E wide \in BOOLEAN : CmdFrd(wide)
           \/ NoCmd \/ StartRefused
  BY <1>4, SlotKept DEF CmdCfg, CmdEcadOn, CmdQuiet, CmdReg, CmdUtr, BusDone, CmdFrd,
                        NoCmd, StartRefused, ring, unused
<1>5. CASE TaskReturn \/ TaskCollect \/ TaskCopy \/ TaskCopied \/ TaskSent
  BY <1>5, SlotKept DEF TaskReturn, TaskCollect, TaskCopy, TaskCopied, TaskSent, ring,
                        unused, history
<1>6. CASE UNCHANGED vars
  BY <1>6, SlotKept DEF vars, code, history
<1> QED
  BY <1>1, <1>2, <1>3, <1>4, <1>5, <1>6 DEF Next, MainLoop

-----------------------------------------------------------------------------
(***************************************************************************)
(* Where the reader is.  What no block has claimed is what the indices     *)
(* say, or at least a ring more: whole laps of the timer are missed.       *)
(***************************************************************************)
InBlock == pc \in {"copy", "send"}

Unclaimed == Pending(IF InBlock THEN task.rd ELSE i2c_buf_rd, i2c_buf_wr)

LapsInv ==
  /\ taken = pos + Unclaimed \/ taken >= pos + Unclaimed + BufSize
  /\ pc = "send" => i2c_buf_rd = task.rd

LEMMA LapsKept ==
  ASSUME LapsInv, UNCHANGED <<i2c_buf_wr, i2c_buf_rd, taken, pos>>,
         ~InBlock, ~InBlock'
  PROVE  LapsInv'
BY DEF LapsInv, Unclaimed, Pending, InBlock

LEMMA LapsFlushed ==
  ASSUME I2CDevFlushBuf, ~InBlock' PROVE LapsInv'
BY BufSizeAssumption DEF I2CDevFlushBuf, LapsInv, Unclaimed, Pending, InBlock

LEMMA LapsTick ==
  ASSUME TypeOK, LapsInv, TMR1_IRQHandler PROVE LapsInv'
<1> DEFINE prd == IF InBlock THEN task.rd ELSE i2c_buf_rd
<1>1. /\ i2c_buf_wr' = Succ(i2c_buf_wr) /\ taken' = taken + 1
      /\ UNCHANGED <<i2c_buf_rd, pc, task, pos>>
  BY DEF TMR1_IRQHandler
<1>2. prd \in Slot /\ i2c_buf_wr \in Slot /\ taken \in Nat /\ pos \in Nat
  BY DEF TypeOK
<1>3. \/ Pending(prd, Succ(i2c_buf_wr)) = Pending(prd, i2c_buf_wr) + 1
      \/ /\ Pending(prd, Succ(i2c_buf_wr)) = 0
         /\ Pending(prd, i2c_buf_wr) = BufSize - 1
  BY <1>2, BufSizeAssumption DEF Pending, Succ, Slot
<1>4. /\ Unclaimed = Pending(prd, i2c_buf_wr)
      /\ Unclaimed' = Pending(prd, Succ(i2c_buf_wr))
  BY <1>1 DEF Unclaimed, InBlock, Pending
<1>5. Unclaimed \in Nat /\ BufSize \in Nat
  BY <1>2, <1>4, PendingBounds, BufSizeAssumption
<1>6. taken = pos + Unclaimed \/ taken >= pos + Unclaimed + BufSize
  BY DEF LapsInv
<1> HIDE DEF prd
<1>7. taken' = pos' + Unclaimed' \/ taken' >= pos' + Unclaimed' + BufSize
  BY <1>1, <1>2, <1>3, <1>4, <1>5, <1>6
<1> QED
  BY <1>1, <1>7 DEF LapsInv

\* The index left behind lies between the snapshots, no earlier than the end
\* of the block.
LEMMA NewRdBetween ==
  ASSUME NEW prd \in Slot, NEW pwr \in Slot, cfg.pktcnt \in Nat, cfg.pktcnt > 0,
         Pending(prd, pwr) >= cfg.pktcnt
  PROVE  /\ NewRd(prd, pwr) \in Slot
         /\ cfg.pktcnt <= Pending(prd, NewRd(prd, pwr))
         /\ Pending(prd, pwr) =
              Pending(prd, NewRd(prd, pwr)) + Pending(NewRd(prd, pwr), pwr)
BY BufSizeAssumption DEF NewRd, Pending, Slot

LEMMA LapsCollect ==
  ASSUME TypeOK, LapsInv, TaskCollect PROVE LapsInv'
<1> DEFINE rd == NewRd(i2c_buf_rd, i2c_buf_wr)
<1>1. /\ task'.rd = rd /\ pos' = pos + Pending(i2c_buf_rd, rd)
      /\ pc = "task" /\ pc' = "copy" /\ BlockPending
      /\ UNCHANGED <<i2c_buf_wr, taken>>
  BY DEF TaskCollect
<1>2. i2c_buf_rd \in Slot /\ i2c_buf_wr \in Slot /\ taken \in Nat /\ pos \in Nat
  BY DEF TypeOK
<1>3. /\ rd \in Slot
      /\ Pending(i2c_buf_rd, i2c_buf_wr) = Pending(i2c_buf_rd, rd) + Pending(rd, i2c_buf_wr)
  BY <1>1, <1>2, NewRdBetween DEF TypeOK, Config, BlockPending
<1>4. Unclaimed = Pending(i2c_buf_rd, i2c_buf_wr) /\ Unclaimed' = Pending(rd, i2c_buf_wr)
  BY <1>1 DEF Unclaimed, InBlock, Pending
<1>5. Pending(i2c_buf_rd, rd) \in Nat /\ Pending(rd, i2c_buf_wr) \in Nat
  BY <1>2, <1>3, PendingBounds
<1> HIDE DEF rd
<1>6. taken = pos + Unclaimed \/ taken >= pos + Unclaimed + BufSize
  BY DEF LapsInv
<1>7. taken' = pos' + Unclaimed' \/ taken' >= pos' + Unclaimed' + BufSize
  BY <1>1, <1>2, <1>3, <1>4, <1>5, <1>6, BufSizeAssumption
<1> QED
  BY <1>1, <1>7 DEF LapsInv

LEMMA LapsStep ==
  ASSUME TypeOK, LapsInv, [Next]_vars PROVE LapsInv'
<1>1. CASE TMR1_IRQHandler
  BY <1>1, LapsTick
<1>2. CASE Start
  BY <1>2, LapsFlushed DEF Start, InBlock
<1>3. CASE CmdPwrOff
  BY <1>3, LapsFlushed, LapsKept DEF CmdPwrOff, ring, InBlock
<1>4. CASE \/ \E c \in Configs : CmdCfg(c)
           \/ CmdEcadOn \/ CmdQuiet \/ CmdReg \/ CmdUtr \/ BusDone
           \/ \E wide \in BOOLEAN : CmdFrd(wide)
           \/ NoCmd \/ StartRefused \/ TaskReturn
  BY <1>4, LapsKept DEF CmdCfg, CmdEcadOn, CmdQuiet, CmdReg, CmdUtr, BusDone, CmdFrd,
                        NoCmd, StartRefused, TaskReturn, ring, InBlock
<1>5. CASE TaskCollect
  BY <1>5, LapsCollect
<1>6. CASE TaskCopy
  <2>1. /\ task'.rd = task.rd /\ pc = "copy"
        /\ UNCHANGED <<pc, i2c_buf_wr, i2c_buf_rd, taken, pos>>
    BY <1>6 DEF TaskCopy, TypeOK, ring
  <2> QED
    BY <2>1 DEF LapsInv, Unclaimed, InBlock, Pending
<1>7. CASE TaskCopied
  BY <1>7 DEF TaskCopied, history, LapsInv, Unclaimed, InBlock, Pending
<1>8. CASE TaskSent
  BY <1>8 DEF TaskSent, LapsInv, Unclaimed, InBlock, Pending
<1>9. CASE UNCHANGED vars
  BY <1>9 DEF vars, code, history, LapsInv, Unclaimed, InBlock, Pending
<1> QED
  BY <1>1, <1>2, <1>3, <1>4, <1>5, <1>6, <1>7, <1>8, <1>9 DEF Next, MainLoop

-----------------------------------------------------------------------------
(***************************************************************************)
(* What is in a block.  As long as the first sample of the block is not    *)
(* overwritten, the sample to copy next is the one with the next number:   *)
(* its slot is as old as the number says, because the timer is less than a *)
(* lap ahead.                                                              *)
(***************************************************************************)
BlockInv ==
  InBlock =>
    /\ task.size <= Pending(task.i, task.rd)
    /\ First >= 0
    /\ NotLapped =>
         \A k \in 1 .. Len(i2c_blk.data) : i2c_blk.data[k].seq = First + k - 1

\* From a slot to the writer by way of a slot in between.
LEMMA AgeByWay ==
  ASSUME TypeOK, NEW i \in Slot, NEW r \in Slot, Pending(i, r) > 0,
         Pending(i, r) + Pending(r, i2c_buf_wr) <= BufSize
  PROVE  Age(i) = Pending(i, r) + Pending(r, i2c_buf_wr)
BY BufSizeAssumption DEF TypeOK, Age, Pending, Slot

LEMMA PendingNext ==
  ASSUME NEW i \in Slot, NEW r \in Slot, Pending(i, r) > 0
  PROVE  Pending(Succ(i), r) = Pending(i, r) - 1
BY BufSizeAssumption DEF Pending, Succ, Slot

LEMMA NextToCopy ==
  ASSUME TypeOK, SlotInv, LapsInv, BlockInv, pc = "copy", task.size > 0, NotLapped
  PROVE  i2c_buf[task.i].seq = First + Len(i2c_blk.data)
<1> DEFINE P == Pending(task.i, task.rd)
           n == Len(i2c_blk.data)
<1>1. /\ task.i \in Slot /\ task.rd \in Slot /\ task.size \in Nat
      /\ i2c_buf_wr \in Slot /\ taken \in Nat /\ pos \in Nat
  BY DEF TypeOK
<1>2. n \in Nat
  BY BlockData
<1>3. P \in Nat /\ Unclaimed \in Nat /\ BufSize \in Nat
  BY <1>1, PendingBounds, BufSizeAssumption DEF Unclaimed, InBlock
<1>4. Unclaimed = Pending(task.rd, i2c_buf_wr)
  BY DEF Unclaimed, InBlock
<1>5. task.size <= P /\ First >= 0 /\ First = pos - P - n
  BY DEF BlockInv, InBlock, First
<1>6. taken <= First + BufSize
  BY DEF NotLapped
<1>7. taken = pos + Unclaimed \/ taken >= pos + Unclaimed + BufSize
  BY DEF LapsInv
<1> HIDE DEF P, n
<1>8. P > 0 /\ taken = pos + Unclaimed /\ P + Unclaimed <= BufSize
  BY <1>1, <1>2, <1>3, <1>5, <1>6, <1>7
<1>9. Age(task.i) = P + Unclaimed
  BY <1>1, <1>4, <1>8, AgeByWay DEF P
<1>10. Age(task.i) <= taken
  BY <1>1, <1>2, <1>3, <1>5, <1>8, <1>9
<1>11. i2c_buf[task.i].seq = taken - Age(task.i)
  BY <1>1, <1>10 DEF SlotInv
<1> QED
  BY <1>1, <1>2, <1>3, <1>5, <1>8, <1>9, <1>11 DEF n

LEMMA BlockCopy ==
  ASSUME TypeOK, SlotInv, LapsInv, BlockInv, TaskCopy
  PROVE  BlockInv'
<1> DEFINE P == Pending(task.i, task.rd)
           s == i2c_blk.data
           x == i2c_buf[task.i]
<1>1. /\ pc = "copy" /\ task.size > 0
      /\ task'.i = Succ(task.i) /\ task'.size = task.size - 1 /\ task'.rd = task.rd
      /\ i2c_blk'.data = Append(s, x)
      /\ UNCHANGED <<pc, taken, pos>>
  BY DEF TaskCopy, TypeOK, ring
<1>2. /\ task.i \in Slot /\ task.rd \in Slot /\ task.size \in Nat
      /\ taken \in Nat /\ pos \in Nat /\ s \in Seq(Sample) /\ x \in Sample
  BY DEF TypeOK
<1>3. P \in Nat /\ task.size <= P /\ First >= 0
  BY <1>1, <1>2, PendingBounds DEF BlockInv, InBlock
<1>4. Pending(Succ(task.i), task.rd) = P - 1
  BY <1>1, <1>2, <1>3, PendingNext
<1>5. /\ Len(s) \in Nat /\ Len(Append(s, x)) = Len(s) + 1
      /\ \A k \in 1 .. Len(s) : Append(s, x)[k] = s[k]
      /\ Append(s, x)[Len(s) + 1] = x
  BY <1>2
<1>6. Pending(task.i, task.rd)' = P - 1
  BY <1>1, <1>4 DEF Pending
<1>7. First = pos - P - Len(s) /\ First' = pos - (P - 1) - (Len(s) + 1)
  BY <1>1, <1>5, <1>6 DEF First
<1> HIDE DEF P, s, x
<1>8. First' = First
  BY <1>2, <1>3, <1>5, <1>7
<1>9. ASSUME NotLapped', NEW k \in 1 .. Len(s) + 1
      PROVE  Append(s, x)[k].seq = First + k - 1
  <2>1. NotLapped
    BY <1>1, <1>8, <1>9 DEF NotLapped
  <2>2. CASE k \in 1 .. Len(s)
    <3>1. s[k].seq = First + k - 1
      BY <1>1, <2>1, <2>2 DEF BlockInv, InBlock, s
    <3> QED
      BY <1>5, <2>2, <3>1
  <2>3. CASE k = Len(s) + 1
    <3>1. x.seq = First + Len(s)
      BY <1>1, <2>1, NextToCopy DEF s, x
    <3>2. First \in Int
      BY <1>2, <1>3, <1>5, <1>7
    <3> QED
      BY <1>5, <2>3, <3>1, <3>2
  <2> QED
    BY <1>5, <2>2, <2>3
<1>10. task'.size <= P - 1
  BY <1>1, <1>2, <1>3
<1> QED
  BY <1>1, <1>3, <1>5, <1>6, <1>8, <1>9, <1>10 DEF BlockInv

LEMMA BlockStep ==
  ASSUME TypeOK, SlotInv, LapsInv, BlockInv, [Next]_vars
  PROVE  BlockInv'
<1>1. CASE TMR1_IRQHandler
  <2>1. taken' = taken + 1 /\ UNCHANGED <<pc, pos, task, i2c_blk>>
    BY <1>1 DEF TMR1_IRQHandler
  <2>2. First' = First
    BY <2>1 DEF First, Pending
  <2>3. ASSUME InBlock, NotLapped' PROVE NotLapped
    <3>1. First \in Int
      <4>1. /\ Pending(task.i, task.rd) \in Nat /\ pos \in Nat
            /\ Len(i2c_blk.data) \in Nat
        BY PendingBounds, BlockData DEF TypeOK
      <4> QED
        BY <4>1 DEF First
    <3> QED
      BY <2>1, <2>2, <2>3, <3>1, BufSizeAssumption DEF NotLapped, TypeOK
  <2> QED
    BY <2>1, <2>2, <2>3 DEF BlockInv, InBlock, Pending
<1>2. CASE TaskCollect
  <2> DEFINE rd == NewRd(i2c_buf_rd, i2c_buf_wr)
             P == Pending(i2c_buf_rd, rd)
  <2>1. /\ task' = [i |-> i2c_buf_rd, size |-> cfg.pktcnt, rd |-> rd]
        /\ pos' = pos + P
        /\ i2c_blk'.data = <<>>
        /\ BlockPending
    BY <1>2 DEF TaskCollect
  <2>2. i2c_buf_rd \in Slot /\ i2c_buf_wr \in Slot /\ cfg.pktcnt \in Nat /\ pos \in Nat
    BY DEF TypeOK, Config
  <2>3. rd \in Slot /\ cfg.pktcnt <= P
    BY <2>1, <2>2, NewRdBetween DEF BlockPending
  <2>4. P \in Nat
    BY <2>2, <2>3, PendingBounds
  <2>5. task'.i = i2c_buf_rd /\ task'.rd = rd /\ task'.size = cfg.pktcnt
    BY <2>1
  <2>6. Pending(task.i, task.rd)' = P
    BY <2>5 DEF Pending
  <2>7. Len(i2c_blk'.data) = 0
    BY <2>1
  <2> HIDE DEF P, rd
  <2>8. First' = pos
    BY <2>1, <2>2, <2>4, <2>6, <2>7 DEF First
  <2> QED
    BY <2>2, <2>3, <2>5, <2>6, <2>7, <2>8 DEF BlockInv
<1>3. CASE TaskCopy
  BY <1>3, BlockCopy
<1>4. CASE TaskCopied
  BY <1>4 DEF TaskCopied, history, BlockInv, InBlock, First, NotLapped, Pending
<1>5. CASE UNCHANGED vars
  BY <1>5 DEF vars, code, history, BlockInv, InBlock, First, NotLapped, Pending
<1>6. CASE \/ \E c \in Configs : CmdCfg(c)
           \/ CmdEcadOn \/ CmdQuiet \/ CmdPwrOff \/ CmdReg \/ CmdUtr \/ BusDone
           \/ \E wide \in BOOLEAN : CmdFrd(wide)
           \/ NoCmd \/ StartRefused \/ Start \/ TaskReturn \/ TaskSent
  <2>1. pc' \notin {"copy", "send"}
    BY <1>6 DEF CmdCfg, CmdEcadOn, CmdQuiet, CmdPwrOff, CmdReg, CmdUtr, BusDone, CmdFrd,
                NoCmd, StartRefused, Start, TaskReturn, TaskSent
  <2> QED
    BY <2>1 DEF BlockInv, InBlock
<1> QED
  BY <1>1, <1>2, <1>3, <1>4, <1>5, <1>6 DEF Next, MainLoop

NumberInv == SlotInv /\ LapsInv /\ BlockInv

LEMMA NumberInit == Init => NumberInv
<1> SUFFICES ASSUME Init PROVE NumberInv
  OBVIOUS
<1>1. SlotInv
  BY BufSizeAssumption DEF Init, SlotInv, Age, Pending, Slot
<1>2. LapsInv /\ BlockInv
  BY BufSizeAssumption DEF Init, LapsInv, Unclaimed, InBlock, Pending, BlockInv
<1> QED
  BY <1>1, <1>2 DEF NumberInv

LEMMA NumberStep == TypeOK /\ NumberInv /\ [Next]_vars => NumberInv'
BY SlotStep, LapsStep, BlockStep DEF NumberInv

(***************************************************************************)
(* A block holds consecutive samples unless its first one has been         *)
(* overwritten, with no assumption on the lag, the format or the bus.      *)
(***************************************************************************)
THEOREM BlocksAreConsecutive == Spec => []BlockConsecutive
<1>1. TypeOK /\ NumberInv => BlockConsecutive
  <2> SUFFICES ASSUME TypeOK, NumberInv, pc = "send", NotLapped,
                      NEW j \in 1 .. Len(i2c_blk.data), NEW k \in 1 .. Len(i2c_blk.data)
               PROVE  i2c_blk.data[k].seq + j = i2c_blk.data[j].seq + k
    BY DEF BlockConsecutive
  <2>1. i2c_blk.data[j].seq = First + j - 1 /\ i2c_blk.data[k].seq = First + k - 1
    BY DEF NumberInv, BlockInv, InBlock
  <2>2. Len(i2c_blk.data) \in Nat /\ Pending(task.i, task.rd) \in Nat /\ pos \in Nat
    BY PendingBounds, BlockData DEF TypeOK
  <2>3. First \in Int
    BY <2>2 DEF First
  <2> QED
    BY <2>1, <2>2, <2>3
<1> QED
  BY <1>1, NumberInit, NumberStep, TypeCorrect, PTL DEF Spec

-----------------------------------------------------------------------------
(***************************************************************************)
(* What the reader may read.  It collects while the gate is open only, and *)
(* since the set-up the interrupt has written the slots below taken, or    *)
(* every slot: the reader never leaves them.                               *)
(***************************************************************************)
OpenInv ==
  /\ pc = "bus" /\ timer_flg => tmp
  /\ pc # "start" /\ cfg.pktcnt > 0 /\ i2c_buf_wr # i2c_buf_rd => Measuring
  /\ InBlock => timer_flg /\ Len(i2c_blk.data) + task.size = cfg.pktcnt

RegionInv ==
  Measuring /\ taken < BufSize =>
    /\ i2c_buf_wr = taken
    /\ i2c_buf_rd <= taken
    /\ InBlock => task.rd <= taken /\ task.i + task.size <= taken

ReadInv == OpenInv /\ RegionInv

\* A step outside I2CDevTask that leaves the ring and the gate alone.
LEMMA ReadKept ==
  ASSUME ReadInv, UNCHANGED <<cfg, i2c_buf_wr, i2c_buf_rd, taken>>,
         Measuring' = Measuring, ~InBlock', pc' # "start", pc # "start",
         pc' = "bus" /\ timer_flg' => tmp'
  PROVE  ReadInv'
BY DEF ReadInv, OpenInv, RegionInv

\* When nothing is to be measured, nothing is.
LEMMA ReadOff ==
  ASSUME ~Measuring', ~InBlock', pc' = "start" \/ cfg'.pktcnt = 0,
         pc' = "bus" /\ timer_flg' => tmp'
  PROVE  ReadInv'
BY DEF ReadInv, OpenInv, RegionInv

LEMMA ReadCommand ==
  ASSUME TypeOK, ReadInv,
         \/ \E c \in Configs : CmdCfg(c)
         \/ CmdEcadOn \/ CmdQuiet \/ CmdPwrOff \/ CmdReg \/ CmdUtr \/ BusDone
         \/ \E wide \in BOOLEAN : CmdFrd(wide)
         \/ NoCmd \/ TaskReturn \/ StartRefused \/ Start
  PROVE  ReadInv'
<1> USE DEF Measuring, InBlock
<1>1. ASSUME NEW c \in Configs, CmdCfg(c) PROVE ReadInv'
  BY <1>1, ReadOff DEF CmdCfg
<1>2. CASE CmdEcadOn \/ CmdQuiet
  BY <1>2, ReadOff DEF CmdEcadOn, CmdQuiet
<1>3. CASE CmdPwrOff \/ StartRefused
  <2>1. Off(cfg).pktcnt = 0
    BY DEF Off, TypeOK, Config
  <2> QED
    BY <1>3, <2>1, ReadOff DEF CmdPwrOff, StartRefused
<1>4. CASE CmdReg
  BY <1>4, ReadKept DEF CmdReg, ring
<1>5. CASE CmdUtr
  BY <1>5, ReadKept DEF CmdUtr, ring
<1>6. CASE BusDone
  BY <1>6, ReadKept DEF BusDone, ring, ReadInv, OpenInv
<1>7. CASE NoCmd \/ TaskReturn
  BY <1>7, ReadKept DEF NoCmd, TaskReturn, ring
<1>8. ASSUME NEW wide \in BOOLEAN, CmdFrd(wide) PROVE ReadInv'
  BY <1>8, ReadKept DEF CmdFrd, ring
<1>9. CASE Start
  <2>1. pc' = "task" /\ taken' = 0 /\ i2c_buf_wr' = 0 /\ i2c_buf_rd' = 0
    BY <1>9 DEF Start, I2CDevFlushBuf
  <2> QED
    BY <2>1 DEF ReadInv, OpenInv, RegionInv
<1> QED
  BY <1>1, <1>2, <1>3, <1>4, <1>5, <1>6, <1>7, <1>8, <1>9

LEMMA ReadCollect ==
  ASSUME TypeOK, ReadInv, TaskCollect PROVE ReadInv'
<1> DEFINE n == cfg.pktcnt
           rd == NewRd(i2c_buf_rd, i2c_buf_wr)
<1>1. /\ pc = "task" /\ pc' = "copy" /\ BlockPending
      /\ task' = [i |-> i2c_buf_rd, size |-> n, rd |-> rd]
      /\ i2c_blk' = [wide |-> rd24, data |-> <<>>]
      /\ UNCHANGED <<cfg, timer_flg, tmp, i2c_buf_wr, i2c_buf_rd, taken>>
  BY DEF TaskCollect
<1>2. i2c_buf_wr \in Slot /\ i2c_buf_rd \in Slot /\ taken \in Nat /\ n \in Nat
  BY DEF TypeOK, Config
<1>3. Measuring /\ timer_flg
  BY <1>1 DEF ReadInv, OpenInv, BlockPending, Measuring
<1>4. task'.i = i2c_buf_rd /\ task'.size = n /\ task'.rd = rd /\ Len(i2c_blk'.data) = 0
  BY <1>1
<1>5. ASSUME taken < BufSize
      PROVE  i2c_buf_wr = taken /\ i2c_buf_rd <= taken /\ rd <= taken /\ i2c_buf_rd + n <= taken
  <2>1. i2c_buf_wr = taken /\ i2c_buf_rd <= taken
    BY <1>3, <1>5 DEF ReadInv, RegionInv
  <2>2. Pending(i2c_buf_rd, i2c_buf_wr) >= n
    BY <1>1 DEF BlockPending
  <2> QED
    BY <1>2, <2>1, <2>2, BufSizeAssumption DEF NewRd, Pending, Slot
<1> HIDE DEF rd
<1>6. OpenInv'
  BY <1>1, <1>2, <1>3, <1>4 DEF OpenInv, Measuring, InBlock
<1>7. RegionInv'
  BY <1>1, <1>4, <1>5 DEF RegionInv
<1> QED
  BY <1>6, <1>7 DEF ReadInv

LEMMA ReadCopy ==
  ASSUME TypeOK, ReadInv, TaskCopy PROVE ReadInv'
<1> DEFINE s == i2c_blk.data
           x == i2c_buf[task.i]
<1>1. /\ pc = "copy" /\ task.size > 0
      /\ task'.i = Succ(task.i) /\ task'.size = task.size - 1 /\ task'.rd = task.rd
      /\ i2c_blk'.data = Append(s, x)
      /\ UNCHANGED <<cfg, timer_flg, tmp, pc, i2c_buf_wr, i2c_buf_rd, taken>>
  BY DEF TaskCopy, TypeOK, ring
<1>2. /\ task.i \in Slot /\ task.size \in Nat /\ taken \in Nat
      /\ s \in Seq(Sample) /\ x \in Sample
  BY DEF TypeOK
<1>3. Len(Append(s, x)) = Len(s) + 1 /\ Len(s) \in Nat
  BY <1>2
<1>4. Len(s) + task.size = cfg.pktcnt
  BY <1>1 DEF ReadInv, OpenInv, InBlock
<1> HIDE DEF s, x
<1>5. Len(i2c_blk'.data) + task'.size = cfg'.pktcnt
  <2>1. Len(i2c_blk'.data) = Len(s) + 1
    BY <1>1, <1>3
  <2>2. task'.size = task.size - 1 /\ cfg'.pktcnt = cfg.pktcnt
    BY <1>1
  <2>3. task.size \in Nat /\ Len(s) \in Nat
    BY <1>2, <1>3
  <2> QED
    BY <1>4, <2>1, <2>2, <2>3
<1>6. OpenInv'
  BY <1>1, <1>5 DEF ReadInv, OpenInv, Measuring, InBlock
<1>7. Measuring' = Measuring /\ InBlock' = InBlock
  BY <1>1 DEF Measuring, InBlock
<1>8. ASSUME taken < BufSize, task.i + task.size <= taken
      PROVE  Succ(task.i) + (task.size - 1) <= taken
  BY <1>1, <1>2, <1>8, BufSizeAssumption DEF Succ, Slot
<1>9. RegionInv'
  BY <1>1, <1>7, <1>8 DEF ReadInv, RegionInv
<1> QED
  BY <1>6, <1>9 DEF ReadInv

LEMMA ReadStep == TypeOK /\ ReadInv /\ [Next]_vars => ReadInv'
<1> SUFFICES ASSUME TypeOK, ReadInv, [Next]_vars PROVE ReadInv'
  OBVIOUS
<1>1. CASE TMR1_IRQHandler
  <2>1. /\ i2c_buf_wr' = Succ(i2c_buf_wr) /\ taken' = taken + 1 /\ timer_flg
        /\ UNCHANGED <<cfg, timer_flg, i2c_buf_rd, pc, tmp, task, i2c_blk>>
    BY <1>1 DEF TMR1_IRQHandler
  <2>2. /\ i2c_buf_wr \in Slot /\ i2c_buf_rd \in Slot /\ taken \in Nat
        /\ task.i \in Slot /\ task.rd \in Slot /\ task.size \in Nat
    BY DEF TypeOK
  <2>3. OpenInv'
    BY <2>1 DEF ReadInv, OpenInv, Measuring, InBlock
  <2>4. Measuring' /\ Measuring /\ InBlock' = InBlock
    BY <2>1 DEF Measuring, InBlock
  <2>5. ASSUME taken + 1 < BufSize, i2c_buf_wr = taken PROVE Succ(i2c_buf_wr) = taken + 1
    BY <2>2, <2>5 DEF Succ
  <2>6. RegionInv'
    <3> SUFFICES ASSUME taken + 1 < BufSize
                 PROVE  /\ i2c_buf_wr' = taken' /\ i2c_buf_rd' <= taken'
                        /\ InBlock' => task'.rd <= taken' /\ task'.i + task'.size <= taken'
      BY <2>1 DEF RegionInv
    <3>1. /\ i2c_buf_wr = taken /\ i2c_buf_rd <= taken
          /\ InBlock => task.rd <= taken /\ task.i + task.size <= taken
      BY <2>2, <2>4, BufSizeAssumption DEF ReadInv, RegionInv
    <3> QED
      BY <2>1, <2>2, <2>4, <2>5, <3>1, BufSizeAssumption DEF Slot
  <2> QED
    BY <2>3, <2>6 DEF ReadInv
<1>2. CASE TaskCollect
  BY <1>2, ReadCollect
<1>3. CASE TaskCopy
  BY <1>3, ReadCopy
<1>4. CASE TaskCopied
  BY <1>4 DEF TaskCopied, history, ReadInv, OpenInv, RegionInv, Measuring, InBlock
<1>5. CASE TaskSent
  BY <1>5 DEF TaskSent, ReadInv, OpenInv, RegionInv, Measuring, InBlock
<1>6. CASE UNCHANGED vars
  BY <1>6 DEF vars, code, history, ReadInv, OpenInv, RegionInv, Measuring, InBlock
<1> QED
  BY <1>1, <1>2, <1>3, <1>4, <1>5, <1>6, ReadCommand DEF Next, MainLoop

LEMMA ReadInit == Init => ReadInv
BY DEF Init, ReadInv, OpenInv, RegionInv, Measuring, InBlock

\* The slot copied next was written since the set-up.
LEMMA CopiesWritten ==
  ASSUME TypeOK, ReadInv, TaskCopy
  PROVE  Measuring /\ task.i \in Slot /\ task.i < taken
<1>1. /\ pc = "copy" /\ task.size > 0 /\ task.i \in Slot /\ task.size \in Nat
      /\ taken \in Nat
  BY DEF TaskCopy, TypeOK
<1>2. Measuring
  BY <1>1 DEF ReadInv, OpenInv, Measuring, InBlock
<1> QED
  BY <1>1, <1>2, BufSizeAssumption DEF ReadInv, RegionInv, InBlock, Slot

-----------------------------------------------------------------------------
(***************************************************************************)
(* Whose the samples are: what the interrupt has written since the set-up  *)
(* is of this measurement and in this format.                              *)
(***************************************************************************)
Fresh(s) == s.good => s.run = run /\ s.wide = rd24

FreshInv ==
  Measuring =>
    /\ \A i \in Slot : i < taken => Fresh(i2c_buf[i])
    /\ InBlock => \A k \in 1 .. Len(i2c_blk.data) : Fresh(i2c_blk.data[k])

LEMMA FreshKept ==
  ASSUME FreshInv, Measuring' => Measuring, InBlock' => InBlock /\ i2c_blk' = i2c_blk,
         UNCHANGED <<rd24, i2c_buf, run, taken>>
  PROVE  FreshInv'
BY DEF FreshInv, Fresh

LEMMA FreshTick ==
  ASSUME TypeOK, ReadInv, FreshInv, TMR1_IRQHandler PROVE FreshInv'
<1>1. PICK ok \in {TRUE, ~BusMayFail} :
        i2c_buf' = [i2c_buf EXCEPT ![i2c_buf_wr] = Stored(ok)]
  BY DEF TMR1_IRQHandler
<1>2. Fresh(Stored(ok))
  BY DEF Fresh, Stored, Stale
<1>3. /\ taken' = taken + 1 /\ Measuring
      /\ UNCHANGED <<rd24, pc, i2c_blk, run>>
  BY DEF TMR1_IRQHandler, Measuring
<1>4. i2c_buf_wr \in Slot /\ taken \in Nat /\ i2c_buf \in [Slot -> Sample]
  BY DEF TypeOK
<1>5. ASSUME NEW i \in Slot, i < taken' PROVE Fresh(i2c_buf[i])'
  <2>1. CASE i = i2c_buf_wr
    <3>1. i2c_buf'[i] = Stored(ok)
      BY <1>1, <1>4, <2>1
    <3> QED
      BY <1>2, <1>3, <3>1 DEF Fresh
  <2>2. CASE i # i2c_buf_wr
    <3>1. i2c_buf'[i] = i2c_buf[i]
      BY <1>1, <1>4, <2>2
    <3>2. i < taken
      BY <1>3, <1>4, <1>5, <2>2, BufSizeAssumption DEF Slot, ReadInv, RegionInv
    <3> QED
      BY <1>3, <3>1, <3>2 DEF FreshInv, Fresh
  <2> QED
    BY <2>1, <2>2
<1>6. InBlock' => \A k \in 1 .. Len(i2c_blk'.data) : Fresh(i2c_blk.data[k])'
  BY <1>3 DEF FreshInv, Fresh, InBlock
<1> QED
  BY <1>5, <1>6 DEF FreshInv

LEMMA FreshCopy ==
  ASSUME TypeOK, ReadInv, FreshInv, TaskCopy PROVE FreshInv'
<1> DEFINE s == i2c_blk.data
           x == i2c_buf[task.i]
<1>1. /\ pc = "copy" /\ i2c_blk'.data = Append(s, x)
      /\ UNCHANGED <<rd24, i2c_buf, run, taken>>
  BY DEF TaskCopy, TypeOK, ring
<1>2. s \in Seq(Sample) /\ x \in Sample
  BY DEF TypeOK
<1>3. Fresh(x) /\ \A k \in 1 .. Len(s) : Fresh(s[k])
  BY <1>1, CopiesWritten DEF FreshInv, InBlock
<1>4. /\ Len(s) \in Nat /\ Len(Append(s, x)) = Len(s) + 1
      /\ \A k \in 1 .. Len(s) : Append(s, x)[k] = s[k]
      /\ Append(s, x)[Len(s) + 1] = x
  BY <1>2
<1>5. \A i \in Slot : i < taken' => Fresh(i2c_buf[i])'
  BY <1>1, CopiesWritten DEF FreshInv, Fresh
<1> HIDE DEF s, x
<1>6. \A k \in 1 .. Len(s) + 1 : Fresh(Append(s, x)[k])
  <2> TAKE k \in 1 .. Len(s) + 1
  <2>1. k \in 1 .. Len(s) \/ k = Len(s) + 1
    BY <1>4
  <2> QED
    BY <1>3, <1>4, <2>1
<1>7. \A k \in 1 .. Len(i2c_blk'.data) : Fresh(i2c_blk.data[k])'
  BY <1>1, <1>4, <1>6 DEF Fresh
<1> QED
  BY <1>5, <1>7 DEF FreshInv

LEMMA FreshStep ==
  ASSUME FrdLive = FALSE, TypeOK, ReadInv, FreshInv, [Next]_vars
  PROVE  FreshInv'
<1>1. CASE TMR1_IRQHandler
  BY <1>1, FreshTick
<1>2. CASE \/ \E c \in Configs : CmdCfg(c)
           \/ CmdEcadOn \/ CmdQuiet \/ CmdPwrOff \/ StartRefused
           \/ \E wide \in BOOLEAN : CmdFrd(wide)
  <2>1. ~Measuring'
    BY <1>2 DEF CmdCfg, CmdEcadOn, CmdQuiet, CmdPwrOff, StartRefused, CmdFrd, Measuring
  <2> QED
    BY <2>1 DEF FreshInv
<1>3. CASE CmdReg \/ CmdUtr \/ BusDone \/ NoCmd \/ TaskReturn
  BY <1>3, FreshKept DEF CmdReg, CmdUtr, BusDone, NoCmd, TaskReturn, ring, unused, Measuring,
                         InBlock, ReadInv, OpenInv
<1>4. CASE Start
  <2>1. taken' = 0 /\ pc' = "task"
    BY <1>4 DEF Start, I2CDevFlushBuf
  <2> QED
    BY <2>1, BufSizeAssumption DEF FreshInv, InBlock, Slot
<1>5. CASE TaskCollect
  <2>1. /\ pc = "task" /\ BlockPending /\ Len(i2c_blk'.data) = 0
        /\ UNCHANGED <<rd24, i2c_buf, run, taken>>
    BY <1>5 DEF TaskCollect
  <2>2. Measuring
    BY <2>1 DEF BlockPending, ReadInv, OpenInv
  <2> QED
    BY <2>1, <2>2 DEF FreshInv, Fresh
<1>6. CASE TaskCopy
  BY <1>6, FreshCopy
<1>7. CASE TaskCopied \/ TaskSent \/ UNCHANGED vars
  BY <1>7, FreshKept DEF TaskCopied, TaskSent, vars, code, history, InBlock, Measuring
<1> QED
  BY <1>1, <1>2, <1>3, <1>4, <1>5, <1>6, <1>7 DEF Next, MainLoop

(***************************************************************************)
(* If the host changes the format only while nothing is measured, a block  *)
(* holds no sample of an earlier measurement and none in another format,   *)
(* however far the timer runs ahead and whichever reads fail.              *)
(***************************************************************************)
THEOREM BlocksAreFresh ==
  ASSUME FrdLive = FALSE
  PROVE  Spec => []FreshBlock
<1> DEFINE Inv == GateInv /\ FormatInv /\ ReadInv /\ FreshInv
<1>1. Init => Inv
  BY ReadInit DEF Init, GateInv, FormatInv, FreshInv, Measuring
<1>2. TypeOK /\ Inv /\ [Next]_vars => Inv'
  BY GateStep, FormatStep, ReadStep, FreshStep
<1>3. Inv => FreshBlock
  BY DEF FormatInv, FreshInv, FreshBlock, Fresh, InBlock, Measuring
<1> QED
  BY <1>1, <1>2, <1>3, TypeCorrect, PTL DEF Spec

-----------------------------------------------------------------------------
(***************************************************************************)
(* Which register a sample is of.  The register to read next and the slot  *)
(* to write next advance together, modulo the number of registers; so do   *)
(* the slot to copy next and the length of the block, which begins on a    *)
(* multiple: the task leaves 0 behind, or the end of a whole block.        *)
(***************************************************************************)
OfSlot(s, i) == s.good => s.reg = i % cfg.regs

PhaseInv ==
  Measuring /\ Aligned =>
    /\ raddr = i2c_buf_wr % cfg.regs
    /\ pc # "copy" => i2c_buf_rd % cfg.regs = 0
    /\ \A i \in Slot : i < taken => OfSlot(i2c_buf[i], i)
    /\ InBlock =>
         /\ task.rd = 0 \/ Pending(task.i, task.rd) = task.size
         /\ task.i % cfg.regs = Len(i2c_blk.data) % cfg.regs
         /\ \A k \in 1 .. Len(i2c_blk.data) : OfSlot(i2c_blk.data[k], k - 1)

\* A multiple and a remainder.
LEMMA ModSum ==
  ASSUME NEW r \in Nat \ {0}, NEW q \in Nat, NEW x \in 0 .. r - 1
  PROVE  (r * q + x) % r = x
BY SMTT(30)

\* One further, modulo the number of registers.
LEMMA ModNext ==
  ASSUME NEW a \in Nat, NEW r \in Nat \ {0}
  PROVE  /\ 0 % r = 0
         /\ a % r \in 0 .. r - 1
         /\ (a + 1) % r = IF (a % r) + 1 < r THEN (a % r) + 1 ELSE 0
<1> DEFINE q == a \div r
           x == a % r
<1>1. 0 % r = 0
  OBVIOUS
<1>2. x \in 0 .. r - 1
  OBVIOUS
<1>3. q \in Nat /\ a = r * q + x
  OBVIOUS
<1> HIDE DEF q, x
<1>4. CASE x + 1 < r
  <2>1. a + 1 = r * q + (x + 1) /\ x + 1 \in 0 .. r - 1
    BY <1>2, <1>3, <1>4
  <2> QED
    BY <1>1, <1>2, <1>3, <1>4, <2>1, ModSum DEF x
<1>5. CASE x + 1 = r
  <2>1. a + 1 = r * (q + 1) + 0
    BY <1>2, <1>3, <1>5
  <2>2. (r * (q + 1) + 0) % r = 0
    <3>1. q + 1 \in Nat /\ 0 \in 0 .. r - 1
      BY <1>3
    <3> QED
      BY <3>1, ModSum
  <2> QED
    BY <1>1, <1>2, <1>5, <2>1, <2>2 DEF x
<1> QED
  BY <1>2, <1>4, <1>5

\* The next slot has the next phase if the registers divide the ring.
LEMMA SuccPhase ==
  ASSUME NEW i \in Slot, Aligned, cfg.regs \in Nat
  PROVE  Succ(i) % cfg.regs = NextReg(i % cfg.regs)
<1>1. i \in Nat /\ cfg.regs \in Nat \ {0}
  BY BufSizeAssumption DEF Slot, Aligned
<1>2. (i + 1) % cfg.regs = NextReg(i % cfg.regs)
  BY <1>1, ModNext DEF NextReg
<1>3. 0 % cfg.regs = 0
  BY <1>1, ModNext
<1>4. CASE i + 1 = BufSize
  BY <1>2, <1>3, <1>4 DEF Succ, Aligned
<1> QED
  BY <1>2, <1>4 DEF Succ

LEMMA PhaseKept ==
  ASSUME PhaseInv, Measuring' => Measuring, ~InBlock', pc # "copy",
         UNCHANGED <<cfg, raddr, i2c_buf, i2c_buf_wr, i2c_buf_rd, taken>>
  PROVE  PhaseInv'
BY DEF PhaseInv, OfSlot, Aligned, InBlock

LEMMA PhaseTick ==
  ASSUME TypeOK, ReadInv, PhaseInv, TMR1_IRQHandler PROVE PhaseInv'
<1> SUFFICES ASSUME Aligned' PROVE PhaseInv'
  BY DEF PhaseInv
<1>1. PICK ok \in {TRUE, ~BusMayFail} :
        i2c_buf' = [i2c_buf EXCEPT ![i2c_buf_wr] = Stored(ok)]
  BY DEF TMR1_IRQHandler
<1>2. /\ taken' = taken + 1 /\ Measuring
      /\ i2c_buf_wr' = Succ(i2c_buf_wr) /\ raddr' = NextReg(raddr)
      /\ UNCHANGED <<cfg, i2c_buf_rd, pc, task, i2c_blk>>
  BY DEF TMR1_IRQHandler, Measuring
<1>3. /\ i2c_buf_wr \in Slot /\ taken \in Nat /\ i2c_buf \in [Slot -> Sample]
      /\ cfg.regs \in Nat
  BY RegsAssumption DEF TypeOK, Config
<1>4. Aligned
  BY <1>2 DEF Aligned
<1>5. /\ raddr = i2c_buf_wr % cfg.regs
      /\ pc # "copy" => i2c_buf_rd % cfg.regs = 0
      /\ \A i \in Slot : i < taken => OfSlot(i2c_buf[i], i)
      /\ InBlock =>
           /\ task.rd = 0 \/ Pending(task.i, task.rd) = task.size
           /\ task.i % cfg.regs = Len(i2c_blk.data) % cfg.regs
           /\ \A k \in 1 .. Len(i2c_blk.data) : OfSlot(i2c_blk.data[k], k - 1)
  BY <1>2, <1>4 DEF PhaseInv
<1>6. raddr' = i2c_buf_wr' % cfg'.regs
  BY <1>2, <1>3, <1>4, <1>5, SuccPhase
<1>7. Stored(ok).good => Stored(ok).reg = raddr
  BY DEF Stored, Stale
<1>8. ASSUME NEW i \in Slot, i < taken' PROVE OfSlot(i2c_buf[i], i)'
  <2>1. CASE i = i2c_buf_wr
    <3>1. i2c_buf'[i] = Stored(ok)
      BY <1>1, <1>3, <2>1
    <3> QED
      BY <1>2, <1>5, <1>7, <2>1, <3>1 DEF OfSlot
  <2>2. CASE i # i2c_buf_wr
    <3>1. i2c_buf'[i] = i2c_buf[i]
      BY <1>1, <1>3, <2>2
    <3>2. i < taken
      BY <1>2, <1>3, <1>8, <2>2, BufSizeAssumption DEF Slot, ReadInv, RegionInv
    <3> QED
      BY <1>2, <1>5, <3>1, <3>2 DEF OfSlot
  <2> QED
    BY <2>1, <2>2
<1>9. InBlock' =>
        /\ task'.rd = 0 \/ Pending(task.i, task.rd)' = task'.size
        /\ task'.i % cfg'.regs = Len(i2c_blk'.data) % cfg'.regs
        /\ \A k \in 1 .. Len(i2c_blk'.data) : OfSlot(i2c_blk.data[k], k - 1)'
  BY <1>2, <1>5 DEF InBlock, OfSlot, Pending
<1>10. pc' # "copy" => i2c_buf_rd' % cfg'.regs = 0
  BY <1>2, <1>5
<1> QED
  BY <1>6, <1>8, <1>9, <1>10 DEF PhaseInv

LEMMA PhaseCollect ==
  ASSUME TypeOK, ReadInv, PhaseInv, TaskCollect PROVE PhaseInv'
<1> SUFFICES ASSUME Aligned' PROVE PhaseInv'
  BY DEF PhaseInv
<1> DEFINE n == cfg.pktcnt
           rd == NewRd(i2c_buf_rd, i2c_buf_wr)
<1>1. /\ pc = "task" /\ pc' = "copy" /\ BlockPending
      /\ task' = [i |-> i2c_buf_rd, size |-> n, rd |-> rd]
      /\ i2c_blk' = [wide |-> rd24, data |-> <<>>]
      /\ UNCHANGED <<cfg, raddr, i2c_buf, i2c_buf_wr, i2c_buf_rd, taken>>
  BY DEF TaskCollect
<1>2. /\ i2c_buf_wr \in Slot /\ i2c_buf_rd \in Slot /\ n \in Nat /\ cfg.regs \in Nat
  BY RegsAssumption DEF TypeOK, Config
<1>3. Measuring /\ Aligned
  BY <1>1 DEF ReadInv, OpenInv, BlockPending, Aligned
<1>4. /\ raddr = i2c_buf_wr % cfg.regs
      /\ i2c_buf_rd % cfg.regs = 0
      /\ \A i \in Slot : i < taken => OfSlot(i2c_buf[i], i)
  BY <1>1, <1>3 DEF PhaseInv
<1>5. task'.i = i2c_buf_rd /\ task'.size = n /\ task'.rd = rd /\ Len(i2c_blk'.data) = 0
  BY <1>1
<1>6. rd = 0 \/ Pending(i2c_buf_rd, rd) = n
  BY <1>1, <1>2, BufSizeAssumption DEF NewRd, BlockPending, Pending, Slot
<1>7. task'.rd = 0 \/ Pending(task.i, task.rd)' = task'.size
  BY <1>5, <1>6 DEF Pending
<1>8. 0 % cfg.regs = 0
  BY <1>2, <1>3, ModNext DEF Aligned
<1>9. task'.i % cfg'.regs = Len(i2c_blk'.data) % cfg'.regs
  BY <1>1, <1>4, <1>5, <1>8
<1>10. \A i \in Slot : i < taken' => OfSlot(i2c_buf[i], i)'
  BY <1>1, <1>4 DEF OfSlot
<1> QED
  BY <1>1, <1>4, <1>5, <1>7, <1>9, <1>10 DEF PhaseInv

LEMMA PhaseCopy ==
  ASSUME TypeOK, ReadInv, PhaseInv, TaskCopy PROVE PhaseInv'
<1> SUFFICES ASSUME Aligned' PROVE PhaseInv'
  BY DEF PhaseInv
<1> DEFINE s == i2c_blk.data
           x == i2c_buf[task.i]
<1>1. /\ pc = "copy" /\ task.size > 0
      /\ task'.i = Succ(task.i) /\ task'.size = task.size - 1 /\ task'.rd = task.rd
      /\ i2c_blk'.data = Append(s, x)
      /\ UNCHANGED <<cfg, pc, raddr, i2c_buf, i2c_buf_wr, taken>>
  BY DEF TaskCopy, TypeOK, ring
<1>2. /\ task.i \in Slot /\ task.rd \in Slot /\ task.size \in Nat
      /\ s \in Seq(Sample) /\ x \in Sample /\ cfg.regs \in Nat
  BY RegsAssumption DEF TypeOK, Config
<1>3. Measuring /\ Aligned /\ task.i < taken
  BY <1>1, CopiesWritten DEF Aligned
<1>4. /\ raddr = i2c_buf_wr % cfg.regs
      /\ \A i \in Slot : i < taken => OfSlot(i2c_buf[i], i)
      /\ task.rd = 0 \/ Pending(task.i, task.rd) = task.size
      /\ task.i % cfg.regs = Len(s) % cfg.regs
      /\ \A k \in 1 .. Len(s) : OfSlot(s[k], k - 1)
  BY <1>1, <1>3 DEF PhaseInv, InBlock
<1>5. /\ Len(s) \in Nat /\ Len(Append(s, x)) = Len(s) + 1
      /\ \A k \in 1 .. Len(s) : Append(s, x)[k] = s[k]
      /\ Append(s, x)[Len(s) + 1] = x
  BY <1>2
<1> HIDE DEF s, x
<1>6. OfSlot(x, Len(s))
  BY <1>2, <1>3, <1>4 DEF OfSlot, x
<1>7. \A k \in 1 .. Len(s) + 1 : OfSlot(Append(s, x)[k], k - 1)
  <2> TAKE k \in 1 .. Len(s) + 1
  <2>1. CASE k \in 1 .. Len(s)
    BY <1>4, <1>5, <2>1
  <2>2. CASE k = Len(s) + 1
    <3>1. k - 1 = Len(s)
      BY <1>5, <2>2
    <3> QED
      BY <1>5, <1>6, <2>2, <3>1
  <2> QED
    BY <1>5, <2>1, <2>2
<1>8. \A k \in 1 .. Len(i2c_blk'.data) : OfSlot(i2c_blk.data[k], k - 1)'
  BY <1>1, <1>5, <1>7 DEF OfSlot
<1>9. Succ(task.i) % cfg.regs = (Len(s) + 1) % cfg.regs
  <2>1. Succ(task.i) % cfg.regs = NextReg(task.i % cfg.regs)
    BY <1>2, <1>3, SuccPhase
  <2>2. (Len(s) + 1) % cfg.regs = NextReg(Len(s) % cfg.regs)
    <3>1. Len(s) \in Nat /\ cfg.regs \in Nat \ {0}
      BY <1>2, <1>3, <1>5 DEF Aligned
    <3> QED
      BY <3>1, ModNext DEF NextReg
  <2> QED
    BY <1>4, <2>1, <2>2
<1>10. task'.i % cfg'.regs = Len(i2c_blk'.data) % cfg'.regs
  BY <1>1, <1>5, <1>9
<1>11. task'.rd = 0 \/ Pending(task.i, task.rd)' = task'.size
  <2>1. CASE Pending(task.i, task.rd) = task.size
    <3>1. Pending(Succ(task.i), task.rd) = task.size - 1
      BY <1>1, <1>2, <2>1, PendingNext
    <3> QED
      BY <1>1, <3>1 DEF Pending
  <2> QED
    BY <1>1, <1>4, <2>1
<1>12. \A i \in Slot : i < taken' => OfSlot(i2c_buf[i], i)'
  BY <1>1, <1>4 DEF OfSlot
<1> QED
  BY <1>1, <1>4, <1>8, <1>10, <1>11, <1>12 DEF PhaseInv

LEMMA PhaseCopied ==
  ASSUME TypeOK, ReadInv, PhaseInv, TaskCopied PROVE PhaseInv'
<1> SUFFICES ASSUME Aligned' PROVE PhaseInv'
  BY DEF PhaseInv
<1>1. /\ pc = "copy" /\ pc' = "send" /\ task.size = 0 /\ i2c_buf_rd' = task.rd
      /\ UNCHANGED <<cfg, timer_flg, tmp, raddr, i2c_buf, i2c_buf_wr, task, i2c_blk, taken>>
  BY DEF TaskCopied, history
<1>2. Measuring /\ Aligned /\ Len(i2c_blk.data) + task.size = cfg.pktcnt
  BY <1>1 DEF ReadInv, OpenInv, InBlock, Measuring, Aligned
<1>3. /\ raddr = i2c_buf_wr % cfg.regs
      /\ \A i \in Slot : i < taken => OfSlot(i2c_buf[i], i)
      /\ task.rd = 0 \/ Pending(task.i, task.rd) = task.size
      /\ task.i % cfg.regs = Len(i2c_blk.data) % cfg.regs
      /\ \A k \in 1 .. Len(i2c_blk.data) : OfSlot(i2c_blk.data[k], k - 1)
  BY <1>1, <1>2 DEF PhaseInv, InBlock
<1>4. task.i \in Slot /\ task.rd \in Slot /\ cfg.regs \in Nat /\ Len(i2c_blk.data) \in Nat
  BY RegsAssumption, BlockData DEF TypeOK, Config
<1>5. task.rd % cfg.regs = 0
  <2>1. CASE task.rd = 0
    BY <1>2, <1>4, <2>1, ModNext DEF Aligned
  <2>2. CASE Pending(task.i, task.rd) = task.size
    <3>1. task.rd = task.i
      BY <1>1, <1>4, <2>2, PendingBounds
    <3>2. Len(i2c_blk.data) = cfg.pktcnt
      BY <1>1, <1>2, <1>4
    <3> QED
      BY <1>2, <1>3, <3>1, <3>2 DEF Aligned
  <2> QED
    BY <1>3, <2>1, <2>2
<1>6. /\ raddr' = i2c_buf_wr' % cfg'.regs
      /\ i2c_buf_rd' % cfg'.regs = 0
      /\ task'.rd = 0 \/ Pending(task.i, task.rd)' = task'.size
      /\ task'.i % cfg'.regs = Len(i2c_blk'.data) % cfg'.regs
  BY <1>1, <1>3, <1>5 DEF Pending
<1>7. /\ \A i \in Slot : i < taken' => OfSlot(i2c_buf[i], i)'
      /\ \A k \in 1 .. Len(i2c_blk'.data) : OfSlot(i2c_blk.data[k], k - 1)'
  BY <1>1, <1>3 DEF OfSlot
<1> QED
  BY <1>6, <1>7 DEF PhaseInv

LEMMA PhaseStep == TypeOK /\ ReadInv /\ PhaseInv /\ [Next]_vars => PhaseInv'
<1> SUFFICES ASSUME TypeOK, ReadInv, PhaseInv, [Next]_vars PROVE PhaseInv'
  OBVIOUS
<1>1. CASE TMR1_IRQHandler
  BY <1>1, PhaseTick
<1>2. CASE \/ \E c \in Configs : CmdCfg(c)
           \/ CmdEcadOn \/ CmdQuiet \/ CmdPwrOff \/ StartRefused
  <2>1. ~Measuring'
    BY <1>2 DEF CmdCfg, CmdEcadOn, CmdQuiet, CmdPwrOff, StartRefused, Measuring
  <2> QED
    BY <2>1 DEF PhaseInv
<1>3. CASE CmdReg \/ CmdUtr \/ BusDone \/ NoCmd \/ TaskReturn
  BY <1>3, PhaseKept DEF CmdReg, CmdUtr, BusDone, NoCmd, TaskReturn, ring, unused, Measuring,
                         InBlock, ReadInv, OpenInv
<1>4. ASSUME NEW wide \in BOOLEAN, CmdFrd(wide) PROVE PhaseInv'
  BY <1>4, PhaseKept DEF CmdFrd, ring, unused, Measuring, InBlock
<1>5. CASE Start
  <2>1. /\ taken' = 0 /\ pc' = "task" /\ raddr' = 0 /\ i2c_buf_wr' = 0 /\ i2c_buf_rd' = 0
    BY <1>5 DEF Start, I2CDevFlushBuf
  <2>2. cfg'.regs \in Nat
    BY <1>5, TypeStep, RegsAssumption DEF TypeOK, Config
  <2>3. Aligned' => 0 % cfg'.regs = 0
    BY <2>2, ModNext DEF Aligned
  <2> QED
    BY <2>1, <2>3, BufSizeAssumption DEF PhaseInv, InBlock, Slot
<1>6. CASE TaskCollect
  BY <1>6, PhaseCollect
<1>7. CASE TaskCopy
  BY <1>7, PhaseCopy
<1>8. CASE TaskCopied
  BY <1>8, PhaseCopied
<1>9. CASE TaskSent
  BY <1>9, PhaseKept DEF TaskSent, Measuring, InBlock
<1>10. CASE UNCHANGED vars
  BY <1>10 DEF vars, code, history, PhaseInv, OfSlot, Aligned, InBlock, Measuring, Pending
<1> QED
  BY <1>1, <1>2, <1>3, <1>4, <1>5, <1>6, <1>7, <1>8, <1>9, <1>10 DEF Next, MainLoop

(***************************************************************************)
(* If the registers divide the ring and the block, the place of a sample   *)
(* in its block says which register it is of, for any number of registers  *)
(* and through any overruns, lost samples and failed reads.                *)
(***************************************************************************)
THEOREM PlaceNamesRegister == Spec => []ChannelPhase
<1>1. Init => ReadInv /\ PhaseInv
  BY ReadInit DEF Init, PhaseInv, Measuring
<1>2. TypeOK /\ ReadInv /\ PhaseInv /\ [Next]_vars => ReadInv' /\ PhaseInv'
  BY ReadStep, PhaseStep
<1>3. ReadInv /\ PhaseInv => ChannelPhase
  BY DEF ReadInv, OpenInv, PhaseInv, ChannelPhase, OfSlot, InBlock, Measuring
<1> QED
  BY <1>1, <1>2, <1>3, TypeCorrect, PTL DEF Spec

-----------------------------------------------------------------------------
(***************************************************************************)
(* The path as a whole.  If the timer waits for a complete block to be     *)
(* collected and the ring holds two blocks, no block is lapped while it is *)
(* copied and nothing is stepped over, so that a block is the next pktcnt  *)
(* samples.  The format may change at any time.                            *)
(***************************************************************************)
TwoBlocks == 2 * MaxPkt16 <= BufSize /\ 2 * MaxPkt24 <= BufSize

WholeBlock ==
  /\ Measuring => 2 * cfg.pktcnt <= BufSize
  /\ InBlock => Pending(task.i, task.rd) = task.size
  /\ pc = "send" => task.size = 0

\* Outside I2CDevTask, but for the set-up, only the gate matters.
LEMMA WholeKept ==
  ASSUME WholeBlock, Measuring' => Measuring /\ cfg' = cfg, ~InBlock'
  PROVE  WholeBlock'
BY DEF WholeBlock, InBlock

LEMMA WholeCommand ==
  ASSUME TypeOK, ReadInv, WholeBlock,
         \/ \E c \in Configs : CmdCfg(c)
         \/ CmdEcadOn \/ CmdQuiet \/ CmdPwrOff \/ CmdReg \/ CmdUtr \/ BusDone
         \/ \E wide \in BOOLEAN : CmdFrd(wide)
         \/ NoCmd \/ TaskReturn \/ StartRefused
  PROVE  WholeBlock'
<1> USE DEF Measuring, InBlock
<1>1. ASSUME NEW c \in Configs, CmdCfg(c) PROVE WholeBlock'
  BY <1>1, WholeKept DEF CmdCfg
<1>2. CASE CmdEcadOn \/ CmdQuiet \/ CmdPwrOff \/ StartRefused
  BY <1>2, WholeKept DEF CmdEcadOn, CmdQuiet, CmdPwrOff, StartRefused
<1>3. CASE CmdReg \/ CmdUtr \/ BusDone \/ NoCmd \/ TaskReturn
  BY <1>3, WholeKept DEF CmdReg, CmdUtr, BusDone, NoCmd, TaskReturn, ring
<1>4. ASSUME NEW wide \in BOOLEAN, CmdFrd(wide) PROVE WholeBlock'
  BY <1>4, WholeKept DEF CmdFrd, ring
<1> QED
  BY <1>1, <1>2, <1>3, <1>4

LEMMA WholeStart ==
  ASSUME TwoBlocks, TypeOK, Start PROVE WholeBlock'
<1> DEFINE n == Clamp(cfg.pktcnt)
<1>1. n \in Nat /\ 2 * n <= BufSize
  <2>1. cfg.pktcnt \in Nat
    BY DEF TypeOK, Config
  <2>2. n \in Nat /\ n <= IF rd24 THEN MaxPkt24 ELSE MaxPkt16
    BY <2>1, ClampBounds
  <2> HIDE DEF n
  <2> QED
    BY <2>2, PktAssumption, BufSizeAssumption DEF TwoBlocks
<1>2. PICK initOk \in BOOLEAN :
        /\ cfg' = [cfg EXCEPT !.pktcnt = IF initOk THEN n ELSE 0]
        /\ timer_flg' = (initOk /\ n > 0 /\ cfg.regs > 0)
  BY DEF Start
<1>3. cfg'.pktcnt = IF initOk THEN n ELSE 0
  BY <1>2 DEF TypeOK, Config
<1>4. pc' = "task" /\ i2c_buf_wr' = 0 /\ i2c_buf_rd' = 0
  BY DEF Start, I2CDevFlushBuf
<1> HIDE DEF n
<1>5. 2 * cfg'.pktcnt <= BufSize
  BY <1>1, <1>3, BufSizeAssumption
<1> QED
  BY <1>4, <1>5 DEF WholeBlock, InBlock

LEMMA WholeTask ==
  ASSUME TypeOK, AccountInv, ReadInv, WholeBlock,
         TaskCollect \/ TaskCopy \/ TaskCopied \/ TaskSent
  PROVE  WholeBlock'
<1>1. CASE TaskCollect
  <2> DEFINE n == cfg.pktcnt
             rd == NewRd(i2c_buf_rd, i2c_buf_wr)
  <2>1. /\ pc = "task" /\ pc' = "copy" /\ BlockPending
        /\ task' = [i |-> i2c_buf_rd, size |-> n, rd |-> rd]
        /\ i2c_blk' = [wide |-> rd24, data |-> <<>>]
        /\ UNCHANGED <<cfg, timer_flg, tmp, i2c_buf_wr, i2c_buf_rd>>
    BY <1>1 DEF TaskCollect
  <2>2. /\ i2c_buf_wr \in Slot /\ i2c_buf_rd \in Slot
        /\ taken \in Nat /\ pos \in Nat /\ n \in Nat
    BY DEF TypeOK, Config
  <2>3. taken = pos + Pending(i2c_buf_rd, i2c_buf_wr) /\ taken <= pos + n
    BY <2>1 DEF AccountInv, AllInRing, AtMostABlock, BlockPending
  <2>4. Pending(i2c_buf_rd, i2c_buf_wr) = n
    BY <2>1, <2>2, <2>3, PendingBounds DEF BlockPending
  <2>5. Pending(i2c_buf_rd, rd) = n
    BY <2>2, <2>4, NewRdExact
  <2>6. /\ task'.i = i2c_buf_rd /\ task'.size = n /\ task'.rd = rd
        /\ Len(i2c_blk'.data) = 0
    BY <2>1
  <2>7. Pending(task.i, task.rd)' = n
    BY <2>5, <2>6 DEF Pending
  <2>8. Measuring
    BY <2>1 DEF ReadInv, OpenInv, BlockPending
  <2> HIDE DEF rd
  <2> QED
    BY <2>1, <2>2, <2>6, <2>7, <2>8 DEF WholeBlock, Measuring, InBlock
<1>2. CASE TaskCopy
  <2>1. /\ pc = "copy" /\ task.size > 0
        /\ task'.i = Succ(task.i) /\ task'.size = task.size - 1 /\ task'.rd = task.rd
        /\ UNCHANGED <<cfg, timer_flg, tmp, pc>>
    BY <1>2 DEF TaskCopy, TypeOK, ring
  <2>2. task.i \in Slot /\ task.rd \in Slot /\ task.size \in Nat
    BY DEF TypeOK
  <2>3. Pending(task.i, task.rd) = task.size
    BY <2>1 DEF WholeBlock, InBlock
  <2>4. Pending(Succ(task.i), task.rd) = task.size - 1
    BY <2>1, <2>2, <2>3, PendingNext
  <2>5. Pending(task.i, task.rd)' = task'.size
    BY <2>1, <2>4 DEF Pending
  <2> QED
    BY <2>1, <2>5 DEF WholeBlock, Measuring, InBlock
<1>3. CASE TaskCopied
  BY <1>3 DEF TaskCopied, history, WholeBlock, Measuring, InBlock, Pending
<1>4. CASE TaskSent
  BY <1>4 DEF TaskSent, WholeBlock, Measuring, InBlock
<1> QED
  BY <1>1, <1>2, <1>3, <1>4

LEMMA WholeStep ==
  ASSUME TwoBlocks, TypeOK, AccountInv, ReadInv, WholeBlock, [Next]_vars
  PROVE  WholeBlock'
<1>1. CASE TMR1_IRQHandler
  <2>1. timer_flg /\ UNCHANGED <<cfg, timer_flg, i2c_buf_rd, pc, tmp, task, i2c_blk>>
    BY <1>1 DEF TMR1_IRQHandler
  <2> QED
    BY <2>1 DEF WholeBlock, Measuring, InBlock, Pending
<1>2. CASE UNCHANGED vars
  BY <1>2 DEF vars, code, history, WholeBlock, Measuring, InBlock, Pending
<1> QED
  BY <1>1, <1>2, WholeCommand, WholeStart, WholeTask DEF Next, MainLoop

PathInv == TypeOK /\ AccountInv /\ NumberInv /\ ReadInv /\ WholeBlock

LEMMA PathInit == Init => PathInv
BY TypeInit, AccountInit, NumberInit, ReadInit DEF PathInv, Init, WholeBlock, Measuring, InBlock

LEMMA PathStep ==
  ASSUME MaxLag = 0, TwoBlocks, PathInv, [Next]_vars PROVE PathInv'
BY TypeStep, AccountStep, NumberStep, ReadStep, WholeStep DEF PathInv

\* The block that is offered is the one SampleStream expects.
LEMMA BlockOffered ==
  ASSUME PathInv, pc = "send"
  PROVE  /\ cfg.pktcnt \in Nat \ {0}
         /\ Len(i2c_blk.data) = cfg.pktcnt
         /\ accounted + cfg.pktcnt <= taken
         /\ [k \in 1 .. Len(i2c_blk.data) |-> i2c_blk.data[k].seq]
              = [k \in 1 .. cfg.pktcnt |-> accounted + k - 1]
<1> DEFINE n == cfg.pktcnt
<1>1. /\ n \in Nat /\ taken \in Nat /\ pos \in Nat /\ accounted \in Nat
      /\ task.rd \in Slot /\ i2c_buf_wr \in Slot
  BY DEF PathInv, TypeOK, Config
<1>2. timer_flg /\ task.size = 0 /\ Len(i2c_blk.data) + task.size = n
      /\ Pending(task.i, task.rd) = task.size /\ 2 * n <= BufSize
  BY DEF PathInv, ReadInv, OpenInv, WholeBlock, InBlock, Measuring
<1>3. /\ taken = pos + Pending(task.rd, i2c_buf_wr)
      /\ pos = accounted + Len(i2c_blk.data) + task.size
      /\ n > 0 /\ taken <= pos + n
  BY DEF PathInv, AccountInv, BlockUnderWay, AtMostABlock
<1>4. Len(i2c_blk.data) \in Nat /\ Pending(task.rd, i2c_buf_wr) \in Nat
  BY <1>1, BlockData, PendingBounds DEF PathInv
<1>5. Len(i2c_blk.data) = n /\ pos = accounted + n /\ accounted + n <= taken
  BY <1>1, <1>2, <1>3, <1>4
<1>6. First = accounted
  BY <1>1, <1>2, <1>5 DEF First
<1>7. NotLapped
  BY <1>1, <1>2, <1>3, <1>5, <1>6, BufSizeAssumption DEF NotLapped
<1>8. \A k \in 1 .. n : i2c_blk.data[k].seq = accounted + k - 1
  BY <1>5, <1>6, <1>7 DEF PathInv, NumberInv, BlockInv, InBlock
<1> QED
  BY SMTT(60), <1>1, <1>3, <1>5, <1>8

LEMMA StreamStep ==
  ASSUME MaxLag = 0, PathInv, [Next]_vars PROVE [Stream!Next]_(Stream!vars)
<1> USE DEF Stream!vars
<1>1. CASE TMR1_IRQHandler
  <2>1. /\ timer_flg /\ taken < pos + cfg.pktcnt + 0 /\ taken' = taken + 1
        /\ UNCHANGED <<cfg, pc, accounted, delivered, status>>
    BY <1>1 DEF TMR1_IRQHandler, Timely
  <2>2. pc # "start"
    BY <2>1 DEF PathInv, AccountInv, GateInv
  <2>3. taken >= pos
    <3>1. /\ Pending(i2c_buf_rd, i2c_buf_wr) \in Nat
          /\ Pending(task.rd, i2c_buf_wr) \in Nat /\ pos \in Nat
      BY PendingBounds DEF PathInv, TypeOK
    <3> QED
      BY <3>1 DEF PathInv, AccountInv, AllInRing, BlockUnderWay
  <2>4. cfg.pktcnt > 0
    BY <2>1, <2>3 DEF PathInv, TypeOK, Config
  <2>5. Stream!Take
    BY <2>1, <2>2, <2>4 DEF Stream!Take
  <2> QED
    BY <2>5 DEF Stream!Next
<1>2. CASE (\E c \in Configs : CmdCfg(c)) \/ CmdEcadOn \/ CmdQuiet
  <2>1. pc' = "start" /\ UNCHANGED <<taken, accounted, delivered, status>>
    BY <1>2 DEF CmdCfg, CmdEcadOn, CmdQuiet, ring, unused
  <2>2. Stream!Stop
    BY <2>1 DEF Stream!Stop
  <2> QED
    BY <2>2 DEF Stream!Next
<1>3. Off(cfg).pktcnt = 0
  BY DEF Off, PathInv, TypeOK, Config
<1>4. CASE CmdPwrOff
  <2>1. pc' = "bus" /\ cfg' = Off(cfg) /\ status' = status
    BY <1>4 DEF CmdPwrOff, unused
  <2>2. CASE UNCHANGED ring
    <3>1. Stream!Stop
      BY <1>3, <2>1, <2>2 DEF Stream!Stop, ring
    <3> QED
      BY <3>1 DEF Stream!Next
  <2>3. CASE I2CDevFlushBuf
    <3>1. Stream!Clear
      BY <1>3, <2>1, <2>3 DEF Stream!Clear, I2CDevFlushBuf
    <3> QED
      BY <3>1 DEF Stream!Next
  <2> QED
    BY <1>4, <2>2, <2>3 DEF CmdPwrOff
<1>5. CASE StartRefused
  <2>1. Stream!Stop
    BY <1>3, <1>5 DEF StartRefused, Stream!Stop, ring, unused
  <2> QED
    BY <2>1 DEF Stream!Next
<1>6. CASE Start
  <2> DEFINE n == Clamp(cfg.pktcnt)
  <2>1. n \in Nat
    BY ClampBounds DEF PathInv, TypeOK, Config
  <2>2. PICK initOk \in BOOLEAN :
          cfg' = [cfg EXCEPT !.pktcnt = IF initOk THEN n ELSE 0]
    BY <1>6 DEF Start
  <2>3. cfg'.pktcnt = IF initOk THEN n ELSE 0
    BY <2>2 DEF PathInv, TypeOK, Config
  <2>4. /\ pc' = "task" /\ taken' = 0 /\ accounted' = 0 /\ delivered' = <<>>
        /\ status' = IF n > 0 THEN [read |-> 0, over |-> 0] ELSE status
    BY <1>6 DEF Start, I2CDevFlushBuf
  <2>5. status'.over = IF n > 0 THEN 0 ELSE status.over
    BY <2>4
  <2> HIDE DEF n
  <2>6. CASE initOk /\ n > 0
    <3>1. Stream!Start
      BY <2>1, <2>3, <2>4, <2>5, <2>6 DEF Stream!Start
    <3> QED
      BY <3>1 DEF Stream!Next
  <2>7. CASE ~(initOk /\ n > 0)
    <3>1. cfg'.pktcnt = 0
      BY <2>1, <2>3, <2>7
    <3>2. Stream!Clear
      BY <2>4, <2>5, <3>1 DEF Stream!Clear
    <3> QED
      BY <3>2 DEF Stream!Next
  <2> QED
    BY <2>6, <2>7
<1>7. CASE \/ CmdReg \/ CmdUtr \/ BusDone \/ (\E wide \in BOOLEAN : CmdFrd(wide))
           \/ NoCmd \/ TaskReturn
  <2>1. /\ pc # "start" /\ pc' # "start"
        /\ UNCHANGED <<cfg, taken, accounted, delivered, status>>
    BY <1>7 DEF CmdReg, CmdUtr, BusDone, CmdFrd, NoCmd, TaskReturn, ring, unused
  <2> QED
    BY <2>1
<1>8. CASE TaskCollect \/ TaskCopy \/ TaskCopied
  <2>1. /\ pc # "start" /\ pc' # "start"
        /\ UNCHANGED <<cfg, taken, accounted, delivered, status>>
    BY <1>8 DEF TaskCollect, TaskCopy, TaskCopied, ring, history
  <2> QED
    BY <2>1
<1>9. CASE TaskSent
  <2> DEFINE s == [k \in 1 .. Len(i2c_blk.data) |-> i2c_blk.data[k].seq]
  <2>1. /\ pc = "send" /\ pc' = "cmd"
        /\ accounted' = accounted + Len(i2c_blk.data)
        /\ UNCHANGED <<cfg, taken>>
        /\ \/ status' = [status EXCEPT !.read = @ + 1] /\ delivered' = delivered \o s
           \/ status' = [status EXCEPT !.over = @ + 1] /\ delivered' = delivered
    BY <1>9 DEF TaskSent
  <2>2. /\ cfg.pktcnt \in Nat \ {0} /\ Len(i2c_blk.data) = cfg.pktcnt
        /\ accounted + cfg.pktcnt <= taken
        /\ s = [k \in 1 .. cfg.pktcnt |-> accounted + k - 1]
    BY <2>1, BlockOffered
  <2>3. status \in [read : Nat, over : Nat]
    BY DEF PathInv, TypeOK
  <2> HIDE DEF s
  <2>4. CASE status' = [status EXCEPT !.read = @ + 1] /\ delivered' = delivered \o s
    <3>1. status'.over = status.over
      BY <2>3, <2>4
    <3>2. Stream!Deliver
      BY <2>1, <2>2, <2>4, <3>1 DEF Stream!Deliver, Stream!BlockReady, Stream!Block
    <3> QED
      BY <3>2 DEF Stream!Next
  <2>5. CASE status' = [status EXCEPT !.over = @ + 1] /\ delivered' = delivered
    <3>1. status'.over = status.over + 1
      BY <2>3, <2>5
    <3>2. Stream!Lose
      BY <2>1, <2>2, <2>5, <3>1 DEF Stream!Lose, Stream!BlockReady
    <3> QED
      BY <3>2 DEF Stream!Next
  <2> QED
    BY <2>1, <2>4, <2>5
<1>10. CASE UNCHANGED vars
  BY <1>10 DEF vars, code, history
<1> QED
  BY <1>1, <1>2, <1>4, <1>5, <1>6, <1>7, <1>8, <1>9, <1>10 DEF Next, MainLoop

(***************************************************************************)
(* With a prompt main loop and a ring of two blocks, the rings, indices    *)
(* and interrupts of SampleRing implement SampleStream: samples are handed *)
(* over in order, in whole blocks, none twice, each lost block counted.    *)
(***************************************************************************)
THEOREM PromptImplementsStream ==
  ASSUME MaxLag = 0, TwoBlocks
  PROVE  Spec => StreamSpec
<1>1. Init => PathInv
  BY PathInit
<1>2. PathInv /\ [Next]_vars => PathInv'
  BY PathStep
<1>3. Init => Stream!Init
  BY ConfigsAssumption DEF Init, Stream!Init, Config
<1>4. PathInv /\ [Next]_vars => [Stream!Next]_(Stream!vars)
  BY StreamStep
<1> QED
  BY <1>1, <1>2, <1>3, <1>4, PTL DEF Spec, StreamSpec, Stream!Spec
=============================================================================
